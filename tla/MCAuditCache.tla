---------------------------- MODULE MCAuditCache ----------------------------
(* Instances of AuditCache for TLC. *)
EXTENDS AuditCache, TLC

CONSTANTS r1, r2, t1, w1, w2, manifest, artifact

HomeOfTwo == w1 :> r1 @@ w2 :> r2
\* All files are hashed and read alike.
FileSymmetry == Permutations(Files)
============================================================================
