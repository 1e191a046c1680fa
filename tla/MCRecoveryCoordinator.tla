----------------------- MODULE MCRecoveryCoordinator -----------------------
(* Instances of RecoveryCoordinator for TLC. *)
EXTENDS RecoveryCoordinator, TLC

CONSTANTS t1, t2, n1, n2, empty, short

TwoThreads == {t1, t2}
TwoNonces  == {n1, n2}

\* An empty payload and one that takes two or three writes.
PayloadSize == [p \in {empty, short} |-> IF p = empty THEN 0 ELSE 3]

CoordinatorSymmetry == Permutations(TwoThreads) \cup Permutations(TwoNonces)
============================================================================
