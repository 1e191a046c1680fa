--------------------------- MODULE MCJobProcess ---------------------------
(* Small instances of JobProcess. *)
EXTENDS JobProcess
============================================================================
