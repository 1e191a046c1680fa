-------------------------- MODULE MCKernelSession --------------------------
(* Small runs of KernelSession, with observations as model values.           *)
EXTENDS KernelSession

CONSTANTS a, b, c

\* Every observation has an index of its own.
Faithful == [o \in Obs |-> o]

\* The observations a and b collide.
Colliding == [o \in Obs |-> IF o = b THEN a ELSE o]
=============================================================================
