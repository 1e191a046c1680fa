---------------------------- MODULE MCBulkQueue ----------------------------
(* Instances of BulkQueue for TLC: jobs of one run that try one action on    *)
(* different states.                                                        *)
EXTENDS BulkQueue

CONSTANTS w1, j1, j2, r1, a1, h1

SamePriority == [j \in Jobs |-> 0]
SameRun      == [j \in Jobs |-> r1]
SameAction   == [j \in Jobs |-> a1]
SameHash     == [j \in Jobs |-> h1]
OwnState     == [j \in Jobs |-> j]
SourceLane   == [j \in Jobs |-> "source_check"]
============================================================================
