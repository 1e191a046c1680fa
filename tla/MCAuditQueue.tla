--------------------------- MODULE MCAuditQueue ---------------------------
(* Instances of AuditQueue for TLC. *)
EXTENDS AuditQueue, TLC

CONSTANTS w1, w2, j1, j2, j3, r1, a1, h1, s1, s2

TwoWorkers == {w1, w2}
WorkerSymmetry == Permutations(TwoWorkers)

\* Two jobs of the supervisor's run: the same action tried on two states, once
\* in the heavy lane, which the quarantine does not stop.
RacePriority == [j \in Jobs |-> 0]
RaceRun      == [j \in Jobs |-> r1]
RaceAction   == [j \in Jobs |-> a1]
RaceHash     == [j \in Jobs |-> h1]
RaceState    == [j \in Jobs |-> IF j = j1 THEN s1 ELSE s2]
RaceLane     == [j \in Jobs |-> IF j = j2 THEN "heavy" ELSE "source_check"]

\* Three jobs of one action, one of them more urgent.
CapsLane     == [j \in Jobs |-> "source_check"]
CapsPriority == [j \in Jobs |-> IF j = j3 THEN 1 ELSE 0]
============================================================================
