------------------------- MODULE RecoveryContract -------------------------
(***************************************************************************)
(* What a recovery coordinator promises its callers, without epochs held   *)
(* by anybody, replay plans, stages or snapshots: a publish in doubt       *)
(* becomes a debt, the debt is settled exactly once and within a fixed     *)
(* budget of attempts, and the settlement is receipted exactly once.       *)
(***************************************************************************)
EXTENDS Integers

CONSTANT Budget     \* attempts a debt may take

VARIABLES
    phase,      \* "ready", "busy", "owed", "recovered", "blocked", "poisoned"
    attempts,   \* attempts started on the debt
    receipt,    \* "none", "live" or "spent"
    tampered    \* the change in doubt is not the one that was asked for

contractVars == <<phase, attempts, receipt, tampered>>

Init ==
    /\ phase = "ready" /\ attempts = 0 /\ receipt = "none"
    /\ tampered \in BOOLEAN

Begin ==
    /\ phase = "ready"
    /\ phase' = "busy"
    /\ UNCHANGED <<attempts, receipt, tampered>>

\* A publish ends without a doubt, with a debt, or unusable.
End ==
    /\ phase = "busy"
    /\ phase' \in {"ready", "owed", "poisoned"}
    /\ UNCHANGED <<attempts, receipt, tampered>>

Attempt ==
    /\ phase = "owed"
    /\ attempts < Budget
    /\ attempts' = attempts + 1
    /\ UNCHANGED <<phase, receipt, tampered>>

Recover ==
    /\ phase = "owed" /\ attempts >= 1 /\ ~ tampered
    /\ phase' = "recovered" /\ receipt' = "live"
    /\ UNCHANGED <<attempts, tampered>>

\* Recovery is given up only for cause: the budget is spent, or the change
\* that was observed is the wrong one.
Block ==
    /\ phase = "owed" /\ attempts >= 1
    /\ attempts = Budget \/ tampered
    /\ phase' = "blocked" /\ receipt' = "live"
    /\ UNCHANGED <<attempts, tampered>>

Spend ==
    /\ receipt = "live"
    /\ receipt' = "spent"
    /\ UNCHANGED <<phase, attempts, tampered>>

Next == Begin \/ End \/ Attempt \/ Recover \/ Block \/ Spend

Spec == Init /\ [][Next]_contractVars
============================================================================
