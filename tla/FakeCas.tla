------------------------------ MODULE FakeCas ------------------------------
(***************************************************************************)
(* The in-memory compare-and-swap cell of                                  *)
(* evals/uprime_rpc_fake_cas_kernel.py: one cell, a generation, and a      *)
(* transition that is a pure function of the cell, the version the caller  *)
(* expects, the payload it proposes and a synthetic directive.             *)
(*                                                                         *)
(* state_version_sha256 is a digest of the generation and the payload; it  *)
(* is modelled as the pair itself (digests do not collide).  The outcome   *)
(* row's descriptive columns are functions of the outcome and left out.    *)
(***************************************************************************)
EXTENDS Integers

CONSTANTS
    Payloads,       \* byte strings
    NoPayload,      \* cell_payload of an absent cell, an alternate of None
    MaxGeneration   \* _MAX_GENERATION

ASSUME CasAssumption ==
    /\ NoPayload \notin Payloads
    /\ MaxGeneration \in Nat \ {0}

\* _validate_state: an absent cell has generation 0, a present one a later one.
CasStates ==
    [generation : {0}, payload : {NoPayload}]
        \cup [generation : 1..MaxGeneration, payload : Payloads]

Version(cell) == cell

Directives == {"apply_intended_acknowledge",
               "apply_intended_lose_ack_then_confirm",
               "apply_intended_lose_ack_confirmation_unavailable",
               "substitute_alternate_then_confirm_wrong_delta"}

CasOutcomes == {"conflict_no_change", "existing_identical_no_change",
                "intended_applied_acknowledged",
                "intended_applied_ack_lost_confirmed",
                "intended_applied_ack_lost_unconfirmed",
                "wrong_delta_confirmed"}

Substitutes(directive) ==
    directive = "substitute_alternate_then_confirm_wrong_delta"

\* The outcome of a matched transition that changes the cell.
ChangedOutcome(directive) ==
    CASE directive = "apply_intended_acknowledge" ->
             "intended_applied_acknowledged"
      [] directive = "apply_intended_lose_ack_then_confirm" ->
             "intended_applied_ack_lost_confirmed"
      [] directive = "apply_intended_lose_ack_confirmation_unavailable" ->
             "intended_applied_ack_lost_unconfirmed"
      [] directive = "substitute_alternate_then_confirm_wrong_delta" ->
             "wrong_delta_confirmed"

\* The version matches and the payload is not already current.
Changes(cell, expected, proposal) ==
    expected = Version(cell) /\ cell.payload # proposal

\* A changing transition the kernel refuses.
CasRaises(cell, expected, proposal, directive, alternate) ==
    /\ Changes(cell, expected, proposal)
    /\ \/ Substitutes(directive) /\ alternate \in {proposal, cell.payload}
       \/ cell.generation = MaxGeneration

\* step_in_memory_fake_cas_v1_0, where the kernel does not refuse: the
\* outcome, and the cell that was intended and the one there is afterwards.
CasStep(cell, expected, proposal, directive, alternate) ==
    LET next(payload) == [generation |-> cell.generation + 1,
                          payload |-> payload]
    IN  IF expected # Version(cell)
        THEN [outcome |-> "conflict_no_change",
              intended |-> cell, after |-> cell]
        ELSE IF cell.payload = proposal
        THEN [outcome |-> "existing_identical_no_change",
              intended |-> cell, after |-> cell]
        ELSE [outcome  |-> ChangedOutcome(directive),
              intended |-> next(proposal),
              after    |-> next(IF Substitutes(directive)
                                THEN alternate ELSE proposal)]
============================================================================
