------------------------ MODULE RecoveryCoordinator ------------------------
(***************************************************************************)
(* The synthetic recovery coordinator of                                   *)
(* evals/uprime_rpc_synthetic_recovery_coordinator.py, the staging         *)
(* publisher it drives (evals/uprime_rpc_local_staging_fake_publisher.py)  *)
(* and the compare-and-swap cell both classify with (FakeCas).             *)
(*                                                                         *)
(* A coordinator is shared by threads.  Every operation but publish runs   *)
(* wholly under its lock and is one step.  publish takes the lock twice:   *)
(* to reserve the coordinator (PUBLISHING) and to commit or undo; between  *)
(* the two it works unlocked, one step per file system call that another   *)
(* party can see, and any of those steps may raise.                        *)
(*                                                                         *)
(* Abstractions.  The private state tuple is the record st.  An epoch      *)
(* object is its ordinal: a coordinator issues every ordinal at most once. *)
(* The one witness is its status; its purpose and terminal digest are      *)
(* functions of the terminal cells.  A digest is the value it digests.     *)
(***************************************************************************)
EXTENDS FakeCas, Sequences, FiniteSets

CONSTANTS
    Threads,        \* caller threads
    Nonces,         \* collision nonces: the stage file names
    Size,           \* length of a payload, in units of the model's chunks
    IoChunk,        \* _IO_CHUNK_BYTES
    NoMarker, NoCall, Absent

ASSUME CoordinatorAssumption ==
    /\ Size \in [Payloads -> Nat]
    /\ IoChunk \in Nat \ {0}

MaxRecoveryEpochs == 4

Profiles == {"normal", "ack_loss_confirmed",
             "ack_loss_unavailable_then_confirmed",
             "ack_loss_unavailable_until_budget_block",
             "wrong_delta_confirmed"}

MarkerFree == {"OPEN", "PUBLISHING", "POISONED_NO_MARKER"}
InRecovery == {"RECOVERY_PENDING", "RECOVERY_ACTIVE"}
Recovered  == {"RECOVERED_WITNESS_LIVE", "RECOVERED_WITNESS_SPENT"}
Blocked    == {"BLOCKED_WITNESS_LIVE", "BLOCKED_WITNESS_SPENT"}
Lifecycles == MarkerFree \cup InRecovery \cup Recovered \cup Blocked

VARIABLES
    profile,        \* _profile
    alternate,      \* _alternate_payload
    st,             \* _state
    pc,             \* where each thread is in publish
    call,           \* the locals of each thread's publish
    stage,          \* the stage file of each nonce
    action          \* the SyntheticRecoveryActionV10 last returned

vars == <<profile, alternate, st, pc, call, stage, action>>

\* _new_state_tuple: lifecycle, marker, epoch and replay counts, active and
\* terminal epoch, terminal kind and reason, witness status, replay rows.
StateTuple(l, m, issued, replays, active, terminal, kind, reason, w, rows) ==
    [lifecycle |-> l, marker |-> m,
     issueCount |-> issued, replayCount |-> replays,
     activeEpoch |-> active, terminalEpoch |-> terminal,
     kind |-> kind, reason |-> reason, witness |-> w, rows |-> rows]

\* _base_state_tuple
BaseState(lifecycle) ==
    StateTuple(lifecycle, NoMarker, 0, 0, 0, 0, "none", "none", "none", <<>>)

\* _pending_state
PendingState(replayCount) ==
    StateTuple("RECOVERY_PENDING", st.marker, st.issueCount, replayCount,
               0, 0, "none", "none", "none", st.rows)

\* _terminal_state: the epoch ends the recovery and one witness is issued.
TerminalState(epoch, replayCount, kind, reason) ==
    StateTuple(IF kind = "recovered_terminal" THEN "RECOVERED_WITNESS_LIVE"
               ELSE "BLOCKED_WITNESS_LIVE",
               st.marker, st.issueCount, replayCount,
               0, epoch, kind, reason, "live", <<>>)

Purpose(kind) == IF kind = "recovered_terminal"
                 THEN "record_recovered_terminal"
                 ELSE "record_permanent_block"

Purposes == {"record_recovered_terminal", "record_permanent_block"}

----------------------------------------------------------------------------
(* What publish derives before it calls the publisher.                     *)

Normal(c) == CasStep(c.cell, c.expected, c.proposal,
                     "apply_intended_acknowledge", NoPayload)

NormalRaises(c) == CasRaises(c.cell, c.expected, c.proposal,
                             "apply_intended_acknowledge", NoPayload)

Fault(c, directive) ==
    CasStep(c.cell, c.expected, c.proposal, directive, alternate)

Row(observation, transition) ==
    [observation |-> observation, transition |-> transition]

Confirmed(c) ==
    Row("confirmed_intended",
        Fault(c, "apply_intended_lose_ack_then_confirm"))

Unavailable(c) ==
    Row("unavailable",
        Fault(c, "apply_intended_lose_ack_confirmation_unavailable"))

WrongDelta(c) ==
    Row("confirmed_wrong_delta",
        Fault(c, "substitute_alternate_then_confirm_wrong_delta"))

\* _derive_publish_plan: no rows unless the call changes the cell.
Plan(c) ==
    IF ~ Changes(c.cell, c.expected, c.proposal) THEN <<>>
    ELSE CASE profile = "normal" -> <<>>
           [] profile = "ack_loss_confirmed" -> <<Confirmed(c)>>
           [] profile = "ack_loss_unavailable_then_confirmed" ->
                  <<Unavailable(c), Confirmed(c)>>
           [] profile = "ack_loss_unavailable_until_budget_block" ->
                  <<Unavailable(c), Unavailable(c),
                    Unavailable(c), Unavailable(c)>>
           [] profile = "wrong_delta_confirmed" -> <<WrongDelta(c)>>

PlanRaises(c) ==
    \/ NormalRaises(c)
    \/ /\ profile = "wrong_delta_confirmed"
       /\ CasRaises(c.cell, c.expected, c.proposal,
                    "substitute_alternate_then_confirm_wrong_delta", alternate)

MarkerKind ==
    CASE profile = "ack_loss_confirmed" -> "synthetic_ack_loss_confirmed"
      [] profile = "wrong_delta_confirmed" -> "synthetic_wrong_delta_confirmed"
      [] OTHER -> "synthetic_ack_loss_unavailable"

\* _make_marker
Marker(c) ==
    [kind          |-> MarkerKind,
     nonce         |-> c.nonce,
     payload       |-> c.proposal,
     faultOutcome  |-> c.rows[1].transition.outcome,
     before        |-> Version(c.cell),
     intendedAfter |-> Version(Normal(c).intended),
     actualAfter   |-> Version(c.rows[1].transition.after),
     rowCount      |-> Len(c.rows)]

----------------------------------------------------------------------------
NoAction == [operation |-> "none", outcome |-> "none",
             ordinal |-> 0, changed |-> FALSE]

Init ==
    /\ profile \in Profiles
    /\ alternate \in IF profile = "wrong_delta_confirmed"
                     THEN Payloads ELSE {NoPayload}
    /\ st = BaseState("OPEN")
    /\ pc = [t \in Threads |-> "idle"]
    /\ call = [t \in Threads |-> NoCall]
    /\ stage = [n \in Nonces |-> Absent]
    /\ action = NoAction

\* An operation under the lock that returns an action with state next.
Return(operation, outcome, ordinal, next) ==
    /\ st' = next
    /\ action' = [operation |-> operation, outcome |-> outcome,
                  ordinal |-> ordinal, changed |-> next # st]
    /\ UNCHANGED <<profile, alternate, pc, call, stage>>

\* _fail under the lock: the state object is left as it was.
Fail == /\ action' = NoAction
        /\ UNCHANGED <<profile, alternate, st, pc, call, stage>>

----------------------------------------------------------------------------
(* publish_with_synthetic_recovery_coordinator_v1_0                        *)

\* The locals when publish has reserved the coordinator.
NewCall(cell, expected, proposal, nonce) ==
    [cell |-> cell, expected |-> expected, proposal |-> proposal,
     nonce |-> nonce, rows |-> <<>>, writes |-> 0,
     changedCallStarted |-> FALSE, validResultReturned |-> FALSE,
     validResultChanged |-> FALSE, resultRowsAgree |-> FALSE]

\* Mutant: a poisoned coordinator accepts a publish.
PublishEnter_IgnoresPoison(t) ==
    /\ pc[t] = "idle"
    /\ st.lifecycle \in {"OPEN", "POISONED_NO_MARKER"}
    /\ \E cell \in CasStates, expected \in CasStates,
          proposal \in Payloads, nonce \in Nonces :
          call' = [call EXCEPT ![t] = NewCall(cell, expected, proposal, nonce)]
    /\ st' = BaseState("PUBLISHING")
    /\ pc' = [pc EXCEPT ![t] = "derive"]
    /\ action' = NoAction
    /\ UNCHANGED <<profile, alternate, stage>>

\* Mutant: the lock is released without reserving the coordinator.
PublishEnter_NotReserved(t) ==
    /\ pc[t] = "idle"
    /\ st.lifecycle = "OPEN"
    /\ \E cell \in CasStates, expected \in CasStates,
          proposal \in Payloads, nonce \in Nonces :
          call' = [call EXCEPT ![t] = NewCall(cell, expected, proposal, nonce)]
    /\ pc' = [pc EXCEPT ![t] = "derive"]
    /\ action' = NoAction
    /\ UNCHANGED <<profile, alternate, st, stage>>

PublishEnter(t) ==
    /\ pc[t] = "idle"
    /\ st.lifecycle = "OPEN"
    /\ \E cell \in CasStates, expected \in CasStates,
          proposal \in Payloads, nonce \in Nonces :
          call' = [call EXCEPT ![t] = NewCall(cell, expected, proposal, nonce)]
    /\ st' = BaseState("PUBLISHING")
    /\ pc' = [pc EXCEPT ![t] = "derive"]
    /\ action' = NoAction
    /\ UNCHANGED <<profile, alternate, stage>>

PublishExcluded(t) ==
    /\ pc[t] = "idle"
    /\ st.lifecycle # "OPEN"
    /\ Return("publish", "publisher_excluded_non_open", 0, st)

\* A step of publish between its two critical sections.
Unlocked(t, here, there, c) ==
    /\ pc[t] = here
    /\ pc' = [pc EXCEPT ![t] = there]
    /\ call' = [call EXCEPT ![t] = c]
    /\ UNCHANGED <<profile, alternate, st, action>>

PublishDerive(t) ==
    /\ pc[t] = "derive"
    /\ LET c == call[t]
           changes == Changes(c.cell, c.expected, c.proposal)
       IN  IF PlanRaises(c)
           THEN Unlocked(t, "derive", "finally", c)
           ELSE Unlocked(t, "derive", IF changes THEN "open" ELSE "result",
                         [c EXCEPT !.rows = Plan(c),
                                   !.changedCallStarted = changes])
    /\ UNCHANGED stage

\* _stage_payload: the exclusive create fails when the path is occupied.
StageOpen(t) ==
    /\ Unlocked(t, "open", "write", call[t])
    /\ stage[call[t].nonce] = Absent
    /\ stage' = [stage EXCEPT ![call[t].nonce] =
                    [payload |-> call[t].proposal, written |-> 0]]

\* _write_payload: one os.write, which may be short.
StageWrite(t) ==
    LET n == call[t].nonce
        size == Size[call[t].proposal]
    IN  /\ Unlocked(t, "write", "write",
                    [call[t] EXCEPT !.writes = @ + 1])
        /\ \E count \in 1..IoChunk :
              /\ stage[n].written + count <= size
              /\ stage' = [stage EXCEPT ![n].written = @ + count]

\* The loop of writes is over; _readback_payload and the closing checks pass.
StageReadback(t) ==
    /\ Unlocked(t, "write", "result", call[t])
    /\ stage[call[t].nonce].written = Size[call[t].proposal]
    /\ UNCHANGED stage

\* _derive_result_values: write counts a retained stage cannot have.
WritesImpossible(c) ==
    \/ c.writes > Size[c.proposal]
    \/ c.writes * IoChunk < Size[c.proposal]

\* The publisher classifies the call again and returns; publish compares.
PublishResult(t) ==
    /\ pc[t] = "result"
    /\ LET c == call[t]
           result == Normal(c)
           staged == result.outcome = "intended_applied_acknowledged"
           agree == c.changedCallStarted <=> staged
       IN  IF staged /\ WritesImpossible(c)
           THEN Unlocked(t, "result", "finally", c)
           ELSE Unlocked(t, "result", IF agree THEN "commit" ELSE "finally",
                         [c EXCEPT !.validResultReturned = TRUE,
                                   !.validResultChanged = staged,
                                   !.resultRowsAgree = agree])
    /\ UNCHANGED stage

\* Any call between the critical sections raises, the commit's lock included.
PublishRaises(t) ==
    /\ pc[t] \in {"derive", "open", "write", "result", "commit"}
    /\ Unlocked(t, pc[t], "finally", call[t])
    /\ UNCHANGED stage

\* The prospective state and the outcome publish commits.
Committed(c) ==
    IF c.rows = <<>> THEN BaseState("OPEN")
    ELSE StateTuple("RECOVERY_PENDING", Marker(c), 0, 0, 0, 0,
                    "none", "none", "none", c.rows)

CommittedOutcome(c) ==
    CASE Normal(c).outcome = "conflict_no_change" -> "cas_conflict_no_marker"
      [] Normal(c).outcome = "existing_identical_no_change" ->
             "cas_existing_identical_no_marker"
      [] OTHER -> IF profile = "normal"
                  THEN "normal_staged_result_exposed_no_marker"
                  ELSE "synthetic_marker_committed_result_withheld"

Leave(t) ==
    /\ pc' = [pc EXCEPT ![t] = "idle"]
    /\ call' = [call EXCEPT ![t] = NoCall]
    /\ UNCHANGED <<profile, alternate, stage>>

PublishCommit(t) ==
    /\ pc[t] = "commit"
    /\ st.lifecycle = "PUBLISHING"
    /\ st' = Committed(call[t])
    /\ action' = [operation |-> "publish",
                  outcome |-> CommittedOutcome(call[t]), ordinal |-> 0,
                  changed |-> Committed(call[t]) # BaseState("OPEN")]
    /\ Leave(t)

\* Mutant: only a valid changed result poisons.
Undone_ForgetsStarted(c) ==
    IF \/ c.validResultChanged
       \/ c.validResultReturned /\ ~ c.resultRowsAgree
    THEN BaseState("POISONED_NO_MARKER")
    ELSE BaseState("OPEN")

\* The state an uncommitted publish leaves behind.
Undone(c) ==
    IF \/ c.changedCallStarted
       \/ c.validResultChanged
       \/ c.validResultReturned /\ ~ c.resultRowsAgree
    THEN BaseState("POISONED_NO_MARKER")
    ELSE BaseState("OPEN")

\* Mutant: an uncommitted publish does not give the coordinator back.
PublishFinally_KeepsState(t) ==
    /\ pc[t] = "finally"
    /\ st' = st
    /\ action' = NoAction
    /\ Leave(t)

PublishFinally(t) ==
    /\ pc[t] = "finally"
    /\ st' = Undone(call[t])
    /\ action' = NoAction
    /\ Leave(t)

----------------------------------------------------------------------------
(* The operations that run under the lock.                                 *)

\* The code also refuses an ordinal above the budget here.  The model does not:
\* that no pending state is left with the budget spent is TypeOK's bound on
\* issueCount.
Acquire ==
    IF st.lifecycle = "RECOVERY_PENDING"
    THEN Return("acquire_epoch", "epoch_issued", st.issueCount + 1,
                StateTuple("RECOVERY_ACTIVE", st.marker, st.issueCount + 1,
                           st.replayCount, st.issueCount + 1, 0,
                           "none", "none", "none", st.rows))
    ELSE Return("acquire_epoch",
                CASE st.lifecycle = "OPEN" -> "no_marker_noop"
                  [] st.lifecycle = "PUBLISHING" -> "publisher_active_excluded"
                  [] st.lifecycle = "RECOVERY_ACTIVE" ->
                         "recovery_active_excluded"
                  [] st.lifecycle \in Recovered -> "recovered_terminal_noop"
                  [] st.lifecycle \in Blocked -> "blocked_terminal_noop"
                  [] OTHER -> "poisoned_no_marker_noop",
                0, st)

\* Epoch objects some thread may hold: this coordinator's, or (0) another's.
Handles == 0..st.issueCount

\* An operation that takes a handle is excluded while a publish is running.
Excluded(operation) ==
    /\ st.lifecycle = "PUBLISHING"
    /\ Return(operation, "publisher_active_excluded", 0, st)

ActiveEpoch(e) ==
    st.lifecycle = "RECOVERY_ACTIVE" /\ e = st.activeEpoch

\* Mutants: the budget compared with <=, the budget cut by one, and a
\* give-back that moves the replay cursor.
GiveBack_OneTooMany(operation, e, retried, blocked, reason) ==
    /\ ActiveEpoch(e)
    /\ IF e <= MaxRecoveryEpochs
       THEN Return(operation, retried, e, PendingState(st.replayCount))
       ELSE Return(operation, blocked, e,
                   TerminalState(e, st.replayCount, "permanent_block", reason))

GiveBack_OneTooFew(operation, e, retried, blocked, reason) ==
    /\ ActiveEpoch(e)
    /\ IF e < MaxRecoveryEpochs - 1
       THEN Return(operation, retried, e, PendingState(st.replayCount))
       ELSE Return(operation, blocked, e,
                   TerminalState(e, st.replayCount, "permanent_block", reason))

GiveBack_AdvancesCursor(operation, e, retried, blocked, reason) ==
    /\ ActiveEpoch(e)
    /\ IF e < MaxRecoveryEpochs
       THEN Return(operation, retried, e, PendingState(st.replayCount + 1))
       ELSE Return(operation, blocked, e,
                   TerminalState(e, st.replayCount, "permanent_block", reason))

\* release and abandon: give the epoch back with the cursor unchanged, or
\* block for good when it was the last one of the budget.
GiveBack(operation, e, retried, blocked, reason) ==
    /\ ActiveEpoch(e)
    /\ IF e < MaxRecoveryEpochs
       THEN Return(operation, retried, e, PendingState(st.replayCount))
       ELSE Return(operation, blocked, e,
                   TerminalState(e, st.replayCount, "permanent_block", reason))

Release(e) ==
    \/ Excluded("release_epoch")
    \/ st.lifecycle # "PUBLISHING" /\ ~ ActiveEpoch(e) /\ Fail
    \/ GiveBack("release_epoch", e, "epoch_released_retry_pending",
                "epoch_release_budget_permanent_block",
                "recovery_epoch_budget_exhausted_after_release")

\* Mutant: the reason of the release path.
Abandon_ReleaseReason(e) ==
    \/ Excluded("abandon_epoch")
    \/ st.lifecycle # "PUBLISHING" /\ ~ ActiveEpoch(e) /\ Fail
    \/ GiveBack("abandon_epoch", e, "epoch_abandoned_retry_pending",
                "epoch_abandon_budget_permanent_block",
                "recovery_epoch_budget_exhausted_after_release")

Abandon(e) ==
    \/ Excluded("abandon_epoch")
    \/ st.lifecycle # "PUBLISHING" /\ ~ ActiveEpoch(e) /\ Fail
    \/ GiveBack("abandon_epoch", e, "epoch_abandoned_retry_pending",
                "epoch_abandon_budget_permanent_block",
                "recovery_epoch_budget_exhausted_after_abandon")

\* The exact epoch that ended the recovery replays into a no-op.
ReplayTerminal(e) ==
    /\ st.lifecycle \in Recovered \cup Blocked
    /\ e = st.terminalEpoch
    /\ Return("replay_epoch",
              IF st.lifecycle \in Recovered THEN "recovered_terminal_noop"
              ELSE "blocked_terminal_noop", e, st)

\* The plan has a row at the cursor; an observation decides what happens.
ReplayRow(e) ==
    LET count == st.replayCount + 1
        observation == st.rows[count].observation
    IN  /\ ActiveEpoch(e)
        /\ st.replayCount < Len(st.rows)
        /\ \/ /\ observation = "unavailable"
              /\ e < MaxRecoveryEpochs
              /\ Return("replay_epoch", "replay_unavailable_retry_pending",
                        e, PendingState(count))
           \/ /\ observation = "unavailable"
              /\ ~ (e < MaxRecoveryEpochs)
              /\ Return("replay_epoch",
                        "replay_unavailable_budget_permanent_block", e,
                        TerminalState(e, count, "permanent_block",
                        "recovery_epoch_budget_exhausted_after_unavailable"))
           \/ /\ observation = "confirmed_intended"
              /\ Return("replay_epoch", "replay_confirmed_recovered", e,
                        TerminalState(e, count, "recovered_terminal",
                            "synthetic_intended_transition_confirmed"))
           \/ /\ observation = "confirmed_wrong_delta"
              /\ Return("replay_epoch",
                        "replay_wrong_delta_permanent_block", e,
                        TerminalState(e, count, "permanent_block",
                            "synthetic_wrong_delta_confirmed"))

Replay(e) ==
    \/ Excluded("replay_epoch")
    \/ /\ st.lifecycle # "PUBLISHING"
       /\ ~ ActiveEpoch(e)
       /\ ~ (st.lifecycle \in Recovered \cup Blocked /\ e = st.terminalEpoch)
       /\ Fail
    \/ ReplayTerminal(e)
    \/ ReplayRow(e)

\* The retained witness, the purpose and the terminal digest must all match.
Consume(exact, purpose, digestMatches) ==
    LET eligible == /\ st.lifecycle \in Recovered \cup Blocked
                    /\ exact
                    /\ purpose = Purpose(st.kind)
                    /\ digestMatches
    IN  \/ Excluded("consume_witness")
        \/ st.lifecycle # "PUBLISHING" /\ ~ eligible /\ Fail
        \/ /\ eligible
           /\ IF st.lifecycle \in {"RECOVERED_WITNESS_LIVE",
                                   "BLOCKED_WITNESS_LIVE"}
              THEN Return("consume_witness", "witness_consumed",
                          st.terminalEpoch,
                          StateTuple(IF st.lifecycle \in Recovered
                                     THEN "RECOVERED_WITNESS_SPENT"
                                     ELSE "BLOCKED_WITNESS_SPENT",
                                     st.marker, st.issueCount, st.replayCount,
                                     0, st.terminalEpoch, st.kind, st.reason,
                                     "spent", <<>>))
              ELSE Return("consume_witness", "witness_already_spent_noop",
                          st.terminalEpoch, st)

----------------------------------------------------------------------------
Publish(t) ==
    \/ PublishDerive(t) \/ StageOpen(t) \/ StageWrite(t) \/ StageReadback(t)
    \/ PublishResult(t) \/ PublishRaises(t)
    \/ PublishCommit(t) \/ PublishFinally(t)

Next ==
    \/ \E t \in Threads : PublishEnter(t)
    \/ \E t \in Threads : PublishExcluded(t)
    \/ \E t \in Threads : Publish(t)
    \/ Acquire
    \/ \E e \in Handles : Release(e)
    \/ \E e \in Handles : Abandon(e)
    \/ \E e \in Handles : Replay(e)
    \/ \E exact, digestMatches \in BOOLEAN, purpose \in Purposes :
          Consume(exact, purpose, digestMatches)

Spec == Init /\ [][Next]_vars

\* A thread that has entered publish runs to its end: nothing in publish
\* waits for another thread except the lock, which is held for one step.
FairSpec == Spec /\ \A t \in Threads : WF_vars(Publish(t))

----------------------------------------------------------------------------
(* Types.                                                                  *)

PublishSteps == {"idle", "derive", "open", "write", "result", "commit",
                 "finally"}

Observations == {"unavailable", "confirmed_intended", "confirmed_wrong_delta"}

Transitions == [outcome : CasOutcomes, intended : CasStates, after : CasStates]

Rows == [observation : Observations, transition : Transitions]

Markers == [kind : {"synthetic_ack_loss_confirmed",
                    "synthetic_ack_loss_unavailable",
                    "synthetic_wrong_delta_confirmed"},
            nonce : Nonces, payload : Payloads, faultOutcome : CasOutcomes,
            before : CasStates, intendedAfter : CasStates,
            actualAfter : CasStates, rowCount : 1..MaxRecoveryEpochs]

Calls == [cell : CasStates, expected : CasStates, proposal : Payloads,
          nonce : Nonces, rows : Seq(Rows), writes : Nat,
          changedCallStarted : BOOLEAN, validResultReturned : BOOLEAN,
          validResultChanged : BOOLEAN, resultRowsAgree : BOOLEAN]

States == [lifecycle : Lifecycles, marker : Markers \cup {NoMarker},
           issueCount : 0..MaxRecoveryEpochs,
           replayCount : 0..MaxRecoveryEpochs,
           activeEpoch : 0..MaxRecoveryEpochs,
           terminalEpoch : 0..MaxRecoveryEpochs,
           kind : {"none", "recovered_terminal", "permanent_block"},
           reason : {"none", "synthetic_intended_transition_confirmed",
                     "synthetic_wrong_delta_confirmed",
                     "recovery_epoch_budget_exhausted_after_unavailable",
                     "recovery_epoch_budget_exhausted_after_release",
                     "recovery_epoch_budget_exhausted_after_abandon"},
           witness : {"none", "live", "spent"},
           rows : Seq(Rows)]

Operations == {"none", "publish", "acquire_epoch", "release_epoch",
               "abandon_epoch", "replay_epoch", "consume_witness"}

Outcomes == {"none", "cas_conflict_no_marker",
             "cas_existing_identical_no_marker",
             "normal_staged_result_exposed_no_marker",
             "synthetic_marker_committed_result_withheld",
             "publisher_excluded_non_open", "no_marker_noop",
             "publisher_active_excluded", "epoch_issued",
             "recovery_active_excluded", "recovered_terminal_noop",
             "blocked_terminal_noop", "poisoned_no_marker_noop",
             "epoch_released_retry_pending",
             "epoch_release_budget_permanent_block",
             "epoch_abandoned_retry_pending",
             "epoch_abandon_budget_permanent_block",
             "replay_unavailable_retry_pending",
             "replay_unavailable_budget_permanent_block",
             "replay_confirmed_recovered",
             "replay_wrong_delta_permanent_block",
             "witness_consumed", "witness_already_spent_noop"}

Actions == [operation : Operations, outcome : Outcomes,
            ordinal : 0..MaxRecoveryEpochs, changed : BOOLEAN]

Stages == [payload : Payloads, written : Nat] \cup {Absent}

ASSUME NullAssumption ==
    /\ NoMarker \notin Markers
    /\ NoCall \notin Calls
    /\ Absent \notin [payload : Payloads, written : Nat]

\* TypeOK: every cell of the coordinator, every publish local and every stage
\* file holds a value of the kind its validator accepts; in particular the
\* epoch and replay counters never leave 0.._MAX_RECOVERY_EPOCHS.
TypeOK ==
    /\ profile \in Profiles
    /\ alternate \in Payloads \cup {NoPayload}
    /\ st \in States
    /\ pc \in [Threads -> PublishSteps]
    /\ call \in [Threads -> Calls \cup {NoCall}]
    /\ stage \in [Nonces -> Stages]
    /\ action \in Actions

----------------------------------------------------------------------------
(* The validators every operation runs on the state before and after it.   *)

\* _terminal_row_is_reachable
TerminalRowIsReachable(s) ==
    CASE s.reason = "synthetic_intended_transition_confirmed" ->
             \/ profile = "ack_loss_confirmed" /\ s.replayCount = 1
             \/ /\ profile = "ack_loss_unavailable_then_confirmed"
                /\ s.replayCount = 2 /\ s.issueCount >= 2
      [] s.reason = "synthetic_wrong_delta_confirmed" ->
             profile = "wrong_delta_confirmed" /\ s.replayCount = 1
      [] s.reason = "recovery_epoch_budget_exhausted_after_unavailable" ->
             /\ s.issueCount = 4
             /\ \/ /\ profile = "ack_loss_unavailable_then_confirmed"
                   /\ s.replayCount = 1
                \/ /\ profile = "ack_loss_unavailable_until_budget_block"
                   /\ s.replayCount \in 1..4
      [] s.reason \in {"recovery_epoch_budget_exhausted_after_release",
                       "recovery_epoch_budget_exhausted_after_abandon"} ->
             /\ s.issueCount = 4
             /\ \/ /\ profile \in {"ack_loss_confirmed",
                                   "wrong_delta_confirmed"}
                   /\ s.replayCount = 0
                \/ /\ profile = "ack_loss_unavailable_then_confirmed"
                   /\ s.replayCount \in 0..1
                \/ /\ profile = "ack_loss_unavailable_until_budget_block"
                   /\ s.replayCount \in 0..3
      [] OTHER -> FALSE

\* _validate_snapshot: the terminal cells.
TerminalCellsValid(s) ==
    IF s.lifecycle \in Recovered \cup Blocked
    THEN /\ s.witness = IF s.lifecycle \in {"RECOVERED_WITNESS_LIVE",
                                           "BLOCKED_WITNESS_LIVE"}
                        THEN "live" ELSE "spent"
         /\ s.terminalEpoch = s.issueCount /\ s.terminalEpoch >= 1
         /\ s.kind = IF s.lifecycle \in Recovered
                     THEN "recovered_terminal" ELSE "permanent_block"
         /\ s.kind = "recovered_terminal" <=>
                s.reason = "synthetic_intended_transition_confirmed"
         /\ TerminalRowIsReachable(s)
    ELSE /\ s.witness = "none" /\ s.terminalEpoch = 0
         /\ s.kind = "none" /\ s.reason = "none"

\* _validate_snapshot: the marker, the counters and the active epoch.
LifecycleCellsValid(s) ==
    /\ s.replayCount <= s.issueCount
    /\ s.lifecycle \in MarkerFree <=> s.marker = NoMarker
    /\ s.lifecycle \in MarkerFree => s.issueCount = 0
    /\ s.lifecycle = "RECOVERY_PENDING" => s.issueCount <= 3
    /\ IF s.lifecycle = "RECOVERY_ACTIVE"
       THEN /\ s.activeEpoch = s.issueCount
            /\ s.replayCount <= s.issueCount - 1
       ELSE s.activeEpoch = 0

\* _validate_snapshot: the cursors a profile can have while it recovers.
ProfileCellsValid(s) ==
    /\ profile = "normal" => s.marker = NoMarker
    /\ /\ s.lifecycle \in InRecovery
       /\ profile \in {"ack_loss_confirmed", "wrong_delta_confirmed"}
       => s.replayCount = 0
    /\ /\ s.lifecycle \in InRecovery
       /\ profile = "ack_loss_unavailable_then_confirmed"
       => s.replayCount \in 0..1

\* The observations of a profile's replay plan.
ExpectedObservations ==
    CASE profile = "normal" -> <<>>
      [] profile = "ack_loss_confirmed" -> <<"confirmed_intended">>
      [] profile = "ack_loss_unavailable_then_confirmed" ->
             <<"unavailable", "confirmed_intended">>
      [] profile = "ack_loss_unavailable_until_budget_block" ->
             <<"unavailable", "unavailable", "unavailable", "unavailable">>
      [] profile = "wrong_delta_confirmed" -> <<"confirmed_wrong_delta">>

ExpectedOutcome(observation) ==
    CASE observation = "unavailable" -> "intended_applied_ack_lost_unconfirmed"
      [] observation = "confirmed_intended" ->
             "intended_applied_ack_lost_confirmed"
      [] observation = "confirmed_wrong_delta" -> "wrong_delta_confirmed"

\* _validate_private_replay_rows: the plan is the profile's while it is
\* being recovered, and is dropped everywhere else.
ReplayRowsValid(s) ==
    IF s.lifecycle \in InRecovery
    THEN /\ Len(s.rows) = Len(ExpectedObservations)
         /\ \A i \in 1..Len(s.rows) :
               /\ s.rows[i].observation = ExpectedObservations[i]
               /\ s.rows[i].transition.outcome =
                      ExpectedOutcome(s.rows[i].observation)
         /\ s.marker.rowCount = Len(s.rows)
         /\ s.marker.faultOutcome = s.rows[1].transition.outcome
    ELSE s.rows = <<>>

\* _validate_marker
MarkerValid(m) ==
    /\ m.kind = MarkerKind
    /\ m.faultOutcome = ExpectedOutcome(ExpectedObservations[1])
    /\ m.rowCount = Len(ExpectedObservations)
    /\ m.before \notin {m.intendedAfter, m.actualAfter}
    /\ profile = "wrong_delta_confirmed" <=> m.actualAfter # m.intendedAfter

\* _require_coordinator, _snapshot_from_state and _validate_private_state.
StateValid(s) ==
    /\ TerminalCellsValid(s)
    /\ LifecycleCellsValid(s)
    /\ ProfileCellsValid(s)
    /\ ReplayRowsValid(s)
    /\ s.marker # NoMarker => MarkerValid(s.marker)

----------------------------------------------------------------------------
(* Safety.                                                                 *)

\* SnapshotValid: whatever the threads do, the state satisfies every rule
\* that _require_coordinator, _validate_snapshot, _validate_marker and
\* _validate_private_replay_rows enforce, the hand-written table of reachable
\* terminal rows included: no legal sequence of calls wedges the coordinator
\* behind its own validators.
SnapshotValid == StateValid(st)

\* The epoch an action names is the one the state after it counts.
NamesCurrentEpoch ==
    action.ordinal = st.issueCount /\ action.ordinal >= 1

NamesTerminalEpoch ==
    NamesCurrentEpoch /\ action.ordinal = st.terminalEpoch

\* _validate_action_row_coherence: what each outcome row says of the state
\* after it.
OutcomeRow ==
    CASE action.outcome \in {"cas_conflict_no_marker",
                             "cas_existing_identical_no_marker",
                             "no_marker_noop"} -> st.lifecycle = "OPEN"
      [] action.outcome = "normal_staged_result_exposed_no_marker" ->
             st.lifecycle = "OPEN" /\ profile = "normal"
      [] action.outcome = "synthetic_marker_committed_result_withheld" ->
             /\ st.lifecycle = "RECOVERY_PENDING"
             /\ st.issueCount = 0 /\ st.replayCount = 0
      [] action.outcome = "publisher_excluded_non_open" ->
             st.lifecycle # "OPEN"
      [] action.outcome = "publisher_active_excluded" ->
             st.lifecycle = "PUBLISHING"
      [] action.outcome \in {"epoch_issued", "recovery_active_excluded"} ->
             st.lifecycle = "RECOVERY_ACTIVE"
      [] action.outcome \in {"recovered_terminal_noop",
                             "blocked_terminal_noop"} ->
             /\ st.lifecycle \in IF action.outcome = "recovered_terminal_noop"
                                 THEN Recovered ELSE Blocked
             /\ action.operation = "replay_epoch" => NamesTerminalEpoch
      [] action.outcome = "poisoned_no_marker_noop" ->
             st.lifecycle = "POISONED_NO_MARKER"
      [] action.outcome \in {"epoch_released_retry_pending",
                             "epoch_abandoned_retry_pending",
                             "replay_unavailable_retry_pending"} ->
             /\ st.lifecycle = "RECOVERY_PENDING"
             /\ NamesCurrentEpoch /\ action.ordinal < MaxRecoveryEpochs
             /\ action.operation = "replay_epoch" =>
                   /\ st.replayCount >= 1
                   /\ \/ /\ profile = "ack_loss_unavailable_then_confirmed"
                         /\ st.replayCount = 1
                      \/ /\ profile = "ack_loss_unavailable_until_budget_block"
                         /\ st.replayCount < MaxRecoveryEpochs
      [] action.outcome \in {"epoch_release_budget_permanent_block",
                             "epoch_abandon_budget_permanent_block",
                             "replay_unavailable_budget_permanent_block"} ->
             /\ st.lifecycle = "BLOCKED_WITNESS_LIVE"
             /\ NamesTerminalEpoch /\ action.ordinal = MaxRecoveryEpochs
             /\ st.reason =
                  CASE action.operation = "release_epoch" ->
                           "recovery_epoch_budget_exhausted_after_release"
                    [] action.operation = "abandon_epoch" ->
                           "recovery_epoch_budget_exhausted_after_abandon"
                    [] OTHER ->
                           "recovery_epoch_budget_exhausted_after_unavailable"
      [] action.outcome = "replay_confirmed_recovered" ->
             /\ st.lifecycle = "RECOVERED_WITNESS_LIVE"
             /\ NamesTerminalEpoch
      [] action.outcome = "replay_wrong_delta_permanent_block" ->
             /\ st.lifecycle = "BLOCKED_WITNESS_LIVE"
             /\ NamesTerminalEpoch
             /\ st.reason = "synthetic_wrong_delta_confirmed"
      [] action.outcome \in {"witness_consumed",
                             "witness_already_spent_noop"} ->
             /\ st.lifecycle \in {"RECOVERED_WITNESS_SPENT",
                                  "BLOCKED_WITNESS_SPENT"}
             /\ NamesTerminalEpoch
      [] OTHER -> action.outcome = "none"

\* The outcomes whose row expects endpoint_state_changed.
ChangingOutcomes ==
    {"synthetic_marker_committed_result_withheld", "epoch_issued",
     "epoch_released_retry_pending", "epoch_abandoned_retry_pending",
     "replay_unavailable_retry_pending",
     "epoch_release_budget_permanent_block",
     "epoch_abandon_budget_permanent_block",
     "replay_unavailable_budget_permanent_block",
     "replay_confirmed_recovered", "replay_wrong_delta_permanent_block",
     "witness_consumed"}

\* _validate_action: the rows that name an epoch.
NeedsOrdinal ==
    \/ action.outcome \in ChangingOutcomes
          \ {"synthetic_marker_committed_result_withheld"}
    \/ action.outcome = "witness_already_spent_noop"
    \/ /\ action.operation = "replay_epoch"
       /\ action.outcome \in {"recovered_terminal_noop",
                              "blocked_terminal_noop"}

\* ActionCoherent: every action an operation builds is one that
\* _validate_action accepts (its row agrees with the state it leaves and with
\* whether that state differs from the one before, and names an epoch exactly
\* when it must), so an operation never computes a new state only to raise on
\* the way out.
ActionCoherent ==
    /\ OutcomeRow
    /\ NeedsOrdinal <=> action.ordinal # 0
    /\ action.changed <=> action.outcome \in ChangingOutcomes

\* ReplayNeverOverruns: an active epoch always finds a row of the plan at the
\* cursor, however releases, abandonments and unavailable replays alternated
\* before; "replay plan cursor is invalid" is never raised.
ReplayNeverOverruns ==
    st.lifecycle = "RECOVERY_ACTIVE" => st.replayCount < Len(st.rows)

\* RecoveredMeansIntended: a coordinator that reports a recovered terminal has
\* a marker whose cell really went to the intended version and whose stage
\* file holds the whole proposed payload; a substituted alternate is never
\* reported as recovered.
RecoveredMeansIntended ==
    /\ st.lifecycle \in Recovered =>
          st.marker.actualAfter = st.marker.intendedAfter
    /\ st.marker # NoMarker =>
          stage[st.marker.nonce] = [payload |-> st.marker.payload,
                                    written |-> Size[st.marker.payload]]

\* OpenMeansClean: a coordinator that is open for a publish has left no
\* half-written stage behind, and under a fault profile no stage at all: a
\* changed call that failed anywhere poisons it, a failed unchanged one does
\* not touch the staging directory.
OpenMeansClean ==
    st.lifecycle = "OPEN" =>
        \A n \in Nonces :
            \/ stage[n] = Absent
            \/ /\ profile = "normal"
               /\ stage[n].written = Size[stage[n].payload]

\* ExclusiveWindow: PUBLISHING belongs to exactly one thread from its
\* reservation to its commit or undo, although publish holds no lock while it
\* stages: "owned publishing state was replaced" is never raised.
ExclusiveWindow ==
    /\ \A t, u \in Threads :
          pc[t] # "idle" /\ pc[u] # "idle" => t = u
    /\ st.lifecycle = "PUBLISHING" <=> \E t \in Threads : pc[t] # "idle"

\* WriteCountPossible: however short the writes were, the publisher never
\* rejects its own write count, and a result is reached only with a stage
\* that is complete.
WriteCountPossible ==
    \A t \in Threads :
        pc[t] \in {"result", "commit"} /\ call[t].changedCallStarted =>
            /\ ~ WritesImpossible(call[t])
            /\ stage[call[t].nonce] =
                  [payload |-> call[t].proposal,
                   written |-> Size[call[t].proposal]]

\* DiskAgrees: what the lifecycle says agrees with what the failing calls left
\* in the cell and in the staging directory, at both ends of a recovery.
DiskAgrees == RecoveredMeansIntended /\ OpenMeansClean

\* NeverRefusesItself: none of the coordinator's internal consistency errors
\* (a cursor past its plan, a replaced publishing state, an impossible write
\* count) is raised in any interleaving.
NeverRefusesItself ==
    ReplayNeverOverruns /\ ExclusiveWindow /\ WriteCountPossible

----------------------------------------------------------------------------
(* What a step may never do, and what must happen.                         *)

Terminal == Recovered \cup Blocked

HistoryStep ==
    /\ st.marker # NoMarker => st'.marker = st.marker
    /\ st'.issueCount \in {st.issueCount, st.issueCount + 1}
    /\ st'.replayCount \in {st.replayCount, st.replayCount + 1}
    /\ st.lifecycle \in Terminal =>
          /\ st'.lifecycle \in Terminal
          /\ st'.kind = st.kind /\ st'.reason = st.reason
          /\ st'.terminalEpoch = st.terminalEpoch
    /\ st.witness = "spent" => st'.witness = "spent"
    /\ st.lifecycle = "POISONED_NO_MARKER" => st' = st

\* HistoryNeverRewritten: a marker is never replaced or dropped, the epoch
\* counter and the cursor never go back, a terminal verdict and its epoch
\* are final, a spent witness never becomes live, and poison is permanent.
HistoryNeverRewritten == [][HistoryStep]_vars

StageStep ==
    \A n \in Nonces : stage[n] # Absent =>
        /\ stage'[n] # Absent
        /\ stage'[n].payload = stage[n].payload
        /\ stage'[n].written >= stage[n].written

\* StageIsAppendOnly: a stage file that a publish created keeps its payload
\* and never shrinks or disappears, whichever nonces later calls choose.
StageIsAppendOnly == [][StageStep]_vars

\* NothingRewritten: neither the coordinator's cells nor the stage files on
\* disk are ever taken back, by any operation of any thread.
NothingRewritten == HistoryNeverRewritten /\ StageIsAppendOnly

\* PublishWindowCloses: whatever raises in the middle of a publish, the
\* coordinator leaves PUBLISHING, so the other operations are not excluded
\* for ever.
PublishWindowCloses ==
    st.lifecycle = "PUBLISHING" ~> st.lifecycle # "PUBLISHING"

----------------------------------------------------------------------------
(* The contract this coordinator keeps.                                    *)

Phase ==
    CASE st.lifecycle = "OPEN" -> "ready"
      [] st.lifecycle = "PUBLISHING" -> "busy"
      [] st.lifecycle = "POISONED_NO_MARKER" -> "poisoned"
      [] st.lifecycle \in InRecovery -> "owed"
      [] st.lifecycle \in Recovered -> "recovered"
      [] st.lifecycle \in Blocked -> "blocked"

Contract == INSTANCE RecoveryContract WITH
    Budget <- MaxRecoveryEpochs,
    phase <- Phase,
    attempts <- st.issueCount,
    receipt <- st.witness,
    tampered <- (profile = "wrong_delta_confirmed")

\* ImplementsContract: every behaviour of the coordinator is one the abstract
\* contract allows: a publish in doubt is settled exactly once, within four
\* epochs, as recovered only if the intended change happened and as blocked
\* only for cause, and is receipted exactly once.
ImplementsContract == Contract!Spec
============================================================================
