--------------------- MODULE RecoveryCoordinatorProofs ---------------------
(***************************************************************************)
(* Proofs about RecoveryCoordinator, for every set of threads, nonces and  *)
(* payloads and every payload size.                                        *)
(***************************************************************************)
EXTENDS RecoveryCoordinator, TLAPS

----------------------------------------------------------------------------
(* The inductive invariant.                                                *)

\* What the locals c of a publish that is at the given step say about its
\* plan and about the stage files.
CallOK(step, c, files) ==
    /\ c \in Calls
    /\ step = "derive" => ~ c.changedCallStarted
    /\ step \in {"open", "write", "result", "commit"} =>
          /\ ~ PlanRaises(c)
          /\ c.rows = Plan(c)
          /\ c.changedCallStarted <=> Changes(c.cell, c.expected, c.proposal)
    /\ step \in {"open", "write"} => c.changedCallStarted
    /\ step \in {"derive", "open"} => c.writes = 0
    /\ step = "write" =>
          /\ files[c.nonce] # Absent
          /\ files[c.nonce].payload = c.proposal
          /\ files[c.nonce].written <= Size[c.proposal]
          /\ c.writes <= files[c.nonce].written
          /\ files[c.nonce].written <= c.writes * IoChunk
    /\ step \in {"result", "commit"} /\ c.changedCallStarted =>
          /\ ~ WritesImpossible(c)
          /\ files[c.nonce] = [payload |-> c.proposal,
                               written |-> Size[c.proposal]]

CallsInv ==
    \A t \in Threads : pc[t] # "idle" => CallOK(pc[t], call[t], stage)

\* A stage is complete and acknowledged, or it is the one of the running
\* changed publish, or the coordinator has a marker or is poisoned.
StagesInv ==
    st.lifecycle \in {"OPEN", "PUBLISHING"} =>
        \A n \in Nonces :
            \/ stage[n] = Absent
            \/ /\ profile = "normal"
               /\ stage[n].written = Size[stage[n].payload]
            \/ \E t \in Threads : /\ pc[t] # "idle"
                                  /\ call[t].changedCallStarted
                                  /\ call[t].nonce = n

AlternateInv == profile = "wrong_delta_confirmed" <=> alternate \in Payloads

Inv ==
    /\ TypeOK
    /\ AlternateInv
    /\ SnapshotValid
    /\ ExclusiveWindow
    /\ CallsInv
    /\ StagesInv
    /\ RecoveredMeansIntended

----------------------------------------------------------------------------
(* The cells of the states the operations build.                           *)

Kinds == {"none", "recovered_terminal", "permanent_block"}

Reasons == {"none", "synthetic_intended_transition_confirmed",
            "synthetic_wrong_delta_confirmed",
            "recovery_epoch_budget_exhausted_after_unavailable",
            "recovery_epoch_budget_exhausted_after_release",
            "recovery_epoch_budget_exhausted_after_abandon"}

LEMMA EmptyPlan == <<>> \in Seq(Rows)
  OBVIOUS

LEMMA BaseCells ==
    ASSUME NEW l \in Lifecycles
    PROVE  BaseState(l) \in States
  BY EmptyPlan DEF BaseState, StateTuple, States, MaxRecoveryEpochs

\* The cells of a state of the right type.
LEMMA StateCells ==
    ASSUME NEW s \in States
    PROVE  /\ s.lifecycle \in Lifecycles
           /\ s.marker \in Markers \cup {NoMarker}
           /\ s.issueCount \in 0..4
           /\ s.replayCount \in 0..4
           /\ s.activeEpoch \in 0..4
           /\ s.terminalEpoch \in 0..4
           /\ s.kind \in Kinds
           /\ s.reason \in Reasons
           /\ s.witness \in {"none", "live", "spent"}
           /\ s.rows \in Seq(Rows)
  BY DEF States, MaxRecoveryEpochs, Kinds, Reasons

LEMMA PendingCells ==
    ASSUME st \in States, NEW n \in 0..4
    PROVE  PendingState(n) \in States
  BY StateCells
     DEF PendingState, StateTuple, States, MaxRecoveryEpochs, Lifecycles,
         InRecovery

LEMMA TerminalCells ==
    ASSUME st \in States, NEW e \in 0..4, NEW n \in 0..4,
           NEW k \in Kinds, NEW r \in Reasons
    PROVE  TerminalState(e, n, k, r) \in States
  BY EmptyPlan, StateCells
     DEF TerminalState, StateTuple, States, MaxRecoveryEpochs, Lifecycles,
         Recovered, Blocked, Kinds, Reasons

----------------------------------------------------------------------------
(* The states the recovery operations build satisfy the validators.        *)

\* The observation at the cursor is the one the profile prescribes.
LEMMA CursorRow ==
    ASSUME TypeOK, SnapshotValid, st.lifecycle = "RECOVERY_ACTIVE"
    PROVE  /\ st.replayCount < Len(st.rows)
           /\ st.rows[st.replayCount + 1].observation =
                 CASE profile = "ack_loss_confirmed" -> "confirmed_intended"
                   [] profile = "ack_loss_unavailable_then_confirmed" ->
                          IF st.replayCount = 0 THEN "unavailable"
                          ELSE "confirmed_intended"
                   [] profile = "ack_loss_unavailable_until_budget_block" ->
                          "unavailable"
                   [] OTHER -> "confirmed_wrong_delta"
           /\ profile # "normal"
  <1>1. /\ st \in States /\ profile \in Profiles
        /\ ReplayRowsValid(st) /\ ProfileCellsValid(st)
        /\ LifecycleCellsValid(st)
    BY DEF TypeOK, SnapshotValid, StateValid
  <1>2. /\ Len(st.rows) = Len(ExpectedObservations)
        /\ \A i \in 1..Len(st.rows) :
              st.rows[i].observation = ExpectedObservations[i]
    BY <1>1 DEF ReplayRowsValid, InRecovery
  <1>3. /\ profile # "normal"
        /\ st.issueCount \in 0..4 /\ st.replayCount \in 0..4
        /\ st.replayCount <= 3
    BY <1>1, StateCells
       DEF ProfileCellsValid, LifecycleCellsValid, MarkerFree
  <1>4. CASE profile = "ack_loss_confirmed"
    BY <1>1, <1>2, <1>3, <1>4
       DEF ExpectedObservations, ProfileCellsValid, InRecovery
  <1>5. CASE profile = "ack_loss_unavailable_then_confirmed"
    BY <1>1, <1>2, <1>3, <1>5
       DEF ExpectedObservations, ProfileCellsValid, InRecovery
  <1>6. CASE profile = "ack_loss_unavailable_until_budget_block"
    BY <1>1, <1>2, <1>3, <1>6
       DEF ExpectedObservations, ProfileCellsValid, InRecovery
  <1>7. CASE profile = "wrong_delta_confirmed"
    BY <1>1, <1>2, <1>3, <1>7
       DEF ExpectedObservations, ProfileCellsValid, InRecovery
  <1> QED  BY <1>1, <1>3, <1>4, <1>5, <1>6, <1>7 DEF Profiles

\* An epoch is issued.
LEMMA ActiveValid ==
    ASSUME TypeOK, SnapshotValid, st.lifecycle = "RECOVERY_PENDING",
           NEW s, s = StateTuple("RECOVERY_ACTIVE", st.marker,
                                 st.issueCount + 1, st.replayCount,
                                 st.issueCount + 1, 0,
                                 "none", "none", "none", st.rows)
    PROVE  s \in States /\ StateValid(s)
  <1>1. /\ st \in States /\ StateValid(st)
    BY DEF TypeOK, SnapshotValid
  <1>2. st.issueCount \in 0..3
    BY <1>1, StateCells DEF StateValid, LifecycleCellsValid
  <1>3. s \in States
    BY <1>1, <1>2, StateCells
       DEF StateTuple, States, MaxRecoveryEpochs, Lifecycles, InRecovery
  <1>4. TerminalCellsValid(s)
    BY DEF StateTuple, TerminalCellsValid, Recovered, Blocked
  <1>5. LifecycleCellsValid(s)
    BY <1>1, <1>2, StateCells
       DEF StateTuple, StateValid, LifecycleCellsValid, MarkerFree
  <1>6. ProfileCellsValid(s)
    BY <1>1 DEF StateTuple, StateValid, ProfileCellsValid, InRecovery
  <1>7. ReplayRowsValid(s)
    BY <1>1 DEF StateTuple, StateValid, ReplayRowsValid, InRecovery
  <1>8. s.marker # NoMarker => MarkerValid(s.marker)
    BY <1>1 DEF StateTuple, StateValid
  <1> QED  BY <1>3, <1>4, <1>5, <1>6, <1>7, <1>8 DEF StateValid

\* An epoch is given back, or its replay was unavailable, before the last.
LEMMA PendingValid ==
    ASSUME TypeOK, SnapshotValid, st.lifecycle = "RECOVERY_ACTIVE",
           st.activeEpoch < 4,
           NEW n, \/ n = st.replayCount
                  \/ /\ n = st.replayCount + 1
                     /\ st.rows[n].observation = "unavailable"
    PROVE  PendingState(n) \in States /\ StateValid(PendingState(n))
  <1>1. /\ st \in States /\ StateValid(st) /\ profile \in Profiles
    BY DEF TypeOK, SnapshotValid
  <1>2. /\ st.issueCount \in 1..3 /\ st.activeEpoch = st.issueCount
        /\ st.replayCount \in 0..2 /\ st.replayCount <= st.issueCount - 1
    BY <1>1, StateCells DEF StateValid, LifecycleCellsValid
  <1>3. n \in 0..3 /\ n <= st.issueCount
    BY <1>2
  <1> DEFINE s == PendingState(n)
  <1>4. s \in States
    BY <1>1, <1>3, PendingCells
  <1>5. TerminalCellsValid(s)
    BY DEF PendingState, StateTuple, TerminalCellsValid, Recovered, Blocked
  <1>6. LifecycleCellsValid(s)
    BY <1>1, <1>2, <1>3
       DEF PendingState, StateTuple, StateValid, LifecycleCellsValid,
           MarkerFree
  <1>7. ProfileCellsValid(s)
    <2>1. CASE n = st.replayCount
      BY <1>1, <2>1
         DEF PendingState, StateTuple, StateValid, ProfileCellsValid,
             InRecovery
    <2>2. CASE /\ n = st.replayCount + 1
               /\ st.rows[n].observation = "unavailable"
      BY <1>1, <1>2, <2>2, CursorRow
         DEF PendingState, StateTuple, StateValid, ProfileCellsValid,
             InRecovery, Profiles
    <2> QED  BY <2>1, <2>2
  <1>8. ReplayRowsValid(s)
    BY <1>1 DEF PendingState, StateTuple, StateValid, ReplayRowsValid,
                InRecovery
  <1>9. s.marker # NoMarker => MarkerValid(s.marker)
    BY <1>1 DEF PendingState, StateTuple, StateValid
  <1> QED  BY <1>4, <1>5, <1>6, <1>7, <1>8, <1>9 DEF StateValid

\* The reasons for which the active epoch may end the recovery at cursor n.
EndsRecovery(n, k, r) ==
    \/ /\ k = "permanent_block" /\ st.activeEpoch = 4
       /\ n = st.replayCount
       /\ r \in {"recovery_epoch_budget_exhausted_after_release",
                "recovery_epoch_budget_exhausted_after_abandon"}
    \/ /\ k = "permanent_block" /\ st.activeEpoch = 4
       /\ n = st.replayCount + 1
       /\ st.rows[n].observation = "unavailable"
       /\ r = "recovery_epoch_budget_exhausted_after_unavailable"
    \/ /\ k = "recovered_terminal"
       /\ n = st.replayCount + 1
       /\ st.rows[n].observation = "confirmed_intended"
       /\ r = "synthetic_intended_transition_confirmed"
    \/ /\ k = "permanent_block"
       /\ n = st.replayCount + 1
       /\ st.rows[n].observation = "confirmed_wrong_delta"
       /\ r = "synthetic_wrong_delta_confirmed"

\* The active epoch ends the recovery: the terminal row is a reachable one.
LEMMA TerminalValid ==
    ASSUME TypeOK, SnapshotValid, st.lifecycle = "RECOVERY_ACTIVE",
           NEW n, NEW k, NEW r, EndsRecovery(n, k, r)
    PROVE  LET s == TerminalState(st.activeEpoch, n, k, r)
           IN  s \in States /\ StateValid(s)
  <1> DEFINE s == TerminalState(st.activeEpoch, n, k, r)
  <1>1. /\ st \in States /\ StateValid(st) /\ profile \in Profiles
    BY DEF TypeOK, SnapshotValid
  <1>2. /\ st.issueCount \in 1..4 /\ st.activeEpoch = st.issueCount
        /\ st.replayCount \in 0..3 /\ st.replayCount <= st.issueCount - 1
        /\ st.marker # NoMarker
    BY <1>1, StateCells DEF StateValid, LifecycleCellsValid, MarkerFree
  <1>3. n \in 0..4 /\ n <= st.issueCount /\ n <= st.replayCount + 1
    BY <1>2 DEF EndsRecovery
  <1>4. k \in Kinds /\ r \in Reasons
    BY DEF EndsRecovery, Kinds, Reasons
  <1>5. s \in States
    BY <1>1, <1>2, <1>3, <1>4, TerminalCells
  <1>6. /\ s.lifecycle = IF k = "recovered_terminal"
                         THEN "RECOVERED_WITNESS_LIVE"
                         ELSE "BLOCKED_WITNESS_LIVE"
        /\ s.issueCount = st.issueCount /\ s.replayCount = n
        /\ s.terminalEpoch = st.activeEpoch /\ s.activeEpoch = 0
        /\ s.kind = k /\ s.reason = r /\ s.witness = "live"
        /\ s.marker = st.marker /\ s.rows = <<>>
    BY DEF TerminalState, StateTuple
  <1>7. TerminalRowIsReachable(s)
    <2>1. CASE /\ k = "permanent_block" /\ st.activeEpoch = 4
               /\ n = st.replayCount
               /\ r \in {"recovery_epoch_budget_exhausted_after_release",
                        "recovery_epoch_budget_exhausted_after_abandon"}
      BY <1>1, <1>2, <1>6, <2>1, CursorRow
         DEF TerminalRowIsReachable, StateValid, ProfileCellsValid,
             InRecovery, Profiles
    <2>2. CASE /\ k = "permanent_block" /\ st.activeEpoch = 4
               /\ n = st.replayCount + 1
               /\ st.rows[n].observation = "unavailable"
               /\ r = "recovery_epoch_budget_exhausted_after_unavailable"
      BY <1>1, <1>2, <1>6, <2>2, CursorRow
         DEF TerminalRowIsReachable, StateValid, ProfileCellsValid,
             InRecovery, Profiles
    <2>3. CASE /\ k = "recovered_terminal"
               /\ n = st.replayCount + 1
               /\ st.rows[n].observation = "confirmed_intended"
               /\ r = "synthetic_intended_transition_confirmed"
      BY <1>1, <1>2, <1>6, <2>3, CursorRow
         DEF TerminalRowIsReachable, StateValid, ProfileCellsValid,
             InRecovery, Profiles
    <2>4. CASE /\ k = "permanent_block"
               /\ n = st.replayCount + 1
               /\ st.rows[n].observation = "confirmed_wrong_delta"
               /\ r = "synthetic_wrong_delta_confirmed"
      BY <1>1, <1>2, <1>6, <2>4, CursorRow
         DEF TerminalRowIsReachable, StateValid, ProfileCellsValid,
             InRecovery, Profiles
    <2> QED  BY <2>1, <2>2, <2>3, <2>4 DEF EndsRecovery
  <1>8. TerminalCellsValid(s)
    BY <1>2, <1>6, <1>7
       DEF TerminalCellsValid, Recovered, Blocked, EndsRecovery
  <1>9. LifecycleCellsValid(s)
    BY <1>2, <1>3, <1>6 DEF LifecycleCellsValid, MarkerFree
  <1>10. ProfileCellsValid(s)
    BY <1>1, <1>6 DEF StateValid, ProfileCellsValid, InRecovery
  <1>11. ReplayRowsValid(s)
    BY <1>6 DEF ReplayRowsValid, InRecovery
  <1>12. s.marker # NoMarker => MarkerValid(s.marker)
    BY <1>1, <1>6 DEF StateValid
  <1> QED  BY <1>5, <1>8, <1>9, <1>10, <1>11, <1>12 DEF StateValid

\* The witness is spent.
LEMMA SpentValid ==
    ASSUME TypeOK, SnapshotValid,
           st.lifecycle \in {"RECOVERED_WITNESS_LIVE", "BLOCKED_WITNESS_LIVE"},
           NEW s, s = StateTuple(IF st.lifecycle \in Recovered
                                 THEN "RECOVERED_WITNESS_SPENT"
                                 ELSE "BLOCKED_WITNESS_SPENT",
                                 st.marker, st.issueCount, st.replayCount,
                                 0, st.terminalEpoch, st.kind, st.reason,
                                 "spent", <<>>)
    PROVE  s \in States /\ StateValid(s)
  <1>1. /\ st \in States /\ StateValid(st)
    BY DEF TypeOK, SnapshotValid
  <1>2. s \in States
    BY <1>1, EmptyPlan, StateCells
       DEF StateTuple, States, MaxRecoveryEpochs, Lifecycles, Recovered,
           Blocked, Kinds, Reasons
  <1>3. TerminalCellsValid(s)
    <2>1. TerminalRowIsReachable(s)
      BY <1>1 DEF StateTuple, StateValid, TerminalCellsValid,
                  TerminalRowIsReachable, Recovered, Blocked
    <2> QED  BY <1>1, <2>1 DEF StateTuple, StateValid, TerminalCellsValid,
                               Recovered, Blocked
  <1>4. LifecycleCellsValid(s)
    BY <1>1 DEF StateTuple, StateValid, LifecycleCellsValid, MarkerFree,
                Recovered, Blocked
  <1>5. ProfileCellsValid(s)
    BY <1>1 DEF StateTuple, StateValid, ProfileCellsValid, InRecovery,
                Recovered, Blocked
  <1>6. ReplayRowsValid(s)
    BY DEF StateTuple, ReplayRowsValid, InRecovery
  <1>7. s.marker # NoMarker => MarkerValid(s.marker)
    BY <1>1 DEF StateTuple, StateValid
  <1> QED  BY <1>2, <1>3, <1>4, <1>5, <1>6, <1>7 DEF StateValid

\* The states publish reserves and leaves without a marker.
LEMMA BaseValid ==
    ASSUME NEW l \in MarkerFree
    PROVE  BaseState(l) \in States /\ StateValid(BaseState(l))
  <1>1. BaseState(l) \in States
    BY BaseCells DEF Lifecycles
  <1>2. TerminalCellsValid(BaseState(l))
    BY DEF BaseState, StateTuple, TerminalCellsValid, MarkerFree, Recovered,
           Blocked
  <1>3. LifecycleCellsValid(BaseState(l))
    BY DEF BaseState, StateTuple, LifecycleCellsValid, MarkerFree
  <1>4. ProfileCellsValid(BaseState(l))
    BY DEF BaseState, StateTuple, ProfileCellsValid, MarkerFree, InRecovery
  <1>5. ReplayRowsValid(BaseState(l))
    BY DEF BaseState, StateTuple, ReplayRowsValid, MarkerFree, InRecovery
  <1>6. BaseState(l).marker = NoMarker
    BY DEF BaseState, StateTuple
  <1> QED  BY <1>1, <1>2, <1>3, <1>4, <1>5, <1>6 DEF StateValid

----------------------------------------------------------------------------
(* What publish derives and commits.                                       *)

\* A changing transition the kernel accepts.
LEMMA CasChange ==
    ASSUME NEW cell \in CasStates, NEW expected, NEW proposal \in Payloads,
           NEW d \in Directives, NEW alt,
           Substitutes(d) => alt \in Payloads,
           Changes(cell, expected, proposal),
           ~ CasRaises(cell, expected, proposal, d, alt)
    PROVE  LET step == CasStep(cell, expected, proposal, d, alt)
           IN  /\ step \in Transitions
               /\ step.outcome = ChangedOutcome(d)
               /\ step.intended # cell /\ step.after # cell
               /\ step.intended.payload = proposal
               /\ step.intended.generation = cell.generation + 1
               /\ step.after.generation = cell.generation + 1
               /\ step.after.payload = IF Substitutes(d) THEN alt ELSE proposal
               /\ Substitutes(d) => alt # proposal
  <1>1. cell.generation \in 0..MaxGeneration
    BY CasAssumption DEF CasStates
  <1>2. cell.generation + 1 \in 1..MaxGeneration
    BY <1>1, CasAssumption DEF CasRaises
  <1> DEFINE next(p) == [generation |-> cell.generation + 1, payload |-> p]
             step == CasStep(cell, expected, proposal, d, alt)
  <1>3. \A p \in Payloads : next(p) \in CasStates /\ next(p) # cell
    <2> SUFFICES ASSUME NEW p \in Payloads
                 PROVE  next(p) \in CasStates /\ next(p) # cell
      OBVIOUS
    <2>1. next(p) \in CasStates
      BY <1>2 DEF CasStates
    <2>2. next(p).generation = cell.generation + 1
      OBVIOUS
    <2>3. next(p) # cell
      BY <1>1, <2>2
    <2> QED  BY <2>1, <2>3
  <1>4. step = [outcome |-> ChangedOutcome(d), intended |-> next(proposal),
                after |-> next(IF Substitutes(d) THEN alt ELSE proposal)]
    BY DEF CasStep, Changes
  <1>5. ChangedOutcome(d) \in CasOutcomes
    BY DEF ChangedOutcome, CasOutcomes, Directives
  <1>6. step \in Transitions
    BY <1>3, <1>4, <1>5 DEF Transitions
  <1>7. Substitutes(d) => alt # proposal
    BY DEF CasRaises
  <1> QED  BY <1>3, <1>4, <1>6, <1>7

\* The plan of a changing publish is the one its profile prescribes.
LEMMA PlanShape ==
    ASSUME NEW c \in Calls, profile \in Profiles, AlternateInv,
           ~ PlanRaises(c), Changes(c.cell, c.expected, c.proposal)
    PROVE  /\ Plan(c) \in Seq(Rows)
           /\ Len(Plan(c)) = Len(ExpectedObservations)
           /\ \A i \in 1..Len(Plan(c)) :
                 /\ Plan(c)[i].observation = ExpectedObservations[i]
                 /\ Plan(c)[i].transition.outcome =
                       ExpectedOutcome(Plan(c)[i].observation)
           /\ profile # "normal" => Len(Plan(c)) \in 1..4
  <1>1. /\ c.cell \in CasStates /\ c.expected \in CasStates
        /\ c.proposal \in Payloads
    BY DEF Calls
  <1>2. \A d \in Directives :
           ~ Substitutes(d) =>
              ~ CasRaises(c.cell, c.expected, c.proposal, d, alternate)
    BY DEF PlanRaises, NormalRaises, CasRaises
  <1>3. \A d \in Directives : ~ Substitutes(d) =>
           /\ Fault(c, d) \in Transitions
           /\ Fault(c, d).outcome = ChangedOutcome(d)
    BY <1>1, <1>2, CasChange DEF Fault
  <1>4. /\ Confirmed(c) \in Rows
        /\ Confirmed(c).observation = "confirmed_intended"
        /\ Confirmed(c).transition.outcome =
              "intended_applied_ack_lost_confirmed"
    BY <1>3 DEF Confirmed, Row, Rows, Observations, Directives, Substitutes,
                ChangedOutcome
  <1>5. /\ Unavailable(c) \in Rows
        /\ Unavailable(c).observation = "unavailable"
        /\ Unavailable(c).transition.outcome =
              "intended_applied_ack_lost_unconfirmed"
    BY <1>3 DEF Unavailable, Row, Rows, Observations, Directives, Substitutes,
                ChangedOutcome
  <1>6. profile = "wrong_delta_confirmed" =>
           /\ WrongDelta(c) \in Rows
           /\ WrongDelta(c).observation = "confirmed_wrong_delta"
           /\ WrongDelta(c).transition.outcome = "wrong_delta_confirmed"
    <2> SUFFICES ASSUME profile = "wrong_delta_confirmed"
                 PROVE  /\ WrongDelta(c) \in Rows
                        /\ WrongDelta(c).observation = "confirmed_wrong_delta"
                        /\ WrongDelta(c).transition.outcome =
                              "wrong_delta_confirmed"
      OBVIOUS
    <2> DEFINE d == "substitute_alternate_then_confirm_wrong_delta"
    <2>1. d \in Directives /\ alternate \in Payloads
      BY DEF Directives, AlternateInv
    <2>2. ~ CasRaises(c.cell, c.expected, c.proposal, d, alternate)
      BY DEF PlanRaises
    <2>3. Fault(c, d) \in Transitions /\ Fault(c, d).outcome = ChangedOutcome(d)
      BY <1>1, <2>1, <2>2, CasChange DEF Fault
    <2> QED  BY <2>3 DEF WrongDelta, Row, Rows, Observations, ChangedOutcome
  <1>7. CASE profile = "normal"
    BY <1>7, EmptyPlan DEF Plan, ExpectedObservations
  <1>8. CASE profile = "ack_loss_confirmed"
    BY <1>4, <1>8 DEF Plan, ExpectedObservations, ExpectedOutcome
  <1>9. CASE profile = "ack_loss_unavailable_then_confirmed"
    BY <1>4, <1>5, <1>9 DEF Plan, ExpectedObservations, ExpectedOutcome
  <1>10. CASE profile = "ack_loss_unavailable_until_budget_block"
    BY <1>5, <1>10 DEF Plan, ExpectedObservations, ExpectedOutcome
  <1>11. CASE profile = "wrong_delta_confirmed"
    BY <1>6, <1>11 DEF Plan, ExpectedObservations, ExpectedOutcome
  <1> QED  BY <1>7, <1>8, <1>9, <1>10, <1>11 DEF Profiles

\* The marker of a changing publish under a fault profile is a valid one.
LEMMA MarkerShape ==
    ASSUME NEW c \in Calls, profile \in Profiles \ {"normal"}, AlternateInv,
           ~ PlanRaises(c), Changes(c.cell, c.expected, c.proposal),
           c.rows = Plan(c)
    PROVE  /\ Marker(c) \in Markers
           /\ MarkerValid(Marker(c))
           /\ Marker(c).nonce = c.nonce /\ Marker(c).payload = c.proposal
           /\ Marker(c).rowCount = Len(c.rows)
           /\ Marker(c).faultOutcome = c.rows[1].transition.outcome
  <1>1. /\ c.cell \in CasStates /\ c.expected \in CasStates
        /\ c.proposal \in Payloads /\ c.nonce \in Nonces
    BY DEF Calls
  <1>2. /\ c.rows \in Seq(Rows)
        /\ Len(c.rows) = Len(ExpectedObservations)
        /\ Len(c.rows) \in 1..4
        /\ c.rows[1].observation = ExpectedObservations[1]
        /\ c.rows[1].transition.outcome =
              ExpectedOutcome(c.rows[1].observation)
    BY PlanShape
  <1>3. c.rows[1] \in Rows
    BY <1>2
  <1>4. /\ c.rows[1].transition.after \in CasStates
        /\ c.rows[1].transition.outcome \in CasOutcomes
    BY <1>3 DEF Rows, Transitions
  <1>5. "apply_intended_acknowledge" \in Directives
        /\ ~ Substitutes("apply_intended_acknowledge")
    BY DEF Directives, Substitutes
  <1>6. /\ Normal(c).intended \in CasStates
        /\ Normal(c).intended # c.cell
        /\ Normal(c).intended.payload = c.proposal
        /\ Normal(c).intended.generation = c.cell.generation + 1
    <2>1. ~ CasRaises(c.cell, c.expected, c.proposal,
                      "apply_intended_acknowledge", NoPayload)
      BY DEF PlanRaises, NormalRaises
    <2>2. Normal(c) \in Transitions
      BY <1>1, <1>5, <2>1, CasChange DEF Normal
    <2>3. Normal(c).intended \in CasStates
      BY <2>2 DEF Transitions
    <2> QED  BY <1>1, <1>5, <2>1, <2>3, CasChange DEF Normal
  <1>7. /\ c.rows[1].transition.after # c.cell
        /\ profile = "wrong_delta_confirmed" <=>
              c.rows[1].transition.after # Normal(c).intended
    <2>1. CASE profile = "wrong_delta_confirmed"
      <3> DEFINE d == "substitute_alternate_then_confirm_wrong_delta"
      <3>1. c.rows[1].transition = Fault(c, d)
        BY <2>1 DEF Plan, WrongDelta, Row
      <3>2. d \in Directives /\ alternate \in Payloads /\ Substitutes(d)
        BY <2>1 DEF Directives, AlternateInv, Substitutes
      <3>3. ~ CasRaises(c.cell, c.expected, c.proposal, d, alternate)
        BY <2>1 DEF PlanRaises
      <3>4. /\ Fault(c, d).after # c.cell
            /\ Fault(c, d).after.payload # c.proposal
        BY <1>1, <3>2, <3>3, CasChange DEF Fault
      <3> QED  BY <1>6, <2>1, <3>1, <3>4
    <2>2. CASE profile # "wrong_delta_confirmed"
      <3>1. PICK d \in Directives : /\ ~ Substitutes(d)
                                    /\ c.rows[1].transition = Fault(c, d)
        BY <2>2 DEF Plan, Confirmed, Unavailable, Row, Directives,
                    Substitutes, Profiles
      <3>2. ~ CasRaises(c.cell, c.expected, c.proposal, d, alternate)
        BY <3>1 DEF PlanRaises, NormalRaises, CasRaises
      <3>3. Fault(c, d).after # c.cell
        BY <1>1, <3>1, <3>2, CasChange DEF Fault
      <3>4. Fault(c, d).after = Normal(c).intended
        BY <3>1, <1>5 DEF Fault, Normal, CasStep, Changes
      <3> QED  BY <2>2, <3>1, <3>3, <3>4
    <2> QED  BY <2>1, <2>2
  <1>8. Marker(c) \in Markers
    BY <1>1, <1>2, <1>4, <1>6
       DEF Marker, Markers, MarkerKind, Version, MaxRecoveryEpochs
  <1>9. MarkerValid(Marker(c))
    BY <1>2, <1>6, <1>7 DEF Marker, MarkerValid, Version
  <1> QED  BY <1>8, <1>9 DEF Marker

\* What publish commits: the open state, or a pending recovery.
LEMMA CommittedValid ==
    ASSUME NEW c \in Calls, profile \in Profiles, AlternateInv,
           ~ PlanRaises(c), c.rows = Plan(c)
    PROVE  /\ Committed(c) \in States /\ StateValid(Committed(c))
           /\ \/ Committed(c) = BaseState("OPEN")
              \/ /\ Changes(c.cell, c.expected, c.proposal)
                 /\ profile # "normal"
                 /\ Committed(c).lifecycle = "RECOVERY_PENDING"
                 /\ Committed(c).marker = Marker(c)
           /\ Changes(c.cell, c.expected, c.proposal) /\ profile # "normal" =>
                 Committed(c).lifecycle = "RECOVERY_PENDING"
  <1>1. CASE ~ Changes(c.cell, c.expected, c.proposal) \/ profile = "normal"
    <2>1. c.rows = <<>>
      BY <1>1 DEF Plan
    <2> QED  BY <1>1, <2>1, BaseValid DEF Committed, MarkerFree
  <1>2. CASE Changes(c.cell, c.expected, c.proposal) /\ profile # "normal"
    <2>1. /\ c.rows \in Seq(Rows)
          /\ Len(c.rows) = Len(ExpectedObservations)
          /\ \A i \in 1..Len(c.rows) :
                /\ c.rows[i].observation = ExpectedObservations[i]
                /\ c.rows[i].transition.outcome =
                      ExpectedOutcome(c.rows[i].observation)
          /\ Len(c.rows) \in 1..4
      BY <1>2, PlanShape
    <2>2. /\ Marker(c) \in Markers /\ MarkerValid(Marker(c))
          /\ Marker(c).rowCount = Len(c.rows)
          /\ Marker(c).faultOutcome = c.rows[1].transition.outcome
      BY <1>2, MarkerShape
    <2>3. c.rows # <<>>
      BY <2>1
    <2> DEFINE s == Committed(c)
    <2>4. s = StateTuple("RECOVERY_PENDING", Marker(c), 0, 0, 0, 0,
                         "none", "none", "none", c.rows)
      BY <2>3 DEF Committed
    <2>5. s \in States
      BY <2>1, <2>2, <2>4
         DEF StateTuple, States, MaxRecoveryEpochs, Lifecycles, InRecovery
    <2>6. Marker(c) # NoMarker
      BY <2>2, NullAssumption
    <2>7. TerminalCellsValid(s)
      BY <2>4 DEF StateTuple, TerminalCellsValid, Recovered, Blocked
    <2>8. LifecycleCellsValid(s)
      BY <2>4, <2>6 DEF StateTuple, LifecycleCellsValid, MarkerFree
    <2>9. ProfileCellsValid(s)
      BY <1>2, <2>4 DEF StateTuple, ProfileCellsValid
    <2>10. ReplayRowsValid(s)
      BY <2>1, <2>2, <2>4 DEF StateTuple, ReplayRowsValid, InRecovery
    <2>11. StateValid(s)
      BY <2>2, <2>4, <2>7, <2>8, <2>9, <2>10 DEF StateTuple, StateValid
    <2> QED  BY <1>2, <2>4, <2>5, <2>11 DEF StateTuple
  <1> QED  BY <1>1, <1>2

----------------------------------------------------------------------------
(* What the operations under the lock do to the coordinator.               *)

Issues ==
    /\ st.lifecycle = "RECOVERY_PENDING"
    /\ st' = StateTuple("RECOVERY_ACTIVE", st.marker, st.issueCount + 1,
                        st.replayCount, st.issueCount + 1, 0,
                        "none", "none", "none", st.rows)

GoesPending ==
    /\ st.lifecycle = "RECOVERY_ACTIVE" /\ st.activeEpoch < 4
    /\ \E n :
          /\ \/ n = st.replayCount
             \/ /\ n = st.replayCount + 1
                /\ st.rows[n].observation = "unavailable"
          /\ st' = PendingState(n)

EndsAt(n, k, r) ==
    /\ EndsRecovery(n, k, r)
    /\ st' = TerminalState(st.activeEpoch, n, k, r)

Ends ==
    /\ st.lifecycle = "RECOVERY_ACTIVE"
    /\ \E n, k, r : EndsAt(n, k, r)

Spends ==
    /\ st.lifecycle \in {"RECOVERED_WITNESS_LIVE", "BLOCKED_WITNESS_LIVE"}
    /\ st' = StateTuple(IF st.lifecycle \in Recovered
                        THEN "RECOVERED_WITNESS_SPENT"
                        ELSE "BLOCKED_WITNESS_SPENT",
                        st.marker, st.issueCount, st.replayCount,
                        0, st.terminalEpoch, st.kind, st.reason,
                        "spent", <<>>)

Moves == Issues \/ GoesPending \/ Ends \/ Spends

\* An operation that runs under the lock leaves publishers and stages alone.
LockedEffect ==
    /\ UNCHANGED <<profile, alternate, pc, call, stage>>
    /\ action' \in Actions
    /\ st' = st \/ Moves

LEMMA ReturnEffect ==
    ASSUME NEW op \in Operations, NEW o \in Outcomes, NEW e \in 0..4, NEW next,
           Return(op, o, e, next), next = st \/ Moves
    PROVE  LockedEffect
  <1>1. (next # st) \in BOOLEAN
    BY Zenon
  <1>2. \A b \in BOOLEAN : [operation |-> op, outcome |-> o,
                            ordinal |-> e, changed |-> b] \in Actions
    BY DEF Actions, MaxRecoveryEpochs
  <1>3. action' = [operation |-> op, outcome |-> o,
                   ordinal |-> e, changed |-> next # st]
    BY Zenon DEF Return
  <1>4. action' \in Actions
    BY <1>1, <1>2, <1>3, Zenon
  <1>5. /\ UNCHANGED <<profile, alternate, pc, call, stage>>
        /\ st' = next
    BY Zenon DEF Return
  <1> QED  BY <1>4, <1>5, Zenon DEF LockedEffect

LEMMA FailEffect == ASSUME Fail PROVE LockedEffect
  <1>1. NoAction \in Actions
    BY DEF NoAction, Actions, Operations, Outcomes, MaxRecoveryEpochs
  <1> QED  BY <1>1 DEF Fail, LockedEffect

LEMMA AcquireEffect ==
    ASSUME TypeOK, SnapshotValid, Acquire
    PROVE  LockedEffect
  <1>1. st \in States /\ StateValid(st)
    BY DEF TypeOK, SnapshotValid
  <1>2. CASE st.lifecycle = "RECOVERY_PENDING"
    <2>1. st.issueCount + 1 \in 0..4
      BY <1>1, <1>2, StateCells DEF StateValid, LifecycleCellsValid
    <2>2. Return("acquire_epoch", "epoch_issued", st.issueCount + 1,
                 StateTuple("RECOVERY_ACTIVE", st.marker, st.issueCount + 1,
                            st.replayCount, st.issueCount + 1, 0,
                            "none", "none", "none", st.rows))
      BY <1>2, Zenon DEF Acquire
    <2>3. Moves
      BY <1>2, <2>2, Zenon DEF Return, Moves, Issues
    <2> QED  BY <2>1, <2>2, <2>3, ReturnEffect DEF Operations, Outcomes
  <1>3. CASE st.lifecycle # "RECOVERY_PENDING"
    <2> DEFINE o == CASE st.lifecycle = "OPEN" -> "no_marker_noop"
                      [] st.lifecycle = "PUBLISHING" ->
                             "publisher_active_excluded"
                      [] st.lifecycle = "RECOVERY_ACTIVE" ->
                             "recovery_active_excluded"
                      [] st.lifecycle \in Recovered ->
                             "recovered_terminal_noop"
                      [] st.lifecycle \in Blocked -> "blocked_terminal_noop"
                      [] OTHER -> "poisoned_no_marker_noop"
    <2>1. Return("acquire_epoch", o, 0, st)
      BY <1>3, Zenon DEF Acquire
    <2>2. o \in Outcomes
      BY DEF Outcomes
    <2>3. "acquire_epoch" \in Operations /\ 0 \in 0..4
      BY DEF Operations
    <2> HIDE DEF o
    <2> QED  BY <2>1, <2>2, <2>3, ReturnEffect
  <1> QED  BY <1>2, <1>3

LEMMA GiveBackEffect ==
    ASSUME TypeOK, SnapshotValid, NEW e \in 0..4,
           NEW op \in Operations, NEW a \in Outcomes, NEW b \in Outcomes,
           NEW r \in {"recovery_epoch_budget_exhausted_after_release",
                     "recovery_epoch_budget_exhausted_after_abandon"},
           GiveBack(op, e, a, b, r)
    PROVE  LockedEffect
  <1>1. st.lifecycle = "RECOVERY_ACTIVE" /\ e = st.activeEpoch
    BY DEF GiveBack, ActiveEpoch
  <1>2. CASE e < 4
    <2>1. Return(op, a, e, PendingState(st.replayCount))
      BY <1>2 DEF GiveBack, MaxRecoveryEpochs
    <2>2. Moves
      BY <1>1, <1>2, <2>1 DEF Return, Moves, GoesPending
    <2> QED  BY <2>1, <2>2, ReturnEffect
  <1>3. CASE ~ (e < 4)
    <2>1. e = 4
      BY <1>3
    <2>2. EndsRecovery(st.replayCount, "permanent_block", r)
      BY <1>1, <2>1 DEF EndsRecovery
    <2>3. Return(op, b, e, TerminalState(e, st.replayCount,
                                         "permanent_block", r))
      BY <1>3 DEF GiveBack, MaxRecoveryEpochs
    <2>4. EndsAt(st.replayCount, "permanent_block", r)
      BY <1>1, <2>2, <2>3 DEF Return, EndsAt
    <2>5. Ends
      BY <1>1, <2>4 DEF Ends
    <2>6. Moves
      BY <2>5 DEF Moves
    <2> QED  BY <2>3, <2>6, ReturnEffect
  <1> QED  BY <1>2, <1>3

LEMMA ReplayRowEffect ==
    ASSUME TypeOK, SnapshotValid, NEW e \in 0..4, ReplayRow(e)
    PROVE  LockedEffect
  <1> DEFINE n == st.replayCount + 1
             o == st.rows[n].observation
  <1>1. st.lifecycle = "RECOVERY_ACTIVE" /\ e = st.activeEpoch
    BY DEF ReplayRow, ActiveEpoch
  <1>2. o \in Observations
    BY <1>1, CursorRow DEF Observations, TypeOK, Profiles
  <1>3. CASE o = "unavailable" /\ e < 4
    <2>1. Return("replay_epoch", "replay_unavailable_retry_pending", e,
                 PendingState(n))
      BY <1>3 DEF ReplayRow, MaxRecoveryEpochs
    <2>2. GoesPending
      BY <1>1, <1>3, <2>1 DEF Return, GoesPending
    <2>3. Moves
      BY <2>2 DEF Moves
    <2> QED  BY <2>1, <2>3, ReturnEffect DEF Operations, Outcomes
  <1>4. CASE o = "unavailable" /\ ~ (e < 4)
    <2> DEFINE r == "recovery_epoch_budget_exhausted_after_unavailable"
    <2>1. Return("replay_epoch", "replay_unavailable_budget_permanent_block",
                 e, TerminalState(e, n, "permanent_block", r))
      BY <1>4 DEF ReplayRow, MaxRecoveryEpochs
    <2>2. EndsAt(n, "permanent_block", r)
      BY <1>1, <1>4, <2>1 DEF Return, EndsAt, EndsRecovery
    <2>3. Moves
      BY <1>1, <2>2 DEF Moves, Ends
    <2> QED  BY <2>1, <2>3, ReturnEffect DEF Operations, Outcomes
  <1>5. CASE o = "confirmed_intended"
    <2> DEFINE r == "synthetic_intended_transition_confirmed"
    <2>1. Return("replay_epoch", "replay_confirmed_recovered",
                 e, TerminalState(e, n, "recovered_terminal", r))
      BY <1>5 DEF ReplayRow, MaxRecoveryEpochs
    <2>2. EndsAt(n, "recovered_terminal", r)
      BY <1>1, <1>5, <2>1 DEF Return, EndsAt, EndsRecovery
    <2>3. Moves
      BY <1>1, <2>2 DEF Moves, Ends
    <2> QED  BY <2>1, <2>3, ReturnEffect DEF Operations, Outcomes
  <1>6. CASE o = "confirmed_wrong_delta"
    <2> DEFINE r == "synthetic_wrong_delta_confirmed"
    <2>1. Return("replay_epoch", "replay_wrong_delta_permanent_block",
                 e, TerminalState(e, n, "permanent_block", r))
      BY <1>6 DEF ReplayRow, MaxRecoveryEpochs
    <2>2. EndsAt(n, "permanent_block", r)
      BY <1>1, <1>6, <2>1 DEF Return, EndsAt, EndsRecovery
    <2>3. Moves
      BY <1>1, <2>2 DEF Moves, Ends
    <2> QED  BY <2>1, <2>3, ReturnEffect DEF Operations, Outcomes
  <1> QED  BY <1>2, <1>3, <1>4, <1>5, <1>6 DEF Observations

LEMMA ExcludedEffect ==
    ASSUME NEW op \in Operations, Excluded(op)
    PROVE  LockedEffect
  <1>1. Return(op, "publisher_active_excluded", 0, st)
    BY DEF Excluded
  <1> QED  BY <1>1, ReturnEffect DEF Outcomes

LEMMA ConsumeEffect ==
    ASSUME TypeOK, SnapshotValid, NEW exact, NEW purpose, NEW matches,
           Consume(exact, purpose, matches)
    PROVE  LockedEffect
  <1>1. st \in States
    BY DEF TypeOK
  <1>2. CASE Excluded("consume_witness")
    BY <1>2, ExcludedEffect DEF Operations
  <1>3. CASE Fail
    BY <1>3, FailEffect
  <1>4. CASE Return("consume_witness", "witness_already_spent_noop",
                    st.terminalEpoch, st)
    BY <1>1, <1>4, StateCells, ReturnEffect DEF Operations, Outcomes
  <1> DEFINE s == StateTuple(IF st.lifecycle \in Recovered
                             THEN "RECOVERED_WITNESS_SPENT"
                             ELSE "BLOCKED_WITNESS_SPENT",
                             st.marker, st.issueCount, st.replayCount,
                             0, st.terminalEpoch, st.kind, st.reason,
                             "spent", <<>>)
  <1>5. CASE /\ st.lifecycle \in {"RECOVERED_WITNESS_LIVE",
                                  "BLOCKED_WITNESS_LIVE"}
             /\ Return("consume_witness", "witness_consumed",
                       st.terminalEpoch, s)
    <2>1. Moves
      BY <1>5, Zenon DEF Return, Moves, Spends
    <2>2. st.terminalEpoch \in 0..4
      BY <1>1, StateCells
    <2>3. "consume_witness" \in Operations /\ "witness_consumed" \in Outcomes
      BY DEF Operations, Outcomes
    <2> HIDE DEF s
    <2> QED  BY <1>5, <2>1, <2>2, <2>3, ReturnEffect
  <1> QED  BY <1>2, <1>3, <1>4, <1>5, Zenon DEF Consume

LEMMA HandleEffect ==
    ASSUME TypeOK, SnapshotValid, NEW e \in Handles,
           Release(e) \/ Abandon(e) \/ Replay(e)
    PROVE  LockedEffect
  <1>1. st \in States
    BY DEF TypeOK
  <1>2. e \in 0..4
    BY <1>1, StateCells DEF Handles
  <1>3. CASE Release(e)
    <2>1. CASE Excluded("release_epoch")
      BY <2>1, ExcludedEffect DEF Operations
    <2>2. CASE Fail
      BY <2>2, FailEffect
    <2>3. CASE GiveBack("release_epoch", e, "epoch_released_retry_pending",
                        "epoch_release_budget_permanent_block",
                        "recovery_epoch_budget_exhausted_after_release")
      BY <1>2, <2>3, GiveBackEffect DEF Operations, Outcomes
    <2> QED  BY <1>3, <2>1, <2>2, <2>3 DEF Release
  <1>4. CASE Abandon(e)
    <2>1. CASE Excluded("abandon_epoch")
      BY <2>1, ExcludedEffect DEF Operations
    <2>2. CASE Fail
      BY <2>2, FailEffect
    <2>3. CASE GiveBack("abandon_epoch", e, "epoch_abandoned_retry_pending",
                        "epoch_abandon_budget_permanent_block",
                        "recovery_epoch_budget_exhausted_after_abandon")
      BY <1>2, <2>3, GiveBackEffect DEF Operations, Outcomes
    <2> QED  BY <1>4, <2>1, <2>2, <2>3 DEF Abandon
  <1>5. CASE Replay(e)
    <2>1. CASE Excluded("replay_epoch")
      BY <2>1, ExcludedEffect DEF Operations
    <2>2. CASE Fail
      BY <2>2, FailEffect
    <2>3. CASE ReplayTerminal(e)
      BY <1>2, <2>3, ReturnEffect DEF ReplayTerminal, Operations, Outcomes
    <2>4. CASE ReplayRow(e)
      BY <1>2, <2>4, ReplayRowEffect
    <2> QED  BY <1>5, <2>1, <2>2, <2>3, <2>4 DEF Replay
  <1> QED  BY <1>3, <1>4, <1>5

\* Every move is to a valid state with the same marker.
LEMMA MovesValid ==
    ASSUME TypeOK, SnapshotValid, Moves
    PROVE  /\ st' \in States /\ StateValid(st')
           /\ st'.marker = st.marker
           /\ st.lifecycle \notin MarkerFree /\ st'.lifecycle \notin MarkerFree
  <1>1. CASE Issues
    BY <1>1, ActiveValid DEF Issues, StateTuple, MarkerFree
  <1>2. CASE GoesPending
    <2>1. PICK n : /\ \/ n = st.replayCount
                      \/ /\ n = st.replayCount + 1
                         /\ st.rows[n].observation = "unavailable"
                   /\ st' = PendingState(n)
      BY <1>2 DEF GoesPending
    <2>2. st' \in States /\ StateValid(st')
      BY <1>2, <2>1, PendingValid DEF GoesPending
    <2> QED  BY <1>2, <2>1, <2>2
                DEF GoesPending, PendingState, StateTuple, MarkerFree
  <1>3. CASE Ends
    <2>1. PICK n, k, r : EndsAt(n, k, r)
      BY <1>3, Zenon DEF Ends
    <2>2. /\ EndsRecovery(n, k, r)
          /\ st' = TerminalState(st.activeEpoch, n, k, r)
      BY <2>1 DEF EndsAt
    <2>3. st' \in States /\ StateValid(st')
      BY <1>3, <2>2, TerminalValid DEF Ends
    <2>4. /\ st'.marker = st.marker
          /\ st'.lifecycle \in {"RECOVERED_WITNESS_LIVE",
                                "BLOCKED_WITNESS_LIVE"}
      BY <2>2 DEF TerminalState, StateTuple
    <2> QED  BY <1>3, <2>3, <2>4 DEF Ends, MarkerFree
  <1>4. CASE Spends
    BY <1>4, SpentValid DEF Spends, StateTuple, MarkerFree
  <1> QED  BY <1>1, <1>2, <1>3, <1>4 DEF Moves

\* A valid state is recovered only if the intended change happened.
LEMMA RecoveredIntended ==
    ASSUME SnapshotValid, st.lifecycle \in Recovered
    PROVE  st.marker.actualAfter = st.marker.intendedAfter
  <1>1. /\ TerminalCellsValid(st) /\ LifecycleCellsValid(st)
        /\ st.marker # NoMarker => MarkerValid(st.marker)
    BY DEF SnapshotValid, StateValid
  <1>2. st.reason = "synthetic_intended_transition_confirmed"
        /\ TerminalRowIsReachable(st)
    BY <1>1 DEF TerminalCellsValid, Recovered
  <1>3. profile # "wrong_delta_confirmed"
    BY <1>2 DEF TerminalRowIsReachable
  <1>4. MarkerValid(st.marker)
    BY <1>1 DEF LifecycleCellsValid, MarkerFree, Recovered
  <1> QED  BY <1>3, <1>4 DEF MarkerValid

\* The validators depend on the profile only, which never changes.
LEMMA ValidFrame ==
    ASSUME profile' = profile
    PROVE  StateValid(st)' = StateValid(st')
  BY DEF StateValid, TerminalCellsValid, TerminalRowIsReachable,
         LifecycleCellsValid, ProfileCellsValid, ReplayRowsValid,
         MarkerValid, MarkerKind, ExpectedObservations

LEMMA LockedPreserves ==
    ASSUME Inv, LockedEffect
    PROVE  Inv'
  <1>1. /\ profile' = profile /\ alternate' = alternate /\ pc' = pc
        /\ call' = call /\ stage' = stage /\ action' \in Actions
        /\ TypeOK /\ SnapshotValid
    BY DEF LockedEffect, Inv
  <1>2. st' \in States /\ StateValid(st') /\ st'.marker = st.marker
    BY <1>1, MovesValid DEF LockedEffect, TypeOK, SnapshotValid
  <1>3. \/ st' = st
        \/ st.lifecycle \notin MarkerFree /\ st'.lifecycle \notin MarkerFree
    <2>1. CASE Moves
      BY <1>1, <2>1, MovesValid
    <2> QED  BY <2>1, Zenon DEF LockedEffect
  <1>4. TypeOK'
    BY <1>1, <1>2 DEF TypeOK
  <1>5. AlternateInv'
    BY <1>1 DEF Inv, AlternateInv
  <1>6. SnapshotValid'
    BY <1>1, <1>2, ValidFrame DEF SnapshotValid
  <1>7. ExclusiveWindow'
    BY <1>1, <1>3 DEF Inv, ExclusiveWindow, MarkerFree
  <1>8. CallsInv'
    <2> SUFFICES ASSUME NEW u \in Threads, pc'[u] # "idle"
                 PROVE  CallOK(pc[u], call[u], stage)'
      BY DEF CallsInv
    <2>1. CallOK(pc[u], call[u], stage)
      BY <1>1 DEF Inv, CallsInv
    <2>2. PlanRaises(call[u])' = PlanRaises(call[u])
      BY <1>1 DEF PlanRaises, NormalRaises
    <2>3. Plan(call[u])' = Plan(call[u])
      BY <1>1 DEF Plan, Confirmed, Unavailable, WrongDelta, Row, Fault
    <2> QED  BY <1>1, <2>1, <2>2, <2>3 DEF CallOK
  <1>9. StagesInv'
    BY <1>1, <1>3 DEF Inv, StagesInv, MarkerFree
  <1>10. RecoveredMeansIntended'
    <2>1. (st.lifecycle \in Recovered =>
             st.marker.actualAfter = st.marker.intendedAfter)'
      BY <1>6, RecoveredIntended, PTL
    <2> QED  BY <1>1, <1>2, <2>1 DEF Inv, RecoveredMeansIntended
  <1> QED  BY <1>4, <1>5, <1>6, <1>7, <1>8, <1>9, <1>10 DEF Inv

----------------------------------------------------------------------------
(* The steps of publish.                                                   *)

LEMMA OwnerFacts ==
    ASSUME Inv, NEW t \in Threads, pc[t] # "idle"
    PROVE  /\ st.lifecycle = "PUBLISHING" /\ st.marker = NoMarker
           /\ \A u \in Threads : u # t => pc[u] = "idle"
           /\ CallOK(pc[t], call[t], stage)
           /\ call[t] \in Calls
  <1>1. st.lifecycle = "PUBLISHING"
    BY DEF Inv, ExclusiveWindow
  <1>2. st.marker = NoMarker
    BY <1>1 DEF Inv, SnapshotValid, StateValid, LifecycleCellsValid, MarkerFree
  <1>3. \A u \in Threads : u # t => pc[u] = "idle"
    BY DEF Inv, ExclusiveWindow
  <1>4. CallOK(pc[t], call[t], stage)
    BY DEF Inv, CallsInv
  <1> QED  BY <1>1, <1>2, <1>3, <1>4 DEF CallOK

\* A step between the critical sections that touches at most the stage file
\* of its own, changing, call.
LEMMA UnlockedPreserves ==
    ASSUME Inv, NEW t \in Threads, NEW here, NEW there, NEW c,
           pc[t] # "idle", Unlocked(t, here, there, c),
           there \in PublishSteps \ {"idle"},
           CallOK(there, c, stage'), c.nonce = call[t].nonce,
           call[t].changedCallStarted => c.changedCallStarted,
           stage' \in [Nonces -> Stages],
           \A n \in Nonces :
              \/ stage'[n] = stage[n]
              \/ n = c.nonce /\ c.changedCallStarted
    PROVE  Inv'
  <1>1. /\ profile' = profile /\ alternate' = alternate /\ st' = st
        /\ action' = action
        /\ pc' = [pc EXCEPT ![t] = there] /\ call' = [call EXCEPT ![t] = c]
        /\ TypeOK
    BY DEF Unlocked, Inv
  <1>2. /\ st.lifecycle = "PUBLISHING" /\ st.marker = NoMarker
        /\ \A u \in Threads : u # t => pc[u] = "idle"
    BY OwnerFacts
  <1>3. /\ pc'[t] = there /\ call'[t] = c
        /\ \A u \in Threads : u # t => pc'[u] = pc[u] /\ call'[u] = call[u]
    BY <1>1 DEF TypeOK
  <1>4. c \in Calls
    BY DEF CallOK
  <1>5. TypeOK'
    <2>1. pc' \in [Threads -> PublishSteps]
      BY <1>1 DEF TypeOK
    <2>2. call' \in [Threads -> Calls \cup {NoCall}]
      BY <1>1, <1>4 DEF TypeOK
    <2> QED  BY <1>1, <2>1, <2>2 DEF TypeOK
  <1>6. AlternateInv'
    BY <1>1 DEF Inv, AlternateInv
  <1>7. SnapshotValid'
    BY <1>1, ValidFrame DEF Inv, SnapshotValid
  <1>8. ExclusiveWindow'
    BY <1>1, <1>2, <1>3 DEF ExclusiveWindow, PublishSteps
  <1>9. CallsInv'
    <2> SUFFICES ASSUME NEW u \in Threads, pc'[u] # "idle"
                 PROVE  CallOK(pc[u], call[u], stage)'
      BY DEF CallsInv
    <2>1. /\ call'[u] = c /\ pc'[u] = there
          /\ profile' = profile /\ alternate' = alternate
      BY <1>1, <1>2, <1>3
    <2>2. PlanRaises(call[u])' = PlanRaises(c)
      BY <2>1 DEF PlanRaises, NormalRaises
    <2>3. /\ Confirmed(call[u])' = Confirmed(c)
          /\ Unavailable(call[u])' = Unavailable(c)
          /\ WrongDelta(call[u])' = WrongDelta(c)
      BY <2>1, Zenon DEF Confirmed, Unavailable, WrongDelta, Row, Fault
    <2>4. Plan(call[u])' = Plan(c)
      BY <2>1, <2>3 DEF Plan
    <2>5. WritesImpossible(call[u])' = WritesImpossible(c)
      BY <2>1 DEF WritesImpossible
    <2> QED  BY <2>1, <2>2, <2>4, <2>5 DEF CallOK
  <1>10. StagesInv'
    BY <1>1, <1>2, <1>3 DEF Inv, StagesInv
  <1>11. RecoveredMeansIntended'
    BY <1>1, <1>2 DEF RecoveredMeansIntended, Recovered
  <1> QED  BY <1>5, <1>6, <1>7, <1>8, <1>9, <1>10, <1>11 DEF Inv

LEMMA EnterPreserves ==
    ASSUME Inv, NEW t \in Threads, PublishEnter(t)
    PROVE  Inv'
  <1>1. PICK cell \in CasStates, expected \in CasStates,
             proposal \in Payloads, nonce \in Nonces :
           call' = [call EXCEPT ![t] = NewCall(cell, expected, proposal, nonce)]
    BY DEF PublishEnter
  <1> DEFINE c == NewCall(cell, expected, proposal, nonce)
  <1>2. /\ profile' = profile /\ alternate' = alternate /\ stage' = stage
        /\ st' = BaseState("PUBLISHING") /\ action' = NoAction
        /\ pc' = [pc EXCEPT ![t] = "derive"]
        /\ st.lifecycle = "OPEN" /\ pc[t] = "idle" /\ TypeOK
    BY DEF PublishEnter, Inv
  <1>3. \A u \in Threads : pc[u] = "idle"
    BY <1>2 DEF Inv, ExclusiveWindow
  <1>4. /\ c \in Calls /\ ~ c.changedCallStarted /\ c.writes = 0
    BY EmptyPlan DEF NewCall, Calls
  <1>5. /\ pc'[t] = "derive" /\ call'[t] = c
        /\ \A u \in Threads : u # t => pc'[u] = "idle"
    BY <1>1, <1>2, <1>3 DEF TypeOK
  <1>6. TypeOK'
    <2>1. NoAction \in Actions
      BY DEF NoAction, Actions, Operations, Outcomes, MaxRecoveryEpochs
    <2>2. BaseState("PUBLISHING") \in States
      BY BaseValid DEF MarkerFree
    <2>3. pc' \in [Threads -> PublishSteps]
      BY <1>2 DEF TypeOK, PublishSteps
    <2>4. call' \in [Threads -> Calls \cup {NoCall}]
      BY <1>1, <1>2, <1>4 DEF TypeOK
    <2> QED  BY <1>2, <2>1, <2>2, <2>3, <2>4 DEF TypeOK
  <1>7. AlternateInv'
    BY <1>2 DEF Inv, AlternateInv
  <1>8. SnapshotValid'
    BY <1>2, BaseValid, ValidFrame DEF SnapshotValid, MarkerFree
  <1>9. st'.lifecycle = "PUBLISHING" /\ st'.marker = NoMarker
    BY <1>2 DEF BaseState, StateTuple
  <1>10. ExclusiveWindow'
    BY <1>5, <1>9 DEF ExclusiveWindow
  <1>11. CallsInv'
    <2> SUFFICES ASSUME NEW u \in Threads, pc'[u] # "idle"
                 PROVE  CallOK(pc[u], call[u], stage)'
      BY DEF CallsInv
    <2>1. call'[u] = c /\ pc'[u] = "derive"
      BY <1>5
    <2> QED  BY <1>4, <2>1 DEF CallOK
  <1>12. StagesInv'
    BY <1>2, <1>3 DEF Inv, StagesInv
  <1>13. RecoveredMeansIntended'
    BY <1>9 DEF RecoveredMeansIntended, Recovered
  <1> QED  BY <1>6, <1>7, <1>8, <1>10, <1>11, <1>12, <1>13 DEF Inv

LEMMA RaisesPreserves ==
    ASSUME Inv, NEW t \in Threads, PublishRaises(t)
    PROVE  Inv'
  <1>1. /\ pc[t] # "idle" /\ Unlocked(t, pc[t], "finally", call[t])
        /\ stage' = stage
    BY DEF PublishRaises
  <1>2. call[t] \in Calls /\ stage \in [Nonces -> Stages]
    BY <1>1, OwnerFacts DEF Inv, TypeOK
  <1>3. CallOK("finally", call[t], stage')
    BY <1>2 DEF CallOK
  <1> QED  BY <1>1, <1>2, <1>3, UnlockedPreserves DEF PublishSteps

\* The plan is derived before anything is staged.
LEMMA DerivePreserves ==
    ASSUME Inv, NEW t \in Threads, PublishDerive(t)
    PROVE  Inv'
  <1> DEFINE c == call[t]
             changes == Changes(c.cell, c.expected, c.proposal)
             d == [c EXCEPT !.rows = Plan(c), !.changedCallStarted = changes]
  <1>1. /\ pc[t] = "derive" /\ stage' = stage
        /\ stage \in [Nonces -> Stages] /\ profile \in Profiles
        /\ AlternateInv
    BY DEF PublishDerive, Inv, TypeOK
  <1>2. c \in Calls /\ CallOK("derive", c, stage)
    BY <1>1, OwnerFacts
  <1>3. CASE PlanRaises(c)
    <2>1. Unlocked(t, "derive", "finally", c)
      BY <1>3 DEF PublishDerive
    <2>2. CallOK("finally", c, stage')
      BY <1>2 DEF CallOK
    <2> QED  BY <1>1, <2>1, <2>2, UnlockedPreserves DEF PublishSteps
  <1>4. CASE ~ PlanRaises(c)
    <2> DEFINE there == IF changes THEN "open" ELSE "result"
    <2>1. Unlocked(t, "derive", there, d)
      BY <1>4 DEF PublishDerive
    <2>2. Plan(c) \in Seq(Rows)
      <3>1. CASE changes
        BY <1>1, <1>2, <1>4, <3>1, PlanShape
      <3>2. CASE ~ changes
        BY <3>2, EmptyPlan DEF Plan
      <3> QED  BY <3>1, <3>2
    <2>3. changes \in BOOLEAN
      BY DEF Changes
    <2> HIDE DEF changes
    <2>4. /\ d \in Calls
          /\ d.cell = c.cell /\ d.expected = c.expected
          /\ d.proposal = c.proposal /\ d.nonce = c.nonce
          /\ d.rows = Plan(c) /\ d.writes = c.writes
          /\ d.changedCallStarted = changes
      BY <1>2, <2>2, <2>3 DEF Calls
    <2> HIDE DEF d
    <2>5. ~ PlanRaises(d)
      BY <1>4, <2>4 DEF PlanRaises, NormalRaises
    <2>6. Plan(d) = Plan(c)
      BY <2>4 DEF Plan, Confirmed, Unavailable, WrongDelta, Row, Fault
    <2>7. changes = Changes(d.cell, d.expected, d.proposal)
      BY <2>4 DEF changes
    <2>8. CallOK(there, d, stage')
      BY <1>2, <2>4, <2>5, <2>6, <2>7 DEF CallOK
    <2>9. ~ c.changedCallStarted
      BY <1>2 DEF CallOK
    <2> QED  BY <1>1, <2>1, <2>4, <2>8, <2>9, UnlockedPreserves
                DEF PublishSteps
  <1> QED  BY <1>3, <1>4

LEMMA OpenPreserves ==
    ASSUME Inv, NEW t \in Threads, StageOpen(t)
    PROVE  Inv'
  <1> DEFINE c == call[t]
             file == [payload |-> c.proposal, written |-> 0]
  <1>1. /\ pc[t] = "open" /\ Unlocked(t, "open", "write", c)
        /\ stage' = [stage EXCEPT ![c.nonce] = file]
        /\ stage \in [Nonces -> Stages]
    BY DEF StageOpen, Unlocked, Inv, TypeOK
  <1>2. /\ c \in Calls /\ CallOK("open", c, stage)
    BY <1>1, OwnerFacts
  <1>3. /\ c.nonce \in Nonces /\ c.proposal \in Payloads /\ c.writes = 0
        /\ c.changedCallStarted /\ Size[c.proposal] \in Nat
    BY <1>2, CoordinatorAssumption DEF CallOK, Calls
  <1>4. file \in [payload : Payloads, written : Nat]
    BY <1>3
  <1>5. /\ stage' \in [Nonces -> Stages] /\ stage'[c.nonce] = file
        /\ \A n \in Nonces : n # c.nonce => stage'[n] = stage[n]
    BY <1>1, <1>3, <1>4 DEF Stages
  <1>6. CallOK("write", c, stage')
    BY <1>2, <1>3, <1>4, <1>5, NullAssumption, CoordinatorAssumption
       DEF CallOK
  <1> QED  BY <1>1, <1>3, <1>5, <1>6, UnlockedPreserves DEF PublishSteps

\* A write of count units moves the file and the count of writes together.
LEMMA WritePreserves ==
    ASSUME Inv, NEW t \in Threads, StageWrite(t)
    PROVE  Inv'
  <1> DEFINE c == call[t]
             n == c.nonce
             d == [c EXCEPT !.writes = @ + 1]
  <1>1. /\ pc[t] = "write" /\ Unlocked(t, "write", "write", d)
        /\ stage \in [Nonces -> Stages]
    BY DEF StageWrite, Unlocked, Inv, TypeOK
  <1>2. PICK count \in 1..IoChunk :
           /\ stage[n].written + count <= Size[c.proposal]
           /\ stage' = [stage EXCEPT ![n].written = @ + count]
    BY DEF StageWrite
  <1>3. /\ c \in Calls /\ CallOK("write", c, stage)
    BY <1>1, OwnerFacts
  <1>4. /\ n \in Nonces /\ c.proposal \in Payloads /\ c.writes \in Nat
        /\ Size[c.proposal] \in Nat /\ IoChunk \in Nat
    BY <1>3, CoordinatorAssumption DEF Calls
  <1>5. /\ c.changedCallStarted /\ stage[n] # Absent
        /\ stage[n].payload = c.proposal
        /\ c.writes <= stage[n].written
        /\ stage[n].written <= c.writes * IoChunk
    BY <1>3 DEF CallOK
  <1>6. stage[n] \in [payload : Payloads, written : Nat]
    BY <1>1, <1>4, <1>5 DEF Stages
  <1>7. stage[n].written \in Nat
    BY <1>6
  <1> DEFINE file == [payload |-> c.proposal,
                      written |-> stage[n].written + count]
  <1>8. [stage[n] EXCEPT !.written = @ + count] = file
    BY <1>5, <1>6
  <1>9. file \in [payload : Payloads, written : Nat]
    BY <1>4, <1>7
  <1>10. /\ stage' \in [Nonces -> Stages] /\ stage'[n] = file
         /\ \A m \in Nonces : m # n => stage'[m] = stage[m]
    <2>1. stage' = [stage EXCEPT ![n] = file]
      BY <1>2, <1>8
    <2> QED  BY <1>1, <1>4, <1>9, <2>1 DEF Stages
  <1>11. /\ d \in Calls /\ d.cell = c.cell /\ d.expected = c.expected
         /\ d.proposal = c.proposal /\ d.nonce = c.nonce
         /\ d.rows = c.rows /\ d.writes = c.writes + 1
         /\ d.changedCallStarted = c.changedCallStarted
    BY <1>3, <1>4 DEF Calls
  <1> HIDE DEF d
  <1>12. ~ PlanRaises(d) /\ Plan(d) = Plan(c)
    <2>1. ~ PlanRaises(c)
      BY <1>3 DEF CallOK
    <2>2. ~ PlanRaises(d)
      BY <1>11, <2>1 DEF PlanRaises, NormalRaises
    <2>3. Plan(d) = Plan(c)
      BY <1>11 DEF Plan, Confirmed, Unavailable, WrongDelta, Row, Fault
    <2> QED  BY <2>2, <2>3
  <1>13. /\ d.writes <= stage'[n].written
         /\ stage'[n].written <= d.writes * IoChunk
    <2>1. /\ stage'[n].written = stage[n].written + count
          /\ count \in 1..IoChunk
      BY <1>10
    <2>2. c.writes + 1 <= stage[n].written + count
      BY <1>4, <1>5, <1>7, <2>1
    <2>3. (c.writes + 1) * IoChunk = c.writes * IoChunk + IoChunk
      BY <1>4
    <2>4. c.writes * IoChunk \in Nat
      BY <1>4
    <2>5. stage[n].written + count <= c.writes * IoChunk + IoChunk
      BY <1>4, <1>5, <1>7, <2>1, <2>4
    <2> QED  BY <1>11, <2>1, <2>2, <2>3, <2>5
  <1>14. CallOK("write", d, stage')
    <2>1. stage'[n] # Absent
      BY <1>9, <1>10, NullAssumption
    <2>2. /\ stage'[n].payload = c.proposal
          /\ stage'[n].written <= Size[c.proposal]
      BY <1>2, <1>10
    <2> QED  BY <1>3, <1>11, <1>12, <1>13, <2>1, <2>2 DEF CallOK
  <1> QED  BY <1>1, <1>5, <1>10, <1>11, <1>14, UnlockedPreserves
              DEF PublishSteps

LEMMA ReadbackPreserves ==
    ASSUME Inv, NEW t \in Threads, StageReadback(t)
    PROVE  Inv'
  <1> DEFINE c == call[t]
             file == stage[c.nonce]
  <1>1. /\ pc[t] = "write" /\ Unlocked(t, "write", "result", c)
        /\ stage' = stage /\ stage \in [Nonces -> Stages]
        /\ file.written = Size[c.proposal]
    BY DEF StageReadback, Unlocked, Inv, TypeOK
  <1>2. /\ c \in Calls /\ CallOK("write", c, stage)
    BY <1>1, OwnerFacts
  <1>3. /\ c.nonce \in Nonces /\ c.writes \in Nat
        /\ Size[c.proposal] \in Nat /\ IoChunk \in Nat
    BY <1>2, CoordinatorAssumption DEF Calls
  <1>4. file # Absent /\ file.payload = c.proposal
    BY <1>2 DEF CallOK
  <1>5. file \in [payload : Payloads, written : Nat]
    BY <1>1, <1>3, <1>4 DEF Stages
  <1>6. file = [payload |-> c.proposal, written |-> Size[c.proposal]]
    BY <1>1, <1>4, <1>5
  <1>7. ~ WritesImpossible(c)
    <2>1. /\ c.writes <= Size[c.proposal]
          /\ Size[c.proposal] <= c.writes * IoChunk
      BY <1>1, <1>2 DEF CallOK
    <2>2. c.writes * IoChunk \in Nat
      BY <1>3
    <2> QED  BY <1>3, <2>1, <2>2 DEF WritesImpossible
  <1>8. CallOK("result", c, stage')
    BY <1>1, <1>2, <1>6, <1>7 DEF CallOK
  <1> QED  BY <1>1, <1>8, UnlockedPreserves DEF PublishSteps

LEMMA ResultPreserves ==
    ASSUME Inv, NEW t \in Threads, PublishResult(t)
    PROVE  Inv'
  <1> DEFINE c == call[t]
             staged == Normal(c).outcome = "intended_applied_acknowledged"
             agree == c.changedCallStarted <=> staged
             d == [c EXCEPT !.validResultReturned = TRUE,
                            !.validResultChanged = staged,
                            !.resultRowsAgree = agree]
  <1>1. /\ pc[t] = "result" /\ stage' = stage /\ stage \in [Nonces -> Stages]
    BY DEF PublishResult, Inv, TypeOK
  <1>2. c \in Calls /\ CallOK("result", c, stage)
    BY <1>1, OwnerFacts
  <1>3. CASE staged /\ WritesImpossible(c)
    <2>1. Unlocked(t, "result", "finally", c)
      BY <1>3 DEF PublishResult
    <2>2. CallOK("finally", c, stage')
      BY <1>2 DEF CallOK
    <2> QED  BY <1>1, <2>1, <2>2, UnlockedPreserves DEF PublishSteps
  <1>4. CASE ~ (staged /\ WritesImpossible(c))
    <2> DEFINE there == IF agree THEN "commit" ELSE "finally"
    <2>1. Unlocked(t, "result", there, d)
      BY <1>4, Zenon DEF PublishResult
    <2>2. staged \in BOOLEAN /\ agree \in BOOLEAN
      BY Zenon
    <2> HIDE DEF staged, agree
    <2>3. /\ d \in Calls
          /\ d.cell = c.cell /\ d.expected = c.expected
          /\ d.proposal = c.proposal /\ d.nonce = c.nonce
          /\ d.rows = c.rows /\ d.writes = c.writes
          /\ d.changedCallStarted = c.changedCallStarted
      BY <1>2, <2>2 DEF Calls
    <2> HIDE DEF d
    <2>4. ~ PlanRaises(d)
      BY <1>2, <2>3 DEF CallOK, PlanRaises, NormalRaises
    <2>5. Plan(d) = Plan(c)
      BY <2>3 DEF Plan, Confirmed, Unavailable, WrongDelta, Row, Fault
    <2>6. WritesImpossible(d) = WritesImpossible(c)
      BY <2>3 DEF WritesImpossible
    <2>7. there \in {"commit", "finally"}
      OBVIOUS
    <2> HIDE DEF there
    <2>8. CallOK(there, d, stage')
      BY <1>1, <1>2, <2>3, <2>4, <2>5, <2>6, <2>7 DEF CallOK
    <2> QED  BY <1>1, <2>1, <2>3, <2>7, <2>8, UnlockedPreserves
                DEF PublishSteps
  <1> QED  BY <1>3, <1>4

\* A thread that leaves publish has left no trace of itself.
LEMMA LeaveFacts ==
    ASSUME Inv, NEW t \in Threads, pc[t] # "idle", Leave(t)
    PROVE  /\ profile' = profile /\ alternate' = alternate /\ stage' = stage
           /\ pc' \in [Threads -> PublishSteps]
           /\ call' \in [Threads -> Calls \cup {NoCall}]
           /\ \A u \in Threads : pc'[u] = "idle"
           /\ AlternateInv' /\ CallsInv'
  <1>1. /\ profile' = profile /\ alternate' = alternate /\ stage' = stage
        /\ pc' = [pc EXCEPT ![t] = "idle"] /\ call' = [call EXCEPT ![t] = NoCall]
        /\ TypeOK
    BY DEF Leave, Inv
  <1>2. \A u \in Threads : u # t => pc[u] = "idle"
    BY OwnerFacts
  <1>3. pc' \in [Threads -> PublishSteps]
    BY <1>1 DEF TypeOK, PublishSteps
  <1>4. call' \in [Threads -> Calls \cup {NoCall}]
    BY <1>1 DEF TypeOK
  <1>5. \A u \in Threads : pc'[u] = "idle"
    BY <1>1, <1>2 DEF TypeOK
  <1>6. AlternateInv'
    BY <1>1 DEF Inv, AlternateInv
  <1>7. CallsInv'
    BY <1>5 DEF CallsInv
  <1> QED  BY <1>1, <1>3, <1>4, <1>5, <1>6, <1>7

LEMMA CommitPreserves ==
    ASSUME Inv, NEW t \in Threads, PublishCommit(t)
    PROVE  Inv'
  <1> DEFINE c == call[t]
             b == Committed(c) # BaseState("OPEN")
  <1>1. /\ pc[t] = "commit" /\ Leave(t) /\ st' = Committed(c)
        /\ profile \in Profiles /\ AlternateInv
    BY DEF PublishCommit, Inv, TypeOK
  <1>2. /\ profile' = profile /\ alternate' = alternate /\ stage' = stage
        /\ pc' \in [Threads -> PublishSteps]
        /\ call' \in [Threads -> Calls \cup {NoCall}]
        /\ \A u \in Threads : pc'[u] = "idle"
        /\ AlternateInv' /\ CallsInv'
    BY <1>1, LeaveFacts
  <1>3. /\ c \in Calls /\ CallOK("commit", c, stage)
        /\ st.lifecycle = "PUBLISHING"
        /\ \A u \in Threads : u # t => pc[u] = "idle"
    BY <1>1, OwnerFacts
  <1>4. /\ ~ PlanRaises(c) /\ c.rows = Plan(c)
        /\ c.changedCallStarted <=> Changes(c.cell, c.expected, c.proposal)
        /\ c.changedCallStarted =>
              stage[c.nonce] = [payload |-> c.proposal,
                                written |-> Size[c.proposal]]
    BY <1>3 DEF CallOK
  <1>5. /\ st' \in States /\ StateValid(st')
        /\ \/ st' = BaseState("OPEN")
           \/ /\ Changes(c.cell, c.expected, c.proposal)
              /\ profile # "normal"
              /\ st'.lifecycle = "RECOVERY_PENDING"
              /\ st'.marker = Marker(c)
        /\ Changes(c.cell, c.expected, c.proposal) /\ profile # "normal" =>
              st'.lifecycle = "RECOVERY_PENDING"
    BY <1>1, <1>3, <1>4, CommittedValid
  <1>6. /\ BaseState("OPEN").lifecycle = "OPEN"
        /\ BaseState("OPEN").marker = NoMarker
    BY DEF BaseState, StateTuple
  <1>7. action' \in Actions
    <2>1. action' = [operation |-> "publish", outcome |-> CommittedOutcome(c),
                     ordinal |-> 0, changed |-> b]
      BY Zenon DEF PublishCommit
    <2>2. CommittedOutcome(c) \in Outcomes
      BY DEF CommittedOutcome, Outcomes
    <2>3. b \in BOOLEAN
      BY Zenon
    <2> HIDE DEF b
    <2> QED  BY <2>1, <2>2, <2>3 DEF Actions, Operations, MaxRecoveryEpochs
  <1>8. TypeOK'
    BY <1>2, <1>5, <1>7 DEF Inv, TypeOK
  <1>9. SnapshotValid'
    BY <1>2, <1>5, ValidFrame DEF SnapshotValid
  <1>10. ExclusiveWindow'
    BY <1>2, <1>5, <1>6 DEF ExclusiveWindow
  <1>11. StagesInv'
    <2> SUFFICES ASSUME st'.lifecycle \in {"OPEN", "PUBLISHING"},
                        NEW n \in Nonces, stage[n] # Absent
                 PROVE  /\ profile = "normal"
                        /\ stage[n].written = Size[stage[n].payload]
      BY <1>2 DEF StagesInv
    <2>1. CASE /\ profile = "normal"
               /\ stage[n].written = Size[stage[n].payload]
      BY <2>1
    <2>2. CASE c.changedCallStarted /\ c.nonce = n
      BY <1>4, <1>5, <2>2
    <2> QED  BY <1>3, <2>1, <2>2 DEF Inv, StagesInv
  <1>12. RecoveredMeansIntended'
    <2>1. CASE st' = BaseState("OPEN")
      BY <1>6, <2>1 DEF RecoveredMeansIntended, Recovered
    <2>2. CASE /\ Changes(c.cell, c.expected, c.proposal)
               /\ profile # "normal"
               /\ st'.lifecycle = "RECOVERY_PENDING"
               /\ st'.marker = Marker(c)
      <3>1. Marker(c).nonce = c.nonce /\ Marker(c).payload = c.proposal
        BY <1>1, <1>3, <1>4, <2>2, MarkerShape
      <3> QED  BY <1>2, <1>4, <2>2, <3>1 DEF RecoveredMeansIntended, Recovered
    <2> QED  BY <1>5, <2>1, <2>2
  <1> QED  BY <1>2, <1>8, <1>9, <1>10, <1>11, <1>12 DEF Inv

LEMMA FinallyPreserves ==
    ASSUME Inv, NEW t \in Threads, PublishFinally(t)
    PROVE  Inv'
  <1> DEFINE c == call[t]
  <1>1. /\ pc[t] = "finally" /\ Leave(t) /\ action' = NoAction
        /\ st' = Undone(c)
    BY DEF PublishFinally
  <1>2. /\ profile' = profile /\ alternate' = alternate /\ stage' = stage
        /\ pc' \in [Threads -> PublishSteps]
        /\ call' \in [Threads -> Calls \cup {NoCall}]
        /\ \A u \in Threads : pc'[u] = "idle"
        /\ AlternateInv' /\ CallsInv'
    BY <1>1, LeaveFacts
  <1>3. /\ st.lifecycle = "PUBLISHING"
        /\ \A u \in Threads : u # t => pc[u] = "idle"
    BY <1>1, OwnerFacts
  <1>4. PICK l \in {"OPEN", "POISONED_NO_MARKER"} :
           /\ st' = BaseState(l)
           /\ c.changedCallStarted => l = "POISONED_NO_MARKER"
    BY <1>1 DEF Undone
  <1>5. st'.lifecycle = l /\ st'.marker = NoMarker
    BY <1>4 DEF BaseState, StateTuple
  <1>6. st' \in States /\ StateValid(st')
    BY <1>4, BaseValid DEF MarkerFree
  <1>7. TypeOK'
    <2>1. NoAction \in Actions
      BY DEF NoAction, Actions, Operations, Outcomes, MaxRecoveryEpochs
    <2> QED  BY <1>1, <1>2, <1>6, <2>1 DEF Inv, TypeOK
  <1>8. SnapshotValid'
    BY <1>2, <1>6, ValidFrame DEF SnapshotValid
  <1>9. ExclusiveWindow'
    BY <1>2, <1>5 DEF ExclusiveWindow
  <1>10. StagesInv'
    BY <1>2, <1>3, <1>4, <1>5 DEF Inv, StagesInv
  <1>11. RecoveredMeansIntended'
    BY <1>5 DEF RecoveredMeansIntended, Recovered
  <1> QED  BY <1>2, <1>7, <1>8, <1>9, <1>10, <1>11 DEF Inv

----------------------------------------------------------------------------
(* The theorems.                                                           *)

LEMMA InitInv == Init => Inv
  <1> SUFFICES ASSUME Init PROVE Inv
    OBVIOUS
  <1>1. /\ profile \in Profiles /\ st = BaseState("OPEN")
        /\ pc = [t \in Threads |-> "idle"]
        /\ call = [t \in Threads |-> NoCall]
        /\ stage = [n \in Nonces |-> Absent] /\ action = NoAction
    BY DEF Init
  <1>2. /\ st \in States /\ StateValid(st)
        /\ st.lifecycle = "OPEN" /\ st.marker = NoMarker
    <2>1. st \in States /\ StateValid(st)
      BY <1>1, BaseValid DEF MarkerFree
    <2> QED  BY <1>1, <2>1 DEF BaseState, StateTuple
  <1>3. AlternateInv /\ alternate \in Payloads \cup {NoPayload}
    BY CasAssumption DEF Init, AlternateInv
  <1>4. NoAction \in Actions
    BY DEF NoAction, Actions, Operations, Outcomes, MaxRecoveryEpochs
  <1>5. TypeOK
    BY <1>1, <1>2, <1>3, <1>4 DEF TypeOK, PublishSteps, Stages
  <1>6. ExclusiveWindow
    BY <1>1, <1>2 DEF ExclusiveWindow
  <1>7. CallsInv
    BY <1>1 DEF CallsInv
  <1>8. StagesInv
    BY <1>1 DEF StagesInv
  <1>9. RecoveredMeansIntended
    BY <1>2 DEF RecoveredMeansIntended, Recovered
  <1> QED  BY <1>2, <1>3, <1>5, <1>6, <1>7, <1>8, <1>9
              DEF Inv, SnapshotValid

\* Every step is one of publish or one that runs wholly under the lock.
LEMMA StepSplit ==
    ASSUME Inv, Next
    PROVE  \/ LockedEffect
           \/ \E t \in Threads : PublishEnter(t) \/ Publish(t)
  <1>1. TypeOK /\ SnapshotValid
    BY DEF Inv
  <1>2. CASE \E t \in Threads : PublishExcluded(t)
    <2>1. Return("publish", "publisher_excluded_non_open", 0, st)
      BY <1>2 DEF PublishExcluded
    <2> QED  BY <2>1, ReturnEffect DEF Operations, Outcomes
  <1>3. CASE Acquire
    BY <1>1, <1>3, AcquireEffect
  <1>4. CASE \E e \in Handles : Release(e) \/ Abandon(e) \/ Replay(e)
    BY <1>1, <1>4, HandleEffect
  <1>5. CASE \E exact, digestMatches \in BOOLEAN, purpose \in Purposes :
                Consume(exact, purpose, digestMatches)
    BY <1>1, <1>5, ConsumeEffect
  <1> QED  BY <1>2, <1>3, <1>4, <1>5, Zenon DEF Next

LEMMA NextInv == Inv /\ [Next]_vars => Inv'
  <1> SUFFICES ASSUME Inv, [Next]_vars PROVE Inv'
    OBVIOUS
  <1>1. CASE Next
    <2>1. CASE LockedEffect
      BY <2>1, LockedPreserves
    <2>2. ASSUME NEW t \in Threads, PublishEnter(t) PROVE Inv'
      BY <2>2, EnterPreserves
    <2>3. ASSUME NEW t \in Threads, Publish(t) PROVE Inv'
      BY <2>3, DerivePreserves, OpenPreserves, WritePreserves,
         ReadbackPreserves, ResultPreserves, RaisesPreserves,
         CommitPreserves, FinallyPreserves DEF Publish
    <2> QED  BY <1>1, <2>1, <2>2, <2>3, StepSplit
  <1>2. CASE UNCHANGED vars
    <2>1. LockedEffect
      BY <1>2 DEF vars, LockedEffect, Inv, TypeOK
    <2> QED  BY <2>1, LockedPreserves
  <1> QED  BY <1>1, <1>2

THEOREM Invariance == Spec => []Inv
  <1> QED  BY InitInv, NextInv, PTL DEF Spec

\* The epoch and replay counters, the marker, the witness, the publish locals
\* and the stage files keep their types, whatever the threads do.
THEOREM TypeCorrect == Spec => []TypeOK
  <1>1. Inv => TypeOK
    BY DEF Inv
  <1> QED  BY <1>1, Invariance, PTL

\* Every state the operations build passes the coordinator's own validators,
\* the table of reachable terminal rows included.
THEOREM SnapshotsValid == Spec => []SnapshotValid
  <1>1. Inv => SnapshotValid
    BY DEF Inv
  <1> QED  BY <1>1, Invariance, PTL

\* An active epoch always finds a row of the plan at the replay cursor.
THEOREM ReplayInBounds == Spec => []ReplayNeverOverruns
  <1>1. Inv => ReplayNeverOverruns
    BY CursorRow DEF Inv, ReplayNeverOverruns
  <1> QED  BY <1>1, Invariance, PTL

\* PUBLISHING belongs to exactly one thread although no lock is held.
THEOREM Exclusive == Spec => []ExclusiveWindow
  <1>1. Inv => ExclusiveWindow
    BY DEF Inv
  <1> QED  BY <1>1, Invariance, PTL

\* A recovered terminal is reported only for the change that was intended,
\* and the marker's stage holds the whole payload.
THEOREM RecoveredIsIntended == Spec => []RecoveredMeansIntended
  <1>1. Inv => RecoveredMeansIntended
    BY DEF Inv
  <1> QED  BY <1>1, Invariance, PTL

\* A coordinator that is open again has left no half-written stage behind.
THEOREM OpenIsClean == Spec => []OpenMeansClean
  <1>1. Inv => OpenMeansClean
    BY DEF Inv, StagesInv, ExclusiveWindow, OpenMeansClean
  <1> QED  BY <1>1, Invariance, PTL

\* The publisher never rejects its own write count, however short the writes
\* were, and never returns a result over an incomplete stage.
THEOREM WriteCount == Spec => []WriteCountPossible
  <1>1. Inv => WriteCountPossible
    BY DEF Inv, CallsInv, CallOK, WriteCountPossible
  <1> QED  BY <1>1, Invariance, PTL

----------------------------------------------------------------------------
(* What a step may never do.                                               *)

\* A step of publish starts and ends without a marker, a count or a witness,
\* except that a commit may leave a marker.
LEMMA PublishMoves ==
    ASSUME Inv, NEW t \in Threads, PublishEnter(t) \/ Publish(t)
    PROVE  \/ st' = st /\ profile' = profile
           \/ /\ profile' = profile
              /\ st.lifecycle = "OPEN" /\ st' = BaseState("PUBLISHING")
           \/ /\ profile' = profile
              /\ st.lifecycle = "PUBLISHING"
              /\ \/ st' \in {BaseState("OPEN"),
                             BaseState("POISONED_NO_MARKER")}
                 \/ \E m, r :
                       st' = StateTuple("RECOVERY_PENDING", m, 0, 0, 0, 0,
                                        "none", "none", "none", r)
  <1>1. CASE PublishEnter(t)
    BY <1>1 DEF PublishEnter
  <1>2. CASE \/ PublishDerive(t) \/ StageOpen(t) \/ StageWrite(t)
             \/ StageReadback(t) \/ PublishResult(t) \/ PublishRaises(t)
    BY <1>2, Zenon DEF PublishDerive, StageOpen, StageWrite, StageReadback,
                PublishResult, PublishRaises, Unlocked
  <1>3. CASE PublishCommit(t)
    <2>1. /\ st.lifecycle = "PUBLISHING" /\ profile' = profile
          /\ st' = Committed(call[t])
      BY <1>3 DEF PublishCommit, Leave
    <2>2. \/ Committed(call[t]) = BaseState("OPEN")
          \/ \E m, r : Committed(call[t]) =
                StateTuple("RECOVERY_PENDING", m, 0, 0, 0, 0,
                           "none", "none", "none", r)
      BY Zenon DEF Committed
    <2> QED  BY <2>1, <2>2, Zenon
  <1>4. CASE PublishFinally(t)
    <2>1. pc[t] # "idle" /\ profile' = profile /\ st' = Undone(call[t])
      BY <1>4 DEF PublishFinally, Leave
    <2>2. st.lifecycle = "PUBLISHING"
      BY <2>1, OwnerFacts
    <2>3. Undone(call[t]) \in {BaseState("OPEN"),
                                BaseState("POISONED_NO_MARKER")}
      BY Zenon DEF Undone
    <2> QED  BY <2>1, <2>2, <2>3
  <1> QED  BY <1>1, <1>2, <1>3, <1>4 DEF Publish

\* A coordinator without a marker has not counted, ended or issued anything.
LEMMA MarkerFreeCells ==
    ASSUME TypeOK, SnapshotValid, st.lifecycle \in MarkerFree
    PROVE  /\ st.marker = NoMarker /\ st.issueCount = 0
           /\ st.replayCount = 0 /\ st.witness = "none"
  <1>1. st \in States /\ TerminalCellsValid(st) /\ LifecycleCellsValid(st)
    BY DEF TypeOK, SnapshotValid, StateValid
  <1>2. st.witness = "none"
    BY <1>1 DEF TerminalCellsValid, MarkerFree, Recovered, Blocked
  <1>3. /\ st.marker = NoMarker /\ st.issueCount = 0
        /\ st.replayCount <= st.issueCount
    BY <1>1 DEF LifecycleCellsValid
  <1> QED  BY <1>1, <1>2, <1>3, StateCells

LEMMA StepHistory ==
    ASSUME Inv, [Next]_vars
    PROVE  HistoryStep
  <1>1. /\ st \in States /\ TypeOK /\ SnapshotValid
        /\ st.issueCount \in 0..4 /\ st.replayCount \in 0..4
    BY StateCells DEF Inv, TypeOK
  <1>2. CASE st' = st
    BY <1>2 DEF HistoryStep
  <1>3. CASE Issues
    BY <1>1, <1>3 DEF Issues, HistoryStep, StateTuple, Terminal, Recovered,
                      Blocked, SnapshotValid, StateValid, TerminalCellsValid
  <1>4. CASE GoesPending
    BY <1>1, <1>4 DEF GoesPending, PendingState, HistoryStep, StateTuple,
                      Terminal, Recovered, Blocked, SnapshotValid, StateValid,
                      TerminalCellsValid
  <1>5. CASE Ends
    <2>1. PICK n, k, r : EndsAt(n, k, r)
      BY <1>5, Zenon DEF Ends
    <2>2. /\ n \in {st.replayCount, st.replayCount + 1}
          /\ st' = TerminalState(st.activeEpoch, n, k, r)
          /\ st.lifecycle = "RECOVERY_ACTIVE"
      BY <1>5, <2>1 DEF EndsAt, EndsRecovery, Ends
    <2>3. st.witness = "none"
      BY <1>1, <2>2 DEF SnapshotValid, StateValid, TerminalCellsValid,
                        Recovered, Blocked
    <2>4. /\ st'.marker = st.marker /\ st'.issueCount = st.issueCount
          /\ st'.replayCount = n
      BY <2>2 DEF TerminalState, StateTuple
    <2> QED  BY <2>2, <2>3, <2>4 DEF HistoryStep, Terminal, Recovered, Blocked
  <1>6. CASE Spends
    BY <1>1, <1>6 DEF Spends, HistoryStep, StateTuple, Terminal, Recovered,
                      Blocked
  <1>7. ASSUME NEW t \in Threads, PublishEnter(t) \/ Publish(t)
        PROVE  HistoryStep
    <2>1. CASE st.lifecycle = "OPEN" /\ st' = BaseState("PUBLISHING")
      BY <1>1, <2>1, MarkerFreeCells
         DEF HistoryStep, BaseState, StateTuple, MarkerFree, Terminal,
             Recovered, Blocked
    <2>2. CASE /\ st.lifecycle = "PUBLISHING"
               /\ st' \in {BaseState("OPEN"), BaseState("POISONED_NO_MARKER")}
      BY <1>1, <2>2, MarkerFreeCells
         DEF HistoryStep, BaseState, StateTuple, MarkerFree, Terminal,
             Recovered, Blocked
    <2>3. CASE /\ st.lifecycle = "PUBLISHING"
               /\ \E m, r : st' = StateTuple("RECOVERY_PENDING", m, 0, 0, 0, 0,
                                             "none", "none", "none", r)
      BY <1>1, <2>3, MarkerFreeCells
         DEF HistoryStep, StateTuple, MarkerFree, Terminal, Recovered, Blocked
    <2> QED  BY <1>2, <1>7, <2>1, <2>2, <2>3, PublishMoves
  <1>8. CASE Next
    BY <1>2, <1>3, <1>4, <1>5, <1>6, <1>7, <1>8, StepSplit
       DEF LockedEffect, Moves
  <1> QED  BY <1>2, <1>8 DEF vars

\* Markers, counters, verdicts, spent witnesses and poison are permanent.
THEOREM HistoryIsPermanent == Spec => HistoryNeverRewritten
  <1>1. Inv /\ [Next]_vars => [HistoryStep]_vars
    BY StepHistory
  <1> QED  BY <1>1, Invariance, PTL DEF Spec, HistoryNeverRewritten

LEMMA StepStage ==
    ASSUME Inv, [Next]_vars
    PROVE  StageStep
  <1>1. stage \in [Nonces -> Stages]
    BY DEF Inv, TypeOK
  <1>2. \A n \in Nonces : stage[n] # Absent => stage[n].written \in Nat
    BY <1>1 DEF Stages
  <1>3. CASE stage' = stage
    BY <1>2, <1>3 DEF StageStep
  <1>4. ASSUME NEW t \in Threads, StageOpen(t)
        PROVE  StageStep
    <2>1. /\ stage[call[t].nonce] = Absent
          /\ stage' = [stage EXCEPT ![call[t].nonce] =
                          [payload |-> call[t].proposal, written |-> 0]]
      BY <1>4 DEF StageOpen
    <2> QED  BY <1>1, <1>2, <2>1 DEF StageStep
  <1>5. ASSUME NEW t \in Threads, StageWrite(t)
        PROVE  StageStep
    <2> DEFINE m == call[t].nonce
    <2>1. PICK count \in 1..IoChunk :
             stage' = [stage EXCEPT ![m].written = @ + count]
      BY <1>5 DEF StageWrite
    <2>2. IoChunk \in Nat /\ count \in Nat
      BY CoordinatorAssumption
    <2>3. pc[t] = "write"
      BY <1>5 DEF StageWrite, Unlocked
    <2>4. m \in Nonces /\ stage[m] # Absent
      BY <2>3, OwnerFacts DEF CallOK, Calls
    <2>5. stage[m] \in [payload : Payloads, written : Nat]
      BY <1>1, <2>4 DEF Stages
    <2>6. /\ stage'[m] = [stage[m] EXCEPT !.written = @ + count]
          /\ \A n \in Nonces : n # m => stage'[n] = stage[n]
      BY <1>1, <2>1, <2>4
    <2>7. stage'[m] \in [payload : Payloads, written : Nat]
      BY <2>2, <2>5, <2>6
    <2>8. /\ stage'[m].payload = stage[m].payload
          /\ stage'[m].written >= stage[m].written
      BY <2>2, <2>5, <2>6
    <2>9. stage'[m] # Absent
      BY <2>7, NullAssumption
    <2> HIDE DEF m
    <2>10. ASSUME NEW n \in Nonces, stage[n] # Absent, n # m
           PROVE  /\ stage'[n] = stage[n]
                  /\ stage'[n].written >= stage[n].written
      BY <1>2, <2>6, <2>10
    <2> QED  BY <2>8, <2>9, <2>10 DEF StageStep
  <1>6. ASSUME NEW t \in Threads, PublishEnter(t) \/ Publish(t)
        PROVE  StageStep
    BY <1>3, <1>4, <1>5, <1>6
       DEF Publish, PublishEnter, PublishDerive, StageReadback, PublishResult,
           PublishRaises, PublishCommit, PublishFinally, Leave
  <1>7. CASE Next
    BY <1>3, <1>6, <1>7, StepSplit DEF LockedEffect
  <1> QED  BY <1>3, <1>7 DEF vars

\* No publish ever truncates, replaces or shortens a stage file.
THEOREM StagesAppendOnly == Spec => StageIsAppendOnly
  <1>1. Inv /\ [Next]_vars => [StageStep]_vars
    BY StepStage
  <1> QED  BY <1>1, Invariance, PTL DEF Spec, StageIsAppendOnly

----------------------------------------------------------------------------
(* The coordinator implements the recovery contract.                       *)

\* A recovery that is not over has no witness.
LEMMA OpenDebt ==
    ASSUME TypeOK, SnapshotValid, st.lifecycle \in InRecovery
    PROVE  /\ st.witness = "none" /\ Phase = "owed"
           /\ st.lifecycle = "RECOVERY_PENDING" => st.issueCount \in 0..3
           /\ st.lifecycle = "RECOVERY_ACTIVE" =>
                 st.issueCount \in 1..4 /\ st.activeEpoch = st.issueCount
  <1>1. /\ st \in States /\ TerminalCellsValid(st) /\ LifecycleCellsValid(st)
        /\ st.issueCount \in 0..4 /\ st.replayCount \in 0..4
    BY StateCells DEF TypeOK, SnapshotValid, StateValid
  <1>2. st.witness = "none"
    BY <1>1 DEF TerminalCellsValid, InRecovery, Recovered, Blocked
  <1>3. Phase = "owed"
    BY DEF Phase, InRecovery, Recovered, Blocked
  <1> QED  BY <1>1, <1>2, <1>3 DEF LifecycleCellsValid

LEMMA MovesImplement ==
    ASSUME TypeOK, SnapshotValid, Moves, profile' = profile
    PROVE  [Contract!Next]_(Contract!contractVars)
  <1>1. CASE Issues
    <2>1. /\ st.lifecycle = "RECOVERY_PENDING"
          /\ st'.lifecycle = "RECOVERY_ACTIVE" /\ st'.witness = "none"
          /\ st'.issueCount = st.issueCount + 1
      BY <1>1 DEF Issues, StateTuple
    <2>2. /\ st.witness = "none" /\ Phase = "owed" /\ st.issueCount \in 0..3
      BY <2>1, OpenDebt DEF InRecovery
    <2>3. Phase' = "owed"
      BY <2>1 DEF Phase, InRecovery, Recovered, Blocked
    <2>4. Contract!Attempt
      BY <2>1, <2>2, <2>3 DEF Contract!Attempt, MaxRecoveryEpochs
    <2> QED  BY <2>4 DEF Contract!Next
  <1>2. CASE GoesPending
    <2>1. /\ st.lifecycle = "RECOVERY_ACTIVE"
          /\ st'.lifecycle = "RECOVERY_PENDING" /\ st'.witness = "none"
          /\ st'.issueCount = st.issueCount
      BY <1>2 DEF GoesPending, PendingState, StateTuple
    <2>2. st.witness = "none" /\ Phase = "owed"
      BY <2>1, OpenDebt DEF InRecovery
    <2>3. Phase' = "owed"
      BY <2>1 DEF Phase, InRecovery, Recovered, Blocked
    <2> QED  BY <2>1, <2>2, <2>3 DEF Contract!contractVars
  <1>3. CASE Ends
    <2>1. PICK n, k, r : EndsAt(n, k, r)
      BY <1>3, Zenon DEF Ends
    <2>2. /\ EndsRecovery(n, k, r) /\ st.lifecycle = "RECOVERY_ACTIVE"
          /\ st' = TerminalState(st.activeEpoch, n, k, r)
      BY <1>3, <2>1 DEF EndsAt, Ends
    <2>3. /\ st'.lifecycle = IF k = "recovered_terminal"
                             THEN "RECOVERED_WITNESS_LIVE"
                             ELSE "BLOCKED_WITNESS_LIVE"
          /\ st'.witness = "live" /\ st'.issueCount = st.issueCount
      BY <2>2 DEF TerminalState, StateTuple
    <2>4. /\ Phase = "owed" /\ st.issueCount \in 1..4
          /\ st.activeEpoch = st.issueCount
      BY <2>2, OpenDebt DEF InRecovery
    <2>5. Phase' = IF k = "recovered_terminal" THEN "recovered" ELSE "blocked"
      BY <2>3 DEF Phase, InRecovery, Recovered, Blocked
    <2>6. CASE k = "recovered_terminal"
      <3>1. /\ n = st.replayCount + 1
            /\ st.rows[n].observation = "confirmed_intended"
        BY <2>2, <2>6 DEF EndsRecovery
      <3>2. profile # "wrong_delta_confirmed"
        BY <2>2, <3>1, CursorRow
      <3>3. Contract!Recover
        BY <2>3, <2>4, <2>5, <2>6, <3>2 DEF Contract!Recover
      <3> QED  BY <3>3 DEF Contract!Next
    <2>7. CASE k # "recovered_terminal"
      <3>1. \/ st.activeEpoch = 4
            \/ /\ n = st.replayCount + 1
               /\ st.rows[n].observation = "confirmed_wrong_delta"
        BY <2>2, <2>7 DEF EndsRecovery
      <3>2. st.activeEpoch = 4 \/ profile = "wrong_delta_confirmed"
        BY <2>2, <3>1, CursorRow DEF TypeOK, Profiles
      <3>3. Contract!Block
        BY <2>3, <2>4, <2>5, <2>7, <3>2 DEF Contract!Block, MaxRecoveryEpochs
      <3> QED  BY <3>3 DEF Contract!Next
    <2> QED  BY <2>6, <2>7
  <1>4. CASE Spends
    <2>1. /\ st.lifecycle \in {"RECOVERED_WITNESS_LIVE", "BLOCKED_WITNESS_LIVE"}
          /\ st'.lifecycle = IF st.lifecycle \in Recovered
                             THEN "RECOVERED_WITNESS_SPENT"
                             ELSE "BLOCKED_WITNESS_SPENT"
          /\ st'.issueCount = st.issueCount /\ st'.witness = "spent"
      BY <1>4 DEF Spends, StateTuple
    <2>2. st.witness = "live"
      BY <2>1 DEF SnapshotValid, StateValid, TerminalCellsValid, Recovered,
                  Blocked
    <2>3. Phase' = Phase
      BY <2>1 DEF Phase, InRecovery, Recovered, Blocked
    <2>4. Contract!Spend
      BY <2>1, <2>2, <2>3 DEF Contract!Spend
    <2> QED  BY <2>4 DEF Contract!Next
  <1> QED  BY <1>1, <1>2, <1>3, <1>4 DEF Moves

LEMMA StepImplements ==
    ASSUME Inv, [Next]_vars
    PROVE  [Contract!Next]_(Contract!contractVars)
  <1>1. TypeOK /\ SnapshotValid
    BY DEF Inv
  <1>2. CASE st' = st /\ profile' = profile
    BY <1>2 DEF Contract!contractVars, Phase
  <1>3. CASE Moves /\ profile' = profile
    BY <1>1, <1>3, MovesImplement
  <1>4. CASE /\ profile' = profile
             /\ st.lifecycle = "OPEN" /\ st' = BaseState("PUBLISHING")
    <2>1. /\ st'.lifecycle = "PUBLISHING" /\ st'.issueCount = 0
          /\ st'.witness = "none"
      BY <1>4 DEF BaseState, StateTuple
    <2>2. st.issueCount = 0 /\ st.witness = "none"
      BY <1>1, <1>4, MarkerFreeCells DEF MarkerFree
    <2>3. Phase = "ready" /\ Phase' = "busy"
      BY <1>4, <2>1 DEF Phase, InRecovery, Recovered, Blocked
    <2>4. Contract!Begin
      BY <1>4, <2>1, <2>2, <2>3 DEF Contract!Begin
    <2> QED  BY <2>4 DEF Contract!Next
  <1>5. CASE /\ profile' = profile
             /\ st.lifecycle = "PUBLISHING"
             /\ \/ st' \in {BaseState("OPEN"), BaseState("POISONED_NO_MARKER")}
                \/ \E m, r :
                      st' = StateTuple("RECOVERY_PENDING", m, 0, 0, 0, 0,
                                       "none", "none", "none", r)
    <2>1. /\ st'.lifecycle \in {"OPEN", "POISONED_NO_MARKER",
                                "RECOVERY_PENDING"}
          /\ st'.issueCount = 0 /\ st'.witness = "none"
      BY <1>5 DEF BaseState, StateTuple
    <2>2. st.issueCount = 0 /\ st.witness = "none"
      BY <1>1, <1>5, MarkerFreeCells DEF MarkerFree
    <2>3. Phase = "busy" /\ Phase' \in {"ready", "owed", "poisoned"}
      BY <1>5, <2>1 DEF Phase, InRecovery, Recovered, Blocked
    <2>4. Contract!End
      BY <1>5, <2>1, <2>2, <2>3 DEF Contract!End
    <2> QED  BY <2>4 DEF Contract!Next
  <1>6. CASE Next
    <2>1. CASE LockedEffect
      BY <1>2, <1>3, <2>1 DEF LockedEffect
    <2>2. ASSUME NEW t \in Threads, PublishEnter(t) \/ Publish(t)
          PROVE  [Contract!Next]_(Contract!contractVars)
      BY <1>2, <1>4, <1>5, <2>2, PublishMoves
    <2> QED  BY <1>6, <2>1, <2>2, StepSplit
  <1> QED  BY <1>2, <1>6 DEF vars

\* Every behaviour of the coordinator is one the recovery contract allows: a
\* publish in doubt is settled exactly once, within four epochs, and is
\* receipted exactly once.
THEOREM Refinement == Spec => ImplementsContract
  <1>1. Init => Contract!Init
    <2> SUFFICES ASSUME Init PROVE Contract!Init
      OBVIOUS
    <2>1. /\ st.lifecycle = "OPEN" /\ st.issueCount = 0
          /\ st.witness = "none"
      BY DEF Init, BaseState, StateTuple
    <2>2. Phase = "ready"
      BY <2>1 DEF Phase, InRecovery, Recovered, Blocked
    <2>3. (profile = "wrong_delta_confirmed") \in BOOLEAN
      BY Zenon
    <2> QED  BY <2>1, <2>2, <2>3, Zenon DEF Contract!Init
  <1>2. Inv /\ [Next]_vars => [Contract!Next]_(Contract!contractVars)
    BY StepImplements
  <1> QED  BY <1>1, <1>2, Invariance, PTL
              DEF Spec, ImplementsContract, Contract!Spec

\* Recovered and open states agree with the cell and the staging directory.
THEOREM DiskAgreement == Spec => []DiskAgrees
  <1>1. RecoveredMeansIntended /\ OpenMeansClean => DiskAgrees
    BY DEF DiskAgrees
  <1> QED  BY <1>1, RecoveredIsIntended, OpenIsClean, PTL

\* No interleaving makes the coordinator raise one of its consistency errors.
THEOREM SelfConsistent == Spec => []NeverRefusesItself
  <1>1. ReplayNeverOverruns /\ ExclusiveWindow /\ WriteCountPossible
           => NeverRefusesItself
    BY DEF NeverRefusesItself
  <1> QED  BY <1>1, ReplayInBounds, Exclusive, WriteCount, PTL

\* Markers, counters, verdicts, witnesses, poison and stage files are permanent.
THEOREM Permanence == Spec => NothingRewritten
  BY HistoryIsPermanent, StagesAppendOnly DEF NothingRewritten

----------------------------------------------------------------------------
(* Every action an operation returns passes its validator.                 *)

LEMMA ReturnCells ==
    ASSUME NEW op, NEW o, NEW e, NEW next, Return(op, o, e, next)
    PROVE  /\ action'.operation = op /\ action'.outcome = o
           /\ action'.ordinal = e /\ action'.changed = (next # st)
           /\ st' = next /\ profile' = profile
  <1>1. /\ action' = [operation |-> op, outcome |-> o,
                      ordinal |-> e, changed |-> next # st]
        /\ st' = next /\ profile' = profile
    BY Zenon DEF Return
  <1> DEFINE b == next # st
  <1>2. action' = [operation |-> op, outcome |-> o, ordinal |-> e, changed |-> b]
    BY <1>1
  <1> HIDE DEF b
  <1>3. /\ action'.operation = op /\ action'.outcome = o
        /\ action'.ordinal = e /\ action'.changed = b
    BY <1>2
  <1> QED  BY <1>1, <1>3 DEF b

\* An action that reports no change: no epoch is named, and the row agrees
\* with the state as it is.
LEMMA NoopCoherent ==
    ASSUME NEW op, NEW o, Return(op, o, 0, st),
           \/ o = "publisher_excluded_non_open" /\ st.lifecycle # "OPEN"
           \/ o = "publisher_active_excluded" /\ st.lifecycle = "PUBLISHING"
           \/ o = "no_marker_noop" /\ st.lifecycle = "OPEN"
           \/ o = "recovery_active_excluded" /\ st.lifecycle = "RECOVERY_ACTIVE"
           \/ /\ o = "recovered_terminal_noop" /\ st.lifecycle \in Recovered
              /\ op # "replay_epoch"
           \/ /\ o = "blocked_terminal_noop" /\ st.lifecycle \in Blocked
              /\ op # "replay_epoch"
           \/ o = "poisoned_no_marker_noop" /\ st.lifecycle = "POISONED_NO_MARKER"
    PROVE  ActionCoherent'
  <1>1. /\ action'.operation = op /\ action'.outcome = o
        /\ action'.ordinal = 0 /\ st' = st /\ action'.changed = FALSE
    BY ReturnCells
  <1>2. OutcomeRow'
    BY <1>1 DEF OutcomeRow
  <1>3. ~ NeedsOrdinal' /\ o \notin ChangingOutcomes
    BY <1>1 DEF NeedsOrdinal, ChangingOutcomes
  <1> QED  BY <1>1, <1>2, <1>3 DEF ActionCoherent

LEMMA NoActionCoherent == ASSUME action' = NoAction PROVE ActionCoherent'
  <1>1. /\ action'.operation = "none" /\ action'.outcome = "none"
        /\ action'.ordinal = 0 /\ action'.changed = FALSE
    BY DEF NoAction
  <1>2. OutcomeRow'
    BY <1>1 DEF OutcomeRow
  <1>3. ~ NeedsOrdinal' /\ "none" \notin ChangingOutcomes
    BY <1>1 DEF NeedsOrdinal, ChangingOutcomes
  <1> QED  BY <1>1, <1>2, <1>3 DEF ActionCoherent

\* An action that changes the state names an epoch, and its row is about the
\* state it leaves.
LEMMA ChangeCoherent ==
    ASSUME NEW op, NEW o, NEW e \in 1..4, NEW next, Return(op, o, e, next),
           next # st,
           o \in ChangingOutcomes \ {"synthetic_marker_committed_result_withheld"},
           OutcomeRow'
    PROVE  ActionCoherent'
  <1>1. /\ action'.outcome = o /\ action'.ordinal = e
        /\ action'.changed = (next # st)
    BY ReturnCells
  <1>2. NeedsOrdinal'
    BY <1>1 DEF NeedsOrdinal
  <1>3. action'.ordinal # 0
    BY <1>1
  <1>4. action'.changed = TRUE
    BY <1>1, Zenon
  <1> QED  BY <1>1, <1>2, <1>3, <1>4 DEF ActionCoherent

LEMMA AcquireCoherent ==
    ASSUME TypeOK, SnapshotValid, Acquire PROVE ActionCoherent'
  <1>1. st \in States /\ StateValid(st)
    BY DEF TypeOK, SnapshotValid
  <1>2. CASE st.lifecycle = "RECOVERY_PENDING"
    <2> DEFINE s == StateTuple("RECOVERY_ACTIVE", st.marker, st.issueCount + 1,
                               st.replayCount, st.issueCount + 1, 0,
                               "none", "none", "none", st.rows)
    <2>1. st.issueCount + 1 \in 1..4
      BY <1>1, <1>2, StateCells DEF StateValid, LifecycleCellsValid
    <2>2. Return("acquire_epoch", "epoch_issued", st.issueCount + 1, s)
      BY <1>2, Zenon DEF Acquire
    <2>3. s.lifecycle = "RECOVERY_ACTIVE"
      BY DEF StateTuple
    <2>4. s # st
      BY <1>2, <2>3
    <2> HIDE DEF s
    <2>5. st' = s /\ action'.outcome = "epoch_issued"
      BY <2>2, ReturnCells
    <2>6. OutcomeRow'
      BY <2>3, <2>5 DEF OutcomeRow
    <2> QED  BY <2>1, <2>2, <2>4, <2>6, ChangeCoherent DEF ChangingOutcomes
  <1>3. CASE st.lifecycle # "RECOVERY_PENDING"
    <2> DEFINE o == CASE st.lifecycle = "OPEN" -> "no_marker_noop"
                      [] st.lifecycle = "PUBLISHING" ->
                             "publisher_active_excluded"
                      [] st.lifecycle = "RECOVERY_ACTIVE" ->
                             "recovery_active_excluded"
                      [] st.lifecycle \in Recovered ->
                             "recovered_terminal_noop"
                      [] st.lifecycle \in Blocked -> "blocked_terminal_noop"
                      [] OTHER -> "poisoned_no_marker_noop"
    <2>1. Return("acquire_epoch", o, 0, st)
      BY <1>3, Zenon DEF Acquire
    <2>2. st.lifecycle \in Lifecycles
      BY <1>1, StateCells
    <2>3. \/ o = "publisher_active_excluded" /\ st.lifecycle = "PUBLISHING"
          \/ o = "no_marker_noop" /\ st.lifecycle = "OPEN"
          \/ o = "recovery_active_excluded" /\ st.lifecycle = "RECOVERY_ACTIVE"
          \/ o = "recovered_terminal_noop" /\ st.lifecycle \in Recovered
          \/ o = "blocked_terminal_noop" /\ st.lifecycle \in Blocked
          \/ o = "poisoned_no_marker_noop" /\ st.lifecycle = "POISONED_NO_MARKER"
      BY <1>3, <2>2 DEF Lifecycles, MarkerFree, InRecovery, Recovered, Blocked
    <2> HIDE DEF o
    <2> QED  BY <2>1, <2>3, NoopCoherent
  <1> QED  BY <1>2, <1>3

LEMMA ExcludedCoherent ==
    ASSUME NEW op, Excluded(op) PROVE ActionCoherent'
  <1>1. /\ st.lifecycle = "PUBLISHING"
        /\ Return(op, "publisher_active_excluded", 0, st)
    BY DEF Excluded
  <1> QED  BY <1>1, NoopCoherent

\* The epoch that is given back is the current one.
LEMMA ActiveEpochFacts ==
    ASSUME TypeOK, SnapshotValid, NEW e, ActiveEpoch(e)
    PROVE  /\ st.lifecycle = "RECOVERY_ACTIVE"
           /\ e = st.activeEpoch /\ e = st.issueCount /\ e \in 1..4
           /\ st.replayCount \in Nat /\ st.replayCount < e
  <1>1. /\ st \in States /\ LifecycleCellsValid(st)
        /\ st.lifecycle = "RECOVERY_ACTIVE" /\ e = st.activeEpoch
    BY DEF TypeOK, SnapshotValid, StateValid, ActiveEpoch
  <1>2. st.issueCount \in 0..4 /\ st.replayCount \in 0..4
    BY <1>1, StateCells
  <1>3. e = st.issueCount /\ st.replayCount <= st.issueCount - 1
    BY <1>1 DEF LifecycleCellsValid
  <1> QED  BY <1>1, <1>2, <1>3

\* The cells of the state after an epoch has gone or ended the recovery.
LEMMA EndedCells ==
    ASSUME NEW e, NEW n, NEW k, NEW r
    PROVE  /\ PendingState(n).lifecycle = "RECOVERY_PENDING"
           /\ PendingState(n).issueCount = st.issueCount
           /\ PendingState(n).replayCount = n
           /\ TerminalState(e, n, k, r).lifecycle =
                IF k = "recovered_terminal" THEN "RECOVERED_WITNESS_LIVE"
                ELSE "BLOCKED_WITNESS_LIVE"
           /\ TerminalState(e, n, k, r).issueCount = st.issueCount
           /\ TerminalState(e, n, k, r).terminalEpoch = e
           /\ TerminalState(e, n, k, r).reason = r
  BY DEF PendingState, TerminalState, StateTuple

LEMMA GiveBackCoherent ==
    ASSUME TypeOK, SnapshotValid, NEW e, NEW op, NEW a, NEW b, NEW r,
           GiveBack(op, e, a, b, r),
           \/ /\ op = "release_epoch" /\ a = "epoch_released_retry_pending"
              /\ b = "epoch_release_budget_permanent_block"
              /\ r = "recovery_epoch_budget_exhausted_after_release"
           \/ /\ op = "abandon_epoch" /\ a = "epoch_abandoned_retry_pending"
              /\ b = "epoch_abandon_budget_permanent_block"
              /\ r = "recovery_epoch_budget_exhausted_after_abandon"
    PROVE  ActionCoherent'
  <1>1. /\ st.lifecycle = "RECOVERY_ACTIVE" /\ e = st.issueCount /\ e \in 1..4
    BY ActiveEpochFacts DEF GiveBack
  <1>2. CASE e < 4
    <2> DEFINE s == PendingState(st.replayCount)
    <2>1. Return(op, a, e, s)
      BY <1>2 DEF GiveBack, MaxRecoveryEpochs
    <2>2. s.lifecycle = "RECOVERY_PENDING" /\ s.issueCount = st.issueCount
      BY EndedCells
    <2> HIDE DEF s
    <2>3. /\ st' = s /\ action'.outcome = a /\ action'.ordinal = e
          /\ action'.operation = op
      BY <2>1, ReturnCells
    <2>4. OutcomeRow'
      BY <1>1, <1>2, <2>2, <2>3
         DEF OutcomeRow, NamesCurrentEpoch, MaxRecoveryEpochs
    <2>5. s # st
      BY <1>1, <2>2
    <2> QED  BY <1>1, <2>1, <2>4, <2>5, ChangeCoherent DEF ChangingOutcomes
  <1>3. CASE ~ (e < 4)
    <2> DEFINE s == TerminalState(e, st.replayCount, "permanent_block", r)
    <2>1. Return(op, b, e, s)
      BY <1>3 DEF GiveBack, MaxRecoveryEpochs
    <2>2. /\ s.lifecycle = "BLOCKED_WITNESS_LIVE" /\ s.issueCount = st.issueCount
          /\ s.terminalEpoch = e /\ s.reason = r
      BY EndedCells
    <2> HIDE DEF s
    <2>3. /\ st' = s /\ action'.outcome = b /\ action'.ordinal = e
          /\ action'.operation = op
      BY <2>1, ReturnCells
    <2>4. OutcomeRow'
      BY <1>1, <1>3, <2>2, <2>3
         DEF OutcomeRow, NamesTerminalEpoch, NamesCurrentEpoch, MaxRecoveryEpochs
    <2>5. s # st
      BY <1>1, <2>2
    <2> QED  BY <1>1, <2>1, <2>4, <2>5, ChangeCoherent DEF ChangingOutcomes
  <1> QED  BY <1>2, <1>3

\* An action that changes nothing and still names the epoch that ended the
\* recovery.
LEMMA TerminalNoopCoherent ==
    ASSUME TypeOK, SnapshotValid, NEW op, NEW o,
           Return(op, o, st.terminalEpoch, st),
           \/ /\ op = "replay_epoch" /\ o = "recovered_terminal_noop"
              /\ st.lifecycle \in Recovered
           \/ /\ op = "replay_epoch" /\ o = "blocked_terminal_noop"
              /\ st.lifecycle \in Blocked
           \/ /\ o = "witness_already_spent_noop"
              /\ st.lifecycle \in {"RECOVERED_WITNESS_SPENT",
                                   "BLOCKED_WITNESS_SPENT"}
    PROVE  ActionCoherent'
  <1>1. st \in States /\ TerminalCellsValid(st)
    BY DEF TypeOK, SnapshotValid, StateValid
  <1>2. st.lifecycle \in Recovered \cup Blocked
    BY DEF Recovered, Blocked
  <1>3. st.terminalEpoch = st.issueCount /\ st.terminalEpoch >= 1
    BY <1>1, <1>2 DEF TerminalCellsValid
  <1>4. st.terminalEpoch # 0
    BY <1>1, <1>3, StateCells
  <1>5. /\ action'.operation = op /\ action'.outcome = o
        /\ action'.ordinal = st.terminalEpoch /\ st' = st
        /\ action'.changed = (st # st)
    BY ReturnCells
  <1>6. action'.changed = FALSE
    BY <1>5, Zenon
  <1>7. NamesTerminalEpoch'
    BY <1>3, <1>5 DEF NamesTerminalEpoch, NamesCurrentEpoch
  <1>8. OutcomeRow'
    BY <1>5, <1>7 DEF OutcomeRow
  <1>9. NeedsOrdinal' /\ o \notin ChangingOutcomes
    BY <1>5 DEF NeedsOrdinal, ChangingOutcomes
  <1> QED  BY <1>4, <1>5, <1>8, <1>9, <1>6 DEF ActionCoherent

\* A replay that retries leaves the cursor where its profile can have it.
LEMMA ReplayRetryCoherent ==
    ASSUME TypeOK, SnapshotValid, NEW e, ActiveEpoch(e), e < 4,
           st.rows[st.replayCount + 1].observation = "unavailable",
           Return("replay_epoch", "replay_unavailable_retry_pending", e,
                  PendingState(st.replayCount + 1))
    PROVE  ActionCoherent'
  <1>1. /\ st.lifecycle = "RECOVERY_ACTIVE" /\ e = st.issueCount /\ e \in 1..4
        /\ st.replayCount \in Nat /\ st.replayCount < e
    BY ActiveEpochFacts
  <1> DEFINE s == PendingState(st.replayCount + 1)
  <1>2. /\ s.lifecycle = "RECOVERY_PENDING" /\ s.issueCount = st.issueCount
        /\ s.replayCount = st.replayCount + 1
    BY EndedCells
  <1> HIDE DEF s
  <1>3. Return("replay_epoch", "replay_unavailable_retry_pending", e, s)
    BY Zenon DEF s
  <1>4. /\ st' = s /\ action'.outcome = "replay_unavailable_retry_pending"
        /\ action'.ordinal = e /\ action'.operation = "replay_epoch"
        /\ profile' = profile
    BY <1>3, ReturnCells
  <1>5. \/ profile = "ack_loss_unavailable_then_confirmed" /\ st.replayCount = 0
        \/ profile = "ack_loss_unavailable_until_budget_block"
    BY <1>1, CursorRow DEF TypeOK, Profiles
  <1>6. OutcomeRow'
    BY <1>1, <1>2, <1>4, <1>5
       DEF OutcomeRow, NamesCurrentEpoch, MaxRecoveryEpochs
  <1>7. s # st
    BY <1>1, <1>2
  <1> QED  BY <1>1, <1>3, <1>6, <1>7, ChangeCoherent DEF ChangingOutcomes

\* A replay that ends the recovery.
LEMMA ReplayEndCoherent ==
    ASSUME TypeOK, SnapshotValid, NEW e, ActiveEpoch(e), NEW o, NEW k, NEW r,
           \/ /\ o = "replay_unavailable_budget_permanent_block" /\ ~ (e < 4)
              /\ k = "permanent_block"
              /\ r = "recovery_epoch_budget_exhausted_after_unavailable"
           \/ /\ o = "replay_confirmed_recovered" /\ k = "recovered_terminal"
           \/ /\ o = "replay_wrong_delta_permanent_block"
              /\ k = "permanent_block" /\ r = "synthetic_wrong_delta_confirmed",
           Return("replay_epoch", o, e, TerminalState(e, st.replayCount + 1, k, r))
    PROVE  ActionCoherent'
  <1>1. /\ st.lifecycle = "RECOVERY_ACTIVE" /\ e = st.issueCount /\ e \in 1..4
    BY ActiveEpochFacts
  <1> DEFINE s == TerminalState(e, st.replayCount + 1, k, r)
  <1>2. /\ s.lifecycle = IF k = "recovered_terminal"
                         THEN "RECOVERED_WITNESS_LIVE"
                         ELSE "BLOCKED_WITNESS_LIVE"
        /\ s.issueCount = st.issueCount /\ s.terminalEpoch = e /\ s.reason = r
    BY EndedCells
  <1> HIDE DEF s
  <1>3. Return("replay_epoch", o, e, s)
    BY Zenon DEF s
  <1>4. /\ st' = s /\ action'.outcome = o
        /\ action'.ordinal = e /\ action'.operation = "replay_epoch"
    BY <1>3, ReturnCells
  <1>5. NamesTerminalEpoch'
    BY <1>1, <1>2, <1>4 DEF NamesTerminalEpoch, NamesCurrentEpoch
  <1>6. OutcomeRow'
    BY <1>1, <1>2, <1>4, <1>5 DEF OutcomeRow, MaxRecoveryEpochs
  <1>7. s # st
    BY <1>1, <1>2
  <1> QED  BY <1>1, <1>3, <1>6, <1>7, ChangeCoherent DEF ChangingOutcomes

LEMMA HandleCoherent ==
    ASSUME TypeOK, SnapshotValid, NEW e, Release(e) \/ Abandon(e) \/ Replay(e)
    PROVE  ActionCoherent'
  <1>1. CASE \E op : Excluded(op)
    BY <1>1, ExcludedCoherent
  <1>2. CASE Fail
    BY <1>2, NoActionCoherent DEF Fail
  <1>3. CASE Release(e)
    BY <1>1, <1>2, <1>3, GiveBackCoherent DEF Release
  <1>4. CASE Abandon(e)
    BY <1>1, <1>2, <1>4, GiveBackCoherent DEF Abandon
  <1>5. CASE ReplayTerminal(e)
    <2>1. /\ st.lifecycle \in Recovered \cup Blocked
          /\ Return("replay_epoch",
                    IF st.lifecycle \in Recovered THEN "recovered_terminal_noop"
                    ELSE "blocked_terminal_noop", st.terminalEpoch, st)
      BY <1>5 DEF ReplayTerminal
    <2>2. CASE st.lifecycle \in Recovered
      <3>1. Return("replay_epoch", "recovered_terminal_noop",
                   st.terminalEpoch, st)
        BY <2>1, <2>2
      <3> QED  BY <2>2, <3>1, TerminalNoopCoherent
    <2>3. CASE st.lifecycle \notin Recovered
      <3>1. /\ st.lifecycle \in Blocked
            /\ Return("replay_epoch", "blocked_terminal_noop",
                      st.terminalEpoch, st)
        BY <2>1, <2>3
      <3> QED  BY <3>1, TerminalNoopCoherent
    <2> QED  BY <2>2, <2>3
  <1>6. CASE ReplayRow(e)
    BY <1>6, ReplayRetryCoherent, ReplayEndCoherent
       DEF ReplayRow, MaxRecoveryEpochs
  <1> QED  BY <1>1, <1>2, <1>3, <1>4, <1>5, <1>6 DEF Replay

LEMMA ConsumeCoherent ==
    ASSUME TypeOK, SnapshotValid, NEW exact, NEW purpose, NEW digestMatches,
           Consume(exact, purpose, digestMatches)
    PROVE  ActionCoherent'
  <1>1. CASE Excluded("consume_witness")
    BY <1>1, ExcludedCoherent
  <1>2. CASE Fail
    BY <1>2, NoActionCoherent DEF Fail
  <1> DEFINE s == StateTuple(IF st.lifecycle \in Recovered
                             THEN "RECOVERED_WITNESS_SPENT"
                             ELSE "BLOCKED_WITNESS_SPENT",
                             st.marker, st.issueCount, st.replayCount,
                             0, st.terminalEpoch, st.kind, st.reason,
                             "spent", <<>>)
  <1>3. /\ s.lifecycle \in {"RECOVERED_WITNESS_SPENT", "BLOCKED_WITNESS_SPENT"}
        /\ s.issueCount = st.issueCount /\ s.terminalEpoch = st.terminalEpoch
    BY DEF StateTuple
  <1>4. CASE /\ st.lifecycle \in {"RECOVERED_WITNESS_LIVE",
                                  "BLOCKED_WITNESS_LIVE"}
             /\ Return("consume_witness", "witness_consumed",
                       st.terminalEpoch, s)
    <2> HIDE DEF s
    <2>1. st \in States /\ TerminalCellsValid(st)
      BY DEF TypeOK, SnapshotValid, StateValid
    <2>2. st.terminalEpoch = st.issueCount /\ st.terminalEpoch >= 1
      BY <1>4, <2>1 DEF TerminalCellsValid, Recovered, Blocked
    <2>3. st.terminalEpoch \in 1..4
      BY <2>1, <2>2, StateCells
    <2>4. /\ st' = s /\ action'.outcome = "witness_consumed"
          /\ action'.ordinal = st.terminalEpoch
      BY <1>4, ReturnCells
    <2>5. NamesTerminalEpoch'
      BY <1>3, <2>2, <2>4 DEF NamesTerminalEpoch, NamesCurrentEpoch
    <2>6. OutcomeRow'
      BY <1>3, <2>4, <2>5 DEF OutcomeRow
    <2>7. s # st
      BY <1>3, <1>4
    <2> QED  BY <1>4, <2>3, <2>6, <2>7, ChangeCoherent DEF ChangingOutcomes
  <1>5. CASE /\ st.lifecycle \in Recovered \cup Blocked
             /\ st.lifecycle \notin {"RECOVERED_WITNESS_LIVE",
                                     "BLOCKED_WITNESS_LIVE"}
             /\ Return("consume_witness", "witness_already_spent_noop",
                       st.terminalEpoch, st)
    <2>1. st.lifecycle \in {"RECOVERED_WITNESS_SPENT", "BLOCKED_WITNESS_SPENT"}
      BY <1>5 DEF Recovered, Blocked
    <2> QED  BY <1>5, <2>1, TerminalNoopCoherent
  <1> QED  BY <1>1, <1>2, <1>4, <1>5, Zenon DEF Consume

\* What publish commits: a conflict or an identical payload leaves the
\* coordinator open, a changed call opens a recovery or exposes its result.
LEMMA CommitCoherent ==
    ASSUME Inv, NEW t \in Threads, PublishCommit(t) PROVE ActionCoherent'
  <1> DEFINE c == call[t]
             b == Committed(c) # BaseState("OPEN")
  <1>1. /\ pc[t] = "commit" /\ st' = Committed(c) /\ profile' = profile
        /\ action' = [operation |-> "publish", outcome |-> CommittedOutcome(c),
                      ordinal |-> 0, changed |-> b]
    BY Zenon DEF PublishCommit, Leave
  <1>2. /\ c \in Calls /\ ~ PlanRaises(c) /\ c.rows = Plan(c)
        /\ profile \in Profiles /\ AlternateInv
    BY <1>1, OwnerFacts DEF CallOK, Inv, TypeOK
  <1>3. /\ \/ Committed(c) = BaseState("OPEN")
           \/ /\ Changes(c.cell, c.expected, c.proposal)
              /\ profile # "normal"
              /\ Committed(c).lifecycle = "RECOVERY_PENDING"
        /\ Changes(c.cell, c.expected, c.proposal) /\ profile # "normal" =>
              Committed(c).lifecycle = "RECOVERY_PENDING"
    BY <1>2, CommittedValid
  <1>4. BaseState("OPEN").lifecycle = "OPEN"
    BY DEF BaseState, StateTuple
  <1>5. Committed(c).issueCount = 0 /\ Committed(c).replayCount = 0
    BY DEF Committed, BaseState, StateTuple
  <1> HIDE DEF b
  <1>6. /\ action'.operation = "publish" /\ action'.ordinal = 0
        /\ action'.outcome = CommittedOutcome(c) /\ action'.changed = b
    BY <1>1
  <1>7. CASE ~ Changes(c.cell, c.expected, c.proposal)
    <2>1. Normal(c).outcome \in {"conflict_no_change",
                                 "existing_identical_no_change"}
      BY <1>7 DEF Normal, CasStep, Changes
    <2>2. CommittedOutcome(c) \in {"cas_conflict_no_marker",
                                   "cas_existing_identical_no_marker"}
      BY <2>1 DEF CommittedOutcome
    <2>3. Committed(c) = BaseState("OPEN")
      BY <1>3, <1>7
    <2>4. b = FALSE
      BY <2>3, Zenon DEF b
    <2> HIDE DEF c
    <2>5. OutcomeRow'
      BY <1>1, <1>4, <1>6, <2>2, <2>3 DEF OutcomeRow
    <2>6. ~ NeedsOrdinal' /\ CommittedOutcome(c) \notin ChangingOutcomes
      BY <1>6, <2>2 DEF NeedsOrdinal, ChangingOutcomes
    <2> QED  BY <1>6, <2>4, <2>5, <2>6 DEF ActionCoherent
  <1>8. CASE Changes(c.cell, c.expected, c.proposal)
    <2>1. Normal(c).outcome = "intended_applied_acknowledged"
      BY <1>8 DEF Normal, CasStep, Changes, ChangedOutcome
    <2>2. CommittedOutcome(c) = IF profile = "normal"
                                THEN "normal_staged_result_exposed_no_marker"
                                ELSE "synthetic_marker_committed_result_withheld"
      BY <2>1 DEF CommittedOutcome
    <2>3. CASE profile = "normal"
      <3>1. Committed(c) = BaseState("OPEN")
        BY <1>3, <2>3
      <3>2. b = FALSE
        BY <3>1, Zenon DEF b
      <3> HIDE DEF c
      <3>3. OutcomeRow'
        BY <1>1, <1>4, <1>6, <2>2, <2>3, <3>1 DEF OutcomeRow
      <3>4. ~ NeedsOrdinal' /\ CommittedOutcome(c) \notin ChangingOutcomes
        BY <1>6, <2>2, <2>3 DEF NeedsOrdinal, ChangingOutcomes
      <3> QED  BY <1>6, <3>2, <3>3, <3>4 DEF ActionCoherent
    <2>4. CASE profile # "normal"
      <3>1. Committed(c).lifecycle = "RECOVERY_PENDING"
        BY <1>3, <1>8, <2>4
      <3>2. Committed(c) # BaseState("OPEN")
        BY <1>4, <3>1
      <3>3. b = TRUE
        BY <3>2, Zenon DEF b
      <3> HIDE DEF c
      <3>4. OutcomeRow'
        BY <1>1, <1>5, <1>6, <2>2, <2>4, <3>1 DEF OutcomeRow
      <3>5. ~ NeedsOrdinal' /\ CommittedOutcome(c) \in ChangingOutcomes
        BY <1>6, <2>2, <2>4 DEF NeedsOrdinal, ChangingOutcomes
      <3> QED  BY <1>6, <3>3, <3>4, <3>5 DEF ActionCoherent
    <2> QED  BY <2>3, <2>4
  <1> QED  BY <1>7, <1>8

LEMMA StepCoherent ==
    ASSUME Inv, ActionCoherent, [Next]_vars PROVE ActionCoherent'
  <1>1. TypeOK /\ SnapshotValid
    BY DEF Inv
  <1>2. CASE UNCHANGED <<profile, st, action>>
    BY <1>2 DEF ActionCoherent, OutcomeRow, NeedsOrdinal, NamesCurrentEpoch,
                NamesTerminalEpoch
  <1>3. ASSUME NEW t \in Threads, PublishEnter(t) \/ Publish(t)
        PROVE  ActionCoherent'
    <2>1. CASE PublishEnter(t)
      BY <2>1, NoActionCoherent DEF PublishEnter
    <2>2. CASE \/ PublishDerive(t) \/ StageOpen(t) \/ StageWrite(t)
               \/ StageReadback(t) \/ PublishResult(t) \/ PublishRaises(t)
      <3>1. UNCHANGED <<profile, st, action>>
        BY <2>2, Zenon DEF PublishDerive, StageOpen, StageWrite, StageReadback,
                           PublishResult, PublishRaises, Unlocked
      <3> QED  BY <1>2, <3>1
    <2>3. CASE PublishCommit(t)
      BY <2>3, CommitCoherent
    <2>4. CASE PublishFinally(t)
      BY <2>4, NoActionCoherent DEF PublishFinally
    <2> QED  BY <1>3, <2>1, <2>2, <2>3, <2>4 DEF Publish
  <1>4. CASE \E t \in Threads : PublishExcluded(t)
    <2>1. /\ st.lifecycle # "OPEN"
          /\ Return("publish", "publisher_excluded_non_open", 0, st)
      BY <1>4 DEF PublishExcluded
    <2> QED  BY <2>1, NoopCoherent
  <1>5. CASE Next
    BY <1>1, <1>3, <1>4, <1>5, AcquireCoherent, HandleCoherent, ConsumeCoherent
       DEF Next
  <1> QED  BY <1>2, <1>5 DEF vars

\* Every action an operation builds is one _validate_action accepts: no
\* operation computes a new state only to raise on the way out.
THEOREM ActionsCoherent == Spec => []ActionCoherent
  <1>1. Init => ActionCoherent
    <2> SUFFICES ASSUME Init PROVE ActionCoherent
      OBVIOUS
    <2>1. /\ action.operation = "none" /\ action.outcome = "none"
          /\ action.ordinal = 0 /\ action.changed = FALSE
      BY DEF Init, NoAction
    <2>2. OutcomeRow
      BY <2>1 DEF OutcomeRow
    <2>3. ~ NeedsOrdinal /\ "none" \notin ChangingOutcomes
      BY <2>1 DEF NeedsOrdinal, ChangingOutcomes
    <2> QED  BY <2>1, <2>2, <2>3 DEF ActionCoherent
  <1>2. Inv /\ ActionCoherent /\ [Next]_vars => ActionCoherent'
    BY StepCoherent
  <1> QED  BY <1>1, <1>2, Invariance, PTL DEF Spec
============================================================================
