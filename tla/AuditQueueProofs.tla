------------------------- MODULE AuditQueueProofs -------------------------
(***************************************************************************)
(* Theorems about AuditQueue and BulkQueue for every value of their         *)
(* constants.                                                              *)
(***************************************************************************)
EXTENDS BulkQueue, FiniteSetTheorems, WellFoundedInduction, TLAPS

----------------------------------------------------------------------------
(* Type correctness. *)

LEMMA TypeInit == Init => TypeOK
BY ConstantTypes, BoundTypes DEF Init, TypeOK, Settled, JobStatuses, PCs, Holding

LEMMA TypeTable ==
    ASSUME TypeOK,
           \/ \E batch \in Batches : Enqueue(batch)
           \/ \E r \in Runs : CancelJobs(r)
           \/ \E j \in Jobs : LeaseExpires(j)
    PROVE  TypeOK'
<1> USE ConstantTypes, BoundTypes
<1>1. ASSUME NEW batch \in Batches, Enqueue(batch) PROVE TypeOK'
  BY <1>1, TypeOK DEF TypeOK, Enqueue, Present, JobStatuses, ledger, threads, process
<1>2. ASSUME NEW r \in Runs, CancelJobs(r) PROVE TypeOK'
  BY <1>2, TypeOK DEF TypeOK, CancelJobs, JobStatuses, ledger, threads, process
<1>3. ASSUME NEW j \in Jobs, LeaseExpires(j) PROVE TypeOK'
  BY <1>3, TypeOK DEF TypeOK, LeaseExpires, ledger, threads, process, counters
<1> QED BY <1>1, <1>2, <1>3, TypeOK

LEMMA TypeProcess ==
    ASSUME TypeOK, StartRun \/ FinishRun \/ AbortRun PROVE TypeOK'
<1> USE ConstantTypes, BoundTypes
<1>1. ASSUME StartRun PROVE TypeOK'
  BY <1>1, TypeOK DEF TypeOK, StartRun, PCs, Holding, rows, ledger
<1>2. ASSUME FinishRun PROVE TypeOK'
  BY <1>2, TypeOK DEF TypeOK, FinishRun, Materialized, OverThreshold, OnProbation, rows, threads, counters
<1>3. ASSUME AbortRun PROVE TypeOK'
  BY <1>3, TypeOK DEF TypeOK, AbortRun, rows, ledger, threads, counters
<1> QED BY <1>1, <1>2, <1>3

LEMMA TypeWorker ==
    ASSUME TypeOK, NEW w \in Workers, WorkerStep(w) \/ WorkerDies(w)
    PROVE  TypeOK'
<1> USE TypeOK, ConstantTypes, BoundTypes DEF TypeOK, Goto, PCs, Holding, Settled,
        JobStatuses, rows, ledger, threads, process, counters
<1>1. ASSUME TakeSlot(w) PROVE TypeOK'
  BY <1>1 DEF TakeSlot, Unlimited
<1>2. ASSUME RefreshRead(w) PROVE TypeOK'
  BY <1>2 DEF RefreshRead, OverThreshold
<1>3. ASSUME RefreshWrite(w) PROVE TypeOK'
  BY <1>3 DEF RefreshWrite, OnProbation
<1>4. ASSUME Select(w) PROVE TypeOK'
  BY <1>4 DEF Select, FirstEligible
<1>5. ASSUME SelectNone(w) PROVE TypeOK'
  BY <1>5 DEF SelectNone, Unlimited
<1>6. ASSUME Lease(w) PROVE TypeOK'
  BY <1>6 DEF Lease
<1>7. ASSUME CheckQuarantine(w) PROVE TypeOK'
  BY <1>7 DEF CheckQuarantine
<1>8. ASSUME MarkQuarantined(w) PROVE TypeOK'
  BY <1>8 DEF MarkQuarantined
<1>9. ASSUME MarkRunning(w) PROVE TypeOK'
  BY <1>9 DEF MarkRunning
<1>10. ASSUME RunJob(w) PROVE TypeOK'
  BY <1>10 DEF RunJob
<1>11. ASSUME RecordTimeout(w) PROVE TypeOK'
  BY <1>11 DEF RecordTimeout, TimeoutScope, Scopes
<1>12. ASSUME MarkResult(w) PROVE TypeOK'
  BY <1>12 DEF MarkResult
<1>13. ASSUME WorkerDies(w) PROVE TypeOK'
  BY <1>13 DEF WorkerDies
<1> HIDE DEF TypeOK
<1> QED BY <1>1, <1>2, <1>3, <1>4, <1>5, <1>6, <1>7, <1>8, <1>9, <1>10,
           <1>11, <1>12, <1>13 DEF WorkerStep

LEMMA TypeNext == ASSUME TypeOK, [Next]_vars PROVE TypeOK'
<1>1. CASE UNCHANGED vars
  BY <1>1 DEF TypeOK, vars, rows, ledger, threads, process, counters
<1>2. CASE Next
  BY <1>2, TypeTable, TypeProcess, TypeWorker DEF Next
<1> QED BY <1>1, <1>2

\* TypeOK is inductive: the columns keep their types through every step.
THEOREM TypeCorrect == Spec => []TypeOK
<1>1. Init => TypeOK
  BY TypeInit
<1>2. TypeOK /\ [Next]_vars => TypeOK'
  BY TypeNext
<1> QED BY <1>1, <1>2, PTL DEF Spec

----------------------------------------------------------------------------
(* No stranded row. *)

\* NoStrandedRow is inductive on top of TypeOK: Lease and MarkRunning write
\* the row of the worker that takes the step, every other writer leaves the
\* row settled, and a worker lets go of a row by settling it or by dying.
THEOREM NeverStranded == Spec => []NoStrandedRow
<1>1. Init => NoStrandedRow
  BY DEF Init, NoStrandedRow
<1>2. TypeOK /\ NoStrandedRow /\ [Next]_vars => NoStrandedRow'
  <2> SUFFICES ASSUME TypeOK, NoStrandedRow, [Next]_vars PROVE NoStrandedRow'
    OBVIOUS
  <2> USE DEF TypeOK, NoStrandedRow, Owning, Holding
  <2>1. CASE UNCHANGED vars
    BY <2>1 DEF vars, rows, ledger, threads, process, counters
  <2>2. ASSUME NEW batch \in Batches, Enqueue(batch) PROVE NoStrandedRow'
    BY <2>2 DEF Enqueue, threads
  <2>3. ASSUME NEW r \in Runs, CancelJobs(r) PROVE NoStrandedRow'
    BY <2>3 DEF CancelJobs, threads
  <2>4. ASSUME NEW j \in Jobs, LeaseExpires(j) PROVE NoStrandedRow'
    BY <2>4 DEF LeaseExpires, threads, counters
  <2>5. CASE StartRun
    BY <2>5 DEF StartRun, rows
  <2>6. CASE FinishRun \/ AbortRun
    BY <2>6 DEF FinishRun, AbortRun, rows, threads, counters
  <2>7. ASSUME NEW w \in Workers, WorkerStep(w) PROVE NoStrandedRow'
    <3> USE DEF Goto, rows, counters
    <3>1. CASE TakeSlot(w) \/ RefreshRead(w) \/ RefreshWrite(w) \/ SelectNone(w)
      BY <3>1 DEF TakeSlot, RefreshRead, RefreshWrite, SelectNone
    <3>2. CASE Select(w)
      BY <3>2 DEF Select
    <3>3. CASE Lease(w)
      BY <3>3 DEF Lease
    <3>4. CASE CheckQuarantine(w)
      BY <3>4 DEF CheckQuarantine
    <3>5. CASE MarkQuarantined(w)
      BY <3>5 DEF MarkQuarantined
    <3>6. CASE MarkRunning(w)
      BY <3>6 DEF MarkRunning
    <3>7. CASE RunJob(w)
      BY <3>7 DEF RunJob
    <3>8. CASE RecordTimeout(w)
      BY <3>8 DEF RecordTimeout
    <3>9. CASE MarkResult(w)
      BY <3>9 DEF MarkResult
    <3> QED BY <2>7, <3>1, <3>2, <3>3, <3>4, <3>5, <3>6, <3>7, <3>8, <3>9 DEF WorkerStep
  <2>8. ASSUME NEW w \in Workers, WorkerDies(w) PROVE NoStrandedRow'
    BY <2>8 DEF WorkerDies, rows
  <2> QED BY <2>1, <2>2, <2>3, <2>4, <2>5, <2>6, <2>7, <2>8 DEF Next
<1> QED BY <1>1, <1>2, TypeCorrect, PTL DEF Spec

----------------------------------------------------------------------------
(* Cardinalities of sets of workers and jobs. *)

LEMMA SubsetCardinality ==
    ASSUME NEW T, IsFiniteSet(T), NEW S, S \subseteq T
    PROVE  /\ IsFiniteSet(S)
           /\ Cardinality(S) \in Nat /\ Cardinality(T) \in Nat
           /\ Cardinality(S) <= Cardinality(T)
BY FS_Subset, FS_CardinalityType

\* Adding one element raises the cardinality by at most one.
LEMMA InsertCardinality ==
    ASSUME NEW S, IsFiniteSet(S), NEW x, NEW R, R \subseteq S \cup {x}
    PROVE  /\ IsFiniteSet(R)
           /\ Cardinality(R) \in Nat /\ Cardinality(S) \in Nat
           /\ Cardinality(R) <= Cardinality(S) + 1
<1>1. /\ IsFiniteSet(S \cup {x})
      /\ Cardinality(S \cup {x}) = IF x \in S THEN Cardinality(S) ELSE Cardinality(S) + 1
  BY FS_AddElement
<1> QED BY <1>1, SubsetCardinality, FS_CardinalityType

\* Losing an element lowers it by at least one.
LEMMA DropCardinality ==
    ASSUME NEW S, IsFiniteSet(S), NEW x \in S, NEW R, R \subseteq S \ {x}
    PROVE  /\ IsFiniteSet(R)
           /\ Cardinality(R) \in Nat /\ Cardinality(S) \in Nat
           /\ Cardinality(R) + 1 <= Cardinality(S)
<1>1. /\ IsFiniteSet(S \ {x})
      /\ Cardinality(S \ {x}) = Cardinality(S) - 1
  BY FS_RemoveElement
<1> QED BY <1>1, SubsetCardinality, FS_CardinalityType

----------------------------------------------------------------------------
(* The attempt budget. *)

\* Workers that have selected a row and not yet incremented its count.
Pickers(j) ==
    {w \in Workers : /\ pc[w] \in {"selected", "leased", "blocked", "cleared"}
                     /\ job[w] = j}

\* A selection through the queued or the failed branch happens while the count
\* is below max_attempts, and all workers together can be in that window; a
\* selection through an expired lease pays for itself in reclaims.  Counting
\* the workers in the window makes the budget inductive.
BudgetInv ==
    \A j \in Jobs :
        /\ attempts[j] + Cardinality(Pickers(j))
             <= MaxAttempts + (Cardinality(Workers) - 1) + reclaims[j]
        /\ status[j] \in {"absent", "queued"} => attempts[j] = 0

LEMMA PickersFinite ==
    \A j : /\ Pickers(j) \subseteq Workers /\ IsFiniteSet(Pickers(j))
           /\ Cardinality(Pickers(j)) \in Nat /\ Cardinality(Workers) \in Nat
           /\ Cardinality(Pickers(j)) <= Cardinality(Workers)
BY ConstantTypes, SubsetCardinality DEF Pickers

\* A step that counts nothing and puts no worker into the window.
LEMMA BudgetQuiet ==
    ASSUME TypeOK, TypeOK', BudgetInv, UNCHANGED <<attempts, reclaims>>,
           \A j \in Jobs : Pickers(j)' \subseteq Pickers(j),
           \A j \in Jobs : status'[j] \in {"absent", "queued"}
                               => status[j] \in {"absent", "queued"}
    PROVE  BudgetInv'
<1> SUFFICES ASSUME NEW j \in Jobs
             PROVE  /\ attempts'[j] + Cardinality(Pickers(j)')
                         <= MaxAttempts + (Cardinality(Workers) - 1) + reclaims'[j]
                    /\ status'[j] \in {"absent", "queued"} => attempts'[j] = 0
  BY DEF BudgetInv
<1>1. /\ Cardinality(Pickers(j)') \in Nat /\ Cardinality(Pickers(j)) \in Nat
      /\ Cardinality(Pickers(j)') <= Cardinality(Pickers(j))
  BY PickersFinite, SubsetCardinality
<1> QED BY <1>1, PickersFinite, BoundTypes DEF BudgetInv, TypeOK

LEMMA BudgetSelect ==
    ASSUME TypeOK, BudgetInv, NEW w \in Workers, Select(w)
    PROVE  BudgetInv'
<1>1. PICK k \in FirstEligible :
        /\ pc[w] = "refreshed" /\ pc' = [pc EXCEPT ![w] = "selected"]
        /\ job' = [job EXCEPT ![w] = k]
        /\ IF status[k] \in {"leased", "running"}
           THEN reclaims' = [reclaims EXCEPT ![k] = @ + 1]
           ELSE UNCHANGED reclaims
        /\ UNCHANGED <<status, attempts>>
  BY DEF Select, Goto, rows
<1>2. k \in Jobs /\ Leasable(k)
  BY <1>1 DEF FirstEligible, Eligible
<1> SUFFICES ASSUME NEW j \in Jobs
             PROVE  /\ attempts'[j] + Cardinality(Pickers(j)')
                         <= MaxAttempts + (Cardinality(Workers) - 1) + reclaims'[j]
                    /\ status'[j] \in {"absent", "queued"} => attempts'[j] = 0
  BY DEF BudgetInv
<1>3. /\ attempts[j] \in Nat /\ reclaims[j] \in Nat /\ MaxAttempts \in Nat \ {0}
      /\ attempts'[j] = attempts[j]
  BY <1>1, BoundTypes DEF TypeOK
<1>4. status'[j] \in {"absent", "queued"} => attempts'[j] = 0
  BY <1>1, <1>3 DEF BudgetInv
<1>5. CASE j # k
  <2>1. Pickers(j)' \subseteq Pickers(j) /\ reclaims'[j] = reclaims[j]
    BY <1>1, <1>2, <1>5 DEF Pickers, TypeOK
  <2>2. Cardinality(Pickers(j)') <= Cardinality(Pickers(j)) /\ Cardinality(Pickers(j)') \in Nat
    BY <2>1, PickersFinite, SubsetCardinality
  <2> QED BY <1>3, <1>4, <2>1, <2>2, PickersFinite DEF BudgetInv
<1>6. CASE j = k /\ status[k] \in {"leased", "running"}
  <2>1. Pickers(j)' \subseteq Pickers(j) \cup {w} /\ reclaims'[j] = reclaims[j] + 1
    BY <1>1, <1>2, <1>6 DEF Pickers, TypeOK
  <2>2. Cardinality(Pickers(j)') <= Cardinality(Pickers(j)) + 1 /\ Cardinality(Pickers(j)') \in Nat
    BY <2>1, PickersFinite, InsertCardinality
  <2> QED BY <1>3, <1>4, <2>1, <2>2, PickersFinite DEF BudgetInv
<1>7. CASE j = k /\ status[k] \notin {"leased", "running"}
  <2>1. attempts[j] + 1 <= MaxAttempts /\ reclaims'[j] = reclaims[j]
    BY <1>1, <1>2, <1>3, <1>7 DEF Leasable, BudgetInv
  <2>2. Pickers(j)' \subseteq Workers
    BY DEF Pickers
  <2>3. Cardinality(Pickers(j)') <= Cardinality(Workers) /\ Cardinality(Pickers(j)') \in Nat
    BY <2>2, ConstantTypes, SubsetCardinality
  <2> QED BY <1>3, <1>4, <2>1, <2>3, PickersFinite
<1> QED BY <1>5, <1>6, <1>7

LEMMA BudgetMarkRunning ==
    ASSUME TypeOK, BudgetInv, NEW w \in Workers, MarkRunning(w)
    PROVE  BudgetInv'
<1> SUFFICES ASSUME NEW j \in Jobs
             PROVE  /\ attempts'[j] + Cardinality(Pickers(j)')
                         <= MaxAttempts + (Cardinality(Workers) - 1) + reclaims'[j]
                    /\ status'[j] \in {"absent", "queued"} => attempts'[j] = 0
  BY DEF BudgetInv
<1>1. /\ attempts[j] \in Nat /\ reclaims[j] \in Nat /\ MaxAttempts \in Nat
      /\ reclaims'[j] = reclaims[j]
  BY BoundTypes DEF TypeOK, MarkRunning, counters
<1>2. status'[j] \in {"absent", "queued"} => attempts'[j] = 0
  BY DEF MarkRunning, BudgetInv, TypeOK
<1>3. CASE j = job[w]
  <2>1. w \in Pickers(j) /\ Pickers(j)' \subseteq Pickers(j) \ {w}
    BY <1>3 DEF MarkRunning, Goto, Pickers, TypeOK
  <2>2. Cardinality(Pickers(j)') + 1 <= Cardinality(Pickers(j)) /\ Cardinality(Pickers(j)') \in Nat
    BY <2>1, PickersFinite, DropCardinality
  <2>3. attempts'[j] = attempts[j] + 1
    BY <1>3 DEF MarkRunning, TypeOK
  <2> QED BY <1>1, <1>2, <2>2, <2>3, PickersFinite DEF BudgetInv
<1>4. CASE j # job[w]
  <2>1. Pickers(j)' \subseteq Pickers(j) /\ attempts'[j] = attempts[j]
    BY <1>4 DEF MarkRunning, Goto, Pickers, TypeOK
  <2>2. Cardinality(Pickers(j)') <= Cardinality(Pickers(j)) /\ Cardinality(Pickers(j)') \in Nat
    BY <2>1, PickersFinite, SubsetCardinality
  <2> QED BY <1>1, <1>2, <2>1, <2>2, PickersFinite DEF BudgetInv
<1> QED BY <1>3, <1>4

\* Only Select and MarkRunning count anything or put a worker into the window.
LEMMA QuietSteps ==
    ASSUME TypeOK, [Next]_vars, ~\E w \in Workers : Select(w) \/ MarkRunning(w)
    PROVE  /\ UNCHANGED <<attempts, reclaims>>
           /\ \A j \in Jobs : Pickers(j)' \subseteq Pickers(j)
           /\ \A j \in Jobs : status'[j] \in {"absent", "queued"}
                                => status[j] \in {"absent", "queued"}
<1> DEFINE Quiet == /\ UNCHANGED <<attempts, reclaims>>
                    /\ \A j \in Jobs : Pickers(j)' \subseteq Pickers(j)
                    /\ \A j \in Jobs : status'[j] \in {"absent", "queued"}
                                         => status[j] \in {"absent", "queued"}
<1> SUFFICES Quiet
  OBVIOUS
<1> USE DEF Pickers, TypeOK
<1>1. CASE UNCHANGED vars
  BY <1>1 DEF vars, rows, threads, counters
<1>2. ASSUME NEW batch \in Batches, Enqueue(batch) PROVE Quiet
  BY <1>2 DEF Enqueue, Present, threads
<1>3. ASSUME NEW r \in Runs, CancelJobs(r) PROVE Quiet
  BY <1>3 DEF CancelJobs, threads
<1>4. ASSUME NEW j \in Jobs, LeaseExpires(j) PROVE Quiet
  BY <1>4 DEF LeaseExpires, threads, counters
<1>5. CASE StartRun
  BY <1>5 DEF StartRun, rows
<1>6. CASE FinishRun \/ AbortRun
  BY <1>6 DEF FinishRun, AbortRun, rows, threads, counters
<1>7. ASSUME NEW w \in Workers, WorkerStep(w) PROVE Quiet
  <2> USE DEF Goto, rows, counters
  <2>1. CASE TakeSlot(w) \/ RefreshRead(w) \/ RefreshWrite(w) \/ SelectNone(w)
    BY <2>1 DEF TakeSlot, RefreshRead, RefreshWrite, SelectNone
  <2>2. CASE Lease(w) \/ CheckQuarantine(w)
    BY <2>2 DEF Lease, CheckQuarantine
  <2>3. CASE MarkQuarantined(w)
    BY <2>3 DEF MarkQuarantined
  <2>4. CASE RunJob(w) \/ RecordTimeout(w)
    BY <2>4 DEF RunJob, RecordTimeout
  <2>5. CASE MarkResult(w)
    BY <2>5 DEF MarkResult
  <2> QED BY <1>7, <2>1, <2>2, <2>3, <2>4, <2>5 DEF WorkerStep
<1>8. ASSUME NEW w \in Workers, WorkerDies(w) PROVE Quiet
  BY <1>8 DEF WorkerDies, rows
<1> HIDE DEF Quiet
<1> QED BY <1>1, <1>2, <1>3, <1>4, <1>5, <1>6, <1>7, <1>8 DEF Next

LEMMA BudgetNext ==
    ASSUME TypeOK, TypeOK', BudgetInv, [Next]_vars PROVE BudgetInv'
<1>1. CASE ~\E w \in Workers : Select(w) \/ MarkRunning(w)
  BY <1>1, QuietSteps, BudgetQuiet
<1> QED BY <1>1, BudgetSelect, BudgetMarkRunning

\* For any number of workers, jobs, deaths and expired leases, no row runs
\* more often than its budget.
THEOREM AttemptsBounded == Spec => []AttemptBudget
<1>1. Init => BudgetInv
  <2> SUFFICES ASSUME Init PROVE BudgetInv
    OBVIOUS
  <2>1. \A j \in Jobs : Pickers(j) = {}
    BY DEF Init, Pickers
  <2>2. Cardinality(Workers) \in Nat /\ Cardinality(Workers) # 0
    BY ConstantTypes, FS_CardinalityType, FS_EmptySet
  <2>3. \A j \in Jobs : Cardinality(Pickers(j)) = 0
    BY <2>1, FS_EmptySet
  <2> QED BY <2>2, <2>3, BoundTypes DEF Init, BudgetInv
<1>2. TypeOK /\ BudgetInv => AttemptBudget
  <2> SUFFICES ASSUME TypeOK, BudgetInv, NEW j \in Jobs
               PROVE attempts[j] <= MaxAttempts + (Cardinality(Workers) - 1) + reclaims[j]
    BY DEF AttemptBudget
  <2> QED BY PickersFinite, BoundTypes DEF BudgetInv, TypeOK
<1> QED BY <1>1, <1>2, BudgetNext, TypeCorrect, PTL DEF Spec

----------------------------------------------------------------------------
(* The quarantine threshold. *)

\* Jobs of an action that timed out although quarantine could have held them.
Timed(a) == {j \in TacticTimeouts : ActionOf[j] = a /\ ~AllowHeavy(j)}

\* Workers that may still add a job to Timed(a): their last look at the ledger
\* found the action below the threshold, and nobody has quarantined it since,
\* or they are past is_action_quarantined with a job of the action.
Pending(a) ==
    {w \in Workers :
        \/ pc[w] = "found" /\ a \notin quarantined \cup found[w]
        \/ pc[w] \in {"refreshed", "selected", "leased"} /\ a \notin quarantined
        \/ /\ pc[w] \in {"cleared", "running", "timedout"}
           /\ ActionOf[job[w]] = a /\ ~AllowHeavy(job[w])}

\* Rows are never deleted, so a held row and a row with an event exist.
HeldPresent == \A w \in Workers : job[w] # NoJob => Present(job[w])
EventsPresent == \A j \in Jobs : <<j, "tactic_timeout">> \in events => Present(j)

\* A worker enters Pending(a) only while fewer jobs than the threshold have
\* timed out, and leaves it when its job times out.
OvershootInv ==
    /\ \A a \in Actions :
          Cardinality(Timed(a)) + Cardinality(Pending(a))
              <= ActionTimeoutThreshold + Cardinality(Workers) - 1
    /\ HeldPresent
    /\ EventsPresent

LEMMA PendingFinite ==
    \A a : /\ IsFiniteSet(Timed(a)) /\ Cardinality(Timed(a)) \in Nat
           /\ Pending(a) \subseteq Workers /\ IsFiniteSet(Pending(a))
           /\ Cardinality(Pending(a)) \in Nat /\ Cardinality(Workers) \in Nat
           /\ Cardinality(Pending(a)) <= Cardinality(Workers)
BY ConstantTypes, SubsetCardinality DEF Timed, TacticTimeouts, Pending

\* A step that records no timeout and makes no worker pending.
LEMMA OvershootQuiet ==
    ASSUME TypeOK, OvershootInv, NEW a \in Actions,
           Timed(a)' \subseteq Timed(a), Pending(a)' \subseteq Pending(a)
    PROVE  Cardinality(Timed(a)') + Cardinality(Pending(a)')
              <= ActionTimeoutThreshold + Cardinality(Workers) - 1
<1>1. /\ Cardinality(Timed(a)') \in Nat
      /\ Cardinality(Timed(a)') <= Cardinality(Timed(a))
  BY PendingFinite, SubsetCardinality
<1>2. /\ Cardinality(Pending(a)') \in Nat
      /\ Cardinality(Pending(a)') <= Cardinality(Pending(a))
  BY PendingFinite, SubsetCardinality
<1> QED BY <1>1, <1>2, PendingFinite, BoundTypes DEF OvershootInv

LEMMA OvershootRefreshRead ==
    ASSUME TypeOK, OvershootInv, NEW w \in Workers, RefreshRead(w), NEW a \in Actions
    PROVE  Cardinality(Timed(a)') + Cardinality(Pending(a)')
              <= ActionTimeoutThreshold + Cardinality(Workers) - 1
<1>1. Timed(a)' \subseteq Timed(a)
  BY DEF RefreshRead, Timed, TacticTimeouts, Present, rows, ledger
<1>2. CASE a \in OverThreshold
  <2>1. Pending(a)' \subseteq Pending(a)
    BY <1>2 DEF RefreshRead, Goto, Pending, TypeOK, ledger
  <2> QED BY <1>1, <2>1, OvershootQuiet
<1>3. CASE a \notin OverThreshold
  <2> DEFINE all == {j \in TacticTimeouts : ActionOf[j] = a}
  <2>1. IsFiniteSet(all) /\ Cardinality(all) \in Nat
    BY ConstantTypes, SubsetCardinality DEF TacticTimeouts
  <2>2. Cardinality(all) < ActionTimeoutThreshold
    BY <1>3, <2>1, BoundTypes DEF OverThreshold
  <2>3. Timed(a)' \subseteq all
    BY <1>1 DEF Timed
  <2>4. Cardinality(Timed(a)') \in Nat /\ Cardinality(Timed(a)') <= Cardinality(all)
    BY <2>1, <2>3, SubsetCardinality
  <2>5. Pending(a)' \subseteq Workers
    BY DEF Pending
  <2>6. Cardinality(Pending(a)') \in Nat /\ Cardinality(Pending(a)') <= Cardinality(Workers)
    BY <2>5, ConstantTypes, SubsetCardinality
  <2> QED BY <2>1, <2>2, <2>4, <2>6, PendingFinite, BoundTypes
<1> QED BY <1>2, <1>3

LEMMA OvershootRecord ==
    ASSUME TypeOK, OvershootInv, NEW w \in Workers, RecordTimeout(w), NEW a \in Actions
    PROVE  Cardinality(Timed(a)') + Cardinality(Pending(a)')
              <= ActionTimeoutThreshold + Cardinality(Workers) - 1
<1>1. /\ pc[w] = "timedout" /\ pc' = [pc EXCEPT ![w] = "ran"]
      /\ events' = events \cup {<<job[w], TimeoutScope(outcome[w])>>}
      /\ UNCHANGED <<status, job, found, quarantined>>
  BY DEF RecordTimeout, Goto, rows
<1>2. CASE ActionOf[job[w]] = a /\ ~AllowHeavy(job[w])
  <2>1. Timed(a)' \subseteq Timed(a) \cup {job[w]}
    BY <1>1 DEF Timed, TacticTimeouts, Present
  <2>2. w \in Pending(a) /\ Pending(a)' \subseteq Pending(a) \ {w}
    BY <1>1, <1>2 DEF Pending, TypeOK
  <2>3. Cardinality(Timed(a)') \in Nat /\ Cardinality(Timed(a)') <= Cardinality(Timed(a)) + 1
    BY <2>1, PendingFinite, InsertCardinality
  <2>4. Cardinality(Pending(a)') \in Nat /\ Cardinality(Pending(a)') + 1 <= Cardinality(Pending(a))
    BY <2>2, PendingFinite, DropCardinality
  <2> QED BY <2>3, <2>4, PendingFinite, BoundTypes DEF OvershootInv
<1>3. CASE ~(ActionOf[job[w]] = a /\ ~AllowHeavy(job[w]))
  <2>1. Timed(a)' \subseteq Timed(a)
    BY <1>1, <1>3 DEF Timed, TacticTimeouts, Present
  <2>2. Pending(a)' \subseteq Pending(a)
    BY <1>1 DEF Pending, TypeOK
  <2> QED BY <2>1, <2>2, OvershootQuiet
<1> QED BY <1>2, <1>3

\* The part of the type invariant that the reasoning about rows needs.
LEMMA TypeShapes ==
    ASSUME TypeOK
    PROVE  /\ status \in [Jobs -> JobStatuses \cup {"absent"}]
           /\ pc \in [Workers -> PCs]
           /\ job \in [Workers -> Jobs \cup {NoJob}]
           /\ \A w \in Workers : job[w] # NoJob <=> pc[w] \in Holding
           /\ \A w \in Workers : pc[w] = "ran" =>
                 outcome[w] \in {"succeeded", "failed", "killed", "reported"}
BY DEF TypeOK

LEMMA TablesNext ==
    ASSUME TypeOK, HeldPresent, EventsPresent, [Next]_vars
    PROVE  HeldPresent' /\ EventsPresent'
<1> DEFINE Kept == \A j \in Jobs : status[j] # "absent" => status'[j] # "absent"
<1>1. CASE UNCHANGED vars
  BY <1>1 DEF vars, rows, ledger, threads, HeldPresent, EventsPresent, Present
<1>2. ASSUME UNCHANGED <<job, events>>, Kept PROVE HeldPresent' /\ EventsPresent'
  BY <1>2, TypeShapes DEF HeldPresent, EventsPresent, Present
<1>3. ASSUME NEW batch \in Batches, Enqueue(batch) PROVE HeldPresent' /\ EventsPresent'
  BY <1>2, <1>3 DEF Enqueue, ledger, threads
<1>4. ASSUME NEW r \in Runs, CancelJobs(r) PROVE HeldPresent' /\ EventsPresent'
  BY <1>2, <1>4 DEF CancelJobs, ledger, threads
<1>5. CASE \/ \E j \in Jobs : LeaseExpires(j)
           \/ StartRun \/ FinishRun \/ AbortRun
  BY <1>2, <1>5 DEF LeaseExpires, StartRun, FinishRun, AbortRun, rows, ledger, threads
<1>6. ASSUME NEW w \in Workers, WorkerStep(w) \/ WorkerDies(w)
      PROVE HeldPresent' /\ EventsPresent'
  <2>0. Kept
    <3> USE TypeShapes DEF rows, ledger
    <3>1. CASE TakeSlot(w) \/ RefreshRead(w) \/ RefreshWrite(w) \/ Select(w) \/ SelectNone(w)
               \/ CheckQuarantine(w) \/ RunJob(w) \/ RecordTimeout(w) \/ WorkerDies(w)
      BY <3>1 DEF TakeSlot, RefreshRead, RefreshWrite, Select, SelectNone, CheckQuarantine,
                  RunJob, RecordTimeout, WorkerDies
    <3>2. CASE Lease(w) \/ MarkQuarantined(w) \/ MarkRunning(w)
      BY <3>2 DEF Lease, MarkQuarantined, MarkRunning
    <3>3. CASE MarkResult(w)
      BY <3>3 DEF MarkResult, Goto
    <3> QED BY <1>6, <3>1, <3>2, <3>3 DEF WorkerStep
  <2>1. HeldPresent'
    <3>1. job' = job \/ job' = [job EXCEPT ![w] = NoJob]
          \/ \E j \in Jobs : status[j] # "absent" /\ job' = [job EXCEPT ![w] = j]
      BY <1>6 DEF WorkerStep, TakeSlot, RefreshRead, RefreshWrite, Select, SelectNone, Lease,
                  CheckQuarantine, MarkQuarantined, MarkRunning, RunJob, RecordTimeout,
                  MarkResult, WorkerDies, FirstEligible, Eligible, Leasable
    <3> QED BY <2>0, <3>1, TypeShapes DEF HeldPresent, Present
  <2>2. EventsPresent'
    <3>1. \/ events' = events
          \/ job[w] # NoJob /\ \E s : events' = events \cup {<<job[w], s>>}
      <4>1. CASE RecordTimeout(w)
        BY <4>1, TypeShapes DEF RecordTimeout, Goto, Holding
      <4>2. CASE ~RecordTimeout(w)
        BY <1>6, <4>2 DEF WorkerStep, TakeSlot, RefreshRead, RefreshWrite, Select, SelectNone,
                  Lease, CheckQuarantine, MarkQuarantined, MarkRunning, RunJob,
                  MarkResult, WorkerDies, ledger
      <4> QED BY <4>1, <4>2
    <3> QED BY <2>0, <3>1, TypeShapes DEF HeldPresent, EventsPresent, Present
  <2> QED BY <2>1, <2>2
<1> QED BY <1>1, <1>3, <1>4, <1>5, <1>6 DEF Next

LEMMA OvershootNext ==
    ASSUME TypeOK, TypeOK', OvershootInv, [Next]_vars PROVE OvershootInv'
<1> DEFINE Quiet == /\ \A a \in Actions : Timed(a)' \subseteq Timed(a)
                    /\ \A a \in Actions : Pending(a)' \subseteq Pending(a)
<1>0. Quiet => \A a \in Actions : Cardinality(Timed(a)') + Cardinality(Pending(a)')
                  <= ActionTimeoutThreshold + Cardinality(Workers) - 1
  BY OvershootQuiet
<1>t. HeldPresent' /\ EventsPresent'
  BY TablesNext DEF OvershootInv
<1>1. CASE UNCHANGED vars
  <2>1. Quiet
    BY <1>1 DEF vars, rows, ledger, threads, Timed, TacticTimeouts, Present, Pending
  <2> QED BY <2>1, <1>0, <1>t DEF OvershootInv
<1>2. ASSUME NEW batch \in Batches, Enqueue(batch) PROVE OvershootInv'
  <2>1. Quiet
    BY <1>2 DEF Enqueue, ledger, threads, Timed, TacticTimeouts, Present, Pending,
                OvershootInv, EventsPresent
  <2> QED BY <2>1, <1>0, <1>t DEF OvershootInv
<1>3. ASSUME NEW r \in Runs, CancelJobs(r) PROVE OvershootInv'
  <2>1. Quiet
    BY <1>3 DEF CancelJobs, ledger, threads, Timed, TacticTimeouts, Present, Pending
  <2> QED BY <2>1, <1>0, <1>t DEF OvershootInv
<1>4. CASE \/ \E j \in Jobs : LeaseExpires(j)
           \/ AbortRun
  <2>1. Quiet
    BY <1>4 DEF LeaseExpires, AbortRun, rows, ledger, threads, Timed, TacticTimeouts, Present, Pending
  <2> QED BY <2>1, <1>0, <1>t DEF OvershootInv
<1>5. CASE StartRun \/ FinishRun
  <2>1. Quiet
    BY <1>5 DEF StartRun, FinishRun, rows, ledger, threads, Timed, TacticTimeouts, Present, Pending
  <2> QED BY <2>1, <1>0, <1>t DEF OvershootInv
<1>6. ASSUME NEW w \in Workers, WorkerStep(w) \/ WorkerDies(w) PROVE OvershootInv'
  <2>2. CASE RefreshRead(w)
    BY <1>t, <2>2, OvershootRefreshRead DEF OvershootInv
  <2>3. CASE RecordTimeout(w)
    BY <1>t, <2>3, OvershootRecord DEF OvershootInv
  <2>4. CASE ~RefreshRead(w) /\ ~RecordTimeout(w)
    <3>1. events' = events /\ \A j \in Jobs : status'[j] # "absent" => status[j] # "absent"
      <4>0. job[w] # NoJob => status[job[w]] # "absent"
        BY DEF OvershootInv, HeldPresent, Present
      <4> USE TypeShapes DEF Goto, Holding, rows, ledger
      <4>1. CASE TakeSlot(w) \/ RefreshWrite(w) \/ Select(w) \/ SelectNone(w)
                 \/ CheckQuarantine(w) \/ RunJob(w) \/ WorkerDies(w)
        BY <4>1 DEF TakeSlot, RefreshWrite, Select, SelectNone, CheckQuarantine, RunJob, WorkerDies
      <4>2. CASE Lease(w) \/ MarkQuarantined(w) \/ MarkRunning(w) \/ MarkResult(w)
        BY <4>0, <4>2 DEF Lease, MarkQuarantined, MarkRunning, MarkResult
      <4> QED BY <1>6, <2>4, <4>1, <4>2 DEF WorkerStep
    <3>2. \A a \in Actions : Timed(a)' \subseteq Timed(a)
      BY <3>1 DEF Timed, TacticTimeouts, Present
    <3>3. \A a \in Actions : Pending(a)' \subseteq Pending(a)
      <4> USE DEF Pending, TypeOK, Goto, rows, ledger
      <4>1. CASE TakeSlot(w) \/ SelectNone(w)
        BY <4>1 DEF TakeSlot, SelectNone
      <4>2. CASE RefreshWrite(w)
        BY <4>2 DEF RefreshWrite
      <4>3. CASE Select(w)
        BY <4>3 DEF Select
      <4>4. CASE Lease(w)
        BY <4>4 DEF Lease
      <4>5. CASE CheckQuarantine(w)
        BY <4>5 DEF CheckQuarantine
      <4>6. CASE MarkQuarantined(w)
        BY <4>6 DEF MarkQuarantined
      <4>7. CASE MarkRunning(w) \/ RunJob(w)
        BY <4>7 DEF MarkRunning, RunJob
      <4>8. CASE MarkResult(w)
        BY <4>8 DEF MarkResult
      <4>9. CASE WorkerDies(w)
        BY <4>9 DEF WorkerDies
      <4> QED BY <1>6, <2>4, <4>1, <4>2, <4>3, <4>4, <4>5, <4>6, <4>7, <4>8, <4>9 DEF WorkerStep
    <3> QED BY <1>0, <1>t, <3>2, <3>3 DEF OvershootInv
  <2> QED BY <2>2, <2>3, <2>4
<1> QED BY <1>1, <1>2, <1>3, <1>4, <1>5, <1>6 DEF Next

\* However the workers interleave, die and restart, at most workers - 1 jobs
\* of an action time out beyond the threshold at which it is quarantined.
THEOREM OvershootBounded == Spec => []QuarantineOvershoot
<1>1. Init => OvershootInv
  <2> SUFFICES ASSUME Init PROVE OvershootInv
    OBVIOUS
  <2>1. \A a \in Actions : Timed(a) = {} /\ Pending(a) = {}
    BY DEF Init, Timed, TacticTimeouts, Pending
  <2>2. \A a \in Actions : Cardinality(Timed(a)) = 0 /\ Cardinality(Pending(a)) = 0
    BY <2>1, FS_EmptySet
  <2>3. Cardinality(Workers) \in Nat /\ Cardinality(Workers) # 0
    BY ConstantTypes, FS_CardinalityType, FS_EmptySet
  <2> QED BY <2>2, <2>3, BoundTypes DEF Init, OvershootInv, HeldPresent, EventsPresent
<1>2. TypeOK /\ OvershootInv => QuarantineOvershoot
  <2> SUFFICES ASSUME OvershootInv, NEW a \in Actions
               PROVE Cardinality(Timed(a)) <= ActionTimeoutThreshold + Cardinality(Workers) - 1
    BY DEF QuarantineOvershoot, Timed
  <2> QED BY PendingFinite, BoundTypes DEF OvershootInv
<1> QED BY <1>1, <1>2, OvershootNext, TypeCorrect, PTL DEF Spec

----------------------------------------------------------------------------
(* max_jobs accounting. *)

Busy == {w \in Workers : pc[w] \notin {"idle", "done"}}

\* The counter is never None when max_jobs is given; a thread that dies takes
\* its slot with it, so the sum is claimed only while none has.
SlotInv ==
    MaxJobs # Unlimited =>
        /\ slots \in Nat
        /\ phase \in {"running", "materialized"}
           /\ (\A w \in Workers : pc[w] # "dead") =>
              executed + slots + Cardinality(Busy) = MaxJobs

LEMMA SlotWorker ==
    ASSUME TypeOK, SlotInv, MaxJobs # Unlimited, NEW w \in Workers, WorkerStep(w)
    PROVE  SlotInv'
<1> USE DEF Goto
<1>0. /\ pc \in [Workers -> PCs] /\ executed \in Nat /\ MaxJobs \in Nat
      /\ IsFiniteSet(Busy) /\ Cardinality(Busy) \in Nat
  BY ConstantTypes, BoundTypes, SubsetCardinality DEF TypeOK, Busy
<1>1. SUFFICES ASSUME phase' \in {"running", "materialized"},
                      \A v \in Workers : pc'[v] # "dead"
               PROVE  executed' + slots' + Cardinality(Busy') = MaxJobs
                      /\ slots' \in Nat
  <2>1. slots' \in Nat
    BY <1>0 DEF SlotInv, WorkerStep, TakeSlot, RefreshRead, RefreshWrite, Select, SelectNone,
           Lease, CheckQuarantine, MarkQuarantined, MarkRunning, RunJob, RecordTimeout,
           MarkResult, process, Unlimited
  <2> QED BY <2>1 DEF SlotInv
<1>2. phase' = phase /\ pc[w] \notin {"done", "dead"} /\ \A v \in Workers \ {w} : pc'[v] = pc[v]
  BY <1>0 DEF WorkerStep, TakeSlot, RefreshRead, RefreshWrite, Select, SelectNone,
           Lease, CheckQuarantine, MarkQuarantined, MarkRunning, RunJob, RecordTimeout,
           MarkResult, process
<1>3. slots \in Nat /\ executed + slots + Cardinality(Busy) = MaxJobs
  <2>1. \A v \in Workers : pc[v] # "dead"
    BY <1>1, <1>2
  <2> QED BY <1>1, <1>2, <2>1 DEF SlotInv
<1>4. ASSUME pc[w] = "idle", pc'[w] \notin {"idle", "done"}
      PROVE  Cardinality(Busy') = Cardinality(Busy) + 1
  <2>1. Busy' = Busy \cup {w} /\ w \notin Busy
    BY <1>0, <1>2, <1>4 DEF Busy
  <2> QED BY <1>0, <2>1, FS_AddElement
<1>5. ASSUME pc[w] # "idle", pc'[w] \in {"idle", "done"}
      PROVE  Cardinality(Busy') = Cardinality(Busy) - 1
  <2>1. Busy' = Busy \ {w} /\ w \in Busy
    BY <1>0, <1>2, <1>5 DEF Busy
  <2> QED BY <1>0, <2>1, FS_RemoveElement
<1>6. ASSUME pc[w] \notin {"idle", "done"}, pc'[w] \notin {"idle", "done"}
      PROVE  Busy' = Busy
  BY <1>0, <1>2, <1>6 DEF Busy
<1>7. CASE TakeSlot(w)
  <2>1. CASE slots > 0
    BY <1>0, <1>3, <1>4, <1>7, <2>1 DEF TakeSlot, Unlimited
  <2>2. CASE slots = 0
    <3>1. Busy' = Busy
      BY <1>0, <1>2, <1>7, <2>2 DEF TakeSlot, Busy, Unlimited
    <3> QED BY <1>3, <1>7, <2>2, <3>1 DEF TakeSlot, Unlimited
  <2> QED BY <1>3, <2>1, <2>2
<1>8. CASE SelectNone(w)
  BY <1>0, <1>3, <1>5, <1>8 DEF SelectNone, Unlimited
<1>9. CASE MarkQuarantined(w) \/ MarkResult(w)
  BY <1>0, <1>3, <1>5, <1>9 DEF MarkQuarantined, MarkResult
<1>10. CASE \/ RefreshRead(w) \/ RefreshWrite(w) \/ Select(w) \/ Lease(w)
            \/ CheckQuarantine(w) \/ MarkRunning(w) \/ RunJob(w) \/ RecordTimeout(w)
  BY <1>0, <1>3, <1>6, <1>10 DEF RefreshRead, RefreshWrite, Select, Lease, CheckQuarantine,
           MarkRunning, RunJob, RecordTimeout, process
<1> QED BY <1>7, <1>8, <1>9, <1>10 DEF WorkerStep

LEMMA SlotNext ==
    ASSUME TypeOK, SlotInv, [Next]_vars PROVE SlotInv'
<1> SUFFICES ASSUME MaxJobs # Unlimited PROVE SlotInv'
  BY DEF SlotInv
<1>1. CASE \/ UNCHANGED vars
           \/ \E batch \in Batches : Enqueue(batch)
           \/ \E r \in Runs : CancelJobs(r)
           \/ \E j \in Jobs : LeaseExpires(j)
  BY <1>1 DEF vars, Enqueue, CancelJobs, LeaseExpires, threads, process, SlotInv, Busy
<1>2. CASE StartRun
  <2>1. Busy' = {}
    BY <1>2 DEF StartRun, Busy
  <2> QED BY <1>2, <2>1, FS_EmptySet, BoundTypes DEF StartRun, SlotInv
<1>3. CASE FinishRun \/ AbortRun
  BY <1>3 DEF FinishRun, AbortRun, threads, SlotInv, Busy
<1>4. ASSUME NEW w \in Workers, WorkerStep(w) PROVE SlotInv'
  BY <1>4, SlotWorker
<1>5. ASSUME NEW w \in Workers, WorkerDies(w) PROVE SlotInv'
  <2>1. pc'[w] = "dead" /\ slots' = slots
    BY <1>5 DEF WorkerDies, TypeOK, process
  <2> QED BY <2>1 DEF SlotInv
<1> QED BY <1>1, <1>2, <1>3, <1>4, <1>5 DEF Next

\* No interleaving of take_slot, give_back_slot and the worker loops loses or
\* invents a slot, so a run never executes more than max_jobs jobs.
THEOREM SlotsConserved == Spec => []SlotConservation
<1>1. Init => SlotInv
  BY BoundTypes DEF Init, SlotInv
<1>2. SlotInv => SlotConservation
  BY DEF SlotInv, SlotConservation, Busy
<1> QED BY <1>1, <1>2, SlotNext, TypeCorrect, PTL DEF Spec

\* Both caps on what a run may spend hold for any number of workers, jobs and
\* actions.
THEOREM CapsRespected == Spec => []CapsHold
<1>1. QuarantineOvershoot /\ SlotConservation => CapsHold
  BY DEF CapsHold
<1> QED BY <1>1, OvershootBounded, SlotsConserved, PTL


----------------------------------------------------------------------------
(* What a run that returns has done. *)

\* ORDER BY has a first row whenever there is a row: of the eligible rows take
\* one that the fewest precede.
LEMMA FirstExists == ASSUME TypeOK, FirstEligible = {} PROVE \A j \in Jobs : ~Eligible(j)
<1> SUFFICES ASSUME NEW e \in Jobs, Eligible(e) PROVE FALSE
  OBVIOUS
<1> DEFINE E == {j \in Jobs : Eligible(j)}
           Before(j) == {k \in E : Precedes(k, j)}
           Sizes == {Cardinality(Before(j)) : j \in E}
<1>1. IsFiniteSet(E)
  BY ConstantTypes, FS_Subset
<1>2. \A j \in E : IsFiniteSet(Before(j)) /\ Cardinality(Before(j)) \in Nat
  BY <1>1, SubsetCardinality
<1>3. Sizes \subseteq Nat /\ Sizes # {}
  BY <1>2
<1>4. PICK n \in Sizes : \A m \in Sizes : ~(m < n)
  <2>1. \E n \in Sizes : \A m \in Sizes : ~(<<m, n>> \in OpToRel(<, Nat))
    BY <1>3, NatLessThanWellFounded, WFMin
  <2>2. \A m, n \in Nat : m < n => <<m, n>> \in OpToRel(<, Nat)
    BY DEF OpToRel
  <2> QED BY <1>3, <2>1, <2>2
<1>5. PICK j \in E : n = Cardinality(Before(j))
  BY <1>4
<1>6. PICK k \in E : Precedes(k, j)
  BY <1>5 DEF FirstEligible
<1>7. /\ \A i \in Jobs : Priority[i] \in Int /\ created[i] \in Int
      /\ \A i \in Jobs : Precedes(i, k) => Precedes(i, j)
      /\ ~Precedes(k, k)
  BY <1>5, <1>6, ConstantTypes DEF Precedes, TypeOK
<1>8. k \in Before(j) /\ Before(k) \subseteq Before(j) \ {k}
  BY <1>6, <1>7
<1>9. Cardinality(Before(k)) + 1 <= Cardinality(Before(j))
  BY <1>2, <1>5, <1>8, DropCardinality
<1>10. Cardinality(Before(k)) \in Sizes /\ Cardinality(Before(k)) \in Nat
       /\ Cardinality(Before(j)) \in Nat
  BY <1>2, <1>5, <1>6
<1> HIDE DEF Sizes, Before, E
<1> QED BY <1>4, <1>5, <1>9, <1>10

\* mark_job_result writes status and result together.
ResultsKept == \A j \in Jobs : status[j] \in Settled => result[j] # "none"

\* The rows a run was asked for are in the table; without max_jobs no slot is
\* ever refused; and when the last worker has left, with its SELECT empty,
\* nothing is left to do for the rows asked for.
Attended(j) ==
    \/ LaneOf[j] \notin LaneSet
    \/ status[j] = "cancelled"
    \/ status[j] \in {"leased", "running"} /\ j \in abandoned
    \/ status[j] \in Settled /\ (status[j] = "failed" => attempts[j] >= MaxAttempts)

CompleteInv ==
    /\ \A j \in asked : Present(j) /\ RunOf[j] = OwnRun
    /\ MaxJobs = Unlimited => slots = Unlimited
    /\ (phase = "running" /\ MaxJobs = Unlimited /\ ContinueOnTimeout
        /\ \A w \in Workers : pc[w] = "done") => \A j \in asked : Attended(j)
    /\ RunComplete

LEMMA ResultsNext == ASSUME TypeOK, ResultsKept, [Next]_vars PROVE ResultsKept'
<1> USE DEF ResultsKept, Settled
<1>1. CASE UNCHANGED vars
  BY <1>1 DEF vars, rows
<1>2. ASSUME NEW batch \in Batches, Enqueue(batch) PROVE ResultsKept'
  BY <1>2 DEF Enqueue
<1>3. ASSUME NEW r \in Runs, CancelJobs(r) PROVE ResultsKept'
  BY <1>3 DEF CancelJobs
<1>4. CASE \/ \E j \in Jobs : LeaseExpires(j)
           \/ StartRun \/ FinishRun \/ AbortRun
  BY <1>4 DEF LeaseExpires, StartRun, FinishRun, AbortRun, rows
<1>5. ASSUME NEW w \in Workers, WorkerStep(w) \/ WorkerDies(w) PROVE ResultsKept'
  <2> USE DEF TypeOK, rows
  <2>1. CASE TakeSlot(w) \/ RefreshRead(w) \/ RefreshWrite(w) \/ Select(w) \/ SelectNone(w)
             \/ CheckQuarantine(w) \/ RunJob(w) \/ RecordTimeout(w) \/ WorkerDies(w)
    BY <2>1 DEF TakeSlot, RefreshRead, RefreshWrite, Select, SelectNone, CheckQuarantine,
                RunJob, RecordTimeout, WorkerDies
  <2>2. CASE Lease(w) \/ MarkRunning(w)
    BY <2>2 DEF Lease, MarkRunning
  <2>3. CASE MarkQuarantined(w)
    BY <2>3 DEF MarkQuarantined
  <2>4. CASE MarkResult(w)
    BY <2>4 DEF MarkResult, Goto
  <2> QED BY <1>5, <2>1, <2>2, <2>3, <2>4 DEF WorkerStep
<1> QED BY <1>1, <1>2, <1>3, <1>4, <1>5 DEF Next

\* materialize_queue_results has a row for every pair that is settled.
LEMMA OutputCovers ==
    ASSUME ResultsKept, NEW S \in Materialized, NEW j \in Jobs,
           RunOf[j] = OwnRun, status[j] \in Settled
    PROVE  \E k \in S : StateOf[k] = StateOf[j] /\ ActionOf[k] = ActionOf[j]
BY DEF Materialized, ResultsKept

LEMMA CompleteProcess ==
    ASSUME TypeOK, ResultsKept, CompleteInv, StartRun \/ FinishRun \/ AbortRun
    PROVE  CompleteInv'
<1>1. CASE StartRun
  BY <1>1, ConstantTypes DEF StartRun, rows, CompleteInv, Present, RunComplete
<1>2. CASE AbortRun
  BY <1>2 DEF AbortRun, rows, CompleteInv, Present, RunComplete, threads
<1>3. CASE FinishRun
  <2>1. /\ phase = "running" /\ phase' = "materialized"
        /\ \A w \in Workers : pc[w] = "done"
        /\ output' \in Materialized
        /\ UNCHANGED <<status, attempts, slots, asked, abandoned>>
    BY <1>3 DEF FinishRun, rows, counters
  <2>2. ASSUME MaxJobs = Unlimited, ContinueOnTimeout, NEW j \in asked
        PROVE  Attended(j) /\ (status[j] \in Settled =>
                   \E k \in output' : StateOf[k] = StateOf[j] /\ ActionOf[k] = ActionOf[j])
    BY <2>1, <2>2, OutputCovers DEF CompleteInv, TypeOK
  <2>3. RunComplete'
    <3> SUFFICES ASSUME MaxJobs = Unlimited, ContinueOnTimeout, NEW j \in asked
                 PROVE  \/ LaneOf[j] \notin LaneSet
                        \/ status[j] = "cancelled"
                        \/ status[j] \in {"leased", "running"} /\ j \in abandoned
                        \/ /\ status[j] \in Settled
                           /\ status[j] = "failed" => attempts[j] >= MaxAttempts
                           /\ \E k \in output' : /\ StateOf[k] = StateOf[j]
                                                 /\ ActionOf[k] = ActionOf[j]
      BY <2>1 DEF RunComplete
    <3> QED BY <2>2 DEF Attended
  <2> QED BY <2>1, <2>3 DEF CompleteInv, Present
<1> QED BY <1>1, <1>2, <1>3

\* Between the invocations, and while the workers run, others touch the rows
\* asked for only by cancelling them or by letting a lease lapse.
LEMMA CompleteTable ==
    ASSUME TypeOK, CompleteInv,
           UNCHANGED <<threads, process, attempts, abandoned>>,
           \A j \in asked : status'[j] = status[j] \/ status'[j] = "cancelled",
           \A j \in Jobs : status[j] # "absent" => status'[j] # "absent"
    PROVE  CompleteInv'
<1>0. UNCHANGED <<pc, phase, slots, asked, output>> /\ asked \subseteq Jobs
  BY DEF threads, process, TypeOK
<1>1. \A j \in asked : Attended(j) => Attended(j)'
  BY <1>0 DEF Attended
<1>2. RunComplete'
  BY <1>0 DEF CompleteInv, RunComplete
<1> QED BY <1>0, <1>1, <1>2 DEF CompleteInv, Present

\* While the workers run, only the last of them to leave can owe an account.
LEMMA CompleteWorker ==
    ASSUME TypeOK, NoStrandedRow, CompleteInv, NEW w \in Workers,
           WorkerStep(w) \/ WorkerDies(w)
    PROVE  CompleteInv'
<1>1. /\ pc[w] \notin {"done", "dead"} /\ phase = "running" /\ phase' = phase
      /\ asked' = asked /\ pc \in [Workers -> PCs] /\ asked \subseteq Jobs
  BY DEF WorkerStep, WorkerDies, TakeSlot, RefreshRead, RefreshWrite, Select, SelectNone, Lease,
         CheckQuarantine, MarkQuarantined, MarkRunning, RunJob, RecordTimeout,
         MarkResult, process, Goto, TypeOK
<1>2. RunComplete'
  BY <1>1 DEF RunComplete
<1>3. MaxJobs = Unlimited => slots' = Unlimited
  BY DEF WorkerStep, WorkerDies, TakeSlot, RefreshRead, RefreshWrite, Select, SelectNone, Lease,
         CheckQuarantine, MarkQuarantined, MarkRunning, RunJob, RecordTimeout,
         MarkResult, process, CompleteInv, Unlimited
<1>4. \A j \in Jobs : status[j] # "absent" => status'[j] # "absent"
  <2> USE TypeShapes DEF rows
  <2>1. CASE TakeSlot(w) \/ RefreshRead(w) \/ RefreshWrite(w) \/ Select(w) \/ SelectNone(w)
             \/ CheckQuarantine(w) \/ RunJob(w) \/ RecordTimeout(w) \/ WorkerDies(w)
    BY <2>1 DEF TakeSlot, RefreshRead, RefreshWrite, Select, SelectNone, CheckQuarantine,
                RunJob, RecordTimeout, WorkerDies
  <2>2. CASE Lease(w) \/ MarkQuarantined(w) \/ MarkRunning(w)
    BY <2>2 DEF Lease, MarkQuarantined, MarkRunning
  <2>3. CASE MarkResult(w)
    BY <2>3 DEF MarkResult, Goto
  <2> QED BY <2>1, <2>2, <2>3 DEF WorkerStep
<1>5. ASSUME MaxJobs = Unlimited, ContinueOnTimeout, \A v \in Workers : pc'[v] = "done"
      PROVE  SelectNone(w)
  <2>1. pc'[w] = "done"
    BY <1>5
  <2> QED BY <1>1, <1>5, <2>1
          DEF WorkerStep, WorkerDies, TakeSlot, RefreshRead, RefreshWrite, Select, Lease,
              CheckQuarantine, MarkQuarantined, MarkRunning, RunJob, RecordTimeout,
              MarkResult, Goto, CompleteInv, Unlimited
<1>6. ASSUME MaxJobs = Unlimited, ContinueOnTimeout, \A v \in Workers : pc'[v] = "done",
             NEW j \in asked
      PROVE  Attended(j)'
  <2>1. SelectNone(w)
    BY <1>5, <1>6
  <2>2. pc[w] = "refreshed" /\ \A v \in Workers \ {w} : pc[v] = "done"
    BY <1>1, <1>6, <2>1 DEF SelectNone, Goto
  <2>3. ~Eligible(j) /\ j \in Jobs /\ status[j] \in JobStatuses
    BY <1>1, <2>1, FirstExists DEF SelectNone, CompleteInv, Present, TypeOK
  <2>4. status[j] \in {"leased", "running"} => j \in abandoned
    BY <2>2, <2>3 DEF NoStrandedRow, Owning, Holding
  <2>5. UNCHANGED <<status, attempts, abandoned>>
    BY <2>1 DEF SelectNone, rows, counters
  <2>6. attempts[j] \in Nat /\ MaxAttempts \in Nat
    BY <2>3, BoundTypes DEF TypeOK
  <2>7. Attended(j)
    BY <2>3, <2>4, <2>6 DEF Attended, Eligible, Leasable, JobStatuses, Settled
  <2> QED BY <2>5, <2>7 DEF Attended
<1> QED BY <1>1, <1>2, <1>3, <1>4, <1>6 DEF CompleteInv, Present

LEMMA CompleteNext ==
    ASSUME TypeOK, NoStrandedRow, ResultsKept, CompleteInv, [Next]_vars PROVE CompleteInv'
<1>1. CASE UNCHANGED vars
  BY <1>1, CompleteTable DEF vars, rows, counters
<1>2. ASSUME NEW batch \in Batches, Enqueue(batch) PROVE CompleteInv'
  <2>1. /\ UNCHANGED <<threads, process, attempts, abandoned>>
        /\ \A j \in Jobs : status[j] # "absent" => status'[j] = status[j]
        /\ asked \subseteq Jobs
    BY <1>2 DEF Enqueue, Present, TypeOK
  <2> QED BY <2>1, CompleteTable DEF CompleteInv, Present
<1>3. ASSUME NEW r \in Runs, CancelJobs(r) PROVE CompleteInv'
  <2>1. /\ UNCHANGED <<threads, process, attempts, abandoned>>
        /\ \A j \in Jobs : status'[j] = status[j] \/ status'[j] = "cancelled"
        /\ asked \subseteq Jobs
    BY <1>3 DEF CancelJobs, TypeOK
  <2> QED BY <2>1, CompleteTable
<1>4. ASSUME NEW j \in Jobs, LeaseExpires(j) PROVE CompleteInv'
  BY <1>4, CompleteTable DEF LeaseExpires, counters
<1> QED BY <1>1, <1>2, <1>3, <1>4, CompleteProcess, CompleteWorker DEF Next

\* A supervisor that returns, uncapped and continuing on timeouts, has settled
\* and put into its output every row it was asked for, whatever the other
\* workers, runs and lapsed leases did: the last worker to leave found no
\* eligible row, nobody had a row in hand then, and rows that still read leased
\* or running belong to the dead.
THEOREM RunsAreComplete == Spec => []RunComplete
<1>1. Init => ResultsKept /\ CompleteInv
  BY DEF Init, ResultsKept, Settled, CompleteInv, RunComplete
<1>2. CompleteInv => RunComplete
  BY DEF CompleteInv
<1>3. Spec => []ResultsKept
  BY <1>1, ResultsNext, TypeCorrect, PTL DEF Spec
<1> QED BY <1>1, <1>2, <1>3, CompleteNext, TypeCorrect, NeverStranded, PTL DEF Spec

----------------------------------------------------------------------------
(* What a step may never do to a row. *)

\* What a worker's step writes, it writes to the row it has in hand.
LEMMA WritesInHand ==
    ASSUME TypeOK, NEW w \in Workers, WorkerStep(w) \/ WorkerDies(w), NEW j \in Jobs,
           status'[j] # status[j] \/ result'[j] # result[j]
    PROVE  pc[w] \in Holding /\ job[w] = j
<1> USE TypeShapes DEF rows, Goto, Holding
<1>1. CASE TakeSlot(w) \/ RefreshRead(w) \/ RefreshWrite(w) \/ Select(w) \/ SelectNone(w)
           \/ CheckQuarantine(w) \/ RunJob(w) \/ RecordTimeout(w) \/ WorkerDies(w)
  BY <1>1 DEF TakeSlot, RefreshRead, RefreshWrite, Select, SelectNone, CheckQuarantine,
              RunJob, RecordTimeout, WorkerDies
<1>2. CASE Lease(w)
  BY <1>2 DEF Lease, TypeOK
<1>3. CASE MarkQuarantined(w)
  BY <1>3 DEF MarkQuarantined, TypeOK
<1>4. CASE MarkRunning(w)
  BY <1>4 DEF MarkRunning, TypeOK
<1>5. CASE MarkResult(w)
  BY <1>5 DEF MarkResult, TypeOK
<1> QED BY <1>1, <1>2, <1>3, <1>4, <1>5 DEF WorkerStep

\* A worker takes no row in hand but one that lease_next_job may return.
LEMMA TakesLeasable ==
    ASSUME TypeOK, NEW w \in Workers, WorkerStep(w) \/ WorkerDies(w),
           NEW v \in Workers, NEW j \in Jobs, job'[v] = j, job[v] # j
    PROVE  v = w /\ Leasable(j) /\ UNCHANGED rows
<1>0. job \in [Workers -> Jobs \cup {NoJob}] /\ NoJob \notin Jobs
  BY ConstantTypes DEF TypeOK
<1>1. CASE Select(w)
  BY <1>0, <1>1 DEF Select, FirstEligible, Eligible
<1>2. CASE ~Select(w)
  <2>1. job' = job \/ job' = [job EXCEPT ![w] = NoJob]
    BY <1>2 DEF WorkerStep, WorkerDies, TakeSlot, RefreshRead, RefreshWrite, SelectNone, Lease,
           CheckQuarantine, MarkQuarantined, MarkRunning, RunJob, RecordTimeout, MarkResult
  <2> QED BY <1>0, <2>1
<1> QED BY <1>1, <1>2

\* cancel_jobs is final for a row that nobody has in hand: no SELECT returns a
\* cancelled row, and only the workers that had it may still write it.
THEOREM CancelIsFinal == Spec => CancelStopsUnheldJobs
<1>1. TypeOK /\ [Next]_vars =>
        [\A j \in Jobs : status[j] = "cancelled" =>
          /\ status'[j] # "cancelled" => \E w \in Workers : pc[w] \in Holding /\ job[w] = j
          /\ \A w \in Workers : job'[w] = j => job[w] = j]_vars
  <2> SUFFICES ASSUME TypeOK, Next, NEW j \in Jobs, status[j] = "cancelled"
               PROVE  /\ status'[j] # "cancelled" =>
                            \E w \in Workers : pc[w] \in Holding /\ job[w] = j
                      /\ \A w \in Workers : job'[w] = j => job[w] = j
    OBVIOUS
  <2>1. ASSUME NEW batch \in Batches, Enqueue(batch) PROVE status'[j] = status[j] /\ job' = job
    BY <2>1 DEF Enqueue, Present, threads
  <2>2. ASSUME NEW r \in Runs, CancelJobs(r) PROVE status'[j] = status[j] /\ job' = job
    BY <2>2 DEF CancelJobs, threads
  <2>3. ASSUME \/ \E k \in Jobs : LeaseExpires(k)
               \/ StartRun \/ FinishRun \/ AbortRun
        PROVE  status'[j] = status[j] /\ job' = job
    BY <2>3 DEF LeaseExpires, StartRun, FinishRun, AbortRun, rows, threads
  <2>4. ASSUME NEW w \in Workers, WorkerStep(w) \/ WorkerDies(w)
        PROVE  /\ status'[j] # "cancelled" =>
                     \E v \in Workers : pc[v] \in Holding /\ job[v] = j
               /\ \A v \in Workers : job'[v] = j => job[v] = j
    BY <2>4, WritesInHand, TakesLeasable DEF Leasable
  <2> QED BY <2>1, <2>2, <2>3, <2>4 DEF Next
<1> QED BY <1>1, TypeCorrect, PTL DEF Spec, CancelStopsUnheldJobs

\* A verdict other than failed is final for a row that nobody has in hand, for
\* any number of workers: no SELECT returns it, and only the workers that had
\* it before may still write it.
THEOREM VerdictsStand == Spec => VerdictIsFinal
<1>1. TypeOK /\ [Next]_vars =>
        [\A j \in Jobs : status[j] \in Settled \ {"failed"} =>
          /\ <<status'[j], result'[j]>> # <<status[j], result[j]>> =>
                \E w \in Workers : pc[w] \in Holding /\ job[w] = j
          /\ \A w \in Workers : job'[w] = j => job[w] = j]_vars
  <2> SUFFICES ASSUME TypeOK, Next, NEW j \in Jobs, status[j] \in Settled \ {"failed"}
               PROVE  /\ status'[j] # status[j] \/ result'[j] # result[j] =>
                            \E w \in Workers : pc[w] \in Holding /\ job[w] = j
                      /\ \A w \in Workers : job'[w] = j => job[w] = j
    OBVIOUS
  <2>1. ASSUME NEW batch \in Batches, Enqueue(batch)
        PROVE  status'[j] = status[j] /\ result'[j] = result[j] /\ job' = job
    BY <2>1 DEF Enqueue, Present, Settled, threads
  <2>2. ASSUME NEW r \in Runs, CancelJobs(r)
        PROVE  status'[j] = status[j] /\ result'[j] = result[j] /\ job' = job
    BY <2>2 DEF CancelJobs, Settled, threads
  <2>3. ASSUME \/ \E k \in Jobs : LeaseExpires(k)
               \/ StartRun \/ FinishRun \/ AbortRun
        PROVE  status'[j] = status[j] /\ result'[j] = result[j] /\ job' = job
    BY <2>3 DEF LeaseExpires, StartRun, FinishRun, AbortRun, rows, threads
  <2>4. ASSUME NEW w \in Workers, WorkerStep(w) \/ WorkerDies(w)
        PROVE  /\ status'[j] # status[j] \/ result'[j] # result[j] =>
                     \E v \in Workers : pc[v] \in Holding /\ job[v] = j
               /\ \A v \in Workers : job'[v] = j => job[v] = j
    BY <2>4, WritesInHand, TakesLeasable DEF Leasable, Settled
  <2> QED BY <2>1, <2>2, <2>3, <2>4 DEF Next
<1> QED BY <1>1, TypeCorrect, PTL DEF Spec, VerdictIsFinal

\* With one worker, the row it has in hand is one that nobody has settled:
\* until its UPDATE the row is as the SELECT found it, and afterwards it reads
\* leased or running.
UnsettledInHand ==
    \A w \in Workers :
        /\ pc[w] \in Owning => status[job[w]] \in {"leased", "running"}
        /\ pc[w] = "selected" => status[job[w]] \in {"queued", "leased", "running", "failed"}

LEMMA UnsettledNext ==
    ASSUME TypeOK, UnsettledInHand, Cardinality(Workers) = 1, MaxCancels = 0, [Next]_vars
    PROVE  UnsettledInHand'
<1>0. \A w, v \in Workers : w = v
  BY ConstantTypes, FS_Singleton
<1> USE DEF UnsettledInHand, TypeOK, Owning, Holding
<1>1. CASE UNCHANGED vars
  BY <1>1 DEF vars, rows, threads
<1>2. ASSUME NEW batch \in Batches, Enqueue(batch) PROVE UnsettledInHand'
  BY <1>2 DEF Enqueue, Present, threads
<1>3. ASSUME NEW r \in Runs, CancelJobs(r) PROVE FALSE
  BY <1>3 DEF CancelJobs
<1>4. CASE \/ \E k \in Jobs : LeaseExpires(k)
           \/ FinishRun \/ AbortRun
  BY <1>4 DEF LeaseExpires, FinishRun, AbortRun, rows, threads
<1>5. CASE StartRun
  BY <1>5 DEF StartRun
<1>6. ASSUME NEW w \in Workers, WorkerStep(w) \/ WorkerDies(w) PROVE UnsettledInHand'
  <2> SUFFICES /\ pc'[w] \in Owning => status'[job'[w]] \in {"leased", "running"}
               /\ pc'[w] = "selected" =>
                     status'[job'[w]] \in {"queued", "leased", "running", "failed"}
    BY <1>0
  <2> USE DEF Goto, rows
  <2>1. CASE TakeSlot(w) \/ RefreshRead(w) \/ RefreshWrite(w) \/ SelectNone(w)
    BY <2>1 DEF TakeSlot, RefreshRead, RefreshWrite, SelectNone
  <2>2. CASE Select(w)
    BY <2>2 DEF Select, FirstEligible, Eligible, Leasable
  <2>3. CASE Lease(w)
    BY <2>3 DEF Lease
  <2>4. CASE CheckQuarantine(w)
    BY <2>4 DEF CheckQuarantine
  <2>5. CASE MarkQuarantined(w)
    BY <2>5 DEF MarkQuarantined
  <2>6. CASE MarkRunning(w)
    BY <2>6 DEF MarkRunning
  <2>7. CASE RunJob(w)
    BY <2>7 DEF RunJob
  <2>8. CASE RecordTimeout(w)
    BY <2>8 DEF RecordTimeout
  <2>9. CASE MarkResult(w)
    BY <2>9 DEF MarkResult
  <2>10. CASE WorkerDies(w)
    BY <2>10 DEF WorkerDies
  <2> QED BY <1>6, <2>1, <2>2, <2>3, <2>4, <2>5, <2>6, <2>7, <2>8, <2>9, <2>10 DEF WorkerStep
<1> QED BY <1>1, <1>2, <1>3, <1>4, <1>5, <1>6 DEF Next

\* Nothing touches a row with a verdict.
Untouched ==
    [][\A j \in Jobs :
          status[j] \in (Settled \ {"failed"}) \cup {"cancelled"}
              => status'[j] = status[j] /\ result'[j] = result[j]]_vars

\* With one worker and without cancel_jobs a verdict stands as it is through
\* deaths, lapsed leases and restarts, for any number of jobs and attempts:
\* the worker never has a row with a verdict in hand.
THEOREM VerdictsStandAlone ==
    Cardinality(Workers) = 1 /\ MaxCancels = 0 => (Spec => Untouched)
<1> SUFFICES ASSUME Cardinality(Workers) = 1, MaxCancels = 0 PROVE Spec => Untouched
  OBVIOUS
<1>1. Init => UnsettledInHand
  BY DEF Init, UnsettledInHand, Owning, Holding
<1>2. TypeOK /\ UnsettledInHand /\ [Next]_vars => UnsettledInHand'
  BY UnsettledNext
<1>3. TypeOK /\ UnsettledInHand /\ [Next]_vars =>
        [\A j \in Jobs :
          status[j] \in (Settled \ {"failed"}) \cup {"cancelled"}
              => status'[j] = status[j] /\ result'[j] = result[j]]_vars
  <2> SUFFICES ASSUME TypeOK, UnsettledInHand, Next, NEW j \in Jobs,
                      status[j] \in (Settled \ {"failed"}) \cup {"cancelled"}
               PROVE  status'[j] = status[j] /\ result'[j] = result[j]
    OBVIOUS
  <2>1. ASSUME NEW batch \in Batches, Enqueue(batch)
        PROVE  status'[j] = status[j] /\ result'[j] = result[j]
    BY <2>1 DEF Enqueue, Present, Settled
  <2>2. ASSUME NEW r \in Runs, CancelJobs(r) PROVE FALSE
    BY <2>2 DEF CancelJobs, TypeOK
  <2>3. ASSUME \/ \E k \in Jobs : LeaseExpires(k)
               \/ StartRun \/ FinishRun \/ AbortRun
        PROVE  status'[j] = status[j] /\ result'[j] = result[j]
    BY <2>3 DEF LeaseExpires, StartRun, FinishRun, AbortRun, rows
  <2>4. ASSUME NEW w \in Workers, WorkerStep(w) \/ WorkerDies(w)
        PROVE  status'[j] = status[j] /\ result'[j] = result[j]
    BY <2>4, WritesInHand DEF UnsettledInHand, Owning, Settled
  <2> QED BY <2>1, <2>2, <2>3, <2>4 DEF Next
<1> QED BY <1>1, <1>2, <1>3, TypeCorrect, PTL DEF Spec, Untouched

----------------------------------------------------------------------------
(* The bulk runner on the same table. *)

\* The runner's own variables, and which rows its loops may still visit: the
\* marking and the writing loop run over its chunks.
BulkTypes ==
    /\ bpc \in BulkPCs /\ bfound \subseteq Actions
    /\ todo \subseteq Jobs /\ mine \subseteq Jobs
    /\ noted \in Jobs \cup {NoJob} /\ boutput \subseteq Jobs /\ bulkRuns \in Nat
    /\ verdict \in [Jobs -> {"none", "succeeded", "failed", "timeout"}]
    /\ bpc \in {"off", "refresh", "read", "select", "returned", "raised"} =>
          mine = {} /\ todo = {}
    /\ bpc \in {"run", "finish"} => todo = {}
    /\ bpc \in {"mark", "write"} => todo \subseteq mine
    /\ bpc = "write" => \A j \in mine : verdict[j] # "none"

LEMMA BulkTypeInit == BInit => TypeOK /\ BulkTypes
BY TypeInit DEF BInit, BulkTypes, BulkPCs

LEMMA BulkTypesNext ==
    ASSUME TypeOK, BulkTypes, BulkStart \/ BulkStep \/ BulkDies PROVE BulkTypes'
<1> USE DEF BulkTypes, BulkPCs
<1>1. CASE BulkStart
  BY <1>1 DEF BulkStart
<1>2. CASE BulkRefreshRead \/ BulkRefreshWrite
  BY <1>2 DEF BulkRefreshRead, BulkRefreshWrite, OverThreshold
<1>3. CASE BulkSelect
  BY <1>3 DEF BulkSelect
<1>4. ASSUME NEW j \in Jobs, BulkScreen(j) PROVE BulkTypes'
  BY <1>4 DEF BulkScreen
<1>5. CASE BulkScreened \/ BulkMarked
  BY <1>5 DEF BulkScreened, BulkMarked
<1>6. ASSUME NEW j \in Jobs, BulkMarkRunning(j) PROVE BulkTypes'
  BY <1>6 DEF BulkMarkRunning
<1>7. CASE BulkRun
  <2>1. PICK v \in [mine -> {"succeeded", "failed", "timeout"}] :
           verdict' = [j \in Jobs |-> IF j \in mine THEN v[j] ELSE "none"]
    BY <1>7 DEF BulkRun
  <2>2. \A j \in mine : v[j] \in {"succeeded", "failed", "timeout"} /\ j \in Jobs
    BY <2>1
  <2>3. /\ verdict' \in [Jobs -> {"none", "succeeded", "failed", "timeout"}]
        /\ \A j \in mine : verdict'[j] # "none"
    BY <2>1, <2>2
  <2> QED BY <1>7, <2>3 DEF BulkRun
<1>8. ASSUME NEW j \in Jobs, BulkRecordTimeout(j) PROVE BulkTypes'
  BY <1>8 DEF BulkRecordTimeout
<1>9. ASSUME NEW j \in Jobs, BulkMarkResult(j) PROVE BulkTypes'
  BY <1>9 DEF BulkMarkResult
<1>10. CASE BulkWritten
  BY <1>10 DEF BulkWritten
<1>11. CASE BulkFinish
  <2>1. boutput' \subseteq Jobs
    BY <1>11 DEF BulkFinish, Materialized
  <2> QED BY <1>11, <2>1 DEF BulkFinish
<1>12. CASE BulkDies
  BY <1>12 DEF BulkDies
<1> QED BY <1>1, <1>2, <1>3, <1>4, <1>5, <1>6, <1>7, <1>8, <1>9, <1>10, <1>11, <1>12 DEF BulkStep

\* What the bulk runner's steps do to the table keeps the types of AuditQueue.
LEMMA BulkKeepsTypeOK ==
    ASSUME TypeOK, BulkTypes, BulkStart \/ BulkStep \/ BulkDies PROVE TypeOK'
<1> USE ConstantTypes DEF rows, ledger, threads, process, counters
<1>1. ASSUME UNCHANGED vars PROVE TypeOK'
  BY <1>1 DEF TypeOK, vars
<1>2. CASE BulkStart \/ BulkRefreshRead \/ BulkScreened \/ BulkMarked \/ BulkRun \/ BulkWritten
  BY <1>1, <1>2 DEF BulkStart, BulkRefreshRead, BulkScreened, BulkMarked, BulkRun, BulkWritten
<1>3. CASE BulkRefreshWrite
  BY <1>3 DEF BulkRefreshWrite, TypeOK, BulkTypes, OnProbation
<1>4. CASE BulkSelect
  <2>1. reclaims' \in [Jobs -> Nat]
    BY <1>4 DEF BulkSelect, TypeOK
  <2> QED BY <1>4, <2>1 DEF BulkSelect, TypeOK
<1>5. ASSUME NEW j \in Jobs, BulkScreen(j) PROVE TypeOK'
  <2>1. /\ status' \in [Jobs -> JobStatuses \cup {"absent"}]
        /\ lease' \in [Jobs -> {"null", "live", "lapsed"}]
        /\ result' \in [Jobs -> Settled \cup {"none"}]
    BY <1>5 DEF BulkScreen, TypeOK, JobStatuses, Settled
  <2> QED BY <1>5, <2>1 DEF BulkScreen, TypeOK
<1>6. ASSUME NEW j \in Jobs, BulkMarkRunning(j) PROVE TypeOK'
  <2>1. /\ status' \in [Jobs -> JobStatuses \cup {"absent"}]
        /\ attempts' \in [Jobs -> Nat]
    BY <1>6 DEF BulkMarkRunning, TypeOK, JobStatuses
  <2> QED BY <1>6, <2>1 DEF BulkMarkRunning, TypeOK
<1>7. ASSUME NEW j \in Jobs, BulkRecordTimeout(j) PROVE TypeOK'
  <2>1. events' \subseteq Jobs \X Scopes
    BY <1>7 DEF BulkRecordTimeout, BulkScope, Scopes, TypeOK
  <2> QED BY <1>7, <2>1 DEF BulkRecordTimeout, TypeOK
<1>8. ASSUME NEW j \in Jobs, BulkMarkResult(j) PROVE TypeOK'
  <2>0. verdict[j] \in {"succeeded", "failed", "timeout"}
    BY <1>8 DEF BulkMarkResult, BulkTypes
  <2>1. /\ status' \in [Jobs -> JobStatuses \cup {"absent"}]
        /\ lease' \in [Jobs -> {"null", "live", "lapsed"}]
        /\ result' \in [Jobs -> Settled \cup {"none"}]
    BY <1>8, <2>0 DEF BulkMarkResult, TypeOK, JobStatuses, Settled
  <2> QED BY <1>8, <2>1 DEF BulkMarkResult, TypeOK
<1>9. CASE BulkFinish
  BY <1>9 DEF BulkFinish, TypeOK, OverThreshold, OnProbation
<1>10. CASE BulkDies
  BY <1>10 DEF BulkDies, TypeOK, BulkTypes
<1> QED BY <1>2, <1>3, <1>4, <1>5, <1>6, <1>7, <1>8, <1>9, <1>10 DEF BulkStep

LEMMA BulkTypeNext ==
    ASSUME TypeOK, BulkTypes, [BNext]_bvars PROVE TypeOK' /\ BulkTypes'
<1>1. CASE UNCHANGED bvars \/ (Next /\ UNCHANGED bulk)
  <2>1. [Next]_vars /\ UNCHANGED bulk
    BY <1>1 DEF bvars
  <2> QED BY <2>1, TypeNext DEF bulk, BulkTypes
<1>2. CASE BulkStart \/ BulkStep \/ BulkDies
  BY <1>2, BulkTypesNext, BulkKeepsTypeOK
<1> QED BY <1>1, <1>2 DEF BNext

LEMMA BulkTyped == BSpec => [](TypeOK /\ BulkTypes)
BY BulkTypeInit, BulkTypeNext, PTL DEF BSpec

\* With the bulk runner a row that reads leased or running has one more possible
\* holder; the steps of the workers are the ones NeverStranded looks at.
LEMMA BulkStrandedWorkers ==
    ASSUME TypeOK, NoStrandedBulkRow, Next, UNCHANGED bulk PROVE NoStrandedBulkRow'
<1> USE DEF TypeOK, NoStrandedBulkRow, Held, Owning, Holding, bulk
<1>2. ASSUME NEW batch \in Batches, Enqueue(batch) PROVE NoStrandedBulkRow'
  BY <1>2 DEF Enqueue, threads
<1>3. ASSUME NEW r \in Runs, CancelJobs(r) PROVE NoStrandedBulkRow'
  BY <1>3 DEF CancelJobs, threads
<1>4. CASE \/ \E j \in Jobs : LeaseExpires(j)
           \/ FinishRun \/ AbortRun
  BY <1>4 DEF LeaseExpires, FinishRun, AbortRun, rows, threads, counters
<1>5. CASE StartRun
  BY <1>5 DEF StartRun, rows
<1>7. ASSUME NEW w \in Workers, WorkerStep(w) PROVE NoStrandedBulkRow'
  <2> USE DEF Goto, rows, counters
  <2>1. CASE TakeSlot(w) \/ RefreshRead(w) \/ RefreshWrite(w) \/ SelectNone(w)
    BY <2>1 DEF TakeSlot, RefreshRead, RefreshWrite, SelectNone
  <2>2. CASE Select(w)
    BY <2>2 DEF Select
  <2>3. CASE Lease(w)
    BY <2>3 DEF Lease
  <2>4. CASE CheckQuarantine(w)
    BY <2>4 DEF CheckQuarantine
  <2>5. CASE MarkQuarantined(w)
    BY <2>5 DEF MarkQuarantined
  <2>6. CASE MarkRunning(w)
    BY <2>6 DEF MarkRunning
  <2>7. CASE RunJob(w)
    BY <2>7 DEF RunJob
  <2>8. CASE RecordTimeout(w)
    BY <2>8 DEF RecordTimeout
  <2>9. CASE MarkResult(w)
    BY <2>9 DEF MarkResult
  <2> QED BY <1>7, <2>1, <2>2, <2>3, <2>4, <2>5, <2>6, <2>7, <2>8, <2>9 DEF WorkerStep
<1>8. ASSUME NEW w \in Workers, WorkerDies(w) PROVE NoStrandedBulkRow'
  BY <1>8 DEF WorkerDies, rows
<1> QED BY <1>2, <1>3, <1>4, <1>5, <1>7, <1>8 DEF Next

LEMMA BulkStrandedRunner ==
    ASSUME TypeOK, BulkTypes, NoStrandedBulkRow, BulkStart \/ BulkStep \/ BulkDies
    PROVE  NoStrandedBulkRow'
<1>0. status \in [Jobs -> JobStatuses \cup {"absent"}] /\ UNCHANGED <<pc, job>>
  BY DEF TypeOK, BulkStart, BulkStep, BulkDies, BulkRefreshRead, BulkRefreshWrite, BulkSelect,
         BulkScreen, BulkScreened, BulkMarkRunning, BulkMarked, BulkRun, BulkRecordTimeout,
         BulkMarkResult, BulkWritten, BulkFinish, vars, threads
<1>1. \A j \in Jobs : Held(j)' <=> Held(j)
  BY <1>0 DEF Held
<1> USE <1>0, <1>1 DEF NoStrandedBulkRow, BulkTypes, vars, rows, counters
<1>2. CASE BulkStart \/ BulkRefreshRead \/ BulkRefreshWrite \/ BulkSelect
  BY <1>2 DEF BulkStart, BulkRefreshRead, BulkRefreshWrite, BulkSelect
<1>3. ASSUME NEW j \in Jobs, BulkScreen(j) PROVE NoStrandedBulkRow'
  BY <1>3 DEF BulkScreen
<1>4. CASE BulkScreened \/ BulkMarked \/ BulkRun \/ BulkWritten \/ BulkFinish
  BY <1>4 DEF BulkScreened, BulkMarked, BulkRun, BulkWritten, BulkFinish
<1>5. ASSUME NEW j \in Jobs, BulkMarkRunning(j) PROVE NoStrandedBulkRow'
  <2>1. j \in mine
    BY <1>5 DEF BulkMarkRunning, Foremost
  <2> QED BY <1>5, <2>1 DEF BulkMarkRunning
<1>6. ASSUME NEW j \in Jobs, BulkRecordTimeout(j) PROVE NoStrandedBulkRow'
  BY <1>6 DEF BulkRecordTimeout
<1>7. ASSUME NEW j \in Jobs, BulkMarkResult(j) PROVE NoStrandedBulkRow'
  BY <1>7 DEF BulkMarkResult
<1>8. CASE BulkDies
  BY <1>8 DEF BulkDies
<1> QED BY <1>2, <1>3, <1>4, <1>5, <1>6, <1>7, <1>8 DEF BulkStep

\* Whatever the two kinds of runners do to each other's rows, for any number of
\* workers, rows, deaths and invocations, no row is left reading leased or
\* running without somebody who will still write it, but for the dead.
THEOREM NeverStrandedBulk == BSpec => []NoStrandedBulkRow
<1>1. BInit => NoStrandedBulkRow
  BY DEF BInit, Init, NoStrandedBulkRow
<1>2. TypeOK /\ BulkTypes /\ NoStrandedBulkRow /\ [BNext]_bvars => NoStrandedBulkRow'
  <2> SUFFICES ASSUME TypeOK, BulkTypes, NoStrandedBulkRow, [BNext]_bvars
               PROVE  NoStrandedBulkRow'
    OBVIOUS
  <2>1. CASE UNCHANGED bvars
    BY <2>1 DEF bvars, vars, bulk, rows, threads, counters, NoStrandedBulkRow, Held
  <2> QED BY <2>1, BulkStrandedWorkers, BulkStrandedRunner DEF BNext
<1> QED BY <1>1, <1>2, BulkTyped, PTL DEF BSpec

----------------------------------------------------------------------------
(* The attempt budget with the bulk runner. *)

\* The bulk runner counts as one more picker from its SELECT until it marks the
\* row running or drops it.
BulkPick(j) ==
    IF (bpc = "screen" /\ j \in todo \cup mine) \/ (bpc = "mark" /\ j \in todo) THEN 1 ELSE 0

BulkBudgetInv ==
    \A j \in Jobs :
        /\ attempts[j] + Cardinality(Pickers(j)) + BulkPick(j)
             <= MaxAttempts + Cardinality(Workers) + reclaims[j]
        /\ status[j] \in {"absent", "queued"} => attempts[j] = 0

\* A step that counts nothing and adds no picker.
LEMMA BulkBudgetQuiet ==
    ASSUME TypeOK, BulkBudgetInv, UNCHANGED <<attempts, reclaims>>,
           \A j \in Jobs : Pickers(j)' \subseteq Pickers(j),
           \A j \in Jobs : BulkPick(j)' <= BulkPick(j),
           \A j \in Jobs : status'[j] \in {"absent", "queued"}
                               => status[j] \in {"absent", "queued"}
    PROVE  BulkBudgetInv'
<1> SUFFICES ASSUME NEW j \in Jobs
             PROVE  /\ attempts'[j] + Cardinality(Pickers(j)') + BulkPick(j)'
                         <= MaxAttempts + Cardinality(Workers) + reclaims'[j]
                    /\ status'[j] \in {"absent", "queued"} => attempts'[j] = 0
  BY DEF BulkBudgetInv
<1>1. /\ Cardinality(Pickers(j)') \in Nat /\ Cardinality(Pickers(j)) \in Nat
      /\ Cardinality(Pickers(j)') <= Cardinality(Pickers(j))
  BY PickersFinite, SubsetCardinality
<1>2. BulkPick(j) \in {0, 1} /\ BulkPick(j)' \in {0, 1}
  BY DEF BulkPick
<1>3. attempts[j] \in Nat /\ reclaims[j] \in Nat /\ MaxAttempts \in Nat
  BY BoundTypes DEF TypeOK
<1> QED BY <1>1, <1>2, <1>3, PickersFinite DEF BulkBudgetInv

LEMMA BulkBudgetSelect ==
    ASSUME TypeOK, BulkBudgetInv, NEW w \in Workers, Select(w), UNCHANGED bulk
    PROVE  BulkBudgetInv'
<1>1. PICK k \in FirstEligible :
        /\ pc[w] = "refreshed" /\ pc' = [pc EXCEPT ![w] = "selected"]
        /\ job' = [job EXCEPT ![w] = k]
        /\ IF status[k] \in {"leased", "running"}
           THEN reclaims' = [reclaims EXCEPT ![k] = @ + 1]
           ELSE UNCHANGED reclaims
        /\ UNCHANGED <<status, attempts>>
  BY DEF Select, Goto, rows
<1>2. k \in Jobs /\ Leasable(k)
  BY <1>1 DEF FirstEligible, Eligible
<1> SUFFICES ASSUME NEW j \in Jobs
             PROVE  /\ attempts'[j] + Cardinality(Pickers(j)') + BulkPick(j)'
                         <= MaxAttempts + Cardinality(Workers) + reclaims'[j]
                    /\ status'[j] \in {"absent", "queued"} => attempts'[j] = 0
  BY DEF BulkBudgetInv
<1>3. /\ attempts[j] \in Nat /\ reclaims[j] \in Nat /\ MaxAttempts \in Nat \ {0}
      /\ attempts'[j] = attempts[j]
  BY <1>1, BoundTypes DEF TypeOK
<1>4. status'[j] \in {"absent", "queued"} => attempts'[j] = 0
  BY <1>1, <1>3 DEF BulkBudgetInv
<1>b. BulkPick(j) \in {0, 1} /\ BulkPick(j)' = BulkPick(j)
  BY DEF BulkPick, bulk
<1>5. CASE j # k
  <2>1. Pickers(j)' \subseteq Pickers(j) /\ reclaims'[j] = reclaims[j]
    BY <1>1, <1>2, <1>5 DEF Pickers, TypeOK
  <2>2. Cardinality(Pickers(j)') <= Cardinality(Pickers(j)) /\ Cardinality(Pickers(j)') \in Nat
    BY <2>1, PickersFinite, SubsetCardinality
  <2> QED BY <1>3, <1>4, <1>b, <2>1, <2>2, PickersFinite DEF BulkBudgetInv
<1>6. CASE j = k /\ status[k] \in {"leased", "running"}
  <2>1. Pickers(j)' \subseteq Pickers(j) \cup {w} /\ reclaims'[j] = reclaims[j] + 1
    BY <1>1, <1>2, <1>6 DEF Pickers, TypeOK
  <2>2. Cardinality(Pickers(j)') <= Cardinality(Pickers(j)) + 1 /\ Cardinality(Pickers(j)') \in Nat
    BY <2>1, PickersFinite, InsertCardinality
  <2> QED BY <1>3, <1>4, <1>b, <2>1, <2>2, PickersFinite DEF BulkBudgetInv
<1>7. CASE j = k /\ status[k] \notin {"leased", "running"}
  <2>1. attempts[j] + 1 <= MaxAttempts /\ reclaims'[j] = reclaims[j]
    BY <1>1, <1>2, <1>3, <1>7 DEF Leasable, BulkBudgetInv
  <2>2. Pickers(j)' \subseteq Workers
    BY DEF Pickers
  <2>3. Cardinality(Pickers(j)') <= Cardinality(Workers) /\ Cardinality(Pickers(j)') \in Nat
    BY <2>2, ConstantTypes, SubsetCardinality
  <2> QED BY <1>3, <1>4, <1>b, <2>1, <2>3, PickersFinite
<1> QED BY <1>5, <1>6, <1>7

LEMMA BulkBudgetMarkRunning ==
    ASSUME TypeOK, BulkBudgetInv, NEW w \in Workers, MarkRunning(w), UNCHANGED bulk
    PROVE  BulkBudgetInv'
<1> SUFFICES ASSUME NEW j \in Jobs
             PROVE  /\ attempts'[j] + Cardinality(Pickers(j)') + BulkPick(j)'
                         <= MaxAttempts + Cardinality(Workers) + reclaims'[j]
                    /\ status'[j] \in {"absent", "queued"} => attempts'[j] = 0
  BY DEF BulkBudgetInv
<1>1. /\ attempts[j] \in Nat /\ reclaims[j] \in Nat /\ MaxAttempts \in Nat
      /\ reclaims'[j] = reclaims[j]
  BY BoundTypes DEF TypeOK, MarkRunning, counters
<1>2. status'[j] \in {"absent", "queued"} => attempts'[j] = 0
  BY DEF MarkRunning, BulkBudgetInv, TypeOK
<1>b. BulkPick(j) \in {0, 1} /\ BulkPick(j)' = BulkPick(j)
  BY DEF BulkPick, bulk
<1>3. CASE j = job[w]
  <2>1. w \in Pickers(j) /\ Pickers(j)' \subseteq Pickers(j) \ {w}
    BY <1>3 DEF MarkRunning, Goto, Pickers, TypeOK
  <2>2. Cardinality(Pickers(j)') + 1 <= Cardinality(Pickers(j)) /\ Cardinality(Pickers(j)') \in Nat
    BY <2>1, PickersFinite, DropCardinality
  <2>3. attempts'[j] = attempts[j] + 1
    BY <1>3 DEF MarkRunning, TypeOK
  <2> QED BY <1>1, <1>2, <1>b, <2>2, <2>3, PickersFinite DEF BulkBudgetInv
<1>4. CASE j # job[w]
  <2>1. Pickers(j)' \subseteq Pickers(j) /\ attempts'[j] = attempts[j]
    BY <1>4 DEF MarkRunning, Goto, Pickers, TypeOK
  <2>2. Cardinality(Pickers(j)') <= Cardinality(Pickers(j)) /\ Cardinality(Pickers(j)') \in Nat
    BY <2>1, PickersFinite, SubsetCardinality
  <2> QED BY <1>1, <1>2, <1>b, <2>1, <2>2, PickersFinite DEF BulkBudgetInv
<1> QED BY <1>3, <1>4

LEMMA BulkBudgetWorkers ==
    ASSUME TypeOK, BulkBudgetInv, [Next]_vars, UNCHANGED bulk PROVE BulkBudgetInv'
<1> DEFINE Quiet == /\ UNCHANGED <<attempts, reclaims>>
                    /\ \A j \in Jobs : Pickers(j)' \subseteq Pickers(j)
                    /\ \A j \in Jobs : status'[j] \in {"absent", "queued"}
                                         => status[j] \in {"absent", "queued"}
<1>0. Quiet => BulkBudgetInv'
  <2>1. \A j \in Jobs : BulkPick(j)' <= BulkPick(j)
    BY DEF BulkPick, bulk
  <2> QED BY <2>1, BulkBudgetQuiet
<1>1. CASE ~\E w \in Workers : Select(w) \/ MarkRunning(w)
  <2>1. Quiet
    BY <1>1, QuietSteps
  <2> QED BY <2>1, <1>0
<1> QED BY <1>1, BulkBudgetSelect, BulkBudgetMarkRunning

\* A step of the bulk runner moves no worker.
LEMMA RunnerMovesNobody ==
    ASSUME BulkStart \/ BulkStep \/ BulkDies
    PROVE  UNCHANGED <<pc, job>> /\ \A j \in Jobs : Pickers(j)' = Pickers(j)
<1>1. UNCHANGED <<pc, job>>
  BY DEF BulkStart, BulkStep, BulkDies, BulkRefreshRead, BulkRefreshWrite, BulkSelect,
         BulkScreen, BulkScreened, BulkMarkRunning, BulkMarked, BulkRun, BulkRecordTimeout,
         BulkMarkResult, BulkWritten, BulkFinish, vars, threads
<1> QED BY <1>1 DEF Pickers

LEMMA BulkBudgetRunner ==
    ASSUME TypeOK, BulkTypes, BulkBudgetInv, BulkStart \/ BulkStep \/ BulkDies
    PROVE  BulkBudgetInv'
<1> DEFINE Quiet == /\ UNCHANGED <<attempts, reclaims>>
                    /\ \A j \in Jobs : BulkPick(j)' <= BulkPick(j)
                    /\ \A j \in Jobs : status'[j] \in {"absent", "queued"}
                                         => status[j] \in {"absent", "queued"}
<1>0. Quiet => BulkBudgetInv'
  BY RunnerMovesNobody, BulkBudgetQuiet
<1>s. status \in [Jobs -> JobStatuses \cup {"absent"}]
  BY DEF TypeOK
<1>1. CASE BulkStart \/ BulkRefreshRead \/ BulkRefreshWrite \/ BulkScreened \/ BulkMarked
           \/ BulkRun \/ BulkWritten \/ BulkFinish
  <2>1. Quiet
    BY <1>1 DEF BulkStart, BulkRefreshRead, BulkRefreshWrite, BulkScreened, BulkMarked,
           BulkRun, BulkWritten, BulkFinish, vars, rows, counters, BulkPick
  <2> QED BY <2>1, <1>0
<1>2. CASE BulkDies
  <2>1. Quiet
    BY <1>2 DEF BulkDies, rows, BulkPick
  <2> QED BY <2>1, <1>0
<1>3. ASSUME NEW j \in Jobs, BulkScreen(j) PROVE BulkBudgetInv'
  <2>1. Quiet
    BY <1>3, <1>s DEF BulkScreen, Foremost, counters, BulkPick
  <2> QED BY <2>1, <1>0
<1>4. ASSUME NEW j \in Jobs, BulkRecordTimeout(j) PROVE BulkBudgetInv'
  <2>1. Quiet
    BY <1>4 DEF BulkRecordTimeout, rows, counters, BulkPick
  <2> QED BY <2>1, <1>0
<1>5. ASSUME NEW j \in Jobs, BulkMarkResult(j) PROVE BulkBudgetInv'
  <2>0. verdict[j] \in {"succeeded", "failed", "timeout"}
    BY <1>5 DEF BulkMarkResult, BulkTypes
  <2>1. Quiet
    BY <1>5, <1>s, <2>0 DEF BulkMarkResult, counters, BulkPick
  <2> QED BY <2>1, <1>0
<1>6. ASSUME NEW k \in Jobs, BulkMarkRunning(k) PROVE BulkBudgetInv'
  <2> SUFFICES ASSUME NEW j \in Jobs
               PROVE  /\ attempts'[j] + Cardinality(Pickers(j)') + BulkPick(j)'
                           <= MaxAttempts + Cardinality(Workers) + reclaims'[j]
                      /\ status'[j] \in {"absent", "queued"} => attempts'[j] = 0
    BY DEF BulkBudgetInv
  <2>1. /\ attempts[j] \in Nat /\ reclaims[j] \in Nat /\ MaxAttempts \in Nat
        /\ reclaims'[j] = reclaims[j]
    BY <1>6, BoundTypes DEF TypeOK, BulkMarkRunning, counters
  <2>2. status'[j] \in {"absent", "queued"} => attempts'[j] = 0
    BY <1>6 DEF BulkMarkRunning, BulkBudgetInv, TypeOK
  <2>3. attempts'[j] = (IF j = k THEN attempts[j] + 1 ELSE attempts[j])
    BY <1>6 DEF BulkMarkRunning, TypeOK
  <2>4. /\ BulkPick(j) \in {0, 1}
        /\ BulkPick(j)' = (IF j = k THEN BulkPick(j) - 1 ELSE BulkPick(j))
    BY <1>6 DEF BulkMarkRunning, BulkPick, Foremost
  <2>5. Pickers(j)' = Pickers(j)
    BY RunnerMovesNobody
  <2> QED BY <2>1, <2>2, <2>3, <2>4, <2>5, PickersFinite DEF BulkBudgetInv
<1>7. CASE BulkSelect
  <2> SUFFICES ASSUME NEW j \in Jobs
               PROVE  /\ attempts'[j] + Cardinality(Pickers(j)') + BulkPick(j)'
                           <= MaxAttempts + Cardinality(Workers) + reclaims'[j]
                      /\ status'[j] \in {"absent", "queued"} => attempts'[j] = 0
    BY DEF BulkBudgetInv
  <2>1. /\ attempts[j] \in Nat /\ reclaims[j] \in Nat /\ MaxAttempts \in Nat \ {0}
        /\ attempts'[j] = attempts[j] /\ status'[j] = status[j]
    BY <1>7, BoundTypes DEF TypeOK, BulkSelect, rows
  <2>2. /\ todo' = {i \in Jobs : Eligible(i) /\ RunOf[i] = OwnRun}
        /\ reclaims'[j] = reclaims[j] +
              (IF j \in todo' /\ status[j] \in {"leased", "running"} THEN 1 ELSE 0)
        /\ mine' = {} /\ bpc' = "screen" /\ bpc = "select"
    BY <1>7 DEF BulkSelect, BulkTypes
  <2>3. BulkPick(j)' = (IF j \in todo' THEN 1 ELSE 0) /\ BulkPick(j) = 0
    BY <2>2 DEF BulkPick
  <2>4. Pickers(j)' = Pickers(j)
    BY RunnerMovesNobody
  <2>5. status'[j] \in {"absent", "queued"} => attempts'[j] = 0
    BY <2>1 DEF BulkBudgetInv
  <2>6. CASE j \in todo' /\ status[j] \notin {"leased", "running"}
    <3>1. attempts[j] + 1 <= MaxAttempts
      BY <2>1, <2>2, <2>6 DEF Eligible, Leasable, BulkBudgetInv
    <3>2. reclaims'[j] = reclaims[j] /\ BulkPick(j)' = 1
      BY <2>1, <2>2, <2>3, <2>6
    <3> QED BY <2>1, <2>4, <2>5, <3>1, <3>2, PickersFinite
  <2>7. CASE j \in todo' /\ status[j] \in {"leased", "running"}
    <3>1. reclaims'[j] = reclaims[j] + 1 /\ BulkPick(j)' = 1
      BY <2>2, <2>3, <2>7
    <3> QED BY <2>1, <2>3, <2>4, <2>5, <3>1, PickersFinite DEF BulkBudgetInv
  <2>8. CASE j \notin todo'
    <3>1. reclaims'[j] = reclaims[j] /\ BulkPick(j)' = 0
      BY <2>1, <2>2, <2>3, <2>8
    <3> QED BY <2>1, <2>3, <2>4, <2>5, <3>1, PickersFinite DEF BulkBudgetInv
  <2> QED BY <2>6, <2>7, <2>8
<1> QED BY <1>1, <1>2, <1>3, <1>4, <1>5, <1>6, <1>7 DEF BulkStep

\* The bulk runner costs a row at most one attempt beyond the budget of the
\* workers, and one for every selection of a row that reads leased or running.
THEOREM BulkAttemptsBounded == BSpec => []BulkAttemptBudget
<1>1. BInit => BulkBudgetInv
  <2> SUFFICES ASSUME BInit PROVE BulkBudgetInv
    OBVIOUS
  <2>1. \A j \in Jobs : Pickers(j) = {} /\ BulkPick(j) = 0
    BY DEF BInit, Init, Pickers, BulkPick
  <2>2. Cardinality(Workers) \in Nat
    BY ConstantTypes, FS_CardinalityType
  <2>3. \A j \in Jobs : Cardinality(Pickers(j)) = 0
    BY <2>1, FS_EmptySet
  <2> QED BY <2>1, <2>2, <2>3, BoundTypes DEF BInit, Init, BulkBudgetInv
<1>2. TypeOK /\ BulkBudgetInv => BulkAttemptBudget
  <2> SUFFICES ASSUME TypeOK, BulkBudgetInv, NEW j \in Jobs
               PROVE attempts[j] <= MaxAttempts + Cardinality(Workers) + reclaims[j]
    BY DEF BulkAttemptBudget
  <2>1. BulkPick(j) \in {0, 1} /\ attempts[j] \in Nat /\ reclaims[j] \in Nat
    BY DEF BulkPick, TypeOK
  <2> QED BY <2>1, PickersFinite, BoundTypes DEF BulkBudgetInv
<1>3. TypeOK /\ BulkTypes /\ BulkBudgetInv /\ [BNext]_bvars => BulkBudgetInv'
  <2> SUFFICES ASSUME TypeOK, BulkTypes, BulkBudgetInv, [BNext]_bvars PROVE BulkBudgetInv'
    OBVIOUS
  <2>1. CASE UNCHANGED bvars \/ (Next /\ UNCHANGED bulk)
    BY <2>1, BulkBudgetWorkers DEF bvars
  <2> QED BY <2>1, BulkBudgetRunner DEF BNext
<1> QED BY <1>1, <1>2, <1>3, BulkTyped, PTL DEF BSpec

----------------------------------------------------------------------------
(* What the bulk runner returns. *)

\* Rows that are or have been in somebody's hands never read queued again.
Started(j) == status[j] \notin {"absent", "queued"}

\* The runner's rows are of its run; once the marking loop has passed a row it
\* has been started, and whatever settles a row leaves a result.
ReturnInv ==
    /\ ResultsKept
    /\ \A j \in todo \cup mine : RunOf[j] = OwnRun
    /\ bpc = "mark" => \A j \in mine \ todo : Started(j)
    /\ bpc \in {"run", "write", "finish"} => \A j \in mine : Started(j)

LEMMA StartedStays ==
    ASSUME TypeOK, [Next]_vars, NEW j \in Jobs, Started(j) PROVE Started(j)'
<1>1. CASE UNCHANGED vars
  BY <1>1 DEF vars, rows, Started
<1>2. ASSUME NEW batch \in Batches, Enqueue(batch) PROVE Started(j)'
  BY <1>2 DEF Enqueue, Present, Started
<1>3. ASSUME NEW r \in Runs, CancelJobs(r) PROVE Started(j)'
  BY <1>3 DEF CancelJobs, Started
<1>4. CASE \/ \E k \in Jobs : LeaseExpires(k)
           \/ StartRun \/ FinishRun \/ AbortRun
  BY <1>4 DEF LeaseExpires, StartRun, FinishRun, AbortRun, rows, Started
<1>5. ASSUME NEW w \in Workers, WorkerStep(w) \/ WorkerDies(w) PROVE Started(j)'
  <2> USE TypeShapes DEF rows, Started
  <2>1. CASE TakeSlot(w) \/ RefreshRead(w) \/ RefreshWrite(w) \/ Select(w) \/ SelectNone(w)
             \/ CheckQuarantine(w) \/ RunJob(w) \/ RecordTimeout(w) \/ WorkerDies(w)
    BY <2>1 DEF TakeSlot, RefreshRead, RefreshWrite, Select, SelectNone, CheckQuarantine,
                RunJob, RecordTimeout, WorkerDies
  <2>2. CASE Lease(w) \/ MarkQuarantined(w) \/ MarkRunning(w)
    BY <2>2 DEF Lease, MarkQuarantined, MarkRunning
  <2>3. CASE MarkResult(w)
    BY <2>3 DEF MarkResult, Goto
  <2> QED BY <1>5, <2>1, <2>2, <2>3 DEF WorkerStep
<1> QED BY <1>1, <1>2, <1>3, <1>4, <1>5 DEF Next

LEMMA ReturnRunner ==
    ASSUME TypeOK, BulkTypes, ReturnInv, BulkStart \/ BulkStep \/ BulkDies PROVE ReturnInv'
<1>s. /\ status \in [Jobs -> JobStatuses \cup {"absent"}]
      /\ result \in [Jobs -> Settled \cup {"none"}]
  BY DEF TypeOK
<1> USE DEF ReturnInv, ResultsKept, Started, BulkTypes
<1>1. CASE BulkStart \/ BulkRefreshRead \/ BulkRefreshWrite \/ BulkScreened \/ BulkMarked
           \/ BulkRun \/ BulkWritten \/ BulkFinish
  BY <1>1 DEF BulkStart, BulkRefreshRead, BulkRefreshWrite, BulkScreened, BulkMarked,
           BulkRun, BulkWritten, BulkFinish, vars, rows
<1>2. CASE BulkDies
  BY <1>2 DEF BulkDies, rows
<1>3. CASE BulkSelect
  BY <1>3 DEF BulkSelect, rows
<1>4. ASSUME NEW j \in Jobs, BulkScreen(j) PROVE ReturnInv'
  <2>1. ResultsKept'
    BY <1>4, <1>s DEF BulkScreen
  <2> QED BY <1>4, <2>1 DEF BulkScreen, Foremost
<1>5. ASSUME NEW j \in Jobs, BulkMarkRunning(j) PROVE ReturnInv'
  BY <1>5, <1>s DEF BulkMarkRunning, Settled
<1>6. ASSUME NEW j \in Jobs, BulkRecordTimeout(j) PROVE ReturnInv'
  BY <1>6 DEF BulkRecordTimeout, rows
<1>7. ASSUME NEW j \in Jobs, BulkMarkResult(j) PROVE ReturnInv'
  <2>0. verdict[j] \in {"succeeded", "failed", "timeout"}
    BY <1>7 DEF BulkMarkResult
  <2>1. ResultsKept'
    BY <1>7, <1>s, <2>0 DEF BulkMarkResult
  <2> QED BY <1>7, <1>s, <2>0, <2>1 DEF BulkMarkResult
<1> QED BY <1>1, <1>2, <1>3, <1>4, <1>5, <1>6, <1>7 DEF BulkStep

\* What the bulk runner returns holds every row it ran, by itself or by a row
\* with the same state and action, but for the rows that a supervised worker
\* has reopened or died over and those that were cancelled.
THEOREM BulkReturnsComplete == BSpec => BulkComplete
<1>1. BInit => ReturnInv
  BY DEF BInit, Init, ReturnInv, ResultsKept, Settled
<1>2. TypeOK /\ BulkTypes /\ ReturnInv /\ [BNext]_bvars => ReturnInv'
  <2> SUFFICES ASSUME TypeOK, BulkTypes, ReturnInv, [BNext]_bvars PROVE ReturnInv'
    OBVIOUS
  <2>1. CASE UNCHANGED bvars \/ (Next /\ UNCHANGED bulk)
    <3>1. [Next]_vars /\ UNCHANGED bulk
      BY <2>1 DEF bvars
    <3>2. \A j \in Jobs : Started(j) => Started(j)'
      BY <3>1, StartedStays
    <3>3. ResultsKept'
      BY <3>1, ResultsNext DEF ReturnInv
    <3> QED BY <3>1, <3>2, <3>3 DEF ReturnInv, BulkTypes, bulk
  <2> QED BY <2>1, ReturnRunner DEF BNext
<1>3. TypeOK /\ BulkTypes /\ ReturnInv /\ NoStrandedBulkRow /\ [BNext]_bvars =>
        [bpc = "finish" /\ bpc' = "returned" => \A j \in mine :
          \/ \E k \in boutput' : StateOf[k] = StateOf[j] /\ ActionOf[k] = ActionOf[j]
          \/ status[j] \in {"leased", "running"} /\ (Held(j) \/ j \in abandoned)
          \/ status[j] = "cancelled"]_bvars
  <2> SUFFICES ASSUME TypeOK, BulkTypes, ReturnInv, NoStrandedBulkRow, BNext,
                      bpc = "finish", bpc' = "returned", NEW j \in mine
               PROVE  \/ \E k \in boutput' : StateOf[k] = StateOf[j] /\ ActionOf[k] = ActionOf[j]
                      \/ status[j] \in {"leased", "running"} /\ (Held(j) \/ j \in abandoned)
                      \/ status[j] = "cancelled"
    OBVIOUS
  <2>1. boutput' \in Materialized
    BY DEF BNext, bulk, BulkStart, BulkStep, BulkDies, BulkRefreshRead, BulkRefreshWrite,
           BulkSelect, BulkScreen, BulkScreened, BulkMarkRunning, BulkMarked, BulkRun,
           BulkRecordTimeout, BulkMarkResult, BulkWritten, BulkFinish
  <2>2. j \in Jobs /\ RunOf[j] = OwnRun /\ Started(j) /\ ResultsKept
    BY DEF BulkTypes, ReturnInv
  <2>3. status[j] \in {"leased", "running"} => Held(j) \/ j \in abandoned
    BY <2>2 DEF NoStrandedBulkRow
  <2>4. status[j] \in Settled \cup {"leased", "running", "cancelled"}
    BY <2>2 DEF TypeOK, Started, JobStatuses, Settled
  <2>5. status[j] \in Settled =>
           \E k \in boutput' : StateOf[k] = StateOf[j] /\ ActionOf[k] = ActionOf[j]
    BY <2>1, <2>2, OutputCovers
  <2> QED BY <2>3, <2>4, <2>5
<1> QED BY <1>1, <1>2, <1>3, BulkTyped, NeverStrandedBulk, PTL DEF BSpec, BulkComplete
============================================================================
