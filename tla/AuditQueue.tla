---------------------------- MODULE AuditQueue ----------------------------
(***************************************************************************)
(* The audit job queue of lean_rgc and the supervised workers that drain   *)
(* it: audit_job_queue.py (the audit_jobs table and its operations),       *)
(* lean/worker_supervisor.py (run_supervised_audit_queue, worker_loop),    *)
(* timeout_ledger.py (timeout_events) and action_quarantine.py.            *)
(*                                                                         *)
(* Every worker is a thread with its own SQLite connection; every call it  *)
(* makes on the database is one transaction, so a step of this module is   *)
(* one transaction (lease_next_job and refresh_action_quarantine are two:  *)
(* a SELECT in autocommit mode and a later write).                         *)
(*                                                                         *)
(* Abstractions.  A job is a row's primary key; its immutable columns are  *)
(* constant functions.  leased_until is compared with the clock only, so   *)
(* it is "null", "live" (in the future) or "lapsed".  worker_id, the       *)
(* payload and the texts are never read by a guard and are left out.       *)
(***************************************************************************)
EXTENDS Integers, FiniteSets

CONSTANTS
    Workers,        \* worker threads of run_supervised_audit_queue
    Jobs,           \* job ids (make_job_id) that may be enqueued
    NoJob,          \* "no row" of a worker
    Actions,        \* action ids
    Hashes,         \* tactic hashes
    RunOf,          \* run_id of a job
    ActionOf,       \* action_id of a job
    HashOf,         \* tactic_hash of a job
    StateOf,        \* state_id of a job
    LaneOf,         \* lane of a job
    Priority,       \* priority of a job
    Batches,        \* the job sets that enqueue_audit_jobs is called with
    OwnRun,         \* run_id the supervisor is asked to materialise
    LaneSet,        \* lanes the workers serve
    HeavyLaneAllowsQuarantine,
    ContinueOnTimeout,
    ImportSlow,     \* import_wall_s >= timeout_s * 0.5
    MaxAttempts,    \* max_attempts column
    ActionTimeoutThreshold,
    ProbationMinAttempts,
    MaxJobs,        \* max_jobs, or Unlimited
    LeasesExpire,   \* a lease may run out while the process works on
    MaxReclaims,    \* bound: selections of a row through an expired lease
    MaxStarts,      \* bound: supervisor invocations on this database
    MaxDeaths,      \* bound: worker threads that die
    MaxCancels      \* bound: cancel_jobs calls

Unlimited == -1     \* max_jobs is None

Lanes == {"source_check", "kernel_rpc", "heavy"}

Runs == {RunOf[j] : j \in Jobs}

ASSUME ConstantTypes ==
    /\ IsFiniteSet(Workers) /\ Workers # {}
    /\ IsFiniteSet(Jobs) /\ NoJob \notin Jobs
    /\ ActionOf \in [Jobs -> Actions]
    /\ HashOf \in [Jobs -> Hashes]
    /\ LaneOf \in [Jobs -> Lanes]
    /\ Priority \in [Jobs -> Int]
    /\ Batches \subseteq SUBSET Jobs
    /\ LaneSet \subseteq Lanes
    /\ HeavyLaneAllowsQuarantine \in BOOLEAN
    /\ ContinueOnTimeout \in BOOLEAN
    /\ ImportSlow \in BOOLEAN
    /\ LeasesExpire \in BOOLEAN

ASSUME BoundTypes ==
    /\ MaxAttempts \in Nat \ {0}
    /\ ActionTimeoutThreshold \in Nat \ {0}
    /\ ProbationMinAttempts \in Nat
    /\ MaxJobs \in Nat \cup {Unlimited}
    /\ MaxReclaims \in Nat
    /\ MaxStarts \in Nat
    /\ MaxDeaths \in Nat
    /\ MaxCancels \in Nat

----------------------------------------------------------------------------
VARIABLES
    \* audit_jobs
    status, lease, attempts, created, result,
    \* timeout_events (distinct job and scope) and action_quarantine
    events, quarantined, probation,
    \* worker threads
    pc, job, outcome, found,
    \* the supervisor process
    phase, slots, executed, asked, output,
    \* history and bounds
    reclaims, abandoned, batches, starts, deaths, cancels

rows     == <<status, lease, attempts, created, result>>
ledger   == <<events, quarantined, probation>>
threads  == <<pc, job, outcome, found>>
process  == <<phase, slots, executed, asked, output>>
counters == <<reclaims, abandoned, batches, starts, deaths, cancels>>
vars     == <<rows, ledger, threads, process, counters>>

JobStatuses ==
    {"queued", "leased", "running", "succeeded", "succeeded_from_cache",
     "failed", "timeout", "quarantined", "cancelled"}

Settled == {"succeeded", "succeeded_from_cache", "failed", "timeout",
            "quarantined"}

Scopes == {"tactic_timeout", "import_timeout", "worker_timeout", "batch_timeout"}

Present(j) == status[j] # "absent"

----------------------------------------------------------------------------
(* The queries. *)

\* Mutant: the retry branch does not compare attempt_count.
Leasable_NoBudget(j) ==
    \/ status[j] = "queued"
    \/ status[j] \in {"leased", "running"} /\ lease[j] # "live"
    \/ status[j] = "failed"

\* Mutant: a timeout is retried like a failure.
Leasable_RetriesTimeouts(j) ==
    \/ status[j] = "queued"
    \/ status[j] \in {"leased", "running"} /\ lease[j] # "live"
    \/ status[j] \in {"failed", "timeout"} /\ attempts[j] < MaxAttempts

\* Mutant: a cancelled row with attempts left is eligible.
Leasable_TakesCancelled(j) ==
    \/ status[j] = "queued"
    \/ status[j] \in {"leased", "running"} /\ lease[j] # "live"
    \/ status[j] \in {"failed", "cancelled"} /\ attempts[j] < MaxAttempts

\* WHERE clause of lease_next_job, lanes apart.
Leasable(j) ==
    \/ status[j] = "queued"
    \/ status[j] \in {"leased", "running"} /\ lease[j] # "live"
    \/ status[j] = "failed" /\ attempts[j] < MaxAttempts

Eligible(j) == LaneOf[j] \in LaneSet /\ Leasable(j)

\* ORDER BY priority DESC, created_at ASC.
Precedes(j, k) ==
    \/ Priority[j] > Priority[k]
    \/ Priority[j] = Priority[k] /\ created[j] < created[k]

\* LIMIT 1: any row that no eligible row precedes.
FirstEligible ==
    {j \in Jobs : /\ Eligible(j)
                  /\ \A k \in Jobs : Eligible(k) => ~Precedes(k, j)}

\* Jobs in the table with a tactic_timeout event.
TacticTimeouts == {j \in Jobs : Present(j) /\ <<j, "tactic_timeout">> \in events}

\* Action ids that refresh_action_quarantine finds over the threshold.
OverThreshold ==
    {a \in Actions : Cardinality({j \in TacticTimeouts : ActionOf[j] = a})
                        >= ActionTimeoutThreshold}

\* Tactic hashes it puts on probation: rate >= 0.50 over enough rows.
OnProbation ==
    {h \in Hashes :
        LET of  == {j \in Jobs : Present(j) /\ HashOf[j] = h}
            hit == {j \in TacticTimeouts : HashOf[j] = h}
        IN  /\ of # {}
            /\ Cardinality(of) >= ProbationMinAttempts
            /\ 2 * Cardinality(hit) >= Cardinality(of)}

\* A heavy job runs although its action is quarantined.
AllowHeavy(j) == LaneOf[j] = "heavy" /\ HeavyLaneAllowsQuarantine

\* _timeout_scope_for_run for a supervised job.
TimeoutScope(o) ==
    IF ImportSlow THEN "import_timeout"
    ELSE IF o = "killed" THEN "tactic_timeout"
    ELSE "worker_timeout"

----------------------------------------------------------------------------
Init ==
    /\ status = [j \in Jobs |-> "absent"]
    /\ lease = [j \in Jobs |-> "null"]
    /\ attempts = [j \in Jobs |-> 0]
    /\ created = [j \in Jobs |-> 0]
    /\ result = [j \in Jobs |-> "none"]
    /\ events = {} /\ quarantined = {} /\ probation = {}
    /\ pc = [w \in Workers |-> "done"]
    /\ job = [w \in Workers |-> NoJob]
    /\ outcome = [w \in Workers |-> "none"]
    /\ found = [w \in Workers |-> {}]
    /\ phase = "enqueue" /\ slots = MaxJobs /\ executed = 0
    /\ asked = {} /\ output = {}
    /\ reclaims = [j \in Jobs |-> 0]
    /\ abandoned = {} /\ batches = 0 /\ starts = 0 /\ deaths = 0 /\ cancels = 0

\* enqueue_audit_jobs: INSERT OR IGNORE of a batch, one transaction.
\* A batch that inserts nothing changes nothing.
Enqueue(batch) ==
    LET new == {j \in batch : ~Present(j)}
    IN  /\ new # {}
        /\ status' = [j \in Jobs |-> IF j \in new THEN "queued" ELSE status[j]]
        /\ created' = [j \in Jobs |-> IF j \in new THEN batches ELSE created[j]]
        /\ batches' = batches + 1
        /\ UNCHANGED <<lease, attempts, result, ledger, threads, process,
                       reclaims, abandoned, starts, deaths, cancels>>

\* cancel_jobs for a run; it touches neither the lease nor the workers.
CancelJobs(r) ==
    LET hit == {j \in Jobs : /\ RunOf[j] = r
                             /\ status[j] \in {"queued", "leased", "running",
                                               "failed"}}
    IN  /\ cancels < MaxCancels /\ hit # {}
        /\ status' = [j \in Jobs |-> IF j \in hit THEN "cancelled" ELSE status[j]]
        /\ cancels' = cancels + 1
        /\ UNCHANGED <<lease, attempts, created, result, ledger, threads,
                       process, reclaims, abandoned, batches, starts, deaths>>

\* The clock passes leased_until.
LeaseExpires(j) ==
    /\ LeasesExpire
    /\ status[j] \in {"leased", "running"} /\ lease[j] = "live"
    /\ reclaims[j] < MaxReclaims
    /\ lease' = [lease EXCEPT ![j] = "lapsed"]
    /\ UNCHANGED <<status, attempts, created, result, ledger, threads,
                   process, counters>>

----------------------------------------------------------------------------
(* run_supervised_audit_queue: the process around the workers. *)

\* Start an invocation: a fresh slot counter and n_workers fresh threads.
StartRun ==
    /\ phase # "running" /\ starts < MaxStarts
    /\ phase' = "running" /\ starts' = starts + 1
    /\ slots' = MaxJobs /\ executed' = 0 /\ output' = {}
    /\ asked' = {j \in Jobs : Present(j) /\ RunOf[j] = OwnRun}
    /\ pc' = [w \in Workers |-> "idle"]
    /\ UNCHANGED <<rows, ledger, job, outcome, found, reclaims, abandoned,
                   batches, deaths, cancels>>

\* Mutant: the status list forgets the quarantined rows.
Materialized_NoQuarantined ==
    {{j \in Jobs : /\ RunOf[j] = OwnRun /\ result[j] # "none"
                   /\ status[j] \in Settled \ {"quarantined"}}}

\* materialize_queue_results: the settled rows of the run that have a result,
\* and of the rows with one (state, action) pair the first by created_at.
Materialized ==
    LET ready == {j \in Jobs : /\ RunOf[j] = OwnRun
                               /\ status[j] \in Settled /\ result[j] # "none"}
        same(j) == {k \in ready : /\ StateOf[k] = StateOf[j]
                                  /\ ActionOf[k] = ActionOf[j]}
    IN  {S \in SUBSET ready :
            \A j \in ready :
                \E k \in S : /\ S \cap same(j) = {k}
                             /\ \A i \in same(j) : created[k] <= created[i]}

\* All futures returned: refresh, materialize, refresh.  A worker that raised
\* makes fut.result() raise, and the invocation ends with nothing written.
FinishRun ==
    /\ phase = "running" /\ \A w \in Workers : pc[w] = "done"
    /\ phase' = "materialized"
    /\ output' \in Materialized
    /\ quarantined' = quarantined \cup OverThreshold
    /\ probation' = probation \cup OnProbation
    /\ UNCHANGED <<rows, events, threads, slots, executed, asked, counters>>

AbortRun ==
    /\ phase = "running" /\ \A w \in Workers : pc[w] \in {"done", "dead"}
    /\ \E w \in Workers : pc[w] = "dead"
    /\ phase' = "raised"
    /\ UNCHANGED <<rows, ledger, threads, slots, executed, asked, output,
                   counters>>

----------------------------------------------------------------------------
(* worker_loop, one step per transaction. *)

Goto(w, from, to) == pc[w] = from /\ pc' = [pc EXCEPT ![w] = to]

\* take_slot under counter_lock.
TakeSlot(w) ==
    /\ \/ /\ slots = Unlimited
          /\ Goto(w, "idle", "slot") /\ UNCHANGED slots
       \/ /\ slots # Unlimited /\ slots > 0
          /\ Goto(w, "idle", "slot") /\ slots' = slots - 1
       \/ /\ slots = 0
          /\ Goto(w, "idle", "done") /\ UNCHANGED slots
    /\ UNCHANGED <<rows, ledger, job, outcome, found, phase, executed, asked,
                   output, counters>>

\* refresh_action_quarantine, the SELECT over timeout_events.
RefreshRead(w) ==
    /\ Goto(w, "slot", "found")
    /\ found' = [found EXCEPT ![w] = OverThreshold]
    /\ UNCHANGED <<rows, ledger, job, outcome, process, counters>>

\* ... and the upserts; a row of action_quarantine is never removed.
RefreshWrite(w) ==
    /\ Goto(w, "found", "refreshed")
    /\ quarantined' = quarantined \cup found[w]
    /\ probation' = probation \cup OnProbation
    /\ found' = [found EXCEPT ![w] = {}]
    /\ UNCHANGED <<rows, events, job, outcome, process, counters>>

\* lease_next_job, the SELECT ... LIMIT 1.
Select(w) ==
    \E j \in FirstEligible :
        /\ Goto(w, "refreshed", "selected")
        /\ job' = [job EXCEPT ![w] = j]
        /\ IF status[j] \in {"leased", "running"}
           THEN /\ reclaims[j] < MaxReclaims
                /\ reclaims' = [reclaims EXCEPT ![j] = @ + 1]
           ELSE UNCHANGED reclaims
        /\ UNCHANGED <<rows, ledger, outcome, found, process, abandoned, batches,
                       starts, deaths, cancels>>

\* Mutant: continue instead of break.
SelectNone_Polls(w) ==
    /\ FirstEligible = {}
    /\ Goto(w, "refreshed", "idle")
    /\ slots' = IF slots = Unlimited THEN slots ELSE slots + 1
    /\ UNCHANGED <<rows, ledger, job, outcome, found, phase, executed, asked,
                   output, counters>>

\* The SELECT finds nothing: give_back_slot and leave the loop.
SelectNone(w) ==
    /\ FirstEligible = {}
    /\ Goto(w, "refreshed", "done")
    /\ slots' = IF slots = Unlimited THEN slots ELSE slots + 1
    /\ UNCHANGED <<rows, ledger, job, outcome, found, phase, executed, asked,
                   output, counters>>

\* lease_next_job, the UPDATE ... WHERE job_id=?: no check of the status.
Lease(w) ==
    /\ Goto(w, "selected", "leased")
    /\ status' = [status EXCEPT ![job[w]] = "leased"]
    /\ lease' = [lease EXCEPT ![job[w]] = "live"]
    /\ UNCHANGED <<attempts, created, result, ledger, job, outcome, found,
                   process, counters>>

\* Mutant: the quarantine table is not consulted.
CheckQuarantine_Skipped(w) ==
    /\ Goto(w, "leased", "cleared")
    /\ UNCHANGED <<rows, ledger, job, outcome, found, process, counters>>

\* is_action_quarantined: only action_id rows are ever "quarantined".
CheckQuarantine(w) ==
    /\ Goto(w, "leased",
            IF ActionOf[job[w]] \in quarantined /\ ~AllowHeavy(job[w])
            THEN "blocked" ELSE "cleared")
    /\ UNCHANGED <<rows, ledger, job, outcome, found, process, counters>>

\* mark_job_result with the synthetic quarantined result, then continue.
MarkQuarantined(w) ==
    /\ Goto(w, "blocked", "idle")
    /\ status' = [status EXCEPT ![job[w]] = "quarantined"]
    /\ lease' = [lease EXCEPT ![job[w]] = "null"]
    /\ result' = [result EXCEPT ![job[w]] = "quarantined"]
    /\ executed' = executed + 1
    /\ job' = [job EXCEPT ![w] = NoJob]
    /\ UNCHANGED <<attempts, created, ledger, outcome, found, phase, slots,
                   asked, output, counters>>

\* mark_job_running: leased_until keeps its value.
MarkRunning(w) ==
    /\ Goto(w, "cleared", "running")
    /\ status' = [status EXCEPT ![job[w]] = "running"]
    /\ attempts' = [attempts EXCEPT ![job[w]] = @ + 1]
    /\ UNCHANGED <<lease, created, result, ledger, job, outcome, found,
                   process, counters>>

\* _run_job_process: the child succeeds, fails, is killed at the timeout, or
\* reports a timeout of its own.
RunJob(w) ==
    \E o \in {"succeeded", "failed", "killed", "reported"} :
        /\ Goto(w, "running",
                IF o \in {"killed", "reported"} THEN "timedout" ELSE "ran")
        /\ outcome' = [outcome EXCEPT ![w] = o]
        /\ UNCHANGED <<rows, ledger, job, found, process, counters>>

\* record_timeout_event.
RecordTimeout(w) ==
    /\ Goto(w, "timedout", "ran")
    /\ events' = events \cup {<<job[w], TimeoutScope(outcome[w])>>}
    /\ UNCHANGED <<rows, quarantined, probation, job, outcome, found, process,
                   counters>>

\* Mutant: the raw outcome is stored as the status.
MarkResult_RawStatus(w) ==
    /\ Goto(w, "ran", "idle")
    /\ status' = [status EXCEPT ![job[w]] = outcome[w]]
    /\ lease' = [lease EXCEPT ![job[w]] = "null"]
    /\ result' = [result EXCEPT ![job[w]] = outcome[w]]
    /\ executed' = executed + 1
    /\ job' = [job EXCEPT ![w] = NoJob]
    /\ outcome' = [outcome EXCEPT ![w] = "none"]
    /\ UNCHANGED <<attempts, created, ledger, found, phase, slots, asked,
                   output, counters>>

\* Mutant: a timed-out job goes into the ledger and its row is forgotten.
MarkResult_TimeoutForgotten(w) ==
    LET timedout == outcome[w] \in {"killed", "reported"}
    IN  /\ Goto(w, "ran", "idle")
        /\ IF timedout THEN UNCHANGED <<status, lease, result>>
           ELSE /\ status' = [status EXCEPT ![job[w]] = outcome[w]]
                /\ lease' = [lease EXCEPT ![job[w]] = "null"]
                /\ result' = [result EXCEPT ![job[w]] = outcome[w]]
        /\ executed' = executed + 1
        /\ job' = [job EXCEPT ![w] = NoJob]
        /\ outcome' = [outcome EXCEPT ![w] = "none"]
        /\ UNCHANGED <<attempts, created, ledger, found, phase, slots, asked,
                       output, counters>>

\* mark_job_result, and break on a timeout unless continue_on_timeout.
MarkResult(w) ==
    LET timedout == outcome[w] \in {"killed", "reported"}
        final    == IF timedout THEN "timeout" ELSE outcome[w]
    IN  /\ Goto(w, "ran",
                IF timedout /\ ~ContinueOnTimeout THEN "done" ELSE "idle")
        /\ status' = [status EXCEPT ![job[w]] = final]
        /\ lease' = [lease EXCEPT ![job[w]] = "null"]
        /\ result' = [result EXCEPT ![job[w]] = final]
        /\ executed' = executed + 1
        /\ job' = [job EXCEPT ![w] = NoJob]
        /\ outcome' = [outcome EXCEPT ![w] = "none"]
        /\ UNCHANGED <<attempts, created, ledger, found, phase, slots, asked,
                       output, counters>>

\* An exception (a locked database, a killed process) ends a thread between
\* two transactions; the row it holds stays as it is.
WorkerDies(w) ==
    /\ pc[w] \notin {"done", "dead"} /\ deaths < MaxDeaths
    /\ pc' = [pc EXCEPT ![w] = "dead"]
    /\ job' = [job EXCEPT ![w] = NoJob]
    /\ outcome' = [outcome EXCEPT ![w] = "none"]
    /\ found' = [found EXCEPT ![w] = {}]
    /\ abandoned' = abandoned \cup ({job[w]} \ {NoJob})
    /\ deaths' = deaths + 1
    /\ UNCHANGED <<rows, ledger, process, reclaims, batches, starts, cancels>>

WorkerStep(w) ==
    \/ TakeSlot(w) \/ RefreshRead(w) \/ RefreshWrite(w)
    \/ Select(w) \/ SelectNone(w) \/ Lease(w) \/ CheckQuarantine(w)
    \/ MarkQuarantined(w) \/ MarkRunning(w) \/ RunJob(w)
    \/ RecordTimeout(w) \/ MarkResult(w)

Next ==
    \/ \E batch \in Batches : Enqueue(batch)
    \/ \E r \in Runs : CancelJobs(r)
    \/ \E j \in Jobs : LeaseExpires(j)
    \/ StartRun \/ FinishRun \/ AbortRun
    \/ \E w \in Workers : WorkerStep(w) \/ WorkerDies(w)

Spec == Init /\ [][Next]_vars

\* The loop runs while its thread lives, and a child process is joined with a
\* timeout, then terminated and killed: every step of a worker is taken.
FairSpec == Spec /\ WF_vars(FinishRun) /\ WF_vars(AbortRun)
                 /\ \A w \in Workers : WF_vars(WorkerStep(w))

----------------------------------------------------------------------------
(* Properties. *)

PCs == {"idle", "slot", "found", "refreshed", "selected", "leased", "blocked",
        "cleared", "running", "timedout", "ran", "done", "dead"}

\* Places of worker_loop at which a worker has a row in hand.
Holding == {"selected", "leased", "blocked", "cleared", "running", "timedout",
            "ran"}

\* Places after its UPDATE in lease_next_job.
Owning == Holding \ {"selected"}

\* Type invariant: every column holds a value the schema and mark_job_result
\* allow, a worker has a row in hand exactly at the places of Holding and an
\* outcome exactly until mark_job_result, and no thread outlives its run.
TypeOK ==
    /\ status \in [Jobs -> JobStatuses \cup {"absent"}]
    /\ lease \in [Jobs -> {"null", "live", "lapsed"}]
    /\ attempts \in [Jobs -> Nat]
    /\ created \in [Jobs -> Nat]
    /\ result \in [Jobs -> Settled \cup {"none"}]
    /\ events \subseteq Jobs \X Scopes
    /\ quarantined \subseteq Actions /\ probation \subseteq Hashes
    /\ pc \in [Workers -> PCs]
    /\ job \in [Workers -> Jobs \cup {NoJob}]
    /\ \A w \in Workers : job[w] # NoJob <=> pc[w] \in Holding
    /\ outcome \in [Workers -> {"none", "succeeded", "failed", "killed",
                                "reported"}]
    /\ \A w \in Workers : outcome[w] # "none" <=> pc[w] \in {"timedout", "ran"}
    /\ found \in [Workers -> SUBSET Actions]
    /\ phase \in {"enqueue", "running", "materialized", "raised"}
    /\ phase # "running" => \A w \in Workers : pc[w] \in {"done", "dead"}
    /\ slots \in Nat \cup {Unlimited} /\ executed \in Nat
    /\ asked \subseteq Jobs /\ output \subseteq Jobs
    /\ reclaims \in [Jobs -> Nat] /\ abandoned \subseteq Jobs
    /\ batches \in Nat /\ starts \in Nat /\ deaths \in Nat /\ cancels \in Nat

\* The attempt budget.  lease_next_job compares attempt_count with
\* max_attempts in the SELECT and mark_job_running increments it two
\* transactions later, so max_attempts alone bounds nothing.  What holds: a
\* row runs at most max_attempts times, plus once for every other worker that
\* may have selected it in the same window, plus once for every selection
\* through an expired or missing lease, where the count is not compared.
AttemptBudget ==
    \A j \in Jobs :
        attempts[j] <= MaxAttempts + (Cardinality(Workers) - 1) + reclaims[j]

\* The quarantine threshold.  The ledger is read at the top of the loop and
\* is_action_quarantined is asked once, before the job runs, so every worker
\* may have one run of the action under way when the threshold is reached:
\* at most threshold + workers - 1 jobs of an action time out, heavy ones apart.
QuarantineOvershoot ==
    \A a \in Actions :
        Cardinality({j \in TacticTimeouts : ActionOf[j] = a /\ ~AllowHeavy(j)})
            <= ActionTimeoutThreshold + Cardinality(Workers) - 1

\* A row is never stranded: whatever the order in which workers overwrite each
\* other's status, a row that reads leased or running is in the hands of a
\* live worker that will write its result, or its holder died.
NoStrandedRow ==
    \A j \in Jobs :
        status[j] \in {"leased", "running"} =>
            \/ \E w \in Workers : pc[w] \in Owning /\ job[w] = j
            \/ j \in abandoned

\* What a supervisor that returns normally, uncapped and continuing on
\* timeouts, has done: every job of the run that was in the table when it
\* started is settled with its retries used up and is represented in the
\* output, unless it was cancelled or a dead worker's lease still covers it.
RunComplete ==
    phase = "materialized" /\ MaxJobs = Unlimited /\ ContinueOnTimeout =>
        \A j \in asked :
            \/ LaneOf[j] \notin LaneSet
            \/ status[j] = "cancelled"
            \/ status[j] \in {"leased", "running"} /\ j \in abandoned
            \/ /\ status[j] \in Settled
               /\ status[j] = "failed" => attempts[j] >= MaxAttempts
               /\ \E k \in output : /\ StateOf[k] = StateOf[j]
                                    /\ ActionOf[k] = ActionOf[j]

\* max_jobs accounting: while no thread has died, the jobs executed, the slots
\* left and the slots in use add up to max_jobs (take_slot, give_back_slot and
\* local_executed never lose or invent a slot).
SlotConservation ==
    phase \in {"running", "materialized"} /\ MaxJobs # Unlimited
    /\ (\A w \in Workers : pc[w] # "dead") =>
        executed + slots
            + Cardinality({w \in Workers : pc[w] \notin {"idle", "done"}})
            = MaxJobs

\* CapsHold: the caps on what a run may spend hold at every moment, although
\* both are read before a job runs and charged after it: the timeouts an action
\* may cost before it is quarantined, and the jobs max_jobs lets a run execute.
CapsHold == QuarantineOvershoot /\ SlotConservation

\* A verdict is final: a row that reached a status other than failed is never
\* taken up again, in this invocation or a later one, whatever dies or expires,
\* and its status and result are overwritten only by a worker that had it in
\* hand already, in the window of lease_next_job.  One worker alone never does.
VerdictIsFinal ==
    [][\A j \in Jobs : status[j] \in Settled \ {"failed"} =>
          /\ <<status'[j], result'[j]>> # <<status[j], result[j]>> =>
                \E w \in Workers : pc[w] \in Holding /\ job[w] = j
          /\ \A w \in Workers : job'[w] = j => job[w] = j]_vars

\* cancel_jobs stops every job that nobody has in hand: a cancelled row is
\* revived (mark_job_running and mark_job_result do not look at the status)
\* only by a worker that has it in hand, and no worker takes it in hand after
\* it was cancelled, not even for the attempts it has left.
CancelStopsUnheldJobs ==
    [][\A j \in Jobs : status[j] = "cancelled" =>
          /\ status'[j] # "cancelled" => \E w \in Workers : pc[w] \in Holding /\ job[w] = j
          /\ \A w \in Workers : job'[w] = j => job[w] = j]_vars

\* An invocation ends: it materialises or raises, although its workers reopen
\* and run each other's rows.
RunEnds == phase = "running" ~> phase # "running"
============================================================================
