----------------------------- MODULE BulkQueue -----------------------------
(***************************************************************************)
(* run_bulk_audit_queue (lean/worker_supervisor.py) on the table that the   *)
(* supervised workers of AuditQueue drain at the same time.  The bulk       *)
(* runner takes all eligible rows of its run in one SELECT, never leases    *)
(* them, marks them running one by one before any Lean file is compiled,    *)
(* and writes the results only when every chunk has come back.  What a      *)
(* chunk answers is BulkChunk's subject and is left open here.              *)
(***************************************************************************)
EXTENDS AuditQueue

CONSTANTS
    MaxBulkRuns     \* bound: invocations of the bulk runner

ASSUME BulkAssumption == MaxBulkRuns \in Nat

VARIABLES
    bpc,        \* where run_bulk_audit_queue is
    bfound,     \* what its refresh_action_quarantine has read
    todo,       \* rows the current loop has still to visit
    mine,       \* rows of its chunks
    verdict,    \* what the chunks answered
    noted,      \* the row whose timeout is recorded and whose result is not
    boutput,    \* what it materialised
    bulkRuns    \* invocations so far

bulk == <<bpc, bfound, todo, mine, verdict, noted, boutput, bulkRuns>>
bvars == <<vars, bulk>>

BulkPCs == {"off", "refresh", "read", "select", "screen", "mark", "run", "write",
            "finish", "returned", "raised"}

\* The rows come in the order of the SELECT.
Foremost(S) == {j \in S : \A k \in S : ~Precedes(k, j)}

BInit ==
    /\ Init
    /\ bpc = "off" /\ bfound = {} /\ todo = {} /\ mine = {}
    /\ verdict = [j \in Jobs |-> "none"] /\ noted = NoJob
    /\ boutput = {} /\ bulkRuns = 0

BulkStart ==
    /\ bpc \in {"off", "returned", "raised"} /\ bulkRuns < MaxBulkRuns
    /\ bpc' = "refresh" /\ bulkRuns' = bulkRuns + 1
    /\ boutput' = {}
    /\ UNCHANGED <<vars, bfound, todo, mine, verdict, noted>>

\* refresh_action_quarantine, in its two transactions.
BulkRefreshRead ==
    /\ bpc = "refresh" /\ bpc' = "read"
    /\ bfound' = OverThreshold
    /\ UNCHANGED <<vars, todo, mine, verdict, noted, boutput, bulkRuns>>

BulkRefreshWrite ==
    /\ bpc = "read" /\ bpc' = "select"
    /\ quarantined' = quarantined \cup bfound
    /\ probation' = probation \cup OnProbation
    /\ bfound' = {}
    /\ UNCHANGED <<rows, events, threads, process, counters,
                   todo, mine, verdict, noted, boutput, bulkRuns>>

\* The SELECT: the condition of lease_next_job, for one run, with no LIMIT.
BulkSelect ==
    /\ bpc = "select" /\ bpc' = "screen"
    /\ todo' = {j \in Jobs : Eligible(j) /\ RunOf[j] = OwnRun}
    /\ reclaims' = [j \in Jobs |->
            reclaims[j] + (IF j \in todo' /\ status[j] \in {"leased", "running"} THEN 1 ELSE 0)]
    /\ UNCHANGED <<rows, ledger, threads, process, abandoned, batches, starts, deaths, cancels,
                   bfound, mine, verdict, noted, boutput, bulkRuns>>

\* The loop over the selection: is_action_quarantined, and mark_job_result
\* with the synthetic result if it is.
BulkScreen(j) ==
    /\ bpc = "screen" /\ j \in Foremost(todo)
    /\ todo' = todo \ {j}
    /\ IF ActionOf[j] \in quarantined /\ ~AllowHeavy(j)
       THEN /\ status' = [status EXCEPT ![j] = "quarantined"]
            /\ lease' = [lease EXCEPT ![j] = "null"]
            /\ result' = [result EXCEPT ![j] = "quarantined"]
            /\ UNCHANGED mine
       ELSE /\ mine' = mine \cup {j}
            /\ UNCHANGED <<status, lease, result>>
    /\ UNCHANGED <<attempts, created, ledger, threads, process, counters,
                   bpc, bfound, verdict, noted, boutput, bulkRuns>>

BulkScreened ==
    /\ bpc = "screen" /\ todo = {}
    /\ bpc' = "mark" /\ todo' = mine
    /\ UNCHANGED <<vars, bfound, mine, verdict, noted, boutput, bulkRuns>>

\* Mutant: the attempt is counted when the row is marked and again when it runs.
BulkMarkRunning_CountsTwice(j) ==
    /\ bpc = "mark" /\ j \in Foremost(todo)
    /\ todo' = todo \ {j}
    /\ status' = [status EXCEPT ![j] = "running"]
    /\ attempts' = [attempts EXCEPT ![j] = @ + 2]
    /\ UNCHANGED <<lease, created, result, ledger, threads, process, counters,
                   bpc, bfound, mine, verdict, noted, boutput, bulkRuns>>

\* mark_job_running for every row of every chunk; leased_until stays NULL, or
\* whatever it was.
BulkMarkRunning(j) ==
    /\ bpc = "mark" /\ j \in Foremost(todo)
    /\ todo' = todo \ {j}
    /\ status' = [status EXCEPT ![j] = "running"]
    /\ attempts' = [attempts EXCEPT ![j] = @ + 1]
    /\ UNCHANGED <<lease, created, result, ledger, threads, process, counters,
                   bpc, bfound, mine, verdict, noted, boutput, bulkRuns>>

\* Mutant: chunks are not started while a supervised worker has one of the rows.
BulkMarked_Waits ==
    /\ bpc = "mark" /\ todo = {}
    /\ \A w \in Workers : job[w] \notin mine
    /\ bpc' = "run"
    /\ UNCHANGED <<vars, bfound, todo, mine, verdict, noted, boutput, bulkRuns>>

BulkMarked ==
    /\ bpc = "mark" /\ todo = {}
    /\ bpc' = "run"
    /\ UNCHANGED <<vars, bfound, todo, mine, verdict, noted, boutput, bulkRuns>>

\* All chunks have come back: all_results.
BulkRun ==
    /\ bpc = "run" /\ bpc' = "write"
    /\ \E v \in [mine -> {"succeeded", "failed", "timeout"}] :
            verdict' = [j \in Jobs |-> IF j \in mine THEN v[j] ELSE "none"]
    /\ todo' = mine
    /\ UNCHANGED <<vars, bfound, mine, noted, boutput, bulkRuns>>

\* _timeout_scope_for_run(bulk=True)
BulkScope == IF ImportSlow THEN "import_timeout" ELSE "batch_timeout"

\* record_timeout_event, before the row is marked.
BulkRecordTimeout(j) ==
    /\ bpc = "write" /\ noted = NoJob
    /\ j \in todo /\ verdict[j] = "timeout"
    /\ noted' = j
    /\ events' = events \cup {<<j, BulkScope>>}
    /\ UNCHANGED <<rows, quarantined, probation, threads, process, counters,
                   bpc, bfound, todo, mine, verdict, boutput, bulkRuns>>

\* Mutant: timeouts go into the ledger and the row is left for later.
BulkMarkResult_TimeoutForgotten(j) ==
    /\ bpc = "write" /\ j \in todo
    /\ IF verdict[j] = "timeout" THEN noted = j ELSE noted = NoJob
    /\ noted' = NoJob /\ todo' = todo \ {j}
    /\ IF verdict[j] = "timeout" THEN UNCHANGED rows
       ELSE /\ status' = [status EXCEPT ![j] = verdict[j]]
            /\ lease' = [lease EXCEPT ![j] = "null"]
            /\ result' = [result EXCEPT ![j] = verdict[j]]
            /\ UNCHANGED <<attempts, created>>
    /\ UNCHANGED <<ledger, threads, process, counters,
                   bpc, bfound, mine, verdict, boutput, bulkRuns>>

\* Mutant: the status is written and the result is not.
BulkMarkResult_ResultLost(j) ==
    /\ bpc = "write" /\ j \in todo
    /\ IF verdict[j] = "timeout" THEN noted = j ELSE noted = NoJob
    /\ noted' = NoJob /\ todo' = todo \ {j}
    /\ status' = [status EXCEPT ![j] = verdict[j]]
    /\ lease' = [lease EXCEPT ![j] = "null"]
    /\ UNCHANGED <<result, attempts, created, ledger, threads, process, counters,
                   bpc, bfound, mine, verdict, boutput, bulkRuns>>

\* mark_job_result, whatever the row says by now.
BulkMarkResult(j) ==
    /\ bpc = "write" /\ j \in todo
    /\ IF verdict[j] = "timeout" THEN noted = j ELSE noted = NoJob
    /\ noted' = NoJob /\ todo' = todo \ {j}
    /\ status' = [status EXCEPT ![j] = verdict[j]]
    /\ lease' = [lease EXCEPT ![j] = "null"]
    /\ result' = [result EXCEPT ![j] = verdict[j]]
    /\ UNCHANGED <<attempts, created, ledger, threads, process, counters,
                   bpc, bfound, mine, verdict, boutput, bulkRuns>>

BulkWritten ==
    /\ bpc = "write" /\ todo = {}
    /\ bpc' = "finish"
    /\ UNCHANGED <<vars, bfound, todo, mine, verdict, noted, boutput, bulkRuns>>

\* refresh, materialize, refresh.
BulkFinish ==
    /\ bpc = "finish" /\ bpc' = "returned"
    /\ boutput' \in Materialized
    /\ quarantined' = quarantined \cup OverThreshold
    /\ probation' = probation \cup OnProbation
    /\ mine' = {} /\ verdict' = [j \in Jobs |-> "none"]
    /\ UNCHANGED <<rows, events, threads, process, counters,
                   bfound, todo, noted, bulkRuns>>

\* The process dies, or a chunk raises outside the auditor: nothing that was
\* computed and not yet written survives.
BulkDies ==
    /\ bpc \notin {"off", "returned", "raised"} /\ deaths < MaxDeaths
    /\ bpc' = "raised" /\ deaths' = deaths + 1
    /\ abandoned' = abandoned \cup mine
    /\ mine' = {} /\ todo' = {} /\ bfound' = {} /\ noted' = NoJob
    /\ verdict' = [j \in Jobs |-> "none"]
    /\ UNCHANGED <<rows, ledger, threads, process, reclaims, batches, starts, cancels,
                   boutput, bulkRuns>>

BulkStep ==
    \/ BulkRefreshRead \/ BulkRefreshWrite \/ BulkSelect \/ BulkScreened
    \/ BulkMarked \/ BulkRun \/ BulkWritten \/ BulkFinish
    \/ \E j \in Jobs : \/ BulkScreen(j) \/ BulkMarkRunning(j)
                       \/ BulkRecordTimeout(j) \/ BulkMarkResult(j)

BNext ==
    \/ Next /\ UNCHANGED bulk
    \/ BulkStart \/ BulkStep \/ BulkDies

BSpec == BInit /\ [][BNext]_bvars

\* A chunk is compiled under timeout_s and halved finitely often (BulkChunk),
\* and everything else the runner does is one transaction after another.
BFairSpec == BSpec /\ WF_bvars(BulkStep)

-----------------------------------------------------------------------------
(* Properties *)

Held(j) == \E w \in Workers : pc[w] \in Owning /\ job[w] = j

\* A row of either runner is never stranded, although the bulk runner holds no
\* lease and both overwrite each other's status: a row that reads leased or
\* running is in the hands of a live worker, or of the bulk runner, which will
\* still write it, or whoever held it died.
NoStrandedBulkRow ==
    \A j \in Jobs : status[j] \in {"leased", "running"} =>
        \/ Held(j)
        \/ j \in mine /\ bpc \in {"screen", "mark", "run", "write"}
             /\ (bpc = "write" => j \in todo)
        \/ j \in abandoned

\* The attempt budget with the bulk runner on the table: it is one more actor
\* that may have selected the row in the same window, and every selection of a
\* row that reads running, which its missing lease invites at once, counts as
\* a reclaim.
BulkAttemptBudget ==
    \A j \in Jobs : attempts[j] <= MaxAttempts + Cardinality(Workers) + reclaims[j]

\* What the bulk runner returns: every row it ran is in its output, by itself
\* or by a row with the same state and action, unless a supervised worker has
\* reopened it and holds it or died over it, or it was cancelled.
BulkComplete ==
    [][bpc = "finish" /\ bpc' = "returned" => \A j \in mine :
          \/ \E k \in boutput' : StateOf[k] = StateOf[j] /\ ActionOf[k] = ActionOf[j]
          \/ status[j] \in {"leased", "running"} /\ (Held(j) \/ j \in abandoned)
          \/ status[j] = "cancelled"]_bvars

\* An invocation of the bulk runner ends, whatever the workers do meanwhile.
BulkEnds == bpc = "refresh" ~> bpc \in {"returned", "raised"}
=============================================================================
