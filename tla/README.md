# TLA+ specifications of lean_rgc

`lean_rgc` (the Lean-RGC automation stack) audits Lean 4 tactics at scale. It
queues (task, tactic) pairs, runs them in Lean processes, turns the verdicts into
response records, learns quotients of those, and promotes the survivors. This
directory models the parts of it that keep state across steps and can go wrong
between two of them: the job queue with its workers, their child processes, the bulk
runner and the result cache; audits through a Lean server; the recovery coordinator and
the attempt ledger of the RPC evaluation; and the native kernel RPC session.

| Section | |
|---|---|
| [1](#1-inventory) | inventory of the system, hard behaviours |
| [2](#2-modules) | the modules and how they correspond to the code |
| [3](#3-runs) | what TLC checks, on which instances |
| [4](#4-fairness) | fairness |
| [5](#5-proofs) | what is proved, from what, along which argument |
| [6](#6-disagreements-between-comments-and-the-code) | two disagreements between comments and the code |
| [7](#7-limits) | what is only model-checked, what is not modelled |
| [8](#8-plan) | plan |

To reproduce: `tlc -config MCAuditQueueRace.cfg MCAuditQueue` (likewise for the other
`MC*.cfg` files; the prefix of a file's name is its module) and
`tlapm AuditQueueProofs.tla` (likewise for the other `*Proofs.tla`).

## 1. Inventory

Paths are relative to `src/lean_rgc/`. `PROJECT.json` lists every component with its
files; the table has those that keep state.

| Component | Source | State | Operations | Talks to | Correct when |
|---|---|---|---|---|---|
| Audit job queue | `audit_job_queue.py` | SQLite table `audit_jobs`: status, lease, attempts, result | enqueue, lease, mark running, mark result, cancel | all workers, bulk runner, result cache | a row is not run beyond its budget, never stranded, its verdict never lost |
| Supervised workers | `lean/worker_supervisor.py` | worker threads, slot counter, the row each has in hand | take slot, refresh quarantine, lease, check, run in a child process, record, mark | queue, timeout ledger, quarantine | every job asked for is settled and materialised, `max_jobs` holds, the run ends |
| Timeout ledger, action quarantine | `timeout_ledger.py`, `action_quarantine.py` | tables `timeout_events`, `action_quarantine` | record, refresh, ask | workers | an action that keeps timing out is stopped near its threshold |
| Job process | `lean/worker_supervisor.py`, `lean/executor.py` | child process, Lean process, result pipe, two deadlines | start, run, put, join, kill, read | workers | a verdict is the child's own, the call returns |
| Bulk runner | `lean/worker_supervisor.py`, `lean/bulk_executor.py` | the rows of a run, chunks, recursion over halves | select, mark, run chunks, confirm, write | queue | each row gets one result, and a neighbour's trouble is not its own |
| Result cache | `audit_result_cache.py` | table of results by fingerprint and tactic | look up before a run, store after it | queue, working directory | no hit from another build |
| Recovery coordinator | `evals/uprime_rpc_synthetic_recovery_coordinator.py` | lifecycle, marker, epoch and replay counters, active epoch, witness; one lock | publish, acquire, release, abandon, replay, consume; snapshot (read-only) | fake CAS kernel, staging publisher | its verdict is the truth about the cell, four epochs at most, nothing undone |
| Fake CAS kernel | `evals/uprime_rpc_fake_cas_kernel.py` | none (a transition function) | compare and swap under a directive | coordinator | |
| Staging publisher | `evals/uprime_rpc_local_staging_fake_publisher.py` | files by nonce | create, write in chunks, read back | file system | a stage is never overwritten; a complete stage is recognised |
| Kernel worker | `native_lean/RGCKernelRPC.lean` | table of proof states, next id | load, init, apply, discard, status, shutdown | pipes | what it stored is what it said |
| RPC transport and strict adapter | `lean/kernel_rpc_client.py` | process handle, response queue, stdout thread, owned state ids | round trip with a deadline, stop, close | kernel worker | a response belongs to the request that waits; owned ids are the worker's |
| History session and closure builder | `evals/uprime_kp3_d4_canonical_history.py` | handles, representatives, rows, duplicates, first error | expand, audit, clean up, close, register | adapter | a registered result is complete and its worker left clean |
| Lean server, persistent workers | `lean/server.py`, `batch.py`, `lean/persistent_*worker.py`, `native_lean/RGCKernelRPC.lean` | JSON lines process, reader threads, proof states, rows in memory and on disk | load, register, branch, apply, fall back, flush, resume | file executor | a row carries its own verdict; a run that returns is complete |
| Attempt ledger | `evals/uprime_rpc_ledger.py` | append-only file, head, tracked size | create, append, close, abandon, scan | file system, semantics and manifests | an attestation is true, an acknowledged record stays |
| POMS promotion, defect ontology | `poms_promotion*.py`, `poms_status.py`, `defect_ontology*.py` | statuses of candidates and entries | promote, demote, retire | audit results | no promotion without its evidence |

**How they interact.** Worker threads share only the database, each through its own
connection; every call is one transaction, but a lease and a quarantine refresh are a
read and a later write. Publishers share the coordinator's lock, which `publish` gives up
while it stages. The history session owns one worker process and talks to it over
two pipes; a daemon thread moves its output into a queue. The bulk runner and the workers
share the queue's table, two runs share the cache, two invocations the output directory,
and writers and readers of a ledger nothing but its path.

**What is hard.** The full list, with source lines, is under `hazards` in
`PROJECT.json`; by kind:

- *Between a read and the write that relies on it*: a lease selected and then updated
  without re-checking, a quarantine read before the job, a fingerprint taken before the run.
- *Ownership without the lock*: `publish` between its reservation and its commit.
- *A step of several failing*: any call of the staging sequence may raise; the worker may
  store a state and report an error; a discard may be refused after it was done.
- *Late and missing answers*: a deadline racing an answer, a death at any byte, an interrupt
  that leaves a wait behind, replies that are matched by their place alone.
- *Death and restart*: a worker thread dies holding a row; only its lease gives the row back;
  a process ends inside a flush of two files; power fails between a write and its fsync.
- *Other programs*: a build under a running audit, bytes appended to a ledger that is being
  written or scanned, a path that leads to another file with the same inode number.
- *Bounds*: four epochs, `max_jobs`, retries, the cap on representatives, short writes.
- *Termination*: workers that leave while others may still fail; a worker process that stops
  answering; `PUBLISHING`, which excludes everything else.

## 2. Modules

| Module | Models | Uses |
|---|---|---|
| `AuditQueue` | queue, supervised workers, timeout ledger, quarantine | |
| `JobProcess` | one job in its child process | |
| `BulkChunk` | one chunk of the bulk runner: one Lean file, attribution, confirmation, halving | |
| `BulkQueue` | the bulk runner on the table of the workers | extends `AuditQueue` |
| `AuditCache` | fingerprint, lookup, run, store, over several invocations | |
| `ServerAudit` | audits through a Lean server, with flush and resume | |
| `FakeCas` | the CAS transition function and its refusals | |
| `RecoveryContract` | abstract: what recovery promises | |
| `RecoveryCoordinator` | coordinator and staging publisher | extends `FakeCas`, instantiates `RecoveryContract` |
| `ChainLedger` | writers and scans of the attempt ledger | |
| `KernelTransport` | worker process, pipes, stdout thread, one round trip | |
| `KernelSession` | adapter, session facade, closure builder | extends `KernelTransport` |
| `AuditQueueProofs` | theorems about `AuditQueue` and `BulkQueue` | extends `BulkQueue` |
| `RecoveryCoordinatorProofs`, `KernelSessionProofs`, `ServerAuditProofs`, `ChainLedgerProofs`, `JobProcessProofs`, `AuditCacheProofs`, `BulkChunkProofs` | theorems | extend the module they are about |
| `MC...` | instances for TLC | extend the module they instantiate |

An operator named `X_Reason`, placed before `X`, is a mutant of `X`: the definition with a
plausible mistake in it. `PROJECT.json` lists for each property the mutant that breaks it.

### AuditQueue

| State | In the code |
|---|---|
| `status`, `lease`, `attempts`, `created`, `result` | columns of `audit_jobs`; a lease is `null`, `live` or `lapsed`, because the code only compares it with the clock |
| `events`, `quarantined`, `probation` | `timeout_events` (job and scope), `action_quarantine` |
| `pc`, `job`, `outcome`, `found` | program counter and locals of `worker_loop` |
| `phase`, `slots`, `executed`, `asked`, `output` | `run_supervised_audit_queue` and what it writes |
| `reclaims`, `abandoned`, `batches`, `starts`, `deaths`, `cancels` | history the properties speak of, and the counters of the bounds |

One action is one transaction. `Select` and `Lease` are the two halves of
`lease_next_job`, `RefreshRead` and `RefreshWrite` those of `refresh_action_quarantine`.
`RunJob` leaves the job's outcome open: success, failure, killed at the deadline, or a
timeout the job itself reports. `WorkerDies` may strike in every step; `StartRun` begins
another invocation on the table that the last one left. `abandoned` remembers every row whose
holder died and never shrinks: that a later invocation takes such a row up again is not said by
the properties that excuse it.

### JobProcess

`parent` is the worker thread in `_run_job_process`, `child` and `lean` the two processes
below it, `message`, `putAt` and `sent` the pickled result, when it was put and how much of it
the queue's feeder thread has written. The pipe holds `Capacity` units without a reader, and a
child exits only when its feeder is done, so the join before the read (`:251`) waits for the
deadline when the result is larger. Time is counted in ticks up to the job's deadline; the
executor's own limit may be shorter, equal or longer. These are the outcomes that `RunJob` of
`AuditQueue` leaves open.

### BulkChunk, BulkQueue

A script is abstracted to what it does to the file it shares: prove, warn, fail, run out of
heartbeats, leave a construct open, open a comment, or take too long. `Messages` is Lean on
such a file. Lean may also die at any block (`Dies`): a file with a nonzero exit and some
located message goes by its messages, and one without any (`Silent`) puts a global message on
every block and fails them all without a retry. The attribution by line numbers, the
confirmation of successes and the halving after a timeout follow the code; `stack` is the
recursion. `Alone`, the verdict of `run_tactic`, is the reference the labels are compared with.

`BulkQueue` puts the runner beside the workers of `AuditQueue`, whose actions it reuses: it
selects all rows at once, screens them against the quarantine, marks them running without a
lease, and writes the results after the last chunk. `BulkDies` may strike at any step.

### AuditCache

`disk` is the contents of the working directory, and a result is represented by the contents it
was computed in: for each file what it held at some moment of the audit (`span`), since Lean
opens its files when it gets to them. A worker selects a row, leases it, audits it and marks it
in steps of their own, and a worker started by one run takes rows of any run in the shared
queue. Hashing goes file by file while the directory may change (`Change`) or turn unreadable;
an unreadable tree gets a fresh nonce. What is stored is the queue status `succeeded`, which
says that the audit came to an end: a tactic that Lean rejects has it too
(`lean/worker_supervisor.py:283`) and its result is cached. The rest of the queue is left out.

### ServerAudit

| State | In the code |
|---|---|
| `wait`, `live`, `stale`, `turn`, `pipe`, `buf` | the request under way, its reader thread, the readers of requests that timed out, the lock of the stream's buffer, the bytes in the pipe and the decoded text |
| `inbox`, `states`, `alive` | the server process and its table of proof states |
| `backend`, `rpc`, `base`, `branch`, `item`, `done` | the adapter's status and the locals of `audit_with_lean_server` |
| `audits`, `responses`, `disk` | the rows in memory and the two files |
| `late`, `cutShort`, `resumed` | history: a request to this server has timed out; an invocation ended inside a flush; this one has resumed what such a flush left |

A proof state is its task and the actions applied, so a verdict says on which state it was
reached. One configuration of `Init` chooses the mode, the stateful protocol and the fallback.
`Crash` may strike at any step and leaves a file that is being rewritten cut anywhere.

### ChainLedger

A file is named after the writer that created it; `path` says which one the path leads to, and
inode numbers of files nobody holds are given out again. A digest stands for what it binds:
the line of a record carries the whole chain up to it. `_append_record_locked` is five steps
(limits and first fstat, write, fsync, second fstat), a scan one step per line of each of its
two passes and one for each stat. Every system call may fail, other programs may append,
overwrite a line without a trace in the times, or unlink the path, and `PowerLoss` keeps what
was synced. Scans change nothing, so that one at a time shows all that a scan can see.

### FakeCas, RecoveryCoordinator, RecoveryContract

`st` is the coordinator's frozen state record, `profile` and `alternate` what it was built
with, `action` what the last operation returned, `pc` and `call` the position and the locals
of each thread inside `publish`, `stage` the file of each nonce. The five
operations that hold the lock throughout are one action each. `publish` is a step for each
point at which another thread or the file system can be seen: reserve under the lock, derive
the plan, create the file exclusively, write chunk by chunk (`os.write` may accept fewer bytes
than asked), read back, classify, commit under the lock. `PublishRaises` may interrupt any of
the unlocked ones, and `PublishFinally` is the `finally` block. Callers present any handle
they may hold, old ones included (`Handles`), and the wrong witness or purpose.

Digests stand for what they digest. The validators of the source (`_validate_state`,
`_terminal_row_is_reachable` and the outcome tables) are translated as predicates and serve
as properties (`SnapshotValid`, `ActionCoherent`): the code must never build what it refuses.

`RecoveryContract` says what is promised without publish steps, plans or files: recovery
begins, uses up attempts within its budget, and ends once, recovered (never after a
tampered change) or blocked; its receipt is spent at most once. `ImplementsContract` maps the coordinator's state to it.

### KernelTransport, KernelSession

| State | In the code |
|---|---|
| `proc`, `live`, `nextId`, `inbox`, `reply`, `wire` | the worker: its process, its table of states, the request read and the line being written; its two pipes |
| `responses`, `reader`, `closed`, `call`, `serial` | the transport: response queue, stdout thread, `_closed`, the request that waits, request ids |
| `owned` | the adapter's `_owned_state_ids` |
| `handles`, `reps`, `pending`, `rows`, `dups`, `cursor`, `act`, `task` | the builder |
| `drop`, `todo` | a discard to be done next; what the clean-up has still to release |
| `error`, `closeError`, `registered` | the exception in flight, the first of the clean-up, the registry |

A request is one `Call...` and one `Recv...` action, with the worker, its death, the stdout
thread and an interrupt in between. The worker's answers are abstracted to what the client
tells apart (`Results`), malformed and torn lines included; the parsers to what they accept
and refuse. `Index` is the canonical index of an observation and need not be injective: a
collision is what the builder's normalization check is for. `ErrorClass` is the order of the
`except` clauses. An interrupt may strike during any wait of the run proper, and the wall clock
may run out wherever the builder looks at it (`WallExceeded`).

The facade may refuse what the adapter has accepted, with the transport open: a signature over
the byte cap, lost evidence, a transition over its wall (`FacadeErrors`, in `RecvInit`,
`ApplyRefused` and after the discard of a terminal child in `RecvDiscard`). No `except` clause
of the builder names those closure errors, and they count as failed executions.

## 3. Runs

All runs but `recovery` set `CHECK_DEADLOCK FALSE`, because the programs end; the
coordinator's operations are always callable, and its run checks deadlock.

| Run | Instance | Distinct states | Properties | Shows |
|---|---|---|---|---|
| `queue_race` | 2 workers, 2 jobs of one action, one of them in the heavy lane, 1 attempt, 1 start, 1 death, 1 cancel, 1 reclaim | 2,559k | `TypeOK`, `NoStrandedRow`, `AttemptBudget`, `RunComplete`, `CancelStopsUnheldJobs` | two workers may run one row, but only `workers - 1` times too often; no row is stranded; what a supervisor returns is complete; a cancelled row that nobody holds stays cancelled |
| `queue_caps` | 2 workers, 3 jobs of one action, 2 attempts, threshold 1, `max_jobs` 2, stop on timeout, 2 starts, 1 death, fair | 200k | `CapsHold`, `VerdictIsFinal`, `RunEnds` | the jobs another worker has under way overshoot the threshold by one and no more; threads that take and give back slots lose none; a verdict is overwritten only by a worker that already had the row; invocations end |
| `job_process` | results of 1 to 3 units in a pipe of 2, deadline 2, executor limits 1 to 3 | 1.9k | `SuccessIsRead`, `KilledMeansLateOrLarge`, `CallReturns` | successes are real; a kill is the action's fault or that of a large result; the call returns but for half a message |
| `bulk_chunk` | 4 jobs, scripts of all 6 kinds and a slow one, with and without imports, Lean dying anywhere | 195k | `TypeOK`, `LabelsAreEarned`, `FalseFailureIsExplained`, `AttemptsBounded` | no false success, no neighbour's timeout, and exactly three sources of false failures |
| `bulk_queue` | 1 worker, 1 job, 2 attempts, 2 bulk runs, 1 death, 1 cancel, 1 reclaim | 726k | `NoStrandedBulkRow`, `BulkAttemptBudget`, `BulkComplete`, `BulkEnds` | both runners on one row: neither strands it, the slack of the budget is known |
| `cache_runs` | 2 runs, one read-only, a worker each, 1 task, 2 files, 2 invocations each, 1 change, 1 fault | 2,100k | `FalseEntryHasCause`, `AuditsUndisturbed`, `UnreadableNeverHits` | an entry is wrong for one of two reasons only; the cache settles no row under a worker and replaces no verdict |
| `cache_stale` | the same, changes only between invocations | stops early | `NoFalseHit` (violated) | section 6 |
| `server_audit` | 3 pairs of 2 tasks, flush every 2, 1 line of noise, 2 failures, 2 invocations | 3,004k | `VerdictIsOwn`, `ReturnsComplete` | replies matched by place alone are still the right ones, with one exact exception; a run that returns is complete |
| `recovery` | 2 threads, 2 nonces, payloads of 0 and 3 bytes in chunks of 2, 5 profiles, fair | 106k | `TypeOK`, `SnapshotValid`, `ActionCoherent`, `DiskAgrees`, `NeverRefusesItself`, `NothingRewritten`, `ImplementsContract`, `PublishWindowCloses` | no legal sequence of calls leads to a state or an answer the validators refuse; lifecycle and disk agree whatever raises; the contract is implemented; `PUBLISHING` is always left |
| `ledger` | 2 writers and a reader, 2 inode numbers, 3 records, 4 bytes, lines of 1 or 2, 1 fault | 1,084k | `AttestationIsTrue`, `WriterPromise` | two passes make a snapshot; a close attests the writer's own records; acknowledged records stay and can be closed |
| `kernel_session` | 1 task, 3 observations of which 2 collide, 2 actions, cap 1, 1 duplicate, fair | 784k | `TypeOK`, `LedgersAgree`, `RegisteredMeansClean`, `LateLineNeverMistaken`, `VerdictMatchesCause`, `RunEndsAndWorkerIsGone` | the ledgers agree through every outcome; no late line reaches another request; a failure is classified by its cause; every run ends and leaves no process |
| `kernel_tracked` | 1 task, 2 observations, 1 action, cap 2 | stops early | `TargetsTrackedByAcquire` (violated) | section 6 |

**Why the bounds are enough.**
Every race in the queue is between two holders of one row, so two workers and the rows
they fight over show it, and the bulk runner is the second holder in `bulk_queue`. Retries and
restarts are in `queue_caps`, where two starts are the shortest restart; `queue_race` has one
attempt and one start, and the theorems carry its properties to all numbers. `queue_caps` has three jobs so that
two can time out while a third is left, leases that do not run out (`LeasesExpire`), and a bound
on reclaims that is never met, so that `RunEnds` owes nothing to it. The two bulk runs of
`bulk_queue` follow each other. Three bytes in chunks of two need
two full writes or more short ones, and the empty payload none. Two threads are one inside
`publish` and one outside; the five profiles and the four epochs are the code's own. A chunk of
four is halved twice, so a slow script has neighbours in both halves. Results of one to three
units lie below, at and above the capacity of the pipe, and the executor limits below, at and
above the deadline. Three pairs are one flush in the middle and one at the end, a second action
of a registered task and a change of task; two failures are a timeout and whatever follows it.
A ledger of three records and four bytes meets the record limit and the byte limit one before
the other and both at once, and one fault is one interference at any point of a full run of two
writers, the second of which may get the inode number of the first. In the kernel session three
observations give a representative, a new state and a collision, and cap 1 makes it full.
Symmetry is declared in the workers of `queue_race`, the files of `cache_runs` and the writers
of `ledger`, which are interchangeable and occur in no liveness property. The theorems of section 5 hold for all sizes.

**Properties that state an exact slack.** Some limits are not kept by the code, and the property
says by how much or when, instead of that they are. `AttemptBudget`, `BulkAttemptBudget` and the
overshoot in `CapsHold`: the unguarded update after the select (`audit_job_queue.py:286`) and
the early quarantine read (`lean/worker_supervisor.py:435`); both are met with equality, in
`queue_race` and `queue_caps`.
`KilledMeansLateOrLarge`: the join before the read. `FalseFailureIsExplained`: failures of a bulk
file are not confirmed, so that an open comment, a script's own warning and a Lean process that
dies without a located message make false ones (`lean/bulk_executor.py:320`).
`FalseEntryHasCause`: a cache entry becomes false by a change between the hashing and the store
(`moved`), or between a row's audit and the invocation that stores it (`carried`).
`VerdictMatchesCause`: a failed execution is not always a broken exchange, because the facade's
refusals of a good answer count as one.
`VerdictIsOwn`: in the stateful mode, which goes on with the same server after a timeout, a late
reply may be taken for that of a later request, for rows written after the timeout. `ReturnsComplete`: after a crash inside a flush the rows of
`micro_audit.jsonl` may be missing or double for good, while `responses.jsonl` stays right.

## 4. Fairness

| Specification | Assumed | Because |
|---|---|---|
| `AuditQueue!FairSpec` | every worker's step, `FinishRun`, `AbortRun` (weak) | a job runs in a child process that is joined with a timeout and then killed; the supervisor waits for its futures |
| `RecoveryCoordinator!FairSpec` | each thread's next publish step (weak) | the unlocked part waits for nobody, and each holder of the lock lets it go within one step |
| `JobProcess!FairSpec` | the worker thread, the child's own steps, the clock (weak) | `join` has a timeout and the kill follows it; nothing is assumed of Lean, which may run for ever |
| `BulkQueue!BFairSpec` | the bulk runner's next step (weak) | each of its files has a time limit, and it waits for no worker |
| `KernelSession!FairSpec` | the caller, whose wait may always end at its deadline; the stdout thread; the death of a signalled process (weak) | `queue.get` has a timeout and `_stop_locked` escalates from terminate to kill. Nothing is assumed of the worker: it may stop answering, or never exit |

The other modules check safety only. No fairness is assumed of callers, of lease expiry, of deaths or of interrupts.

## 5. Proofs

Every safety invariant and every action property that a passing run checks is also a theorem,
for all values of the constants.

| Module | Theorem | States |
|---|---|---|
| `AuditQueueProofs` | `TypeCorrect` | `TypeOK` |
| | `NeverStranded` | `NoStrandedRow` |
| | `AttemptsBounded` | `AttemptBudget` |
| | `CapsRespected` (from `OvershootBounded`, `SlotsConserved`) | `CapsHold` |
| | `RunsAreComplete` | `RunComplete` |
| | `CancelIsFinal` | `CancelStopsUnheldJobs`, an action property |
| | `VerdictsStand` | `VerdictIsFinal`, an action property, for any number of workers |
| | `VerdictsStandAlone` | with one worker and no `cancel_jobs` a verdict is never touched again |
| | `NeverStrandedBulk`, `BulkAttemptsBounded` | `NoStrandedBulkRow`, `BulkAttemptBudget` of `BulkQueue` |
| | `BulkReturnsComplete` | `BulkComplete`, an action property |
| `JobProcessProofs` | `SuccessIsNeverMadeUp`, `KilledIsExplained` | `SuccessIsRead`, `KilledMeansLateOrLarge` |
| `BulkChunkProofs` | `PartsShareTheChunk`, `HalvingEnds` | `TypeOK`, `AttemptsBounded` |
| | `LabelsEarned`, `FailuresExplained` | `LabelsAreEarned`, `FalseFailureIsExplained` |
| `AuditCacheProofs` | `EntriesExplained`, `HitsDisturbNothing`, `UnreadableHasNoIdentity` | `FalseEntryHasCause`, `AuditsUndisturbed` (an action property), `UnreadableNeverHits` |
| `ServerAuditProofs` | `VerdictsAreOwn`, `ReturnsAreComplete` | `VerdictIsOwn`, `ReturnsComplete` |
| `RecoveryCoordinatorProofs` | `TypeCorrect`, `SnapshotsValid`, `ActionsCoherent` | `TypeOK`, `SnapshotValid`, `ActionCoherent` |
| | `DiskAgreement` (from `RecoveredIsIntended`, `OpenIsClean`) | `DiskAgrees` |
| | `SelfConsistent` (from `ReplayInBounds`, `Exclusive`, `WriteCount`) | `NeverRefusesItself` |
| | `Permanence` (from `HistoryIsPermanent`, `StagesAppendOnly`) | `NothingRewritten`, an action property |
| | `Refinement` | `ImplementsContract` |
| `ChainLedgerProofs` | `AttestationsAreTrue`, `WritersKeepTheirPromise` | `AttestationIsTrue`, `WriterPromise` |
| `KernelSessionProofs` | `TypeCorrect`, `LateLines`, `ThreeLedgers`, `Registered` | `TypeOK`, `LateLineNeverMistaken`, `LedgersAgree`, `RegisteredMeansClean` |
| | `Verdicts` | `VerdictMatchesCause`, an action property |

The assumptions are the named `ASSUME`s of the modules, which TLC evaluates in every run:
workers and jobs are finite sets, attributes are functions into their sets, limits, sizes and
bounds are natural numbers, chunk, capacity and the number of tasks are positive, and a null
value is none of the values it stands in for. Faults, deaths, cancellations, foreign writes and
starts are bounded by constants of which nothing but `\in Nat` is assumed.

**AuditQueue.** `NoStrandedRow` is inductive together with `TypeOK`. The others are not,
because they say nothing of the workers under way:

- `BudgetInv` bounds `attempts[j]` plus the workers that have picked `j` and will still count
  an attempt (`Pickers(j)`). `Select` adds a picker only while the budget leaves room or a
  lease was reclaimed, and `MarkRunning` turns a picker into an attempt.
- `OvershootInv` bounds, for every action, the jobs that have timed out (`Timed`) plus the
  workers that may still add one (`Pending`): their last look at the ledger found the action
  below the threshold and nobody has quarantined it since, or they are past the check. A
  worker enters `Pending` only below the threshold and leaves it when its job times out.
  `HeldPresent` and `EventsPresent` say that a held row and a row with an event are in the
  table, since the refresh counts only those.
- `SlotInv` counts the busy workers, so that the three terms move together.
- `CompleteInv` is about the moment at which the last worker leaves: its `SELECT` was empty, so
  nothing is eligible (`FirstExists`: a finite, non-empty set of eligible rows has a first one,
  by the least number of predecessors), nobody else holds a row, and with `NoStrandedRow` every
  row asked for is settled, cancelled, of another lane, or left by a dead worker (`Attended`).
  `ResultsKept` carries settled rows into the output.
- `VerdictsStand` follows from the `WHERE` clause of the `SELECT` and `TypeOK` alone;
  `VerdictsStandAlone` needs that the single worker has nothing settled in hand
  (`UnsettledInHand`).

**BulkQueue.** The workers' steps keep the invariants above, the runner's are added. `BulkTypes`
says what the runner's two sets of rows hold at each of its steps. In `BulkBudgetInv` the runner is one more
picker: from its `SELECT` until it has marked the row. `ReturnInv` says that every row it
has marked stays started until it returns, whatever the workers do to it.

**BulkChunk.** The parts on the stack lie in order, without gap, none of them empty, from the
first job without a result to the last one (`Shape`), and `attempts + Len(stack) = 2 * splits + 1`.
A label is earned because a success is that of a file of one script and a timeout is recorded
for a part of one job only. For failures the proof follows every message to the block that owns
its line, and needs that a script which Lean reads takes its part of the file's time: that a sum
over a sequence is no less than any of its terms. The recursion of the fold is justified with
the least size at which it could fail (`SumExists`, `SumBounds`), which takes the place of an
induction.

**JobProcess.** `ClockInv` is the point: time passes only while the child waits for Lean,
within the executor's limit, or for a pipe that is full. So a kill at the deadline has one of
the two as its reason.

**AuditCache.** `CalmInv`: as long as nothing has changed since an invocation began to hash,
what it has hashed is the directory as it is. `FreshInv`: the same for what an audit has read
since it began, and for a row since its audit. With both unbroken, key and result are of the same
contents. `AuditInv`: a row under audit has left `queued`, which is all the cache touches.
`NonceInv`: a nonce is given out once, and its entries are stored when the invocation that has
it ends.

**ServerAudit.** `ExchangeInv` says where the one exchange stands: until a request has timed out
there is one request or one reply under way, never both, noise aside, and the reply answers the
request that waits, with a state id of its task (`RequestInv`). `ModeInv`: outside the stateful
mode a timeout ends the use of the server. `ProgressInv` says which pairs have a row at every
place of the loop, and `AgreeInv` when the two files agree. The first attempt at the proof
failed for cause: the property had excused only replies shifted by noise and a timeout together,
and rows missing after a crash in the same invocation. A late reply that is already decoded text
needs no noise, and a cut-short file is resumed by every later invocation. Both are now
in the model (`late`, `resumed`), checked, and part of the statements.

**RecoveryCoordinator.** One invariant serves all theorems: `Inv` joins `TypeOK`,
`SnapshotValid`, `ExclusiveWindow` and `RecoveredMeansIntended` with `CallsInv` (what the
locals of a thread inside `publish` say of the plan, the marker and the file, step by step),
`StagesInv` (while the coordinator is open or publishing, a file is complete and
acknowledged or belongs to the publish under way) and `AlternateInv` (the alternate payload
exists in exactly one profile). The operations that hold the lock are first reduced to four
effects on the state (`Issues`, `GoesPending`, `Ends`, `Spends`), each shown valid once;
`publish` has a lemma per step. The refinement follows from the same effects, each being one
step of the contract or none. `ActionCoherent` is shown from `Inv` outcome by outcome: the
cursor rule of `_validate_action` for a retried replay, for instance, rests on which rows the
plan of a profile has (`CursorRow`).

**ChainLedger.** `Kept`: while nobody has overwritten a line of the file, the acknowledged
records are its first lines, and on the disk. `Tracked`: a writer that finds the size it expects
finds its own lines and no others. `ScanInv`: a line that is part of a chain was never anything
else, because lines are appended or spoiled and never restored; so two equal passes show one
file. `Quiet`, `QuietScan` and `Sums` carry the second half of the promise: without
interference the scan of a closing writer succeeds.

**KernelSession.** `FlightInv` says where the one outstanding exchange is (request, line being
written, pipe or response queue) as long as the transport is usable. `LedgerInv` says what an
answer that is still on its way means for the ledgers: worker, adapter and builder agree once it
has been received; the facade's refusals end the run with the state owned and no handle, which
the ledgers' invariant allows once there is an error. `CallInv`, `DropInv`, `PhaseInv` say who waits for what, `RunInv` keeps representatives
and duplicates apart, and `RowsInv` says which rows are sealed at each position of the builder,
which makes a registered result closed and complete.

## 6. Disagreements between comments and the code

**A target the clean-up does not know.** `evals/uprime_kp3_d4_canonical_history.py:1557` says of the builder's clean-up: "Any target
created immediately before a failing validation is still tracked by acquire". `acquire` runs
only after the facade has returned. If the adapter refuses a state that the worker has stored
(a terminal initial state, `lean/kernel_rpc_client.py:1901-1902`; a retained child whose
evidence fails, `:1962-1964`), or the facade what the adapter returned (a signature over the
byte cap, `evals/uprime_kp3_d4_canonical_history.py:162`), the id is in the adapter's ledger,
but the builder never receives a handle. The clean-up does not release the state, and the
session's close finds a state left and fails. `kernel_tracked` shows the shortest case, a
refused initial state; a refused child takes one request more. The consequence is limited:
the run had failed already, and `RegisteredMeansClean` and `RunEndsAndWorkerIsGone` hold.

**A false cache hit after a build.** The comment at `audit_result_cache.py:178` calls the
fingerprint "deliberately conservative: a changed but unused local artifact causes a miss rather
than risking a false cache hit". `store_queue_results_in_cache` (`:473`) stores every succeeded
row of the run id under the fingerprint of this invocation, also rows that an earlier one
computed. Run, build, run again with the same run id: the old results are filed under the new
build, and another run gets them as hits. `cache_stale` shows it with a directory that never
changes during an invocation.

## 7. Limits

**Only model-checked**
- Liveness: `RunEnds`, `PublishWindowCloses`, `RunEndsAndWorkerIsGone`, `CallReturns`,
  `BulkEnds`. The prover does not do fairness.
- The two properties that are expected to fail, `TargetsTrackedByAcquire` and `NoFalseHit`
  (section 6).

`RunEnds` is checked with `max_jobs`. Without it two workers may in principle reopen one row for
each other without end: one clears the lease with its result, the other, which had selected the
row before, marks it running, and a running row without a lease can be leased again
(`audit_job_queue.py:290`). A bound on reclaims would hide that.

**Left out of the modelled components**
- Cell values, texts, digests, timestamps other than the order of `created_at`.
- An asynchronous exception between two bytecodes inside a critical section of the coordinator
  (`evals/uprime_rpc_synthetic_recovery_coordinator.py:2520`).
- A keyboard interrupt during the clean-up or the close of a session, after one or none before.
- Writes of a request that fill the pipe (a hazard without a property).
- A kill reaches the child and not the Lean process below it, which goes on as an orphan
  (`lean/worker_supervisor.py:256`): `JobProcess` shows the orphan, no property forbids it.
- The cache's key does not hold `top_preamble` and the extra options of the executor; the model
  has one configuration.
- Of the kernel worker: `rollback_state`, the read-only commands, elaboration. Of the server
  adapter: `structured_state` requests to servers whose audits carry no kernel state, and the
  other three output files of a flush, which are not read again.
- Of the ledger: a line overwritten and later restored within one tick of the clock, which two
  passes cannot see; truncation by another program, and lines of another program that are valid
  records of the chain; the directory entry of a new file, which nothing syncs; malformed bodies.
- Of the history: charts, certificates and official artifacts, which are built from a
  registered result without changing the state modelled here.

**Components not modelled.** `PROJECT.json` gives the reason for each: planned (section 8);
one pass over files with no state of its own (evaluations, the pipeline, reports); floating
point or exact linear algebra (learners, response completion, ODLRQ); checks of one document
(ledger semantics, reservations, manifests); input and output, schemas and the command line.
The implementation has some 129,000 lines, most of them of these kinds, so that the modules
cover a small share of the lines and most of the code that keeps state between steps.

## 8. Plan

| Step | Module | What it is for |
|---|---|---|
| done | `AuditQueue`, `JobProcess`, `BulkChunk`, `BulkQueue`, `AuditCache` | the audit queue and all that works on its table |
| done | `ServerAudit` | late replies, fallback, flush and resume |
| done | `FakeCas`, `RecoveryCoordinator`, `RecoveryContract`, `ChainLedger` | concurrency and partial failure in the RPC evaluation |
| done | `KernelTransport`, `KernelSession` | late answers, deaths, three ledgers |
| done | the eight `*Proofs` modules | all safety properties of the runs, for all values of the constants |
| 1 | `AuditQueueProofs`, `BulkChunkProofs` | further theorems with no run of their own: that the output of a run has no two rows of one pair |
| 2 | `KernelSessionProofs` | an abstract specification of one round trip, and the transport shown to implement it |
| 3 | `Promotion`, `Ontology`, `SourceBudget` | lifecycles of a POMS candidate and an ontology entry; allocation of the audit budget against a reference definition |
