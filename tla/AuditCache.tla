----------------------------- MODULE AuditCache -----------------------------
(***************************************************************************)
(* The result cache across audit runs: audit_result_cache.py and            *)
(* enqueue_and_run_supervised_audit (lean/worker_supervisor.py).  An        *)
(* invocation enqueues the jobs of its run, fingerprints the working        *)
(* directory, settles queued rows from the cache, lets the workers run the  *)
(* rest and stores the rows with the queue status "succeeded" under the     *)
(* fingerprint it took before.  That status means that the audit came to an *)
(* end: a tactic that Lean rejects has it too, and is remembered.           *)
(*                                                                         *)
(* The runs share one queue database and one cache.  A result is            *)
(* represented by the contents of the working directory it was computed     *)
(* in: a hit is right when these are the contents that were fingerprinted.  *)
(* Lean reads a file at some moment of the audit.  The queue is reduced to  *)
(* what the cache sees of it (AuditQueue has the rest): a lease runs out    *)
(* when its process dies, and attempts are not counted.                     *)
(***************************************************************************)
EXTENDS Naturals, FiniteSets

CONSTANTS
    Runs,           \* run ids
    Tasks,          \* a task with a tactic and a state: what the key hashes
    Files,          \* manifest, toolchain and compiled artifacts
    Versions,       \* contents a file may have
    Workers,        \* the worker threads
    Home,           \* the run that starts a worker
    ReadOnly,       \* runs with audit_cache_readonly
    BuildsApart,    \* the directory changes only between invocations
    MaxInvocations, \* bound: invocations with one run id
    MaxChanges,     \* bound: changes of the working directory
    MaxFaults       \* bound: spells of unreadable files, and crashes

ASSUME CacheAssumption ==
    /\ ReadOnly \subseteq Runs /\ Home \in [Workers -> Runs] /\ BuildsApart \in BOOLEAN
    /\ IsFiniteSet(Files) /\ Files # {} /\ 0 \in Versions
    /\ {MaxInvocations, MaxChanges, MaxFaults} \subseteq Nat

VARIABLES
    disk,           \* the working directory
    unreadable,     \* reading one of its files raises OSError
    status, computed, hitUnder,             \* audit_jobs
    chosen, auditing,                       \* the row a worker selected, and audits
    span,           \* what each file has held since a worker's audit began
    steady, fresh,  \* history: nothing has changed since a worker's audit began,
                    \*   and since the audit that gave a row its result began
    cache,          \* audit_result_cache: what is stored, by key
    pc, print, unread, picked,              \* an invocation of a run
    calm,           \* history: nothing has changed since hashing began
    invocations, changes, faults, nonces

jobs == <<status, computed, hitUnder, fresh>>
audits == <<chosen, auditing, span, steady>>
locals == <<pc, print, unread, picked, calm>>
bounds == <<invocations, changes, faults, nonces>>
vars == <<disk, unreadable, jobs, audits, cache, locals, bounds>>

Contents == [Files -> Versions]
Blank == [f \in Files |-> 0]

\* A fingerprint: the hashed contents, or a nonce that nothing else equals.
Prints == [nonce : Nat, files : Contents]
Keys == Tasks \X Prints

NoPrint == [nonce |-> 0, files |-> Blank]
Unbegun == [f \in Files |-> {}]

Set(F, r, v) == [F EXCEPT ![r] = v]

Init ==
    /\ disk = Blank /\ unreadable = FALSE
    /\ status = [r \in Runs |-> [t \in Tasks |-> "absent"]]
    /\ fresh = [r \in Runs |-> [t \in Tasks |-> FALSE]]
    /\ chosen = [w \in Workers |-> {}] /\ auditing = [w \in Workers |-> {}]
    /\ span = [w \in Workers |-> Unbegun]
    /\ steady = [w \in Workers |-> FALSE]
    /\ computed = [r \in Runs |-> [t \in Tasks |-> Blank]]
    /\ hitUnder = [r \in Runs |-> [t \in Tasks |-> Blank]]
    /\ cache = {}
    /\ pc = [r \in Runs |-> "idle"]
    /\ print = [r \in Runs |-> NoPrint]
    /\ unread = [r \in Runs |-> {}]
    /\ picked = [r \in Runs |-> {}]
    /\ calm = [r \in Runs |-> FALSE]
    /\ invocations = [r \in Runs |-> 0]
    /\ changes = 0 /\ faults = 0 /\ nonces = 0

-----------------------------------------------------------------------------
(* The working directory, under which other programs build. *)

\* An audit under way may read the file before or after the change.
Change(f, v) ==
    /\ changes < MaxChanges /\ disk[f] # v
    /\ BuildsApart => \A r \in Runs : pc[r] = "idle"
    /\ disk' = [disk EXCEPT ![f] = v]
    /\ changes' = changes + 1
    /\ calm' = [r \in Runs |-> FALSE]
    /\ steady' = [w \in Workers |-> FALSE]
    /\ fresh' = [r \in Runs |-> [t \in Tasks |-> FALSE]]
    /\ span' = [w \in Workers |-> IF auditing[w] = {} THEN span[w]
                                  ELSE [span[w] EXCEPT ![f] = @ \cup {v}]]
    /\ UNCHANGED <<unreadable, status, computed, hitUnder, chosen, auditing, cache,
                   pc, print, unread, picked, invocations, faults, nonces>>

TurnUnreadable ==
    /\ faults < MaxFaults /\ ~unreadable
    /\ unreadable' = TRUE /\ faults' = faults + 1
    /\ UNCHANGED <<disk, jobs, audits, cache, locals, invocations, changes, nonces>>

TurnReadable ==
    /\ unreadable /\ unreadable' = FALSE
    /\ UNCHANGED <<disk, jobs, audits, cache, locals, bounds>>

-----------------------------------------------------------------------------
(* enqueue_and_run_supervised_audit. *)

\* INSERT OR IGNORE of the jobs.  A job id holds the path of the working
\* directory and not its contents, so an earlier invocation's rows stay.
Begin(r) ==
    /\ pc[r] = "idle" /\ invocations[r] < MaxInvocations
    /\ pc' = Set(pc, r, "hash")
    /\ invocations' = [invocations EXCEPT ![r] = @ + 1]
    /\ status' = Set(status, r, [t \in Tasks |->
            IF status[r][t] = "absent" THEN "queued" ELSE status[r][t]])
    /\ unread' = Set(unread, r, Files)
    /\ calm' = Set(calm, r, TRUE)
    /\ UNCHANGED <<disk, unreadable, computed, hitUnder, fresh, audits, cache, print, picked,
                   changes, faults, nonces>>

\* Mutant: an artifact counts by its name only.
HashFile_NamesOnly(r, f) ==
    /\ pc[r] = "hash" /\ f \in unread[r] /\ ~unreadable
    /\ unread' = Set(unread, r, unread[r] \ {f})
    /\ UNCHANGED <<disk, unreadable, jobs, audits, cache, pc, print, picked, calm, bounds>>

\* workdir_fingerprint reads one file after the other.
HashFile(r, f) ==
    /\ pc[r] = "hash" /\ f \in unread[r] /\ ~unreadable
    /\ print' = [print EXCEPT ![r].files[f] = disk[f]]
    /\ unread' = Set(unread, r, unread[r] \ {f})
    /\ UNCHANGED <<disk, unreadable, jobs, audits, cache, pc, picked, calm, bounds>>

\* Mutant: every unreadable tree has the same marker.
HashFails_Constant(r) ==
    /\ pc[r] = "hash" /\ unread[r] # {} /\ unreadable
    /\ print' = Set(print, r, [nonce |-> 1, files |-> Blank])
    /\ unread' = Set(unread, r, {})
    /\ nonces' = 1
    /\ UNCHANGED <<disk, unreadable, jobs, audits, cache, pc, picked, calm,
                   invocations, changes, faults>>

\* An OSError on the way: _cache_bypass_marker with a fresh nonce.
HashFails(r) ==
    /\ pc[r] = "hash" /\ unread[r] # {} /\ unreadable
    /\ nonces' = nonces + 1
    /\ print' = Set(print, r, [nonce |-> nonces', files |-> Blank])
    /\ unread' = Set(unread, r, {})
    /\ UNCHANGED <<disk, unreadable, jobs, audits, cache, pc, picked, calm,
                   invocations, changes, faults>>

\* apply_cache_to_queue: the SELECT of the run's queued rows ...
Lookup(r) ==
    /\ pc[r] = "hash" /\ unread[r] = {}
    /\ pc' = Set(pc, r, "apply")
    /\ picked' = Set(picked, r, {t \in Tasks : status[r][t] = "queued"})
    /\ UNCHANGED <<disk, unreadable, jobs, audits, cache, print, unread, calm, bounds>>

Cached(key) == \E e \in cache : e.key = key
Entry(key) == CHOOSE e \in cache : e.key = key

\* Mutant: the UPDATE trusts what the SELECT has seen.
Hits_Unguarded(r) == {t \in picked[r] : Cached(<<t, print[r]>>)}

Hits(r) == {t \in picked[r] : Cached(<<t, print[r]>>) /\ status[r][t] = "queued"}

\* ... and the guarded UPDATE of the ones with an entry.
Apply(r) ==
    /\ pc[r] = "apply" /\ pc' = Set(pc, r, "run")
    /\ status' = Set(status, r, [t \in Tasks |->
            IF t \in Hits(r) THEN "succeeded_from_cache" ELSE status[r][t]])
    /\ computed' = Set(computed, r, [t \in Tasks |->
            IF t \in Hits(r) THEN Entry(<<t, print[r]>>).files ELSE computed[r][t]])
    /\ hitUnder' = Set(hitUnder, r, [t \in Tasks |->
            IF t \in Hits(r) THEN print[r].files ELSE hitUnder[r][t]])
    /\ picked' = Set(picked, r, {})
    /\ UNCHANGED <<disk, unreadable, fresh, audits, cache, print, unread, calm, bounds>>

\* lease_next_job: the SELECT of a row of whichever run, queued, to be tried
\* again or left behind by a process that died ...
Select(w, x, t) ==
    /\ pc[Home[w]] = "run" /\ chosen[w] = {} /\ auditing[w] = {}
    /\ \/ status[x][t] \in {"queued", "failed"}
       \/ status[x][t] = "running" /\ \A v \in Workers : <<x, t>> \notin auditing[v]
    /\ chosen' = Set(chosen, w, {<<x, t>>})
    /\ UNCHANGED <<disk, unreadable, jobs, auditing, span, steady, cache, locals, bounds>>

\* ... and the UPDATE by job id alone; the audit begins.
Lease(w, x, t) ==
    /\ <<x, t>> \in chosen[w]
    /\ status' = [status EXCEPT ![x][t] = "running"]
    /\ chosen' = Set(chosen, w, {}) /\ auditing' = Set(auditing, w, {<<x, t>>})
    /\ span' = Set(span, w, [f \in Files |-> {disk[f]}])
    /\ steady' = Set(steady, w, TRUE)
    /\ UNCHANGED <<disk, unreadable, computed, hitUnder, fresh, cache, locals, bounds>>

\* A worker is done with its row: mark_job_result.
Release(w, x, t, s) ==
    /\ <<x, t>> \in auditing[w] /\ auditing' = Set(auditing, w, {})
    /\ status' = [status EXCEPT ![x][t] = s]
    /\ span' = Set(span, w, Unbegun) /\ steady' = Set(steady, w, FALSE)
    /\ UNCHANGED <<disk, unreadable, hitUnder, chosen, cache, locals, bounds>>

\* Lean has come to a verdict, good or bad, and has read each file at some
\* moment since the audit began.
Finish(w, x, t) ==
    /\ Release(w, x, t, "succeeded")
    /\ \E c \in Contents : /\ \A f \in Files : c[f] \in span[w][f]
                          /\ computed' = [computed EXCEPT ![x][t] = c]
    /\ fresh' = [fresh EXCEPT ![x][t] = steady[w]]

\* There is no verdict: the result is made up by _synthetic_result.
Fail(w, x, t) ==
    /\ \E s \in {"failed", "timeout"} : Release(w, x, t, s)
    /\ computed' = [computed EXCEPT ![x][t] = Blank]
    /\ fresh' = [fresh EXCEPT ![x][t] = FALSE]

\* The SELECT of store_queue_results_in_cache, hits apart: the audits that came
\* to an end, and not those that timed out or whose worker failed.
Storable(r) == {t \in Tasks : status[r][t] = "succeeded"}

\* Why a stored result may belong to other contents than its key: a change since
\* the invocation began, or one between the row's audit and the invocation.
Cause(r, t) == IF ~calm[r] THEN "moved" ELSE IF ~fresh[r][t] THEN "carried" ELSE "none"

\* The end of an invocation, and of its local variables.
Return(r) ==
    /\ pc' = Set(pc, r, "idle") /\ print' = Set(print, r, NoPrint)
    /\ unread' = Set(unread, r, {}) /\ picked' = Set(picked, r, {}) /\ calm' = Set(calm, r, FALSE)

\* The workers have left: store_queue_results_in_cache, an upsert per row.
Store(r) ==
    /\ pc[r] = "run"
    /\ \A w \in Workers : Home[w] = r => chosen[w] = {} /\ auditing[w] = {}
    /\ Return(r)
    /\ IF r \in ReadOnly THEN UNCHANGED cache
       ELSE cache' = {e \in cache : \A t \in Storable(r) : e.key # <<t, print[r]>>}
                \cup {[key |-> <<t, print[r]>>, files |-> computed[r][t],
                       cause |-> Cause(r, t)] : t \in Storable(r)}
    /\ UNCHANGED <<disk, unreadable, jobs, audits, bounds>>

\* The process dies with its workers; the leases of their rows run out.
Crash(r) ==
    /\ pc[r] # "idle" /\ faults < MaxFaults
    /\ faults' = faults + 1
    /\ Return(r)
    /\ chosen' = [w \in Workers |-> IF Home[w] = r THEN {} ELSE chosen[w]]
    /\ auditing' = [w \in Workers |-> IF Home[w] = r THEN {} ELSE auditing[w]]
    /\ span' = [w \in Workers |-> IF Home[w] = r THEN Unbegun ELSE span[w]]
    /\ steady' = [w \in Workers |-> Home[w] # r /\ steady[w]]
    /\ UNCHANGED <<disk, unreadable, jobs, cache, invocations, changes, nonces>>

RunStep(r) ==
    \/ Begin(r) \/ HashFails(r) \/ Lookup(r) \/ Apply(r) \/ Store(r) \/ Crash(r)
    \/ \E f \in Files : HashFile(r, f)

WorkerStep(w) ==
    \E x \in Runs, t \in Tasks :
        Select(w, x, t) \/ Lease(w, x, t) \/ Finish(w, x, t) \/ Fail(w, x, t)

Next ==
    \/ \E f \in Files, v \in Versions : Change(f, v)
    \/ TurnUnreadable \/ TurnReadable
    \/ \E r \in Runs : RunStep(r)
    \/ \E w \in Workers : WorkerStep(w)

Spec == Init /\ [][Next]_vars

-----------------------------------------------------------------------------
(* Properties *)

\* What the cache holds is true of the contents in its key with exactly two
\* exceptions, and each needs a change of the directory: after the invocation
\* that stored it began, or between the beginning of the row's audit and that
\* of the invocation (the audit of an earlier invocation with the same run id,
\* or one by a worker of another run that spans the change).
FalseEntryHasCause ==
    \A e \in cache : e.key[2].nonce = 0 =>
        e.files = e.key[2].files \/ e.cause # "none"

\* The cache, which searches long after it has selected the rows, disturbs no
\* audit: a row that no worker has selected keeps its verdict and its result,
\* and a row that a worker audits is never settled under it.  (A worker that
\* selected a row before it was settled does audit it once more.)
AuditsUndisturbed ==
    [][\A x \in Runs, t \in Tasks :
        /\ /\ status[x][t] \in {"succeeded", "timeout", "succeeded_from_cache"}
           /\ \A w \in Workers : <<x, t>> \notin chosen[w] \cup auditing[w]
           => status'[x][t] = status[x][t] /\ computed'[x][t] = computed[x][t]
        /\ (\E w \in Workers : <<x, t>> \in auditing[w])
           => status'[x][t] # "succeeded_from_cache"]_vars

\* A directory that could not be read has no identity: its results are stored
\* under a nonce, and no later lookup finds them.
UnreadableNeverHits ==
    \A r \in Runs : pc[r] \in {"apply", "run"} /\ print[r].nonce > 0 =>
        \A t \in Tasks : ~Cached(<<t, print[r]>>)

\* The aim of the fingerprint: a row settled from the cache has the result that
\* the contents it was looked up under would give, also when the cache has been
\* filled before and after a build.
NoFalseHit ==
    \A r \in Runs, t \in Tasks :
        status[r][t] = "succeeded_from_cache" => computed[r][t] = hitUnder[r][t]
=============================================================================
