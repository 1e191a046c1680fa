---------------------------- MODULE ServerAudit ----------------------------
(***************************************************************************)
(* Audits through a Lean server process: the JSONL transport with its       *)
(* reader threads and deadlines, the adapter with its fallback to the file   *)
(* executor, the worker's table of proof states, and the audit loop that     *)
(* flushes its rows to disk and resumes from them (lean/server.py); the      *)
(* file-mode loop of batch.py shares the files and the resume.               *)
(*                                                                          *)
(* Requests carry an id and replies repeat it, but request never compares    *)
(* them: a reply is taken for the answer because of its place in the stream. *)
(* A request that times out leaves a reader thread behind, blocked in        *)
(* readline.  TextIOWrapper is not safe for threads: the reader whose turn   *)
(* it is reads all that the pipe holds, takes the first line and leaves the  *)
(* others as decoded text, for the next reader that starts; a reader that    *)
(* was blocked already replaces them by the next chunk.                      *)
(***************************************************************************)
EXTENDS Naturals, Sequences, FiniteSets

CONSTANTS
    Plan,        \* the (task, action) pairs in the order of the two loops
    FlushEvery,  \* flush_every
    None,        \* no request, no state id, no audit
    Noise,       \* a line that is not JSON
    MaxNoise,    \* bound: lines that are not JSON on the server's stdout
    MaxFailures, \* bound: requests that time out or are refused by the server
    MaxStarts    \* bound: invocations on one output directory

ASSUME PlanAssumption ==
    /\ Plan \in Seq({Plan[i] : i \in DOMAIN Plan})
    /\ \A i \in DOMAIN Plan : Plan[i] = [task |-> Plan[i].task, act |-> Plan[i].act]
    /\ FlushEvery \in Nat \ {0}
    /\ {MaxNoise, MaxFailures, MaxStarts} \subseteq Nat

Items == DOMAIN Plan
Tasks == {Plan[i].task : i \in Items}
Acts == {Plan[i].act : i \in Items} \cup {None}
Requests ==
    [op : {"register", "apply", "branch", "apply_at"}, sid : Nat \cup {None}, task : Tasks,
     act : Acts]

\* The task and the tactics behind a verdict, and what the server replies.
Audits == [task : Tasks, path : Seq(Acts), act : Acts]
Replies == [sid : Nat \cup {None}, audit : Audits \cup {None}]

ASSUME NoneAssumption == None \notin Nat /\ None \notin Requests
ASSUME NoiseAssumption == Noise \notin Replies

VARIABLES
    config,     \* mode, stateful kernel RPC, fallback_to_file
    pc,         \* where the invocation is
    item,       \* the pair in hand
    done,       \* the pairs read from responses.jsonl
    backend,    \* status.backend
    rpc,        \* stateful_kernel_rpc_audit
    base,       \* base_kernel_state_id
    branch,     \* branch_state_id
    wait,       \* the request under way
    live,       \* its reader: none, blocked in readline, or between two lines
    stale,      \* readers left by requests that timed out
    turn,       \* which kind of reader holds the lock of the buffer
    pipe, buf,  \* lines in the pipe, and decoded lines not yet taken
    inbox,      \* requests the server has not handled
    states,     \* the server's proof states: the task and the actions applied
    alive,      \* the server process runs
    audits, responses, \* the rows in memory
    disk,       \* micro_audit.jsonl and responses.jsonl
    noise, failures, starts, \* bounded occurrences
    late,       \* history: a request to this server has timed out
    cutShort,   \* history: the files on disk are from a flush that was cut short
    resumed     \* history: and this invocation has resumed them

loop == <<config, pc, item, done, backend, rpc, base, branch>>
transport == <<wait, live, stale, turn, pipe, buf>>
server == <<inbox, states, alive>>
files == <<audits, responses, disk>>
counters == <<noise, failures, starts, late, cutShort, resumed>>
vars == <<loop, transport, server, files, counters>>

\* The verdict that belongs to a pair: the action on the task's first state.
Own(i) == [task |-> Plan[i].task, path |-> <<>>, act |-> Plan[i].act]

\* A JSONL file: its whole rows, and whether it ends in the middle of one.
File(rows, torn) == [rows |-> rows, torn |-> torn]

\* close: the server is asked to shut down, terminated and forgotten.
Close ==
    /\ wait' = None /\ live' = "none" /\ stale' = 0 /\ turn' = "none"
    /\ pipe' = <<>> /\ buf' = <<>>
    /\ inbox' = <<>> /\ states' = <<>> /\ alive' = FALSE
    /\ late' = FALSE

Init ==
    /\ config \in [mode : {"server", "batch"}, stateful : BOOLEAN, fallback : BOOLEAN]
    /\ config.mode = "batch" => ~config.stateful /\ ~config.fallback
    /\ pc = "down" /\ item = 0 /\ done = {} /\ backend = "file" /\ rpc = FALSE
    /\ base = None /\ branch = None
    /\ wait = None /\ live = "none" /\ stale = 0 /\ turn = "none"
    /\ pipe = <<>> /\ buf = <<>>
    /\ inbox = <<>> /\ states = <<>> /\ alive = FALSE
    /\ audits = <<>> /\ responses = <<>>
    /\ disk = [audits |-> None, responses |-> None]
    /\ noise = 0 /\ failures = 0 /\ starts = 0
    /\ late = FALSE /\ cutShort = FALSE /\ resumed = FALSE

----------------------------------------------------------------------------
(* The transport.                                                          *)

\* request: unless the process has exited the payload is written and a reader
\* starts, which takes decoded text if there is some and else blocks in the pipe.
Send(q) ==
    /\ wait' = q /\ inbox' = IF alive THEN Append(inbox, q) ELSE inbox
    /\ IF alive /\ buf = <<>>
       THEN live' = "blocked" /\ turn' = IF turn = "none" THEN "live" ELSE turn
       ELSE live' = "between" /\ turn' = turn

\* The lock of the buffer passes to any reader that is blocked.
PassTurn(left, blocked) ==
    turn' \in IF left = 0 /\ ~blocked THEN {"none"}
              ELSE (IF left > 0 THEN {"stale"} ELSE {}) \cup (IF blocked THEN {"live"} ELSE {})

\* A reader nobody waits for takes a line into its own queue.
StaleRead ==
    /\ turn = "stale" /\ pipe # <<>>
    /\ stale' = stale - 1
    /\ buf' = Tail(pipe) /\ pipe' = <<>>
    /\ PassTurn(stale - 1, live = "blocked")
    /\ UNCHANGED <<loop, wait, live, server, files, counters>>

\* The line the reader of this request takes, from the decoded text or, with
\* all that comes with it, from the pipe.
TakeLine(line) ==
    \/ /\ alive /\ live = "between" /\ buf # <<>>
       /\ line = Head(buf) /\ buf' = Tail(buf)
       /\ UNCHANGED <<pipe, turn>>
    \/ /\ live = "blocked" /\ turn = "live" /\ pipe # <<>>
       /\ line = Head(pipe) /\ buf' = Tail(pipe) /\ pipe' = <<>>
       /\ PassTurn(stale, FALSE)

\* JSONDecodeError: the line is kept for messages and a further reader starts.
SkipNoise ==
    /\ TakeLine(Noise)
    /\ live' = "between"
    /\ UNCHANGED <<loop, wait, stale, server, files, counters>>

\* The next round of the loop finds no decoded text and blocks.
ReadOn ==
    /\ alive /\ live = "between" /\ buf = <<>>
    /\ live' = "blocked" /\ turn' = IF turn = "none" THEN "live" ELSE turn
    /\ UNCHANGED <<loop, wait, stale, pipe, buf, server, files, counters>>

----------------------------------------------------------------------------
(* The server: one reply for each request, in order.                       *)

Root(q) == [task |-> q.task, path |-> <<>>]
Refusal == [sid |-> None, audit |-> None]

\* apply_tactic on proof state s, the states before having been stored: the
\* child is retained if the tactic succeeded and its replay agreed.
Applied(q, s, before) ==
    {[reply |-> [sid |-> Len(states) + Len(before) + 1,
                 audit |-> [task |-> s.task, path |-> s.path, act |-> q.act]],
      new |-> before \o <<child>>]
        : child \in {None, [s EXCEPT !.path = Append(@, q.act)]}}

Known(sid) == sid \in DOMAIN states /\ states[sid] # None
Stored(s) == {[reply |-> [sid |-> Len(states) + 1, audit |-> None], new |-> <<s>>]}

\* What the server may reply to a request it does not refuse, with the proof
\* states it stores; a state id is an index of states.
Answers(q) ==
    CASE q.op = "register" -> Stored(Root(q))
      [] q.op = "apply" -> Applied(q, Root(q), <<Root(q)>>)
      [] q.op = "branch" -> IF Known(q.sid) THEN Stored(states[q.sid]) ELSE {}
      [] q.op = "apply_at" -> IF Known(q.sid) THEN Applied(q, states[q.sid], <<>>) ELSE {}

Handle ==
    /\ alive /\ inbox # <<>>
    /\ inbox' = Tail(inbox)
    /\ \/ \E a \in Answers(Head(inbox)) :
             /\ pipe' = Append(pipe, a.reply) /\ states' = states \o a.new
             /\ UNCHANGED failures
       \/ /\ Answers(Head(inbox)) = {} \/ failures < MaxFailures
          /\ pipe' = Append(pipe, Refusal)
          /\ failures' = IF Answers(Head(inbox)) = {} THEN failures ELSE failures + 1
          /\ UNCHANGED states
    /\ UNCHANGED <<loop, wait, live, stale, turn, buf, alive, files, noise, starts,
                   late, cutShort, resumed>>

\* A tactic, or Lean itself, prints a line.
PrintNoise ==
    /\ alive /\ noise < MaxNoise
    /\ noise' = noise + 1
    /\ pipe' = Append(pipe, Noise)
    /\ UNCHANGED <<loop, wait, live, stale, turn, buf, server, files, failures, starts,
                   late, cutShort, resumed>>

ServerDies ==
    /\ alive /\ alive' = FALSE /\ inbox' = <<>>
    /\ UNCHANGED <<loop, transport, states, files, counters>>

----------------------------------------------------------------------------
(* The end of a request.                                                   *)

\* The deadline passes, in out_q.get, which leaves the reader behind, or
\* between two rounds, which leaves none; or poll finds the process gone, or
\* the reader the end of its output.
RequestRaises ==
    /\ wait # None
    /\ \/ /\ failures < MaxFailures /\ failures' = failures + 1
          /\ late' = TRUE
          /\ \/ /\ live = "blocked" /\ stale' = stale + 1
                /\ turn' = IF turn = "live" THEN "stale" ELSE turn
             \/ live = "between" /\ UNCHANGED <<stale, turn>>
       \/ /\ ~alive /\ (live = "between" \/ pipe = <<>>)
          /\ turn' = IF turn = "live" THEN "none" ELSE turn
          /\ UNCHANGED <<stale, failures, late>>
    /\ wait' = None /\ live' = "none"
    /\ UNCHANGED <<pipe, buf>>

\* A line of JSON is returned, whichever request it answers.
RequestReturns(reply) ==
    /\ wait # None /\ reply # Noise /\ TakeLine(reply)
    /\ wait' = None /\ live' = "none"
    /\ UNCHANGED <<stale, failures, late>>

\* The lines a reader may take.
Heads == {Head(q) : q \in {pipe, buf} \ {<<>>}}

\* The call fails, by an exception of the request or by a reply that is no
\* answer to it: not ok, or without the audit that apply_tactic needs.
CallFails ==
    \/ RequestRaises
    \/ \E reply \in Heads :
          /\ RequestReturns(reply)
          /\ reply = Refusal \/ (wait.op \in {"apply", "apply_at"} /\ reply.audit = None)

CallReturns(reply) ==
    /\ RequestReturns(reply) /\ reply # Refusal
    /\ wait.op \in {"apply", "apply_at"} => reply.audit # None

----------------------------------------------------------------------------
(* The audit loop.                                                         *)

Request(op, sid) == [op |-> op, sid |-> sid, task |-> Plan[item].task, act |-> Plan[item].act]

Completed == Len(responses) - Cardinality(done)

\* One pair is finished: its two rows are appended, and every flush_every
\* pairs the files are written.  The audits of the workers in this repository
\* carry their kernel state, so that structured_state sends no request for it.
Finish(i, verdict) ==
    LET row == [item |-> i, verdict |-> verdict, after |-> late]
    IN  /\ audits' = Append(audits, row) /\ responses' = Append(responses, row)
        /\ pc' = IF (Completed + 1) % FlushEvery = 0 THEN "flush_audits"
                 ELSE IF config.mode = "batch" THEN "batch" ELSE "next"
        /\ UNCHANGED disk

\* Mutant: what is done is taken from micro_audit.jsonl.
Start_DoneFromAudits(resume) ==
    /\ pc \in {"down", "returned"} /\ starts < MaxStarts
    /\ starts' = starts + 1
    /\ LET old == IF resume /\ disk.responses # None THEN disk.responses ELSE File(<<>>, FALSE)
           oldAudits == IF resume /\ disk.responses # None /\ disk.audits # None
                        THEN disk.audits ELSE File(<<>>, FALSE)
       IN  IF old.torn \/ oldAudits.torn
           THEN pc' = "down" /\ UNCHANGED <<audits, responses, done>>
           ELSE /\ pc' = IF config.mode = "batch" THEN "batch" ELSE "load"
                /\ audits' = oldAudits.rows /\ responses' = old.rows
                /\ done' = {oldAudits.rows[k].item : k \in DOMAIN oldAudits.rows}
    /\ item' = 0
    /\ resumed' = (cutShort /\ resume /\ disk.responses # None)
    /\ UNCHANGED <<config, backend, rpc, base, branch, transport, server, disk, noise,
                   failures, late, cutShort>>

\* Resume: the pairs of responses.jsonl are done; the rows of micro_audit.jsonl
\* are taken over with them.  A file that ends inside a row cannot be parsed.
Start(resume) ==
    /\ pc \in {"down", "returned"} /\ starts < MaxStarts
    /\ starts' = starts + 1
    /\ LET old == IF resume /\ disk.responses # None THEN disk.responses ELSE File(<<>>, FALSE)
           oldAudits == IF resume /\ disk.responses # None /\ disk.audits # None
                        THEN disk.audits ELSE File(<<>>, FALSE)
       IN  IF old.torn \/ oldAudits.torn
           THEN pc' = "down" /\ UNCHANGED <<audits, responses, done>>
           ELSE /\ pc' = IF config.mode = "batch" THEN "batch" ELSE "load"
                /\ audits' = oldAudits.rows /\ responses' = old.rows
                /\ done' = {old.rows[k].item : k \in DOMAIN old.rows}
    /\ item' = 0
    /\ resumed' = (cutShort /\ resume /\ disk.responses # None)
    /\ UNCHANGED <<config, backend, rpc, base, branch, transport, server, disk, noise,
                   failures, late, cutShort>>

\* start: the process is launched and asked to load the project; if that fails
\* it is closed, and the file executor takes its place if fallback_to_file.
Load ==
    /\ pc = "load"
    /\ \/ /\ backend' = "jsonl" /\ alive' = TRUE /\ pc' = "next"
          /\ rpc' = config.stateful
          /\ UNCHANGED <<audits, responses>>
       \/ /\ config.fallback
          /\ backend' = "file" /\ rpc' = FALSE /\ pc' = "next"
          /\ UNCHANGED <<alive, audits, responses>>
       \/ /\ ~config.fallback
          /\ pc' = "down" /\ audits' = <<>> /\ responses' = <<>>
          /\ UNCHANGED <<backend, rpc, alive>>
    /\ base' = None /\ branch' = None
    /\ UNCHANGED <<config, item, done, transport, inbox, states, disk, counters>>

\* The next pair; a new task is registered first in the stateful mode.
BeginPair ==
    /\ pc = "next" /\ item < Len(Plan)
    /\ item' = item + 1
    /\ LET task == Plan[item + 1].task
           newTask == item = 0 \/ task # Plan[item].task
       IN  IF newTask /\ rpc /\ backend = "jsonl"
           THEN /\ Send([op |-> "register", sid |-> None, task |-> task, act |-> None])
                /\ pc' = "wait" /\ UNCHANGED base
           ELSE /\ pc' = "act" /\ base' = IF newTask THEN None ELSE base
                /\ UNCHANGED <<wait, live, turn, inbox>>
    /\ UNCHANGED <<config, done, backend, rpc, branch, stale, pipe, buf, states, alive,
                   files, counters>>

\* Whether register_task gives a state to branch from or not, the pairs follow.
Registered ==
    /\ pc = "wait" /\ wait.op = "register" /\ pc' = "act"
    /\ \/ CallFails /\ base' = None
       \/ \E reply \in Heads : CallReturns(reply) /\ base' = reply.sid
    /\ UNCHANGED <<config, item, done, backend, rpc, branch, server, files, noise, starts,
                   cutShort, resumed>>

\* A pair that is done is passed over; otherwise it is tried on a branch of the
\* registered state while the server is in use, or by apply_tactic.
BeginAction ==
    /\ pc = "act"
    /\ IF item \in done
       THEN pc' = "next" /\ UNCHANGED <<wait, live, turn, inbox>>
       ELSE IF base # None /\ backend = "jsonl"
       THEN pc' = "wait" /\ Send(Request("branch", base))
       ELSE pc' = "apply" /\ UNCHANGED <<wait, live, turn, inbox>>
    /\ UNCHANGED <<config, item, done, backend, rpc, base, branch, stale, pipe, buf, states,
                   alive, files, counters>>

\* branch_state has returned a state id: the action is applied to it.
Branched ==
    /\ pc = "wait" /\ wait.op = "branch"
    /\ \E reply \in Heads :
          /\ RequestReturns(reply) /\ reply # Refusal
          /\ branch' = reply.sid
    /\ pc' = "apply_at"
    /\ UNCHANGED <<config, item, done, backend, rpc, base, server, files, noise, starts,
                   cutShort, resumed>>

BeginApplyAt ==
    /\ pc = "apply_at" /\ pc' = "wait"
    /\ Send(Request("apply_at", branch))
    /\ UNCHANGED <<config, item, done, backend, rpc, base, branch, stale, pipe, buf, states,
                   alive, files, counters>>

\* The stateful attempt failed: apply_tactic over the same server, or the end.
AttemptFails ==
    /\ pc = "wait" /\ wait.op \in {"branch", "apply_at"}
    /\ CallFails /\ config.fallback
    /\ pc' = "apply"
    /\ UNCHANGED <<config, item, done, backend, rpc, base, branch, server, files, noise,
                   starts, cutShort, resumed>>

\* apply_tactic: through the server, or by the file executor.
BeginApply ==
    /\ pc = "apply" /\ backend = "jsonl"
    /\ pc' = "wait" /\ Send(Request("apply", None))
    /\ UNCHANGED <<config, item, done, backend, rpc, base, branch, stale, pipe, buf, states,
                   alive, files, counters>>

ApplyFile ==
    /\ pc = "apply" /\ backend = "file"
    /\ Finish(item, Own(item))
    /\ UNCHANGED <<config, item, done, backend, rpc, base, branch, transport, server, counters>>

\* A reply with an audit: the row gets the verdict of the reply.
Audited ==
    /\ pc = "wait" /\ wait.op \in {"apply", "apply_at"}
    /\ \E reply \in Heads : CallReturns(reply) /\ Finish(item, reply.audit)
    /\ UNCHANGED <<config, item, done, backend, rpc, base, branch, server, noise, starts,
                   cutShort, resumed>>

\* Mutant: the pair is audited by the file executor and the server kept.
ApplyFails_KeepsServer ==
    /\ pc = "wait" /\ wait.op = "apply"
    /\ CallFails /\ config.fallback
    /\ Finish(item, Own(item))
    /\ UNCHANGED <<config, item, done, backend, rpc, base, branch, server, noise, starts,
                   cutShort, resumed>>

\* apply_tactic failed: from now on the file executor is used, for this pair too.
ApplyFails ==
    /\ pc = "wait" /\ wait.op = "apply"
    /\ CallFails /\ config.fallback
    /\ backend' = "file"
    /\ Finish(item, Own(item))
    /\ UNCHANGED <<config, item, done, rpc, base, branch, server, noise, starts, cutShort, resumed>>

\* Without fallback_to_file the exception of a failed attempt leaves the loop;
\* in the file mode one of the executor does.
AttemptRaises ==
    /\ pc = "wait" /\ wait.op # "register"
    /\ CallFails /\ ~config.fallback
    /\ pc' = "raise"
    /\ UNCHANGED <<config, item, done, backend, rpc, base, branch, server, files, noise,
                   starts, cutShort, resumed>>

\* The server is closed on the way out; rows that were not flushed are lost.
Abort ==
    /\ pc \in {"raise", "batch"}
    /\ pc' = "down" /\ audits' = <<>> /\ responses' = <<>>
    /\ Close
    /\ UNCHANGED <<config, item, done, backend, rpc, base, branch, disk, noise, failures,
                   starts, cutShort, resumed>>

\* batch.py: the futures complete in any order.
BatchRow(i) ==
    /\ pc = "batch" /\ i \in Items \ done
    /\ \A k \in DOMAIN responses : responses[k].item # i
    /\ Finish(i, Own(i))
    /\ UNCHANGED <<config, item, done, backend, rpc, base, branch, transport, server, counters>>

\* All pairs are finished: the server is closed and the files are written.
EndOfPlan ==
    /\ \/ pc = "next" /\ item = Len(Plan)
       \/ pc = "batch" /\ Completed = Cardinality(Items \ done)
    /\ pc' = "final_audits"
    /\ Close
    /\ UNCHANGED <<config, item, done, backend, rpc, base, branch, files, noise, failures,
                   starts, cutShort, resumed>>

\* flush: each file is rewritten from the rows in memory, one after the other.
FlushAudits ==
    /\ pc \in {"flush_audits", "final_audits"}
    /\ disk' = [disk EXCEPT !.audits = File(audits, FALSE)]
    /\ pc' = IF pc = "flush_audits" THEN "flush_responses" ELSE "final_responses"
    /\ UNCHANGED <<config, item, done, backend, rpc, base, branch, transport, server, audits,
                   responses, counters>>

FlushResponses ==
    /\ pc \in {"flush_responses", "final_responses"}
    /\ disk' = [disk EXCEPT !.responses = File(responses, FALSE)]
    /\ pc' = IF pc = "final_responses" THEN "returned"
             ELSE IF config.mode = "batch" THEN "batch" ELSE "next"
    /\ cutShort' = resumed
    /\ UNCHANGED <<config, item, done, backend, rpc, base, branch, transport, server, audits,
                   responses, noise, failures, starts, late, resumed>>

\* What is left of a file whose writer ends after opening it with mode "w".
Cut(rows) ==
    {File(SubSeq(rows, 1, k), torn) : k \in 0 .. Len(rows), torn \in BOOLEAN}
        \ {File(rows, TRUE)}

\* The process ends at any point, also in the middle of a file.
Crash ==
    /\ pc \notin {"down", "returned"}
    /\ pc' = "down" /\ audits' = <<>> /\ responses' = <<>>
    /\ disk' \in CASE pc \in {"flush_audits", "final_audits"} ->
                      {disk} \cup {[disk EXCEPT !.audits = f] : f \in Cut(audits)}
                 [] pc \in {"flush_responses", "final_responses"} ->
                      {disk} \cup {[disk EXCEPT !.responses = f] : f \in Cut(responses)}
                 [] OTHER -> {disk}
    /\ cutShort' = (cutShort \/ pc \in {"flush_audits", "final_audits", "flush_responses",
                                       "final_responses"})
    /\ Close
    /\ UNCHANGED <<config, item, done, backend, rpc, base, branch, noise, failures, starts,
                   resumed>>

ServerStep == Handle \/ PrintNoise \/ ServerDies

LoopStep ==
    \/ \E resume \in BOOLEAN : Start(resume)
    \/ Load \/ BeginPair \/ Registered \/ BeginAction \/ Branched \/ BeginApplyAt
    \/ AttemptFails \/ BeginApply \/ ApplyFile \/ Audited \/ ApplyFails \/ AttemptRaises
    \/ Abort
    \/ \E i \in Items : BatchRow(i)
    \/ EndOfPlan \/ FlushAudits \/ FlushResponses

Next == LoopStep \/ StaleRead \/ SkipNoise \/ ReadOn \/ ServerStep \/ Crash

Spec == Init /\ [][Next]_vars

----------------------------------------------------------------------------
(* Properties.                                                             *)

\* A row holds the verdict of its own action on its own task although replies
\* are never matched with requests: every failure of apply_tactic gives the
\* server up, so that nothing is asked after a timeout.  The one exception is
\* the stateful mode, which goes on with the same server: there the late reply,
\* left as decoded text or pushed back by a line of noise, may be taken for the
\* answer to a later request.
VerdictIsOwn ==
    \A k \in DOMAIN responses :
        \/ responses[k].verdict = Own(responses[k].item)
        \/ config.stateful /\ responses[k].after

\* Whatever ended earlier invocations, one that returns leaves every pair with
\* exactly one row in responses.jsonl, and the same rows in micro_audit.jsonl,
\* unless it has resumed files of a flush that was cut short: then rows of the
\* audit file may be missing or double for good.
ReturnsComplete ==
    pc = "returned" =>
        /\ ~disk.responses.torn /\ Len(disk.responses.rows) = Len(Plan)
        /\ {disk.responses.rows[k].item : k \in DOMAIN disk.responses.rows} = Items
        /\ resumed \/ disk.audits = disk.responses
============================================================================
