----------------------------- MODULE JobProcess -----------------------------
(***************************************************************************)
(* One call of _run_job_process (lean/worker_supervisor.py): the worker     *)
(* thread starts a child process, the child runs Lean through               *)
(* LeanExecutor.run_tactic and puts its result on a multiprocessing queue,  *)
(* and the worker joins the child under a deadline before it reads.         *)
(*                                                                         *)
(* The queue is external: put hands the pickled result to a feeder thread   *)
(* that writes it into a pipe, a process exits only when its feeder has     *)
(* written everything, and the reader waits for the rest of a message whose *)
(* first bytes are there (the worker holds the write end of the pipe too,   *)
(* so no end of file comes).  Sizes are counted in units of the pipe.       *)
(***************************************************************************)
EXTENDS Naturals

CONSTANTS
    Sizes,          \* sizes a pickled result may have
    Capacity,       \* what the pipe holds without a reader
    JobTimeout,     \* job_timeout_s, in ticks
    ExecutorLimits  \* values executor_config.timeout_s may have, in ticks

ASSUME ProcessAssumption ==
    /\ Sizes \subseteq Nat \ {0}
    /\ {Capacity, JobTimeout} \cup ExecutorLimits \subseteq Nat \ {0}

VARIABLES
    limit,      \* executor_config.timeout_s of this run
    clock,      \* ticks since proc.start, while the worker waits
    parent,     \* the worker thread inside _run_job_process
    child,      \* the child process
    lean,       \* the Lean process the child runs
    message,    \* what the child put on the queue
    putAt,      \* when it did
    sent,       \* how much of it its feeder has written
    verdict     \* what _run_job_process returned

vars == <<limit, clock, parent, child, lean, message, putAt, sent, verdict>>
childVars == <<child, lean, message, putAt, sent>>
workerVars == <<parent, verdict>>

NoMessage == [ok |-> FALSE, audit |-> "none", size |-> 0]
Messages == [ok : {TRUE}, audit : {"timeout", "other"}, size : Sizes]
                \cup [ok : {FALSE}, audit : {"none"}, size : Sizes]

\* What _run_job_process returns: the queue status and its killed flag.
Verdict(status, killed) == [status |-> status, killed |-> killed]
NoVerdict == Verdict("none", FALSE)
Verdicts == [status : {"none", "succeeded", "failed", "timeout"}, killed : BOOLEAN]

\* proc.is_alive()
ChildAlive == child \in {"working", "flushing"}

\* The child can only wait: for Lean within its limit, or for a reader.
ChildWaits ==
    \/ child = "working" /\ lean = "running" /\ clock < limit
    \/ child = "flushing" /\ sent < message.size /\ sent = Capacity

\* A dry run stays in the worker thread.
Init ==
    /\ limit \in ExecutorLimits
    /\ clock = 0
    /\ parent \in {"inline", "start"}
    /\ child = "none" /\ lean = "none"
    /\ message = NoMessage /\ putAt = 0 /\ sent = 0
    /\ verdict = NoVerdict

Return(status, killed) ==
    /\ parent' = "returned"
    /\ verdict' = Verdict(status, killed)

\* A dry run executes the payload in the worker thread itself.
RunInline ==
    /\ parent = "inline"
    /\ \E status \in {"succeeded", "failed", "timeout"} : Return(status, FALSE)
    /\ UNCHANGED <<limit, clock, childVars>>

\* proc.start()
StartChild ==
    /\ parent = "start"
    /\ parent' = "waiting" /\ child' = "working"
    /\ UNCHANGED <<limit, clock, lean, message, putAt, sent, verdict>>

\* Time passes in ticks that are long beside the child's own steps.
Tick ==
    /\ parent = "waiting" /\ ChildWaits /\ clock < JobTimeout
    /\ clock' = clock + 1
    /\ UNCHANGED <<limit, childVars, workerVars>>

-----------------------------------------------------------------------------
(* The child: _child_run_job, _execute_job_payload, LeanExecutor.run_tactic. *)

\* subprocess.run starts Lean ...
StartLean ==
    /\ child = "working" /\ lean = "none"
    /\ lean' = "running"
    /\ UNCHANGED <<limit, clock, child, message, putAt, sent, workerVars>>

\* ... which ends by itself or goes on for ever.
LeanEnds ==
    /\ lean = "running"
    /\ lean' = "ended"
    /\ UNCHANGED <<limit, clock, child, message, putAt, sent, workerVars>>

Put(m) ==
    /\ message' = m /\ putAt' = clock
    /\ child' = "flushing"
    /\ UNCHANGED <<limit, clock, sent, workerVars>>

\* The executor's own timeout: subprocess.run kills Lean and the record says so.
ExecutorTimeout ==
    /\ child = "working" /\ lean = "running" /\ clock >= limit
    /\ lean' = "ended"
    /\ \E size \in Sizes : Put([ok |-> TRUE, audit |-> "timeout", size |-> size])

\* result_q.put of a record (of Lean's end, or one from the executor's cache
\* before Lean is started), or of the exception that took its place.  A record
\* can say "timeout" with Lean ended by itself: out of heartbeats.
PutResult ==
    /\ child = "working" /\ lean # "running"
    /\ \E m \in Messages : Put(m)
    /\ UNCHANGED lean

\* The feeder thread writes while the pipe has room.
Feed ==
    /\ child = "flushing" /\ sent < message.size /\ sent < Capacity
    /\ sent' = sent + 1
    /\ UNCHANGED <<limit, clock, child, lean, message, putAt, workerVars>>

\* The process ends when its feeder is done.
ChildExits ==
    /\ child = "flushing" /\ sent = message.size
    /\ child' = "exited"
    /\ UNCHANGED <<limit, clock, lean, message, putAt, sent, workerVars>>

\* The system kills the child.
ChildCrashes ==
    /\ ChildAlive
    /\ child' = "dead"
    /\ UNCHANGED <<limit, clock, lean, message, putAt, sent, workerVars>>

-----------------------------------------------------------------------------
(* The worker thread: join, terminate, kill, get_nowait. *)

\* Mutant: the join has no deadline.
JoinExpires_Never == FALSE /\ UNCHANGED vars

\* Mutant: the join is given less than the job's timeout.
JoinExpires_Early ==
    /\ parent = "waiting" /\ ChildAlive
    /\ parent' = "terminating"
    /\ UNCHANGED <<limit, clock, childVars, verdict>>

\* proc.join expires and the child is alive.
JoinExpires ==
    /\ parent = "waiting" /\ ChildAlive
    /\ clock = JobTimeout
    /\ parent' = "terminating"
    /\ UNCHANGED <<limit, clock, childVars, verdict>>

\* proc.join returns, or expires just as the child has gone.
JoinReturns ==
    /\ parent = "waiting" /\ ~ChildAlive
    /\ parent' = "reading"
    /\ UNCHANGED <<limit, clock, childVars, verdict>>

\* terminate and then kill signal the child; they do not reach Lean.
SignalTakesEffect ==
    /\ parent \in {"terminating", "killing"} /\ ChildAlive
    /\ child' = "dead"
    /\ UNCHANGED <<limit, clock, lean, message, putAt, sent, workerVars>>

\* The join after terminate expires with the child alive: kill.
TerminateExpires ==
    /\ parent = "terminating" /\ ChildAlive
    /\ parent' = "killing"
    /\ UNCHANGED <<limit, clock, childVars, verdict>>

\* A synthetic timeout.  The join after kill is not followed by a check.
ReturnTimeout ==
    /\ parent = "killing" \/ (parent = "terminating" /\ ~ChildAlive)
    /\ Return("timeout", TRUE)
    /\ UNCHANGED <<limit, clock, childVars>>

\* Mutant: what is on the queue is taken for an answer whatever it says.
ReadResult_NotOk ==
    /\ parent = "reading"
    /\ sent \in {0, message.size}
    /\ Return(IF message.audit = "timeout" THEN "timeout" ELSE "succeeded", FALSE)
    /\ UNCHANGED <<limit, clock, childVars>>

\* get_nowait: nothing in the pipe, or a whole message.  Half a message is
\* waited for.
ReadResult ==
    /\ parent = "reading"
    /\ sent \in {0, message.size}
    /\ IF sent > 0 /\ message.ok
       THEN Return(IF message.audit = "timeout" THEN "timeout" ELSE "succeeded", FALSE)
       ELSE Return("failed", FALSE)
    /\ UNCHANGED <<limit, clock, childVars>>

-----------------------------------------------------------------------------
ParentNext ==
    \/ RunInline \/ StartChild \/ JoinExpires \/ JoinReturns
    \/ TerminateExpires \/ ReturnTimeout \/ ReadResult

ChildNext == StartLean \/ ExecutorTimeout \/ PutResult \/ Feed \/ ChildExits

Next == ParentNext \/ ChildNext \/ Tick \/ LeanEnds \/ ChildCrashes \/ SignalTakesEffect

Spec == Init /\ [][Next]_vars

(***************************************************************************)
(* The worker thread runs, time passes and the child's own steps are taken. *)
(* Nothing is assumed of Lean, of crashes, or of signals.                   *)
(***************************************************************************)
FairSpec == Spec /\ WF_vars(ParentNext) /\ WF_vars(ChildNext) /\ WF_vars(Tick)

-----------------------------------------------------------------------------
(* Properties *)

\* A success of a child is never made up: it is a whole record, read after the
\* child had gone, and no Lean process is left behind it.
SuccessIsRead ==
    verdict.status = "succeeded" /\ child # "none" =>
        /\ message.ok /\ message.audit = "other" /\ sent = message.size
        /\ ~ChildAlive /\ lean # "running"

\* A killed timeout is what counts towards the quarantine of the action.  It is
\* the action's own doing (Lean ran into the deadline, and the executor's own
\* limit was not shorter) except that the join before the read also kills a
\* child that finished in time with a result larger than the pipe.
KilledMeansLateOrLarge ==
    verdict.killed => \/ message.size > Capacity
                      \/ limit >= JobTimeout /\ (message = NoMessage \/ putAt = JobTimeout)

\* The call returns, whatever Lean does, unless the child was killed by the
\* system in the middle of a message: then get_nowait waits for the rest.
CallReturns ==
    <>(parent = "returned" \/ (child = "dead" /\ sent \notin {0, message.size}))
=============================================================================
