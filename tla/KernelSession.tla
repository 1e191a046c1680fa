---------------------------- MODULE KernelSession ----------------------------
(***************************************************************************)
(* A native history run: the strict adapter, the session facade and the    *)
(* closure builder, driving one kernel worker through KernelTransport.     *)
(*                                                                         *)
(* Three ledgers name the same worker states: the worker's own table       *)
(* (live), the adapter's owned ids (owned) and the builder's handles       *)
(* (handles).  The run initialises every task, applies every action to     *)
(* every representative of an observation index, replays the actions on a  *)
(* bounded number of duplicates, releases every handle, and closes the     *)
(* session; the result counts only after a clean close.                    *)
(*                                                                         *)
(* Sources: lean_rgc/lean/kernel_rpc_client.py (adapter) and               *)
(* lean_rgc/evals/uprime_kp3_d4_canonical_history.py (session, builder).   *)
(***************************************************************************)
EXTENDS KernelTransport

CONSTANTS
    Index,          \* the canonical index of an observation
    NTasks,         \* tasks, taken in order
    NActions,       \* the action alphabet, taken in order
    MaxOpenStates,  \* MAX_OPEN_STATES
    MaxDuplicates   \* MAX_DUPLICATE_OCCURRENCES

ASSUME SizesAssumption ==
    /\ NTasks \in Nat \ {0} /\ NActions \in Nat \ {0}
    /\ MaxOpenStates \in Nat /\ MaxDuplicates \in Nat

ASSUME IndexAssumption == DOMAIN Index = Obs

VARIABLES
    owned,          \* the adapter's _owned_state_ids
    phase,          \* where the builder is
    task,           \* next task to initialise
    reps,           \* representatives: index -> <<state id, observation>>
    pending,        \* indices in order of discovery
    cursor, act,    \* position in pending (then in dups), next action
    rows,           \* <<index, action>> -> sealed semantic row
    dups,           \* duplicate_queue: <<index, state id>>
    handles,        \* the builder's owned handles, by state id
    drop,           \* a discard the facade or the builder must do next
    todo,           \* handles the final clean-up has still to try
    error,          \* class of the exception that ended the run
    closeError,     \* class of the first exception of the clean-up
    registered      \* the result entered the production registry

builderVars == <<task, reps, pending, cursor, act, rows, dups>>
ledgerVars == <<owned, handles>>
outcomeVars == <<error, closeError, registered>>
sessionVars == <<ledgerVars, phase, builderVars, drop, todo, outcomeVars>>
vars == <<rpcVars, sessionVars>>

Indices == {Index[o] : o \in Obs}
Actions == 1 .. NActions
OpenRow(o) == <<"open", o>>
ClosedRow == <<"closed">>
SinkRow == <<"sink">>
Rows == {OpenRow(o) : o \in Obs} \cup {ClosedRow, SinkRow}

\* A discard to do, with the semantic row that is settled once it is done.
NoDrop == [sid |-> None, row |-> None]

Phases == {"load", "init", "expand", "audit", "result", "cleanup",
           "status", "shutdown", "finish", "done"}
Running == {"init", "expand", "audit", "result"}
Errors == {"resource", "execution", "domain", "normalization", "interrupt"}

ASSUME NoneIsNoError == None \notin Errors /\ None \notin Rows

Init ==
    /\ RpcInit
    /\ owned = {} /\ handles = {}
    /\ phase = "load" /\ task = 1 /\ cursor = 1 /\ act = 1
    /\ reps = <<>> /\ pending = <<>> /\ rows = <<>> /\ dups = <<>>
    /\ drop = NoDrop /\ todo = {}
    /\ error = None /\ closeError = None /\ registered = FALSE

-----------------------------------------------------------------------------
(* Exceptions *)

\* Mutant: the clause for the base class comes before its subclasses.
ErrorClass_BaseClassFirst(exc) == IF exc = "timeout" THEN "resource" ELSE "domain"

\* The builder's except clauses: which verdict an exception of the RPC client
\* becomes.
ErrorClass(exc) ==
    CASE exc = "timeout" -> "resource"
      [] exc \in {"exited", "transport"} -> "execution"
      [] exc \in {"protocol", "remote", "ownership"} -> "domain"

\* The close-out reports only its first exception, classified by its cause.
FirstCloseError(class) == IF closeError = None THEN class ELSE closeError

\* An exception of class c leaves the run: the finally block starts with every
\* handle the builder holds.
LeaveRun(c, held) ==
    /\ error' = c /\ phase' = "cleanup" /\ todo' = held
    /\ drop' = NoDrop
    /\ UNCHANGED <<closeError, registered>>

\* An exception of the clean-up: the next handle is tried.
SkipHandle(c) ==
    /\ closeError' = FirstCloseError(c)
    /\ todo' = todo \ {drop.sid} /\ drop' = NoDrop
    /\ UNCHANGED <<phase, error, registered>>

\* An exception of load_project or of the session's close: the transport is
\* closed and the run is over.
GiveUp(c) ==
    /\ IF phase = "load" THEN error' = c /\ UNCHANGED closeError
                         ELSE closeError' = FirstCloseError(c) /\ UNCHANGED error
    /\ phase' = "done"
    /\ UNCHANGED <<registered, todo, drop>>

\* What an exception of class c means in each phase.
Raised(c) ==
    \/ phase \in Running /\ LeaveRun(c, handles)
    \/ phase = "cleanup" /\ SkipHandle(c)
    \/ phase \in {"load", "status", "shutdown", "finish"} /\ GiveUp(c)

\* Mutant: a failed load or close-out leaves the transport open.
ClosesTransport_NoFinally(stop) == stop

\* The transport closes with the exception (stop), or because the exception
\* ends the session.
ClosesTransport(stop) == stop \/ phase \in {"load", "status", "shutdown", "finish"}

RaiseInTransport(c, stop) ==
    /\ IF ClosesTransport(stop) THEN StopLocked ELSE UNCHANGED <<closed, proc>>
    /\ call' = None
    /\ Raised(c)
    /\ UNCHANGED <<live, nextId, inbox, reply, wire, reader, builderVars>>

-----------------------------------------------------------------------------
(* Sending *)

CallLoad == phase = "load" /\ Send("load", None) /\ UNCHANGED sessionVars

CallInit ==
    /\ phase = "init" /\ drop = NoDrop /\ task <= NTasks
    /\ Send("init", None)
    /\ UNCHANGED sessionVars

\* The state the next action is applied to: a representative while expanding,
\* a duplicate while auditing.
Source == IF phase = "expand" THEN reps[pending[cursor]][1] ELSE dups[cursor][2]

HasSource ==
    /\ drop = NoDrop /\ act \in Actions
    /\ \/ phase = "expand" /\ cursor <= Len(pending)
       \/ phase = "audit" /\ cursor <= Len(dups)

\* apply_symbol sends nothing for a source it does not own; the builder holds
\* only handles the adapter owns.
CallApply ==
    /\ HasSource /\ Source \in owned
    /\ Send("apply", Source)
    /\ UNCHANGED sessionVars

\* discard_owned, for the terminal child, the surplus duplicate or the audited
\* target that is waiting in drop.
CallDiscard ==
    /\ drop # NoDrop /\ drop.sid \in owned
    /\ Send("discard", drop.sid)
    /\ UNCHANGED sessionVars

CallStatus == phase = "status" /\ Send("status", None) /\ UNCHANGED sessionVars
CallShutdown == phase = "shutdown" /\ Send("shutdown", None) /\ UNCHANGED sessionVars

\* Some request is due.
WantsToCall ==
    \/ phase \in {"load", "status", "shutdown"}
    \/ phase = "init" /\ task <= NTasks
    \/ HasSource \/ drop # NoDrop

\* The request is due and the transport refuses it.
CallRaises ==
    /\ WantsToCall /\ SendRaises
    /\ serial' = serial + 1
    /\ RaiseInTransport(ErrorClass(SendException), ~closed)
    /\ UNCHANGED <<responses, ledgerVars>>

\* Mutant: an expired deadline does not stop the worker.
CallFails_KeepsWorker ==
    /\ WaitRaises
    /\ responses' = IF responses = <<>> THEN responses ELSE Tail(responses)
    /\ RaiseInTransport(ErrorClass(WaitException), responses # <<>>)
    /\ UNCHANGED <<serial, ledgerVars>>

\* The wait for the response raises.
CallFails ==
    /\ WaitRaises
    /\ responses' = IF responses = <<>> THEN responses ELSE Tail(responses)
    /\ RaiseInTransport(ErrorClass(WaitException), TRUE)
    /\ UNCHANGED <<serial, ledgerVars>>

\* A keyboard interrupt during the wait: the lock is released, the transport
\* stays open, and the response is still to come.
Interrupt ==
    /\ call # None /\ phase \in Running
    /\ call' = None
    /\ LeaveRun("interrupt", handles)
    /\ UNCHANGED <<workerVars, transportVars, serial, builderVars, ledgerVars>>

-----------------------------------------------------------------------------
(* Receiving *)

\* The line is consumed and the call is over; the worker is not touched.
Returned == responses' = Tail(responses) /\ call' = None
            /\ UNCHANGED <<workerVars, reader, closed, serial>>

\* The response is refused: another request's line, an error of the worker, or
\* evidence a strict parser does not accept.  Nothing is entered in a ledger.
Refused(r, c) ==
    /\ Receive(r)
    /\ responses' = Tail(responses)
    /\ RaiseInTransport(c, FALSE)
    /\ UNCHANGED <<serial, ledgerVars>>

\* apply_symbol reads the kind of a censor from the text of the exception, so a
\* refused transition is blamed on the domain or on a resource cap.
RefusedClasses == IF call.op = "apply" THEN {"domain", "resource"} ELSE {"domain"}

RecvRefused ==
    /\ call # None /\ responses # <<>>
    /\ LET r == Head(responses) IN
          /\ ~Answers(r) \/ r.res = "error" \/ call.op \in {"init", "apply"}
          /\ \E c \in RefusedClasses : Refused(r, c)

RecvLoad ==
    /\ call # None /\ call.op = "load"
    /\ \E r \in {responses[i] : i \in DOMAIN responses} :
          Receive(r) /\ Answers(r) /\ r.res = "ok" /\ r.n = 0
    /\ Returned
    /\ phase' = "init"
    /\ UNCHANGED <<ledgerVars, builderVars, drop, todo, outcomeVars>>

\* The row is settled and the position moves on.  While expanding it is sealed;
\* while auditing it must equal the row its representative gave.
Settle(row) ==
    /\ IF phase = "expand"
       THEN /\ rows' = Put(rows, <<pending[cursor], act>>, row)
            /\ cursor' = IF act = NActions THEN cursor + 1 ELSE cursor
            /\ act' = IF act = NActions THEN 1 ELSE act + 1
       ELSE act' = act + 1 /\ UNCHANGED <<rows, cursor>>

RowMatches(row) == phase = "expand" \/ rows[<<dups[cursor][1], act>>] = row

\* admit_occurrence for the state sid observed as o, which the builder has just
\* acquired: the first of its index is the representative; a duplicate is kept
\* for the audit or, past the cap, released.
AdmitNew(sid, o) ==
    /\ Index[o] \notin DOMAIN reps
    /\ Cardinality(DOMAIN reps) < MaxOpenStates
    /\ reps' = Put(reps, Index[o], <<sid, o>>)
    /\ pending' = Append(pending, Index[o])
    /\ UNCHANGED <<dups, drop>>

\* Mutant: the pairs of the duplicate queue are built the wrong way round.
AdmitDuplicate_Swapped(sid, o) ==
    /\ Index[o] \in DOMAIN reps /\ reps[Index[o]][2] = o
    /\ IF Len(dups) < MaxDuplicates
       THEN dups' = Append(dups, <<sid, Index[o]>>) /\ UNCHANGED drop
       ELSE /\ drop' = [sid |-> sid, row |-> IF phase = "init" THEN None ELSE OpenRow(o)]
            /\ UNCHANGED dups
    /\ UNCHANGED <<reps, pending>>

AdmitDuplicate(sid, o) ==
    /\ Index[o] \in DOMAIN reps /\ reps[Index[o]][2] = o
    /\ IF Len(dups) < MaxDuplicates
       THEN dups' = Append(dups, <<Index[o], sid>>) /\ UNCHANGED drop
       ELSE /\ drop' = [sid |-> sid, row |-> IF phase = "init" THEN None ELSE OpenRow(o)]
            /\ UNCHANGED dups
    /\ UNCHANGED <<reps, pending>>

Admit(sid, o) == AdmitNew(sid, o) \/ AdmitDuplicate(sid, o)

\* admit_occurrence raising: the cap on representatives, or two observations
\* with one index.
AdmitError(o) ==
    CASE Index[o] \notin DOMAIN reps /\ Cardinality(DOMAIN reps) >= MaxOpenStates
           -> "resource"
      [] Index[o] \in DOMAIN reps /\ reps[Index[o]][2] # o -> "normalization"
      [] OTHER -> None

\* The facade's own refusal of what the adapter has accepted: a closure error,
\* which no except clause knows and _failure_record takes for a failed
\* execution, or a transition over its wall.  The transport stays open.
FacadeErrors == {"execution", "resource"}

\* init_state: the adapter owns the state before it looks at it.  A terminal
\* state, or one without an exact identity, is refused with the state owned;
\* so is, by the facade, a state whose signatures are over the byte cap.
RecvInit ==
    /\ call # None /\ call.op = "init"
    /\ \E r \in {responses[i] : i \in DOMAIN responses} :
          /\ Receive(r) /\ Answers(r) /\ r.res = "ok"
          /\ owned' = owned \cup {r.sid}
          /\ \/ /\ \E c \in {"domain", "execution"} : LeaveRun(c, handles)
                /\ UNCHANGED <<handles, builderVars>>
             \/ /\ r.view \in Obs
                /\ handles' = handles \cup {r.sid}
                /\ IF AdmitError(r.view) # None
                   THEN /\ LeaveRun(AdmitError(r.view), handles')
                        /\ UNCHANGED builderVars
                   ELSE /\ Admit(r.sid, r.view)
                        /\ task' = task + 1
                        /\ UNCHANGED <<phase, cursor, act, rows, todo, outcomeVars>>
    /\ Returned

\* apply_symbol, KernelRPCNativeSession.apply and the body of the builder's
\* loop, for each status of the transition.

\* A retained child is owned before its evidence is checked against the source;
\* evidence that fails then is a censor with the child owned.
ApplyUnbound(r) ==
    /\ r.res \in {"partial", "success"}
    /\ owned' = owned \cup {r.sid}
    /\ \E c \in RefusedClasses : LeaveRun(c, handles)
    /\ UNCHANGED <<handles, builderVars>>

\* The facade refuses the transition, with the child owned and not acquired: a
\* target over the byte cap, evidence lost, a transition over its wall.
ApplyRefused(r) ==
    /\ r.res \in {"partial", "success", "failure"}
    /\ owned' = IF r.res = "failure" THEN owned ELSE owned \cup {r.sid}
    /\ \E c \in FacadeErrors : LeaveRun(c, handles)
    /\ UNCHANGED <<handles, builderVars>>

\* A replay mismatch or an exhausted heartbeat budget.
ApplyCensored(r) ==
    /\ r.res \in {"censor", "timeout"}
    /\ LeaveRun(IF r.res = "timeout" THEN "resource" ELSE "domain", handles)
    /\ UNCHANGED <<ledgerVars, builderVars>>

\* The row is settled now: an ordinary failure is a sink.
ApplySink ==
    /\ IF RowMatches(SinkRow)
       THEN /\ Settle(SinkRow)
            /\ UNCHANGED <<phase, drop, todo, outcomeVars, task, reps, pending, dups>>
       ELSE LeaveRun("normalization", handles) /\ UNCHANGED builderVars
    /\ UNCHANGED ledgerVars

\* Mutant: the terminal child is not entered in the adapter's ledger.
ApplyClosed_NotOwned(r) ==
    /\ r.res = "success"
    /\ drop' = [sid |-> r.sid, row |-> ClosedRow]
    /\ UNCHANGED <<owned, handles, phase, todo, outcomeVars, builderVars>>

\* A proof was closed: the child is discarded before the row is settled.
ApplyClosed(r) ==
    /\ r.res = "success"
    /\ owned' = owned \cup {r.sid}
    /\ drop' = [sid |-> r.sid, row |-> ClosedRow]
    /\ UNCHANGED <<handles, phase, todo, outcomeVars, builderVars>>

\* An open child while expanding is acquired and admitted.
ApplyOpen(r) ==
    /\ r.res = "partial" /\ phase = "expand"
    /\ owned' = owned \cup {r.sid} /\ handles' = handles \cup {r.sid}
    /\ IF AdmitError(r.view) # None
       THEN LeaveRun(AdmitError(r.view), handles') /\ UNCHANGED builderVars
       ELSE /\ Admit(r.sid, r.view)
            /\ IF drop' = NoDrop THEN Settle(OpenRow(r.view))
                                 ELSE UNCHANGED <<rows, cursor, act>>
            /\ UNCHANGED <<phase, task, todo, outcomeVars>>

\* An open child while auditing is compared and released.
ApplyProbe(r) ==
    /\ r.res = "partial" /\ phase = "audit"
    /\ owned' = owned \cup {r.sid} /\ handles' = handles \cup {r.sid}
    /\ IF RowMatches(OpenRow(r.view))
       THEN /\ drop' = [sid |-> r.sid, row |-> OpenRow(r.view)]
            /\ UNCHANGED <<phase, todo, outcomeVars, builderVars>>
       ELSE LeaveRun("normalization", handles') /\ UNCHANGED builderVars

RecvApply ==
    /\ call # None /\ call.op = "apply"
    /\ \E r \in {responses[i] : i \in DOMAIN responses} :
          /\ Receive(r) /\ Answers(r)
          /\ \/ ApplyUnbound(r) \/ ApplyRefused(r) \/ ApplyCensored(r)
             \/ ApplyClosed(r) \/ ApplyOpen(r) \/ ApplyProbe(r)
             \/ r.res = "failure" /\ ApplySink
    /\ Returned

\* The action does not bind to the source: a sink without a request.
SyntacticSink ==
    /\ call = None /\ HasSource
    /\ ApplySink
    /\ UNCHANGED rpcVars

\* discard_owned: the counts of the worker must be the adapter's before the id
\* is given up.  Then the builder forgets the handle and settles the row; the
\* facade, which discards a terminal child itself, may refuse the transition yet.
RecvDiscard ==
    /\ call # None /\ call.op = "discard"
    /\ \E r \in {responses[i] : i \in DOMAIN responses} :
          /\ Receive(r) /\ Answers(r) /\ r.res = "ok" /\ r.sid = call.sid
          /\ IF r.n = Cardinality(owned)
             THEN /\ owned' = owned \ {r.sid}
                  /\ handles' = handles \ {r.sid}
                  /\ \/ IF drop.row = None
                        THEN /\ todo' = todo \ {r.sid} /\ drop' = NoDrop
                             /\ UNCHANGED <<phase, outcomeVars, builderVars>>
                        ELSE IF RowMatches(drop.row)
                        THEN /\ Settle(drop.row) /\ drop' = NoDrop
                             /\ UNCHANGED <<phase, todo, outcomeVars, task, reps, pending, dups>>
                        ELSE LeaveRun("normalization", handles') /\ UNCHANGED builderVars
                     \/ /\ drop.row = ClosedRow
                        /\ \E c \in FacadeErrors : LeaveRun(c, handles')
                        /\ UNCHANGED builderVars
             ELSE Raised("domain") /\ UNCHANGED <<ledgerVars, builderVars>>
    /\ Returned

\* status and the facade's close: the worker's count, the adapter's ids and
\* zero must agree; the facade's own disagreement has no RPC cause.
RecvStatus ==
    /\ call # None /\ call.op = "status"
    /\ \E r \in {responses[i] : i \in DOMAIN responses} :
          /\ Receive(r) /\ Answers(r) /\ r.res = "ok"
          /\ responses' = Tail(responses)
          /\ IF r.n = Cardinality(owned) /\ r.n = 0
             THEN /\ phase' = "shutdown" /\ call' = None
                  /\ UNCHANGED <<workerVars, reader, closed, builderVars, drop, todo, outcomeVars>>
             ELSE RaiseInTransport(IF r.n # Cardinality(owned) THEN "domain" ELSE "execution", FALSE)
    /\ UNCHANGED <<serial, ledgerVars>>

RecvShutdown ==
    /\ call # None /\ call.op = "shutdown"
    /\ \E r \in {responses[i] : i \in DOMAIN responses} : Receive(r) /\ Answers(r)
    /\ Returned
    /\ phase' = "finish"
    /\ UNCHANGED <<ledgerVars, builderVars, drop, todo, outcomeVars>>

-----------------------------------------------------------------------------
(* The builder between requests *)

\* check_time, at the head of every iteration: the wall of the whole run.
WallExceeded ==
    /\ call = None /\ drop = NoDrop
    /\ HasSource \/ (phase = "init" /\ task <= NTasks)
    /\ LeaveRun("resource", handles)
    /\ UNCHANGED <<rpcVars, ledgerVars, builderVars>>

\* A loop is exhausted and the next one starts.
NextPhase ==
    /\ call = None /\ drop = NoDrop
    /\ \/ phase = "init" /\ task > NTasks /\ phase' = "expand"
       \/ phase = "expand" /\ cursor > Len(pending) /\ phase' = "audit"
       \/ phase = "audit" /\ cursor > Len(dups) /\ phase' = "result"
    /\ cursor' = 1 /\ act' = 1
    /\ UNCHANGED <<rpcVars, ledgerVars, task, reps, pending, rows, dups, drop, todo, outcomeVars>>

\* Every action of a duplicate was replayed: its handle is released.
ReleaseDuplicate ==
    /\ call = None /\ drop = NoDrop
    /\ phase = "audit" /\ cursor <= Len(dups) /\ act > NActions
    /\ drop' = [sid |-> dups[cursor][2], row |-> None]
    /\ cursor' = cursor + 1 /\ act' = 1
    /\ UNCHANGED <<rpcVars, ledgerVars, phase, task, reps, pending, rows, dups, todo, outcomeVars>>

\* The chart, its verifications and the rank certificates: built, or refused
\* for any of the reasons the builder distinguishes.
BuildResult ==
    /\ call = None /\ phase = "result"
    /\ \/ /\ phase' = "cleanup" /\ todo' = handles
          /\ UNCHANGED <<drop, outcomeVars>>
       \/ \E c \in Errors \ {"interrupt"} : LeaveRun(c, handles)
    /\ UNCHANGED <<rpcVars, ledgerVars, builderVars>>

\* The finally block takes the handles in the order they were acquired, then
\* closes the session.
CleanUp ==
    /\ call = None /\ phase = "cleanup" /\ drop = NoDrop
    /\ \/ \E h \in todo :
             /\ \A g \in todo : h <= g
             /\ drop' = [sid |-> h, row |-> None]
             /\ UNCHANGED phase
       \/ todo = {} /\ phase' = "status" /\ UNCHANGED drop
    /\ UNCHANGED <<rpcVars, ledgerVars, builderVars, todo, outcomeVars>>

\* Mutant: the finally block does not see that an exception is leaving it.
FinishClean_ForgetsError ==
    /\ phase = "finish" /\ proc = "exited"
    /\ closed' = TRUE
    /\ owned' = {}
    /\ phase' = "done"
    /\ registered' = (closeError = None)
    /\ UNCHANGED <<workerVars, responses, reader, call, serial, handles,
                   builderVars, drop, todo, error, closeError>>

\* finish_clean_shutdown, the receipt and the registration of the result.
FinishClean ==
    /\ phase = "finish" /\ proc = "exited"
    /\ closed' = TRUE
    /\ owned' = {}
    /\ phase' = "done"
    /\ registered' = (error = None /\ closeError = None)
    /\ UNCHANGED <<workerVars, responses, reader, call, serial, handles,
                   builderVars, drop, todo, error, closeError>>

\* The worker does not exit in time, or exits with a failure.
FinishRaises ==
    /\ phase = "finish" /\ proc # "exited"
    /\ RaiseInTransport(IF proc = "dead" THEN "execution" ELSE "resource", TRUE)
    /\ UNCHANGED <<responses, serial, ledgerVars>>

-----------------------------------------------------------------------------
CallerNext ==
    \/ CallLoad \/ CallInit \/ CallApply \/ CallDiscard \/ CallStatus \/ CallShutdown
    \/ CallRaises
    \/ RecvRefused \/ RecvLoad \/ RecvInit \/ RecvApply \/ RecvDiscard
    \/ RecvStatus \/ RecvShutdown
    \/ SyntacticSink \/ NextPhase \/ ReleaseDuplicate \/ BuildResult \/ CleanUp
    \/ FinishClean \/ FinishRaises

EnvNext == (WorkerNext \/ ReadStdout) /\ UNCHANGED sessionVars

Next == CallerNext \/ CallFails \/ Interrupt \/ WallExceeded \/ EnvNext

Spec == Init /\ [][Next]_vars

(***************************************************************************)
(* The caller's thread runs, its wait has a deadline, the stdout thread     *)
(* runs, and a signalled process dies.  Nothing is assumed of the worker:   *)
(* it may stop answering at any point.                                      *)
(***************************************************************************)
Fairness ==
    /\ WF_vars(CallerNext \/ CallFails)
    /\ WF_vars(ReadStdout /\ UNCHANGED sessionVars)
    /\ WF_vars(proc = "term" /\ WorkerDie /\ UNCHANGED sessionVars)

FairSpec == Spec /\ Fairness

-----------------------------------------------------------------------------
(* Properties *)

\* The types of the variables of the worker, the transport, the adapter and the
\* builder.
TypeOK ==
    /\ proc \in {"running", "leaving", "term", "exited", "dead"}
    /\ DOMAIN live \subseteq Nat /\ \A i \in DOMAIN live : live[i] \in Views
    /\ nextId \in Nat /\ serial \in Nat
    /\ inbox \in Seq(Requests) /\ reply \in Seq(Lines) /\ wire \in Seq(Lines)
    /\ responses \in Seq(Lines)
    /\ reader \in {"reading", "done"} /\ closed \in BOOLEAN
    /\ call \in Requests \cup {None}
    /\ owned \subseteq Nat /\ handles \subseteq Nat /\ todo \subseteq Nat
    /\ phase \in Phases
    /\ task \in Nat /\ cursor \in Nat /\ act \in Nat
    /\ DOMAIN reps \subseteq Indices /\ pending \in Seq(Indices)
    /\ \A k \in DOMAIN reps : reps[k] \in Nat \X Obs
    /\ DOMAIN rows \subseteq Indices \X Actions
    /\ \A p \in DOMAIN rows : rows[p] \in Rows
    /\ dups \in Seq(Indices \X Nat)
    /\ drop \in [sid : Nat \cup {None}, row : Rows \cup {None}]
    /\ error \in Errors \cup {None} /\ closeError \in Errors \cup {None}
    /\ registered \in BOOLEAN

\* The queue without the end marker, which is the last thing that enters it.
Unread ==
    IF responses # <<>> /\ responses[Len(responses)].res = "eof"
    THEN SubSeq(responses, 1, Len(responses) - 1) ELSE responses

\* Everything the worker has been asked and has not been heard on.
InFlight == inbox \o reply \o wire \o Unread

\* "A late line can never be mistaken for the next response": as long as the
\* transport is open, and no interrupt has left a wait behind, at most one line
\* is anywhere between the two processes and it belongs to the request that is
\* being waited for.  A deadline that expires without stopping the transport
\* would leave the worker's late answer for the next request.
LateLineNeverMistaken ==
    ~closed /\ error # "interrupt" =>
        /\ Len(InFlight) <= (IF call = None THEN 0 ELSE 1)
        /\ \A i \in DOMAIN InFlight : InFlight[i].rid = call.rid /\ InFlight[i].op = call.op

\* Between requests of a run that has met no error, the worker's table, the
\* adapter's owned ids and the builder's handles are the same set, but for the
\* terminal child that is about to be discarded; at every moment of such a run
\* the builder's handles are among the adapter's ids, and the representatives
\* among the handles until the clean-up.
LedgersAgree ==
    error = None /\ closeError = None /\ phase # "done" =>
        /\ call = None => owned = DOMAIN live /\ owned \ handles \subseteq {drop.sid}
        /\ handles \subseteq owned
        /\ \A k \in DOMAIN reps : reps[k][1] \in handles \/ phase \in {"cleanup", "status", "shutdown", "finish"}

\* A result is registered only for a run whose every representative has a row
\* for every action, whose worker exited by itself with nothing left in its
\* table, and whose every handle was released by the worker.
RegisteredMeansClean ==
    registered =>
        /\ phase = "done" /\ proc = "exited" /\ error = None
        /\ DOMAIN live = {} /\ handles = {} /\ owned = {}
        /\ DOMAIN rows = (DOMAIN reps) \X Actions
        /\ \A p \in DOMAIN rows : rows[p] \notin {SinkRow, ClosedRow} => Index[rows[p][2]] \in DOMAIN reps

\* The worker has answered the request that is waiting, and not with an error.
Answered ==
    /\ call # None /\ responses # <<>>
    /\ Answers(Head(responses)) /\ Head(responses).res \notin {"error", "torn", "eof"}

\* A verdict on the mathematics (an incomplete domain, an unsound
\* normalization) is never the trace of a broken exchange: it is reached only
\* while the transport is usable.  A verdict on the execution before the result
\* is built means that the exchange is broken and the transport closed, or that
\* the worker has answered the request and the facade refuses what the adapter
\* made of the answer; it is never given for the worker's own refusal or for
\* another request's line.
VerdictMatchesCause ==
    [][error = None /\ phase \in Running =>
          /\ error' \in {"domain", "normalization"} => ~closed'
          /\ error' = "execution" /\ phase # "result" => closed' \/ Answered]_vars

\* "Any target created immediately before a failing validation is still tracked
\* by acquire": when an exception of the run, not an interrupt, reaches the
\* clean-up over an open transport, the builder holds every state the adapter
\* owns.
TargetsTrackedByAcquire ==
    phase = "cleanup" /\ ~closed /\ error # "interrupt" => owned \subseteq handles

\* Every run ends, and its worker with it, even when the worker stops answering:
\* each wait has a deadline, an expired deadline stops the worker, and every
\* path of the close-out goes through the transport's close.
RunEndsAndWorkerIsGone == <>(phase = "done" /\ closed /\ ~Alive)
=============================================================================
