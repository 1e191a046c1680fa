--------------------------- MODULE KernelTransport ---------------------------
(***************************************************************************)
(* One Lean kernel worker process behind the synchronous JSONL transport.  *)
(*                                                                         *)
(* Three actors share two pipes and a queue: the calling thread, which     *)
(* holds the transport's lock for a whole round trip; the daemon thread    *)
(* that moves lines from the worker's stdout to the queue; and the worker  *)
(* process, which answers one request line with one response line.  The    *)
(* caller waits for the queue with a deadline, so the worker may answer    *)
(* after the caller has given up.                                          *)
(*                                                                         *)
(* Sources: lean_rgc/lean/kernel_rpc_client.py (transport) and             *)
(* lean_rgc/native_lean/RGCKernelRPC.lean (worker).  The caller's side of  *)
(* the exchange is KernelSession, which extends this module.               *)
(***************************************************************************)
EXTENDS Naturals, Sequences, FiniteSets

CONSTANTS
    Obs,        \* complete observations of an open proof state
    Closed,     \* the observation of a state with no goal left
    None        \* no call, no state id, no error

ASSUME ObsAssumption == Closed \notin Obs /\ None \notin Obs /\ None \notin Nat

VARIABLES
    proc,       \* the worker process: running, leaving (its loop has ended),
                \* term (signalled), exited (by itself, code 0), dead
    live,       \* WorkerState.states: state id -> what it observes as
    nextId,     \* WorkerState.nextId
    inbox,      \* request lines in the worker's stdin
    reply,      \* the response computed and not yet written
    wire,       \* response lines in the worker's stdout
    responses,  \* the transport's queue
    reader,     \* the stdout thread: reading, done
    closed,     \* the transport's _closed
    call,       \* the request whose response the caller is waiting for
    serial      \* the session's request counter

workerVars == <<proc, live, nextId, inbox, reply, wire>>
transportVars == <<responses, reader, closed>>
rpcVars == <<workerVars, transportVars, call, serial>>

Views == Obs \cup {Closed}
Ops == {"load", "init", "apply", "discard", "status", "shutdown"}

\* A request line: what is asked, its id, and the state it is about.
Requests == [op : Ops, rid : Nat, sid : Nat \cup {None}]

\* What the worker can say: a plain success or error, or, of an applied
\* tactic, the status of the transition; "torn" is a line cut by its death,
\* "eof" the stdout thread's end marker.
Results == {"ok", "error", "partial", "success", "failure", "censor",
            "timeout", "torn", "eof"}

\* A response line: the request it echoes, the state it names with what that
\* state observes as, and the number of states the worker counts.
Lines == [op : Ops \cup {"eof"}, rid : Nat, res : Results, sid : Nat \cup {None},
          view : Views \cup {None}, n : Nat]

ASSUME NoneIsNoRequest == None \notin Requests

EOF == [op |-> "eof", rid |-> 0, res |-> "eof", sid |-> None, view |-> None, n |-> 0]

Line(q, res, sid, view, n) ==
    [op |-> q.op, rid |-> q.rid, res |-> res, sid |-> sid, view |-> view, n |-> n]

Alive == proc \in {"running", "leaving", "term"}

RpcInit ==
    /\ proc = "running" /\ live = <<>> /\ nextId = 0
    /\ inbox = <<>> /\ reply = <<>> /\ wire = <<>>
    /\ responses = <<>> /\ reader = "reading" /\ closed = FALSE
    /\ call = None /\ serial = 0

-----------------------------------------------------------------------------
(* The worker: handle, one operator per command.  A handler changes the     *)
(* states and leaves the response to be written.                             *)

Put(f, x, v) == [y \in DOMAIN f \cup {x} |-> IF y = x THEN v ELSE f[y]]
Forget(f, x) == [y \in DOMAIN f \ {x} |-> f[y]]

\* load_project: the imports load, or the error is caught and reported.
HandleLoad(q) ==
    /\ q.op = "load"
    /\ \E res \in {"ok", "error"} :
          reply' = <<Line(q, res, None, None, Cardinality(DOMAIN live))>>
    /\ UNCHANGED <<live, nextId, proc>>

\* init_state: the state is stored before it is serialised, so an exception of
\* the serialisation is reported as an error with the state left behind; an
\* exception of the elaboration leaves nothing, not even a used id.
HandleInit(q) ==
    /\ q.op = "init"
    /\ \/ \E view \in Views, res \in {"ok", "error"} :
             /\ live' = Put(live, nextId, view)
             /\ nextId' = nextId + 1
             /\ reply' = <<Line(q, res, nextId, view, 0)>>
       \/ /\ reply' = <<Line(q, "error", None, None, 0)>>
          /\ UNCHANGED <<live, nextId>>
    /\ UNCHANGED proc

\* apply_tactic on a known state: a replay-verified transition is stored and
\* named, every other outcome uses up the id and stores nothing.  Serialising
\* a state is outside any handler here: its exception ends the loop, and the
\* process with it, before a response is written.
HandleApply(q) ==
    /\ q.op = "apply"
    /\ \/ /\ q.sid \in DOMAIN live
          /\ \/ \E view \in Views :
                   /\ live' = Put(live, nextId, view)
                   /\ reply' = <<Line(q, IF view = Closed THEN "success" ELSE "partial",
                                      nextId, view, 0)>>
             \/ \E res \in {"failure", "timeout", "censor"} :
                   /\ reply' = <<Line(q, res, nextId, None, 0)>>
                   /\ UNCHANGED live
          /\ nextId' = nextId + 1
          /\ UNCHANGED proc
       \/ /\ q.sid \in DOMAIN live
          /\ proc' = IF proc = "running" THEN "leaving" ELSE proc
          /\ UNCHANGED <<live, nextId, reply>>
       \/ /\ q.sid \notin DOMAIN live
          /\ reply' = <<Line(q, "error", None, None, 0)>>
          /\ UNCHANGED <<live, nextId, proc>>

\* discard_state counts the states before it erases one.
HandleDiscard(q) ==
    /\ q.op = "discard"
    /\ live' = Forget(live, q.sid)
    /\ reply' = <<Line(q, IF q.sid \in DOMAIN live THEN "ok" ELSE "error",
                       q.sid, None, Cardinality(DOMAIN live))>>
    /\ UNCHANGED <<nextId, proc>>

\* status reports, unless a state in the table has a wrong heartbeat cap.
HandleStatus(q) ==
    /\ q.op = "status"
    /\ \E res \in {"ok", "error"} :
          /\ res = "error" => DOMAIN live # {}
          /\ reply' = <<Line(q, res, None, None, Cardinality(DOMAIN live))>>
    /\ UNCHANGED <<live, nextId, proc>>

\* shutdown is acknowledged; the loop ends once the response is written.
HandleShutdown(q) ==
    /\ q.op = "shutdown"
    /\ reply' = <<Line(q, "ok", None, None, 0)>>
    /\ UNCHANGED <<live, nextId, proc>>

WorkerHandle ==
    /\ proc \in {"running", "term"} /\ reply = <<>> /\ inbox # <<>>
    /\ inbox' = Tail(inbox)
    /\ LET q == Head(inbox) IN
          \/ HandleLoad(q)    \/ HandleInit(q)    \/ HandleApply(q)
          \/ HandleDiscard(q) \/ HandleStatus(q)  \/ HandleShutdown(q)
    /\ UNCHANGED <<wire, transportVars, call, serial>>

\* The loop writes and flushes the response; after a shutdown it ends.
WorkerWrite ==
    /\ Alive /\ reply # <<>>
    /\ wire' = wire \o reply
    /\ reply' = <<>>
    /\ proc' = IF reply[1].op = "shutdown" /\ proc = "running" THEN "leaving" ELSE proc
    /\ UNCHANGED <<live, nextId, inbox, transportVars, call, serial>>

\* main returns after the loop: the process exits with code 0.
WorkerExit ==
    /\ proc = "leaving"
    /\ proc' = "exited" /\ inbox' = <<>>
    /\ UNCHANGED <<live, nextId, reply, wire, transportVars, call, serial>>

\* The process is killed: by the transport's terminate or kill, or by the
\* system.  A response under way may be cut.
WorkerDie ==
    /\ Alive
    /\ proc' = "dead"
    /\ wire' \in {wire} \cup {Append(wire, [r EXCEPT !.res = "torn"]) :
                                 r \in {reply[i] : i \in DOMAIN reply}}
    /\ inbox' = <<>> /\ reply' = <<>>
    /\ UNCHANGED <<live, nextId, transportVars, call, serial>>

-----------------------------------------------------------------------------
(* The stdout thread. *)

\* _read_stdout: a line goes to the queue; when the pipe is empty and has no
\* writer the thread leaves the end marker and ends.
ReadStdout ==
    /\ reader = "reading"
    /\ \/ /\ wire # <<>>
          /\ responses' = Append(responses, Head(wire))
          /\ wire' = Tail(wire)
          /\ UNCHANGED reader
       \/ /\ wire = <<>> /\ ~Alive
          /\ responses' = Append(responses, EOF)
          /\ reader' = "done"
          /\ UNCHANGED wire
    /\ UNCHANGED <<proc, live, nextId, inbox, reply, closed, call, serial>>

-----------------------------------------------------------------------------
(* The caller's half of a round trip.  These operators constrain the worker's *)
(* process and pipes, the transport, call and serial; KernelSession says what *)
(* becomes of the rest.                                                        *)

\* _stop_locked: closed, and a running worker is told to terminate.
StopLocked ==
    /\ closed' = TRUE
    /\ proc' = IF Alive THEN "term" ELSE proc

\* round_trip up to the wait: the request is written.
Send(op, sid) ==
    /\ call = None /\ ~closed /\ Alive
    /\ serial' = serial + 1
    /\ call' = [op |-> op, rid |-> serial + 1, sid |-> sid]
    /\ inbox' = Append(inbox, call')
    /\ UNCHANGED <<proc, live, nextId, reply, wire, transportVars>>

\* round_trip before the wait, raising: the transport is closed, or the worker
\* is found dead by poll or by the write.
SendRaises == call = None /\ (closed \/ ~Alive)

SendException == IF closed THEN "transport" ELSE "exited"

\* round_trip after the wait, raising: the deadline passed with an empty queue,
\* the worker's output ended, or the line is not a whole line.
WaitRaises ==
    /\ call # None
    /\ responses # <<>> => Head(responses).res \in {"eof", "torn"}

WaitException ==
    IF responses = <<>> THEN "timeout"
    ELSE IF Head(responses).res = "eof" THEN "exited" ELSE "transport"

\* round_trip returning the line r.
Receive(r) ==
    /\ call # None /\ responses # <<>>
    /\ r = Head(responses)
    /\ r.res \notin {"eof", "torn"}

\* The envelope every parser checks first: r answers the call that is waiting.
Answers(r) == r.rid = call.rid /\ r.op = call.op

WorkerNext == WorkerHandle \/ WorkerWrite \/ WorkerExit \/ WorkerDie
=============================================================================
