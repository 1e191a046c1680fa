------------------------- MODULE KernelSessionProofs -------------------------
(***************************************************************************)
(* Theorems about KernelSession for every set of observations, every index  *)
(* of them, every number of tasks and actions and every cap.                *)
(***************************************************************************)
EXTENDS KernelSession, SequenceTheorems, FiniteSetTheorems, TLAPS

----------------------------------------------------------------------------
(* The inductive invariant. *)

\* What a whole line of the worker says, by the command it answers.
GoodLines ==
    {l \in Lines :
        /\ l.op = "init" /\ l.res = "ok" => l.sid \in Nat /\ l.view \in Views
        /\ l.op = "apply" /\ l.res \in {"partial", "success"} => l.sid \in Nat
        /\ l.op = "apply" /\ l.res = "partial" => l.view \in Obs
        /\ l.op = "discard" /\ l.res = "ok" => l.sid \in Nat}

\* The worker, the transport and the call.
RpcTypes ==
    /\ proc \in {"running", "leaving", "term", "exited", "dead"}
    /\ DOMAIN live \subseteq Nat /\ \A i \in DOMAIN live : live[i] \in Views
    /\ IsFiniteSet(DOMAIN live) /\ \A i \in DOMAIN live : i < nextId
    /\ nextId \in Nat /\ serial \in Nat
    /\ inbox \in Seq(Requests) /\ reply \in Seq(GoodLines) /\ wire \in Seq(GoodLines)
    /\ responses \in Seq(GoodLines)
    /\ reader \in {"reading", "done"} /\ closed \in BOOLEAN
    /\ call \in Requests \cup {None}

\* The ledgers and the outcome.
LedgerTypes ==
    /\ owned \subseteq Nat /\ handles \subseteq Nat /\ todo \subseteq Nat
    /\ phase \in Phases
    /\ drop \in [sid : Nat \cup {None}, row : Rows \cup {None}]
    /\ error \in Errors \cup {None} /\ closeError \in Errors \cup {None}
    /\ registered \in BOOLEAN

\* The builder.
BuilderTypes ==
    /\ task \in Nat /\ cursor \in Nat \ {0} /\ act \in Nat \ {0}
    /\ DOMAIN reps \subseteq Indices /\ pending \in Seq(Indices)
    /\ \A k \in DOMAIN reps : reps[k] \in Nat \X Obs
    /\ DOMAIN rows \subseteq Indices \X Actions
    /\ \A p \in DOMAIN rows : rows[p] \in Rows
    /\ dups \in Seq(Indices \X Nat)

\* The stdout thread ends only when the pipe has no writer and is empty.
ReaderInv == reader = "done" => ~Alive /\ wire = <<>>

\* Where the one exchange that may be under way stands.
Stage(in, rep, wi, res) == inbox = in /\ reply = rep /\ wire = wi /\ responses = res

Usable == ~closed /\ error # "interrupt"

FlightInv ==
    Usable => \E e \in {<<>>, <<EOF>>} :
        /\ e = <<EOF>> => reader = "done"
        /\ \/ Stage(<<>>, <<>>, <<>>, e)
           \/ call # None /\ Stage(<<call>>, <<>>, <<>>, e)
           \/ call # None /\ \E l \in GoodLines :
                 /\ Answers(l) /\ l.res # "eof"
                 /\ \/ Stage(<<>>, <<l>>, <<>>, e) \/ Stage(<<>>, <<>>, <<l>>, e)
                    \/ Stage(<<>>, <<>>, <<>>, <<l>> \o e)

\* A run that has met no error and has not ended.
Clean == error = None /\ closeError = None /\ phase # "done"

\* What an answer means for the ledgers before it is received.
Fresh(l) == l.sid \notin owned /\ DOMAIN live = owned \cup {l.sid}

Explains(l) ==
    /\ l.op \in {"load", "status", "shutdown"} => owned = DOMAIN live
    /\ l.op = "init" /\ l.res = "ok" => Fresh(l)
    /\ l.op = "apply" /\ l.res \in {"partial", "success"} => Fresh(l)
    /\ l.op = "apply" /\ l.res = "failure" => owned = DOMAIN live
    /\ l.op = "discard" => DOMAIN live = owned \ {call.sid} /\ l.sid = call.sid

\* The next answer.
Coming(l) == reply = <<l>> \/ wire = <<l>> \/ (responses # <<>> /\ responses[1] = l)

LedgerInv ==
    Clean =>
        /\ call = None \/ inbox # <<>> => owned = DOMAIN live
        /\ \A l \in GoodLines : Coming(l) /\ l.res \notin {"torn", "eof"} => Explains(l)
        /\ owned \ handles \subseteq {drop.sid}
        /\ phase = "cleanup" => todo = handles
        /\ phase \in {"status", "shutdown", "finish"} => handles = {}

\* What the builder waits for in each phase.
CallInv ==
    call # None =>
        /\ call.op = "load" => phase = "load"
        /\ call.op = "init" => phase = "init" /\ drop = NoDrop
        /\ call.op = "apply" => HasSource
        /\ call.op = "discard" => drop # NoDrop /\ call.sid = drop.sid
        /\ call.op = "status" => phase = "status"
        /\ call.op = "shutdown" => phase = "shutdown"

Positioned ==
    /\ act \in Actions
    /\ \/ phase = "expand" /\ cursor <= Len(pending)
       \/ phase = "audit" /\ cursor <= Len(dups)

\* A row that is settled refers to a representative.
Grounded(row, known) ==
    row \in {SinkRow, ClosedRow} \/ \E o \in Obs : row = OpenRow(o) /\ Index[o] \in known

\* What may be waiting for its discard.
DropInv ==
    /\ phase \in {"load", "result", "status", "shutdown", "finish", "done"} => drop = NoDrop
    /\ drop # NoDrop => drop.sid \in Nat
    /\ drop.row # None => Positioned /\ Grounded(drop.row, DOMAIN reps)
    /\ phase = "cleanup" /\ drop # NoDrop => drop.sid \in todo

\* An exception ends the run; the transport is closed only with one, or at the end.
PhaseInv ==
    /\ phase \in Running \cup {"load"} => error = None /\ closeError = None
    /\ phase = "load" => task = 1
    /\ closed => ~Clean
    /\ phase # "done" => handles \subseteq owned

\* The representatives and the duplicates are different states.
RunInv ==
    phase \in Running \cup {"load"} =>
        /\ \A k \in DOMAIN reps : reps[k][1] \in handles /\ reps[k][1] # drop.sid
        /\ \A i \in DOMAIN dups, k \in DOMAIN reps : dups[i][2] # reps[k][1]
        /\ phase \in {"load", "init", "expand"} =>
              \A i \in DOMAIN dups : dups[i][2] \in owned /\ dups[i][2] # drop.sid

\* The rows that are sealed are those before the position, and in the end all.
RowsInv ==
    /\ \A i \in DOMAIN pending : pending[i] \in DOMAIN reps
    /\ \A k \in DOMAIN reps : \E i \in DOMAIN pending : pending[i] = k
    /\ \A i \in DOMAIN dups : dups[i][1] \in DOMAIN reps
    /\ phase \in {"load", "init"} => DOMAIN rows = {}
    /\ phase = "expand" =>
          \A p \in Indices \X Actions :
              p \in DOMAIN rows <=>
                  \E i \in DOMAIN pending :
                      p[1] = pending[i] /\ (i < cursor \/ (i = cursor /\ p[2] < act))
    /\ phase \notin {"load", "init", "expand"} /\ error = None =>
          DOMAIN rows = (DOMAIN reps) \X Actions
    /\ \A p \in DOMAIN rows : Grounded(rows[p], DOMAIN reps)

RegisteredInv ==
    registered =>
        /\ phase = "done" /\ proc = "exited" /\ error = None
        /\ DOMAIN live = {} /\ handles = {} /\ owned = {}

Inv ==
    /\ RpcTypes /\ LedgerTypes /\ BuilderTypes
    /\ ReaderInv /\ FlightInv /\ LedgerInv
    /\ CallInv /\ DropInv /\ PhaseInv /\ RunInv /\ RowsInv /\ RegisteredInv

----------------------------------------------------------------------------
(* Operators. *)

LEMMA PutFacts ==
    ASSUME NEW f, NEW x, NEW v
    PROVE  /\ DOMAIN Put(f, x, v) = DOMAIN f \cup {x} /\ Put(f, x, v)[x] = v
           /\ \A y \in DOMAIN f : y # x => Put(f, x, v)[y] = f[y]
BY DEF Put

LEMMA ForgetFacts ==
    ASSUME NEW f, NEW x
    PROVE  /\ DOMAIN Forget(f, x) = DOMAIN f \ {x}
           /\ \A y \in DOMAIN f \ {x} : Forget(f, x)[y] = f[y]
BY DEF Forget

LEMMA QueueFacts ==
    ASSUME NEW S, NEW q \in Seq(S)
    PROVE  /\ Len(q) \in Nat /\ DOMAIN q = 1 .. Len(q)
           /\ \A i \in DOMAIN q : q[i] \in S
           /\ q # <<>> => Head(q) = q[1] /\ Head(q) \in S /\ Tail(q) \in Seq(S) /\ 1 \in DOMAIN q
           /\ \A x \in S : Append(q, x) \in Seq(S)
BY LenProperties, ElementOfSeq, HeadTailProperties, AppendProperties

LEMMA EofFacts == EOF \in GoodLines /\ EOF.res = "eof"
BY DEF EOF, GoodLines, Lines, Results

LEMMA PairFacts ==
    ASSUME NEW S, NEW a \in S, NEW b \in S
    PROVE  (<<a>> \o <<b>>)[1] = a /\ Tail(<<a>> \o <<b>>) = <<b>>
<1> DEFINE s == <<a>> \o <<b>>
<1>1. <<a>> \in Seq(S) /\ <<b>> \in Seq(S) /\ Len(<<a>>) = 1 /\ Len(<<b>>) = 1
  OBVIOUS
<1>2. /\ s \in Seq(S) /\ Len(s) = 1 + 1
      /\ \A i \in 1 .. 1 + 1 : s[i] = IF i <= 1 THEN <<a>>[i] ELSE <<b>>[i - 1]
  BY <1>1, ConcatProperties
<1>3. s[1] = a /\ s[2] = b /\ Len(s) = 2
  BY <1>2
<1>4. s # <<>>
  BY <1>3, EmptySeq
<1> HIDE DEF s
<1> DEFINE t == Tail(s)
           u == <<b>>
<1>5. t \in Seq(S) /\ Len(t) = Len(s) - 1 /\ \A i \in 1 .. Len(t) : t[i] = s[i + 1]
  BY <1>2, <1>4, HeadTailProperties
<1>6. t = u
  <2>1. u \in Seq(S) /\ Len(u) = 1 /\ u[1] = b
    BY <1>1
  <2> HIDE DEF t, u
  <2>2. Len(t) = 1
    BY <1>3, <1>5
  <2>3. \A i \in 1 .. Len(t) : t[i] = u[i]
    BY <1>3, <1>5, <2>1, <2>2
  <2> QED BY <1>5, <2>1, <2>2, <2>3, SeqEqual
<1> QED BY <1>3, <1>6 DEF s

LEMMA TornFacts ==
    ASSUME NEW l \in GoodLines
    PROVE  LET t == [l EXCEPT !.res = "torn"]
           IN  t \in GoodLines /\ t.op = l.op /\ t.rid = l.rid /\ t.res = "torn"
BY DEF GoodLines, Lines, Results

LEMMA LineFacts ==
    ASSUME NEW q \in Requests, NEW res \in Results, NEW sid \in Nat \cup {None},
           NEW view \in Views \cup {None}, NEW n \in Nat
    PROVE  LET l == Line(q, res, sid, view, n)
           IN  /\ l \in Lines /\ l.op = q.op /\ l.rid = q.rid /\ l.res = res
               /\ l.sid = sid /\ l.view = view
BY DEF Line, Lines, Requests

----------------------------------------------------------------------------
(* The worker's commands. *)

LEMMA CountFacts == ASSUME RpcTypes PROVE Cardinality(DOMAIN live) \in Nat
BY FS_CardinalityType DEF RpcTypes

\* What the worker is left with after a command.
LiveOK ==
    /\ DOMAIN live \subseteq Nat /\ \A i \in DOMAIN live : live[i] \in Views
    /\ IsFiniteSet(DOMAIN live) /\ \A i \in DOMAIN live : i < nextId
    /\ nextId \in Nat

LEMMA StoreFacts ==
    ASSUME LiveOK, NEW view \in Views, live' = Put(live, nextId, view), nextId' = nextId + 1
    PROVE  /\ LiveOK' /\ DOMAIN live' = DOMAIN live \cup {nextId} /\ nextId \notin DOMAIN live
<1>1. DOMAIN live' = DOMAIN live \cup {nextId} /\ live'[nextId] = view
      /\ \A y \in DOMAIN live : y # nextId => live'[y] = live[y]
  BY DEF Put
<1>2. nextId \in Nat /\ nextId \notin DOMAIN live
  BY DEF LiveOK
<1>3. IsFiniteSet(DOMAIN live')
  BY <1>1, FS_AddElement DEF LiveOK
<1>4. \A i \in DOMAIN live' : i \in Nat /\ i < nextId' /\ live'[i] \in Views
  BY <1>1, <1>2 DEF LiveOK
<1> QED BY <1>1, <1>2, <1>3, <1>4 DEF LiveOK

\* What a command leaves: at most one good line for its request.
Handled(q) ==
    /\ LiveOK'
    /\ proc' \in {proc, "leaving"} /\ (proc' # proc => proc = "running")
    /\ \/ reply' = <<>> /\ q.op = "apply" /\ live' = live
       \/ \E l \in GoodLines :
             /\ reply' = <<l>> /\ l.op = q.op /\ l.rid = q.rid /\ l.res \notin {"torn", "eof"}
             /\ l.op \in {"load", "status", "shutdown"} => live' = live
             /\ l.op \in {"init", "apply"} /\ l.res \in {"ok", "partial", "success"} =>
                   l.sid \notin DOMAIN live /\ DOMAIN live' = DOMAIN live \cup {l.sid}
             /\ l.op = "apply" /\ l.res = "failure" => live' = live
             /\ l.op = "discard" => DOMAIN live' = DOMAIN live \ {q.sid} /\ l.sid = q.sid

LEMMA HandleInitFacts ==
    ASSUME RpcTypes, NEW q \in Requests, HandleInit(q) PROVE Handled(q)
<1>0. LiveOK /\ proc' = proc /\ q.op = "init"
  BY DEF RpcTypes, LiveOK, HandleInit
<1>1. ASSUME NEW view \in Views, NEW res \in {"ok", "error"},
             live' = Put(live, nextId, view), nextId' = nextId + 1,
             reply' = <<Line(q, res, nextId, view, 0)>>
      PROVE  Handled(q)
  <2> DEFINE l == Line(q, res, nextId, view, 0)
  <2>1. LiveOK' /\ DOMAIN live' = DOMAIN live \cup {nextId} /\ nextId \notin DOMAIN live
    BY <1>0, <1>1, StoreFacts
  <2>2. nextId \in Nat
    BY <1>0 DEF LiveOK
  <2>3. /\ l \in Lines /\ l.op = q.op /\ l.rid = q.rid /\ l.res = res
        /\ l.sid = nextId /\ l.view = view
    BY <2>2, LineFacts DEF Results
  <2> HIDE DEF l
  <2>4. l \in GoodLines
    BY <1>0, <2>2, <2>3 DEF GoodLines
  <2>5. reply' = <<l>>
    BY <1>1 DEF l
  <2> QED BY <1>0, <2>1, <2>3, <2>4, <2>5 DEF Handled
<1>2. ASSUME reply' = <<Line(q, "error", None, None, 0)>>, UNCHANGED <<live, nextId>>
      PROVE  Handled(q)
  <2> DEFINE l == Line(q, "error", None, None, 0)
  <2>1. l \in Lines /\ l.op = q.op /\ l.rid = q.rid /\ l.res = "error"
    <3>1. "error" \in Results /\ 0 \in Nat /\ None \in Nat \cup {None}
      BY DEF Results
    <3> QED BY <3>1 DEF Line, Lines, Requests
  <2> HIDE DEF l
  <2>2. l \in GoodLines
    BY <1>0, <2>1 DEF GoodLines
  <2>3. reply' = <<l>>
    BY <1>2 DEF l
  <2> QED BY <1>0, <1>2, <2>1, <2>2, <2>3 DEF Handled, LiveOK
<1> QED BY <1>1, <1>2 DEF HandleInit

LEMMA HandleApplyFacts ==
    ASSUME RpcTypes, NEW q \in Requests, HandleApply(q), reply = <<>> PROVE Handled(q)
<1>0. LiveOK /\ q.op = "apply" /\ nextId \in Nat
  BY DEF RpcTypes, LiveOK, HandleApply
<1>1. ASSUME NEW view \in Views, live' = Put(live, nextId, view), nextId' = nextId + 1,
             reply' = <<Line(q, IF view = Closed THEN "success" ELSE "partial", nextId, view, 0)>>,
             proc' = proc
      PROVE  Handled(q)
  <2> DEFINE res == IF view = Closed THEN "success" ELSE "partial"
             l == Line(q, res, nextId, view, 0)
  <2>1. LiveOK' /\ DOMAIN live' = DOMAIN live \cup {nextId} /\ nextId \notin DOMAIN live
    BY <1>0, <1>1, StoreFacts
  <2>2. res \in {"success", "partial"} /\ (res = "partial" => view \in Obs)
    BY DEF Views
  <2>3. reply' = <<l>>
    BY <1>1
  <2> HIDE DEF res
  <2>4. /\ l \in Lines /\ l.op = q.op /\ l.rid = q.rid /\ l.res = res
        /\ l.sid = nextId /\ l.view = view
    BY <1>0, <2>2, LineFacts DEF Results
  <2> HIDE DEF l
  <2>5. l \in GoodLines
    BY <1>0, <2>2, <2>4 DEF GoodLines
  <2> QED BY <1>0, <1>1, <2>1, <2>2, <2>3, <2>4, <2>5 DEF Handled
<1>2. ASSUME NEW res \in {"failure", "timeout", "censor"},
             reply' = <<Line(q, res, nextId, None, 0)>>, live' = live, nextId' = nextId + 1,
             proc' = proc
      PROVE  Handled(q)
  <2> DEFINE l == Line(q, res, nextId, None, 0)
  <2>1. LiveOK'
    BY <1>0, <1>2 DEF LiveOK
  <2>2. l \in Lines /\ l.op = q.op /\ l.rid = q.rid /\ l.res = res
    BY <1>0, LineFacts DEF Results
  <2>3. reply' = <<l>>
    BY <1>2
  <2> HIDE DEF l
  <2>4. l \in GoodLines
    BY <1>0, <2>2 DEF GoodLines
  <2> QED BY <1>0, <1>2, <2>1, <2>2, <2>3, <2>4 DEF Handled
<1>3. ASSUME proc' = IF proc = "running" THEN "leaving" ELSE proc, UNCHANGED <<live, nextId, reply>>
      PROVE  Handled(q)
  <2>1. LiveOK'
    BY <1>0, <1>3 DEF LiveOK
  <2>2. proc' \in {proc, "leaving"} /\ (proc' # proc => proc = "running")
    BY <1>3
  <2> QED BY <1>0, <1>3, <2>1, <2>2 DEF Handled
<1>4. ASSUME reply' = <<Line(q, "error", None, None, 0)>>, UNCHANGED <<live, nextId, proc>>
      PROVE  Handled(q)
  <2> DEFINE l == Line(q, "error", None, None, 0)
  <2>1. l \in Lines /\ l.op = q.op /\ l.rid = q.rid /\ l.res = "error"
    <3>1. "error" \in Results /\ 0 \in Nat /\ None \in Nat \cup {None}
      BY DEF Results
    <3> QED BY <3>1 DEF Line, Lines, Requests
  <2>2. reply' = <<l>>
    BY <1>4
  <2> HIDE DEF l
  <2>3. l \in GoodLines
    BY <1>0, <2>1 DEF GoodLines
  <2> QED BY <1>0, <1>4, <2>1, <2>2, <2>3 DEF Handled, LiveOK
<1> QED BY <1>1, <1>2, <1>3, <1>4 DEF HandleApply

LEMMA HandleDiscardFacts ==
    ASSUME RpcTypes, NEW q \in Requests, HandleDiscard(q) PROVE Handled(q)
<1> DEFINE res == IF q.sid \in DOMAIN live THEN "ok" ELSE "error"
           l == Line(q, res, q.sid, None, Cardinality(DOMAIN live))
<1>1. /\ q.op = "discard" /\ live' = Forget(live, q.sid) /\ nextId' = nextId /\ proc' = proc
      /\ reply' = <<l>> /\ q.sid \in Nat \cup {None} /\ nextId \in Nat
  BY DEF HandleDiscard, RpcTypes, Requests
<1>2. res \in {"ok", "error"} /\ (res = "ok" => q.sid \in Nat)
  BY DEF RpcTypes
<1> HIDE DEF res
<1>3. l \in Lines /\ l.op = q.op /\ l.rid = q.rid /\ l.res = res /\ l.sid = q.sid
  <2>1. res \in Results
    BY <1>2 DEF Results
  <2> QED BY <1>1, <2>1, CountFacts DEF Line, Lines, Requests
<1> HIDE DEF l
<1>4. l \in GoodLines
  BY <1>1, <1>2, <1>3 DEF GoodLines
<1>5. DOMAIN live' = DOMAIN live \ {q.sid} /\ \A y \in DOMAIN live' : live'[y] = live[y]
  BY <1>1 DEF Forget
<1>6. LiveOK'
  <2>1. IsFiniteSet(DOMAIN live')
    BY <1>5, FS_RemoveElement DEF RpcTypes
  <2> QED BY <1>1, <1>5, <2>1 DEF RpcTypes, LiveOK
<1> QED BY <1>1, <1>2, <1>3, <1>4, <1>5, <1>6 DEF Handled

LEMMA HandlePlainFacts ==
    ASSUME RpcTypes, NEW q \in Requests, HandleLoad(q) \/ HandleStatus(q) \/ HandleShutdown(q)
    PROVE  Handled(q)
<1>1. PICK res \in {"ok", "error"}, n \in Nat :
          /\ reply' = <<Line(q, res, None, None, n)>>
          /\ q.op \in {"load", "status", "shutdown"} /\ UNCHANGED <<live, nextId, proc>>
  BY CountFacts DEF HandleLoad, HandleStatus, HandleShutdown
<1> DEFINE l == Line(q, res, None, None, n)
<1>2. l \in Lines /\ l.op = q.op /\ l.rid = q.rid /\ l.res = res
  <2>1. res \in Results /\ None \in Nat \cup {None}
    BY DEF Results
  <2> QED BY <2>1 DEF Line, Lines, Requests
<1>3. reply' = <<l>>
  BY <1>1
<1> HIDE DEF l
<1>4. l \in GoodLines
  BY <1>1, <1>2 DEF GoodLines
<1> QED BY <1>1, <1>2, <1>3, <1>4 DEF Handled, LiveOK, RpcTypes

LEMMA HandledFacts ==
    ASSUME RpcTypes, NEW q \in Requests, reply = <<>>,
           HandleLoad(q) \/ HandleInit(q) \/ HandleApply(q) \/ HandleDiscard(q)
           \/ HandleStatus(q) \/ HandleShutdown(q)
    PROVE  Handled(q)
BY HandlePlainFacts, HandleInitFacts, HandleApplyFacts, HandleDiscardFacts

----------------------------------------------------------------------------
(* The steps of the worker and of the stdout thread. *)

LEMMA InitInv == Init => Inv
<1> SUFFICES ASSUME Init PROVE Inv
  OBVIOUS
<1> USE NoneIsNoError, NoneIsNoRequest, ObsAssumption, SizesAssumption DEF Init, RpcInit, NoDrop
<1>1. <<>> \in Seq(Requests) /\ <<>> \in Seq(GoodLines) /\ <<>> \in Seq(Indices)
      /\ <<>> \in Seq(Indices \X Nat) /\ DOMAIN <<>> = {} /\ Len(<<>>) = 0
  BY EmptySeq
<1>2. IsFiniteSet({})
  BY FS_EmptySet
<1>3. RpcTypes
  BY <1>1, <1>2 DEF RpcTypes
<1>4. LedgerTypes
  BY DEF LedgerTypes, Phases
<1>5. BuilderTypes
  BY <1>1 DEF BuilderTypes
<1>6. ReaderInv /\ FlightInv
  BY DEF ReaderInv, FlightInv, Stage
<1>7. LedgerInv
  BY <1>1 DEF LedgerInv, Coming
<1>8. CallInv /\ DropInv /\ PhaseInv /\ RunInv /\ RowsInv /\ RegisteredInv
  BY <1>1 DEF CallInv, DropInv, PhaseInv, RunInv, RowsInv, RegisteredInv, Clean
<1> QED BY <1>3, <1>4, <1>5, <1>6, <1>7, <1>8 DEF Inv

LEMMA CleanIsUsable == ASSUME Inv, Clean PROVE Usable
BY NoneIsNoError DEF Inv, PhaseInv, Clean, Usable, Errors

\* A step that leaves the caller alone.
LEMMA SessionSame ==
    ASSUME Inv, UNCHANGED sessionVars, call' = call, closed' = closed,
           RpcTypes', ReaderInv', FlightInv', LedgerInv', RegisteredInv'
    PROVE  Inv'
<1> USE DEF sessionVars, ledgerVars, builderVars, outcomeVars
<1>1. LedgerTypes' /\ BuilderTypes'
  BY DEF Inv, LedgerTypes, BuilderTypes
<1>2. CallInv' /\ DropInv'
  BY DEF Inv, CallInv, DropInv, HasSource, Positioned, Grounded
<1>3. PhaseInv' /\ RunInv' /\ RowsInv'
  BY DEF Inv, PhaseInv, RunInv, RowsInv, Clean, Grounded
<1> QED BY <1>1, <1>2, <1>3 DEF Inv

LEMMA WorkerHandleKeeps ==
    ASSUME Inv, WorkerHandle, UNCHANGED sessionVars
    PROVE  Inv'
<1> DEFINE q == Head(inbox)
<1>1. /\ proc \in {"running", "term"} /\ reply = <<>> /\ inbox # <<>> /\ inbox' = Tail(inbox)
      /\ UNCHANGED <<wire, transportVars, call, serial>> /\ RpcTypes
  BY DEF WorkerHandle, Inv
<1>2. q \in Requests /\ inbox' \in Seq(Requests)
  BY <1>1, QueueFacts DEF RpcTypes
<1>3. Handled(q)
  <2>1. HandleLoad(q) \/ HandleInit(q) \/ HandleApply(q) \/ HandleDiscard(q)
        \/ HandleStatus(q) \/ HandleShutdown(q)
    BY DEF WorkerHandle
  <2> HIDE DEF q
  <2> QED BY <1>1, <1>2, <2>1, HandledFacts
<1>4. reply' \in Seq(GoodLines)
  <2>1. \A l \in GoodLines : <<l>> \in Seq(GoodLines)
    OBVIOUS
  <2> QED BY <1>3, <2>1, EmptySeq DEF Handled
<1>5. RpcTypes'
  <2>1. LiveOK' /\ proc' \in {"running", "leaving", "term", "exited", "dead"}
    BY <1>1, <1>3 DEF Handled, RpcTypes
  <2> QED BY <1>1, <1>2, <1>4, <2>1 DEF RpcTypes, LiveOK, transportVars
<1>6. ReaderInv' /\ reader = "reading"
  <2>1. Alive
    BY <1>1 DEF Alive
  <2> QED BY <1>1, <2>1 DEF Inv, ReaderInv, RpcTypes, transportVars
<1>7. ASSUME Usable
      PROVE  /\ call # None /\ inbox = <<call>> /\ wire = <<>> /\ responses = <<>>
             /\ q = call /\ inbox' = <<>>
  <2>1. call # None /\ inbox = <<call>> /\ wire = <<>> /\ responses = <<>>
    BY <1>1, <1>6, <1>7 DEF Inv, FlightInv, Stage
  <2> QED BY <1>1, <2>1
<1>8. FlightInv'
  <2> SUFFICES ASSUME Usable PROVE FlightInv'
    BY <1>1 DEF FlightInv, Usable, transportVars, sessionVars, outcomeVars
  <2>1. wire' = <<>> /\ responses' = <<>> /\ call' = call /\ inbox' = <<>>
    BY <1>1, <1>7 DEF transportVars
  <2>2. CASE reply' = <<>>
    BY <2>1, <2>2 DEF FlightInv, Stage
  <2>3. CASE \E l \in GoodLines :
                reply' = <<l>> /\ l.op = q.op /\ l.rid = q.rid /\ l.res \notin {"torn", "eof"}
    <3>1. PICK l \in GoodLines :
                reply' = <<l>> /\ l.op = q.op /\ l.rid = q.rid /\ l.res \notin {"torn", "eof"}
      BY <2>3
    <3>2. Answers(l)'
      BY <1>7, <2>1, <3>1 DEF Answers
    <3> QED BY <1>7, <2>1, <3>1, <3>2 DEF FlightInv, Stage
  <2> QED BY <1>3, <2>2, <2>3 DEF Handled
<1>9. LedgerInv'
  <2> SUFFICES ASSUME Clean PROVE LedgerInv'
    BY DEF LedgerInv, Clean, sessionVars, outcomeVars
  <2>1. Usable /\ call # None /\ q = call /\ inbox' = <<>> /\ owned = DOMAIN live
    BY <1>1, <1>7, CleanIsUsable DEF Inv, LedgerInv
  <2>2. wire' = <<>> /\ responses' = <<>> /\ call' = call /\ owned' = owned
    BY <1>1, <1>7, <2>1 DEF transportVars, sessionVars, ledgerVars
  <2>3. ASSUME NEW l \in GoodLines, Coming(l)' PROVE Explains(l)'
    <3>1. reply' = <<l>>
      BY <2>2, <2>3 DEF Coming
    <3>2. PICK m \in GoodLines :
             /\ reply' = <<m>> /\ m.op = q.op
             /\ m.op \in {"load", "status", "shutdown"} => live' = live
             /\ m.op \in {"init", "apply"} /\ m.res \in {"ok", "partial", "success"} =>
                   m.sid \notin DOMAIN live /\ DOMAIN live' = DOMAIN live \cup {m.sid}
             /\ m.op = "apply" /\ m.res = "failure" => live' = live
             /\ m.op = "discard" => DOMAIN live' = DOMAIN live \ {q.sid} /\ m.sid = q.sid
      BY <1>3, <3>1 DEF Handled
    <3>3. l = m
      BY <3>1, <3>2
    <3> HIDE DEF q
    <3> QED BY <2>1, <2>2, <3>2, <3>3 DEF Explains, Fresh
  <2>4. call' # None /\ inbox' = <<>>
    BY <2>1, <2>2
  <2>5. /\ owned' \ handles' \subseteq {drop'.sid}
        /\ phase' = "cleanup" => todo' = handles'
        /\ phase' \in {"status", "shutdown", "finish"} => handles' = {}
    BY DEF Inv, LedgerInv, sessionVars, ledgerVars
  <2> QED BY <2>3, <2>4, <2>5 DEF LedgerInv
<1>10. RegisteredInv'
  BY <1>1 DEF Inv, RegisteredInv, sessionVars, outcomeVars
<1> QED BY <1>1, <1>5, <1>6, <1>8, <1>9, <1>10, SessionSame DEF transportVars

\* The ledgers say nothing new when nothing that is stored or owned changes and
\* no other answer comes.
LEMMA LedgerSame ==
    ASSUME Inv, UNCHANGED <<sessionVars, live, call>>, inbox' = inbox \/ inbox' = <<>>,
           \A l \in GoodLines : Coming(l)' /\ l.res \notin {"torn", "eof"} => Coming(l)
    PROVE  LedgerInv'
<1> USE DEF sessionVars, ledgerVars, outcomeVars
<1> SUFFICES ASSUME Clean PROVE LedgerInv'
  BY DEF LedgerInv, Clean
<1>1. \A l \in GoodLines : Explains(l) => Explains(l)'
  BY DEF Explains, Fresh
<1> QED BY <1>1 DEF Inv, LedgerInv

LEMMA WorkerWriteKeeps ==
    ASSUME Inv, WorkerWrite, UNCHANGED sessionVars
    PROVE  Inv'
<1>1. /\ Alive /\ reply # <<>> /\ wire' = wire \o reply /\ reply' = <<>> /\ RpcTypes
      /\ proc' \in {proc, "leaving"} /\ (proc' # proc => proc = "running")
      /\ UNCHANGED <<live, nextId, inbox, transportVars, call, serial>>
  BY DEF WorkerWrite, Inv
<1>2. RpcTypes'
  <2>1. wire' \in Seq(GoodLines) /\ reply' \in Seq(GoodLines)
    BY <1>1, ConcatProperties, EmptySeq DEF RpcTypes
  <2> QED BY <1>1, <2>1 DEF RpcTypes, transportVars
<1>3. ReaderInv' /\ reader = "reading"
  BY <1>1 DEF Inv, ReaderInv, RpcTypes, transportVars
<1>4. ASSUME Usable
      PROVE  /\ call # None /\ responses = <<>> /\ inbox = <<>>
             /\ \E l \in GoodLines : Answers(l) /\ l.res # "eof" /\ reply = <<l>> /\ wire' = <<l>>
  <2>1. /\ call # None /\ responses = <<>> /\ inbox = <<>> /\ wire = <<>>
        /\ \E l \in GoodLines : Answers(l) /\ l.res # "eof" /\ reply = <<l>>
    BY <1>1, <1>3, <1>4 DEF Inv, FlightInv, Stage
  <2>2. wire' = reply
    BY <1>1, <2>1, ConcatEmptySeq DEF RpcTypes
  <2> QED BY <2>1, <2>2
<1>5. FlightInv'
  <2> SUFFICES ASSUME Usable PROVE FlightInv'
    BY <1>1 DEF FlightInv, Usable, transportVars, sessionVars, outcomeVars
  <2>1. PICK l \in GoodLines : Answers(l) /\ l.res # "eof" /\ wire' = <<l>>
    BY <1>4
  <2>2. Answers(l)' /\ call' # None
    BY <1>1, <1>4, <2>1 DEF Answers
  <2> QED BY <1>1, <1>4, <2>1, <2>2 DEF FlightInv, Stage, transportVars
<1>6. LedgerInv'
  <2> SUFFICES ASSUME Clean PROVE LedgerInv'
    BY DEF LedgerInv, Clean, sessionVars, outcomeVars
  <2>1. \A l \in GoodLines : Coming(l)' /\ l.res \notin {"torn", "eof"} => Coming(l)
    BY <1>1, <1>4, CleanIsUsable DEF Coming, transportVars
  <2> QED BY <1>1, <2>1, LedgerSame
<1>7. RegisteredInv'
  BY <1>1 DEF Inv, RegisteredInv, sessionVars, outcomeVars, Alive, ledgerVars
<1> QED BY <1>1, <1>2, <1>3, <1>5, <1>6, <1>7, SessionSame DEF transportVars

LEMMA WorkerExitKeeps ==
    ASSUME Inv, WorkerExit, UNCHANGED sessionVars
    PROVE  Inv'
<1>1. /\ proc = "leaving" /\ proc' = "exited" /\ inbox' = <<>> /\ RpcTypes
      /\ UNCHANGED <<live, nextId, reply, wire, transportVars, call, serial>>
  BY DEF WorkerExit, Inv
<1>2. RpcTypes'
  BY <1>1, EmptySeq DEF RpcTypes, transportVars
<1>3. ReaderInv'
  BY <1>1 DEF Inv, ReaderInv, Alive, transportVars
<1>4. FlightInv'
  <2> SUFFICES ASSUME Usable PROVE FlightInv'
    BY <1>1 DEF FlightInv, Usable, transportVars, sessionVars, outcomeVars
  <2> QED BY <1>1 DEF Inv, FlightInv, Stage, Answers, transportVars
<1>5. LedgerInv'
  <2>1. \A l \in GoodLines : Coming(l)' => Coming(l)
    BY <1>1 DEF Coming, transportVars
  <2> QED BY <1>1, <2>1, LedgerSame
<1>6. RegisteredInv'
  BY <1>1 DEF Inv, RegisteredInv, sessionVars, outcomeVars
<1> QED BY <1>1, <1>2, <1>3, <1>4, <1>5, <1>6, SessionSame DEF transportVars

LEMMA WorkerDieKeeps ==
    ASSUME Inv, WorkerDie, UNCHANGED sessionVars
    PROVE  Inv'
<1>1. /\ Alive /\ proc' = "dead" /\ inbox' = <<>> /\ reply' = <<>> /\ RpcTypes
      /\ UNCHANGED <<live, nextId, transportVars, call, serial>>
  BY DEF WorkerDie, Inv
<1>2. \/ wire' = wire
      \/ \E i \in DOMAIN reply : wire' = Append(wire, [reply[i] EXCEPT !.res = "torn"])
  BY DEF WorkerDie
<1>3. wire' \in Seq(GoodLines)
  <2>1. ASSUME NEW i \in DOMAIN reply, wire' = Append(wire, [reply[i] EXCEPT !.res = "torn"])
        PROVE  wire' \in Seq(GoodLines)
    <3>1. reply[i] \in GoodLines
      BY <1>1, QueueFacts DEF RpcTypes
    <3>2. [reply[i] EXCEPT !.res = "torn"] \in GoodLines
      BY <3>1, TornFacts
    <3> QED BY <1>1, <2>1, <3>2, AppendProperties DEF RpcTypes
  <2> QED BY <1>1, <1>2, <2>1 DEF RpcTypes
<1>4. RpcTypes'
  BY <1>1, <1>3, EmptySeq DEF RpcTypes, transportVars
<1>5. ReaderInv' /\ reader = "reading"
  BY <1>1 DEF Inv, ReaderInv, RpcTypes, transportVars
<1>6. ASSUME Usable
      PROVE  \/ wire' = wire
             \/ /\ call # None /\ wire = <<>> /\ responses = <<>>
                /\ \E l \in GoodLines : Answers(l) /\ l.res = "torn" /\ wire' = <<l>>
  <2> SUFFICES ASSUME NEW i \in DOMAIN reply,
                      wire' = Append(wire, [reply[i] EXCEPT !.res = "torn"])
               PROVE  /\ call # None /\ wire = <<>> /\ responses = <<>>
                      /\ \E l \in GoodLines : Answers(l) /\ l.res = "torn" /\ wire' = <<l>>
    BY <1>2
  <2>1. reply # <<>>
    OBVIOUS
  <2>2. PICK l \in GoodLines : /\ call # None /\ wire = <<>> /\ responses = <<>>
                               /\ Answers(l) /\ reply = <<l>>
    BY <1>5, <1>6, <2>1 DEF Inv, FlightInv, Stage
  <2>3. reply[i] = l
    BY <2>2
  <2> DEFINE t == [l EXCEPT !.res = "torn"]
  <2>4. t \in GoodLines /\ t.op = l.op /\ t.rid = l.rid /\ t.res = "torn"
    BY TornFacts
  <2>5. wire' = Append(<<>>, t)
    BY <2>2, <2>3
  <2> HIDE DEF t
  <2>6. wire' = <<t>> /\ Answers(t)
    BY <2>2, <2>4, <2>5 DEF Answers
  <2> QED BY <2>2, <2>4, <2>6
<1>7. FlightInv'
  <2> SUFFICES ASSUME Usable PROVE FlightInv'
    BY <1>1 DEF FlightInv, Usable, transportVars, sessionVars, outcomeVars
  <2>1. CASE wire' = wire
    BY <1>1, <2>1 DEF Inv, FlightInv, Stage, Answers, transportVars
  <2>2. CASE wire' # wire
    <3>1. PICK l \in GoodLines : /\ call # None /\ responses = <<>>
                                 /\ Answers(l) /\ l.res = "torn" /\ wire' = <<l>>
      BY <1>6, <2>2
    <3>2. Answers(l)' /\ call' # None
      BY <1>1, <3>1 DEF Answers
    <3> QED BY <1>1, <3>1, <3>2 DEF FlightInv, Stage, transportVars
  <2> QED BY <2>1, <2>2
<1>8. LedgerInv'
  <2> SUFFICES ASSUME Clean PROVE LedgerInv'
    BY DEF LedgerInv, Clean, sessionVars, outcomeVars
  <2>1. \A l \in GoodLines : Coming(l)' /\ l.res \notin {"torn", "eof"} => Coming(l)
    BY <1>1, <1>6, CleanIsUsable DEF Coming, transportVars
  <2> QED BY <1>1, <2>1, LedgerSame
<1>9. RegisteredInv'
  BY <1>1 DEF Inv, RegisteredInv, sessionVars, outcomeVars, Alive, ledgerVars
<1> QED BY <1>1, <1>4, <1>5, <1>7, <1>8, <1>9, SessionSame DEF transportVars

LEMMA ReadStdoutKeeps ==
    ASSUME Inv, ReadStdout, UNCHANGED sessionVars
    PROVE  Inv'
<1>1. /\ reader = "reading" /\ RpcTypes
      /\ UNCHANGED <<proc, live, nextId, inbox, reply, closed, call, serial>>
  BY DEF ReadStdout, Inv
<1>2. \/ wire # <<>> /\ responses' = Append(responses, Head(wire)) /\ wire' = Tail(wire) /\ reader' = reader
      \/ wire = <<>> /\ ~Alive /\ responses' = Append(responses, EOF) /\ reader' = "done" /\ wire' = wire
  BY DEF ReadStdout
<1>3. RpcTypes'
  <2>1. responses' \in Seq(GoodLines) /\ wire' \in Seq(GoodLines)
    <3>1. responses \in Seq(GoodLines) /\ wire \in Seq(GoodLines)
      BY <1>1 DEF RpcTypes
    <3>2. wire # <<>> => Head(wire) \in GoodLines /\ Tail(wire) \in Seq(GoodLines)
      BY <3>1, QueueFacts
    <3>3. \A x \in GoodLines : Append(responses, x) \in Seq(GoodLines)
      BY <3>1, QueueFacts
    <3> QED BY <1>2, <3>1, <3>2, <3>3, EofFacts
  <2> QED BY <1>1, <1>2, <2>1 DEF RpcTypes
<1>4. ReaderInv'
  BY <1>1, <1>2 DEF ReaderInv, Alive
<1>5. ASSUME Usable, wire # <<>>
      PROVE  \E l \in GoodLines : /\ call # None /\ Answers(l) /\ l.res # "eof"
                                   /\ inbox = <<>> /\ reply = <<>> /\ wire = <<l>>
                                   /\ wire' = <<>> /\ responses' = <<l>>
  <2>1. PICK l \in GoodLines : /\ call # None /\ Answers(l) /\ l.res # "eof"
                               /\ inbox = <<>> /\ reply = <<>> /\ wire = <<l>> /\ responses = <<>>
    BY <1>1, <1>5 DEF Inv, FlightInv, Stage
  <2>2. wire' = <<>> /\ responses' = <<l>>
    BY <1>2, <2>1
  <2> QED BY <2>1, <2>2
<1>6. FlightInv'
  <2> SUFFICES ASSUME Usable PROVE FlightInv'
    BY <1>1 DEF FlightInv, Usable, sessionVars, outcomeVars
  <2>1. CASE wire # <<>>
    <3>1. PICK l \in GoodLines : /\ call # None /\ Answers(l) /\ l.res # "eof"
                                 /\ inbox = <<>> /\ reply = <<>>
                                 /\ wire' = <<>> /\ responses' = <<l>>
      BY <1>5, <2>1
    <3>2. Answers(l)' /\ call' # None /\ responses' = <<l>> \o <<>>
      BY <1>1, <3>1 DEF Answers
    <3> QED BY <1>1, <3>1, <3>2 DEF FlightInv, Stage
  <2>2. CASE wire = <<>>
    <3>1. responses' = Append(responses, EOF) /\ reader' = "done" /\ wire' = wire
      BY <1>2, <2>2
    <3>2. CASE Stage(<<>>, <<>>, <<>>, <<>>) \/ (call # None /\ Stage(<<call>>, <<>>, <<>>, <<>>))
      <4>1. responses' = <<EOF>>
        <5>1. responses = <<>> /\ responses' = Append(responses, EOF)
          BY <3>1, <3>2 DEF Stage
        <5> QED BY <5>1
      <4> QED BY <1>1, <3>1, <3>2, <4>1 DEF FlightInv, Stage
    <3>3. ASSUME call # None, NEW l \in GoodLines, Answers(l), l.res # "eof",
                 \/ Stage(<<>>, <<l>>, <<>>, <<>>) \/ Stage(<<>>, <<>>, <<>>, <<l>> \o <<>>)
          PROVE  FlightInv'
      <4>1. Answers(l)' /\ call' # None
        BY <1>1, <3>3 DEF Answers
      <4>2. CASE Stage(<<>>, <<l>>, <<>>, <<>>)
        <5>1. responses' = <<EOF>>
          BY <3>1, <4>2 DEF Stage
        <5> QED BY <1>1, <3>1, <3>3, <4>1, <4>2, <5>1 DEF FlightInv, Stage
      <4>3. CASE Stage(<<>>, <<>>, <<>>, <<l>> \o <<>>)
        <5>1. responses' = <<l>> \o <<EOF>>
          BY <3>1, <4>3 DEF Stage
        <5> QED BY <1>1, <3>1, <3>3, <4>1, <4>3, <5>1 DEF FlightInv, Stage
      <4> QED BY <3>3, <4>2, <4>3
    <3> QED BY <1>1, <2>2, <3>2, <3>3 DEF Inv, FlightInv, Stage
  <2> QED BY <2>1, <2>2
<1>7. LedgerInv'
  <2> SUFFICES ASSUME Clean PROVE LedgerInv'
    BY DEF LedgerInv, Clean, sessionVars, outcomeVars
  <2>1. ASSUME NEW l \in GoodLines, Coming(l)', l.res \notin {"torn", "eof"} PROVE Coming(l)
    <3>1. CASE wire # <<>>
      BY <1>1, <1>5, <2>1, <3>1, CleanIsUsable DEF Coming
    <3>2. CASE wire = <<>>
      <4>1. responses' = Append(responses, EOF) /\ wire' = <<>> /\ responses \in Seq(GoodLines)
        BY <1>1, <1>2, <3>2 DEF RpcTypes
      <4>2. CASE responses = <<>>
        <5>1. responses'[1] = EOF
          BY <4>1, <4>2
        <5> QED BY <1>1, <2>1, <4>1, <5>1, EofFacts DEF Coming
      <4>3. CASE responses # <<>>
        <5>1. Len(responses) >= 1 /\ 1 \in 1 .. Len(responses)
          BY <4>1, <4>3, LenProperties, EmptySeq
        <5>2. responses'[1] = responses[1]
          BY <4>1, <5>1, AppendProperties, EofFacts
        <5> QED BY <1>1, <2>1, <4>1, <4>3, <5>2 DEF Coming
      <4> QED BY <4>2, <4>3
    <3> QED BY <3>1, <3>2
  <2> QED BY <1>1, <2>1, LedgerSame
<1>8. RegisteredInv'
  BY <1>1 DEF Inv, RegisteredInv, sessionVars, outcomeVars, ledgerVars
<1> QED BY <1>1, <1>3, <1>4, <1>6, <1>7, <1>8, SessionSame

LEMMA EnvNextKeeps == ASSUME Inv, EnvNext PROVE Inv'
BY WorkerHandleKeeps, WorkerWriteKeeps, WorkerExitKeeps, WorkerDieKeeps, ReadStdoutKeeps
DEF EnvNext, WorkerNext
----------------------------------------------------------------------------
(* The caller: requests, answers and exceptions. *)

\* A wait belongs to a phase that has not ended, and the result is not
\* registered before the end.
LEMMA WaitFacts ==
    ASSUME Inv, call # None
    PROVE  phase \notin {"done", "finish", "result"} /\ ~registered /\ call \in Requests
<1>1. call \in Requests /\ call.op \in Ops
  BY DEF Inv, RpcTypes, Requests
<1>2. phase \notin {"done", "finish", "result"}
  BY <1>1 DEF Inv, CallInv, DropInv, HasSource, Ops
<1> QED BY <1>1, <1>2 DEF Inv, RegisteredInv

\* Between requests nothing is under way.
LEMMA IdleFacts ==
    ASSUME Inv, call = None, Usable
    PROVE  /\ inbox = <<>> /\ reply = <<>> /\ wire = <<>>
           /\ responses \in {<<>>, <<EOF>>} /\ (responses = <<EOF>> => reader = "done")
BY DEF Inv, FlightInv, Stage

\* Then the ledgers are compared directly.
LEMMA LedgerIdle ==
    ASSUME call' = None, FlightInv', PhaseInv', RpcTypes',
           Clean' => /\ owned' = (DOMAIN live)' /\ owned' \ handles' \subseteq {drop'.sid}
                     /\ phase' = "cleanup" => todo' = handles'
                     /\ phase' \in {"status", "shutdown", "finish"} => handles' = {}
    PROVE  LedgerInv'
<1> SUFFICES ASSUME Clean' PROVE LedgerInv'
  BY DEF LedgerInv
<1>1. Usable'
  BY NoneIsNoError DEF PhaseInv, Clean, Usable, Errors
<1>2. reply' = <<>> /\ wire' = <<>> /\ responses' \in {<<>>, <<EOF>>}
  BY <1>1 DEF FlightInv, Stage
<1>3. \A l \in GoodLines : Coming(l)' => l.res = "eof"
  BY <1>2, EofFacts DEF Coming
<1> QED BY <1>3 DEF LedgerInv

LEMMA SendKeeps ==
    ASSUME Inv, NEW op \in Ops, NEW sid \in Nat \cup {None}, Send(op, sid),
           UNCHANGED sessionVars, CallInv'
    PROVE  Inv'
<1>1. /\ call = None /\ ~closed /\ Alive /\ serial' = serial + 1
      /\ call' = [op |-> op, rid |-> serial + 1, sid |-> sid]
      /\ inbox' = Append(inbox, call') /\ RpcTypes
      /\ UNCHANGED <<proc, live, nextId, reply, wire, transportVars>>
  BY DEF Send, Inv
<1>2. call' \in Requests /\ call' # None
  BY <1>1, NoneIsNoRequest DEF Requests, RpcTypes
<1>3. RpcTypes'
  BY <1>1, <1>2, AppendProperties DEF RpcTypes, transportVars
<1>4. ReaderInv'
  BY <1>1 DEF Inv, ReaderInv, Alive, transportVars
<1>5. FlightInv'
  <2> SUFFICES ASSUME Usable PROVE FlightInv'
    BY <1>1 DEF FlightInv, Usable, transportVars, sessionVars, outcomeVars
  <2>1. inbox = <<>> /\ reply = <<>> /\ wire = <<>> /\ responses = <<>>
    BY <1>1, IdleFacts DEF Inv, ReaderInv
  <2>2. inbox' = <<call'>>
    BY <1>1, <2>1
  <2> QED BY <1>1, <1>2, <2>1, <2>2 DEF FlightInv, Stage, transportVars
<1>6. LedgerInv'
  <2> SUFFICES ASSUME Clean PROVE LedgerInv'
    BY DEF LedgerInv, Clean, sessionVars, outcomeVars
  <2>1. reply = <<>> /\ wire = <<>> /\ responses = <<>>
    BY <1>1, CleanIsUsable, IdleFacts DEF Inv, ReaderInv
  <2>2. \A l \in GoodLines : ~Coming(l)'
    BY <1>1, <2>1 DEF Coming, transportVars
  <2>3. /\ owned' = (DOMAIN live)' /\ owned' \ handles' \subseteq {drop'.sid}
        /\ phase' = "cleanup" => todo' = handles'
        /\ phase' \in {"status", "shutdown", "finish"} => handles' = {}
    BY <1>1 DEF Inv, LedgerInv, sessionVars, ledgerVars
  <2> QED BY <2>2, <2>3 DEF LedgerInv
<1>7. RegisteredInv'
  BY <1>1 DEF Inv, RegisteredInv, sessionVars, outcomeVars, ledgerVars
<1> USE DEF sessionVars, ledgerVars, builderVars, outcomeVars
<1>8. LedgerTypes' /\ BuilderTypes'
  BY DEF Inv, LedgerTypes, BuilderTypes
<1>9. DropInv' /\ PhaseInv' /\ RunInv' /\ RowsInv'
  <2>1. DropInv'
    BY DEF Inv, DropInv, Positioned, Grounded
  <2> QED BY <1>1, <2>1 DEF Inv, PhaseInv, RunInv, RowsInv, Clean, Grounded, transportVars
<1> QED BY <1>3, <1>4, <1>5, <1>6, <1>7, <1>8, <1>9 DEF Inv

LEMMA CallKeeps ==
    ASSUME Inv, CallLoad \/ CallInit \/ CallApply \/ CallDiscard \/ CallStatus \/ CallShutdown
    PROVE  Inv'
<1> USE DEF sessionVars, ledgerVars, builderVars, outcomeVars, Send
<1>1. CASE CallLoad
  <2>1. CallInv' /\ Send("load", None) /\ UNCHANGED sessionVars
    BY <1>1 DEF CallLoad, CallInv
  <2> QED BY <2>1, SendKeeps DEF Ops
<1>2. CASE CallInit
  <2>1. CallInv' /\ Send("init", None) /\ UNCHANGED sessionVars
    BY <1>2 DEF CallInit, CallInv, NoDrop
  <2> QED BY <2>1, SendKeeps DEF Ops
<1>3. CASE CallApply
  <2>1. HasSource /\ Source \in Nat \cup {None} /\ Send("apply", Source) /\ UNCHANGED sessionVars
    BY <1>3 DEF CallApply, Inv, LedgerTypes
  <2>2. CallInv'
    BY <2>1 DEF CallInv, HasSource, NoDrop
  <2> QED BY <2>1, <2>2, SendKeeps DEF Ops
<1>4. CASE CallDiscard
  <2>1. /\ drop # NoDrop /\ drop.sid \in Nat \cup {None} /\ Send("discard", drop.sid)
        /\ UNCHANGED sessionVars
    BY <1>4 DEF CallDiscard, Inv, LedgerTypes
  <2>2. CallInv'
    BY <2>1 DEF CallInv, NoDrop
  <2> QED BY <2>1, <2>2, SendKeeps DEF Ops
<1>5. CASE CallStatus
  <2>1. CallInv' /\ Send("status", None) /\ UNCHANGED sessionVars
    BY <1>5 DEF CallStatus, CallInv
  <2> QED BY <2>1, SendKeeps DEF Ops
<1>6. CASE CallShutdown
  <2>1. CallInv' /\ Send("shutdown", None) /\ UNCHANGED sessionVars
    BY <1>6 DEF CallShutdown, CallInv
  <2> QED BY <2>1, SendKeeps DEF Ops
<1> QED BY <1>1, <1>2, <1>3, <1>4, <1>5, <1>6

\* The answer that is received is the one that was under way.
LEMMA ReceiveFacts ==
    ASSUME Inv, NEW r, Receive(r)
    PROVE  /\ r \in GoodLines /\ Coming(r) /\ r.res \notin {"torn", "eof"}
           /\ call # None /\ Tail(responses) \in Seq(GoodLines)
           /\ Usable => /\ inbox = <<>> /\ reply = <<>> /\ wire = <<>> /\ Answers(r)
                        /\ Tail(responses) \in {<<>>, <<EOF>>}
                        /\ Tail(responses) = <<EOF>> => reader = "done"
<1>1. /\ call # None /\ responses # <<>> /\ r = Head(responses) /\ r.res \notin {"torn", "eof"}
      /\ responses \in Seq(GoodLines)
  BY DEF Receive, Inv, RpcTypes
<1>2. r = responses[1] /\ r \in GoodLines /\ Tail(responses) \in Seq(GoodLines)
  BY <1>1, QueueFacts
<1>3. Coming(r)
  BY <1>1, <1>2 DEF Coming
<1>4. ASSUME Usable
      PROVE  /\ inbox = <<>> /\ reply = <<>> /\ wire = <<>> /\ Answers(r)
             /\ Tail(responses) \in {<<>>, <<EOF>>}
             /\ Tail(responses) = <<EOF>> => reader = "done"
  <2>1. PICK e \in {<<>>, <<EOF>>} :
        /\ e = <<EOF>> => reader = "done"
        /\ \/ Stage(<<>>, <<>>, <<>>, e)
           \/ Stage(<<call>>, <<>>, <<>>, e)
           \/ \E l \in GoodLines :
                 /\ Answers(l)
                 /\ \/ Stage(<<>>, <<l>>, <<>>, e) \/ Stage(<<>>, <<>>, <<l>>, e)
                    \/ Stage(<<>>, <<>>, <<>>, <<l>> \o e)
    BY <1>4 DEF Inv, FlightInv
  <2>2. responses # e
    <3>1. e # <<>> => e[1] = EOF
      BY <2>1
    <3> QED BY <1>1, <1>2, <3>1, EofFacts
  <2>3. PICK l \in GoodLines : Answers(l) /\ Stage(<<>>, <<>>, <<>>, <<l>> \o e)
    BY <2>1, <2>2 DEF Stage
  <2>4. l = r /\ Tail(responses) = e
    <3>1. CASE e = <<>>
      BY <1>2, <2>3, <3>1 DEF Stage
    <3>2. CASE e = <<EOF>>
      <4>1. responses = <<l>> \o <<EOF>>
        BY <2>3, <3>2 DEF Stage
      <4>2. Tail(responses) = <<EOF>> /\ responses[1] = l
        BY <4>1, EofFacts, PairFacts
      <4> QED BY <1>2, <3>2, <4>2
    <3> QED BY <3>1, <3>2
  <2> QED BY <2>1, <2>3, <2>4 DEF Stage
<1> QED BY <1>1, <1>2, <1>3, <1>4

\* After an answer nothing is under way.
LEMMA ReceivedFlight ==
    ASSUME Inv, NEW r, Receive(r), responses' = Tail(responses), call' = None,
           UNCHANGED <<inbox, reply, wire, reader>>, Usable' => Usable
    PROVE  FlightInv'
<1> SUFFICES ASSUME Usable PROVE FlightInv'
  BY DEF FlightInv
<1>1. /\ inbox = <<>> /\ reply = <<>> /\ wire = <<>>
      /\ Tail(responses) \in {<<>>, <<EOF>>} /\ (Tail(responses) = <<EOF>> => reader = "done")
  BY ReceiveFacts
<1> QED BY <1>1 DEF FlightInv, Stage

\* An exception while the run is under way, with whatever the ledgers gained.
LEMMA LeaveKeeps ==
    ASSUME Inv, phase \in Running, NEW c \in Errors, LeaveRun(c, handles'), call' = None,
           owned' \subseteq Nat, handles' \subseteq owned', UNCHANGED builderVars,
           RpcTypes', ReaderInv', FlightInv'
    PROVE  Inv'
<1>1. /\ error' = c /\ phase' = "cleanup" /\ todo' = handles' /\ drop' = NoDrop
      /\ UNCHANGED <<closeError, registered>> /\ c # None
  BY NoneIsNoError DEF LeaveRun
<1>2. ~Clean' /\ ~registered'
  BY <1>1 DEF Clean, Inv, RegisteredInv, Running
<1>3. LedgerTypes'
  BY <1>1 DEF Inv, LedgerTypes, Phases, NoDrop
<1>4. BuilderTypes'
  BY DEF Inv, BuilderTypes, builderVars
<1>5. LedgerInv' /\ CallInv' /\ RegisteredInv'
  BY <1>2 DEF LedgerInv, CallInv, RegisteredInv
<1>6. DropInv'
  BY <1>1 DEF DropInv, NoDrop
<1>7. PhaseInv'
  BY <1>1, <1>2 DEF PhaseInv, Running
<1>8. RunInv'
  BY <1>1 DEF RunInv, Running
<1>9. RowsInv'
  <2>1. \A p \in DOMAIN rows' : Grounded(rows'[p], DOMAIN reps')
    BY DEF Inv, RowsInv, Grounded, builderVars
  <2> QED BY <1>1, <2>1 DEF Inv, RowsInv, builderVars
<1> QED BY <1>3, <1>4, <1>5, <1>6, <1>7, <1>8, <1>9 DEF Inv

\* An exception in any phase that leaves the ledgers alone.
LEMMA RaisedKeeps ==
    ASSUME Inv, NEW c \in Errors, Raised(c), call' = None,
           UNCHANGED <<ledgerVars, builderVars>>, RpcTypes', ReaderInv', FlightInv'
    PROVE  Inv'
<1>1. CASE phase \in Running /\ LeaveRun(c, handles)
  <2>1. handles' = handles /\ owned' = owned /\ UNCHANGED builderVars
    BY DEF ledgerVars
  <2>2. owned' \subseteq Nat /\ handles' \subseteq owned'
    BY <1>1, <2>1 DEF Inv, LedgerTypes, PhaseInv, Running
  <2>3. LeaveRun(c, handles')
    BY <1>1, <2>1 DEF LeaveRun
  <2> QED BY <1>1, <2>1, <2>2, <2>3, LeaveKeeps
<1> USE DEF ledgerVars
<1>2. BuilderTypes'
  BY DEF Inv, BuilderTypes, builderVars
<1>3. \A p \in DOMAIN rows' : Grounded(rows'[p], DOMAIN reps')
  BY DEF Inv, RowsInv, Grounded, builderVars
<1>4. CASE phase = "cleanup" /\ SkipHandle(c)
  <2>1. /\ closeError' \in Errors /\ todo' \subseteq todo /\ drop' = NoDrop
        /\ UNCHANGED <<phase, error, registered>> /\ phase = "cleanup"
    BY <1>4 DEF SkipHandle, FirstCloseError, Inv, LedgerTypes
  <2>2. ~Clean' /\ ~registered'
    BY <2>1, NoneIsNoError DEF Clean, Inv, RegisteredInv
  <2>3. LedgerTypes'
    BY <2>1 DEF Inv, LedgerTypes, NoDrop
  <2>4. LedgerInv' /\ CallInv' /\ RegisteredInv'
    BY <2>2 DEF LedgerInv, CallInv, RegisteredInv
  <2>5. DropInv'
    BY <2>1 DEF DropInv, NoDrop
  <2>6. PhaseInv' /\ RunInv'
    BY <2>1, <2>2 DEF PhaseInv, Running, RunInv, Inv
  <2>7. RowsInv'
    BY <1>3, <2>1 DEF Inv, RowsInv, builderVars
  <2> QED BY <1>2, <2>3, <2>4, <2>5, <2>6, <2>7 DEF Inv
<1>5. CASE phase \in {"load", "status", "shutdown", "finish"} /\ GiveUp(c)
  <2>1. /\ error' \in Errors \cup {None} /\ closeError' \in Errors \cup {None}
        /\ error' = None => error = None /\ phase # "load"
        /\ phase' = "done" /\ UNCHANGED <<registered, todo, drop>>
    BY <1>5, NoneIsNoError DEF GiveUp, FirstCloseError, Inv, LedgerTypes
  <2>2. ~Clean' /\ ~registered'
    BY <1>5, <2>1 DEF Clean, Inv, RegisteredInv
  <2>3. LedgerTypes'
    BY <2>1 DEF Inv, LedgerTypes, Phases
  <2>4. LedgerInv' /\ CallInv' /\ RegisteredInv'
    BY <2>2 DEF LedgerInv, CallInv, RegisteredInv
  <2>5. DropInv'
    BY <1>5, <2>1 DEF Inv, DropInv, NoDrop
  <2>6. PhaseInv' /\ RunInv'
    BY <2>1, <2>2 DEF PhaseInv, Running, RunInv
  <2>7. RowsInv'
    BY <1>3, <1>5, <2>1 DEF Inv, RowsInv, builderVars
  <2> QED BY <1>2, <2>3, <2>4, <2>5, <2>6, <2>7 DEF Inv
<1> QED BY <1>1, <1>4, <1>5 DEF Raised

\* An exception never undoes an interrupt.
LEMMA RaisedUsable ==
    ASSUME Inv, NEW c \in Errors, Raised(c), closed \in BOOLEAN, ~closed' => ~closed, Usable'
    PROVE  Usable
BY NoneIsNoError DEF Raised, LeaveRun, SkipHandle, GiveUp, Usable, Inv, PhaseInv, Errors

\* An exception that may close the transport.
LEMMA RaiseInTransportKeeps ==
    ASSUME Inv, NEW c \in Errors, NEW stop \in BOOLEAN, RaiseInTransport(c, stop),
           UNCHANGED ledgerVars, responses' \in Seq(GoodLines), serial' \in Nat,
           ~closed' => \E r : Receive(r) /\ responses' = Tail(responses)
    PROVE  Inv'
<1>1. /\ call' = None /\ Raised(c)
      /\ UNCHANGED <<live, nextId, inbox, reply, wire, reader, builderVars>>
  BY DEF RaiseInTransport
<1>2. \/ closed' = TRUE /\ proc' = (IF Alive THEN "term" ELSE proc)
      \/ closed' = closed /\ proc' = proc
  BY DEF RaiseInTransport, StopLocked
<1>3. RpcTypes' /\ (~closed' => ~closed)
  <2>1. proc' \in {"running", "leaving", "term", "exited", "dead"} /\ closed' \in BOOLEAN
    BY <1>2 DEF Inv, RpcTypes
  <2> QED BY <1>1, <1>2, <2>1 DEF Inv, RpcTypes
<1>4. ReaderInv'
  <2>1. ~Alive => proc' = proc
    BY <1>2
  <2> QED BY <1>1, <2>1 DEF Inv, ReaderInv, Alive
<1>5. FlightInv'
  <2>1. CASE closed'
    BY <2>1 DEF FlightInv, Usable
  <2>2. CASE ~closed'
    <3>1. PICK r : Receive(r) /\ responses' = Tail(responses)
      BY <2>2
    <3>2. Usable' => Usable
      BY <1>1, <1>3, RaisedUsable DEF Inv, RpcTypes
    <3> QED BY <1>1, <3>1, <3>2, ReceivedFlight
  <2> QED BY <2>1, <2>2
<1> QED BY <1>1, <1>3, <1>4, <1>5, RaisedKeeps

LEMMA ErrorClassFacts ==
    ASSUME Inv
    PROVE  ErrorClass(SendException) \in {"execution"} /\ ErrorClass(WaitException) \in {"resource", "execution"}
<1>1. SendException \in {"transport", "exited"} /\ WaitException \in {"timeout", "exited", "transport"}
  BY DEF SendException, WaitException
<1> QED BY <1>1 DEF ErrorClass

LEMMA CallRaisesKeeps == ASSUME Inv, CallRaises PROVE Inv'
<1>1. /\ RaiseInTransport(ErrorClass(SendException), ~closed) /\ serial' = serial + 1
      /\ UNCHANGED <<responses, ledgerVars>>
  BY DEF CallRaises
<1>2. closed' = TRUE
  <2>1. CASE ClosesTransport(~closed)
    BY <1>1, <2>1 DEF RaiseInTransport, StopLocked
  <2>2. CASE ~ClosesTransport(~closed)
    <3>1. closed' = closed /\ closed
      BY <1>1, <2>2 DEF RaiseInTransport, ClosesTransport
    <3> QED BY <3>1 DEF Inv, RpcTypes
  <2> QED BY <2>1, <2>2
<1>3. ErrorClass(SendException) \in Errors /\ (~closed) \in BOOLEAN
  BY ErrorClassFacts DEF Errors
<1>4. responses' \in Seq(GoodLines) /\ serial' \in Nat /\ UNCHANGED ledgerVars
  BY <1>1 DEF Inv, RpcTypes
<1> QED BY <1>1, <1>2, <1>3, <1>4, RaiseInTransportKeeps

LEMMA CallFailsKeeps == ASSUME Inv, CallFails PROVE Inv'
<1>1. /\ RaiseInTransport(ErrorClass(WaitException), TRUE)
      /\ responses' = IF responses = <<>> THEN responses ELSE Tail(responses)
      /\ UNCHANGED <<serial, ledgerVars>>
  BY DEF CallFails
<1>2. closed' = TRUE
  BY <1>1 DEF RaiseInTransport, StopLocked, ClosesTransport
<1>3. ErrorClass(WaitException) \in Errors
  BY ErrorClassFacts DEF Errors
<1>4. responses' \in Seq(GoodLines) /\ serial' \in Nat /\ UNCHANGED ledgerVars
  <2>1. responses \in Seq(GoodLines)
    BY DEF Inv, RpcTypes
  <2>2. responses' \in Seq(GoodLines)
    BY <1>1, <2>1, QueueFacts
  <2> QED BY <1>1, <2>2 DEF Inv, RpcTypes
<1> QED BY <1>1, <1>2, <1>3, <1>4, RaiseInTransportKeeps

LEMMA RecvRefusedKeeps == ASSUME Inv, RecvRefused PROVE Inv'
<1>1. PICK c \in RefusedClasses : Refused(Head(responses), c)
  BY DEF RecvRefused
<1> DEFINE r == Head(responses)
<1>2. /\ Receive(r) /\ responses' = Tail(responses) /\ RaiseInTransport(c, FALSE)
      /\ UNCHANGED <<serial, ledgerVars>>
  BY <1>1 DEF Refused
<1>3. c \in Errors
  BY DEF RefusedClasses, Errors
<1>4. responses' \in Seq(GoodLines) /\ serial' \in Nat /\ UNCHANGED ledgerVars
  BY <1>2, ReceiveFacts DEF Inv, RpcTypes
<1> HIDE DEF r
<1> QED BY <1>2, <1>3, <1>4, RaiseInTransportKeeps

LEMMA FinishRaisesKeeps == ASSUME Inv, FinishRaises PROVE Inv'
<1> DEFINE c == IF proc = "dead" THEN "execution" ELSE "resource"
<1>1. RaiseInTransport(c, TRUE) /\ UNCHANGED <<responses, serial, ledgerVars>>
  BY DEF FinishRaises
<1>2. closed' = TRUE
  BY <1>1 DEF RaiseInTransport, StopLocked, ClosesTransport
<1>3. c \in Errors
  BY DEF Errors
<1>4. responses' \in Seq(GoodLines) /\ serial' \in Nat /\ UNCHANGED ledgerVars
  BY <1>1 DEF Inv, RpcTypes
<1> HIDE DEF c
<1> QED BY <1>1, <1>2, <1>3, <1>4, RaiseInTransportKeeps

LEMMA InterruptKeeps == ASSUME Inv, Interrupt PROVE Inv'
<1>1. /\ call' = None /\ phase \in Running /\ LeaveRun("interrupt", handles)
      /\ UNCHANGED <<workerVars, transportVars, serial, builderVars, ledgerVars>>
  BY DEF Interrupt
<1>2. RpcTypes' /\ ReaderInv'
  BY <1>1 DEF Inv, RpcTypes, ReaderInv, Alive, workerVars, transportVars
<1>3. FlightInv'
  BY <1>1 DEF FlightInv, Usable, LeaveRun
<1>4. "interrupt" \in Errors /\ Raised("interrupt")
  BY <1>1 DEF Raised, Errors
<1> QED BY <1>1, <1>2, <1>3, <1>4, RaisedKeeps

\* A step of the builder that leaves the exchange alone.
LEMMA RpcSame ==
    ASSUME Inv, UNCHANGED rpcVars, Usable' => Usable
    PROVE  RpcTypes' /\ ReaderInv' /\ FlightInv'
<1> USE DEF rpcVars, workerVars, transportVars
<1>1. RpcTypes' /\ ReaderInv'
  BY DEF Inv, RpcTypes, ReaderInv, Alive
<1>2. FlightInv'
  BY DEF Inv, FlightInv, Stage, Answers
<1> QED BY <1>1, <1>2

LEMMA WallExceededKeeps == ASSUME Inv, WallExceeded PROVE Inv'
<1>1. /\ call = None /\ phase \in Running /\ LeaveRun("resource", handles)
      /\ UNCHANGED rpcVars /\ UNCHANGED <<ledgerVars, builderVars>>
  BY DEF WallExceeded, HasSource, Running
<1>2. Usable' => Usable
  BY <1>1, NoneIsNoError DEF Usable, Inv, PhaseInv, Errors, rpcVars, transportVars
<1>3. RpcTypes' /\ ReaderInv' /\ FlightInv' /\ call' = None
  BY <1>1, <1>2, RpcSame DEF rpcVars
<1>4. "resource" \in Errors /\ Raised("resource")
  BY <1>1 DEF Raised, Errors
<1> QED BY <1>1, <1>3, <1>4, RaisedKeeps

----------------------------------------------------------------------------
(* The caller: what the builder does with an answer. *)

\* The parts of the invariant a step of the builder is about.
LEMMA Assemble ==
    ASSUME Inv, call' = None, RpcTypes', ReaderInv', FlightInv', LedgerTypes', BuilderTypes',
           DropInv', PhaseInv', RunInv', RowsInv', ~registered',
           Clean' => /\ owned' = (DOMAIN live)' /\ owned' \ handles' \subseteq {drop'.sid}
                     /\ phase' = "cleanup" => todo' = handles'
                     /\ phase' \in {"status", "shutdown", "finish"} => handles' = {}
    PROVE  Inv'
BY LedgerIdle DEF Inv, CallInv, RegisteredInv

LEMMA ReturnedFacts ==
    ASSUME Inv, NEW r, Receive(r), Returned, error' # "interrupt" => error # "interrupt"
    PROVE  /\ RpcTypes' /\ ReaderInv' /\ FlightInv' /\ call' = None /\ live' = live /\ closed' = closed
           /\ ~registered
<1>1. /\ responses' = Tail(responses) /\ call' = None /\ Tail(responses) \in Seq(GoodLines)
      /\ UNCHANGED <<proc, live, nextId, inbox, reply, wire, reader, closed, serial>>
  BY ReceiveFacts DEF Returned, workerVars
<1>2. RpcTypes' /\ ReaderInv'
  BY <1>1 DEF Inv, RpcTypes, ReaderInv, Alive
<1>3. FlightInv'
  BY <1>1, ReceivedFlight DEF Usable
<1> QED BY <1>1, <1>2, <1>3, WaitFacts DEF Receive

\* An answer that ends the run, with whatever the ledgers gained.
LEMMA ReturnedLeave ==
    ASSUME Inv, NEW r, Receive(r), Returned, phase \in Running, NEW c \in Errors,
           LeaveRun(c, handles'), UNCHANGED builderVars,
           owned' \subseteq Nat, handles' \subseteq owned'
    PROVE  Inv'
<1>1. error # "interrupt"
  BY NoneIsNoError DEF Inv, PhaseInv, Errors
<1>2. RpcTypes' /\ ReaderInv' /\ FlightInv' /\ call' = None
  BY <1>1, ReturnedFacts
<1> QED BY <1>2, LeaveKeeps

\* What an answer says of the ledgers while the run is clean.
LEMMA AnswerExplains ==
    ASSUME Inv, NEW r, Receive(r), Clean
    PROVE  Explains(r) /\ Answers(r) /\ r \in GoodLines /\ r.res \notin {"torn", "eof"}
BY ReceiveFacts, CleanIsUsable DEF Inv, LedgerInv

LEMMA RunningIsClean ==
    ASSUME Inv, phase \in Running \cup {"load"}
    PROVE  /\ Clean /\ error = None /\ closeError = None /\ error # "interrupt" /\ ~closed
           /\ handles \subseteq owned
BY NoneIsNoError DEF Inv, PhaseInv, Clean, Running, Errors

\* Representatives, discoveries and duplicates only grow.
Extended ==
    /\ DOMAIN reps' \subseteq Indices /\ DOMAIN reps \subseteq DOMAIN reps'
    /\ \A k \in DOMAIN reps' : reps'[k] \in Nat \X Obs
    /\ pending' \in Seq(Indices) /\ Len(pending) <= Len(pending')
    /\ \A i \in DOMAIN pending : pending'[i] = pending[i]
    /\ \A i \in DOMAIN pending' : pending'[i] \in DOMAIN reps'
    /\ \A k \in DOMAIN reps' : \E i \in DOMAIN pending' : pending'[i] = k
    /\ dups' \in Seq(Indices \X Nat) /\ \A i \in DOMAIN dups' : dups'[i][1] \in DOMAIN reps'
    /\ phase \in {"init", "expand"} \/ reps' = reps

LEMMA SameExtended ==
    ASSUME Inv, UNCHANGED <<reps, pending, dups>> PROVE Extended
<1>1. Len(pending) \in Nat
  BY QueueFacts DEF Inv, BuilderTypes
<1> QED BY <1>1 DEF Inv, BuilderTypes, RowsInv, Extended

LEMMA GroundedGrows ==
    ASSUME NEW known, NEW more, known \subseteq more, NEW row, Grounded(row, known)
    PROVE  Grounded(row, more)
BY DEF Grounded

\* Nothing is sealed.
LEMMA UnsettledRows ==
    ASSUME Inv, UNCHANGED <<phase, rows, cursor, act, error>>, Extended, task' \in Nat,
           phase \in {"load", "init"} \/ UNCHANGED <<reps, pending>>
    PROVE  BuilderTypes' /\ RowsInv'
<1>1. BuilderTypes'
  BY DEF Inv, BuilderTypes, Extended
<1>2. \A p \in DOMAIN rows' : Grounded(rows'[p], DOMAIN reps')
  BY GroundedGrows DEF Extended, Inv, RowsInv
<1>3. CASE phase \in {"load", "init"}
  BY <1>1, <1>2, <1>3 DEF Inv, RowsInv, Extended
<1>4. CASE UNCHANGED <<reps, pending>>
  BY <1>1, <1>2, <1>4 DEF Inv, RowsInv, Extended
<1> QED BY <1>1, <1>3, <1>4

\* The row at the position is sealed and the position moves on.
LEMMA SettledRows ==
    ASSUME Inv, Positioned, NEW row \in Rows, Settle(row), Grounded(row, DOMAIN reps'),
           UNCHANGED <<phase, error, task>>, Extended
    PROVE  BuilderTypes' /\ RowsInv'
<1>1. /\ act \in Actions /\ NActions \in Nat /\ cursor \in Nat \ {0} /\ act \in Nat \ {0}
      /\ pending \in Seq(Indices) /\ DOMAIN pending = 1 .. Len(pending) /\ Len(pending) \in Nat
      /\ pending' \in Seq(Indices) /\ DOMAIN pending' = 1 .. Len(pending') /\ Len(pending') \in Nat
  BY SizesAssumption, QueueFacts DEF Positioned, Actions, Inv, BuilderTypes, Extended
<1>2. Len(pending) <= Len(pending') /\ \A i \in DOMAIN pending : pending'[i] = pending[i]
  BY DEF Extended
<1>3. CASE phase = "expand"
  <2> DEFINE here == <<pending[cursor], act>>
  <2>1. cursor \in DOMAIN pending /\ pending[cursor] \in Indices /\ here \in Indices \X Actions
    BY <1>1, <1>3, QueueFacts DEF Positioned
  <2>2. /\ rows' = Put(rows, here, row)
        /\ \/ act = NActions /\ cursor' = cursor + 1 /\ act' = 1
           \/ act # NActions /\ cursor' = cursor /\ act' = act + 1
    BY <1>3 DEF Settle
  <2>3. /\ DOMAIN rows' = DOMAIN rows \cup {here}
        /\ \A p \in DOMAIN rows' : rows'[p] = row \/ (p \in DOMAIN rows /\ rows'[p] = rows[p])
    BY <2>2 DEF Put
  <2> HIDE DEF here
  <2>4. cursor' \in Nat \ {0} /\ act' \in Nat \ {0}
    BY <1>1, <2>2
  <2>5. BuilderTypes'
    BY <2>1, <2>3, <2>4 DEF Inv, BuilderTypes, Extended
  <2>6. \A p \in DOMAIN rows' : Grounded(rows'[p], DOMAIN reps')
    BY <2>3, GroundedGrows DEF Inv, RowsInv, Extended
  <2>7. ASSUME NEW p \in Indices \X Actions
        PROVE  p \in DOMAIN rows' <=>
                  \E i \in DOMAIN pending' :
                      p[1] = pending'[i] /\ (i < cursor' \/ (i = cursor' /\ p[2] < act'))
    <3>1. p[2] \in Nat \ {0} /\ p[2] <= NActions /\ p = <<p[1], p[2]>>
      BY <1>1 DEF Actions
    <3>2. p \in DOMAIN rows <=>
            \E i \in DOMAIN pending : p[1] = pending[i] /\ (i < cursor \/ (i = cursor /\ p[2] < act))
      BY <1>3 DEF Inv, RowsInv
    <3>3. p = here <=> p[1] = pending[cursor] /\ p[2] = act
      BY <3>1 DEF here
    <3>4. ASSUME NEW i \in DOMAIN pending'
          PROVE  (i < cursor' \/ (i = cursor' /\ p[2] < act')) <=>
                    (i < cursor \/ (i = cursor /\ p[2] < act) \/ (i = cursor /\ p[2] = act))
      BY <1>1, <2>2, <3>1 DEF Actions
    <3>5. \A i \in DOMAIN pending' : i <= cursor => i \in DOMAIN pending /\ pending'[i] = pending[i]
      BY <1>1, <1>2, <2>1
    <3>6. DOMAIN pending \subseteq DOMAIN pending'
      BY <1>1, <1>2
    <3>7. \A i \in DOMAIN pending : i \in Nat
      BY <1>1
    <3> QED BY <1>1, <1>2, <2>1, <2>3, <3>2, <3>3, <3>4, <3>5, <3>6, <3>7
  <2>8. RowsInv'
    BY <1>3, <2>6, <2>7 DEF Extended, RowsInv
  <2> QED BY <2>5, <2>8
<1>4. CASE phase = "audit"
  <2>1. /\ act' = act + 1 /\ UNCHANGED <<rows, cursor>> /\ reps' = reps
    BY <1>4 DEF Settle, Extended
  <2>2. BuilderTypes'
    BY <1>1, <2>1 DEF Inv, BuilderTypes, Extended
  <2>3. \A p \in DOMAIN rows' : Grounded(rows'[p], DOMAIN reps')
    BY <2>1, GroundedGrows DEF Inv, RowsInv, Extended
  <2>4. RowsInv'
    BY <1>4, <2>1, <2>3 DEF Inv, RowsInv, Extended
  <2> QED BY <2>2, <2>4
<1> QED BY <1>3, <1>4 DEF Positioned

\* A state that is new to every ledger is admitted.
LEMMA AdmitFacts ==
    ASSUME Inv, phase \in {"init", "expand"}, drop = NoDrop, phase' = phase,
           NEW sid \in Nat, sid \notin owned, NEW o \in Obs, Admit(sid, o),
           owned' = owned \cup {sid}, handles' = handles \cup {sid}
    PROVE  /\ Extended /\ Index[o] \in DOMAIN reps' /\ RunInv'
           /\ \/ drop' = NoDrop
              \/ /\ drop' = [sid |-> sid, row |-> IF phase = "init" THEN None ELSE OpenRow(o)]
                 /\ UNCHANGED <<reps, pending>>
<1>1. /\ pending \in Seq(Indices) /\ DOMAIN pending = 1 .. Len(pending) /\ Len(pending) \in Nat
      /\ dups \in Seq(Indices \X Nat) /\ DOMAIN dups = 1 .. Len(dups) /\ Len(dups) \in Nat
      /\ DOMAIN reps \subseteq Indices /\ \A k \in DOMAIN reps : reps[k] \in Nat \X Obs
  BY QueueFacts DEF Inv, BuilderTypes
<1>2. Index[o] \in Indices
  BY DEF Indices
<1>3. /\ \A k \in DOMAIN reps : reps[k][1] \in owned /\ reps[k][1] # sid /\ reps[k][1] \in handles
      /\ \A i \in DOMAIN dups, k \in DOMAIN reps : dups[i][2] # reps[k][1]
      /\ \A i \in DOMAIN dups : dups[i][2] \in owned /\ dups[i][2] # sid
      /\ \A i \in DOMAIN pending : pending[i] \in DOMAIN reps
      /\ \A k \in DOMAIN reps : \E i \in DOMAIN pending : pending[i] = k
      /\ \A i \in DOMAIN dups : dups[i][1] \in DOMAIN reps
  BY RunningIsClean DEF Inv, RunInv, Running, RowsInv
<1>4. None \notin Nat /\ sid # None
  BY ObsAssumption
<1>5. CASE AdmitNew(sid, o)
  <2>1. /\ reps' = Put(reps, Index[o], <<sid, o>>) /\ pending' = Append(pending, Index[o])
        /\ UNCHANGED <<dups, drop>> /\ Index[o] \notin DOMAIN reps
    BY <1>5 DEF AdmitNew
  <2>2. /\ DOMAIN reps' = DOMAIN reps \cup {Index[o]} /\ reps'[Index[o]] = <<sid, o>>
        /\ \A k \in DOMAIN reps : reps'[k] = reps[k]
    BY <2>1 DEF Put
  <2>3. /\ pending' \in Seq(Indices) /\ Len(pending') = Len(pending) + 1
        /\ DOMAIN pending' = 1 .. Len(pending) + 1
        /\ \A i \in 1 .. Len(pending) : pending'[i] = pending[i]
        /\ pending'[Len(pending) + 1] = Index[o]
    BY <1>1, <1>2, <2>1, AppendProperties, LenProperties
  <2>4. \A k \in DOMAIN reps' : \E i \in DOMAIN pending' : pending'[i] = k
    <3> SUFFICES ASSUME NEW k \in DOMAIN reps' PROVE \E i \in DOMAIN pending' : pending'[i] = k
      OBVIOUS
    <3>1. CASE k = Index[o]
      BY <1>1, <2>3, <3>1
    <3>2. CASE k # Index[o]
      <4>1. PICK i \in DOMAIN pending : pending[i] = k
        BY <1>3, <2>2, <3>2
      <4> QED BY <1>1, <2>3, <4>1
    <3> QED BY <3>1, <3>2
  <2>5. \A i \in DOMAIN pending' : pending'[i] \in DOMAIN reps'
    <3> SUFFICES ASSUME NEW i \in DOMAIN pending' PROVE pending'[i] \in DOMAIN reps'
      OBVIOUS
    <3>1. CASE i = Len(pending) + 1
      BY <2>2, <2>3, <3>1
    <3>2. CASE i # Len(pending) + 1
      <4>1. i \in DOMAIN pending /\ pending'[i] = pending[i]
        BY <1>1, <2>3, <3>2
      <4> QED BY <1>3, <2>2, <4>1
    <3> QED BY <3>1, <3>2
  <2>6. \A k \in DOMAIN reps' : reps'[k] \in Nat \X Obs
    <3>1. <<sid, o>> \in Nat \X Obs
      OBVIOUS
    <3> QED BY <1>1, <2>2, <3>1
  <2>7. Extended
    <3>1. dups' \in Seq(Indices \X Nat) /\ DOMAIN reps' \subseteq Indices /\ DOMAIN reps \subseteq DOMAIN reps'
      BY <1>1, <1>2, <2>1, <2>2
    <3>2. Len(pending) <= Len(pending') /\ \A i \in DOMAIN pending : pending'[i] = pending[i]
      BY <1>1, <2>3
    <3>3. \A i \in DOMAIN dups' : dups'[i][1] \in DOMAIN reps'
      BY <1>3, <2>1, <2>2
    <3> QED BY <2>3, <2>4, <2>5, <2>6, <3>1, <3>2, <3>3 DEF Extended
  <2>8. \A k \in DOMAIN reps' : reps'[k][1] \in handles' /\ reps'[k][1] \in Nat
    BY <1>3, <2>2, <2>6
  <2>9. \A i \in DOMAIN dups', k \in DOMAIN reps' : dups'[i][2] # reps'[k][1]
    <3> SUFFICES ASSUME NEW i \in DOMAIN dups, NEW k \in DOMAIN reps' PROVE dups[i][2] # reps'[k][1]
      BY <2>1
    <3>1. CASE k = Index[o]
      <4>1. reps'[k][1] = sid
        BY <2>2, <3>1
      <4> QED BY <1>3, <4>1
    <3>2. CASE k # Index[o]
      BY <1>3, <2>2, <3>2
    <3> QED BY <3>1, <3>2
  <2>10. drop' = NoDrop /\ drop'.sid = None
    BY <2>1 DEF NoDrop
  <2>11. \A i \in DOMAIN dups' : dups'[i][2] \in owned' /\ dups'[i][2] # drop'.sid
    <3>1. \A i \in DOMAIN dups : dups[i][2] \in Nat
      BY <1>1, QueueFacts
    <3> QED BY <1>3, <1>4, <2>1, <2>10, <3>1
  <2>12. RunInv'
    BY <1>4, <2>8, <2>9, <2>10, <2>11 DEF RunInv
  <2> QED BY <2>2, <2>7, <2>10, <2>12
<1>6. CASE AdmitDuplicate(sid, o)
  <2>1. /\ Index[o] \in DOMAIN reps /\ UNCHANGED <<reps, pending>>
        /\ \/ dups' = Append(dups, <<Index[o], sid>>) /\ drop' = drop
           \/ dups' = dups /\ drop' = [sid |-> sid, row |-> IF phase = "init" THEN None ELSE OpenRow(o)]
    BY <1>6 DEF AdmitDuplicate
  <2>2. <<Index[o], sid>> \in Indices \X Nat
    BY <1>2
  <2>3. /\ dups' \in Seq(Indices \X Nat)
        /\ \A i \in DOMAIN dups' : \/ i \in DOMAIN dups /\ dups'[i] = dups[i]
                                   \/ dups'[i][2] = sid /\ dups'[i][1] = Index[o] /\ drop' = drop
    <3>1. CASE dups' = Append(dups, <<Index[o], sid>>) /\ drop' = drop
      <4>1. /\ dups' \in Seq(Indices \X Nat) /\ DOMAIN dups' = 1 .. Len(dups) + 1
            /\ \A i \in 1 .. Len(dups) : dups'[i] = dups[i]
            /\ dups'[Len(dups) + 1] = <<Index[o], sid>>
        BY <1>1, <2>2, <3>1, AppendProperties, LenProperties
      <4> QED BY <1>1, <3>1, <4>1
    <3>2. CASE dups' = dups
      BY <1>1, <3>2
    <3> QED BY <2>1, <3>1, <3>2
  <2>4. Extended
    BY <1>1, <1>3, <2>1, <2>3 DEF Extended
  <2>5. drop'.sid \in {None, sid} /\ (drop' = drop => drop'.sid = None)
    BY <2>1 DEF NoDrop
  <2>6. \A k \in DOMAIN reps' : reps'[k][1] \in handles' /\ reps'[k][1] # drop'.sid
    <3>1. \A k \in DOMAIN reps : reps[k][1] \in Nat
      BY <1>1
    <3> QED BY <1>3, <1>4, <2>1, <2>5, <3>1
  <2>7. \A i \in DOMAIN dups', k \in DOMAIN reps' : dups'[i][2] # reps'[k][1]
    BY <1>3, <2>1, <2>3
  <2>8. \A i \in DOMAIN dups' : dups'[i][2] \in owned' /\ dups'[i][2] # drop'.sid
    <3>1. \A i \in DOMAIN dups : dups[i][2] \in Nat
      BY <1>1, QueueFacts
    <3> QED BY <1>3, <1>4, <2>3, <2>5, <3>1
  <2>9. RunInv'
    BY <2>6, <2>7, <2>8 DEF RunInv
  <2> QED BY <2>1, <2>4, <2>9
<1> QED BY <1>5, <1>6 DEF Admit

\* A step of a run that goes on in the same phase.
LEMMA RunStep ==
    ASSUME Inv, phase \in Running, phase' = phase, call' = None, closed' = closed,
           UNCHANGED outcomeVars, RpcTypes', ReaderInv', FlightInv', BuilderTypes', RowsInv',
           RunInv', DropInv', todo' \subseteq Nat, owned' \subseteq Nat, handles' \subseteq owned',
           drop' \in [sid : Nat \cup {None}, row : Rows \cup {None}],
           owned' = (DOMAIN live)', owned' \ handles' \subseteq {drop'.sid}
    PROVE  Inv'
<1>1. ~registered' /\ phase' # "cleanup" /\ phase' \notin {"status", "shutdown", "finish"}
      /\ error' = None /\ closeError' = None /\ ~closed' /\ phase' # "load"
  BY RunningIsClean DEF Inv, RegisteredInv, Running, outcomeVars
<1>2. LedgerTypes'
  BY DEF Inv, LedgerTypes, outcomeVars
<1>3. PhaseInv'
  BY <1>1 DEF PhaseInv, Clean
<1> QED BY <1>1, <1>2, <1>3, Assemble

LEMMA SinkKeeps ==
    ASSUME Inv, HasSource, ApplySink, call' = None, closed' = closed, live' = live,
           owned = DOMAIN live, RpcTypes', ReaderInv', FlightInv'
    PROVE  Inv'
<1>1. phase \in Running /\ Positioned /\ drop = NoDrop /\ UNCHANGED ledgerVars
  BY DEF HasSource, Positioned, Running, ApplySink
<1>2. owned' \subseteq Nat /\ handles' \subseteq owned' /\ owned' = owned /\ handles' = handles
  BY <1>1, RunningIsClean DEF Inv, LedgerTypes, ledgerVars
<1>3. CASE RowMatches(SinkRow)
  <2>1. /\ Settle(SinkRow) /\ UNCHANGED <<phase, drop, todo, outcomeVars, task, reps, pending, dups>>
    BY <1>3 DEF ApplySink
  <2>2. SinkRow \in Rows /\ Grounded(SinkRow, DOMAIN reps')
    BY DEF Rows, Grounded
  <2>3. BuilderTypes' /\ RowsInv'
    BY <1>1, <2>1, <2>2, SameExtended, SettledRows DEF outcomeVars
  <2>4. RunInv'
    BY <1>2, <2>1 DEF Inv, RunInv
  <2>5. DropInv' /\ drop'.sid = None /\ drop' = NoDrop
    BY <1>1, <2>1 DEF DropInv, NoDrop
  <2>6. /\ todo' \subseteq Nat /\ drop' \in [sid : Nat \cup {None}, row : Rows \cup {None}]
        /\ owned' \ handles' \subseteq {drop'.sid} /\ phase' = phase /\ UNCHANGED outcomeVars
    BY <1>1, <1>2, <2>1, RunningIsClean DEF Inv, LedgerTypes, LedgerInv
  <2>7. owned' = (DOMAIN live)'
    BY <1>2
  <2> QED BY <1>1, <1>2, <2>3, <2>4, <2>5, <2>6, <2>7, RunStep
<1>4. CASE ~RowMatches(SinkRow)
  <2>1. LeaveRun("normalization", handles') /\ UNCHANGED builderVars
    BY <1>2, <1>4 DEF ApplySink
  <2> QED BY <1>1, <1>2, <2>1, LeaveKeeps DEF Errors
<1> QED BY <1>3, <1>4

LEMMA SyntacticSinkKeeps == ASSUME Inv, SyntacticSink PROVE Inv'
<1>1. call = None /\ HasSource /\ ApplySink /\ UNCHANGED rpcVars /\ phase \in Running
  BY DEF SyntacticSink, HasSource, Running
<1>2. /\ RpcTypes' /\ ReaderInv' /\ FlightInv' /\ call' = None /\ closed' = closed /\ live' = live
  <2>1. Usable' => Usable
    BY <1>1, RunningIsClean DEF Usable
  <2> QED BY <1>1, <2>1, RpcSame DEF rpcVars, transportVars, workerVars
<1>3. owned = DOMAIN live
  BY <1>1, RunningIsClean DEF Inv, LedgerInv
<1> QED BY <1>1, <1>2, <1>3, SinkKeeps

LEMMA RecvLoadKeeps == ASSUME Inv, RecvLoad PROVE Inv'
<1>1. PICK r : Receive(r) /\ Answers(r)
  BY DEF RecvLoad
<1>2. /\ call # None /\ call.op = "load" /\ Returned /\ phase' = "init"
      /\ UNCHANGED <<ledgerVars, builderVars, drop, todo, outcomeVars>>
  BY DEF RecvLoad
<1>3. phase = "load" /\ Clean /\ error = None /\ closeError = None /\ ~closed
      /\ error # "interrupt" /\ handles \subseteq owned
  BY <1>2, RunningIsClean DEF Inv, CallInv
<1>4. RpcTypes' /\ ReaderInv' /\ FlightInv' /\ call' = None /\ live' = live /\ closed' = closed
      /\ ~registered
  BY <1>1, <1>2, <1>3, ReturnedFacts
<1>5. owned = DOMAIN live /\ owned \ handles \subseteq {drop.sid}
  <2>1. Explains(r)
    BY <1>1, <1>3, AnswerExplains
  <2> QED BY <1>1, <1>2, <1>3, <2>1 DEF Explains, Answers, Inv, LedgerInv
<1> USE DEF ledgerVars, builderVars, outcomeVars
<1>6. LedgerTypes' /\ BuilderTypes'
  BY <1>2 DEF Inv, LedgerTypes, BuilderTypes, Phases
<1>7. drop = NoDrop
  BY <1>3 DEF Inv, DropInv
<1>8. DropInv' /\ PhaseInv'
  BY <1>2, <1>3, <1>4, <1>7 DEF DropInv, PhaseInv, NoDrop
<1>9. RunInv'
  BY <1>2, <1>3 DEF Inv, RunInv
<1>10. RowsInv'
  BY <1>2, <1>3 DEF Inv, RowsInv
<1> QED BY <1>2, <1>4, <1>5, <1>6, <1>8, <1>9, <1>10, Assemble

LEMMA AdmitErrorFacts == ASSUME NEW o PROVE AdmitError(o) \in {None, "resource", "normalization"}
BY DEF AdmitError

LEMMA RecvInitKeeps == ASSUME Inv, RecvInit PROVE Inv'
<1>1. PICK r : /\ Receive(r) /\ Answers(r) /\ r.res = "ok"
          /\ owned' = owned \cup {r.sid}
          /\ \/ /\ \E c \in {"domain", "execution"} : LeaveRun(c, handles)
                /\ UNCHANGED <<handles, builderVars>>
             \/ /\ r.view \in Obs
                /\ handles' = handles \cup {r.sid}
                /\ IF AdmitError(r.view) # None
                   THEN /\ LeaveRun(AdmitError(r.view), handles')
                        /\ UNCHANGED builderVars
                   ELSE /\ Admit(r.sid, r.view)
                        /\ task' = task + 1
                        /\ UNCHANGED <<phase, cursor, act, rows, todo, outcomeVars>>
  BY DEF RecvInit
<1>2. call # None /\ call.op = "init" /\ Returned
  BY DEF RecvInit
<1>3. phase = "init" /\ phase \in Running /\ drop = NoDrop
  BY <1>2 DEF Inv, CallInv, Running
<1>4. Clean /\ handles \subseteq owned /\ error # "interrupt" /\ error = None
  BY <1>3, RunningIsClean
<1>5. r \in GoodLines /\ Explains(r) /\ r.op = "init"
  BY <1>1, <1>2, <1>4, AnswerExplains DEF Answers
<1>6. r.sid \in Nat /\ r.sid \notin owned /\ DOMAIN live = owned \cup {r.sid}
  BY <1>1, <1>5 DEF GoodLines, Explains, Fresh
<1>7. owned' \subseteq Nat
  BY <1>1, <1>6 DEF Inv, LedgerTypes
<1>8. ASSUME NEW c \in {"domain", "execution"}, LeaveRun(c, handles), UNCHANGED <<handles, builderVars>>
      PROVE  Inv'
  <2>1. LeaveRun(c, handles') /\ handles' \subseteq owned' /\ UNCHANGED builderVars
    BY <1>1, <1>4, <1>8
  <2> QED BY <1>1, <1>2, <1>3, <1>7, <2>1, ReturnedLeave DEF Errors
<1>9. CASE /\ handles' = handles \cup {r.sid} /\ AdmitError(r.view) # None
           /\ LeaveRun(AdmitError(r.view), handles') /\ UNCHANGED builderVars
  <2>1. handles' \subseteq owned' /\ AdmitError(r.view) \in Errors
    BY <1>1, <1>4, <1>9, AdmitErrorFacts DEF Errors
  <2> QED BY <1>1, <1>2, <1>3, <1>7, <1>9, <2>1, ReturnedLeave
<1>10. CASE /\ r.view \in Obs /\ handles' = handles \cup {r.sid} /\ Admit(r.sid, r.view)
            /\ task' = task + 1
            /\ UNCHANGED <<phase, cursor, act, rows, todo, outcomeVars>>
  <2>1. RpcTypes' /\ ReaderInv' /\ FlightInv' /\ call' = None /\ live' = live /\ closed' = closed
    BY <1>1, <1>2, <1>4, ReturnedFacts
  <2>2. /\ Extended /\ RunInv'
        /\ drop' = NoDrop \/ drop' = [sid |-> r.sid, row |-> None]
    BY <1>1, <1>3, <1>6, <1>10, AdmitFacts
  <2>3. BuilderTypes' /\ RowsInv'
    <3>1. task' \in Nat
      BY <1>10 DEF Inv, BuilderTypes
    <3> QED BY <1>3, <1>10, <2>2, <3>1, UnsettledRows DEF outcomeVars
  <2>4. /\ drop' \in [sid : Nat \cup {None}, row : Rows \cup {None}]
        /\ drop'.row = None /\ (drop' # NoDrop => drop'.sid \in Nat)
    BY <1>6, <2>2 DEF NoDrop
  <2>5. DropInv'
    BY <1>3, <1>10, <2>4 DEF DropInv
  <2>6. /\ handles' \subseteq owned' /\ owned' = (DOMAIN live)' /\ todo' \subseteq Nat
        /\ owned' \ handles' \subseteq {drop'.sid}
    <3>1. owned \ handles \subseteq {None}
      BY <1>3, <1>4 DEF Inv, LedgerInv, NoDrop
    <3>2. owned \subseteq Nat /\ None \notin Nat
      BY ObsAssumption DEF Inv, LedgerTypes
    <3> QED BY <1>1, <1>4, <1>6, <1>10, <2>1, <3>1, <3>2 DEF Inv, LedgerTypes
  <2> QED BY <1>3, <1>7, <1>10, <2>1, <2>2, <2>3, <2>4, <2>5, <2>6, RunStep
<1> QED BY <1>1, <1>8, <1>9, <1>10

\* What the answer to an applied tactic says of its child.
LEMMA ChildFacts ==
    ASSUME Inv, NEW r, Receive(r), Answers(r), call.op = "apply"
    PROVE  /\ HasSource /\ Positioned /\ drop = NoDrop /\ phase \in Running /\ Clean
           /\ error # "interrupt" /\ handles \subseteq owned /\ owned \subseteq handles
           /\ r.op = "apply" /\ r \in GoodLines
           /\ r.res \in {"partial", "success"} =>
                 r.sid \in Nat /\ r.sid \notin owned /\ DOMAIN live = owned \cup {r.sid}
           /\ r.res = "partial" => r.view \in Obs
           /\ r.res = "failure" => owned = DOMAIN live
<1>1. HasSource /\ Positioned /\ drop = NoDrop /\ phase \in Running
  BY DEF Inv, CallInv, Receive, HasSource, Positioned, Running
<1>2. Clean /\ error # "interrupt" /\ handles \subseteq owned
  BY <1>1, RunningIsClean
<1>3. r.op = "apply" /\ r \in GoodLines /\ Explains(r)
  BY <1>2, AnswerExplains DEF Answers
<1>4. owned \subseteq handles
  <2>1. owned \ handles \subseteq {None} /\ owned \subseteq Nat /\ None \notin Nat
    BY <1>1, <1>2, ObsAssumption DEF Inv, LedgerInv, LedgerTypes, NoDrop
  <2> QED BY <2>1
<1> QED BY <1>1, <1>2, <1>3, <1>4 DEF GoodLines, Explains, Fresh

LEMMA ApplyLeaves ==
    ASSUME Inv, NEW r, Receive(r), Answers(r), call.op = "apply", Returned,
           ApplyUnbound(r) \/ ApplyRefused(r) \/ ApplyCensored(r)
    PROVE  Inv'
<1>1. PICK c \in Errors : LeaveRun(c, handles) /\ UNCHANGED <<handles, builderVars>>
  BY DEF ApplyUnbound, ApplyRefused, ApplyCensored, RefusedClasses, FacadeErrors, Errors, ledgerVars
<1>2. owned' = owned \/ (r.res \in {"partial", "success"} /\ owned' = owned \cup {r.sid})
  BY DEF ApplyUnbound, ApplyRefused, ApplyCensored, ledgerVars
<1>3. owned' \subseteq Nat /\ handles' \subseteq owned' /\ LeaveRun(c, handles')
  BY <1>1, <1>2, ChildFacts DEF Inv, LedgerTypes
<1> QED BY <1>1, <1>3, ChildFacts, ReturnedLeave

\* A child that is to be discarded before anything else.
LEMMA ChildDropped ==
    ASSUME Inv, NEW r, Receive(r), Answers(r), call.op = "apply", Returned,
           r.res \in {"partial", "success"}, NEW row \in Rows, Grounded(row, DOMAIN reps),
           owned' = owned \cup {r.sid}, handles' = handles \/ handles' = handles \cup {r.sid},
           drop' = [sid |-> r.sid, row |-> row],
           UNCHANGED <<phase, todo, outcomeVars, builderVars>>
    PROVE  Inv'
<1>1. /\ Positioned /\ phase \in Running /\ handles \subseteq owned /\ owned \subseteq handles
      /\ r.sid \in Nat /\ r.sid \notin owned /\ DOMAIN live = owned \cup {r.sid}
      /\ error # "interrupt"
  BY ChildFacts
<1>2. RpcTypes' /\ ReaderInv' /\ FlightInv' /\ call' = None /\ live' = live /\ closed' = closed
  BY ReturnedFacts, <1>1
<1>3. Extended /\ UNCHANGED <<reps, pending, rows, cursor, act, error, task, dups>>
  BY SameExtended DEF builderVars, outcomeVars
<1>4. BuilderTypes' /\ RowsInv'
  BY <1>3, UnsettledRows DEF Inv, BuilderTypes
<1>5. RunInv'
  <2>1. drop'.sid = r.sid /\ phase' = phase
    OBVIOUS
  <2>2. \A k \in DOMAIN reps : reps[k][1] \in handles
    BY <1>1 DEF Inv, RunInv
  <2>3. \A k \in DOMAIN reps' : reps'[k][1] \in handles' /\ reps'[k][1] # drop'.sid
    BY <1>1, <1>3, <2>1, <2>2
  <2>4. phase \in {"load", "init", "expand"} => \A i \in DOMAIN dups : dups[i][2] \in owned
    BY <1>1 DEF Inv, RunInv
  <2>5. \A i \in DOMAIN dups, k \in DOMAIN reps : dups[i][2] # reps[k][1]
    BY <1>1 DEF Inv, RunInv
  <2> QED BY <1>1, <1>3, <2>1, <2>3, <2>4, <2>5 DEF RunInv
<1>6. /\ drop' \in [sid : Nat \cup {None}, row : Rows \cup {None}]
      /\ drop'.sid = r.sid /\ drop'.row = row
  BY <1>1
<1>7. DropInv'
  <2>1. Positioned'
    BY <1>1, <1>3 DEF Positioned
  <2>2. phase' \notin {"load", "result", "status", "shutdown", "finish", "done", "cleanup"}
    BY <1>1 DEF Positioned
  <2> QED BY <1>1, <1>3, <1>6, <2>1, <2>2 DEF DropInv
<1>8. /\ owned' \subseteq Nat /\ handles' \subseteq owned' /\ owned' = (DOMAIN live)'
      /\ owned' \ handles' \subseteq {drop'.sid} /\ todo' \subseteq Nat
  BY <1>1, <1>2, <1>6 DEF Inv, LedgerTypes
<1> QED BY <1>1, <1>2, <1>4, <1>5, <1>6, <1>7, <1>8, RunStep

LEMMA ApplyClosedKeeps ==
    ASSUME Inv, NEW r, Receive(r), Answers(r), call.op = "apply", Returned, ApplyClosed(r)
    PROVE  Inv'
<1>1. ClosedRow \in Rows /\ Grounded(ClosedRow, DOMAIN reps)
  BY DEF Rows, Grounded
<1>2. /\ r.res = "success" /\ owned' = owned \cup {r.sid} /\ handles' = handles
      /\ drop' = [sid |-> r.sid, row |-> ClosedRow]
      /\ UNCHANGED <<phase, todo, outcomeVars, builderVars>>
  BY DEF ApplyClosed
<1> QED BY <1>1, <1>2, ChildDropped

LEMMA ApplyProbeKeeps ==
    ASSUME Inv, NEW r, Receive(r), Answers(r), call.op = "apply", Returned, ApplyProbe(r)
    PROVE  Inv'
<1>1. /\ r.res = "partial" /\ phase = "audit" /\ owned' = owned \cup {r.sid}
      /\ handles' = handles \cup {r.sid}
  BY DEF ApplyProbe
<1>2. /\ r.view \in Obs /\ phase \in Running /\ Positioned /\ r.sid \in Nat
      /\ handles \subseteq owned /\ error = None
  BY <1>1, ChildFacts DEF Clean
<1>3. CASE RowMatches(OpenRow(r.view))
  <2>1. /\ drop' = [sid |-> r.sid, row |-> OpenRow(r.view)]
        /\ UNCHANGED <<phase, todo, outcomeVars, builderVars>>
    BY <1>3 DEF ApplyProbe
  <2>2. OpenRow(r.view) \in Rows
    BY <1>2 DEF Rows
  <2> DEFINE p == <<dups[cursor][1], act>>
  <2>3. p \in DOMAIN rows
    <3>1. cursor \in DOMAIN dups /\ act \in Actions
      <4>1. dups \in Seq(Indices \X Nat) /\ cursor \in Nat \ {0}
        BY DEF Inv, BuilderTypes
      <4> QED BY <1>1, <1>2, <4>1, QueueFacts DEF Positioned
    <3>2. dups[cursor][1] \in DOMAIN reps
      BY <3>1 DEF Inv, RowsInv
    <3>3. DOMAIN rows = (DOMAIN reps) \X Actions
      BY <1>1, <1>2 DEF Inv, RowsInv
    <3> QED BY <3>1, <3>2, <3>3
  <2>4. rows[p] = OpenRow(r.view)
    BY <1>1, <1>3 DEF RowMatches
  <2>5. Grounded(OpenRow(r.view), DOMAIN reps)
    <3> HIDE DEF p
    <3>1. Grounded(rows[p], DOMAIN reps)
      BY <2>3 DEF Inv, RowsInv
    <3> QED BY <2>4, <3>1
  <2> QED BY <1>1, <2>1, <2>2, <2>5, ChildDropped
<1>4. CASE ~RowMatches(OpenRow(r.view))
  <2>1. LeaveRun("normalization", handles') /\ UNCHANGED builderVars
    BY <1>4 DEF ApplyProbe
  <2>2. owned' \subseteq Nat /\ handles' \subseteq owned'
    BY <1>1, <1>2 DEF Inv, LedgerTypes
  <2> QED BY <1>2, <2>1, <2>2, ReturnedLeave DEF Errors
<1> QED BY <1>3, <1>4

LEMMA ApplyOpenKeeps ==
    ASSUME Inv, NEW r, Receive(r), Answers(r), call.op = "apply", Returned, ApplyOpen(r)
    PROVE  Inv'
<1>1. /\ r.res = "partial" /\ phase = "expand" /\ owned' = owned \cup {r.sid}
      /\ handles' = handles \cup {r.sid}
  BY DEF ApplyOpen
<1>2. /\ r.view \in Obs /\ phase \in Running /\ Positioned /\ r.sid \in Nat /\ drop = NoDrop
      /\ r.sid \notin owned /\ DOMAIN live = owned \cup {r.sid} /\ owned \subseteq handles
      /\ handles \subseteq owned /\ error # "interrupt"
  BY <1>1, ChildFacts
<1>3. owned' \subseteq Nat /\ handles' \subseteq owned'
  BY <1>1, <1>2 DEF Inv, LedgerTypes
<1>4. CASE AdmitError(r.view) # None
  <2>1. LeaveRun(AdmitError(r.view), handles') /\ UNCHANGED builderVars
    BY <1>4 DEF ApplyOpen
  <2>2. AdmitError(r.view) \in Errors
    BY <1>4, AdmitErrorFacts DEF Errors
  <2> QED BY <1>2, <1>3, <2>1, <2>2, ReturnedLeave
<1>5. CASE AdmitError(r.view) = None
  <2>1. /\ Admit(r.sid, r.view) /\ UNCHANGED <<phase, task, todo, outcomeVars>>
        /\ IF drop' = NoDrop THEN Settle(OpenRow(r.view)) ELSE UNCHANGED <<rows, cursor, act>>
    BY <1>5 DEF ApplyOpen
  <2>2. RpcTypes' /\ ReaderInv' /\ FlightInv' /\ call' = None /\ live' = live /\ closed' = closed
    BY <1>2, ReturnedFacts
  <2>3. /\ Extended /\ RunInv' /\ Index[r.view] \in DOMAIN reps'
        /\ \/ drop' = NoDrop
           \/ /\ drop' = [sid |-> r.sid, row |-> OpenRow(r.view)]
              /\ UNCHANGED <<reps, pending>>
    BY <1>1, <1>2, <2>1, AdmitFacts
  <2>4. OpenRow(r.view) \in Rows /\ Grounded(OpenRow(r.view), DOMAIN reps')
    BY <1>2, <2>3 DEF Rows, Grounded
  <2>5. task' \in Nat /\ UNCHANGED <<error, task, phase>>
    BY <2>1 DEF Inv, BuilderTypes, outcomeVars
  <2>6. CASE drop' = NoDrop
    <3>1. BuilderTypes' /\ RowsInv'
      BY <1>2, <2>1, <2>3, <2>4, <2>5, <2>6, SettledRows
    <3>2. DropInv' /\ drop' \in [sid : Nat \cup {None}, row : Rows \cup {None}]
      BY <2>6 DEF DropInv, NoDrop
    <3>3. /\ owned' = (DOMAIN live)' /\ owned' \ handles' \subseteq {drop'.sid} /\ todo' \subseteq Nat
      BY <1>1, <1>2, <2>1, <2>2 DEF Inv, LedgerTypes
    <3> QED BY <1>2, <1>3, <2>1, <2>2, <2>3, <3>1, <3>2, <3>3, RunStep
  <2>7. CASE drop' # NoDrop
    <3>1. BuilderTypes' /\ RowsInv'
      BY <2>1, <2>3, <2>5, <2>7, UnsettledRows
    <3>2. /\ drop' \in [sid : Nat \cup {None}, row : Rows \cup {None}]
          /\ drop'.sid = r.sid /\ drop'.row = OpenRow(r.view)
      BY <1>2, <2>3, <2>4, <2>7
    <3>3. DropInv'
      <4>1. Positioned'
        BY <1>2, <2>1, <2>3, <2>7, <1>1 DEF Positioned
      <4> QED BY <1>1, <1>2, <2>4, <2>5, <3>2, <4>1 DEF DropInv
    <3>4. /\ owned' = (DOMAIN live)' /\ owned' \ handles' \subseteq {drop'.sid} /\ todo' \subseteq Nat
      BY <1>1, <1>2, <2>1, <2>2 DEF Inv, LedgerTypes
    <3> QED BY <1>2, <1>3, <2>1, <2>2, <2>3, <3>1, <3>2, <3>3, <3>4, RunStep
  <2> QED BY <2>6, <2>7
<1> QED BY <1>4, <1>5

LEMMA RecvApplyKeeps == ASSUME Inv, RecvApply PROVE Inv'
<1>1. PICK r : /\ Receive(r) /\ Answers(r)
               /\ \/ ApplyUnbound(r) \/ ApplyRefused(r) \/ ApplyCensored(r)
                  \/ ApplyClosed(r) \/ ApplyOpen(r) \/ ApplyProbe(r)
                  \/ r.res = "failure" /\ ApplySink
  BY DEF RecvApply
<1>2. call.op = "apply" /\ Returned
  BY DEF RecvApply
<1>3. CASE r.res = "failure" /\ ApplySink
  <2>1. HasSource /\ owned = DOMAIN live /\ error # "interrupt"
    BY <1>1, <1>2, <1>3, ChildFacts
  <2>2. RpcTypes' /\ ReaderInv' /\ FlightInv' /\ call' = None /\ live' = live /\ closed' = closed
    BY <1>1, <1>2, <2>1, ReturnedFacts
  <2> QED BY <1>3, <2>1, <2>2, SinkKeeps
<1> QED BY <1>1, <1>2, <1>3, ApplyLeaves, ApplyClosedKeeps, ApplyOpenKeeps, ApplyProbeKeeps

LEMMA RecvDiscardKeeps == ASSUME Inv, RecvDiscard PROVE Inv'
<1>1. PICK r :
          /\ Receive(r) /\ Answers(r) /\ r.res = "ok" /\ r.sid = call.sid
          /\ IF r.n = Cardinality(owned)
             THEN /\ owned' = owned \ {r.sid}
                  /\ handles' = handles \ {r.sid}
                  /\ \/ IF drop.row = None
                        THEN /\ todo' = todo \ {r.sid} /\ drop' = NoDrop
                             /\ UNCHANGED <<phase, outcomeVars, builderVars>>
                        ELSE IF RowMatches(drop.row)
                        THEN /\ Settle(drop.row) /\ drop' = NoDrop
                             /\ UNCHANGED <<phase, todo, outcomeVars, task, reps, pending, dups>>
                        ELSE LeaveRun("normalization", handles') /\ UNCHANGED builderVars
                     \/ /\ drop.row = ClosedRow
                        /\ \E c \in FacadeErrors : LeaveRun(c, handles')
                        /\ UNCHANGED builderVars
             ELSE Raised("domain") /\ UNCHANGED <<ledgerVars, builderVars>>
  BY DEF RecvDiscard
<1>2. call # None /\ call.op = "discard" /\ Returned
  BY DEF RecvDiscard
<1>3. drop # NoDrop /\ r.sid = drop.sid /\ r.sid \in Nat /\ phase \in {"init", "expand", "audit", "cleanup"}
  BY <1>1, <1>2 DEF Inv, CallInv, DropInv, LedgerTypes, Phases
<1>4. Clean => DOMAIN live = owned \ {r.sid} /\ owned \ handles \subseteq {r.sid}
  <2> SUFFICES ASSUME Clean PROVE DOMAIN live = owned \ {r.sid} /\ owned \ handles \subseteq {r.sid}
    OBVIOUS
  <2>1. Explains(r) /\ r.op = "discard"
    BY <1>1, <1>2, AnswerExplains DEF Answers
  <2> QED BY <1>1, <1>3, <2>1 DEF Explains, Inv, LedgerInv
<1>5. owned \subseteq Nat /\ handles \subseteq owned /\ todo \subseteq Nat
  BY <1>3 DEF Inv, LedgerTypes, PhaseInv
<1>6. CASE r.n # Cardinality(owned)
  <2>1. Raised("domain") /\ UNCHANGED <<ledgerVars, builderVars>> /\ "domain" \in Errors
    BY <1>1, <1>6 DEF Errors
  <2>2. error' # "interrupt" => error # "interrupt"
    <3>1. closed' = closed /\ closed \in BOOLEAN
      BY <1>2 DEF Returned, Inv, RpcTypes
    <3> QED BY <2>1, NoneIsNoError DEF Raised, LeaveRun, SkipHandle, GiveUp, Inv, PhaseInv, Errors
  <2>3. RpcTypes' /\ ReaderInv' /\ FlightInv' /\ call' = None
    BY <1>1, <1>2, <2>2, ReturnedFacts
  <2> QED BY <2>1, <2>3, RaisedKeeps
<1>7. CASE r.n = Cardinality(owned)
  <2>1. owned' = owned \ {r.sid} /\ handles' = handles \ {r.sid}
    BY <1>1, <1>7
  <2>2. owned' \subseteq Nat /\ handles' \subseteq owned'
    BY <1>5, <2>1
  <2>3. ASSUME NEW c \in Errors, drop.row # None, LeaveRun(c, handles'), UNCHANGED builderVars
        PROVE  Inv'
    <3>1. phase \in Running
      BY <2>3 DEF Inv, DropInv, Positioned, Running
    <3> QED BY <1>1, <1>2, <2>2, <2>3, <3>1, ReturnedLeave
  <2>4. ASSUME drop' = NoDrop, UNCHANGED <<phase, outcomeVars, reps, pending, dups>>,
               BuilderTypes', RowsInv',
               todo' = todo \ {r.sid} \/ (todo' = todo /\ phase # "cleanup")
        PROVE  Inv'
    <3>1. error' = error
      BY <2>4 DEF outcomeVars
    <3>2. RpcTypes' /\ ReaderInv' /\ FlightInv' /\ call' = None /\ live' = live /\ closed' = closed /\ ~registered
      BY <1>1, <1>2, <3>1, ReturnedFacts
    <3>3. DropInv' /\ drop'.sid = None /\ drop' \in [sid : Nat \cup {None}, row : Rows \cup {None}]
      BY <2>4 DEF DropInv, NoDrop
    <3>4. LedgerTypes'
      BY <1>5, <2>2, <2>4, <3>3 DEF Inv, LedgerTypes, outcomeVars
    <3>5. PhaseInv'
      BY <1>3, <2>2, <2>4, <3>2 DEF Inv, PhaseInv, outcomeVars, Clean
    <3>6. RunInv'
      <4> SUFFICES ASSUME phase \in Running \cup {"load"} PROVE RunInv'
        BY <2>4 DEF RunInv
      <4>1. /\ \A k \in DOMAIN reps : reps[k][1] \in handles' /\ reps[k][1] # None
        BY <1>3, <1>5, <2>1, ObsAssumption DEF Inv, RunInv
      <4>2. phase \in {"load", "init", "expand"} =>
               \A i \in DOMAIN dups : dups[i][2] \in owned' /\ dups[i][2] # None
        BY <1>3, <1>5, <2>1, ObsAssumption DEF Inv, RunInv
      <4>3. \A i \in DOMAIN dups, k \in DOMAIN reps : dups[i][2] # reps[k][1]
        BY DEF Inv, RunInv
      <4> QED BY <2>4, <3>3, <4>1, <4>2, <4>3 DEF RunInv
    <3>7. Clean' => /\ owned' = (DOMAIN live)' /\ owned' \ handles' \subseteq {drop'.sid}
                    /\ phase' = "cleanup" => todo' = handles'
                    /\ phase' \in {"status", "shutdown", "finish"} => handles' = {}
      <4> SUFFICES ASSUME Clean PROVE
                    /\ owned' = (DOMAIN live)' /\ owned' \ handles' \subseteq {drop'.sid}
                    /\ phase' = "cleanup" => todo' = handles'
                    /\ phase' \in {"status", "shutdown", "finish"} => handles' = {}
        BY <2>4 DEF Clean, outcomeVars
      <4>1. owned' = (DOMAIN live)' /\ owned' \ handles' \subseteq {drop'.sid}
        BY <1>4, <2>1, <3>2
      <4>2. phase = "cleanup" => todo = handles
        BY DEF Inv, LedgerInv
      <4> QED BY <1>3, <2>1, <2>4, <4>1, <4>2
    <3>8. ~registered'
      BY <2>4, <3>2 DEF outcomeVars
    <3> QED BY <2>4, <3>2, <3>3, <3>4, <3>5, <3>6, <3>7, <3>8, Assemble
  <2>5. CASE /\ drop.row = None /\ todo' = todo \ {r.sid} /\ drop' = NoDrop
             /\ UNCHANGED <<phase, outcomeVars, builderVars>>
    <3>1. todo' = todo \ {r.sid} /\ drop' = NoDrop /\ UNCHANGED <<phase, outcomeVars, builderVars>>
      BY <2>5
    <3>2. BuilderTypes' /\ RowsInv' /\ UNCHANGED <<reps, pending, dups>>
      <4>1. Extended /\ UNCHANGED <<reps, pending, rows, cursor, act, error, task, dups>>
        BY <3>1, SameExtended DEF builderVars, outcomeVars
      <4> QED BY <3>1, <4>1, UnsettledRows DEF Inv, BuilderTypes
    <3> QED BY <2>4, <3>1, <3>2
  <2>6. CASE /\ drop.row # None /\ Settle(drop.row) /\ drop' = NoDrop
             /\ UNCHANGED <<phase, todo, outcomeVars, task, reps, pending, dups>>
    <3>1. /\ Settle(drop.row) /\ drop' = NoDrop
          /\ UNCHANGED <<phase, todo, outcomeVars, task, reps, pending, dups>>
      BY <2>6
    <3>2. Positioned /\ Grounded(drop.row, DOMAIN reps') /\ drop.row \in Rows /\ phase # "cleanup"
      BY <2>6, <3>1 DEF Inv, DropInv, LedgerTypes, Positioned
    <3>3. BuilderTypes' /\ RowsInv'
      <4>1. Extended /\ UNCHANGED <<phase, error, task>>
        BY <3>1, SameExtended DEF outcomeVars
      <4> QED BY <3>1, <3>2, <4>1, SettledRows
    <3> QED BY <2>4, <3>1, <3>2, <3>3
  <2>7. "normalization" \in Errors /\ FacadeErrors \subseteq Errors
    BY DEF FacadeErrors, Errors
  <2>8. CASE \E c \in FacadeErrors : drop.row = ClosedRow /\ LeaveRun(c, handles') /\ UNCHANGED builderVars
    <3>1. drop.row # None
      BY <2>8, NoneIsNoError DEF Rows
    <3> QED BY <2>3, <2>7, <2>8, <3>1
  <2>9. CASE drop.row # None /\ LeaveRun("normalization", handles') /\ UNCHANGED builderVars
    BY <2>3, <2>7, <2>9
  <2> QED BY <1>1, <1>7, <2>5, <2>6, <2>8, <2>9
<1> QED BY <1>6, <1>7

\* The close-out moves on with nothing left.
LEMMA CloseOutStep ==
    ASSUME Inv, NEW r, Receive(r), Answers(r), call.op \in {"status", "shutdown"}, Returned,
           phase' \in {"shutdown", "finish"},
           UNCHANGED <<ledgerVars, builderVars, drop, todo, outcomeVars>>
    PROVE  Inv'
<1> USE DEF ledgerVars, builderVars, outcomeVars
<1>1. phase \in {"status", "shutdown"} /\ drop = NoDrop
  BY DEF Receive, Inv, CallInv, DropInv
<1>2. RpcTypes' /\ ReaderInv' /\ FlightInv' /\ call' = None /\ live' = live /\ closed' = closed /\ ~registered
  BY ReturnedFacts
<1>3. LedgerTypes' /\ BuilderTypes'
  BY DEF Inv, LedgerTypes, BuilderTypes, Phases
<1>4. DropInv' /\ RunInv'
  BY <1>1 DEF DropInv, RunInv, Running, NoDrop
<1>5. PhaseInv'
  BY <1>1, <1>2 DEF Inv, PhaseInv, Running, Clean
<1>6. RowsInv'
  BY <1>1 DEF Inv, RowsInv
<1>7. Clean' => owned' = (DOMAIN live)' /\ owned' \ handles' \subseteq {drop'.sid} /\ handles' = {}
  <2> SUFFICES ASSUME Clean PROVE owned = DOMAIN live /\ owned \ handles \subseteq {drop.sid} /\ handles = {}
    BY <1>1, <1>2 DEF Clean
  <2>1. Explains(r) /\ r.op \in {"status", "shutdown"}
    BY AnswerExplains DEF Answers
  <2> QED BY <1>1, <2>1 DEF Explains, Inv, LedgerInv
<1>8. phase' # "cleanup" /\ ~registered'
  BY <1>2
<1> QED BY <1>2, <1>3, <1>4, <1>5, <1>6, <1>7, <1>8, Assemble

LEMMA RecvStatusKeeps == ASSUME Inv, RecvStatus PROVE Inv'
<1>1. PICK r :
          /\ Receive(r) /\ Answers(r)
          /\ responses' = Tail(responses)
          /\ IF r.n = Cardinality(owned) /\ r.n = 0
             THEN /\ phase' = "shutdown" /\ call' = None
                  /\ UNCHANGED <<workerVars, reader, closed, builderVars, drop, todo, outcomeVars>>
             ELSE RaiseInTransport(IF r.n # Cardinality(owned) THEN "domain" ELSE "execution", FALSE)
  BY DEF RecvStatus
<1>2. call.op = "status" /\ UNCHANGED <<serial, ledgerVars>>
  BY DEF RecvStatus
<1>3. CASE r.n = Cardinality(owned) /\ r.n = 0
  <2>1. Returned
    BY <1>1, <1>2, <1>3 DEF Returned
  <2>2. phase' = "shutdown" /\ UNCHANGED <<ledgerVars, builderVars, drop, todo, outcomeVars>>
    BY <1>1, <1>2, <1>3
  <2> QED BY <1>1, <1>2, <2>1, <2>2, CloseOutStep
<1>4. CASE ~(r.n = Cardinality(owned) /\ r.n = 0)
  <2>1. PICK c \in {"domain", "execution"} : RaiseInTransport(c, FALSE)
    BY <1>1, <1>4
  <2>2. c \in Errors
    BY DEF Errors
  <2>3. responses' \in Seq(GoodLines) /\ serial' \in Nat /\ UNCHANGED ledgerVars
    BY <1>1, <1>2, ReceiveFacts DEF Inv, RpcTypes
  <2> QED BY <1>1, <2>1, <2>2, <2>3, RaiseInTransportKeeps
<1> QED BY <1>3, <1>4

LEMMA RecvShutdownKeeps == ASSUME Inv, RecvShutdown PROVE Inv'
<1>1. PICK r : Receive(r) /\ Answers(r)
  BY DEF RecvShutdown
<1>2. /\ call.op = "shutdown" /\ Returned /\ phase' = "finish"
      /\ UNCHANGED <<ledgerVars, builderVars, drop, todo, outcomeVars>>
  BY DEF RecvShutdown
<1> QED BY <1>1, <1>2, CloseOutStep

----------------------------------------------------------------------------
(* The builder between requests. *)

LEMMA NextPhaseKeeps == ASSUME Inv, NextPhase PROVE Inv'
<1>1. /\ call = None /\ drop = NoDrop /\ cursor' = 1 /\ act' = 1
      /\ UNCHANGED rpcVars
      /\ UNCHANGED <<ledgerVars, task, reps, pending, rows, dups, drop, todo, outcomeVars>>
  BY DEF NextPhase
<1>2. \/ phase = "init" /\ phase' = "expand"
      \/ phase = "expand" /\ cursor > Len(pending) /\ phase' = "audit"
      \/ phase = "audit" /\ phase' = "result"
  BY DEF NextPhase
<1>3. phase \in Running /\ phase' \in Running /\ phase' \in Phases
  BY <1>2 DEF Running, Phases
<1>4. /\ Clean /\ error = None /\ closeError = None /\ ~closed /\ handles \subseteq owned
      /\ error # "interrupt"
  BY <1>3, RunningIsClean
<1> USE DEF ledgerVars, outcomeVars
<1>5. RpcTypes' /\ ReaderInv' /\ FlightInv' /\ call' = None /\ live' = live /\ closed' = closed
  BY <1>1, <1>4, RpcSame DEF Usable, rpcVars, workerVars, transportVars
<1>6. LedgerTypes' /\ BuilderTypes'
  BY <1>1, <1>3 DEF Inv, LedgerTypes, BuilderTypes
<1>7. DropInv'
  BY <1>1 DEF DropInv, NoDrop
<1>8. PhaseInv'
  BY <1>1, <1>3, <1>4, <1>5 DEF PhaseInv, Running
<1>9. RunInv'
  <2>1. RunInv
    BY DEF Inv
  <2>2. phase' \in {"load", "init", "expand"} => phase = "init"
    BY <1>2
  <2> QED BY <1>1, <1>3, <2>1, <2>2 DEF RunInv
<1>10. RowsInv'
  <2>1. RowsInv /\ cursor \in Nat /\ act \in Nat
    BY DEF Inv, BuilderTypes
  <2>2. CASE phase = "init"
    <3>1. phase' = "expand" /\ DOMAIN rows = {}
      BY <1>2, <2>1, <2>2 DEF RowsInv
    <3>2. \A i \in DOMAIN pending : ~(i < 1) /\ i \in Nat
      <4>1. pending \in Seq(Indices)
        BY DEF Inv, BuilderTypes
      <4> QED BY <4>1, QueueFacts
    <3>3. \A p \in Indices \X Actions : ~(p[2] < 1)
      BY SizesAssumption DEF Actions
    <3> QED BY <1>1, <2>1, <3>1, <3>2, <3>3 DEF RowsInv
  <2>3. CASE phase = "expand"
    <3>1. phase' = "audit" /\ cursor > Len(pending)
      BY <1>2, <2>3
    <3>2. pending \in Seq(Indices) /\ DOMAIN pending = 1 .. Len(pending) /\ Len(pending) \in Nat
          /\ DOMAIN reps \subseteq Indices /\ DOMAIN rows \subseteq Indices \X Actions
      BY QueueFacts DEF Inv, BuilderTypes
    <3>3. \A i \in DOMAIN pending : i < cursor
      BY <2>1, <3>1, <3>2
    <3>4. \A p \in Indices \X Actions : p \in DOMAIN rows <=> \E i \in DOMAIN pending : p[1] = pending[i]
      BY <2>1, <2>3, <3>3 DEF RowsInv
    <3>5. \A p \in Indices \X Actions : p \in DOMAIN rows <=> p[1] \in DOMAIN reps
      BY <2>1, <3>4 DEF RowsInv
    <3>6. \A p \in (DOMAIN reps) \X Actions : p \in Indices \X Actions /\ p[1] \in DOMAIN reps
      BY <3>2
    <3>7. \A p \in Indices \X Actions : p[1] \in DOMAIN reps => p \in (DOMAIN reps) \X Actions
      OBVIOUS
    <3>8. DOMAIN rows = (DOMAIN reps) \X Actions
      BY <3>2, <3>5, <3>6, <3>7
    <3> QED BY <1>1, <2>1, <3>1, <3>8 DEF RowsInv
  <2>4. CASE phase = "audit"
    BY <1>1, <1>2, <2>1, <2>4 DEF RowsInv
  <2> QED BY <1>2, <2>2, <2>3, <2>4
<1>11. /\ owned' = (DOMAIN live)' /\ owned' \ handles' \subseteq {drop'.sid}
  BY <1>1, <1>4, <1>5 DEF Inv, LedgerInv
<1>12. ~registered' /\ phase' \notin {"cleanup", "status", "shutdown", "finish"}
  BY <1>1, <1>3 DEF Inv, RegisteredInv, Running
<1> QED BY <1>5, <1>6, <1>7, <1>8, <1>9, <1>10, <1>11, <1>12, Assemble

LEMMA ReleaseDuplicateKeeps == ASSUME Inv, ReleaseDuplicate PROVE Inv'
<1>1. /\ call = None /\ drop = NoDrop /\ phase = "audit" /\ cursor <= Len(dups)
      /\ drop' = [sid |-> dups[cursor][2], row |-> None] /\ cursor' = cursor + 1 /\ act' = 1
      /\ UNCHANGED rpcVars
      /\ UNCHANGED <<ledgerVars, phase, task, reps, pending, rows, dups, todo, outcomeVars>>
  BY DEF ReleaseDuplicate
<1> USE DEF ledgerVars, outcomeVars
<1>2. phase \in Running /\ phase' = phase
  BY <1>1 DEF Running
<1>3. cursor \in DOMAIN dups /\ dups[cursor][2] \in Nat
  <2>1. dups \in Seq(Indices \X Nat) /\ cursor \in Nat \ {0}
    BY DEF Inv, BuilderTypes
  <2> QED BY <1>1, <2>1, QueueFacts
<1>4. RpcTypes' /\ ReaderInv' /\ FlightInv' /\ call' = None /\ live' = live /\ closed' = closed
  BY <1>1, <1>2, RpcSame, RunningIsClean DEF Usable, rpcVars, workerVars, transportVars
<1>5. /\ drop'.sid = dups[cursor][2] /\ drop'.row = None
      /\ drop' \in [sid : Nat \cup {None}, row : Rows \cup {None}]
  BY <1>1, <1>3
<1>6. BuilderTypes' /\ RowsInv'
  BY <1>1, <1>2 DEF Inv, BuilderTypes, RowsInv
<1>7. RunInv'
  BY <1>1, <1>2, <1>3, <1>5 DEF Inv, RunInv
<1>8. DropInv'
  BY <1>1, <1>3, <1>5 DEF DropInv
<1>9. /\ owned' \subseteq Nat /\ handles' \subseteq owned' /\ owned' = (DOMAIN live)'
      /\ owned' \ handles' \subseteq {drop'.sid} /\ todo' \subseteq Nat
  <2>1. owned \ handles \subseteq {None} /\ owned = DOMAIN live /\ handles \subseteq owned
    BY <1>1, <1>2, RunningIsClean DEF Inv, LedgerInv, NoDrop
  <2>2. owned \subseteq Nat /\ None \notin Nat /\ todo \subseteq Nat
    BY ObsAssumption DEF Inv, LedgerTypes
  <2> QED BY <1>1, <1>4, <2>1, <2>2
<1> QED BY <1>1, <1>2, <1>4, <1>5, <1>6, <1>7, <1>8, <1>9, RunStep

LEMMA BuildResultKeeps == ASSUME Inv, BuildResult PROVE Inv'
<1>1. call = None /\ phase = "result" /\ UNCHANGED rpcVars /\ UNCHANGED <<ledgerVars, builderVars>>
  BY DEF BuildResult
<1>2. /\ phase \in Running /\ drop = NoDrop
  BY <1>1 DEF Running, Inv, DropInv
<1>3. /\ Clean /\ error = None /\ closeError = None /\ ~closed /\ handles \subseteq owned
      /\ error # "interrupt"
  BY <1>2, RunningIsClean
<1>4. RpcTypes' /\ ReaderInv' /\ FlightInv' /\ call' = None /\ live' = live /\ closed' = closed
  BY <1>1, <1>3, RpcSame DEF Usable, rpcVars, workerVars, transportVars
<1>5. ASSUME NEW c \in Errors, LeaveRun(c, handles) PROVE Inv'
  BY <1>1, <1>2, <1>4, <1>5, RaisedKeeps DEF Raised
<1>6. CASE phase' = "cleanup" /\ todo' = handles /\ UNCHANGED <<drop, outcomeVars>>
  <2> USE DEF ledgerVars, outcomeVars, builderVars
  <2>1. LedgerTypes' /\ BuilderTypes'
    BY <1>1, <1>6 DEF Inv, LedgerTypes, BuilderTypes, Phases
  <2>2. DropInv' /\ RunInv'
    BY <1>2, <1>6 DEF DropInv, RunInv, NoDrop, Running
  <2>3. PhaseInv'
    BY <1>1, <1>3, <1>4, <1>6 DEF PhaseInv, Running
  <2>4. RowsInv'
    BY <1>1, <1>6 DEF Inv, RowsInv
  <2>5. /\ owned' = (DOMAIN live)' /\ owned' \ handles' \subseteq {drop'.sid} /\ todo' = handles'
    BY <1>1, <1>3, <1>4, <1>6 DEF Inv, LedgerInv
  <2>6. ~registered'
    BY <1>1, <1>6 DEF Inv, RegisteredInv
  <2> QED BY <1>4, <1>6, <2>1, <2>2, <2>3, <2>4, <2>5, <2>6, Assemble
<1> QED BY <1>5, <1>6 DEF BuildResult

LEMMA CleanUpKeeps == ASSUME Inv, CleanUp PROVE Inv'
<1>1. /\ call = None /\ phase = "cleanup" /\ drop = NoDrop /\ UNCHANGED rpcVars
      /\ UNCHANGED <<ledgerVars, builderVars, todo, outcomeVars>>
  BY DEF CleanUp
<1>2. \/ \E h \in todo : drop' = [sid |-> h, row |-> None] /\ phase' = phase
      \/ todo = {} /\ phase' = "status" /\ drop' = drop
  BY DEF CleanUp
<1> USE DEF ledgerVars, outcomeVars, builderVars
<1>3. RpcTypes' /\ ReaderInv' /\ FlightInv' /\ call' = None /\ live' = live /\ closed' = closed
  BY <1>1, RpcSame DEF Usable, rpcVars, workerVars, transportVars
<1>4. /\ drop' \in [sid : Nat \cup {None}, row : Rows \cup {None}] /\ drop'.row = None
      /\ phase' = "cleanup" /\ drop' # NoDrop => drop'.sid \in todo /\ drop'.sid \in Nat
      /\ phase' = "status" => drop' = NoDrop
      /\ drop' # NoDrop => phase' = "cleanup"
      /\ phase' \in {"cleanup", "status"} /\ (phase' = "status" => todo = {})
  BY <1>1, <1>2 DEF Inv, LedgerTypes, NoDrop
<1>5. LedgerTypes' /\ BuilderTypes'
  BY <1>1, <1>4 DEF Inv, LedgerTypes, BuilderTypes, Phases
<1>6. DropInv' /\ RunInv'
  BY <1>1, <1>4 DEF DropInv, RunInv, Running
<1>7. PhaseInv'
  BY <1>1, <1>3, <1>4 DEF Inv, PhaseInv, Running, Clean
<1>8. RowsInv'
  BY <1>1, <1>4 DEF Inv, RowsInv
<1>9. Clean' => /\ owned' = (DOMAIN live)' /\ owned' \ handles' \subseteq {drop'.sid}
                /\ phase' = "cleanup" => todo' = handles'
                /\ phase' \in {"status", "shutdown", "finish"} => handles' = {}
  <2> SUFFICES ASSUME Clean
               PROVE  /\ owned = DOMAIN live /\ owned \ handles \subseteq {drop'.sid}
                      /\ todo = handles
    BY <1>1, <1>3, <1>4 DEF Clean
  <2>1. owned = DOMAIN live /\ owned \ handles \subseteq {None} /\ todo = handles
    BY <1>1 DEF Inv, LedgerInv, NoDrop
  <2>2. owned \subseteq Nat /\ None \notin Nat
    BY ObsAssumption DEF Inv, LedgerTypes
  <2> QED BY <2>1, <2>2
<1>10. ~registered'
  BY <1>1 DEF Inv, RegisteredInv
<1> QED BY <1>3, <1>5, <1>6, <1>7, <1>8, <1>9, <1>10, Assemble

LEMMA FinishCleanKeeps == ASSUME Inv, FinishClean PROVE Inv'
<1>1. /\ phase = "finish" /\ proc = "exited" /\ closed' = TRUE /\ owned' = {} /\ phase' = "done"
      /\ registered' = (error = None /\ closeError = None)
      /\ UNCHANGED <<workerVars, responses, reader, call, serial, handles,
                     builderVars, drop, todo, error, closeError>>
  BY DEF FinishClean
<1>2. call = None /\ drop = NoDrop
  BY <1>1, WaitFacts DEF Inv, DropInv
<1> USE DEF builderVars
<1>3. RpcTypes' /\ ReaderInv'
  BY <1>1 DEF Inv, RpcTypes, ReaderInv, Alive, workerVars
<1>4. FlightInv' /\ LedgerInv' /\ CallInv'
  BY <1>1, <1>2 DEF FlightInv, Usable, LedgerInv, Clean, CallInv
<1>5. LedgerTypes' /\ BuilderTypes'
  BY <1>1 DEF Inv, LedgerTypes, BuilderTypes, Phases
<1>6. DropInv' /\ PhaseInv' /\ RunInv'
  BY <1>1, <1>2 DEF DropInv, PhaseInv, RunInv, Running, Clean, NoDrop
<1>7. RowsInv'
  BY <1>1 DEF Inv, RowsInv
<1>8. RegisteredInv'
  <2> SUFFICES ASSUME Clean PROVE DOMAIN live = {} /\ handles = {} /\ error = None
    BY <1>1 DEF RegisteredInv, Clean, workerVars
  <2>1. owned = DOMAIN live /\ owned \ handles \subseteq {None} /\ handles = {}
    BY <1>1, <1>2 DEF Inv, LedgerInv, NoDrop
  <2>2. owned \subseteq Nat /\ None \notin Nat
    BY ObsAssumption DEF Inv, LedgerTypes
  <2> QED BY <2>1, <2>2 DEF Clean
<1> QED BY <1>3, <1>4, <1>5, <1>6, <1>7, <1>8 DEF Inv

LEMMA NextInv == Inv /\ [Next]_vars => Inv'
<1> SUFFICES ASSUME Inv, [Next]_vars PROVE Inv'
  OBVIOUS
<1>1. CASE UNCHANGED vars
  <2>1. UNCHANGED rpcVars /\ UNCHANGED sessionVars
    BY <1>1 DEF vars
  <2>2. RpcTypes' /\ ReaderInv' /\ FlightInv'
    BY <2>1, RpcSame DEF Usable, rpcVars, transportVars, sessionVars, outcomeVars
  <2>3. LedgerInv' /\ RegisteredInv'
    <3>1. \A l \in GoodLines : Coming(l)' => Coming(l)
      BY <2>1 DEF Coming, rpcVars, workerVars, transportVars
    <3>2. LedgerInv'
      BY <2>1, <3>1, LedgerSame DEF rpcVars, workerVars
    <3> QED BY <2>1, <3>2 DEF Inv, RegisteredInv, rpcVars, workerVars, sessionVars, ledgerVars, outcomeVars
  <2> QED BY <2>1, <2>2, <2>3, SessionSame DEF rpcVars, transportVars
<1>2. CASE CallerNext
  BY <1>2, CallKeeps, CallRaisesKeeps, RecvRefusedKeeps, RecvLoadKeeps, RecvInitKeeps,
     RecvApplyKeeps, RecvDiscardKeeps, RecvStatusKeeps, RecvShutdownKeeps, SyntacticSinkKeeps,
     NextPhaseKeeps, ReleaseDuplicateKeeps, BuildResultKeeps, CleanUpKeeps, FinishCleanKeeps,
     FinishRaisesKeeps
  DEF CallerNext
<1> QED BY <1>1, <1>2, CallFailsKeeps, InterruptKeeps, WallExceededKeeps, EnvNextKeeps DEF Next

\* The invariant holds in every reachable state.
THEOREM Invariance == Spec => []Inv
BY InitInv, NextInv, PTL DEF Spec

----------------------------------------------------------------------------
(* The properties. *)

\* The variables of the worker, the transport, the adapter and the builder keep
\* their types, whatever the worker answers and whenever it dies.
THEOREM TypeCorrect == Spec => []TypeOK
<1>1. Inv => TypeOK
  <2> SUFFICES ASSUME Inv PROVE TypeOK
    OBVIOUS
  <2>1. \A s \in Seq(GoodLines) : s \in Seq(Lines)
    BY SeqMonotonic DEF GoodLines
  <2> QED BY <2>1 DEF Inv, RpcTypes, LedgerTypes, BuilderTypes, TypeOK
<1> QED BY <1>1, Invariance, PTL

\* What is left of the queue without the end marker.
LEMMA UnreadFacts ==
    ASSUME NEW e \in {<<>>, <<EOF>>}
    PROVE  /\ responses = e => Unread = <<>>
           /\ \A l \in GoodLines : l.res # "eof" /\ responses = <<l>> \o e => Unread = <<l>>
<1>1. ASSUME responses = <<>> PROVE Unread = <<>>
  BY <1>1 DEF Unread
<1>2. ASSUME responses = <<EOF>> PROVE Unread = <<>>
  BY <1>2, EofFacts DEF Unread
<1>3. ASSUME NEW l \in GoodLines, l.res # "eof", responses = <<l>> \o <<>> PROVE Unread = <<l>>
  BY <1>3 DEF Unread
<1>4. ASSUME NEW l \in GoodLines, l.res # "eof", responses = <<l>> \o <<EOF>> PROVE Unread = <<l>>
  <2>1. responses \in Seq(GoodLines) /\ Len(responses) = 2 /\ responses[1] = l /\ responses[2] = EOF
    <3>1. <<l>> \in Seq(GoodLines) /\ <<EOF>> \in Seq(GoodLines) /\ Len(<<l>>) = 1 /\ Len(<<EOF>>) = 1
      BY EofFacts
    <3>2. /\ <<l>> \o <<EOF>> \in Seq(GoodLines) /\ Len(<<l>> \o <<EOF>>) = 1 + 1
          /\ \A i \in 1 .. 1 + 1 : (<<l>> \o <<EOF>>)[i] = IF i <= 1 THEN <<l>>[i] ELSE <<EOF>>[i - 1]
      BY <3>1, ConcatProperties
    <3> QED BY <1>4, <3>2
  <2>2. Unread = SubSeq(responses, 1, 1)
    <3>1. responses # <<>>
      BY <2>1, EmptySeq
    <3>2. responses[Len(responses)].res = "eof" /\ Len(responses) - 1 = 1
      BY <2>1, EofFacts
    <3> QED BY <3>1, <3>2 DEF Unread
  <2> DEFINE s == SubSeq(responses, 1, 1)
             t == <<l>>
  <2>3. s \in Seq(GoodLines) /\ Len(s) = 1 /\ s[1] = l
    BY <2>1, SubSeqProperties
  <2>4. t \in Seq(GoodLines) /\ Len(t) = 1 /\ t[1] = l
    OBVIOUS
  <2> HIDE DEF s, t
  <2>5. s = t
    BY <2>3, <2>4, SeqEqual
  <2> QED BY <2>2, <2>5 DEF s, t
<1> QED BY <1>1, <1>2, <1>3, <1>4

\* A late line is never taken for the next response: at most one line is under
\* way while the transport is open, and it answers the request waited for.
THEOREM LateLines == Spec => []LateLineNeverMistaken
<1>1. Inv => LateLineNeverMistaken
  <2> SUFFICES ASSUME Inv, Usable
               PROVE  /\ Len(InFlight) <= (IF call = None THEN 0 ELSE 1)
                      /\ \A i \in DOMAIN InFlight : InFlight[i].rid = call.rid /\ InFlight[i].op = call.op
    BY DEF LateLineNeverMistaken, Usable
  <2>1. \/ InFlight = <<>>
        \/ call # None /\ InFlight = <<call>>
        \/ call # None /\ \E l \in GoodLines : Answers(l) /\ InFlight = <<l>>
    <3>1. PICK e \in {<<>>, <<EOF>>} :
          \/ Stage(<<>>, <<>>, <<>>, e)
          \/ call # None /\ Stage(<<call>>, <<>>, <<>>, e)
          \/ call # None /\ \E l \in GoodLines :
                 /\ Answers(l) /\ l.res # "eof"
                 /\ \/ Stage(<<>>, <<l>>, <<>>, e) \/ Stage(<<>>, <<>>, <<l>>, e)
                    \/ Stage(<<>>, <<>>, <<>>, <<l>> \o e)
      BY DEF Inv, FlightInv
    <3>2. CASE Stage(<<>>, <<>>, <<>>, e)
      <4>1. inbox = <<>> /\ reply = <<>> /\ wire = <<>> /\ Unread = <<>>
        BY <3>2, UnreadFacts DEF Stage
      <4> QED BY <4>1 DEF InFlight
    <3>3. CASE call # None /\ Stage(<<call>>, <<>>, <<>>, e)
      <4>1. inbox = <<call>> /\ reply = <<>> /\ wire = <<>> /\ Unread = <<>>
        BY <3>3, UnreadFacts DEF Stage
      <4> QED BY <3>3, <4>1 DEF InFlight
    <3>4. ASSUME call # None, NEW l \in GoodLines, Answers(l), l.res # "eof",
                 \/ Stage(<<>>, <<l>>, <<>>, e) \/ Stage(<<>>, <<>>, <<l>>, e)
                 \/ Stage(<<>>, <<>>, <<>>, <<l>> \o e)
          PROVE  InFlight = <<l>>
      <4>1. \/ inbox = <<>> /\ reply = <<l>> /\ wire = <<>> /\ Unread = <<>>
            \/ inbox = <<>> /\ reply = <<>> /\ wire = <<l>> /\ Unread = <<>>
            \/ inbox = <<>> /\ reply = <<>> /\ wire = <<>> /\ Unread = <<l>>
        BY <3>4, UnreadFacts DEF Stage
      <4>2. \A s \in Seq(GoodLines) : s \o <<>> = s /\ <<>> \o s = s
        BY ConcatEmptySeq
      <4>3. <<>> \in Seq(GoodLines) /\ <<l>> \in Seq(GoodLines)
        OBVIOUS
      <4> QED BY <4>1, <4>2, <4>3 DEF InFlight
    <3> QED BY <3>1, <3>2, <3>3, <3>4
  <2>2. CASE InFlight = <<>>
    BY <2>2
  <2>3. ASSUME call # None, NEW l, l.rid = call.rid, l.op = call.op, InFlight = <<l>>
        PROVE  /\ Len(InFlight) <= (IF call = None THEN 0 ELSE 1)
               /\ \A i \in DOMAIN InFlight : InFlight[i].rid = call.rid /\ InFlight[i].op = call.op
    <3>1. Len(InFlight) = 1 /\ \A i \in DOMAIN InFlight : InFlight[i] = l
      BY <2>3
    <3> QED BY <2>3, <3>1
  <2> QED BY <2>1, <2>2, <2>3 DEF Answers
<1> QED BY <1>1, Invariance, PTL

\* The worker's table, the adapter's ids and the builder's handles are one set
\* between the requests of a run that has met no error.
THEOREM ThreeLedgers == Spec => []LedgersAgree
<1>1. Inv => LedgersAgree
  BY DEF Inv, LedgersAgree, LedgerInv, Clean, PhaseInv, RunInv, LedgerTypes, Phases, Running
<1> QED BY <1>1, Invariance, PTL

\* A result is registered only for a run that is complete and clean.
THEOREM Registered == Spec => []RegisteredMeansClean
<1>1. Inv => RegisteredMeansClean
  <2> SUFFICES ASSUME Inv, registered PROVE RegisteredMeansClean
    BY DEF RegisteredMeansClean
  <2>1. /\ phase = "done" /\ proc = "exited" /\ error = None
        /\ DOMAIN live = {} /\ handles = {} /\ owned = {}
    BY DEF Inv, RegisteredInv
  <2>2. DOMAIN rows = (DOMAIN reps) \X Actions
    BY <2>1 DEF Inv, RowsInv
  <2>3. ASSUME NEW p \in DOMAIN rows, rows[p] \notin {SinkRow, ClosedRow}
        PROVE  Index[rows[p][2]] \in DOMAIN reps
    <3>1. PICK o \in Obs : rows[p] = OpenRow(o) /\ Index[o] \in DOMAIN reps
      BY <2>3 DEF Inv, RowsInv, Grounded
    <3>2. rows[p][2] = o
      BY <3>1 DEF OpenRow
    <3> QED BY <3>1, <3>2
  <2> QED BY <2>1, <2>2, <2>3 DEF RegisteredMeansClean
<1> QED BY <1>1, Invariance, PTL

\* A verdict on the mathematics is reached only over a usable transport; a
\* verdict on the execution, before the result is built, only over a broken one
\* or for an answer to the waiting request that the worker gave without an error.
THEOREM Verdicts == Spec => VerdictMatchesCause
<1> DEFINE Step == error = None /\ phase \in Running =>
          /\ error' \in {"domain", "normalization"} => ~closed'
          /\ error' = "execution" /\ phase # "result" => closed' \/ Answered
<1>1. Inv /\ [Next]_vars => [Step]_vars
  <2> SUFFICES ASSUME Inv, Next, error = None, phase \in Running,
                      error' # error
               PROVE  Step
    BY NoneIsNoError DEF Errors
  <2>1. ~closed
    BY RunningIsClean
  <2>2. ASSUME NEW c, LeaveRun(c, handles) \/ LeaveRun(c, handles'), closed' = closed,
               c # "execution" \/ Answered
        PROVE  Step
    BY <2>1, <2>2 DEF LeaveRun
  <2>3. ASSUME NEW c, NEW stop \in BOOLEAN, RaiseInTransport(c, stop),
               (stop /\ c \in {"resource", "execution"}) \/ (~stop /\ c # "execution")
        PROVE  Step
    <3>1. error' = c
      BY <2>3 DEF RaiseInTransport, Raised, LeaveRun, SkipHandle, GiveUp, Running
    <3>2. CASE stop
      <4>1. closed'
        BY <2>3, <3>2 DEF RaiseInTransport, ClosesTransport, StopLocked
      <4> QED BY <2>3, <3>1, <3>2, <4>1
    <3>3. CASE ~stop
      <4>1. closed' = closed
        BY <2>3, <3>3 DEF RaiseInTransport, ClosesTransport, Running
      <4> QED BY <2>1, <2>3, <3>1, <3>3, <4>1
    <3> QED BY <3>2, <3>3
  <2>4. CASE CallRaises
    BY <2>1, <2>3, <2>4, ErrorClassFacts DEF CallRaises
  <2>5. CASE CallFails
    BY <2>3, <2>5, ErrorClassFacts DEF CallFails
  <2>6. CASE RecvRefused
    BY <2>3, <2>6 DEF RecvRefused, Refused, RefusedClasses
  <2>a. ASSUME NEW r, Receive(r), Answers(r), r.res # "error" PROVE Answered
    BY <2>a DEF Receive, Answered
  <2>7. CASE RecvInit
    BY <2>2, <2>7, <2>a, AdmitErrorFacts DEF RecvInit, Returned, outcomeVars
  <2>8. CASE RecvApply
    BY <2>2, <2>8, <2>a, AdmitErrorFacts
    DEF RecvApply, Returned, outcomeVars, ApplyUnbound, ApplyRefused, ApplyCensored, ApplyClosed, ApplyOpen,
        ApplyProbe, ApplySink, RefusedClasses
  <2>9. CASE RecvDiscard
    BY <2>2, <2>9, <2>a DEF RecvDiscard, Returned, outcomeVars, Raised, Running
  <2>10. CASE RecvStatus
    BY <2>10 DEF RecvStatus, Inv, CallInv, Running
  <2>11. CASE SyntacticSink
    BY <2>2, <2>11 DEF SyntacticSink, ApplySink, outcomeVars, rpcVars, transportVars
  <2>12. CASE BuildResult
    BY <2>1, <2>12 DEF BuildResult, outcomeVars, rpcVars, transportVars, LeaveRun
  <2>13. CASE Interrupt
    BY <2>2, <2>13 DEF Interrupt, transportVars
  <2>14. CASE WallExceeded
    BY <2>2, <2>14 DEF WallExceeded, rpcVars, transportVars
  <2>15. CASE FinishClean \/ FinishRaises
    BY <2>15 DEF FinishClean, FinishRaises, Running
  <2>16. CASE EnvNext \/ CallLoad \/ CallInit \/ CallApply \/ CallDiscard \/ CallStatus \/ CallShutdown
    BY <2>16 DEF EnvNext, CallLoad, CallInit, CallApply, CallDiscard, CallStatus, CallShutdown,
                 sessionVars, outcomeVars
  <2>17. CASE RecvLoad \/ RecvShutdown \/ NextPhase \/ ReleaseDuplicate \/ CleanUp
    BY <2>17 DEF RecvLoad, RecvShutdown, NextPhase, ReleaseDuplicate, CleanUp, outcomeVars
  <2> QED BY <2>4, <2>5, <2>6, <2>7, <2>8, <2>9, <2>10, <2>11, <2>12, <2>13, <2>14, <2>15, <2>16, <2>17
     DEF Next, CallerNext
<1> QED BY <1>1, Invariance, PTL DEF VerdictMatchesCause, Spec
=============================================================================
