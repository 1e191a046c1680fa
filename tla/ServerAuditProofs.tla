------------------------ MODULE ServerAuditProofs ------------------------
(***************************************************************************)
(* Proofs about ServerAudit, for every plan and every bound.               *)
(*                                                                          *)
(* Replies are matched with requests by nothing but their place, so the     *)
(* invariant says where the one exchange stands: until a request has timed   *)
(* out there is one request or one reply under way, never both, and the      *)
(* reply answers the request that waits.  After a timeout nothing of this    *)
(* is true; without the stateful mode nothing is asked any more then.        *)
(* The files have an invariant of their own: which pairs have a row at       *)
(* every place of the loop, and that no pair has two.                        *)
(***************************************************************************)
EXTENDS ServerAudit, SequenceTheorems, FiniteSetTheorems, TLAPS

States == [task : Tasks, path : Seq(Acts)]
Lines == Replies \cup {Noise}
Rows == [item : Items, verdict : Audits, after : BOOLEAN]
Files == [rows : Seq(Rows), torn : BOOLEAN]

Places ==
    {"down", "load", "next", "act", "wait", "apply", "apply_at", "raise", "batch",
     "flush_audits", "flush_responses", "final_audits", "final_responses", "returned"}

LoopTypes ==
    /\ config \in [mode : {"server", "batch"}, stateful : BOOLEAN, fallback : BOOLEAN]
    /\ config.mode = "batch" => ~config.stateful
    /\ pc \in Places /\ item \in 0 .. Len(Plan) /\ done \in SUBSET Items
    /\ backend \in {"file", "jsonl"} /\ rpc \in BOOLEAN
    /\ base \in Nat \cup {None} /\ branch \in Nat \cup {None}

TransportTypes ==
    /\ wait \in Requests \cup {None} /\ live \in {"none", "blocked", "between"}
    /\ stale \in Nat /\ turn \in {"none", "live", "stale"}
    /\ pipe \in Seq(Lines) /\ buf \in Seq(Lines)
    /\ inbox \in Seq(Requests) /\ states \in Seq(States \cup {None}) /\ alive \in BOOLEAN

FileTypes ==
    /\ audits \in Seq(Rows) /\ responses \in Seq(Rows)
    /\ disk \in [audits : Files \cup {None}, responses : Files \cup {None}]
    /\ late \in BOOLEAN /\ cutShort \in BOOLEAN /\ resumed \in BOOLEAN

----------------------------------------------------------------------------
(* The exchange.                                                           *)

\* Outside these places, and in the file mode, the server is not there.
InLoop == {"next", "act", "wait", "apply", "apply_at", "raise", "flush_audits",
           "flush_responses"}

Quiet(q) == \A k \in DOMAIN q : q[k] = Noise
Single(q) == \A j, k \in DOMAIN q : q[j] # Noise /\ q[k] # Noise => j = k

\* State id sid is of the first state of the task of request q.
RootAt(st, sid, q) == sid \in DOMAIN st /\ st[sid] = Root(q)

Answer(st, line, q) ==
    \/ line = Refusal
    \/ /\ q.op \in {"register", "branch"} => RootAt(st, line.sid, q) /\ line.audit = None
       /\ q.op \in {"apply", "apply_at"} =>
             line.audit = [task |-> q.task, path |-> <<>>, act |-> q.act]

AllAnswer(st, lines, q) == \A k \in DOMAIN lines : lines[k] = Noise \/ Answer(st, lines[k], q)

\* At most one reply is under way, and it answers q.
OneReply(st, p, b, q) ==
    /\ (Quiet(p) /\ Single(b)) \/ (Quiet(b) /\ Single(p))
    /\ AllAnswer(st, p, q) /\ AllAnswer(st, b, q)

\* Where the one exchange stands.
ExchangeInv ==
    /\ (wait = None) = (live = "none")
    /\ ~alive => inbox = <<>>
    /\ turn = "stale" => stale > 0
    /\ ~late =>
        /\ stale = 0 /\ turn # "stale"
        /\ alive /\ wait = None => inbox = <<>> /\ Quiet(buf) /\ Quiet(pipe)
        /\ alive /\ wait # None =>
              \/ inbox = <<wait>> /\ Quiet(buf) /\ Quiet(pipe)
              \/ inbox = <<>> /\ OneReply(states, pipe, buf, wait)
        /\ live = "blocked" /\ ~alive => OneReply(states, pipe, buf, wait)

\* What the loop asks, and of which state.
RequestInv ==
    /\ (wait # None) = (pc = "wait")
    /\ pc \in {"act", "wait", "apply", "apply_at"} => item \in Items
    /\ wait # None =>
        /\ wait.task = Plan[item].task
        /\ wait.op # "register" => wait.act = Plan[item].act
        /\ ~late /\ wait.op \in {"branch", "apply_at"} => RootAt(states, wait.sid, wait)
    /\ ~late /\ pc = "apply_at" => RootAt(states, branch, Plan[item])
    /\ pc \in InLoop /\ base # None /\ (wait # None => wait.op # "register") =>
        item \in Items /\ (~late => RootAt(states, base, Plan[item]))

\* Without the stateful mode a timeout is the end of the server's use.
ModeInv ==
    /\ ~config.stateful => base = None /\ ~rpc
    /\ ~config.stateful /\ wait # None => wait.op = "apply"
    /\ ~config.stateful /\ late => backend = "file" \/ pc = "raise"
    /\ wait # None => backend = "jsonl"
    /\ pc = "apply_at" => backend = "jsonl" /\ config.stateful
    /\ pc \notin InLoop \/ config.mode = "batch" =>
          /\ ~late /\ ~alive /\ wait = None /\ turn = "none" /\ stale = 0
          /\ pipe = <<>> /\ buf = <<>> /\ inbox = <<>> /\ states = <<>>

RowGood(c, r) == r.verdict = Own(r.item) \/ (c.stateful /\ r.after)
VerdictInv ==
    /\ \A k \in DOMAIN responses : RowGood(config, responses[k])
    /\ disk.responses # None =>
          \A k \in DOMAIN disk.responses.rows : RowGood(config, disk.responses.rows[k])

----------------------------------------------------------------------------
(* The files.                                                              *)

ItemsOf(rows) == {rows[k].item : k \in DOMAIN rows}
Distinct(rows) == \A j, k \in DOMAIN rows : rows[j].item = rows[k].item => j = k

\* Which pairs have a row.
ProgressInv ==
    /\ Distinct(responses)
    /\ disk.responses # None => Distinct(disk.responses.rows)
    /\ pc = "load" => item = 0 /\ ItemsOf(responses) = done
    /\ pc \notin {"down", "returned"} => done \subseteq ItemsOf(responses)
    /\ pc \in {"load", "next", "act", "wait", "apply", "apply_at", "raise"} => config.mode = "server"
    /\ pc = "batch" => config.mode = "batch"
    /\ pc \in {"next", "flush_audits", "flush_responses"} /\ config.mode = "server" =>
          ItemsOf(responses) = done \cup (1 .. item)
    /\ pc \in {"act", "wait", "apply", "apply_at"} =>
          item \in Items /\ ItemsOf(responses) = done \cup (1 .. (item - 1))
    /\ pc \in {"apply", "apply_at"} => item \notin done
    /\ pc = "wait" => wait.op = "register" \/ item \notin done
    /\ pc \in {"final_audits", "final_responses"} => ItemsOf(responses) = Items

\* The two files have the same rows, unless a flush was cut short.
AgreeInv ==
    /\ pc \notin {"down", "returned"} => resumed \/ audits = responses
    /\ pc \notin {"flush_responses", "final_responses"} => cutShort \/ disk.audits = disk.responses
    /\ pc \in {"flush_responses", "final_responses"} => disk.audits = File(audits, FALSE)

\* Wrapped up by ReturnsComplete.
Inv ==
    /\ LoopTypes /\ TransportTypes /\ FileTypes
    /\ ExchangeInv /\ RequestInv /\ ModeInv /\ VerdictInv
    /\ ProgressInv /\ AgreeInv /\ ReturnsComplete

----------------------------------------------------------------------------
(* Facts about lines.                                                      *)

\* What is left of a sequence without its first member.
LEMMA TailFacts ==
    ASSUME NEW S, NEW q \in Seq(S), q # <<>>
    PROVE  /\ Tail(q) \in Seq(S) /\ Head(q) \in S /\ Head(q) = q[1] /\ 1 \in DOMAIN q
           /\ \A k \in DOMAIN Tail(q) : k + 1 \in DOMAIN q /\ Tail(q)[k] = q[k + 1] /\ k + 1 # 1
PROOF
<1>1. /\ Tail(q) \in Seq(S) /\ Head(q) \in S /\ Head(q) = q[1] /\ Len(q) \in Nat \ {0}
      /\ Len(Tail(q)) = Len(q) - 1 /\ \A k \in 1 .. Len(Tail(q)) : Tail(q)[k] = q[k + 1]
    BY HeadTailProperties, EmptySeq, LenProperties
<1>2. DOMAIN q = 1 .. Len(q) /\ DOMAIN Tail(q) = 1 .. Len(Tail(q))
    BY <1>1, LenProperties
<1> QED BY <1>1, <1>2

\* What a sequence is with one more member.
LEMMA AppendFacts ==
    ASSUME NEW S, NEW q \in Seq(S), NEW x \in S
    PROVE  /\ Append(q, x) \in Seq(S) /\ Len(Append(q, x)) = Len(q) + 1
           /\ DOMAIN q = 1 .. Len(q) /\ Len(q) \in Nat
           /\ DOMAIN Append(q, x) = 1 .. (Len(q) + 1)
           /\ \A k \in DOMAIN q : Append(q, x)[k] = q[k]
           /\ Append(q, x)[Len(q) + 1] = x
PROOF
    BY AppendProperties, LenProperties

\* A line less leaves lines as quiet as they were, and quiet if it was the reply.
LEMMA TailLines ==
    ASSUME NEW q \in Seq(Lines), q # <<>>, NEW st, NEW r
    PROVE  /\ Quiet(q) => Quiet(Tail(q)) /\ Head(q) = Noise
           /\ Single(q) => Single(Tail(q))
           /\ Single(q) /\ Head(q) # Noise => Quiet(Tail(q))
           /\ AllAnswer(st, q, r) => /\ AllAnswer(st, Tail(q), r)
                                     /\ Head(q) = Noise \/ Answer(st, Head(q), r)
PROOF
<1>1. /\ Head(q) = q[1] /\ 1 \in DOMAIN q /\ DOMAIN Tail(q) = 1 .. Len(Tail(q))
      /\ \A k \in DOMAIN Tail(q) : k + 1 \in DOMAIN q /\ Tail(q)[k] = q[k + 1] /\ k + 1 # 1
    BY TailFacts, LenProperties
<1>1a. \A k \in DOMAIN Tail(q) : k \in Int
    BY <1>1
<1>2. Quiet(q) => Quiet(Tail(q)) /\ Head(q) = Noise
    BY <1>1 DEF Quiet
<1>3. ASSUME Single(q) PROVE Single(Tail(q))
  <2>1. SUFFICES ASSUME NEW j \in DOMAIN Tail(q), NEW k \in DOMAIN Tail(q),
                        Tail(q)[j] # Noise, Tail(q)[k] # Noise
                 PROVE  j = k
      BY DEF Single
  <2>2. j + 1 = k + 1
      BY <1>1, <1>3, <2>1 DEF Single
  <2> QED BY <2>2, <1>1a
<1>4. ASSUME Single(q), Head(q) # Noise PROVE Quiet(Tail(q))
    BY <1>1, <1>4 DEF Single, Quiet
<1>5. ASSUME AllAnswer(st, q, r)
      PROVE AllAnswer(st, Tail(q), r) /\ (Head(q) = Noise \/ Answer(st, Head(q), r))
    BY <1>1, <1>5 DEF AllAnswer
<1> QED BY <1>2, <1>3, <1>4, <1>5

\* A line more: noise changes nothing, a reply is the only one in quiet lines.
LEMMA MoreLines ==
    ASSUME NEW q \in Seq(Lines), NEW x \in Lines, NEW st, NEW r
    PROVE  /\ Quiet(q) /\ x = Noise => Quiet(Append(q, x))
           /\ Single(q) /\ x = Noise => Single(Append(q, x))
           /\ Quiet(q) => Single(Append(q, x)) /\ Single(q) /\ AllAnswer(st, q, r)
           /\ AllAnswer(st, q, r) /\ (x = Noise \/ Answer(st, x, r)) =>
                 AllAnswer(st, Append(q, x), r)
PROOF
<1> DEFINE t == Append(q, x)
           n == Len(q)
<1>1. /\ DOMAIN q = 1 .. n /\ n \in Nat /\ DOMAIN t = 1 .. (n + 1)
      /\ \A k \in DOMAIN q : t[k] = q[k]
      /\ t[n + 1] = x
    BY AppendFacts
<1> HIDE DEF t, n
<1>2. \A k \in DOMAIN t : k \in DOMAIN q \/ k = n + 1
    BY <1>1
<1>3. Quiet(q) /\ x = Noise => Quiet(t)
    BY <1>1, <1>2 DEF Quiet
<1>4. Single(q) /\ x = Noise => Single(t)
    BY <1>1, <1>2 DEF Single
<1>5. Quiet(q) => Single(t) /\ Single(q) /\ AllAnswer(st, q, r)
    BY <1>1, <1>2 DEF Single, Quiet, AllAnswer
<1>6. AllAnswer(st, q, r) /\ (x = Noise \/ Answer(st, x, r)) => AllAnswer(st, t, r)
    BY <1>1, <1>2 DEF AllAnswer
<1> QED BY <1>3, <1>4, <1>5, <1>6 DEF t

\* More states leave every answer one.
LEMMA MoreStates ==
    ASSUME NEW st \in Seq(States \cup {None}), NEW new \in Seq(States \cup {None}), NEW r,
           NEW q \in Seq(Lines), NEW sid
    PROVE  /\ st \o new \in Seq(States \cup {None})
           /\ RootAt(st, sid, r) => RootAt(st \o new, sid, r)
           /\ AllAnswer(st, q, r) => AllAnswer(st \o new, q, r)
PROOF
<1>1. /\ st \o new \in Seq(States \cup {None})
      /\ DOMAIN (st \o new) = 1 .. (Len(st) + Len(new))
      /\ Len(st) \in Nat /\ Len(new) \in Nat /\ DOMAIN st = 1 .. Len(st)
      /\ \A k \in 1 .. Len(st) : (st \o new)[k] = st[k]
    BY ConcatProperties, LenProperties
<1>2. \A s : RootAt(st, s, r) => RootAt(st \o new, s, r)
    BY <1>1 DEF RootAt
<1>3. \A line : Answer(st, line, r) => Answer(st \o new, line, r)
    BY <1>2 DEF Answer
<1> QED BY <1>1, <1>2, <1>3 DEF AllAnswer

----------------------------------------------------------------------------
(* The transport and the server.                                           *)

\* What the server stores and replies; it answers the request if the state
\* that the request names is the first one of its task.
LEMMA AnswersFacts ==
    ASSUME TransportTypes, NEW q \in Requests, NEW a \in Answers(q)
    PROVE  /\ a.reply \in Replies /\ a.new \in Seq(States \cup {None})
           /\ (q.op \in {"branch", "apply_at"} => RootAt(states, q.sid, q)) =>
                 Answer(states \o a.new, a.reply, q)
PROOF
<1> DEFINE All == States \cup {None}
<1>1. /\ q.op \in {"register", "apply", "branch", "apply_at"} /\ q.task \in Tasks /\ q.act \in Acts
      /\ states \in Seq(All) /\ Len(states) \in Nat
    BY LenProperties DEF Requests, TransportTypes
<1>2. Root(q) \in States /\ Root(q) = [task |-> q.task, path |-> <<>>]
    BY <1>1 DEF Root, States
<1>3. ASSUME NEW s \in States, a \in Stored(s)
      PROVE  /\ a.reply \in Replies /\ a.new \in Seq(All)
             /\ q.op \in {"register", "branch"} /\ s = Root(q) =>
                   Answer(states \o a.new, a.reply, q)
  <2>1. a.reply = [sid |-> Len(states) + 1, audit |-> None] /\ a.new = <<s>>
      BY <1>3 DEF Stored
  <2>2. a.reply \in Replies /\ a.new \in Seq(All)
      BY <1>1, <2>1, <1>3 DEF Replies
  <2>3. Len(<<s>>) = 1 /\ <<s>>[1] = s /\ <<s>> \in Seq(All)
      BY <1>3
  <2>4. Len(states) + 1 \in DOMAIN (states \o <<s>>) /\ (states \o <<s>>)[Len(states) + 1] = s
      BY <1>1, <2>3, ConcatProperties, LenProperties
  <2>5. s = Root(q) => RootAt(states \o a.new, a.reply.sid, q)
      BY <2>1, <2>4 DEF RootAt
  <2> QED BY <2>1, <2>2, <2>5 DEF Answer
<1>4. ASSUME NEW s \in States, NEW before \in Seq(All), a \in Applied(q, s, before)
      PROVE  /\ a.reply \in Replies /\ a.new \in Seq(All)
             /\ q.op \in {"apply", "apply_at"} /\ s = Root(q) =>
                   Answer(states \o a.new, a.reply, q)
  <2>1. PICK child \in {None, [s EXCEPT !.path = Append(@, q.act)]} :
            a = [reply |-> [sid |-> Len(states) + Len(before) + 1,
                            audit |-> [task |-> s.task, path |-> s.path, act |-> q.act]],
                 new |-> before \o <<child>>]
      BY <1>4 DEF Applied
  <2>2. s.task \in Tasks /\ s.path \in Seq(Acts) /\ s = [task |-> s.task, path |-> s.path]
      BY <1>4 DEF States
  <2>2a. [s EXCEPT !.path = Append(@, q.act)] = [task |-> s.task, path |-> Append(s.path, q.act)]
    <3> DEFINE longer == Append(s.path, q.act)
    <3> HIDE DEF longer
    <3>1. [s EXCEPT !.path = longer] = [task |-> s.task, path |-> longer]
        BY <2>2
    <3> QED BY <3>1 DEF longer
  <2>2b. Append(s.path, q.act) \in Seq(Acts)
      BY <1>1, <2>2, AppendFacts
  <2>3. child \in All
      BY <2>2, <2>2a, <2>2b DEF States
  <2>4. <<child>> \in Seq(All)
      BY <2>3
  <2>5. before \o <<child>> \in Seq(All) /\ Len(before) \in Nat
      BY <1>4, <2>4, ConcatProperties, LenProperties
  <2>6. [task |-> s.task, path |-> s.path, act |-> q.act] \in Audits
      BY <1>1, <2>2 DEF Audits
  <2>7. a.reply \in Replies /\ a.new \in Seq(All)
      BY <2>1, <2>5, <2>6, <1>1 DEF Replies
  <2>8. s = Root(q) => a.reply.audit = [task |-> q.task, path |-> <<>>, act |-> q.act]
      BY <2>1, <1>2
  <2> QED BY <2>7, <2>8 DEF Answer
<1>5. CASE q.op = "register"
  <2>1. a \in Stored(Root(q))
      BY <1>5 DEF Answers
  <2> QED BY <2>1, <1>3, <1>2, <1>5
<1>6. CASE q.op = "apply"
  <2>1. a \in Applied(q, Root(q), <<Root(q)>>)
      BY <1>6 DEF Answers
  <2>2. <<Root(q)>> \in Seq(All)
      BY <1>2
  <2> QED BY <2>1, <2>2, <1>4, <1>2, <1>6
<1>7. CASE q.op = "branch"
  <2>1. Known(q.sid) /\ a \in Stored(states[q.sid])
      BY <1>7 DEF Answers
  <2>2. states[q.sid] \in States
      BY <2>1, <1>1, ElementOfSeq, LenProperties DEF Known
  <2> QED BY <2>1, <2>2, <1>3, <1>7 DEF RootAt
<1>8. CASE q.op = "apply_at"
  <2>1. Known(q.sid) /\ a \in Applied(q, states[q.sid], <<>>)
      BY <1>8 DEF Answers
  <2>2. states[q.sid] \in States
      BY <2>1, <1>1, ElementOfSeq, LenProperties DEF Known
  <2>3. <<>> \in Seq(All)
      OBVIOUS
  <2> QED BY <2>1, <2>2, <2>3, <1>4, <1>8 DEF RootAt
<1> QED BY <1>1, <1>5, <1>6, <1>7, <1>8

LEMMA SingletonTail == \A x : Head(<<x>>) = x /\ Tail(<<x>>) = <<>>
PROOF
<1>1. TAKE x
<1>2. <<x>> \in Seq({x}) /\ <<x>> # <<>> /\ Len(<<x>>) = 1 /\ <<x>>[1] = x
    OBVIOUS
<1>3. Head(<<x>>) = x /\ Tail(<<x>>) \in Seq({x}) /\ Len(Tail(<<x>>)) = 0
    BY <1>2, HeadTailProperties
<1> QED BY <1>3, EmptySeq

LEMMA RefusalFacts == Refusal \in Replies /\ \A st, q : Answer(st, Refusal, q)
PROOF
    BY DEF Refusal, Replies, Answer

\* A step of the transport or the server leaves alone what the loop has.
LEMMA TransportStep ==
    ASSUME Inv, pc \in InLoop, config.mode # "batch", UNCHANGED <<loop, wait, files, late, cutShort, resumed>>,
           \A sid, q : RootAt(states, sid, q) => RootAt(states', sid, q),
           TransportTypes', ExchangeInv'
    PROVE  Inv'
PROOF
<1> USE DEF loop, files
<1>1. LoopTypes'
    BY DEF Inv, LoopTypes
<1>2. FileTypes'
    BY DEF Inv, FileTypes
<1>3. RequestInv'
    BY DEF Inv, RequestInv
<1>4. ModeInv'
    BY DEF Inv, ModeInv
<1>5. VerdictInv'
    BY DEF Inv, VerdictInv
<1>6. ProgressInv'
    BY DEF Inv, ProgressInv
<1>7. AgreeInv' /\ ReturnsComplete'
    BY DEF Inv, AgreeInv, ReturnsComplete
<1> QED BY <1>1, <1>2, <1>3, <1>4, <1>5, <1>6, <1>7 DEF Inv

\* The line a request's reader takes.
LEMMA TakeLineFacts ==
    ASSUME Inv, NEW line, TakeLine(line)
    PROVE  /\ pc \in InLoop /\ config.mode # "batch" /\ pc = "wait" /\ wait # None /\ line \in Lines
           /\ buf' \in Seq(Lines) /\ pipe' \in Seq(Lines)
           /\ turn' \in {"none", "live", "stale"} /\ (~late => turn' # "stale")
           /\ turn' = "stale" => stale > 0
           /\ Quiet(buf) /\ Quiet(pipe) => Quiet(buf') /\ Quiet(pipe') /\ line = Noise
           /\ OneReply(states, pipe, buf, wait) =>
                 /\ OneReply(states, pipe', buf', wait)
                 /\ line # Noise => Quiet(buf') /\ Quiet(pipe') /\ Answer(states, line, wait)
PROOF
<1>1. /\ pipe \in Seq(Lines) /\ buf \in Seq(Lines) /\ turn \in {"none", "live", "stale"}
      /\ stale \in Nat /\ (~late => stale = 0 /\ turn # "stale") /\ (turn = "stale" => stale > 0)
      /\ (wait = None) = (live = "none") /\ (wait # None) = (pc = "wait")
    BY DEF Inv, TransportTypes, ExchangeInv, RequestInv
<1>2. pc = "wait" /\ pc \in InLoop /\ wait # None /\ config.mode # "batch"
    BY <1>1 DEF TakeLine, InLoop, Inv, ModeInv
<1>3. Quiet(<<>>) /\ Single(<<>>) /\ AllAnswer(states, <<>>, wait) /\ <<>> \in Seq(Lines)
    BY DEF Quiet, Single, AllAnswer
<1>4. CASE buf # <<>> /\ line = Head(buf) /\ buf' = Tail(buf) /\ UNCHANGED <<pipe, turn>>
  <2>1. line \in Lines /\ buf' \in Seq(Lines)
      BY <1>1, <1>4, TailFacts
  <2>2. /\ Quiet(buf) => Quiet(buf') /\ line = Noise
        /\ Single(buf) => Single(buf')
        /\ Single(buf) /\ line # Noise => Quiet(buf')
        /\ AllAnswer(states, buf, wait) => /\ AllAnswer(states, buf', wait)
                                           /\ line = Noise \/ Answer(states, line, wait)
      BY <1>1, <1>4, TailLines
  <2>3. pipe' = pipe /\ turn' = turn
      BY <1>4
  <2> QED BY <1>1, <1>2, <2>1, <2>2, <2>3 DEF OneReply
<1>5. CASE pipe # <<>> /\ line = Head(pipe) /\ buf' = Tail(pipe) /\ pipe' = <<>>
           /\ PassTurn(stale, FALSE)
  <2>1. line \in Lines /\ buf' \in Seq(Lines)
      BY <1>1, <1>5, TailFacts
  <2>2. /\ Quiet(pipe) => Quiet(buf') /\ line = Noise
        /\ Single(pipe) => Single(buf')
        /\ Single(pipe) /\ line # Noise => Quiet(buf')
        /\ AllAnswer(states, pipe, wait) => /\ AllAnswer(states, buf', wait)
                                            /\ line = Noise \/ Answer(states, line, wait)
      BY <1>1, <1>5, TailLines
  <2>3. /\ turn' \in {"none", "live", "stale"} /\ (~late => turn' # "stale")
        /\ turn' = "stale" => stale > 0
      BY <1>1, <1>5 DEF PassTurn
  <2>4. pipe' = <<>>
      BY <1>5
  <2>5. Quiet(pipe') /\ Single(pipe') /\ AllAnswer(states, pipe', wait) /\ pipe' \in Seq(Lines)
      BY <1>3, <2>4
  <2>6. OneReply(states, pipe, buf, wait) =>
                 /\ OneReply(states, pipe', buf', wait)
                 /\ line # Noise => Quiet(buf') /\ Quiet(pipe') /\ Answer(states, line, wait)
      BY <2>2, <2>5 DEF OneReply, Quiet, Single
  <2> QED BY <1>2, <2>1, <2>2, <2>3, <2>5, <2>6
<1> QED BY <1>4, <1>5 DEF TakeLine

LEMMA StaleReadKeeps == Inv /\ StaleRead => Inv'
PROOF
<1> SUFFICES ASSUME Inv, StaleRead PROVE Inv'
    OBVIOUS
<1>1. late /\ pc \in InLoop /\ config.mode # "batch" /\ stale \in Nat /\ stale > 0
    BY DEF Inv, StaleRead, ExchangeInv, ModeInv, TransportTypes
<1>2. buf' \in Seq(Lines) /\ pipe' \in Seq(Lines)
    BY TailFacts DEF StaleRead, Inv, TransportTypes
<1>3. stale' \in Nat /\ turn' \in {"none", "live", "stale"} /\ (turn' = "stale" => stale' > 0)
    BY <1>1 DEF StaleRead, PassTurn
<1>4. UNCHANGED <<loop, wait, live, inbox, states, alive, files, late, cutShort, resumed>>
    BY DEF StaleRead, server, counters
<1>5. TransportTypes'
    BY <1>2, <1>3, <1>4 DEF Inv, TransportTypes
<1>6. ExchangeInv'
    BY <1>1, <1>3, <1>4 DEF Inv, ExchangeInv
<1> QED BY <1>1, <1>4, <1>5, <1>6, TransportStep

LEMMA SkipNoiseKeeps == Inv /\ SkipNoise => Inv'
PROOF
<1> SUFFICES ASSUME Inv, SkipNoise PROVE Inv'
    OBVIOUS
<1>1. TakeLine(Noise)
    BY DEF SkipNoise
<1>2. UNCHANGED <<loop, wait, stale, inbox, states, alive, files, late, cutShort, resumed>>
      /\ live' = "between"
    BY DEF SkipNoise, server, counters
<1>3. TransportTypes'
    BY <1>1, <1>2, TakeLineFacts DEF Inv, TransportTypes
<1>4. ExchangeInv'
    BY <1>1, <1>2, TakeLineFacts DEF Inv, ExchangeInv
<1> QED BY <1>1, <1>2, <1>3, <1>4, TakeLineFacts, TransportStep

LEMMA ReadOnKeeps == Inv /\ ReadOn => Inv'
PROOF
<1> SUFFICES ASSUME Inv, ReadOn PROVE Inv'
    OBVIOUS
<1>1. /\ UNCHANGED <<loop, wait, stale, pipe, buf, inbox, states, alive, files, late, cutShort,
                     resumed>>
      /\ alive /\ live = "between" /\ live' = "blocked"
      /\ turn' = IF turn = "none" THEN "live" ELSE turn
    BY DEF ReadOn, server, counters
<1>2. pc \in InLoop /\ config.mode # "batch"
    BY <1>1 DEF Inv, ModeInv
<1>3. TransportTypes'
    BY <1>1 DEF Inv, TransportTypes
<1>4. ExchangeInv'
    BY <1>1 DEF Inv, ExchangeInv
<1> QED BY <1>1, <1>2, <1>3, <1>4, TransportStep

LEMMA PrintNoiseKeeps == Inv /\ PrintNoise => Inv'
PROOF
<1> SUFFICES ASSUME Inv, PrintNoise PROVE Inv'
    OBVIOUS
<1>1. /\ UNCHANGED <<loop, wait, live, stale, turn, buf, inbox, states, alive, files, late,
                     cutShort, resumed>>
      /\ alive /\ pipe' = Append(pipe, Noise)
    BY DEF PrintNoise, server
<1>2. pc \in InLoop /\ config.mode # "batch"
    BY <1>1 DEF Inv, ModeInv
<1>3. pipe \in Seq(Lines) /\ Noise \in Lines
    BY DEF Inv, TransportTypes, Lines
<1>4. pipe' \in Seq(Lines)
    BY <1>1, <1>3, AppendFacts
<1>5. /\ Quiet(pipe) => Quiet(pipe')
      /\ Single(pipe) => Single(pipe')
      /\ AllAnswer(states, pipe, wait) => AllAnswer(states, pipe', wait)
    BY <1>1, <1>3, MoreLines
<1>6. TransportTypes'
    BY <1>1, <1>4 DEF Inv, TransportTypes
<1>7. ExchangeInv'
    BY <1>1, <1>5 DEF Inv, ExchangeInv, OneReply
<1> QED BY <1>1, <1>2, <1>6, <1>7, TransportStep

LEMMA ServerDiesKeeps == Inv /\ ServerDies => Inv'
PROOF
<1> SUFFICES ASSUME Inv, ServerDies PROVE Inv'
    OBVIOUS
<1>1. /\ UNCHANGED <<loop, wait, live, stale, turn, pipe, buf, states, files, late, cutShort,
                     resumed>>
      /\ alive /\ alive' = FALSE /\ inbox' = <<>>
    BY DEF ServerDies, transport, counters
<1>2. pc \in InLoop /\ config.mode # "batch"
    BY <1>1 DEF Inv, ModeInv
<1>2a. <<>> \in Seq(Requests)
    OBVIOUS
<1>3. TransportTypes'
    BY <1>1, <1>2a DEF Inv, TransportTypes
<1>4. Quiet(pipe) /\ Quiet(buf) => OneReply(states, pipe, buf, wait)
    BY DEF Quiet, OneReply, Single, AllAnswer
<1>5. ExchangeInv'
    BY <1>1, <1>4 DEF Inv, ExchangeInv
<1> QED BY <1>1, <1>2, <1>3, <1>5, TransportStep

LEMMA HandleKeeps == Inv /\ Handle => Inv'
PROOF
<1> SUFFICES ASSUME Inv, Handle PROVE Inv'
    OBVIOUS
<1>1. /\ UNCHANGED <<loop, wait, live, stale, turn, buf, alive, files, late, cutShort, resumed>>
      /\ alive /\ inbox # <<>> /\ inbox' = Tail(inbox)
    BY DEF Handle
<1>2. pc \in InLoop /\ config.mode # "batch"
    BY <1>1 DEF Inv, ModeInv
<1> DEFINE q == Head(inbox)
<1>3. q \in Requests /\ inbox' \in Seq(Requests) /\ pipe \in Seq(Lines) /\ buf \in Seq(Lines)
      /\ states \in Seq(States \cup {None})
    BY <1>1, TailFacts DEF Inv, TransportTypes
<1>4. ~late => /\ wait # None /\ q = wait /\ inbox' = <<>> /\ Quiet(buf) /\ Quiet(pipe)
               /\ wait.op \in {"branch", "apply_at"} => RootAt(states, wait.sid, wait)
  <2>1. ~late => /\ wait # None /\ inbox = <<wait>> /\ Quiet(buf) /\ Quiet(pipe)
                 /\ wait.op \in {"branch", "apply_at"} => RootAt(states, wait.sid, wait)
      BY <1>1 DEF Inv, ExchangeInv, RequestInv
  <2>2. inbox = <<wait>> => Head(inbox) = wait /\ Tail(inbox) = <<>>
      BY SingletonTail
  <2> QED BY <1>1, <2>1, <2>2
<1> HIDE DEF q
<1>5. PICK line \in Replies, new \in Seq(States \cup {None}) :
          /\ pipe' = Append(pipe, line) /\ states' = states \o new
          /\ ~late => Answer(states', line, wait)
  <2>1. CASE \E a \in Answers(q) : pipe' = Append(pipe, a.reply) /\ states' = states \o a.new
      BY <2>1, <1>3, <1>4, AnswersFacts DEF Inv
  <2>2. CASE pipe' = Append(pipe, Refusal) /\ UNCHANGED states
    <3>1. states' = states \o <<>> /\ <<>> \in Seq(States \cup {None})
        BY <2>2, <1>3, ConcatEmptySeq
    <3> QED BY <2>2, <3>1, RefusalFacts
  <2> QED BY <2>1, <2>2 DEF Handle, q
<1>6. /\ pipe' \in Seq(Lines) /\ states' \in Seq(States \cup {None})
      /\ \A sid, r : RootAt(states, sid, r) => RootAt(states', sid, r)
    BY <1>3, <1>5, AppendFacts, MoreStates DEF Lines
<1>7. ~late => OneReply(states', pipe', buf', wait)
  <2>1. line \in Lines
      BY <1>5 DEF Lines
  <2>2. Quiet(pipe) => /\ Single(pipe')
                       /\ AllAnswer(states', pipe, wait)
                       /\ Answer(states', line, wait) => AllAnswer(states', pipe', wait)
      BY <1>3, <1>5, <2>1, MoreLines
  <2>3. Quiet(buf) => AllAnswer(states', buf, wait)
      BY DEF Quiet, AllAnswer
  <2> QED BY <1>1, <1>4, <1>5, <2>2, <2>3 DEF OneReply
<1>8. TransportTypes'
    BY <1>1, <1>3, <1>6 DEF Inv, TransportTypes
<1>9. ExchangeInv'
    BY <1>1, <1>4, <1>7 DEF Inv, ExchangeInv
<1> QED BY <1>1, <1>2, <1>6, <1>8, <1>9, TransportStep

----------------------------------------------------------------------------
(* Requests.                                                               *)

\* Steps of the loop that touch neither the rows nor the files.
LEMMA NoFiles ==
    ASSUME Inv, UNCHANGED <<config, files, cutShort, resumed>>, late' \in BOOLEAN,
           pc \in {"next", "act", "wait", "apply", "apply_at", "raise"},
           pc' \in {"next", "act", "wait", "apply", "apply_at", "raise"}
    PROVE  FileTypes' /\ VerdictInv' /\ AgreeInv' /\ ReturnsComplete'
PROOF
<1> USE DEF files
<1>1. FileTypes'
    BY DEF Inv, FileTypes
<1>2. VerdictInv'
    BY DEF Inv, VerdictInv
<1>3. AgreeInv' /\ ReturnsComplete'
    BY DEF Inv, AgreeInv, ReturnsComplete
<1> QED BY <1>1, <1>2, <1>3

LEMMA PlanFacts ==
    ASSUME NEW i \in Items
    PROVE  /\ Plan[i].task \in Tasks /\ Plan[i].act \in Acts
           /\ Own(i) \in Audits /\ i \in Nat /\ i >= 1 /\ i <= Len(Plan)
PROOF
<1>1. Plan[i].task \in Tasks /\ Plan[i].act \in Acts
    BY DEF Tasks, Acts
<1>2. <<>> \in Seq(Acts)
    OBVIOUS
<1>3. Own(i) \in Audits
    BY <1>1, <1>2 DEF Own, Audits
<1>4. DOMAIN Plan = 1 .. Len(Plan) /\ Len(Plan) \in Nat
    BY PlanAssumption, LenProperties
<1> QED BY <1>1, <1>3, <1>4 DEF Items

LEMMA ItemsFacts == Items = 1 .. Len(Plan) /\ Len(Plan) \in Nat
PROOF
    BY PlanAssumption, LenProperties DEF Items

\* A request is sent when none is under way.
LEMMA SendFacts ==
    ASSUME Inv, wait = None, NEW q \in Requests, Send(q),
           UNCHANGED <<stale, pipe, buf, states, alive, late>>
    PROVE  TransportTypes' /\ ExchangeInv' /\ wait' = q /\ wait' # None
PROOF
<1>1. /\ wait' = q /\ q # None
      /\ inbox' = IF alive THEN Append(inbox, q) ELSE inbox
      /\ \/ alive /\ live' = "blocked" /\ turn' = IF turn = "none" THEN "live" ELSE turn
         \/ live' = "between" /\ turn' = turn
    BY NoneAssumption DEF Send
<1>2. inbox \in Seq(Requests) /\ inbox' \in Seq(Requests)
    BY <1>1, AppendFacts DEF Inv, TransportTypes
<1>3. alive /\ ~late => inbox' = <<q>>
  <2>1. SUFFICES ASSUME alive, ~late PROVE inbox' = <<q>>
      OBVIOUS
  <2>2. inbox = <<>>
      BY <2>1 DEF Inv, ExchangeInv
  <2>3. Append(<<>>, q) = <<q>>
      OBVIOUS
  <2> QED BY <1>1, <2>1, <2>2, <2>3
<1>4. TransportTypes'
    BY <1>1, <1>2 DEF Inv, TransportTypes
<1>5. ExchangeInv'
    BY <1>1, <1>3 DEF Inv, ExchangeInv
<1> QED BY <1>1, <1>4, <1>5

\* A request ends with an exception.
LEMMA RaisesFacts ==
    ASSUME Inv, RequestRaises, UNCHANGED server
    PROVE  /\ TransportTypes' /\ ExchangeInv' /\ late' \in BOOLEAN /\ (late => late')
           /\ wait # None /\ wait' = None
PROOF
<1>1. /\ UNCHANGED <<inbox, states, alive, pipe, buf>>
      /\ wait # None /\ wait' = None /\ live' = "none"
      /\ \/ /\ late' = TRUE
            /\ \/ /\ stale' = stale + 1 /\ turn' = IF turn = "live" THEN "stale" ELSE turn
               \/ stale' = stale /\ turn' = turn
         \/ /\ ~alive /\ turn' = IF turn = "live" THEN "none" ELSE turn
            /\ stale' = stale /\ late' = late
    BY DEF RequestRaises, server
<1>2. TransportTypes'
    BY <1>1 DEF Inv, TransportTypes
<1>2a. late' \in BOOLEAN /\ (late => late')
  <2>1. late \in BOOLEAN
      BY DEF Inv, FileTypes
  <2>2. late' = TRUE \/ late' = late
      BY <1>1
  <2> QED BY <2>1, <2>2
<1>3. stale \in Nat
    BY DEF Inv, TransportTypes
<1>4. turn' = "stale" => stale' > 0
    BY <1>1, <1>3 DEF Inv, ExchangeInv
<1>5. ExchangeInv'
    BY <1>1, <1>4 DEF Inv, ExchangeInv
<1> QED BY <1>1, <1>2, <1>2a, <1>5

\* A request ends with a reply; before any timeout it is the answer.
LEMMA ReturnsFacts ==
    ASSUME Inv, NEW reply, RequestReturns(reply), UNCHANGED server
    PROVE  /\ TransportTypes' /\ ExchangeInv' /\ late' = late
           /\ wait # None /\ wait' = None
           /\ reply \in Replies /\ (~late => Answer(states, reply, wait))
PROOF
<1>1. /\ UNCHANGED <<inbox, states, alive, stale, late>>
      /\ wait # None /\ wait' = None /\ live' = "none"
      /\ TakeLine(reply) /\ reply # Noise
    BY DEF RequestReturns, server
<1>2. /\ reply \in Lines /\ buf' \in Seq(Lines) /\ pipe' \in Seq(Lines)
      /\ turn' \in {"none", "live", "stale"} /\ (~late => turn' # "stale")
      /\ turn' = "stale" => stale > 0
      /\ ~(Quiet(buf) /\ Quiet(pipe))
      /\ OneReply(states, pipe, buf, wait) =>
            Quiet(buf') /\ Quiet(pipe') /\ Answer(states, reply, wait)
    BY <1>1, TakeLineFacts
<1>3. ~late => (alive => inbox = <<>>) /\ OneReply(states, pipe, buf, wait)
  <2>1. alive \/ live = "blocked"
      BY <1>1 DEF TakeLine
  <2> QED BY <1>1, <1>2, <2>1 DEF Inv, ExchangeInv
<1>4. TransportTypes'
    BY <1>1, <1>2 DEF Inv, TransportTypes
<1>5. ExchangeInv'
    BY <1>1, <1>2, <1>3 DEF Inv, ExchangeInv
<1> QED BY <1>1, <1>2, <1>3, <1>4, <1>5 DEF Lines

LEMMA CallFailsFacts ==
    ASSUME Inv, CallFails, UNCHANGED server
    PROVE  /\ TransportTypes' /\ ExchangeInv' /\ late' \in BOOLEAN /\ (late => late')
           /\ wait # None /\ wait' = None
PROOF
<1>1. CASE RequestRaises
    BY <1>1, RaisesFacts
<1>2. CASE \E reply \in Heads : RequestReturns(reply)
  <2>1. late \in BOOLEAN
      BY DEF Inv, FileTypes
  <2> QED BY <1>2, <2>1, ReturnsFacts
<1> QED BY <1>1, <1>2 DEF CallFails

----------------------------------------------------------------------------
(* The loop.                                                               *)

LEMMA BeginPairKeeps == Inv /\ BeginPair => Inv'
PROOF
<1> SUFFICES ASSUME Inv, BeginPair PROVE Inv'
    OBVIOUS
<1> DEFINE task == Plan[item + 1].task
           newTask == item = 0 \/ task # Plan[item].task
           q == [op |-> "register", sid |-> None, task |-> task, act |-> None]
<1>1. /\ pc = "next" /\ item < Len(Plan) /\ item' = item + 1
      /\ UNCHANGED <<config, done, backend, rpc, branch, stale, pipe, buf, states, alive,
                     files, late, cutShort, resumed>>
    BY DEF BeginPair, counters
<1>2. \/ /\ newTask /\ rpc /\ backend = "jsonl" /\ Send(q) /\ pc' = "wait" /\ base' = base
      \/ /\ pc' = "act" /\ base' = IF newTask THEN None ELSE base
         /\ UNCHANGED <<wait, live, turn, inbox>>
    BY DEF BeginPair
<1>3. wait = None /\ item \in Nat /\ item' \in Items
    BY <1>1, ItemsFacts DEF Inv, LoopTypes, RequestInv
<1>4. q \in Requests
    BY <1>1, <1>3, PlanFacts DEF Requests, Acts
<1>5. q.op = "register" /\ q.task = Plan[item'].task
    BY <1>1
<1> HIDE DEF q
<1>6. TransportTypes' /\ ExchangeInv' /\ (wait' = q \/ wait' = None)
      /\ (pc' = "wait" => wait' = q) /\ (wait' # None) = (pc' = "wait")
  <2>1. CASE Send(q) /\ pc' = "wait"
      BY <1>1, <1>3, <1>4, <2>1, SendFacts
  <2>2. CASE pc' = "act" /\ UNCHANGED <<wait, live, turn, inbox>>
      BY <1>1, <1>3, <2>2 DEF Inv, TransportTypes, ExchangeInv
  <2> QED BY <1>2, <2>1, <2>2
<1>7. LoopTypes'
    BY <1>1, <1>2, <1>3, ItemsFacts DEF Inv, LoopTypes, Places
<1>8. RequestInv'
  <2>1. pc' = "act" /\ base' # None => base' = base /\ item \in Items /\ Plan[item'].task = Plan[item].task
      BY <1>1, <1>2, <1>3, ItemsFacts
  <2>2. pc' = "act" /\ base' # None /\ ~late => RootAt(states, base', Plan[item'])
      BY <1>1, <2>1, <1>3 DEF Inv, RequestInv, RootAt, Root, InLoop
  <2>3. pc' \in {"act", "wait"} /\ wait' # None => pc' = "wait"
      BY <1>6
  <2> QED BY <1>1, <1>2, <1>3, <1>5, <1>6, <2>2 DEF RequestInv
<1>9. ModeInv'
  <2>1. pc' = "wait" => rpc /\ backend = "jsonl"
      BY <1>2
  <2> QED BY <1>1, <1>2, <1>6, <2>1 DEF Inv, ModeInv, ProgressInv, InLoop
<1>10. FileTypes' /\ VerdictInv' /\ AgreeInv' /\ ReturnsComplete'
    BY <1>1, <1>2, NoFiles DEF Inv, FileTypes
<1>11. ProgressInv'
  <2>1. config.mode = "server" /\ ItemsOf(responses) = done \cup (1 .. item)
      BY <1>1 DEF Inv, ProgressInv
  <2>2. item' - 1 = item
      BY <1>1, <1>3
  <2>3. pc' \in {"wait", "act"} /\ (pc' = "wait" => wait'.op = "register")
      BY <1>2, <1>5, <1>6
  <2> QED BY <1>1, <1>3, <2>1, <2>2, <2>3 DEF Inv, ProgressInv, files
<1> QED BY <1>6, <1>7, <1>8, <1>9, <1>10, <1>11 DEF Inv

LEMMA RegisteredKeeps == Inv /\ Registered => Inv'
PROOF
<1> SUFFICES ASSUME Inv, Registered PROVE Inv'
    OBVIOUS
<1>1. /\ pc = "wait" /\ wait.op = "register" /\ pc' = "act"
      /\ UNCHANGED <<config, item, done, backend, rpc, branch, server, files, cutShort, resumed>>
    BY DEF Registered
<1>2. /\ TransportTypes' /\ ExchangeInv' /\ late' \in BOOLEAN /\ (late => late')
      /\ wait # None /\ wait' = None /\ states' = states
      /\ base' \in Nat \cup {None}
      /\ base' # None => late' = late /\ (~late => RootAt(states, base', wait))
  <2>1. states' = states
      BY <1>1 DEF server
  <2>2. CASE CallFails /\ base' = None
      BY <1>1, <2>1, <2>2, CallFailsFacts
  <2>3. CASE \E reply \in Heads : CallReturns(reply) /\ base' = reply.sid
    <3>1. PICK reply \in Heads : RequestReturns(reply) /\ reply # Refusal /\ base' = reply.sid
        BY <2>3 DEF CallReturns
    <3>2. late \in BOOLEAN
        BY DEF Inv, FileTypes
    <3>3. reply \in Replies /\ (~late => Answer(states, reply, wait))
        BY <1>1, <3>1, ReturnsFacts
    <3> QED BY <1>1, <2>1, <3>1, <3>2, <3>3, ReturnsFacts DEF Replies, Answer
  <2> QED BY <2>2, <2>3 DEF Registered
<1>3. item \in Items /\ wait.task = Plan[item].task /\ config.stateful
    BY <1>1, <1>2 DEF Inv, RequestInv, ModeInv
<1>4. LoopTypes'
    BY <1>1, <1>2 DEF Inv, LoopTypes, Places
<1>5. RequestInv'
    BY <1>1, <1>2, <1>3 DEF RequestInv, RootAt, Root
<1>6. ModeInv'
    BY <1>1, <1>2, <1>3 DEF Inv, ModeInv, ProgressInv, InLoop
<1>7. FileTypes' /\ VerdictInv' /\ AgreeInv' /\ ReturnsComplete'
    BY <1>1, <1>2, NoFiles
<1>8. ProgressInv'
    BY <1>1 DEF Inv, ProgressInv, files
<1> QED BY <1>2, <1>4, <1>5, <1>6, <1>7, <1>8 DEF Inv

\* A request about the pair in hand.
LEMMA RequestFacts ==
    ASSUME Inv, item \in Items, NEW op \in {"apply", "branch", "apply_at"},
           NEW sid \in Nat \cup {None}
    PROVE  /\ Request(op, sid) \in Requests /\ Request(op, sid).op = op
           /\ Request(op, sid).sid = sid /\ Request(op, sid).task = Plan[item].task
           /\ Request(op, sid).act = Plan[item].act
PROOF
    BY PlanFacts DEF Request, Requests

LEMMA BeginActionKeeps == Inv /\ BeginAction => Inv'
PROOF
<1> SUFFICES ASSUME Inv, BeginAction PROVE Inv'
    OBVIOUS
<1> DEFINE q == Request("branch", base)
<1>1. /\ pc = "act"
      /\ UNCHANGED <<config, item, done, backend, rpc, base, branch, stale, pipe, buf, states,
                     alive, files, late, cutShort, resumed>>
    BY DEF BeginAction, counters
<1>2. \/ item \in done /\ pc' = "next" /\ UNCHANGED <<wait, live, turn, inbox>>
      \/ item \notin done /\ base # None /\ backend = "jsonl" /\ pc' = "wait" /\ Send(q)
      \/ item \notin done /\ pc' = "apply" /\ UNCHANGED <<wait, live, turn, inbox>>
    BY DEF BeginAction
<1>3. wait = None /\ item \in Items
    BY <1>1 DEF Inv, RequestInv
<1>4. /\ q \in Requests /\ q.op = "branch" /\ q.sid = base /\ q.task = Plan[item].task
      /\ q.act = Plan[item].act
    BY <1>3, RequestFacts DEF Inv, LoopTypes
<1> HIDE DEF q
<1>6. TransportTypes' /\ ExchangeInv' /\ (wait' = q \/ wait' = None)
      /\ (pc' = "wait" => wait' = q) /\ (wait' # None) = (pc' = "wait")
  <2>1. CASE Send(q) /\ pc' = "wait"
      BY <1>1, <1>3, <1>4, <2>1, SendFacts
  <2>2. CASE pc' \in {"next", "apply"} /\ UNCHANGED <<wait, live, turn, inbox>>
      BY <1>1, <1>3, <2>2 DEF Inv, TransportTypes, ExchangeInv
  <2> QED BY <1>2, <2>1, <2>2
<1>7. LoopTypes'
    BY <1>1, <1>2 DEF Inv, LoopTypes, Places
<1>8. base # None /\ ~late => RootAt(states, base, Plan[item])
    BY <1>1, <1>3 DEF Inv, RequestInv, InLoop
<1>9. RequestInv'
    BY <1>1, <1>2, <1>3, <1>4, <1>6, <1>8 DEF RequestInv, RootAt, Root
<1>10. ModeInv'
    BY <1>1, <1>2, <1>4, <1>6 DEF Inv, ModeInv, ProgressInv, InLoop
<1>11. FileTypes' /\ VerdictInv' /\ AgreeInv' /\ ReturnsComplete'
    BY <1>1, <1>2, NoFiles DEF Inv, FileTypes
<1>12. ProgressInv'
  <2>1. config.mode = "server" /\ ItemsOf(responses) = done \cup (1 .. (item - 1))
      BY <1>1 DEF Inv, ProgressInv
  <2>2. item \in done => done \cup (1 .. (item - 1)) = done \cup (1 .. item)
      BY <1>3, PlanFacts
  <2> QED BY <1>1, <1>2, <1>3, <2>1, <2>2 DEF Inv, ProgressInv, files
<1> QED BY <1>6, <1>7, <1>9, <1>10, <1>11, <1>12 DEF Inv

LEMMA BeginApplyAtKeeps == Inv /\ BeginApplyAt => Inv'
PROOF
<1> SUFFICES ASSUME Inv, BeginApplyAt PROVE Inv'
    OBVIOUS
<1> DEFINE q == Request("apply_at", branch)
<1>1. /\ pc = "apply_at" /\ pc' = "wait" /\ Send(q)
      /\ UNCHANGED <<config, item, done, backend, rpc, base, branch, stale, pipe, buf, states,
                     alive, files, late, cutShort, resumed>>
    BY DEF BeginApplyAt, counters
<1>2. wait = None /\ item \in Items /\ (~late => RootAt(states, branch, Plan[item]))
    BY <1>1 DEF Inv, RequestInv
<1>3. /\ q \in Requests /\ q.op = "apply_at" /\ q.sid = branch /\ q.task = Plan[item].task
      /\ q.act = Plan[item].act
    BY <1>2, RequestFacts DEF Inv, LoopTypes
<1> HIDE DEF q
<1>4. TransportTypes' /\ ExchangeInv' /\ wait' = q /\ wait' # None
    BY <1>1, <1>2, <1>3, SendFacts
<1>5. LoopTypes'
    BY <1>1 DEF Inv, LoopTypes, Places
<1>6. base # None => item \in Items /\ (~late => RootAt(states, base, Plan[item]))
    BY <1>1, <1>2 DEF Inv, RequestInv, InLoop
<1>7. RequestInv'
    BY <1>1, <1>2, <1>3, <1>4, <1>6 DEF RequestInv, RootAt, Root
<1>8. ModeInv'
    BY <1>1, <1>3, <1>4 DEF Inv, ModeInv, ProgressInv, InLoop
<1>9. FileTypes' /\ VerdictInv' /\ AgreeInv' /\ ReturnsComplete'
    BY <1>1, NoFiles DEF Inv, FileTypes
<1>10. ProgressInv'
    BY <1>1 DEF Inv, ProgressInv, files
<1> QED BY <1>4, <1>5, <1>7, <1>8, <1>9, <1>10 DEF Inv

LEMMA BeginApplyKeeps == Inv /\ BeginApply => Inv'
PROOF
<1> SUFFICES ASSUME Inv, BeginApply PROVE Inv'
    OBVIOUS
<1> DEFINE q == Request("apply", None)
<1>1. /\ pc = "apply" /\ backend = "jsonl" /\ pc' = "wait" /\ Send(q)
      /\ UNCHANGED <<config, item, done, backend, rpc, base, branch, stale, pipe, buf, states,
                     alive, files, late, cutShort, resumed>>
    BY DEF BeginApply, counters
<1>2. wait = None /\ item \in Items
    BY <1>1 DEF Inv, RequestInv
<1>3. /\ q \in Requests /\ q.op = "apply" /\ q.task = Plan[item].task /\ q.act = Plan[item].act
    BY <1>2, RequestFacts
<1> HIDE DEF q
<1>4. TransportTypes' /\ ExchangeInv' /\ wait' = q /\ wait' # None
    BY <1>1, <1>2, <1>3, SendFacts
<1>5. LoopTypes'
    BY <1>1 DEF Inv, LoopTypes, Places
<1>6. base # None => item \in Items /\ (~late => RootAt(states, base, Plan[item]))
    BY <1>1, <1>2 DEF Inv, RequestInv, InLoop
<1>7. RequestInv'
    BY <1>1, <1>2, <1>3, <1>4, <1>6 DEF RequestInv
<1>8. ModeInv'
    BY <1>1, <1>3, <1>4 DEF Inv, ModeInv, ProgressInv, InLoop
<1>9. FileTypes' /\ VerdictInv' /\ AgreeInv' /\ ReturnsComplete'
    BY <1>1, NoFiles DEF Inv, FileTypes
<1>10. ProgressInv'
    BY <1>1 DEF Inv, ProgressInv, files
<1> QED BY <1>4, <1>5, <1>7, <1>8, <1>9, <1>10 DEF Inv

LEMMA BranchedKeeps == Inv /\ Branched => Inv'
PROOF
<1> SUFFICES ASSUME Inv, Branched PROVE Inv'
    OBVIOUS
<1>1. /\ pc = "wait" /\ wait.op = "branch" /\ pc' = "apply_at"
      /\ UNCHANGED <<config, item, done, backend, rpc, base, server, files, cutShort, resumed>>
    BY DEF Branched
<1>2. PICK reply \in Heads : RequestReturns(reply) /\ reply # Refusal /\ branch' = reply.sid
    BY DEF Branched
<1>3. /\ TransportTypes' /\ ExchangeInv' /\ late' = late /\ late \in BOOLEAN
      /\ wait # None /\ wait' = None /\ states' = states
      /\ reply \in Replies /\ (~late => Answer(states, reply, wait))
    BY <1>1, <1>2, ReturnsFacts DEF server, Inv, FileTypes
<1>4. branch' \in Nat \cup {None} /\ (~late => RootAt(states, branch', wait))
    BY <1>1, <1>2, <1>3 DEF Replies, Answer
<1>5. item \in Items /\ wait.task = Plan[item].task /\ config.stateful /\ backend = "jsonl"
    BY <1>1, <1>3 DEF Inv, RequestInv, ModeInv
<1>6. LoopTypes'
    BY <1>1, <1>4 DEF Inv, LoopTypes, Places
<1>7. base # None => (~late => RootAt(states, base, Plan[item]))
    BY <1>1, <1>3 DEF Inv, RequestInv, InLoop
<1>8. RequestInv'
    BY <1>1, <1>3, <1>4, <1>5, <1>7 DEF RequestInv, RootAt, Root
<1>9. ModeInv'
    BY <1>1, <1>3, <1>5 DEF Inv, ModeInv, ProgressInv, InLoop
<1>10. FileTypes' /\ VerdictInv' /\ AgreeInv' /\ ReturnsComplete'
    BY <1>1, <1>3, NoFiles
<1>11. ProgressInv'
    BY <1>1 DEF Inv, ProgressInv, files
<1> QED BY <1>3, <1>6, <1>8, <1>9, <1>10, <1>11 DEF Inv

\* A failed call leaves the base as good as it was.
LEMMA FailedBase ==
    ASSUME Inv, CallFails, UNCHANGED server, pc = "wait", wait.op # "register"
    PROVE  /\ item \in Items /\ states' = states
           /\ base # None /\ ~late' => RootAt(states, base, Plan[item])
PROOF
<1>1. wait # None /\ (late => late') /\ states' = states
    BY CallFailsFacts DEF server
<1> QED BY <1>1 DEF Inv, RequestInv, InLoop

LEMMA AttemptFailsKeeps == Inv /\ AttemptFails => Inv'
PROOF
<1> SUFFICES ASSUME Inv, AttemptFails PROVE Inv'
    OBVIOUS
<1>1. /\ pc = "wait" /\ wait.op \in {"branch", "apply_at"} /\ pc' = "apply" /\ CallFails
      /\ UNCHANGED <<config, item, done, backend, rpc, base, branch, server, files, cutShort,
                     resumed>>
    BY DEF AttemptFails
<1>2. /\ TransportTypes' /\ ExchangeInv' /\ late' \in BOOLEAN /\ (late => late')
      /\ wait # None /\ wait' = None
    BY <1>1, CallFailsFacts
<1>3. config.stateful
    BY <1>1, <1>2 DEF Inv, ModeInv
<1>4. LoopTypes'
    BY <1>1 DEF Inv, LoopTypes, Places
<1>5. RequestInv'
    BY <1>1, <1>2, FailedBase DEF RequestInv
<1>6. ModeInv'
    BY <1>1, <1>2, <1>3 DEF Inv, ModeInv, ProgressInv, InLoop
<1>7. FileTypes' /\ VerdictInv' /\ AgreeInv' /\ ReturnsComplete'
    BY <1>1, <1>2, NoFiles
<1>8. ProgressInv'
    BY <1>1 DEF Inv, ProgressInv, files
<1> QED BY <1>2, <1>4, <1>5, <1>6, <1>7, <1>8 DEF Inv

LEMMA AttemptRaisesKeeps == Inv /\ AttemptRaises => Inv'
PROOF
<1> SUFFICES ASSUME Inv, AttemptRaises PROVE Inv'
    OBVIOUS
<1>1. /\ pc = "wait" /\ wait.op # "register" /\ pc' = "raise" /\ CallFails
      /\ UNCHANGED <<config, item, done, backend, rpc, base, branch, server, files, cutShort,
                     resumed>>
    BY DEF AttemptRaises
<1>2. /\ TransportTypes' /\ ExchangeInv' /\ late' \in BOOLEAN /\ (late => late')
      /\ wait # None /\ wait' = None
    BY <1>1, CallFailsFacts
<1>4. LoopTypes'
    BY <1>1 DEF Inv, LoopTypes, Places
<1>5. RequestInv'
    BY <1>1, <1>2, FailedBase DEF RequestInv
<1>6. ModeInv'
    BY <1>1, <1>2 DEF Inv, ModeInv, ProgressInv, InLoop
<1>7. FileTypes' /\ VerdictInv' /\ AgreeInv' /\ ReturnsComplete'
    BY <1>1, <1>2, NoFiles
<1>8. ProgressInv'
    BY <1>1 DEF Inv, ProgressInv, files
<1> QED BY <1>2, <1>4, <1>5, <1>6, <1>7, <1>8 DEF Inv

----------------------------------------------------------------------------
(* The rows.                                                               *)

LEMMA RowAppended ==
    ASSUME NEW rows \in Seq(Rows), NEW row \in Rows, row.item \notin ItemsOf(rows),
           Distinct(rows)
    PROVE  ItemsOf(Append(rows, row)) = ItemsOf(rows) \cup {row.item}
           /\ Distinct(Append(rows, row))
PROOF
<1> DEFINE t == Append(rows, row)
           n == Len(rows)
<1>1. /\ DOMAIN rows = 1 .. n /\ n \in Nat /\ DOMAIN t = 1 .. (n + 1)
      /\ \A k \in DOMAIN rows : t[k] = rows[k]
      /\ t[n + 1] = row
    BY AppendFacts
<1> HIDE DEF t, n
<1>2. /\ \A k \in DOMAIN t : k \in DOMAIN rows \/ k = n + 1
      /\ \A k \in DOMAIN rows : k \in DOMAIN t
      /\ n + 1 \in DOMAIN t
    BY <1>1
<1>3. ItemsOf(t) = ItemsOf(rows) \cup {row.item}
    BY <1>1, <1>2 DEF ItemsOf
<1>4. \A k \in DOMAIN rows : rows[k].item # row.item
    BY DEF ItemsOf
<1>5. Distinct(t)
    BY <1>1, <1>2, <1>4 DEF Distinct
<1> QED BY <1>3, <1>5 DEF t

\* A pair without a row gets one, its own verdict or one after a timeout.
LEMMA FinishFacts ==
    ASSUME Inv, NEW i \in Items, NEW v \in Audits, Finish(i, v),
           i \notin ItemsOf(responses), v = Own(i) \/ (config.stateful /\ late),
           UNCHANGED <<config, item, done, cutShort, resumed>>, late' \in BOOLEAN,
           \/ config.mode = "server" /\ i = item /\ pc \in {"apply", "wait"}
           \/ config.mode = "batch" /\ pc = "batch"
    PROVE  /\ FileTypes' /\ VerdictInv' /\ ProgressInv' /\ AgreeInv' /\ ReturnsComplete'
           /\ pc' \in {"flush_audits"} \cup (IF config.mode = "batch" THEN {"batch"} ELSE {"next"})
PROOF
<1> DEFINE row == [item |-> i, verdict |-> v, after |-> late]
<1>1. /\ audits' = Append(audits, row) /\ responses' = Append(responses, row) /\ disk' = disk
      /\ pc' \in {"flush_audits"} \cup (IF config.mode = "batch" THEN {"batch"} ELSE {"next"})
    BY DEF Finish
<1>2. row \in Rows /\ row.item = i /\ row.verdict = v /\ row.after = late
    BY DEF Inv, FileTypes, Rows
<1> HIDE DEF row
<1>3. audits \in Seq(Rows) /\ responses \in Seq(Rows)
    BY DEF Inv, FileTypes
<1>4. FileTypes'
  <2>1. audits' \in Seq(Rows) /\ responses' \in Seq(Rows)
      BY <1>1, <1>2, <1>3, AppendFacts
  <2>2. cutShort' \in BOOLEAN /\ resumed' \in BOOLEAN
      BY DEF Inv, FileTypes
  <2> QED BY <1>1, <2>1, <2>2 DEF Inv, FileTypes
<1>5. VerdictInv'
  <2>1. RowGood(config, row)
      BY <1>2 DEF RowGood
  <2>2. \A k \in DOMAIN responses : RowGood(config, responses[k])
      BY DEF Inv, VerdictInv
  <2>3. \A k \in DOMAIN responses' : RowGood(config, responses'[k])
      BY <1>1, <1>2, <1>3, <2>1, <2>2, AppendFacts
  <2>4. config' = config
      OBVIOUS
  <2> QED BY <1>1, <2>3, <2>4 DEF Inv, VerdictInv
<1>6. ItemsOf(responses') = ItemsOf(responses) \cup {i} /\ Distinct(responses')
    BY <1>1, <1>2, <1>3, RowAppended DEF Inv, ProgressInv
<1>7. ProgressInv'
  <2>1. CASE config.mode = "batch" /\ pc = "batch"
      BY <1>1, <1>6, <2>1 DEF Inv, ProgressInv
  <2>2. CASE config.mode = "server" /\ i = item /\ pc \in {"apply", "wait"}
    <3>1. done \subseteq ItemsOf(responses) /\ ItemsOf(responses) = done \cup (1 .. (item - 1))
        BY <2>2 DEF Inv, ProgressInv
    <3>2. (1 .. (item - 1)) \cup {item} = 1 .. item
        BY <2>2, PlanFacts
    <3>3. ItemsOf(responses') = done \cup (1 .. item)
        BY <1>6, <2>2, <3>1, <3>2
    <3>4. pc' \in {"flush_audits", "next"}
        BY <1>1, <2>2
    <3> QED BY <1>1, <1>6, <2>2, <3>3, <3>4 DEF Inv, ProgressInv
  <2> QED BY <2>1, <2>2
<1>8. AgreeInv' /\ ReturnsComplete'
  <2>1. pc' \in {"flush_audits", "batch", "next"} /\ pc \in {"apply", "wait", "batch"}
      BY <1>1
  <2>2. resumed \/ audits' = responses'
      BY <1>1, <2>1 DEF Inv, AgreeInv
  <2> QED BY <1>1, <2>1, <2>2 DEF Inv, AgreeInv, ReturnsComplete
<1> QED BY <1>1, <1>4, <1>5, <1>7, <1>8

LEMMA ApplyFileKeeps == Inv /\ ApplyFile => Inv'
PROOF
<1> SUFFICES ASSUME Inv, ApplyFile PROVE Inv'
    OBVIOUS
<1>1. /\ pc = "apply" /\ backend = "file" /\ Finish(item, Own(item))
      /\ UNCHANGED <<config, item, done, backend, rpc, base, branch, transport, server, late,
                     cutShort, resumed>>
    BY DEF ApplyFile, counters
<1>2. /\ item \in Items /\ item \notin done /\ config.mode = "server" /\ wait = None
      /\ ItemsOf(responses) = done \cup (1 .. (item - 1))
    BY <1>1 DEF Inv, ProgressInv, RequestInv
<1>3. item \notin ItemsOf(responses) /\ Own(item) \in Audits
    BY <1>2, PlanFacts
<1>4. late' \in BOOLEAN
    BY <1>1 DEF Inv, FileTypes
<1>5. /\ FileTypes' /\ VerdictInv' /\ ProgressInv' /\ AgreeInv' /\ ReturnsComplete'
      /\ pc' \in {"flush_audits", "next"}
    BY <1>1, <1>2, <1>3, <1>4, FinishFacts
<1>6. TransportTypes' /\ ExchangeInv'
    BY <1>1 DEF Inv, TransportTypes, ExchangeInv, transport, server
<1>7. LoopTypes'
    BY <1>1, <1>5 DEF Inv, LoopTypes, Places
<1>8. RequestInv'
    BY <1>1, <1>2, <1>5 DEF Inv, RequestInv, InLoop, transport, server
<1>9. ModeInv'
    BY <1>1, <1>5 DEF Inv, ModeInv, InLoop, transport, server
<1> QED BY <1>5, <1>6, <1>7, <1>8, <1>9 DEF Inv

LEMMA AuditedKeeps == Inv /\ Audited => Inv'
PROOF
<1> SUFFICES ASSUME Inv, Audited PROVE Inv'
    OBVIOUS
<1>1. /\ pc = "wait" /\ wait.op \in {"apply", "apply_at"}
      /\ UNCHANGED <<config, item, done, backend, rpc, base, branch, server, cutShort, resumed>>
    BY DEF Audited
<1>2. PICK reply \in Heads : CallReturns(reply) /\ Finish(item, reply.audit)
    BY DEF Audited
<1>3. /\ TransportTypes' /\ ExchangeInv' /\ late' = late /\ late \in BOOLEAN
      /\ wait # None /\ wait' = None /\ states' = states
      /\ reply \in Replies /\ (~late => Answer(states, reply, wait))
      /\ reply # Refusal /\ reply.audit # None
    BY <1>1, <1>2, ReturnsFacts DEF server, Inv, FileTypes, CallReturns
<1>4. /\ item \in Items /\ item \notin done /\ config.mode = "server"
      /\ ItemsOf(responses) = done \cup (1 .. (item - 1))
      /\ wait.task = Plan[item].task /\ wait.act = Plan[item].act
    BY <1>1, <1>3 DEF Inv, ProgressInv, RequestInv
<1>5. item \notin ItemsOf(responses) /\ reply.audit \in Audits
    BY <1>3, <1>4, PlanFacts DEF Replies
<1>6. ~late => reply.audit = Own(item)
    BY <1>1, <1>3, <1>4 DEF Answer, Own
<1>7. late => config.stateful
    BY <1>1, <1>3 DEF Inv, ModeInv
<1>8. /\ FileTypes' /\ VerdictInv' /\ ProgressInv' /\ AgreeInv' /\ ReturnsComplete'
      /\ pc' \in {"flush_audits", "next"}
    BY <1>1, <1>2, <1>3, <1>4, <1>5, <1>6, <1>7, FinishFacts
<1>9. LoopTypes'
    BY <1>1, <1>8 DEF Inv, LoopTypes, Places
<1>10. base # None => (~late => RootAt(states, base, Plan[item]))
    BY <1>1, <1>3 DEF Inv, RequestInv, InLoop
<1>11. RequestInv'
    BY <1>1, <1>3, <1>4, <1>8, <1>10 DEF RequestInv
<1>12. ModeInv'
    BY <1>1, <1>3, <1>7, <1>8 DEF Inv, ModeInv, ProgressInv, InLoop
<1> QED BY <1>3, <1>8, <1>9, <1>11, <1>12 DEF Inv

LEMMA ApplyFailsKeeps == Inv /\ ApplyFails => Inv'
PROOF
<1> SUFFICES ASSUME Inv, ApplyFails PROVE Inv'
    OBVIOUS
<1>1. /\ pc = "wait" /\ wait.op = "apply" /\ CallFails /\ backend' = "file"
      /\ Finish(item, Own(item))
      /\ UNCHANGED <<config, item, done, rpc, base, branch, server, cutShort, resumed>>
    BY DEF ApplyFails
<1>2. /\ TransportTypes' /\ ExchangeInv' /\ late' \in BOOLEAN /\ (late => late')
      /\ wait # None /\ wait' = None
    BY <1>1, CallFailsFacts
<1>3. /\ item \in Items /\ item \notin done /\ config.mode = "server"
      /\ ItemsOf(responses) = done \cup (1 .. (item - 1))
    BY <1>1 DEF Inv, ProgressInv
<1>4. item \notin ItemsOf(responses) /\ Own(item) \in Audits
    BY <1>3, PlanFacts
<1>5. /\ FileTypes' /\ VerdictInv' /\ ProgressInv' /\ AgreeInv' /\ ReturnsComplete'
      /\ pc' \in {"flush_audits", "next"}
    BY <1>1, <1>2, <1>3, <1>4, FinishFacts
<1>6. LoopTypes'
    BY <1>1, <1>5 DEF Inv, LoopTypes, Places
<1>7. RequestInv'
    BY <1>1, <1>2, <1>3, <1>5, FailedBase DEF RequestInv
<1>8. ModeInv'
    BY <1>1, <1>2, <1>5 DEF Inv, ModeInv, ProgressInv, InLoop
<1> QED BY <1>2, <1>5, <1>6, <1>7, <1>8 DEF Inv

LEMMA BatchRowKeeps == ASSUME Inv, NEW i \in Items, BatchRow(i) PROVE Inv'
PROOF
<1>1. /\ pc = "batch" /\ i \notin done /\ Finish(i, Own(i))
      /\ \A k \in DOMAIN responses : responses[k].item # i
      /\ UNCHANGED <<config, item, done, backend, rpc, base, branch, transport, server, late,
                     cutShort, resumed>>
    BY DEF BatchRow, counters
<1>2. i \notin ItemsOf(responses) /\ Own(i) \in Audits /\ config.mode = "batch"
    BY <1>1, PlanFacts DEF ItemsOf, Inv, ProgressInv
<1>3. late' \in BOOLEAN
    BY <1>1 DEF Inv, FileTypes
<1>4. /\ FileTypes' /\ VerdictInv' /\ ProgressInv' /\ AgreeInv' /\ ReturnsComplete'
      /\ pc' \in {"flush_audits", "batch"}
    BY <1>1, <1>2, <1>3, FinishFacts
<1>5. TransportTypes' /\ ExchangeInv'
    BY <1>1 DEF Inv, TransportTypes, ExchangeInv, transport, server
<1>6. LoopTypes'
    BY <1>1, <1>4 DEF Inv, LoopTypes, Places
<1>7. ~config.stateful /\ base = None
    BY <1>2 DEF Inv, LoopTypes, ModeInv
<1>8. RequestInv'
    BY <1>1, <1>4, <1>7 DEF Inv, RequestInv, InLoop, transport, server
<1>9. ModeInv'
    BY <1>1, <1>4 DEF Inv, ModeInv, InLoop, transport, server
<1> QED BY <1>4, <1>5, <1>6, <1>8, <1>9 DEF Inv

----------------------------------------------------------------------------
(* The beginning and the end of an invocation.                             *)

LEMMA EmptyFacts ==
    /\ \A S : <<>> \in Seq(S)
    /\ Quiet(<<>>) /\ Distinct(<<>>) /\ ItemsOf(<<>>) = {}
    /\ \A c : \A k \in DOMAIN <<>> : RowGood(c, <<>>[k])
PROOF
    BY DEF Quiet, Distinct, ItemsOf

LEMMA CloseFacts ==
    ASSUME Inv, Close
    PROVE  TransportTypes' /\ ExchangeInv' /\ late' = FALSE /\ late' \in BOOLEAN /\ wait' = None
PROOF
<1>1. TransportTypes'
    BY EmptyFacts DEF Close, TransportTypes
<1>2. ExchangeInv'
    BY EmptyFacts DEF Close, ExchangeInv
<1> QED BY <1>1, <1>2 DEF Close

\* A sequence of rows about different pairs has as many rows as pairs.
LEMMA DistinctLen ==
    ASSUME NEW rows \in Seq(Rows), Distinct(rows)
    PROVE  IsFiniteSet(ItemsOf(rows)) /\ Cardinality(ItemsOf(rows)) = Len(rows)
PROOF
<1> DEFINE f == [k \in DOMAIN rows |-> rows[k].item]
<1>1. f \in Bijection(DOMAIN rows, ItemsOf(rows))
  <2>1. f \in [DOMAIN rows -> ItemsOf(rows)]
      BY DEF ItemsOf
  <2>2. IsInjective(f)
      BY DEF IsInjective, Distinct
  <2>3. \A t \in ItemsOf(rows) : \E s \in DOMAIN rows : f[s] = t
      BY DEF ItemsOf
  <2> QED BY <2>1, <2>2, <2>3 DEF Bijection, Injection, Surjection
<1>2. ExistsBijection(DOMAIN rows, ItemsOf(rows))
    BY <1>1 DEF ExistsBijection
<1>3. DOMAIN rows = 1 .. Len(rows) /\ Len(rows) \in Nat
    BY LenProperties
<1>4. IsFiniteSet(DOMAIN rows) /\ Cardinality(DOMAIN rows) = Len(rows)
    BY <1>3, FS_Interval
<1> QED BY <1>2, <1>4, FS_Bijection

\* What is cut off a file was good before and is good without its end.
LEMMA CutFacts ==
    ASSUME NEW rows \in Seq(Rows), NEW f \in Cut(rows)
    PROVE  /\ f \in Files /\ (Distinct(rows) => Distinct(f.rows))
           /\ \A c : (\A k \in DOMAIN rows : RowGood(c, rows[k])) =>
                        \A k \in DOMAIN f.rows : RowGood(c, f.rows[k])
PROOF
<1>1. PICK n \in 0 .. Len(rows), torn \in BOOLEAN : f = File(SubSeq(rows, 1, n), torn)
    BY DEF Cut
<1>2. n \in Nat /\ Len(rows) \in Nat /\ DOMAIN rows = 1 .. Len(rows)
    BY LenProperties
<1>3. \A k \in 1 .. n : rows[k] \in Rows /\ k \in DOMAIN rows
    BY <1>2, ElementOfSeq
<1> DEFINE t == SubSeq(rows, 1, n)
<1>4. t \in Seq(Rows) /\ Len(t) = n /\ \A k \in 1 .. n : t[k] = rows[k]
    BY <1>2, <1>3, SubSeqProperties
<1>5. DOMAIN t = 1 .. n
    BY <1>4, LenProperties
<1>6. f.rows = t /\ f.torn = torn /\ f = [rows |-> t, torn |-> torn]
    BY <1>1 DEF File
<1> HIDE DEF t
<1>7. f \in Files
    BY <1>4, <1>6 DEF Files
<1>8. Distinct(rows) => Distinct(f.rows)
    BY <1>3, <1>4, <1>5, <1>6 DEF Distinct
<1> QED BY <1>3, <1>4, <1>5, <1>6, <1>7, <1>8

LEMMA StartKeeps == ASSUME Inv, NEW resume \in BOOLEAN, Start(resume) PROVE Inv'
PROOF
<1> DEFINE old == IF resume /\ disk.responses # None THEN disk.responses ELSE File(<<>>, FALSE)
           oldAudits == IF resume /\ disk.responses # None /\ disk.audits # None
                        THEN disk.audits ELSE File(<<>>, FALSE)
<1>1. /\ pc \in {"down", "returned"} /\ item' = 0
      /\ resumed' = (cutShort /\ resume /\ disk.responses # None)
      /\ UNCHANGED <<config, backend, rpc, base, branch, transport, server, disk, late, cutShort>>
    BY DEF Start
<1>2. \/ pc' = "down" /\ UNCHANGED <<audits, responses, done>>
      \/ /\ pc' = IF config.mode = "batch" THEN "batch" ELSE "load"
         /\ audits' = oldAudits.rows /\ responses' = old.rows /\ done' = ItemsOf(old.rows)
    BY DEF Start, ItemsOf
<1>3. /\ old \in Files /\ oldAudits \in Files /\ Distinct(old.rows)
      /\ \A k \in DOMAIN old.rows : RowGood(config, old.rows[k])
  <2>1. File(<<>>, FALSE) \in Files /\ File(<<>>, FALSE).rows = <<>>
      BY EmptyFacts DEF File, Files
  <2>2. /\ disk.responses # None => disk.responses \in Files
        /\ disk.audits # None => disk.audits \in Files
      BY DEF Inv, FileTypes
  <2>3. disk.responses # None =>
            /\ Distinct(disk.responses.rows)
            /\ \A k \in DOMAIN disk.responses.rows : RowGood(config, disk.responses.rows[k])
      BY DEF Inv, ProgressInv, VerdictInv
  <2> QED BY <2>1, <2>2, <2>3, EmptyFacts
<1>4. old.rows \in Seq(Rows) /\ oldAudits.rows \in Seq(Rows) /\ ItemsOf(old.rows) \subseteq Items
  <2>1. old.rows \in Seq(Rows) /\ oldAudits.rows \in Seq(Rows)
      BY <1>3 DEF Files
  <2>2. \A k \in DOMAIN old.rows : old.rows[k] \in Rows
      BY <2>1, ElementOfSeq, LenProperties
  <2> QED BY <2>1, <2>2 DEF ItemsOf, Rows
<1>5. resumed' \/ oldAudits = old
  <2>1. cutShort \/ disk.audits = disk.responses
      BY <1>1 DEF Inv, AgreeInv
  <2> QED BY <1>1, <2>1
<1> HIDE DEF old, oldAudits
<1>6. LoopTypes'
  <2>1. 0 \in 0 .. Len(Plan)
      BY ItemsFacts
  <2> QED BY <1>1, <1>2, <1>4, <2>1 DEF Inv, LoopTypes, Places
<1>7. TransportTypes' /\ ExchangeInv'
    BY <1>1 DEF Inv, TransportTypes, ExchangeInv, transport, server
<1>8. FileTypes'
  <2>1. resumed' \in BOOLEAN
      BY <1>1 DEF Inv, FileTypes
  <2>2. late' \in BOOLEAN /\ cutShort' \in BOOLEAN /\ disk' = disk
      BY <1>1 DEF Inv, FileTypes
  <2>3. audits' \in Seq(Rows) /\ responses' \in Seq(Rows)
      BY <1>2, <1>4 DEF Inv, FileTypes
  <2> QED BY <2>1, <2>2, <2>3 DEF Inv, FileTypes
<1>9. wait = None /\ wait' = None /\ pc' \in {"down", "batch", "load"}
    BY <1>1, <1>2 DEF Inv, RequestInv, transport
<1>10. RequestInv'
    BY <1>9 DEF RequestInv, InLoop
<1>11. ModeInv'
    BY <1>1, <1>9 DEF Inv, ModeInv, InLoop, transport, server
<1>12. VerdictInv'
    BY <1>1, <1>2, <1>3 DEF Inv, VerdictInv
<1>13. ProgressInv'
    BY <1>1, <1>2, <1>3, <1>9 DEF Inv, ProgressInv, LoopTypes
<1>14. AgreeInv' /\ ReturnsComplete'
  <2>1. pc' # "down" => resumed' \/ audits' = responses'
      BY <1>2, <1>5
  <2> QED BY <1>1, <1>9, <2>1 DEF Inv, AgreeInv, ReturnsComplete
<1> QED BY <1>6, <1>7, <1>8, <1>10, <1>11, <1>12, <1>13, <1>14 DEF Inv

LEMMA LoadKeeps == Inv /\ Load => Inv'
PROOF
<1> SUFFICES ASSUME Inv, Load PROVE Inv'
    OBVIOUS
<1>1. /\ pc = "load" /\ base' = None /\ branch' = None
      /\ UNCHANGED <<config, item, done, transport, inbox, states, disk, late, cutShort, resumed>>
    BY DEF Load, counters
<1>2. \/ /\ backend' = "jsonl" /\ alive' = TRUE /\ pc' = "next" /\ rpc' = config.stateful
         /\ UNCHANGED <<audits, responses>>
      \/ /\ backend' = "file" /\ rpc' = FALSE /\ pc' = "next"
         /\ UNCHANGED <<alive, audits, responses>>
      \/ /\ pc' = "down" /\ audits' = <<>> /\ responses' = <<>>
         /\ UNCHANGED <<backend, rpc, alive>>
    BY DEF Load
<1>3. /\ ~late /\ ~alive /\ wait = None /\ turn = "none" /\ stale = 0 /\ live = "none"
      /\ pipe = <<>> /\ buf = <<>> /\ inbox = <<>> /\ states = <<>>
      /\ wait' = None /\ turn' = turn /\ stale' = stale /\ live' = live
      /\ pipe' = pipe /\ buf' = buf
    BY <1>1 DEF Inv, ModeInv, ExchangeInv, InLoop, transport
<1>4. LoopTypes'
  <2>1. rpc' \in BOOLEAN
      BY <1>2 DEF Inv, LoopTypes
  <2> QED BY <1>1, <1>2, <2>1 DEF Inv, LoopTypes, Places
<1>5. TransportTypes'
  <2>1. alive' \in BOOLEAN
      BY <1>2 DEF Inv, TransportTypes
  <2> QED BY <1>1, <2>1 DEF Inv, TransportTypes, transport
<1>6. ExchangeInv'
    BY <1>1, <1>3, EmptyFacts DEF ExchangeInv
<1>7. FileTypes'
  <2>1. late' \in BOOLEAN /\ cutShort' \in BOOLEAN /\ resumed' \in BOOLEAN
      BY <1>1 DEF Inv, FileTypes
  <2> QED BY <1>1, <1>2, <2>1, EmptyFacts DEF Inv, FileTypes
<1>8. RequestInv'
    BY <1>1, <1>2, <1>3 DEF RequestInv
<1>9. ModeInv'
    BY <1>1, <1>2, <1>3 DEF Inv, ModeInv, ProgressInv, InLoop
<1>10. VerdictInv'
    BY <1>1, <1>2, EmptyFacts DEF Inv, VerdictInv
<1>11. ProgressInv'
  <2>1. item = 0 /\ ItemsOf(responses) = done /\ config.mode = "server"
      BY <1>1 DEF Inv, ProgressInv
  <2>2. done \cup (1 .. 0) = done
      OBVIOUS
  <2> QED BY <1>1, <1>2, <2>1, <2>2, EmptyFacts DEF Inv, ProgressInv
<1>12. AgreeInv' /\ ReturnsComplete'
    BY <1>1, <1>2 DEF Inv, AgreeInv, ReturnsComplete
<1> QED BY <1>4, <1>5, <1>6, <1>7, <1>8, <1>9, <1>10, <1>11, <1>12 DEF Inv

LEMMA AbortKeeps == Inv /\ Abort => Inv'
PROOF
<1> SUFFICES ASSUME Inv, Abort PROVE Inv'
    OBVIOUS
<1>1. /\ pc \in {"raise", "batch"} /\ pc' = "down" /\ audits' = <<>> /\ responses' = <<>> /\ Close
      /\ UNCHANGED <<config, item, done, backend, rpc, base, branch, disk, cutShort, resumed>>
    BY DEF Abort
<1>2. TransportTypes' /\ ExchangeInv' /\ late' = FALSE /\ late' \in BOOLEAN /\ wait' = None
    BY <1>1, CloseFacts
<1>3. LoopTypes'
    BY <1>1 DEF Inv, LoopTypes, Places
<1>4. FileTypes'
  <2>1. cutShort' \in BOOLEAN /\ resumed' \in BOOLEAN
      BY <1>1 DEF Inv, FileTypes
  <2> QED BY <1>1, <1>2, <2>1, EmptyFacts DEF Inv, FileTypes
<1>5. RequestInv'
    BY <1>1, <1>2 DEF RequestInv, InLoop
<1>6. ModeInv'
    BY <1>1, <1>2 DEF Inv, ModeInv, InLoop, Close
<1>7. VerdictInv'
    BY <1>1, EmptyFacts DEF Inv, VerdictInv
<1>8. ProgressInv'
    BY <1>1, EmptyFacts DEF Inv, ProgressInv
<1>9. AgreeInv' /\ ReturnsComplete'
    BY <1>1 DEF Inv, AgreeInv, ReturnsComplete
<1> QED BY <1>2, <1>3, <1>4, <1>5, <1>6, <1>7, <1>8, <1>9 DEF Inv

\* All pairs of the batch have completed: each has a row.
LEMMA BatchComplete ==
    ASSUME Inv, pc = "batch", Completed = Cardinality(Items \ done)
    PROVE  ItemsOf(responses) = Items
PROOF
<1>1. responses \in Seq(Rows) /\ Distinct(responses) /\ done \subseteq Items
    BY DEF Inv, FileTypes, ProgressInv, LoopTypes
<1>2. \A k \in DOMAIN responses : responses[k] \in Rows
    BY <1>1, ElementOfSeq, LenProperties
<1>3. ItemsOf(responses) \subseteq Items
    BY <1>2 DEF ItemsOf, Rows
<1>4. IsFiniteSet(Items)
    BY ItemsFacts, FS_Interval
<1>5. /\ Cardinality(Items \ done) = Cardinality(Items) - Cardinality(done)
      /\ IsFiniteSet(done)
  <2>1. Items \cap done = done
      BY <1>1
  <2> QED BY <1>1, <1>4, <2>1, FS_Difference, FS_Subset
<1>6. Cardinality(ItemsOf(responses)) = Len(responses)
    BY <1>1, DistinctLen
<1>7. Cardinality(done) \in Nat /\ Cardinality(Items) \in Nat /\ Len(responses) \in Nat
    BY <1>1, <1>4, <1>5, FS_CardinalityType, LenProperties
<1>8. Len(responses) = Cardinality(Items)
    BY <1>5, <1>7 DEF Completed
<1> QED BY <1>3, <1>4, <1>6, <1>8, FS_Subset

LEMMA EndOfPlanKeeps == Inv /\ EndOfPlan => Inv'
PROOF
<1> SUFFICES ASSUME Inv, EndOfPlan PROVE Inv'
    OBVIOUS
<1>1. /\ pc \in {"next", "batch"} /\ pc' = "final_audits" /\ Close
      /\ UNCHANGED <<config, item, done, backend, rpc, base, branch, files, cutShort, resumed>>
    BY DEF EndOfPlan
<1>2. TransportTypes' /\ ExchangeInv' /\ late' = FALSE /\ late' \in BOOLEAN /\ wait' = None
    BY <1>1, CloseFacts
<1>3. ItemsOf(responses) = Items /\ done \subseteq Items
  <2>1. done \subseteq Items
      BY DEF Inv, LoopTypes
  <2>2. CASE pc = "next" /\ item = Len(Plan)
    <3>1. ItemsOf(responses) = done \cup (1 .. item)
        BY <2>2 DEF Inv, ProgressInv
    <3> QED BY <2>1, <2>2, <3>1, ItemsFacts
  <2>3. CASE pc = "batch" /\ Completed = Cardinality(Items \ done)
      BY <2>1, <2>3, BatchComplete
  <2> QED BY <2>2, <2>3 DEF EndOfPlan
<1>4. LoopTypes'
    BY <1>1 DEF Inv, LoopTypes, Places
<1>5. FileTypes'
  <2>1. cutShort' \in BOOLEAN /\ resumed' \in BOOLEAN
      BY <1>1 DEF Inv, FileTypes
  <2> QED BY <1>1, <1>2, <2>1 DEF Inv, FileTypes, files
<1>6. RequestInv'
    BY <1>1, <1>2 DEF RequestInv, InLoop
<1>7. ModeInv'
    BY <1>1, <1>2 DEF Inv, ModeInv, InLoop, Close
<1>8. VerdictInv'
    BY <1>1 DEF Inv, VerdictInv, files
<1>9. ProgressInv'
    BY <1>1, <1>3 DEF Inv, ProgressInv, files
<1>10. AgreeInv' /\ ReturnsComplete'
    BY <1>1 DEF Inv, AgreeInv, ReturnsComplete, files
<1> QED BY <1>2, <1>4, <1>5, <1>6, <1>7, <1>8, <1>9, <1>10 DEF Inv

LEMMA FlushAuditsKeeps == Inv /\ FlushAudits => Inv'
PROOF
<1> SUFFICES ASSUME Inv, FlushAudits PROVE Inv'
    OBVIOUS
<1>1. /\ pc \in {"flush_audits", "final_audits"}
      /\ disk' = [disk EXCEPT !.audits = File(audits, FALSE)]
      /\ pc' = IF pc = "flush_audits" THEN "flush_responses" ELSE "final_responses"
      /\ UNCHANGED <<config, item, done, backend, rpc, base, branch, transport, server, audits,
                     responses, late, cutShort, resumed>>
    BY DEF FlushAudits, counters
<1>2. disk'.audits = File(audits, FALSE) /\ disk'.responses = disk.responses
    BY <1>1 DEF Inv, FileTypes
<1>3. LoopTypes'
    BY <1>1 DEF Inv, LoopTypes, Places
<1>4. TransportTypes' /\ ExchangeInv'
    BY <1>1 DEF Inv, TransportTypes, ExchangeInv, transport, server
<1>5. FileTypes'
  <2>1. late' \in BOOLEAN /\ cutShort' \in BOOLEAN /\ resumed' \in BOOLEAN
      BY <1>1 DEF Inv, FileTypes
  <2>2. File(audits, FALSE) \in Files
      BY DEF Inv, FileTypes, File, Files
  <2> QED BY <1>1, <2>1, <2>2 DEF Inv, FileTypes
<1>6. RequestInv'
    BY <1>1 DEF Inv, RequestInv, InLoop, transport, server
<1>7. ModeInv'
    BY <1>1 DEF Inv, ModeInv, InLoop, transport, server
<1>8. VerdictInv'
    BY <1>1, <1>2 DEF Inv, VerdictInv
<1>9. ProgressInv'
    BY <1>1, <1>2 DEF Inv, ProgressInv
<1>10. AgreeInv' /\ ReturnsComplete'
    BY <1>1, <1>2 DEF Inv, AgreeInv, ReturnsComplete
<1> QED BY <1>3, <1>4, <1>5, <1>6, <1>7, <1>8, <1>9, <1>10 DEF Inv

LEMMA FlushResponsesKeeps == Inv /\ FlushResponses => Inv'
PROOF
<1> SUFFICES ASSUME Inv, FlushResponses PROVE Inv'
    OBVIOUS
<1>1. /\ pc \in {"flush_responses", "final_responses"}
      /\ disk' = [disk EXCEPT !.responses = File(responses, FALSE)]
      /\ pc' = IF pc = "final_responses" THEN "returned"
               ELSE IF config.mode = "batch" THEN "batch" ELSE "next"
      /\ cutShort' = resumed
      /\ UNCHANGED <<config, item, done, backend, rpc, base, branch, transport, server, audits,
                     responses, late, resumed>>
    BY DEF FlushResponses
<1>2. disk'.audits = disk.audits /\ disk'.responses = File(responses, FALSE)
    BY <1>1 DEF Inv, FileTypes
<1>3. disk'.responses.rows = responses /\ disk'.responses.torn = FALSE
    BY <1>2 DEF File
<1>4. LoopTypes'
    BY <1>1 DEF Inv, LoopTypes, Places
<1>5. TransportTypes' /\ ExchangeInv'
    BY <1>1 DEF Inv, TransportTypes, ExchangeInv, transport, server
<1>6. FileTypes'
  <2>1. late' \in BOOLEAN /\ cutShort' \in BOOLEAN /\ resumed' \in BOOLEAN
      BY <1>1 DEF Inv, FileTypes
  <2>2. File(responses, FALSE) \in Files
      BY DEF Inv, FileTypes, File, Files
  <2> QED BY <1>1, <2>1, <2>2 DEF Inv, FileTypes
<1>7. RequestInv'
  <2>1. config.mode = "batch" => base = None
      BY DEF Inv, ModeInv, LoopTypes
  <2> QED BY <1>1, <2>1 DEF Inv, RequestInv, InLoop, transport, server
<1>8. ModeInv'
  <2>1. config.mode = "batch" => ~late /\ ~alive /\ wait = None /\ turn = "none" /\ stale = 0
            /\ pipe = <<>> /\ buf = <<>> /\ inbox = <<>> /\ states = <<>>
      BY <1>1 DEF Inv, ModeInv, LoopTypes
  <2> QED BY <1>1, <2>1 DEF Inv, ModeInv, InLoop, transport, server
<1>9. VerdictInv'
    BY <1>1, <1>3 DEF Inv, VerdictInv
<1>10. ProgressInv'
    BY <1>1, <1>3 DEF Inv, ProgressInv, LoopTypes
<1>11. AgreeInv'
    BY <1>1, <1>2 DEF Inv, AgreeInv
<1>12. ReturnsComplete'
  <2>1. SUFFICES ASSUME pc' = "returned" PROVE ReturnsComplete'
      BY DEF ReturnsComplete
  <2>2. pc = "final_responses" /\ ItemsOf(responses) = Items /\ Distinct(responses)
        /\ responses \in Seq(Rows)
      BY <1>1, <2>1 DEF Inv, ProgressInv, FileTypes
  <2>3. Len(responses) = Len(Plan)
    <3>1. Cardinality(Items) = Len(responses)
        BY <2>2, DistinctLen
    <3>2. Cardinality(1 .. Len(Plan)) = Len(Plan)
        BY ItemsFacts, FS_Interval
    <3> QED BY <3>1, <3>2, ItemsFacts
  <2>4. {responses[k].item : k \in DOMAIN responses} = Items
      BY <2>2 DEF ItemsOf
  <2>5. resumed \/ disk'.audits = disk'.responses
      BY <1>1, <1>2, <2>2 DEF Inv, AgreeInv
  <2> QED BY <1>1, <1>3, <2>3, <2>4, <2>5 DEF ReturnsComplete
<1> QED BY <1>4, <1>5, <1>6, <1>7, <1>8, <1>9, <1>10, <1>11, <1>12 DEF Inv

LEMMA CrashKeeps == Inv /\ Crash => Inv'
PROOF
<1> SUFFICES ASSUME Inv, Crash PROVE Inv'
    OBVIOUS
<1> DEFINE flushing == {"flush_audits", "final_audits", "flush_responses", "final_responses"}
<1>1. /\ pc \notin {"down", "returned"} /\ pc' = "down" /\ audits' = <<>> /\ responses' = <<>>
      /\ Close /\ cutShort' = (cutShort \/ pc \in flushing)
      /\ UNCHANGED <<config, item, done, backend, rpc, base, branch, resumed>>
    BY DEF Crash
<1>2. \/ disk' = disk
      \/ pc \in flushing /\ \E f \in Cut(audits) : disk' = [disk EXCEPT !.audits = f]
      \/ pc \in flushing /\ \E f \in Cut(responses) : disk' = [disk EXCEPT !.responses = f]
    BY DEF Crash
<1>3. TransportTypes' /\ ExchangeInv' /\ late' = FALSE /\ late' \in BOOLEAN /\ wait' = None
    BY <1>1, CloseFacts
<1>4. /\ audits \in Seq(Rows) /\ responses \in Seq(Rows)
      /\ disk \in [audits : Files \cup {None}, responses : Files \cup {None}]
    BY DEF Inv, FileTypes
<1>5. /\ disk' \in [audits : Files \cup {None}, responses : Files \cup {None}]
      /\ \/ disk'.responses = disk.responses
         \/ \E f \in Cut(responses) : disk'.responses = f
      /\ disk' = disk \/ pc \in flushing
    BY <1>2, <1>4, CutFacts
<1>6. LoopTypes'
    BY <1>1 DEF Inv, LoopTypes, Places
<1>7. FileTypes'
  <2>1. cutShort' \in BOOLEAN /\ resumed' \in BOOLEAN
      BY <1>1 DEF Inv, FileTypes
  <2> QED BY <1>1, <1>3, <1>5, <2>1, EmptyFacts DEF FileTypes
<1>8. RequestInv'
    BY <1>1, <1>3 DEF RequestInv, InLoop
<1>9. ModeInv'
    BY <1>1, <1>3 DEF Inv, ModeInv, InLoop, Close
<1>10. VerdictInv'
  <2>1. /\ \A k \in DOMAIN responses : RowGood(config, responses[k])
        /\ disk.responses # None =>
              \A k \in DOMAIN disk.responses.rows : RowGood(config, disk.responses.rows[k])
      BY DEF Inv, VerdictInv
  <2>2. disk'.responses # None =>
              \A k \in DOMAIN disk'.responses.rows : RowGood(config, disk'.responses.rows[k])
      BY <1>4, <1>5, <2>1, CutFacts
  <2> QED BY <1>1, <2>2, EmptyFacts DEF VerdictInv
<1>11. ProgressInv'
  <2>1. Distinct(responses) /\ (disk.responses # None => Distinct(disk.responses.rows))
      BY DEF Inv, ProgressInv
  <2>2. disk'.responses # None => Distinct(disk'.responses.rows)
      BY <1>4, <1>5, <2>1, CutFacts
  <2> QED BY <1>1, <2>2, EmptyFacts DEF ProgressInv
<1>12. AgreeInv' /\ ReturnsComplete'
  <2>1. pc \in flushing => cutShort'
      BY <1>1
  <2>2. pc \notin flushing => cutShort' = cutShort /\ disk' = disk
    <3>1. cutShort \in BOOLEAN
        BY DEF Inv, FileTypes
    <3> QED BY <1>1, <1>5, <3>1
  <2>3. cutShort' \/ disk'.audits = disk'.responses
      BY <2>1, <2>2 DEF Inv, AgreeInv
  <2> QED BY <1>1, <2>3 DEF AgreeInv, ReturnsComplete
<1> QED BY <1>3, <1>6, <1>7, <1>8, <1>9, <1>10, <1>11, <1>12 DEF Inv

LEMMA InitHolds == Init => Inv
PROOF
<1> SUFFICES ASSUME Init PROVE Inv
    OBVIOUS
<1>1. LoopTypes
  <2>1. 0 \in 0 .. Len(Plan)
      BY ItemsFacts
  <2> QED BY <2>1 DEF Init, LoopTypes, Places
<1>2. TransportTypes /\ ExchangeInv
    BY EmptyFacts DEF Init, TransportTypes, ExchangeInv
<1>3. FileTypes
    BY EmptyFacts DEF Init, FileTypes
<1>4. RequestInv /\ ModeInv
    BY DEF Init, RequestInv, ModeInv, InLoop
<1>5. VerdictInv /\ ProgressInv
    BY EmptyFacts DEF Init, VerdictInv, ProgressInv
<1>6. AgreeInv /\ ReturnsComplete
    BY DEF Init, AgreeInv, ReturnsComplete
<1> QED BY <1>1, <1>2, <1>3, <1>4, <1>5, <1>6 DEF Inv

LEMMA NextKeeps == Inv /\ [Next]_vars => Inv'
PROOF
<1> SUFFICES ASSUME Inv, [Next]_vars PROVE Inv'
    OBVIOUS
<1>1. CASE LoopStep
  <2>1. CASE \E resume \in BOOLEAN : Start(resume)
      BY <2>1, StartKeeps
  <2>2. CASE Load \/ BeginPair \/ Registered \/ BeginAction \/ Branched \/ BeginApplyAt
      BY <2>2, LoadKeeps, BeginPairKeeps, RegisteredKeeps, BeginActionKeeps, BranchedKeeps,
         BeginApplyAtKeeps
  <2>3. CASE AttemptFails \/ BeginApply \/ ApplyFile \/ Audited \/ ApplyFails \/ AttemptRaises
      BY <2>3, AttemptFailsKeeps, BeginApplyKeeps, ApplyFileKeeps, AuditedKeeps,
         ApplyFailsKeeps, AttemptRaisesKeeps
  <2>4. CASE \E i \in Items : BatchRow(i)
      BY <2>4, BatchRowKeeps
  <2>5. CASE Abort \/ EndOfPlan \/ FlushAudits \/ FlushResponses
      BY <2>5, AbortKeeps, EndOfPlanKeeps, FlushAuditsKeeps, FlushResponsesKeeps
  <2> QED BY <1>1, <2>1, <2>2, <2>3, <2>4, <2>5 DEF LoopStep
<1>2. CASE StaleRead \/ SkipNoise \/ ReadOn
    BY <1>2, StaleReadKeeps, SkipNoiseKeeps, ReadOnKeeps
<1>3. CASE ServerStep
    BY <1>3, HandleKeeps, PrintNoiseKeeps, ServerDiesKeeps DEF ServerStep
<1>4. CASE Crash
    BY <1>4, CrashKeeps
<1>5. CASE UNCHANGED vars
  <2> USE <1>5 DEF vars, loop, transport, server, files, counters
  <2>1. LoopTypes' /\ TransportTypes' /\ FileTypes'
      BY DEF Inv, LoopTypes, TransportTypes, FileTypes
  <2>2. ExchangeInv' /\ RequestInv' /\ ModeInv'
      BY DEF Inv, ExchangeInv, RequestInv, ModeInv
  <2>3. VerdictInv' /\ AgreeInv' /\ ReturnsComplete'
      BY DEF Inv, VerdictInv, AgreeInv, ReturnsComplete
  <2>4. ProgressInv'
      BY DEF Inv, ProgressInv
  <2> QED BY <2>1, <2>2, <2>3, <2>4 DEF Inv
<1> QED BY <1>1, <1>2, <1>3, <1>4, <1>5 DEF Next

\* The invariant holds in every reachable state, for every plan, flush period
\* and bound on noise, failures and invocations.
THEOREM Invariance == Spec => []Inv
PROOF
<1>1. Init => Inv
    BY InitHolds
<1>2. Inv /\ [Next]_vars => Inv'
    BY NextKeeps
<1> QED BY <1>1, <1>2, PTL DEF Spec

\* A row holds the verdict of its own action on its own task, although request
\* never compares the id of a reply with its own; the exception are rows written
\* after a timeout in the stateful mode, which goes on with the same server.
THEOREM VerdictsAreOwn == Spec => []VerdictIsOwn
PROOF
<1>1. Inv => VerdictIsOwn
    BY DEF Inv, VerdictInv, VerdictIsOwn, RowGood
<1> QED BY <1>1, Invariance, PTL

\* An invocation that returns leaves one row for every pair, whatever ended the
\* ones before it and whatever files they left; the audit file has the same rows
\* unless the files resumed were those of a flush that was cut short.
THEOREM ReturnsAreComplete == Spec => []ReturnsComplete
PROOF
<1>1. Inv => ReturnsComplete
    BY DEF Inv
<1> QED BY <1>1, Invariance, PTL
==========================================================================
