-------------------------- MODULE JobProcessProofs --------------------------
(***************************************************************************)
(* Theorems about JobProcess for every pipe, every deadline and every size  *)
(* of a result.                                                             *)
(***************************************************************************)
EXTENDS JobProcess, TLAPS

\* The types, and which of the child's variables have been set at each point of
\* its life: a message is put once, by a child that is no longer working.
Shape ==
    /\ limit \in Nat /\ clock \in Nat /\ clock <= JobTimeout
    /\ parent \in {"inline", "start", "waiting", "reading", "terminating", "killing", "returned"}
    /\ child \in {"none", "working", "flushing", "exited", "dead"}
    /\ lean \in {"none", "running", "ended"}
    /\ message \in Messages \cup {NoMessage}
    /\ putAt \in Nat /\ sent \in Nat
    /\ verdict \in Verdicts

\* The child and what it has put and sent.
ChildInv ==
    /\ child \in {"none", "working"} => message = NoMessage
    /\ child \in {"flushing", "exited"} => message \in Messages
    /\ sent <= message.size
    /\ child = "exited" => sent = message.size
    /\ message # NoMessage => lean # "running"

\* The worker thread: what it knows of the child at each point.
ParentInv ==
    /\ parent \in {"inline", "start"} => child = "none"
    /\ parent = "waiting" => child # "none"
    /\ parent = "reading" => child \in {"exited", "dead"}
    /\ parent \in {"terminating", "killing"} => clock = JobTimeout
    /\ verdict # NoVerdict => parent = "returned"
    /\ verdict.killed => clock = JobTimeout

\* Time passes only for a child that waits: for Lean, within the executor's
\* limit, or with a pipe that is full.
ClockInv ==
    message.size <= Capacity =>
        /\ clock <= limit
        /\ message # NoMessage => putAt = clock

Inv == Shape /\ ChildInv /\ ParentInv /\ ClockInv /\ SuccessIsRead

----------------------------------------------------------------------------
LEMMA InitInv == Init => Inv
BY ProcessAssumption
   DEF Init, Inv, Shape, ChildInv, ParentInv, ClockInv, SuccessIsRead, NoMessage, NoVerdict,
       Verdict, Verdicts

\* What is known of a message.
LEMMA MessageFacts ==
    /\ NoMessage.size = 0 /\ NoMessage \notin Messages
    /\ \A m \in Messages : /\ m.size \in Nat \ {0} /\ m.ok \in BOOLEAN
                           /\ m.ok => m.audit \in {"timeout", "other"}
BY ProcessAssumption DEF NoMessage, Messages

LEMMA ParentPreserves == ASSUME Inv, ParentNext PROVE Inv'
<1> USE ProcessAssumption, MessageFacts
    DEF Inv, Shape, ChildInv, ParentInv, ClockInv, SuccessIsRead, childVars, workerVars,
        Return, ChildAlive, Verdict, NoVerdict, Verdicts
<1>1. CASE RunInline
  BY <1>1 DEF RunInline
<1>2. CASE StartChild
  BY <1>2 DEF StartChild
<1>3. CASE JoinExpires
  BY <1>3 DEF JoinExpires
<1>4. CASE JoinReturns
  BY <1>4 DEF JoinReturns
<1>5. CASE TerminateExpires
  BY <1>5 DEF TerminateExpires
<1>6. CASE ReturnTimeout
  BY <1>6 DEF ReturnTimeout
<1>7. CASE ReadResult
  <2>1. child \in {"exited", "dead"} /\ ~verdict.killed /\ verdict = NoVerdict
    BY <1>7 DEF ReadResult
  <2>2. ASSUME sent > 0, message.ok
        PROVE  /\ message \in Messages /\ lean # "running"
               /\ sent = message.size
    BY <1>7, <2>2 DEF ReadResult
  <2>3. /\ parent' = "returned" /\ ~verdict'.killed
        /\ verdict' \in Verdicts /\ verdict' # NoVerdict
        /\ verdict'.status = "succeeded" =>
              message.ok /\ message.audit # "timeout" /\ sent > 0
    <3>1. CASE sent > 0 /\ message.ok
      <4>1. verdict' = Verdict(IF message.audit = "timeout" THEN "timeout" ELSE "succeeded", FALSE)
        BY <1>7, <3>1 DEF ReadResult
      <4> QED BY <1>7, <3>1, <4>1 DEF ReadResult
    <3>2. CASE ~(sent > 0 /\ message.ok)
      <4>1. verdict' = Verdict("failed", FALSE)
        BY <1>7, <3>2 DEF ReadResult
      <4> QED BY <1>7, <4>1 DEF ReadResult
    <3> QED BY <3>1, <3>2
  <2>4. /\ UNCHANGED <<limit, clock, child, lean, message, putAt, sent>>
    BY <1>7 DEF ReadResult
  <2>5. SuccessIsRead'
    BY <2>1, <2>2, <2>3, <2>4
  <2> QED BY <2>1, <2>3, <2>4, <2>5
<1> QED BY <1>1, <1>2, <1>3, <1>4, <1>5, <1>6, <1>7 DEF ParentNext

LEMMA ChildPreserves ==
    ASSUME Inv, ChildNext \/ Tick \/ LeanEnds \/ ChildCrashes \/ SignalTakesEffect
    PROVE  Inv'
<1> USE ProcessAssumption, MessageFacts
    DEF Inv, Shape, ChildInv, ParentInv, ClockInv, SuccessIsRead, childVars, workerVars, ChildAlive
<1>1. CASE StartLean
  BY <1>1 DEF StartLean
<1>2. CASE ExecutorTimeout
  BY <1>2 DEF ExecutorTimeout, Put, Messages
<1>3. CASE PutResult
  BY <1>3 DEF PutResult, Put
<1>4. CASE Feed
  BY <1>4 DEF Feed
<1>5. CASE ChildExits
  BY <1>5 DEF ChildExits
<1>6. CASE Tick
  BY <1>6 DEF Tick, ChildWaits
<1>7. CASE LeanEnds
  BY <1>7 DEF LeanEnds
<1>8. CASE ChildCrashes \/ SignalTakesEffect
  BY <1>8 DEF ChildCrashes, SignalTakesEffect
<1> QED BY <1>1, <1>2, <1>3, <1>4, <1>5, <1>6, <1>7, <1>8 DEF ChildNext

THEOREM Invariance == Spec => []Inv
<1>1. Inv /\ UNCHANGED vars => Inv'
  BY DEF Inv, Shape, ChildInv, ParentInv, ClockInv, SuccessIsRead, ChildAlive, vars
<1>2. Inv /\ [Next]_vars => Inv'
  BY <1>1, ParentPreserves, ChildPreserves DEF Next
<1> QED BY <1>2, InitInv, PTL DEF Spec

----------------------------------------------------------------------------
\* A success that _run_job_process returns for a child is a whole record of a
\* child that has gone, with no Lean process left behind, whatever the sizes.
THEOREM SuccessIsNeverMadeUp == Spec => []SuccessIsRead
<1>1. Inv => SuccessIsRead
  BY DEF Inv
<1> QED BY <1>1, Invariance, PTL

\* A killed timeout, which counts against the action, is Lean's own delay or a
\* result larger than the pipe, for every pipe and every pair of deadlines.
THEOREM KilledIsExplained == Spec => []KilledMeansLateOrLarge
<1>1. Inv => KilledMeansLateOrLarge
  BY MessageFacts, ProcessAssumption
     DEF Inv, Shape, ParentInv, ClockInv, KilledMeansLateOrLarge
<1> QED BY <1>1, Invariance, PTL
=============================================================================
