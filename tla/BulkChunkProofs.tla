------------------------- MODULE BulkChunkProofs -------------------------
(***************************************************************************)
(* Proofs about BulkChunk, for every chunk length, every set of scripts and *)
(* every time limit.                                                        *)
(*                                                                          *)
(* The invariant says how the parts on the stack lie: in order, without a    *)
(* gap, none of them empty, from the first job without a result to the last  *)
(* of the chunk.  Every run either ends a part or splits one, which bounds   *)
(* both.  A label is earned because a success is always that of a file with   *)
(* one script, and a timeout is recorded for a part of one job only.  A       *)
(* failure is explained because every message but that of an open comment     *)
(* stays with its own block, and a script Lean read takes its part of the     *)
(* file's time: the sum of the costs of a file is no less than any of them.   *)
(* When Lean dies over a file, the blocks it did not reach have no message,   *)
(* and count as successes to be confirmed unless no block has one.            *)
(***************************************************************************)
EXTENDS BulkChunk, SequenceTheorems, FiniteSetTheorems, WellFoundedInduction, TLAPS

\* The first job that has no result.
Top(st) == IF st = <<>> THEN Chunk + 1 ELSE st[1][1]

\* The parts lie in order from the first of them to the end of the chunk, and
\* are not empty, so that those behind part i hold a job each.
Shape(st) ==
    /\ st \in Seq(Jobs \X Jobs)
    /\ \A i \in DOMAIN st : st[i][1] <= st[i][2] /\ st[i][2] + (Len(st) - i) <= Chunk
    /\ \A i \in DOMAIN st : i > 1 => st[i][1] = st[i - 1][2] + 1
    /\ st # <<>> => st[Len(st)][2] = Chunk

Verdicts == Statuses \cup {"none", "raised"}

Inv ==
    /\ scripts \in [Jobs -> Scripts] /\ importFails \in BOOLEAN
    /\ attempts \in Nat /\ splits \in Nat
    /\ results \in [Jobs -> Verdicts] /\ silenced \subseteq Jobs
    /\ Shape(stack)
    /\ \A j \in Jobs : results[j] # "none" <=> j < Top(stack)
    /\ attempts + Len(stack) = 2 * splits + 1
    /\ splits + 2 <= Top(stack) + Len(stack)
    /\ LabelsAreEarned

----------------------------------------------------------------------------
(* Lean on a file of one script.                                           *)

\* The sum over one script is its cost.
LEMMA FoldSingle ==
    ASSUME NEW s, s.cost \in Nat
    PROVE  FoldSeq(LAMBDA x, acc : x.cost + acc, 0, <<s>>) = s.cost
PROOF
<1> DEFINE q == <<s>>
           step(f) == [x \in SUBSET DOMAIN q |->
                          IF x = {} THEN 0
                          ELSE q[CHOOSE y \in x : TRUE].cost + f[x \ {CHOOSE y \in x : TRUE}]]
           fold == CHOOSE f : f = step(f)
<1>1. FoldSeq(LAMBDA x, acc : x.cost + acc, 0, q) = fold[DOMAIN q]
    BY Zenon DEF FoldSeq, FoldFunction, FoldFunctionOnSet, MapThenFoldSet
<1>2. DOMAIN q = {1} /\ q[1] = s
    OBVIOUS
<1>3. SUBSET {1} = {{}, {1}} /\ (CHOOSE y \in {1} : TRUE) = 1 /\ {1} \ {1} = {}
    OBVIOUS
<1> HIDE DEF q
<1>4. fold = step(fold)
  <2> DEFINE w == [x \in SUBSET DOMAIN q |-> IF x = {} THEN 0 ELSE s.cost]
  <2>1. ASSUME NEW x \in SUBSET DOMAIN q, x # {}
        PROVE  q[CHOOSE y \in x : TRUE].cost + w[x \ {CHOOSE y \in x : TRUE}] = s.cost
    <3>1. x = {1} /\ (CHOOSE y \in x : TRUE) = 1 /\ x \ {1} = {}
        BY <1>2, <1>3, <2>1
    <3>2. w[{}] = 0
        OBVIOUS
    <3>3. q[CHOOSE y \in x : TRUE].cost = s.cost
        BY <1>2, <3>1
    <3>4. w[x \ {CHOOSE y \in x : TRUE}] = 0
        BY <3>1, <3>2
    <3> QED BY <3>3, <3>4
  <2>2. w = step(w)
      BY <2>1
  <2> QED BY <2>2, Zenon
<1> HIDE DEF fold
<1>5. fold[{}] = 0
    BY <1>4
<1>6. fold[{1}] = q[CHOOSE y \in {1} : TRUE].cost + fold[{1} \ {CHOOSE y \in {1} : TRUE}]
    BY <1>2, <1>3, <1>4
<1>7. fold[{1}] = s.cost
    BY <1>2, <1>3, <1>5, <1>6
<1> QED BY <1>1, <1>2, <1>7 DEF q

\* One script: where Lean stops reading, whether it takes too long, and the
\* block that owns a line.
LEMMA SingleFacts ==
    ASSUME NEW s \in Scripts
    PROVE  /\ FirstComment(<<s>>) = IF s.kind = "comment" THEN 1 ELSE 2
           /\ TimesOut(<<s>>) <=> ~importFails /\ s.cost > Budget
           /\ 1 \in Ends(<<s>>) /\ ~importFails => ~(s.cost > Budget)
           /\ Owner(1, 3) = 1 /\ Owner(1, 4) = 1
PROOF
<1>1. s.cost \in Nat /\ s.kind \in Kinds /\ Budget \in Nat
    BY ChunkAssumption
<1> DEFINE q == <<s>>
<1>2. Len(q) = 1 /\ DOMAIN q = {1} /\ q[1] = s
    OBVIOUS
<1> HIDE DEF q
<1>3. \A S : 1 \in S /\ (\A y \in S : y \in {1, 2}) => Min(S) = 1
    BY DEF Min
<1>4. Min({2}) = 2
    BY DEF Min
<1>5. FirstComment(q) = IF s.kind = "comment" THEN 1 ELSE 2
  <2>1. CASE s.kind = "comment"
    <3>1. {k \in DOMAIN q : q[k].kind = "comment"} \cup {Len(q) + 1} = {1, 2}
        BY <1>2, <2>1
    <3> QED BY <3>1, <2>1, <1>3 DEF FirstComment
  <2>2. CASE s.kind # "comment"
    <3>1. {k \in DOMAIN q : q[k].kind = "comment"} \cup {Len(q) + 1} = {2}
        BY <1>2, <2>2
    <3> QED BY <3>1, <2>2, <1>4 DEF FirstComment
  <2> QED BY <2>1, <2>2
<1>6. Min({FirstComment(q), Len(q)}) = 1
    BY <1>2, <1>3, <1>5
<1>7. SubSeq(<<s>>, 1, 1) = <<s>>
  <2>1. <<s>> \in Seq({s}) /\ Len(<<s>>) = 1 /\ <<s>>[1] = s
      OBVIOUS
  <2>2. /\ SubSeq(<<s>>, 1, 1) \in Seq({s}) /\ Len(SubSeq(<<s>>, 1, 1)) = 1
        /\ SubSeq(<<s>>, 1, 1)[1] = s
      BY <2>1, SubSeqProperties
  <2> DEFINE t == SubSeq(<<s>>, 1, 1)
             u == <<s>>
  <2>3. t \in Seq({s}) /\ u \in Seq({s}) /\ Len(t) = 1 /\ Len(u) = 1 /\ t[1] = u[1]
      BY <2>1, <2>2
  <2> HIDE DEF t, u
  <2>4. t = u
      BY <2>3, SeqEqual
  <2> QED BY <2>4 DEF t, u
<1>8. TimesOut(q) <=> ~importFails /\ s.cost > Budget
  <2>1. SubSeq(q, 1, Min({FirstComment(q), Len(q)})) = <<s>>
      BY <1>6, <1>7 DEF q
  <2> QED BY <2>1, <1>1, FoldSingle DEF TimesOut, Cost
<1>9. Owner(1, 3) = 1 /\ Owner(1, 4) = 1
  <2>1. /\ {k \in 1 .. 1 : Start(k) <= 3 /\ (k = 1 \/ 3 <= Start(k + 1))} = {1}
        /\ {k \in 1 .. 1 : Start(k) <= 4 /\ (k = 1 \/ 4 <= Start(k + 1))} = {1}
      BY DEF Start
  <2> QED BY <2>1, <1>3 DEF Owner
<1>10. 1 \in Ends(q) /\ ~importFails => ~(s.cost > Budget)
  <2>1. Min({FirstComment(q), 1}) = 1
      BY <1>3, <1>5
  <2>2. Cost(q, 1) = s.cost
      BY <1>1, <1>7, FoldSingle DEF Cost, q
  <2>3. 1 # Len(q) + 1
      BY <1>2
  <2>4. 1 \in Ends(q) /\ ~importFails => Cost(q, 1) <= Budget
      BY <2>1, <2>3 DEF Ends
  <2> QED BY <1>1, <2>2, <2>4
<1> QED BY <1>5, <1>8, <1>9, <1>10 DEF q

\* What the messages about one script say about it, also when Lean dies over it.
LEMMA SingleVerdict ==
    ASSUME NEW s \in Scripts, NEW p \in 0 .. 2, p = 0 \/ p \in Ends(<<s>>)
    PROVE  /\ RunFile(<<s>>, p)[1] \in {"success", "timeout"} => Alone(s) = RunFile(<<s>>, p)[1]
           /\ RunFile(<<s>>, p)[1] = "fail" =>
                 Alone(s) = "fail" \/ s.kind = "warned" \/ Silent(<<s>>, p)
PROOF
<1> DEFINE q == <<s>>
           said == Said(q, p)
           found == {m[2] : m \in {x \in said : x[1] < Start(1) \/ Owner(Len(q), x[1]) = 1}}
           late == p = 2 /\ TimesOut(q)
<1>1. Len(q) = 1 /\ DOMAIN q = {1} /\ q[1] = s
    OBVIOUS
<1>1a. p \in {0, 1, 2} /\ (Dies(q, p) <=> p # 2)
    BY <1>1 DEF Dies
<1>2. RunFile(q, p)[1] = IF late \/ "timeout" \in found THEN "timeout"
                         ELSE IF found = {} /\ ~Silent(q, p) THEN "success" ELSE "fail"
    BY <1>1, <1>1a DEF RunFile
<1>3. /\ FirstComment(q) = IF s.kind = "comment" THEN 1 ELSE 2
      /\ TimesOut(q) <=> ~importFails /\ s.cost > Budget
      /\ 1 \in Ends(q) /\ ~importFails => ~(s.cost > Budget)
      /\ Owner(1, 3) = 1 /\ Owner(1, 4) = 1 /\ Start(1) = 2 /\ Start(p + 1) = 2 * p + 2
    BY SingleFacts DEF Start
<1>4. s.kind \in Kinds
    BY ChunkAssumption
<1> SUFFICES /\ RunFile(q, p)[1] \in {"success", "timeout"} => Alone(s) = RunFile(q, p)[1]
             /\ RunFile(q, p)[1] = "fail" => Alone(s) = "fail" \/ s.kind = "warned" \/ Silent(q, p)
    OBVIOUS
<1> HIDE DEF q
<1>4a. Owner(Len(q), 3) = 1 /\ Owner(Len(q), 4) = 1
    BY <1>1, <1>3
<1>4b. \A a, t : said = {<<a, t>>} /\ (a < Start(1) \/ Owner(Len(q), a) = 1) => found = {t}
  <2>1. TAKE a, t
  <2>2. HAVE said = {<<a, t>>} /\ (a < Start(1) \/ Owner(Len(q), a) = 1)
  <2>3. {m[2] : m \in {x \in {<<a, t>>} : x[1] < Start(1) \/ Owner(Len(q), x[1]) = 1}} = {t}
    <3>1. <<a, t>>[1] = a /\ <<a, t>>[2] = t
        OBVIOUS
    <3>2. {x \in {<<a, t>>} : x[1] < Start(1) \/ Owner(Len(q), x[1]) = 1} = {<<a, t>>}
        BY <2>2, <3>1
    <3>3. {m[2] : m \in {<<a, t>>}} = {t}
        BY <3>1
    <3> QED BY <3>2, <3>3
  <2> QED BY <2>2, <2>3
<1>4c. said = {} => found = {}
    OBVIOUS
<1>4d. \A a, t : Messages(q) = {<<a, t>>} => said = {} \/ said = {<<a, t>>}
    BY DEF Said
<1>4e. Messages(q) = {} => said = {}
    BY DEF Said
<1>4f. \A a, t : Messages(q) = {<<a, t>>} /\ a <= 2 * p + 2 => said = {<<a, t>>}
    BY <1>3 DEF Said
<1>4g. \A a, t : Messages(q) = {<<a, t>>} /\ ~(a <= 2 * p + 2) => said = {}
    BY <1>3 DEF Said
<1> HIDE DEF found, said
\* Lean dies without a word.
<1>4h. CASE said = {} /\ p # 2
  <2>1. Silent(q, p) /\ found = {}
      BY <1>1a, <1>4c, <1>4h DEF Silent, said
  <2>2. RunFile(q, p)[1] = "fail"
      BY <1>2, <1>4h, <2>1
  <2> QED BY <2>1, <2>2
<1>4i. p = 2 => ~Silent(q, p)
    BY <1>1a DEF Silent
<1>5. CASE importFails
  <2>1. Messages(q) = {<<1, "fail">>}
      BY <1>5 DEF Messages
  <2>2. found = {"fail"}
    <3>1. 1 < Start(1) /\ 1 <= 2 * p + 2
        BY <1>3
    <3>2. said = {<<1, "fail">>}
        BY <2>1, <3>1, <1>4f
    <3> QED BY <3>1, <3>2, <1>4b
  <2> QED BY <1>2, <1>3, <1>5, <2>2 DEF Alone
\* One message, which Lean has given: it died in time, or not at all.
<1>5a. ASSUME ~importFails, NEW a \in {3, 4}, NEW t, Messages(q) = {<<a, t>>}, ~(said = {} /\ p # 2)
       PROVE  /\ found = {t} /\ (late <=> s.cost > Budget)
              /\ RunFile(q, p)[1] = IF s.cost > Budget \/ t = "timeout" THEN "timeout" ELSE "fail"
  <2>1. p # 0
    <3>1. p = 0 => ~(a <= 2 * p + 2)
        BY <1>5a
    <3>2. p = 0 => said = {}
        BY <1>4g, <1>5a, <3>1
    <3> QED BY <1>5a, <3>2
  <2>2. said = {<<a, t>>}
    <3>1. p = 2 => a <= 2 * p + 2
        BY <1>5a
    <3> QED BY <1>4d, <1>4f, <1>5a, <3>1
  <2>3. found = {t}
      BY <1>4a, <1>4b, <1>5a, <2>2
  <2>4. late <=> s.cost > Budget
      BY <1>1a, <1>3, <1>5a, <2>1 DEF q
  <2>5. "timeout" \in found <=> t = "timeout"
      BY <2>3
  <2>6. found # {}
      BY <2>3
  <2> QED BY <1>2, <2>3, <2>4, <2>5, <2>6
<1>6. CASE ~importFails /\ s.kind = "comment" /\ ~(said = {} /\ p # 2)
  <2>1. Messages(q) = {<<4, "fail">>}
      BY <1>1, <1>3, <1>6 DEF Messages
  <2>2. RunFile(q, p)[1] = IF s.cost > Budget THEN "timeout" ELSE "fail"
      BY <1>5a, <1>6, <2>1
  <2> QED BY <1>6, <2>2 DEF Alone
<1>7. CASE ~importFails /\ s.kind \in {"wrong", "warned", "heartbeats"} /\ ~(said = {} /\ p # 2)
  <2> DEFINE text == IF s.kind = "heartbeats" THEN "timeout" ELSE "fail"
  <2>1. Messages(q) = {<<3, text>>}
      BY <1>1, <1>3, <1>7 DEF Messages, Start
  <2>2. RunFile(q, p)[1] = IF s.cost > Budget \/ text = "timeout" THEN "timeout" ELSE "fail"
      BY <1>5a, <1>7, <2>1
  <2> QED BY <1>7, <2>2 DEF Alone
<1>8. CASE ~importFails /\ s.kind = "dangling" /\ ~(said = {} /\ p # 2)
  <2>1. Messages(q) = {<<4, "fail">>}
      BY <1>1, <1>3, <1>8 DEF Messages, Start
  <2>2. RunFile(q, p)[1] = IF s.cost > Budget THEN "timeout" ELSE "fail"
      BY <1>5a, <1>8, <2>1
  <2> QED BY <1>8, <2>2 DEF Alone
<1>9. CASE ~importFails /\ s.kind = "proof" /\ ~(said = {} /\ p # 2)
  <2>1. Messages(q) = {}
      BY <1>1, <1>3, <1>9 DEF Messages, Start
  <2>2. found = {} /\ p = 2
      BY <2>1, <1>4c, <1>4e, <1>9
  <2> QED BY <1>2, <1>3, <1>4i, <1>9, <2>2 DEF Alone
<1> QED BY <1>4, <1>4h, <1>5, <1>6, <1>7, <1>8, <1>9 DEF q, Kinds

\* A file's verdicts; a success is that of the script by itself.
LEMMA PairsFacts ==
    ASSUME NEW file \in Seq(Scripts), NEW k \in DOMAIN file, NEW p \in Ends(file), NEW dead
    PROVE  /\ DOMAIN RunPairs(file, p, dead) = DOMAIN file
           /\ RunPairs(file, p, dead)[k] \in Statuses
           /\ RunPairs(file, p, dead)[k] = "success" => Alone(file[k]) = "success"
           /\ Len(file) = 1 /\ RunPairs(file, p, dead)[k] = "timeout" => Alone(file[k]) = "timeout"
PROOF
<1> DEFINE q == IF k \in dead THEN 0 ELSE 2
<1>1. file[k] \in Scripts /\ DOMAIN file = 1 .. Len(file) /\ Len(file) \in Nat /\ k \in 1 .. Len(file)
    BY ElementOfSeq, LenProperties
<1>2. RunFile(file, p)[k] \in Statuses
    BY DEF RunFile, Statuses
<1>3. RunFile(<<file[k]>>, q)[1] \in Statuses
  <2>1. 1 \in DOMAIN <<file[k]>>
      OBVIOUS
  <2> QED BY <2>1 DEF RunFile, Statuses
<1>4. /\ DOMAIN RunPairs(file, p, dead) = DOMAIN file
      /\ RunPairs(file, p, dead)[k] = IF Len(file) > 1 /\ RunFile(file, p)[k] = "success"
                                      THEN RunFile(<<file[k]>>, q)[1] ELSE RunFile(file, p)[k]
    BY DEF RunPairs
<1>4a. q \in 0 .. 2 /\ (q = 0 \/ q \in Ends(<<file[k]>>))
  <2>1. Len(<<file[k]>>) + 1 = 2
      OBVIOUS
  <2> QED BY <2>1 DEF Ends
<1>5. CASE Len(file) = 1
  <2>1. k = 1
      BY <1>1, <1>5
  <2>2. file = <<file[1]>>
    <3>1. <<file[1]>> \in Seq(Scripts) /\ Len(<<file[1]>>) = 1 /\ <<file[1]>>[1] = file[1]
        BY <1>1, <2>1
    <3> QED BY <1>5, <3>1, SeqEqual
  <2>3. RunPairs(file, p, dead)[k] = RunFile(<<file[k]>>, p)[1]
      BY <1>4, <1>5, <2>1, <2>2
  <2>4. p \in 0 .. 2 /\ p \in Ends(<<file[k]>>)
    <3>1. p \in 0 .. 2
        BY <1>5 DEF Ends
    <3> QED BY <2>1, <2>2, <3>1
  <2> QED BY <1>1, <1>2, <1>4, <1>5, <2>3, <2>4, SingleVerdict
<1>6. CASE Len(file) > 1
    BY <1>1, <1>2, <1>3, <1>4, <1>4a, <1>6, SingleVerdict
<1> QED BY <1>1, <1>5, <1>6

----------------------------------------------------------------------------
(* The stack.                                                              *)

LEMMA ShapeFacts ==
    ASSUME NEW st, Shape(st), st # <<>>
    PROVE  /\ Len(st) \in Nat \ {0} /\ DOMAIN st = 1 .. Len(st)
           /\ \A i \in DOMAIN st : st[i][1] \in Jobs /\ st[i][2] \in Jobs
           /\ 1 \in DOMAIN st /\ Head(st) = st[1] /\ Top(st) = st[1][1]
           /\ st[1][1] <= st[1][2] /\ st[1][2] + Len(st) <= Chunk + 1
PROOF
<1>1. st \in Seq(Jobs \X Jobs)
    BY DEF Shape
<1>2. Len(st) \in Nat \ {0} /\ DOMAIN st = 1 .. Len(st) /\ Head(st) = st[1]
    BY <1>1, LenProperties, EmptySeq, HeadTailProperties
<1>3. \A i \in DOMAIN st : st[i] \in Jobs \X Jobs
    BY <1>1, <1>2, ElementOfSeq
<1>4. \A i \in DOMAIN st : st[i][1] \in Jobs /\ st[i][2] \in Jobs
    BY <1>3
<1>5. 1 \in DOMAIN st
    BY <1>2
<1>6. st[1][1] <= st[1][2] /\ st[1][2] + (Len(st) - 1) <= Chunk
    BY <1>5 DEF Shape
<1>7. st[1][2] \in Nat /\ Chunk \in Nat
    BY <1>4, <1>5, ChunkAssumption DEF Jobs
<1> QED BY <1>2, <1>4, <1>5, <1>6, <1>7 DEF Top

\* The next part is done with: the one behind it follows.
LEMMA Popped ==
    ASSUME NEW st, Shape(st), st # <<>>
    PROVE  /\ Shape(Tail(st)) /\ Len(Tail(st)) = Len(st) - 1
           /\ Top(Tail(st)) = st[1][2] + 1
PROOF
<1> DEFINE t == Tail(st)
           n == Len(st)
<1>1. st \in Seq(Jobs \X Jobs) /\ Chunk \in Nat
    BY ChunkAssumption DEF Shape
<1>2. /\ n \in Nat \ {0} /\ DOMAIN st = 1 .. n
      /\ \A i \in DOMAIN st : st[i][1] \in Nat /\ st[i][2] \in Nat
    BY ShapeFacts DEF Jobs
<1>3. /\ t \in Seq(Jobs \X Jobs) /\ Len(t) = n - 1
      /\ \A i \in 1 .. Len(t) : t[i] = st[i + 1]
    BY <1>1, HeadTailProperties
<1>4. DOMAIN t = 1 .. (n - 1)
    BY <1>3, LenProperties
<1>5. /\ \A i \in DOMAIN st : st[i][1] <= st[i][2] /\ st[i][2] + (n - i) <= Chunk
      /\ \A i \in DOMAIN st : i > 1 => st[i][1] = st[i - 1][2] + 1
      /\ st[n][2] = Chunk
    BY DEF Shape
<1>6. t = <<>> <=> n = 1
    BY <1>2, <1>3, EmptySeq
<1> HIDE DEF t, n
<1>7. \A i \in DOMAIN t : i \in Nat /\ i + 1 \in DOMAIN st /\ t[i] = st[i + 1]
    BY <1>2, <1>3, <1>4
<1>8. \A i \in DOMAIN t : t[i][1] <= t[i][2] /\ t[i][2] + (Len(t) - i) <= Chunk
    BY <1>1, <1>2, <1>3, <1>5, <1>7
<1>9. \A i \in DOMAIN t : i > 1 => t[i][1] = t[i - 1][2] + 1
  <2>1. SUFFICES ASSUME NEW i \in DOMAIN t, i > 1 PROVE t[i][1] = t[i - 1][2] + 1
      OBVIOUS
  <2>2. i - 1 \in DOMAIN t /\ (i - 1) + 1 = i /\ (i + 1) - 1 = i /\ i + 1 > 1
      BY <1>2, <1>4, <2>1
  <2>3. t[i] = st[i + 1] /\ t[i - 1] = st[i] /\ i + 1 \in DOMAIN st
      BY <1>7, <2>2
  <2> QED BY <1>5, <2>2, <2>3
<1>10. t # <<>> => t[Len(t)][2] = Chunk
    BY <1>2, <1>3, <1>4, <1>5, <1>6
<1>11. Shape(t)
    BY <1>3, <1>8, <1>9, <1>10 DEF Shape
<1>12. Top(t) = st[1][2] + 1
  <2>1. CASE n = 1
      BY <1>5, <1>6, <2>1 DEF Top
  <2>2. CASE n > 1
    <3>1. 1 \in DOMAIN t /\ 2 \in DOMAIN st /\ t # <<>>
        BY <1>2, <1>4, <1>6, <2>2
    <3>2. t[1] = st[2] /\ st[2][1] = st[1][2] + 1
        BY <1>5, <1>7, <3>1
    <3> QED BY <3>1, <3>2 DEF Top
  <2> QED BY <1>2, <2>1, <2>2
<1> QED BY <1>3, <1>11, <1>12 DEF t, n

\* The next part has several jobs: its halves are parts that lie in its place.
LEMMA Halved ==
    ASSUME NEW st, Shape(st), st # <<>>, st[1][1] < st[1][2]
    PROVE  LET u == Halves(st[1][1], st[1][2]) \o Tail(st)
           IN  Shape(u) /\ Len(u) = Len(st) + 1 /\ Top(u) = Top(st)
PROOF
<1> DEFINE lo == st[1][1]
           hi == st[1][2]
           mid == lo + (hi - lo + 1) \div 2
           h == Halves(lo, hi)
           t == Tail(st)
           n == Len(st)
           u == h \o t
<1>1. st \in Seq(Jobs \X Jobs) /\ Chunk \in Nat
    BY ChunkAssumption DEF Shape
<1>2. /\ n \in Nat \ {0} /\ DOMAIN st = 1 .. n /\ Top(st) = lo
      /\ lo \in Nat /\ hi \in Nat /\ lo >= 1 /\ hi <= Chunk /\ lo < hi /\ hi + n <= Chunk + 1
      /\ \A i \in DOMAIN st : st[i][1] \in Nat /\ st[i][2] \in Nat
    BY ShapeFacts, <1>1 DEF Jobs
<1>3. mid \in Nat /\ lo < mid /\ mid <= hi
    BY <1>2
<1>4. h = <<<<lo, mid - 1>>, <<mid, hi>>>>
    BY DEF Halves
<1>5. /\ t \in Seq(Jobs \X Jobs) /\ Len(t) = n - 1
      /\ \A i \in 1 .. Len(t) : t[i] = st[i + 1]
    BY <1>1, HeadTailProperties
<1>6. /\ \A i \in DOMAIN st : st[i][1] <= st[i][2] /\ st[i][2] + (n - i) <= Chunk
      /\ \A i \in DOMAIN st : i > 1 => st[i][1] = st[i - 1][2] + 1
      /\ st[n][2] = Chunk
    BY DEF Shape
<1> HIDE DEF mid, h, t, n
<1>7. h \in Seq(Jobs \X Jobs) /\ Len(h) = 2 /\ h[1] = <<lo, mid - 1>> /\ h[2] = <<mid, hi>>
  <2>1. lo \in Jobs /\ mid - 1 \in Jobs /\ mid \in Jobs /\ hi \in Jobs
      BY <1>1, <1>2, <1>3 DEF Jobs
  <2>2. <<lo, mid - 1>> \in Jobs \X Jobs /\ <<mid, hi>> \in Jobs \X Jobs
      BY <2>1
  <2> QED BY <1>4, <2>2
<1>7a. /\ u \in Seq(Jobs \X Jobs) /\ Len(u) = Len(h) + Len(t)
       /\ \A i \in 1 .. Len(h) + Len(t) : u[i] = IF i <= Len(h) THEN h[i] ELSE t[i - Len(h)]
    BY <1>5, <1>7, ConcatProperties
<1> HIDE DEF u
<1>8. /\ u \in Seq(Jobs \X Jobs) /\ Len(u) = n + 1
      /\ u[1] = <<lo, mid - 1>> /\ u[2] = <<mid, hi>>
      /\ \A i \in 3 .. (n + 1) : u[i] = st[i - 1] /\ i - 1 \in DOMAIN st
  <2>1. Len(h) = 2 /\ Len(t) = n - 1 /\ Len(h) + Len(t) = n + 1
      BY <1>2, <1>5, <1>7
  <2>2. \A i \in 1 .. (n + 1) : u[i] = IF i <= 2 THEN h[i] ELSE t[i - 2]
      BY <1>7a, <2>1
  <2>3. ASSUME NEW i \in 3 .. (n + 1) PROVE u[i] = st[i - 1] /\ i - 1 \in DOMAIN st
    <3>1. i - 2 \in 1 .. Len(t) /\ (i - 2) + 1 = i - 1 /\ i - 1 \in DOMAIN st
        BY <1>2, <2>1, <2>3
    <3>2. u[i] = t[i - 2]
        BY <1>2, <2>2, <2>3
    <3> QED BY <1>5, <3>1, <3>2
  <2>4. u[1] = h[1] /\ u[2] = h[2]
      BY <1>2, <2>2
  <2> QED BY <1>7, <1>7a, <2>1, <2>3, <2>4
<1>9. DOMAIN u = 1 .. (n + 1) /\ u # <<>>
    BY <1>2, <1>8, LenProperties, EmptySeq
<1>10. \A i \in DOMAIN u : i = 1 \/ i = 2 \/ i \in 3 .. (n + 1)
    BY <1>2, <1>9
<1>11. ASSUME NEW i \in DOMAIN u PROVE u[i][1] <= u[i][2] /\ u[i][2] + (Len(u) - i) <= Chunk
  <2>1. CASE i = 1
      BY <1>1, <1>2, <1>3, <1>8, <2>1
  <2>2. CASE i = 2
      BY <1>1, <1>2, <1>3, <1>8, <2>2
  <2>3. CASE i \in 3 .. (n + 1)
    <3>1. st[i - 1][1] <= st[i - 1][2] /\ st[i - 1][2] + (n - (i - 1)) <= Chunk
        BY <1>6, <1>8, <2>3
    <3>2. n - (i - 1) = (n + 1) - i
        BY <1>2, <2>3
    <3> QED BY <1>8, <2>3, <3>1, <3>2
  <2> QED BY <1>10, <2>1, <2>2, <2>3
<1>12. ASSUME NEW i \in DOMAIN u, i > 1 PROVE u[i][1] = u[i - 1][2] + 1
  <2>1. CASE i = 2
    <3>1. u[i][1] = mid /\ u[i - 1][2] = mid - 1
        BY <1>8, <2>1
    <3> QED BY <1>3, <3>1
  <2>2. CASE i = 3
    <3>1. u[3] = st[2] /\ 2 \in DOMAIN st /\ u[2][2] = hi
        BY <1>8, <1>10, <2>2
    <3>2. st[2][1] = hi + 1
        BY <1>6, <3>1
    <3> QED BY <2>2, <3>1, <3>2
  <2>3. CASE i \in 4 .. (n + 1)
    <3>1. /\ u[i] = st[i - 1] /\ u[i - 1] = st[(i - 1) - 1] /\ i - 1 \in DOMAIN st /\ i - 1 > 1
        BY <1>2, <1>8, <2>3
    <3> QED BY <1>6, <3>1
  <2> QED BY <1>2, <1>10, <1>12, <2>1, <2>2, <2>3
<1>13. u[Len(u)][2] = Chunk
  <2>1. CASE n = 1
      BY <1>6, <1>8, <2>1
  <2>2. CASE n > 1
    <3>1. n + 1 \in 3 .. (n + 1) /\ (n + 1) - 1 = n
        BY <1>2, <2>2
    <3> QED BY <1>6, <1>8, <3>1
  <2> QED BY <1>2, <2>1, <2>2
<1>14. Shape(u)
    BY <1>8, <1>11, <1>12, <1>13 DEF Shape
<1>15. Top(u) = Top(st)
    BY <1>2, <1>8, <1>9 DEF Top
<1> QED BY <1>8, <1>14, <1>15 DEF u, h, t, n

----------------------------------------------------------------------------
(* The steps.                                                              *)

\* The next part gets its results, whose labels are earned.
LEMMA PartDone ==
    ASSUME Inv, stack # <<>>, NEW found, Record(Head(stack)[1], Head(stack)[2], found),
           stack' = Tail(stack), attempts' = attempts + 1,
           UNCHANGED <<scripts, importFails, splits>>, silenced' \subseteq Jobs,
           \A j \in Head(stack)[1] .. Head(stack)[2] :
              LET v == found[j - Head(stack)[1] + 1]
              IN  /\ v \in Statuses \cup {"raised"}
                  /\ v \in {"success", "timeout"} => Alone(scripts[j]) = v
    PROVE  Inv'
PROOF
<1> DEFINE lo == Head(stack)[1]
           hi == Head(stack)[2]
<1>1. Shape(stack)
    BY DEF Inv
<1>2. /\ lo \in Jobs /\ hi \in Jobs /\ lo <= hi /\ Top(stack) = lo /\ Len(stack) \in Nat \ {0}
      /\ Head(stack) = stack[1]
    BY <1>1, ShapeFacts
<1>3. Shape(stack') /\ Len(stack') = Len(stack) - 1 /\ Top(stack') = hi + 1
    BY <1>1, <1>2, Popped
<1>4. /\ results' = [j \in Jobs |-> IF j \in lo .. hi THEN found[j - lo + 1] ELSE results[j]]
      /\ \A j \in lo .. hi : /\ found[j - lo + 1] \in Statuses \cup {"raised"}
                             /\ found[j - lo + 1] \in {"success", "timeout"} =>
                                   Alone(scripts[j]) = found[j - lo + 1]
    BY DEF Record
<1> HIDE DEF lo, hi
<1>5. /\ \A j \in Jobs : j \in lo .. hi => results'[j] = found[j - lo + 1]
      /\ \A j \in Jobs : j \notin lo .. hi => results'[j] = results[j]
    BY <1>4
<1>6. results' \in [Jobs -> Verdicts]
  <2>1. results \in [Jobs -> Verdicts]
      BY DEF Inv
  <2> QED BY <1>4, <2>1 DEF Verdicts
<1>7. \A j \in Jobs : results'[j] # "none" <=> j < Top(stack')
  <2>1. SUFFICES ASSUME NEW j \in Jobs PROVE results'[j] # "none" <=> j < hi + 1
      BY <1>3
  <2>2. results[j] # "none" <=> j < lo
      BY <1>2 DEF Inv
  <2>3. CASE j \in lo .. hi
    <3>1. results'[j] # "none"
        BY <1>4, <1>5, <2>3 DEF Statuses
    <3> QED BY <1>2, <2>3, <3>1 DEF Jobs
  <2>4. CASE j \notin lo .. hi
    <3>1. j < lo <=> j < hi + 1
        BY <1>2, <2>4 DEF Jobs
    <3> QED BY <1>5, <2>2, <2>4, <3>1
  <2> QED BY <2>3, <2>4
<1>8. /\ attempts' \in Nat /\ splits' \in Nat
      /\ attempts' + Len(stack') = 2 * splits' + 1
      /\ splits' + 2 <= Top(stack') + Len(stack')
  <2>1. /\ attempts \in Nat /\ splits \in Nat /\ attempts + Len(stack) = 2 * splits + 1
        /\ splits + 2 <= lo + Len(stack)
      BY <1>2 DEF Inv
  <2>2. lo \in Nat /\ hi \in Nat
      BY <1>2 DEF Jobs
  <2> QED BY <1>2, <1>3, <2>1, <2>2
<1>9. LabelsAreEarned'
  <2>1. SUFFICES ASSUME NEW j \in Jobs, results'[j] \in {"success", "timeout"}
                 PROVE  Alone(scripts[j]) = results'[j]
      BY DEF LabelsAreEarned, Alone
  <2>2. CASE j \in lo .. hi
      BY <1>4, <1>5, <2>1, <2>2
  <2>3. CASE j \notin lo .. hi
      BY <1>5, <2>1, <2>3 DEF Inv, LabelsAreEarned
  <2> QED BY <2>2, <2>3
<1> QED BY <1>3, <1>6, <1>7, <1>8, <1>9 DEF Inv

LEMMA RunPartKeeps == Inv /\ RunPart => Inv'
PROOF
<1> SUFFICES ASSUME Inv, RunPart PROVE Inv'
    OBVIOUS
<1> DEFINE lo == Head(stack)[1]
           hi == Head(stack)[2]
           file == SubSeq(scripts, lo, hi)
<1>0. PICK p, dead :
        /\ p \in Ends(file)
        /\ LET found == RunPairs(file, p, dead)
           IN  \/ /\ lo < hi /\ \E k \in DOMAIN found : found[k] = "timeout"
                  /\ stack' = Halves(lo, hi) \o Tail(stack) /\ splits' = splits + 1
                  /\ UNCHANGED <<results, silenced>>
               \/ /\ ~(lo < hi /\ \E k \in DOMAIN found : found[k] = "timeout")
                  /\ Record(lo, hi, found) /\ stack' = Tail(stack) /\ UNCHANGED splits
                  /\ silenced' = silenced \cup
                        {j \in lo .. hi : Silent(file, p) \/ j - lo + 1 \in dead}
    BY DEF RunPart
<1> DEFINE found == RunPairs(file, p, dead)
<1>1. /\ stack # <<>> /\ attempts' = attempts + 1 /\ UNCHANGED <<scripts, importFails>>
      /\ \/ /\ lo < hi /\ \E k \in DOMAIN found : found[k] = "timeout"
            /\ stack' = Halves(lo, hi) \o Tail(stack) /\ splits' = splits + 1
            /\ UNCHANGED <<results, silenced>>
         \/ /\ ~(lo < hi /\ \E k \in DOMAIN found : found[k] = "timeout")
            /\ Record(lo, hi, found) /\ stack' = Tail(stack) /\ UNCHANGED splits
            /\ silenced' \subseteq silenced \cup (lo .. hi)
    BY <1>0 DEF RunPart
<1>2. Shape(stack) /\ scripts \in [Jobs -> Scripts]
    BY DEF Inv
<1>3. /\ lo \in Jobs /\ hi \in Jobs /\ lo <= hi /\ Top(stack) = lo /\ Len(stack) \in Nat \ {0}
      /\ Head(stack) = stack[1]
    BY <1>1, <1>2, ShapeFacts
<1>4. /\ file \in Seq(Scripts) /\ Len(file) = hi - lo + 1
      /\ \A k \in 1 .. hi - lo + 1 : file[k] = scripts[lo + k - 1]
      /\ DOMAIN file = 1 .. hi - lo + 1
  <2>1. lo \in Int /\ hi \in Int /\ \A i \in lo .. hi : scripts[i] \in Scripts
    <3>1. Chunk \in Nat /\ lo \in 1 .. Chunk /\ hi \in 1 .. Chunk
        BY <1>3, ChunkAssumption DEF Jobs
    <3> HIDE DEF lo, hi
    <3>2. \A i \in lo .. hi : i \in Jobs
        BY <3>1 DEF Jobs
    <3> QED BY <1>2, <3>1, <3>2
  <2>2. /\ file \in Seq(Scripts) /\ Len(file) = hi - lo + 1
        /\ \A k \in 1 .. hi - lo + 1 : file[k] = scripts[lo + k - 1]
      BY <1>3, <2>1, SubSeqProperties
  <2> QED BY <2>2, LenProperties
<1> HIDE DEF file
<1>5. ASSUME NEW j \in lo .. hi
      PROVE  /\ j - lo + 1 \in DOMAIN found /\ found[j - lo + 1] \in Statuses
             /\ found[j - lo + 1] = "success" => Alone(scripts[j]) = "success"
             /\ lo = hi /\ found[j - lo + 1] = "timeout" => Alone(scripts[j]) = "timeout"
  <2>1. lo \in Nat /\ hi \in Nat
      BY <1>3 DEF Jobs
  <2>2. j - lo + 1 \in 1 .. hi - lo + 1 /\ lo + (j - lo + 1) - 1 = j
      BY <2>1, <1>5
  <2>3. file[j - lo + 1] = scripts[j]
      BY <1>4, <2>2
  <2>4. lo = hi => Len(file) = 1
      BY <1>4, <2>1
  <2> DEFINE k == j - lo + 1
  <2>5. k \in DOMAIN file /\ p \in Ends(file)
      BY <1>0, <1>4, <2>2
  <2> HIDE DEF k
  <2>6. /\ DOMAIN RunPairs(file, p, dead) = DOMAIN file
        /\ RunPairs(file, p, dead)[k] \in Statuses
        /\ RunPairs(file, p, dead)[k] = "success" => Alone(file[k]) = "success"
        /\ Len(file) = 1 /\ RunPairs(file, p, dead)[k] = "timeout" => Alone(file[k]) = "timeout"
      BY <1>4, <2>5, PairsFacts
  <2> QED BY <2>3, <2>4, <2>5, <2>6 DEF k
<1> HIDE DEF found
<1>6. CASE lo < hi /\ stack' = Halves(lo, hi) \o Tail(stack) /\ splits' = splits + 1
           /\ UNCHANGED <<results, silenced>>
  <2>1. Shape(stack') /\ Len(stack') = Len(stack) + 1 /\ Top(stack') = lo
      BY <1>1, <1>2, <1>3, <1>6, Halved
  <2>2. /\ attempts' \in Nat /\ splits' \in Nat
        /\ attempts' + Len(stack') = 2 * splits' + 1
        /\ splits' + 2 <= Top(stack') + Len(stack')
    <3>1. /\ attempts \in Nat /\ splits \in Nat /\ attempts + Len(stack) = 2 * splits + 1
          /\ splits + 2 <= lo + Len(stack)
        BY <1>3 DEF Inv
    <3>2. lo \in Nat
        BY <1>3 DEF Jobs
    <3>3. attempts' = attempts + 1 /\ splits' = splits + 1 /\ Len(stack) \in Nat
        BY <1>1, <1>3, <1>6
    <3> HIDE DEF lo
    <3> QED BY <2>1, <3>1, <3>2, <3>3
  <2>3. \A j \in Jobs : results'[j] # "none" <=> j < Top(stack')
      BY <1>3, <1>6, <2>1 DEF Inv
  <2>4. LabelsAreEarned'
      BY <1>1, <1>6 DEF Inv, LabelsAreEarned, Alone
  <2> QED BY <1>1, <1>6, <2>1, <2>2, <2>3, <2>4 DEF Inv
<1>7. CASE ~(lo < hi /\ \E k \in DOMAIN found : found[k] = "timeout")
           /\ Record(lo, hi, found) /\ stack' = Tail(stack) /\ UNCHANGED splits
           /\ silenced' \subseteq silenced \cup (lo .. hi)
  <2>1. lo = hi \/ \A k \in DOMAIN found : found[k] # "timeout"
      BY <1>3, <1>7 DEF Jobs
  <2>2. \A j \in lo .. hi : /\ found[j - lo + 1] \in Statuses \cup {"raised"}
                            /\ found[j - lo + 1] \in {"success", "timeout"} =>
                                  Alone(scripts[j]) = found[j - lo + 1]
      BY <1>5, <2>1
  <2>3. silenced' \subseteq Jobs
    <3>1. lo .. hi \subseteq Jobs
        BY <1>3, ChunkAssumption DEF Jobs
    <3> QED BY <1>7, <3>1 DEF Inv
  <2> QED BY <1>1, <1>7, <2>2, <2>3, PartDone
<1> QED BY <1>1, <1>6, <1>7

LEMMA PartRaisesKeeps == Inv /\ PartRaises => Inv'
PROOF
<1> SUFFICES ASSUME Inv, PartRaises PROVE Inv'
    OBVIOUS
<1> DEFINE lo == Head(stack)[1]
           hi == Head(stack)[2]
           found == [k \in 1 .. hi - lo + 1 |-> "raised"]
<1>1. /\ stack # <<>> /\ attempts' = attempts + 1 /\ UNCHANGED <<scripts, importFails, splits>>
      /\ Record(lo, hi, found) /\ stack' = Tail(stack) /\ silenced' \subseteq Jobs
    BY DEF PartRaises, Inv
<1>2. lo \in Nat /\ hi \in Nat
    BY <1>1, ShapeFacts DEF Inv, Jobs
<1>3. \A j \in lo .. hi : found[j - lo + 1] = "raised"
    BY <1>2
<1> HIDE DEF found
<1>4. \A j \in lo .. hi : /\ found[j - lo + 1] \in Statuses \cup {"raised"}
                          /\ found[j - lo + 1] \in {"success", "timeout"} =>
                                Alone(scripts[j]) = found[j - lo + 1]
    BY <1>3
<1> QED BY <1>1, <1>4, PartDone

LEMMA InitHolds == Init => Inv
PROOF
<1> SUFFICES ASSUME Init PROVE Inv
    OBVIOUS
<1>1. Chunk \in Nat /\ Chunk >= 1
    BY ChunkAssumption
<1> DEFINE st == <<<<1, Chunk>>>>
<1>2. <<1, Chunk>> \in Jobs \X Jobs
    BY <1>1 DEF Jobs
<1>3. st \in Seq(Jobs \X Jobs) /\ Len(st) = 1 /\ DOMAIN st = {1} /\ st # <<>>
      /\ st[1][1] = 1 /\ st[1][2] = Chunk
    BY <1>2
<1> HIDE DEF st
<1>4. Shape(st) /\ Top(st) = 1
    BY <1>1, <1>3 DEF Shape, Top
<1>5. stack = st
    BY DEF Init, st
<1>6. results \in [Jobs -> Verdicts] /\ \A j \in Jobs : results[j] = "none"
    BY DEF Init, Verdicts
<1>7. LabelsAreEarned
    BY <1>6 DEF LabelsAreEarned
<1>8. \A j \in Jobs : ~(j < 1)
    BY DEF Jobs
<1> QED BY <1>3, <1>4, <1>5, <1>6, <1>7, <1>8 DEF Init, Inv

\* The invariant holds in every reachable state, for every chunk, set of
\* scripts and time limit.
THEOREM Invariance == Spec => []Inv
PROOF
<1>1. Init => Inv
    BY InitHolds
<1>2. Inv /\ [Next]_vars => Inv'
  <2> SUFFICES ASSUME Inv, [Next]_vars PROVE Inv'
      OBVIOUS
  <2>1. CASE RunPart
      BY <2>1, RunPartKeeps
  <2>2. CASE PartRaises
      BY <2>2, PartRaisesKeeps
  <2>3. CASE UNCHANGED vars
      BY <2>3 DEF vars, Inv, LabelsAreEarned, Alone
  <2> QED BY <2>1, <2>2, <2>3 DEF Next
<1> QED BY <1>1, <1>2, PTL DEF Spec

\* As many jobs have a result as stand before the first part on the stack.
LEMMA AnsweredFacts ==
    ASSUME Inv
    PROVE  Answered + 1 = Top(stack) /\ Answered \in Nat /\ Answered <= Chunk
PROOF
<1>1. Chunk \in Nat
    BY ChunkAssumption
<1>2. Top(stack) \in Nat /\ Top(stack) >= 1 /\ Top(stack) <= Chunk + 1
  <2>1. CASE stack = <<>>
      BY <1>1, <2>1 DEF Top
  <2>2. CASE stack # <<>>
    <3>1. Top(stack) \in Jobs
        BY <2>2, ShapeFacts DEF Inv
    <3> QED BY <1>1, <3>1 DEF Jobs
  <2> QED BY <2>1, <2>2
<1>3. {j \in Jobs : results[j] # "none"} = 1 .. (Top(stack) - 1)
  <2>1. \A j \in Jobs : results[j] # "none" <=> j < Top(stack)
      BY DEF Inv
  <2> QED BY <1>1, <1>2, <2>1 DEF Jobs
<1>4. Cardinality(1 .. (Top(stack) - 1)) = Top(stack) - 1
    BY <1>2, FS_Interval
<1>5. Answered = Top(stack) - 1
    BY <1>3, <1>4 DEF Answered
<1> QED BY <1>1, <1>2, <1>5

\* The retry appends its results in order, loses no job and answers for none
\* twice: the results lie before the parts that are still to be run, which
\* share out the rest of the chunk.
THEOREM PartsShareTheChunk == Spec => []TypeOK
PROOF
<1>1. Inv => TypeOK
  <2> SUFFICES ASSUME Inv PROVE TypeOK
      OBVIOUS
  <2>1. Answered + 1 = Top(stack) /\ Answered \in Nat
      BY AnsweredFacts
  <2>2. \A j \in Jobs : results[j] # "none" <=> j <= Answered
    <3>1. \A j \in Jobs : j < Answered + 1 <=> j <= Answered
        BY <2>1 DEF Jobs
    <3> QED BY <2>1, <3>1 DEF Inv
  <2>3. ASSUME NEW i \in DOMAIN stack
        PROVE  stack[i][1] = (IF i = 1 THEN Answered ELSE stack[i - 1][2]) + 1
    <3>1. stack # <<>>
        BY <2>3
    <3>2. i \in Nat /\ i >= 1 /\ Top(stack) = stack[1][1]
        BY <3>1, <2>3, ShapeFacts DEF Inv
    <3>3. CASE i = 1
        BY <2>1, <3>2, <3>3
    <3>4. CASE i > 1
        BY <2>3, <3>4 DEF Inv, Shape
    <3> QED BY <3>2, <3>3, <3>4
  <2>4. stack # <<>> => Last(stack)[2] = Chunk
      BY DEF Inv, Shape, Last
  <2> QED BY <2>2, <2>3, <2>4 DEF Inv, TypeOK, Verdicts
<1> QED BY <1>1, Invariance, PTL

\* The halving ends: a chunk of n jobs is split at most n - 1 times and run in
\* at most 2n - 1 parts, and when nothing is left every job has a result.
THEOREM HalvingEnds == Spec => []AttemptsBounded
PROOF
<1>1. Inv => AttemptsBounded
  <2> SUFFICES ASSUME Inv PROVE AttemptsBounded
      OBVIOUS
  <2>1. /\ attempts \in Nat /\ splits \in Nat /\ attempts + Len(stack) = 2 * splits + 1
        /\ splits + 2 <= Top(stack) + Len(stack) /\ Chunk \in Nat
      BY ChunkAssumption DEF Inv
  <2>2. CASE stack = <<>>
    <3>1. Len(stack) = 0 /\ Top(stack) = Chunk + 1
        BY <2>2 DEF Top
    <3>2. \A j \in Jobs : j < Chunk + 1
        BY <2>1 DEF Jobs
    <3>3. \A j \in Jobs : results[j] # "none"
        BY <3>1, <3>2 DEF Inv
    <3> QED BY <2>1, <3>1, <3>3 DEF AttemptsBounded
  <2>3. CASE stack # <<>>
    <3>1. /\ Len(stack) \in Nat \ {0} /\ Top(stack) = stack[1][1] /\ stack[1][1] <= stack[1][2]
          /\ stack[1][2] + Len(stack) <= Chunk + 1
          /\ stack[1][1] \in Jobs /\ stack[1][2] \in Jobs
        BY <2>3, ShapeFacts DEF Inv
    <3>2. stack[1][1] \in Nat /\ stack[1][2] \in Nat
        BY <3>1 DEF Jobs
    <3>3. splits + 1 <= Chunk
        BY <2>1, <3>1, <3>2
    <3> QED BY <2>1, <2>3, <3>1, <3>3 DEF AttemptsBounded
  <2> QED BY <2>2, <2>3
<1> QED BY <1>1, Invariance, PTL

\* No job is reported as a success that is not one by itself, and none as timed
\* out for the sake of a neighbour, whatever scripts share its file.
THEOREM LabelsEarned == Spec => []LabelsAreEarned
PROOF
<1>1. Inv => LabelsAreEarned
    BY DEF Inv
<1> QED BY <1>1, Invariance, PTL

----------------------------------------------------------------------------
(* Failures.  They rest on what a file costs: a sum over a sequence, whose  *)
(* recursion is justified by the least size at which it could fail.         *)

\* A non-empty set of numbers has a least element, which Min chooses.
LEMMA MinFacts ==
    ASSUME NEW S \in SUBSET Nat, S # {}
    PROVE  Min(S) \in S /\ \A y \in S : Min(S) <= y
<1>1. \E n \in S : \A m \in S : ~(<<m, n>> \in OpToRel(<, Nat))
    BY NatLessThanWellFounded, WFMin
<1>2. \A m, n \in Nat : m < n => <<m, n>> \in OpToRel(<, Nat)
    BY DEF OpToRel
<1>3. PICK n \in S : \A m \in S : ~(m < n)
  <2>1. S \subseteq Nat
      OBVIOUS
  <2> QED BY <1>1, <1>2, <2>1
<1>4. n \in Nat /\ \A y \in S : y \in Nat
    OBVIOUS
<1>5. \A y \in S : n <= y
    BY <1>3, <1>4
<1> QED BY <1>5 DEF Min

\* One unfolding of the sum of v over a set of indices.
Pick(x) == CHOOSE y \in x : TRUE

SumStep(v, f, x) == IF x = {} THEN 0 ELSE v[Pick(x)] + f[x \ {Pick(x)}]

LEMMA PickFacts ==
    ASSUME NEW D, IsFiniteSet(D), NEW x \in SUBSET D
    PROVE  /\ IsFiniteSet(x) /\ Cardinality(x) \in Nat /\ Cardinality(x) <= Cardinality(D)
           /\ Cardinality(D) \in Nat
           /\ Cardinality(x) = 0 <=> x = {}
           /\ x # {} => /\ Pick(x) \in x /\ x \ {Pick(x)} \in SUBSET D
                        /\ Cardinality(x \ {Pick(x)}) = Cardinality(x) - 1
<1>1. /\ IsFiniteSet(x) /\ Cardinality(x) \in Nat /\ Cardinality(x) <= Cardinality(D)
      /\ Cardinality(D) \in Nat
    BY FS_Subset, FS_CardinalityType
<1>2. Cardinality(x) = 0 <=> x = {}
    BY <1>1, FS_EmptySet
<1>3. x # {} => Pick(x) \in x
    BY DEF Pick
<1>4. x # {} => Cardinality(x \ {Pick(x)}) = Cardinality(x) - 1
    BY <1>1, <1>3, FS_RemoveElement
<1> QED BY <1>1, <1>2, <1>3, <1>4

\* The recursion of a sum over the subsets of a finite set has a solution.
LEMMA SumExists ==
    ASSUME NEW D, IsFiniteSet(D), NEW v \in [D -> Nat]
    PROVE  \E f \in [SUBSET D -> Nat] : \A x \in SUBSET D : f[x] = SumStep(v, f, x)
<1> DEFINE Upto(n, f) == \A x \in SUBSET D : Cardinality(x) <= n => f[x] = SumStep(v, f, x)
           Bad == {n \in Nat : ~ \E f \in [SUBSET D -> Nat] : Upto(n, f)}
<1>1. CASE Bad = {}
  <2>1. Cardinality(D) \in Nat
      BY FS_CardinalityType
  <2>2. PICK f \in [SUBSET D -> Nat] : Upto(Cardinality(D), f)
      BY <1>1, <2>1
  <2>3. \A x \in SUBSET D : f[x] = SumStep(v, f, x)
      BY <2>2, PickFacts
  <2> QED BY <2>3
<1>2. CASE Bad # {}
  <2>1. PICK n \in Bad : \A m \in Bad : ~(m < n)
    <3>1. Bad \in SUBSET Nat
        OBVIOUS
    <3>2. Min(Bad) \in Bad /\ \A m \in Bad : Min(Bad) <= m
        BY <1>2, <3>1, MinFacts
    <3>3. \A m \in Bad : m \in Nat
        OBVIOUS
    <3> HIDE DEF Bad
    <3>4. Min(Bad) \in Nat
        BY <3>2, <3>3
    <3>5. \A m \in Bad : ~(m < Min(Bad))
        BY <3>2, <3>3, <3>4
    <3> QED BY <3>2, <3>5
  <2>2. n \in Nat /\ ~ \E f \in [SUBSET D -> Nat] : Upto(n, f)
      BY <2>1
  <2>3. CASE n = 0
    <3> DEFINE f == [x \in SUBSET D |-> 0]
    <3>1. f \in [SUBSET D -> Nat]
        OBVIOUS
    <3>2. ASSUME NEW x \in SUBSET D, Cardinality(x) <= 0 PROVE f[x] = SumStep(v, f, x)
      <4>1. Cardinality(x) \in Nat /\ (Cardinality(x) = 0 <=> x = {})
          BY PickFacts
      <4>2. x = {}
          BY <3>2, <4>1
      <4> QED BY <4>2 DEF SumStep
    <3>3. Upto(0, f)
        BY <3>2
    <3> QED BY <2>2, <2>3, <3>1, <3>3
  <2>4. CASE n # 0
    <3>1. n - 1 \in Nat /\ n - 1 < n
        BY <2>2, <2>4
    <3>2. n - 1 \notin Bad
        BY <2>1, <3>1
    <3>3. PICK f \in [SUBSET D -> Nat] : Upto(n - 1, f)
        BY <3>1, <3>2
    <3> DEFINE g == [x \in SUBSET D |-> SumStep(v, f, x)]
    <3>4. ASSUME NEW x \in SUBSET D PROVE SumStep(v, f, x) \in Nat
      <4>1. x # {} => Pick(x) \in D /\ x \ {Pick(x)} \in SUBSET D
          BY PickFacts
      <4>2. x # {} => v[Pick(x)] \in Nat /\ f[x \ {Pick(x)}] \in Nat
          BY <4>1
      <4> QED BY <4>2 DEF SumStep
    <3>5. g \in [SUBSET D -> Nat]
        BY <3>4
    <3>6. ASSUME NEW x \in SUBSET D, Cardinality(x) <= n PROVE g[x] = SumStep(v, g, x)
      <4>1. CASE x = {}
          BY <4>1 DEF SumStep
      <4>2. CASE x # {}
        <5>1. /\ x \ {Pick(x)} \in SUBSET D
              /\ Cardinality(x \ {Pick(x)}) = Cardinality(x) - 1 /\ Cardinality(x) \in Nat
            BY <4>2, PickFacts
        <5>2. Cardinality(x \ {Pick(x)}) <= n - 1
            BY <2>2, <3>6, <5>1
        <5>3. g[x \ {Pick(x)}] = f[x \ {Pick(x)}]
            BY <3>3, <5>1, <5>2
        <5> QED BY <4>2, <5>3 DEF SumStep
      <4> QED BY <4>1, <4>2
    <3>7. Upto(n, g)
        BY <3>6
    <3> HIDE DEF g
    <3> QED BY <2>2, <3>5, <3>7
  <2> QED BY <2>3, <2>4
<1> QED BY <1>1, <1>2

\* A sum of numbers is a number no smaller than any of them.
LEMMA SumBounds ==
    ASSUME NEW D, IsFiniteSet(D), NEW v \in [D -> Nat],
           NEW f, \A x \in SUBSET D : f[x] = SumStep(v, f, x)
    PROVE  f[D] \in Nat /\ \A y \in D : v[y] <= f[D]
<1> DEFINE Good(x) == f[x] \in Nat /\ \A y \in x : v[y] <= f[x]
           Bad == {Cardinality(x) : x \in {z \in SUBSET D : ~ Good(z)}}
<1>1. Bad \in SUBSET Nat
  <2>1. \A x \in SUBSET D : Cardinality(x) \in Nat
      BY PickFacts
  <2> HIDE DEF Good
  <2> QED BY <2>1
<1>2. CASE Bad # {}
  <2>1. Min(Bad) \in Bad /\ \A m \in Bad : Min(Bad) <= m
      BY <1>1, <1>2, MinFacts
  <2>2. PICK x \in SUBSET D : ~ Good(x) /\ Cardinality(x) = Min(Bad)
      BY <2>1
  <2>3. x # {}
    <3>1. x = {} => f[x] = 0
        BY DEF SumStep
    <3> QED BY <2>2, <3>1
  <2> DEFINE z == x \ {Pick(x)}
  <2>4. /\ Pick(x) \in x /\ z \in SUBSET D /\ Cardinality(z) = Cardinality(x) - 1
        /\ Cardinality(x) \in Nat
      BY <2>3, PickFacts
  <2>5. Good(z)
    <3>1. ~ Good(z) => Cardinality(z) \in Bad
        BY <2>4
    <3> HIDE DEF Bad, z, Good
    <3>2. ~ (Cardinality(z) \in Bad)
        BY <2>1, <2>2, <2>4
    <3> QED BY <3>1, <3>2
  <2>6. f[x] = v[Pick(x)] + f[z]
      BY <2>3 DEF SumStep
  <2>7. v[Pick(x)] \in Nat
      BY <2>4
  <2>8. ASSUME NEW y \in x PROVE v[y] <= f[x]
    <3>1. CASE y = Pick(x)
        BY <2>5, <2>6, <2>7, <3>1
    <3>2. CASE y # Pick(x)
      <4>1. v[y] <= f[z] /\ v[y] \in Nat /\ f[z] \in Nat
          BY <2>5, <3>2
      <4> QED BY <2>6, <2>7, <4>1
    <3> QED BY <3>1, <3>2
  <2>9. f[x] \in Nat
      BY <2>5, <2>6, <2>7
  <2> QED BY <2>2, <2>8, <2>9
<1>3. CASE Bad = {}
    BY <1>3
<1> QED BY <1>2, <1>3

\* A file costs at least what each of its scripts costs.
LEMMA FoldBounds ==
    ASSUME NEW q \in Seq(Scripts)
    PROVE  LET sum == FoldSeq(LAMBDA s, acc : s.cost + acc, 0, q)
           IN  sum \in Nat /\ \A k \in DOMAIN q : q[k].cost <= sum
<1> DEFINE D == DOMAIN q
           step(f) == [x \in SUBSET D |->
                          IF x = {} THEN 0
                          ELSE q[CHOOSE y \in x : TRUE].cost + f[x \ {CHOOSE y \in x : TRUE}]]
           fold == CHOOSE f : f = step(f)
           v == [k \in D |-> q[k].cost]
<1>1. FoldSeq(LAMBDA s, acc : s.cost + acc, 0, q) = fold[D]
    BY Zenon DEF FoldSeq, FoldFunction, FoldFunctionOnSet, MapThenFoldSet
<1>2. IsFiniteSet(D)
  <2>1. D = 1 .. Len(q) /\ Len(q) \in Nat
      BY LenProperties
  <2> QED BY <2>1, FS_Interval
<1>3. v \in [D -> Nat]
  <2>1. \A k \in D : q[k] \in Scripts
      BY ElementOfSeq, LenProperties
  <2> QED BY <2>1, ChunkAssumption
<1>4. \A f : step(f) = [x \in SUBSET D |-> SumStep(v, f, x)]
  <2> SUFFICES ASSUME NEW f, NEW x \in SUBSET D
               PROVE  (IF x = {} THEN 0 ELSE q[Pick(x)].cost + f[x \ {Pick(x)}])
                          = SumStep(v, f, x)
      BY DEF Pick
  <2>1. x # {} => Pick(x) \in D
      BY DEF Pick
  <2> QED BY <2>1 DEF SumStep
<1> HIDE DEF D, v, step
<1>5. fold = step(fold)
  <2>1. PICK f \in [SUBSET D -> Nat] : \A x \in SUBSET D : f[x] = SumStep(v, f, x)
      BY <1>2, <1>3, SumExists
  <2>2. f = [x \in SUBSET D |-> SumStep(v, f, x)]
      BY <2>1
  <2>3. f = step(f)
      BY <1>4, <2>2
  <2> QED BY <2>3, Zenon
<1> HIDE DEF fold
<1>6. \A x \in SUBSET D : fold[x] = SumStep(v, fold, x)
  <2>1. fold = [x \in SUBSET D |-> SumStep(v, fold, x)]
      BY <1>4, <1>5
  <2> QED BY <2>1
<1>7. fold[D] \in Nat /\ \A y \in D : v[y] <= fold[D]
    BY <1>2, <1>3, <1>6, SumBounds
<1>8. \A k \in D : v[k] = q[k].cost
    BY DEF v
<1> QED BY <1>1, <1>7, <1>8 DEF D

\* Where Lean stops reading a file.
LEMMA CommentFacts ==
    ASSUME NEW file \in Seq(Scripts)
    PROVE  /\ FirstComment(file) \in 1 .. Len(file) + 1
           /\ FirstComment(file) <= Len(file) => file[FirstComment(file)].kind = "comment"
           /\ \A i \in DOMAIN file : file[i].kind = "comment" => FirstComment(file) <= i
<1> DEFINE S == {k \in DOMAIN file : file[k].kind = "comment"} \cup {Len(file) + 1}
<1>1. DOMAIN file = 1 .. Len(file) /\ Len(file) \in Nat
    BY LenProperties
<1>2. S \in SUBSET Nat /\ S # {}
    BY <1>1
<1>3. Min(S) \in S /\ \A y \in S : Min(S) <= y
    BY <1>2, MinFacts
<1>4. FirstComment(file) = Min(S)
    BY DEF FirstComment
<1> QED BY <1>1, <1>3, <1>4

\* A script that Lean reads takes its part of the file's time.
LEMMA ReadCost ==
    ASSUME NEW file \in Seq(Scripts), NEW n \in Nat, n <= Len(file), NEW k \in 1 .. n,
           Cost(file, n) <= Budget \/ ~(Cost(file, n) > Budget)
    PROVE  ~(file[k].cost > Budget)
<1> DEFINE read == SubSeq(file, 1, n)
           sum == FoldSeq(LAMBDA s, acc : s.cost + acc, 0, read)
<1>1. DOMAIN file = 1 .. Len(file) /\ Len(file) \in Nat /\ k \in 1 .. Len(file)
    BY LenProperties
<1>4. \A i \in 1 .. n : file[i] \in Scripts
    BY <1>1, ElementOfSeq
<1>5. /\ read \in Seq(Scripts) /\ Len(read) = n
      /\ \A i \in 1 .. n : read[i] = file[i]
  <2>1. /\ read \in Seq(Scripts) /\ Len(read) = n - 1 + 1
        /\ \A i \in 1 .. n - 1 + 1 : read[i] = file[1 + i - 1]
      BY <1>4, SubSeqProperties
  <2>2. n - 1 + 1 = n /\ \A i \in 1 .. n : 1 + i - 1 = i
      OBVIOUS
  <2> QED BY <2>1, <2>2
<1>6. k \in DOMAIN read /\ read[k] = file[k]
    BY <1>5, LenProperties
<1>7. sum \in Nat /\ read[k].cost <= sum
    BY <1>5, <1>6, FoldBounds
<1>8. sum <= Budget \/ ~(sum > Budget)
    BY DEF Cost
<1>9. Budget \in Nat /\ file[k].cost \in Nat
    BY <1>1, ElementOfSeq, ChunkAssumption
<1>10. file[k].cost <= sum
    BY <1>6, <1>7
<1> HIDE DEF sum
<1> QED BY <1>7, <1>8, <1>9, <1>10

\* The block that owns a line: its body, the first line of the next block and,
\* for the last one, the end of the file.
LEMMA OwnerIs ==
    ASSUME NEW n \in Nat, NEW i \in 1 .. n
    PROVE  Owner(n, 2 * i + 1) = i /\ Owner(n, 2 * i + 2) = i
<1>1. ASSUME NEW S \in SUBSET Nat, NEW m \in S, \A y \in S : m <= y PROVE Min(S) = m
  <2>1. Min(S) \in S /\ Min(S) <= m
      BY <1>1, MinFacts
  <2>2. Min(S) \in Nat /\ m \in Nat /\ m <= Min(S)
      BY <1>1, <2>1
  <2> QED BY <2>1, <2>2
<1>2. ASSUME NEW line \in {2 * i + 1, 2 * i + 2} PROVE Owner(n, line) = i
  <2> DEFINE S == {k \in 1 .. n : 2 * k <= line /\ (k = n \/ line <= 2 * (k + 1))}
  <2>1. S \in SUBSET Nat /\ i \in S /\ \A y \in S : i <= y
      BY <1>2
  <2>2. Owner(n, line) = Min(S)
      BY DEF Owner, Start
  <2> HIDE DEF S
  <2> QED BY <1>1, <2>1, <2>2
<1> QED BY <1>2

\* The messages of a file that Lean could start to read.
LEMMA MessageFacts ==
    ASSUME NEW file \in Seq(Scripts), ~importFails
    PROVE  /\ \A x \in Messages(file) :
                 \/ \E i \in 1 .. FirstComment(file) - 1 :
                       /\ file[i].kind \in {"wrong", "heartbeats", "warned"}
                       /\ x[1] = 2 * i + 1
                 \/ \E i \in 1 .. FirstComment(file) - 1 :
                       file[i].kind = "dangling" /\ x[1] = 2 * i + 2
                 \/ /\ FirstComment(file) \in DOMAIN file
                    /\ x[1] = 2 * Len(file) + 2
           /\ \A i \in 1 .. FirstComment(file) - 1 :
                 file[i].kind = "heartbeats" => <<2 * i + 1, "timeout">> \in Messages(file)
<1> DEFINE c == FirstComment(file)
           own(k) == IF file[k].kind = "heartbeats" THEN "timeout" ELSE "fail"
           body == {<<Start(k) + 1, own(k)>> :
                       k \in {i \in 1 .. c - 1 : file[i].kind \in {"wrong", "heartbeats", "warned"}}}
           next == {<<Start(k) + 2, own(k)>> :
                       k \in {i \in 1 .. c - 1 : file[i].kind \in {"dangling"}}}
           tail == {<<2 * Len(file) + 2, "fail">> : k \in {c} \cap DOMAIN file}
<1>1. Messages(file) = body \cup next \cup tail
    BY Zenon DEF Messages
<1>2. \A x \in body : \E i \in 1 .. c - 1 :
         file[i].kind \in {"wrong", "heartbeats", "warned"} /\ x[1] = 2 * i + 1
    BY DEF Start
<1>3. \A x \in next : \E i \in 1 .. c - 1 : file[i].kind = "dangling" /\ x[1] = 2 * i + 2
    BY DEF Start
<1>4. \A x \in tail : c \in DOMAIN file /\ x[1] = 2 * Len(file) + 2
    OBVIOUS
<1>5. \A i \in 1 .. c - 1 : file[i].kind = "heartbeats" => <<2 * i + 1, "timeout">> \in body
    BY DEF Start
<1> HIDE DEF body, next, tail, c
<1>6. \A i \in 1 .. c - 1 : file[i].kind = "heartbeats" => <<2 * i + 1, "timeout">> \in Messages(file)
    BY <1>1, <1>5
<1>7. \A x \in Messages(file) : x \in body \/ x \in next \/ x \in tail
    BY <1>1
<1> QED BY <1>2, <1>3, <1>4, <1>6, <1>7 DEF c

\* A script no comment stands before is failed by a file only for a fault of
\* its own, unless Lean died over the file without a word.
LEMMA FileFailure ==
    ASSUME NEW file \in Seq(Scripts), NEW k \in DOMAIN file, NEW p \in Ends(file),
           RunFile(file, p)[k] = "fail", ~Silent(file, p),
           \A i \in 1 .. k - 1 : file[i].kind # "comment",
           file[k].kind # "warned"
    PROVE  Alone(file[k]) = "fail"
<1> DEFINE c == FirstComment(file)
           n == Len(file)
           found == {m[2] : m \in {x \in Said(file, p) : x[1] < Start(1) \/ Owner(n, x[1]) = k}}
<1>1. DOMAIN file = 1 .. n /\ n \in Nat /\ k \in 1 .. n
    BY LenProperties
<1>1a. p \in 0 .. n + 1
    BY <1>1 DEF Ends
<1>2. file[k].kind \in Kinds
    BY <1>1, ElementOfSeq, ChunkAssumption
<1>3. /\ c \in 1 .. n + 1 /\ (c <= n => file[c].kind = "comment")
      /\ \A i \in 1 .. n : file[i].kind = "comment" => c <= i
    BY <1>1, CommentFacts
<1>4. k <= c
    BY <1>1, <1>3
<1>5. ~(~Dies(file, p) /\ TimesOut(file)) /\ "timeout" \notin found /\ found # {}
    BY DEF RunFile
<1>5a. \A x : x \in Said(file, p) <=> x \in Messages(file) /\ x[1] <= 2 * p + 2
    BY <1>1a DEF Said, Start
<1>5b. PICK x \in Messages(file) : x[1] <= 2 * p + 2 /\ (x[1] < Start(1) \/ Owner(n, x[1]) = k)
    BY <1>5, <1>5a
<1> HIDE DEF c, n
<1>6. CASE importFails
    BY <1>6 DEF Alone
<1>7. CASE ~importFails
  <2>1. /\ \/ \E i \in 1 .. c - 1 : /\ file[i].kind \in {"wrong", "heartbeats", "warned"}
                                    /\ x[1] = 2 * i + 1
           \/ \E i \in 1 .. c - 1 : file[i].kind = "dangling" /\ x[1] = 2 * i + 2
           \/ c \in DOMAIN file /\ x[1] = 2 * n + 2
        /\ \A i \in 1 .. c - 1 :
              file[i].kind = "heartbeats" => <<2 * i + 1, "timeout">> \in Messages(file)
      BY <1>7, MessageFacts DEF c, n
  \* The message is the script's own, or that of the end of the file.
  <2>2. \/ /\ k \in 1 .. c - 1 /\ k <= p
           /\ file[k].kind \in {"wrong", "heartbeats", "warned", "dangling"}
        \/ k = n /\ c = k /\ k <= p /\ file[k].kind = "comment"
    <3>1. CASE \E i \in 1 .. c - 1 : /\ file[i].kind \in {"wrong", "heartbeats", "warned"}
                                     /\ x[1] = 2 * i + 1
      <4>1. PICK i \in 1 .. c - 1 : /\ file[i].kind \in {"wrong", "heartbeats", "warned"}
                                    /\ x[1] = 2 * i + 1
          BY <3>1
      <4>2. i \in 1 .. n /\ ~(x[1] < 2) /\ i <= p
          BY <1>1, <1>1a, <1>3, <1>5b, <4>1
      <4>3. Owner(n, x[1]) = i
          BY <1>1, <4>1, <4>2, OwnerIs
      <4>4. k = i
          BY <1>5b, <4>2, <4>3 DEF Start
      <4> QED BY <4>1, <4>2, <4>4
    <3>2. CASE \E i \in 1 .. c - 1 : file[i].kind = "dangling" /\ x[1] = 2 * i + 2
      <4>1. PICK i \in 1 .. c - 1 : file[i].kind = "dangling" /\ x[1] = 2 * i + 2
          BY <3>2
      <4>2. i \in 1 .. n /\ ~(x[1] < 2) /\ i <= p
          BY <1>1, <1>1a, <1>3, <1>5b, <4>1
      <4>3. Owner(n, x[1]) = i
          BY <1>1, <4>1, <4>2, OwnerIs
      <4>4. k = i
          BY <1>5b, <4>2, <4>3 DEF Start
      <4> QED BY <4>1, <4>2, <4>4
    <3>3. CASE c \in DOMAIN file /\ x[1] = 2 * n + 2
      <4>1. n \in 1 .. n /\ ~(x[1] < 2) /\ n <= p
          BY <1>1, <1>1a, <1>5b, <3>3
      <4>2. Owner(n, x[1]) = n
          BY <1>1, <3>3, <4>1, OwnerIs
      <4>3. k = n
          BY <1>5b, <4>1, <4>2 DEF Start
      <4>4. c = k
          BY <1>1, <1>4, <3>3, <4>3
      <4> QED BY <1>1, <1>3, <4>1, <4>3, <4>4
    <3> QED BY <2>1, <3>1, <3>2, <3>3
  <2>3. ~(file[k].cost > Budget)
    <3> DEFINE m == Min({c, IF Dies(file, p) THEN p ELSE n})
    <3>1. Dies(file, p) <=> p <= n
        BY DEF Dies, n
    <3>2. /\ m \in {c, IF Dies(file, p) THEN p ELSE n} /\ m <= c
          /\ m <= (IF Dies(file, p) THEN p ELSE n)
      <4>1. {c, IF Dies(file, p) THEN p ELSE n} \in SUBSET Nat
          BY <1>1, <1>1a, <1>3
      <4> QED BY <4>1, MinFacts
    <3>3. Cost(file, m) <= Budget \/ ~(Cost(file, m) > Budget)
      <4>1. CASE Dies(file, p)
        <5>1. Cost(file, Min({c, p})) <= Budget
            BY <1>1, <1>7, <3>1, <4>1 DEF Ends, c, n
        <5> QED BY <4>1, <5>1
      <4>2. CASE ~Dies(file, p)
          BY <1>5, <1>7, <4>2 DEF TimesOut, c, n
      <4> QED BY <4>1, <4>2
    <3> HIDE DEF m
    <3>4. m \in Nat /\ m <= n /\ k \in 1 .. m
        BY <1>1, <1>1a, <1>3, <1>4, <2>2, <3>1, <3>2
    <3> QED BY <3>3, <3>4, ReadCost DEF n
  <2>4. file[k].kind # "heartbeats"
    <3> SUFFICES ASSUME file[k].kind = "heartbeats" PROVE FALSE
        OBVIOUS
    <3>1. k \in 1 .. c - 1 /\ k <= p
        BY <2>2
    <3>2. <<2 * k + 1, "timeout">> \in Said(file, p)
      <4>1. <<2 * k + 1, "timeout">>[1] = 2 * k + 1 /\ 2 * k + 1 <= 2 * p + 2
          BY <1>1, <1>1a, <3>1
      <4> QED BY <1>5a, <2>1, <3>1, <4>1
    <3>3. Owner(n, 2 * k + 1) = k
        BY <1>1, OwnerIs
    <3>4. "timeout" \in found
        BY <3>2, <3>3
    <3> QED BY <1>5, <3>4
  <2>5. file[k].kind \in {"wrong", "dangling", "comment"}
      BY <2>2, <2>4
  <2> QED BY <1>7, <2>3, <2>5 DEF Alone
<1> QED BY <1>6, <1>7

\* The same of the labels run_pairs gives out.
LEMMA PairsFailure ==
    ASSUME NEW file \in Seq(Scripts), NEW k \in DOMAIN file, NEW p \in Ends(file), NEW dead,
           RunPairs(file, p, dead)[k] = "fail", Alone(file[k]) # "fail",
           \A i \in 1 .. k - 1 : file[i].kind # "comment"
    PROVE  file[k].kind = "warned" \/ Silent(file, p) \/ k \in dead
<1> DEFINE q == IF k \in dead THEN 0 ELSE 2
<1>1. file[k] \in Scripts
    BY ElementOfSeq, LenProperties
<1>2. RunPairs(file, p, dead)[k] = IF Len(file) > 1 /\ RunFile(file, p)[k] = "success"
                                   THEN RunFile(<<file[k]>>, q)[1] ELSE RunFile(file, p)[k]
    BY DEF RunPairs
<1>3. RunFile(<<file[k]>>, q)[1] = "fail" => file[k].kind = "warned" \/ k \in dead
  <2> SUFFICES ASSUME k \notin dead, RunFile(<<file[k]>>, 2)[1] = "fail"
               PROVE  file[k].kind = "warned"
      OBVIOUS
  <2>1. Len(<<file[k]>>) + 1 = 2 /\ ~Dies(<<file[k]>>, 2)
      BY DEF Dies
  <2>2. 2 \in Ends(<<file[k]>>) /\ ~Silent(<<file[k]>>, 2) /\ 2 \in 0 .. 2
      BY <2>1 DEF Ends, Silent
  <2> QED BY <1>1, <2>2, SingleVerdict
<1>4. RunFile(file, p)[k] = "fail" => file[k].kind = "warned" \/ Silent(file, p)
    BY FileFailure
<1> QED BY <1>2, <1>3, <1>4

LEMMA StepExplained ==
    ASSUME Inv, FalseFailureIsExplained, [Next]_vars
    PROVE  FalseFailureIsExplained'
<1>1. scripts' = scripts /\ importFails' = importFails
    BY DEF Next, RunPart, PartRaises, vars
<1> SUFFICES ASSUME NEW j \in Jobs, results'[j] = "fail", Alone(scripts[j]) # "fail"
             PROVE  BehindComment(j) \/ scripts[j].kind = "warned" \/ j \in silenced'
    BY <1>1 DEF FalseFailureIsExplained, Alone, BehindComment
<1>1a. silenced \subseteq silenced'
    BY DEF Next, RunPart, PartRaises, vars
<1>2. CASE results'[j] = results[j]
    BY <1>1a, <1>2 DEF FalseFailureIsExplained
<1> DEFINE lo == Head(stack)[1]
           hi == Head(stack)[2]
<1>3. CASE PartRaises
  <2>1. stack # <<>> /\ Record(lo, hi, [i \in 1 .. hi - lo + 1 |-> "raised"])
      BY <1>3 DEF PartRaises
  <2>2. lo \in Nat /\ hi \in Nat
      BY <2>1, ShapeFacts DEF Inv, Jobs
  <2>3. j \in lo .. hi => results'[j] = "raised"
      BY <2>1, <2>2 DEF Record
  <2>4. j \notin lo .. hi => results'[j] = results[j]
      BY <2>1 DEF Record
  <2> QED BY <1>2, <2>3, <2>4
<1>4. CASE RunPart
  <2> DEFINE file == SubSeq(scripts, lo, hi)
  <2>0. PICK p, dead :
          /\ p \in Ends(file)
          /\ \/ results' = results
             \/ /\ Record(lo, hi, RunPairs(file, p, dead))
                /\ silenced' = silenced \cup
                      {i \in lo .. hi : Silent(file, p) \/ i - lo + 1 \in dead}
      BY <1>4 DEF RunPart
  <2> DEFINE found == RunPairs(file, p, dead)
             silence == {i \in lo .. hi : Silent(file, p) \/ i - lo + 1 \in dead}
  <2>1. stack # <<>> /\ (results' = results \/ (Record(lo, hi, found) /\ silence \subseteq silenced'))
      BY <1>4, <2>0 DEF RunPart
  <2>2. /\ lo \in Jobs /\ hi \in Jobs /\ lo <= hi
        /\ scripts \in [Jobs -> Scripts] /\ Chunk \in Nat
    <3>1. Shape(stack)
        BY DEF Inv
    <3> QED BY <2>1, <3>1, ShapeFacts, ChunkAssumption DEF Inv
  <2>5. p \in Ends(file)
      BY <2>0
  <2> HIDE DEF lo, hi
  <2>3. CASE j \in lo .. hi /\ Record(lo, hi, found) /\ silence \subseteq silenced'
    <3> DEFINE k == j - lo + 1
    <3>1. /\ file \in Seq(Scripts) /\ Len(file) = hi - lo + 1
          /\ \A i \in 1 .. hi - lo + 1 : file[i] = scripts[lo + i - 1]
          /\ DOMAIN file = 1 .. hi - lo + 1
      <4>1. lo \in Int /\ hi \in Int /\ \A i \in lo .. hi : scripts[i] \in Scripts
          BY <2>2 DEF Jobs
      <4>2. /\ file \in Seq(Scripts) /\ Len(file) = hi - lo + 1
            /\ \A i \in 1 .. hi - lo + 1 : file[i] = scripts[lo + i - 1]
          BY <2>2, <4>1, SubSeqProperties
      <4> QED BY <4>2, LenProperties
    <3>2. results'[j] = found[k]
        BY <2>3 DEF Record
    <3> HIDE DEF file
    <3>3. lo \in Nat /\ hi \in Nat /\ k \in 1 .. hi - lo + 1 /\ lo + k - 1 = j
        BY <2>2, <2>3 DEF Jobs
    <3>4. k \in DOMAIN file /\ file[k] = scripts[j]
        BY <3>1, <3>3
    <3>5. CASE \A i \in 1 .. k - 1 : file[i].kind # "comment"
        BY <2>3, <2>5, <3>1, <3>2, <3>4, <3>5, PairsFailure
    <3>6. CASE \E i \in 1 .. k - 1 : file[i].kind = "comment"
      <4>1. PICK i \in 1 .. k - 1 : file[i].kind = "comment"
          BY <3>6
      <4>2. i \in 1 .. hi - lo + 1 /\ lo + i - 1 \in 1 .. j - 1
          BY <2>2, <3>3, <4>1 DEF Jobs
      <4>3. scripts[lo + i - 1].kind = "comment"
          BY <3>1, <4>1, <4>2
      <4> QED BY <4>2, <4>3 DEF BehindComment
    <3> QED BY <3>5, <3>6
  <2>4. CASE ~(j \in lo .. hi /\ Record(lo, hi, found) /\ silence \subseteq silenced')
    <3>1. results'[j] = results[j]
        BY <2>1, <2>4 DEF Record
    <3> QED BY <1>2, <3>1
  <2> QED BY <2>3, <2>4
<1>5. CASE UNCHANGED vars
    BY <1>2, <1>5 DEF vars
<1> QED BY <1>3, <1>4, <1>5 DEF Next

\* A job that would not fail alone is reported as failed only behind an open
\* comment, for a warning of its own, or because Lean died over its file without
\* a word: wherever and however often it dies.
THEOREM FailuresExplained == Spec => []FalseFailureIsExplained
<1>1. Init => FalseFailureIsExplained
    BY DEF Init, FalseFailureIsExplained
<1>2. Inv /\ FalseFailureIsExplained /\ [Next]_vars => FalseFailureIsExplained'
    BY StepExplained
<1> QED BY <1>1, <1>2, Invariance, PTL DEF Spec
==========================================================================
