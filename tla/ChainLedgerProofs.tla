-------------------------- MODULE ChainLedgerProofs --------------------------
(***************************************************************************)
(* Theorems about ChainLedger for every number of writers, every limit on   *)
(* records and bytes, and every number of faults.                           *)
(***************************************************************************)
EXTENDS ChainLedger, SequenceTheorems, TLAPS

----------------------------------------------------------------------------
(* The inductive invariant. *)

Items == [type : {"header", "event", "closure"}, size : 1 .. MaxEventLine, by : Writers]
Lines == [chain : Seq(Items), size : Nat, whole : BOOLEAN]
PCs == {"idle", "write", "sync", "ack", "close", "attest", "returned"}
States == {"none", "open", "closed", "poisoned", "abandoned", "dead"}
Scans == [by : Scanners \cup {None}, file : Writers \cup {None}, size : Nat, mtime : Nat,
          pc : {"none", "first", "second", "bind", "error", "torn", "unclosed", "closed_chain"},
          ino : Inos \cup {0}, read : Seq(Lines), total : Nat, again : Seq(Lines),
          middle : Seq(Lines)]

\* The types.  What a loss of power leaves of a file has a size too, but nobody
\* is there to ask for it: every writer is gone and the reader with them.
TypeInv ==
    /\ path \in Writers \cup {None}
    /\ lines \in [Writers -> Seq(Lines)]
    /\ synced \in [Writers -> Nat] /\ mtime \in [Writers -> Nat]
    /\ ino \in [Writers -> Inos \cup {0}]
    /\ state \in [Writers -> States] /\ fd \in [Writers -> BOOLEAN]
    /\ acked \in [Writers -> Seq(Items)] /\ bytes \in [Writers -> Nat]
    /\ pc \in [Writers -> PCs] /\ item \in [Writers -> Items \cup {None}]
    /\ scan \in Scans
    /\ faults \in Nat /\ reads \in Nat /\ touched \in SUBSET Writers
    /\ \/ size \in [Writers -> Nat]
       \/ /\ DOMAIN size = Writers /\ size = [w \in Writers |-> size[w]]
          /\ reads = MaxReads /\ \A w \in Writers : state[w] = "dead"

\* The header comes first and nowhere else, a closure last.
Ordered(chain) ==
    \A k \in 1 .. Len(chain) :
        /\ chain[k].type = "header" <=> k = 1
        /\ chain[k].type = "closure" => chain[k].size <= MaxClosureLine /\ k = Len(chain)

Finished(w) == acked[w] # <<>> /\ acked[w][Len(acked[w])].type = "closure"

\* Where a writer is, what it has in hand and what it has kept back.
Control(w) ==
    /\ Ordered(acked[w])
    /\ Len(acked[w]) <= MaxRecords /\ bytes[w] <= MaxBytes
    /\ state[w] = "none" => /\ pc[w] = "idle" /\ acked[w] = <<>> /\ bytes[w] = 0
                            /\ lines[w] = <<>> /\ size[w] = 0 /\ ino[w] = 0
    /\ pc[w] \in {"write", "sync", "ack"} =>
          /\ state[w] = "open" /\ item[w] \in Items
          /\ item[w].type \in Types(w) /\ Fits(w, item[w])
    /\ pc[w] = "close" => state[w] = "open" /\ Finished(w)
    /\ pc[w] \in {"attest", "returned"} => state[w] = "closed" /\ ~fd[w] /\ Finished(w)
    /\ state[w] = "open" /\ pc[w] # "close" =>
          /\ ~Finished(w)
          /\ acked[w] # <<>> => /\ Len(acked[w]) < MaxRecords
                                /\ bytes[w] + MaxClosureLine <= MaxBytes

\* The line of the k-th record of a chain.
LineOf(chain, k) == [chain |-> SubSeq(chain, 1, k), size |-> chain[k].size, whole |-> TRUE]

\* The acknowledged records are the first lines of the file, and on the disk.
Kept(w) ==
    w \notin touched =>
        /\ Len(acked[w]) <= Len(lines[w]) /\ Len(acked[w]) <= synced[w]
        /\ \A k \in 1 .. Len(acked[w]) : lines[w][k] = LineOf(acked[w], k)

\* A writer that finds the size it expects finds its own lines and no others.
Tracked(w) ==
    w \notin touched =>
        /\ state[w] \in {"open", "closed"} /\ pc[w] \notin {"sync", "ack"} =>
              /\ size[w] >= bytes[w]
              /\ size[w] = bytes[w] => Len(lines[w]) = Len(acked[w])
        /\ pc[w] \in {"sync", "ack"} =>
              /\ size[w] >= bytes[w] + item[w].size
              /\ Len(lines[w]) >= Len(acked[w]) + 1
              /\ size[w] = bytes[w] + item[w].size =>
                    /\ Len(lines[w]) = Len(acked[w]) + 1
                    /\ lines[w][Len(lines[w])] =
                          LineOf(Append(acked[w], item[w]), Len(acked[w]) + 1)
        /\ pc[w] = "ack" => synced[w] >= Len(acked[w]) + 1

\* What two passes over a file show: a line that is part of a chain was never
\* anything else, for lines are only appended or spoiled.
ScanInv ==
    /\ \A k \in 1 .. Len(scan.read) : scan.read[k].chain # <<>>
    /\ scan.pc \in {"first", "second"} =>
          scan.file \in Writers /\ Len(scan.read) <= Len(lines[scan.file])
    /\ scan.pc = "first" => scan.again = <<>>
    /\ scan.pc = "second" =>
          /\ Len(scan.read) = Len(scan.middle) /\ Len(scan.again) <= Len(lines[scan.file])
          /\ \A k \in 1 .. Len(scan.middle) :
                lines[scan.file][k] = scan.middle[k] \/ lines[scan.file][k].chain = <<>>
          /\ \A k \in 1 .. Len(scan.again) : k <= Len(scan.middle) =>
                scan.again[k] = scan.middle[k] \/ scan.again[k].chain = <<>>
    /\ scan.pc \notin {"first", "second"} => scan.read = scan.middle

\* A scan of a writer is taken by the close that waits for it.
AttestInv ==
    \A w \in Writers : scan.by = w =>
        /\ scan.pc \in {"first", "second", "bind"} => pc[w] = "attest"
        /\ scan.pc = "closed_chain" => Closed(scan.read)
        /\ pc[w] = "returned" => Closed(scan.middle) /\ ChainOf(scan.middle) = acked[w]

\* As long as nothing interferes, the sizes agree and no writer is poisoned.
Quiet(w) ==
    faults = 0 =>
        /\ touched = {}
        /\ state[w] \notin {"none", "dead"} =>
              /\ path = w
              /\ pc[w] \notin {"sync", "ack"} => size[w] = bytes[w]
              /\ pc[w] \in {"sync", "ack"} => size[w] = bytes[w] + item[w].size
        /\ acked[w] # <<>> => state[w] # "poisoned"

\* And the scan of a closing writer reads its records one after the other.
QuietScan(w) ==
    faults = 0 /\ scan.by = w =>
        /\ pc[w] \in {"attest", "returned"} /\ scan.pc \in {"first", "second", "bind", "closed_chain"}
        /\ scan.file = w /\ scan.size = size[w] /\ scan.mtime = mtime[w] /\ scan.ino = ino[w]
        /\ \A k \in 1 .. Len(scan.read) : scan.read[k] = LineOf(acked[w], k)
        /\ scan.pc # "first" => Len(scan.read) = Len(acked[w])
        /\ scan.pc = "second" => \A k \in 1 .. Len(scan.again) : scan.again[k] = LineOf(acked[w], k)

\* The tracked bytes are the sum of the records, and the total of a scan is a
\* partial sum of it; the sums are given by a function.
SumsOf(chain, total, S) ==
    /\ S \in [0 .. Len(chain) -> Nat]
    /\ S[0] = 0 /\ S[Len(chain)] = total
    /\ \A k \in 1 .. Len(chain) : S[k] = S[k - 1] + chain[k].size
    /\ \A k \in 0 .. Len(chain) : S[k] <= total

Sums(w) ==
    \E S : /\ SumsOf(acked[w], bytes[w], S)
           /\ faults = 0 /\ scan.by = w =>
                 Len(scan.read) <= Len(acked[w]) /\ scan.total = S[Len(scan.read)]

Inv ==
    /\ TypeInv /\ ScanInv /\ AttestInv
    /\ \A w \in Writers : Control(w) /\ Kept(w) /\ Tracked(w) /\ Quiet(w) /\ QuietScan(w) /\ Sums(w)

----------------------------------------------------------------------------
(* Chains and lines. *)

LEMMA ChainPrefix ==
    ASSUME NEW s \in Seq(Items), NEW k \in 0 .. Len(s)
    PROVE  /\ SubSeq(s, 1, k) \in Seq(Items) /\ Len(SubSeq(s, 1, k)) = k
           /\ \A i \in 1 .. k : SubSeq(s, 1, k)[i] = s[i]
<1>1. \A i \in 1 .. k : s[i] \in Items
  BY ElementOfSeq, LenProperties
<1>2. k \in Int /\ 1 \in Int
  BY LenProperties
<1> QED BY <1>1, <1>2, SubSeqProperties

LEMMA ChainAppend ==
    ASSUME NEW s \in Seq(Items), NEW x \in Items
    PROVE  /\ Append(s, x) \in Seq(Items) /\ Len(Append(s, x)) = Len(s) + 1
           /\ Len(s) \in Nat
           /\ \A k \in 1 .. Len(s) : Append(s, x)[k] = s[k] /\ LineOf(Append(s, x), k) = LineOf(s, k)
           /\ LineOf(Append(s, x), Len(s) + 1) =
                 [chain |-> Append(s, x), size |-> x.size, whole |-> TRUE]
<1>1. /\ Append(s, x) \in Seq(Items) /\ Len(Append(s, x)) = Len(s) + 1
      /\ \A k \in 1 .. Len(s) : Append(s, x)[k] = s[k]
      /\ Append(s, x)[Len(s) + 1] = x
      /\ Len(s) \in Nat
  BY AppendProperties, LenProperties
<1>2. ASSUME NEW k \in 1 .. Len(s) PROVE SubSeq(Append(s, x), 1, k) = SubSeq(s, 1, k)
  <2>1. /\ SubSeq(s, 1, k) \in Seq(Items) /\ Len(SubSeq(s, 1, k)) = k
        /\ \A i \in 1 .. k : SubSeq(s, 1, k)[i] = s[i]
    BY <1>1, ChainPrefix
  <2>2. /\ SubSeq(Append(s, x), 1, k) \in Seq(Items) /\ Len(SubSeq(Append(s, x), 1, k)) = k
        /\ \A i \in 1 .. k : SubSeq(Append(s, x), 1, k)[i] = Append(s, x)[i]
    BY <1>1, ChainPrefix
  <2> QED BY <1>1, <2>1, <2>2, SeqEqual
<1>3. SubSeq(Append(s, x), 1, Len(s) + 1) = Append(s, x)
  BY <1>1, SubSeqFull
<1> QED BY <1>1, <1>2, <1>3 DEF LineOf

LEMMA LineOfFacts ==
    ASSUME NEW s \in Seq(Items), NEW k \in 1 .. Len(s)
    PROVE  /\ LineOf(s, k) \in Lines /\ LineOf(s, k).whole
           /\ LineOf(s, k).size = s[k].size /\ s[k] \in Items
           /\ LineOf(s, k).chain # <<>> /\ LineOf(s, k).chain = SubSeq(s, 1, k)
           /\ Type(LineOf(s, k)) = s[k].type
<1>1. /\ SubSeq(s, 1, k) \in Seq(Items) /\ Len(SubSeq(s, 1, k)) = k
      /\ SubSeq(s, 1, k)[k] = s[k]
  BY ChainPrefix, LenProperties
<1>2. s[k] \in Items
  BY ElementOfSeq
<1>3. SubSeq(s, 1, k) # <<>>
  BY <1>1, LenProperties, EmptySeq
<1>4. /\ LineOf(s, k).whole = TRUE /\ LineOf(s, k).size = s[k].size
      /\ LineOf(s, k).chain = SubSeq(s, 1, k)
  BY DEF LineOf
<1>5. s[k].size \in Nat
  BY <1>2, LedgerAssumption DEF Items
<1>6. LineOf(s, k) \in Lines
  BY <1>1, <1>5 DEF LineOf, Lines
<1>7. Type(LineOf(s, k)) = s[k].type
  BY <1>1, <1>4 DEF Type, Last
<1> QED BY <1>2, <1>3, <1>4, <1>6, <1>7

LEMMA JunkFacts ==
    ASSUME NEW n \in Nat, NEW whole \in BOOLEAN
    PROVE  Junk(n, whole) \in Lines /\ Junk(n, whole).chain = <<>>
BY EmptySeq DEF Junk, Lines

\* Lines are appended; only a last line without its LF is lost on the way, and
\* what takes its place is part of no chain.
LEMMA AppendedFacts ==
    ASSUME NEW f \in Writers, lines[f] \in Seq(Lines), NEW line \in Lines
    PROVE  /\ Appended(f, line) \in Seq(Lines)
           /\ Len(Appended(f, line)) \in {Len(lines[f]), Len(lines[f]) + 1}
           /\ \A k \in 1 .. Len(lines[f]) :
                 \/ Appended(f, line)[k] = lines[f][k]
                 \/ /\ k = Len(lines[f]) /\ ~lines[f][k].whole
                    /\ Appended(f, line)[k].chain = <<>>
           /\ (\A k \in 1 .. Len(lines[f]) : lines[f][k].whole) =>
                 Appended(f, line) = Append(lines[f], line)
<1> DEFINE L == lines[f]
<1>1. Len(L) \in Nat /\ \A k \in 1 .. Len(L) : L[k] \in Lines
  BY LenProperties, ElementOfSeq
<1>2. CASE L # <<>> /\ ~Last(L).whole
  <2>1. Len(L) \in Nat \ {0}
    BY <1>2, EmptySeq
  <2>2. /\ Front(L) \in Seq(Lines) /\ Len(Front(L)) = Len(L) - 1
        /\ \A k \in 1 .. Len(L) - 1 : Front(L)[k] = L[k]
    <3>1. \A i \in 1 .. Len(L) - 1 : L[i] \in Lines
      BY <1>1
    <3>2. 1 \in Int /\ Len(L) - 1 \in Int
      BY <2>1
    <3>3. /\ SubSeq(L, 1, Len(L) - 1) \in Seq(Lines)
          /\ Len(SubSeq(L, 1, Len(L) - 1)) = IF 1 <= Len(L) - 1 THEN Len(L) - 1 - 1 + 1 ELSE 0
          /\ \A i \in 1 .. Len(L) - 1 - 1 + 1 : SubSeq(L, 1, Len(L) - 1)[i] = L[1 + i - 1]
      BY <3>1, <3>2, SubSeqProperties
    <3> QED BY <2>1, <3>3 DEF Front
  <2> DEFINE J == Junk(Last(L).size + line.size, line.whole)
  <2>3. J \in Lines /\ J.chain = <<>>
    <3>1. Last(L) \in Lines
      BY <1>1, <2>1 DEF Last
    <3>2. Last(L).size + line.size \in Nat /\ line.whole \in BOOLEAN
      BY <3>1 DEF Lines
    <3> QED BY <3>2, JunkFacts
  <2>4. Appended(f, line) = Append(Front(L), J)
    BY <1>2 DEF Appended
  <2> HIDE DEF J
  <2>5. /\ Append(Front(L), J) \in Seq(Lines)
        /\ Len(Append(Front(L), J)) = Len(Front(L)) + 1
        /\ \A i \in 1 .. Len(Front(L)) : Append(Front(L), J)[i] = Front(L)[i]
        /\ Append(Front(L), J)[Len(Front(L)) + 1] = J
    BY <2>2, <2>3, AppendProperties
  <2>6. ~L[Len(L)].whole
    BY <1>2 DEF Last
  <2> QED BY <2>1, <2>2, <2>3, <2>4, <2>5, <2>6
<1>3. CASE ~(L # <<>> /\ ~Last(L).whole)
  <2>1. Appended(f, line) = Append(L, line)
    BY <1>3 DEF Appended
  <2> QED BY <1>1, <2>1, AppendProperties
<1> QED BY <1>2, <1>3

----------------------------------------------------------------------------
(* Framing. *)

LEMMA InitInv == Init => Inv
<1> SUFFICES ASSUME Init PROVE Inv
  OBVIOUS
<1> USE LedgerAssumption DEF Init
<1>1. <<>> \in Seq(Lines) /\ <<>> \in Seq(Items) /\ Len(<<>>) = 0
  BY EmptySeq
<1>2. NoScan \in Scans
  BY <1>1 DEF NoScan, Scans
<1>3. TypeInv
  BY <1>1, <1>2 DEF TypeInv, PCs, States
<1>4. ScanInv /\ AttestInv
  BY <1>1 DEF ScanInv, AttestInv, NoScan
<1>5. ASSUME NEW w \in Writers
      PROVE  Control(w) /\ Kept(w) /\ Tracked(w) /\ Quiet(w) /\ QuietScan(w)
  BY <1>1 DEF Control, Ordered, Kept, Tracked, Quiet, QuietScan, NoScan
<1>6. ASSUME NEW w \in Writers PROVE Sums(w)
  <2>1. SumsOf(acked[w], bytes[w], [k \in 0 .. 0 |-> 0])
    BY <1>1 DEF SumsOf
  <2> QED BY <2>1 DEF Sums, NoScan
<1> QED BY <1>3, <1>4, <1>5, <1>6 DEF Inv

\* A step leaves writer v and its file alone.
Untouched(v) ==
    /\ state'[v] = state[v] /\ fd'[v] = fd[v] /\ pc'[v] = pc[v] /\ item'[v] = item[v]
    /\ acked'[v] = acked[v] /\ bytes'[v] = bytes[v]
    /\ lines'[v] = lines[v] /\ size'[v] = size[v] /\ synced'[v] = synced[v] /\ ino'[v] = ino[v]

LEMMA UntouchedKeeps ==
    ASSUME NEW v \in Writers, Untouched(v), touched \subseteq touched',
           Control(v), Kept(v), Tracked(v)
    PROVE  Control(v)' /\ Kept(v)' /\ Tracked(v)'
<1> USE DEF Untouched
<1>1. Control(v)'
  BY DEF Control, Finished, Types, Fits
<1>2. Kept(v)'
  BY DEF Kept
<1>3. Tracked(v)'
  BY DEF Tracked
<1> QED BY <1>1, <1>2, <1>3

\* A file only grows, and a line of it that changes leaves its chain.
Grows(f) ==
    /\ Len(lines'[f]) \in Nat /\ Len(lines'[f]) >= Len(lines[f])
    /\ \A k \in 1 .. Len(lines[f]) : lines'[f][k] = lines[f][k] \/ lines'[f][k].chain = <<>>

LEMMA ScanKept ==
    ASSUME TypeInv, ScanInv, scan' = scan, \A f \in Writers : Grows(f)
    PROVE  ScanInv'
<1>1. Len(scan.read) \in Nat /\ Len(scan.middle) \in Nat /\ Len(scan.again) \in Nat
  BY LenProperties DEF TypeInv, Scans
<1>2. \A f \in Writers : Len(lines[f]) \in Nat
  BY LenProperties DEF TypeInv
<1>3. CASE scan.pc \notin {"first", "second"}
  BY <1>3 DEF ScanInv
<1>4. CASE scan.pc \in {"first", "second"}
  <2>1. scan.file \in Writers /\ Len(scan.read) <= Len(lines[scan.file])
    BY <1>4 DEF ScanInv
  <2>2. Grows(scan.file)
    BY <2>1
  <2>3. /\ Len(scan.read) <= Len(lines'[scan.file])
        /\ scan.pc = "second" => Len(scan.again) <= Len(lines'[scan.file])
    BY <1>1, <1>2, <2>1, <2>2 DEF Grows, ScanInv
  <2>4. ASSUME scan.pc = "second", NEW k \in 1 .. Len(scan.middle)
        PROVE  lines'[scan.file][k] = scan.middle[k] \/ lines'[scan.file][k].chain = <<>>
    <3>1. lines[scan.file][k] = scan.middle[k] \/ lines[scan.file][k].chain = <<>>
      BY <2>4 DEF ScanInv
    <3>2. k \in 1 .. Len(lines[scan.file])
      BY <1>1, <1>2, <2>1, <2>4 DEF ScanInv
    <3> QED BY <2>2, <3>1, <3>2 DEF Grows
  <2> QED BY <1>4, <2>1, <2>3, <2>4 DEF ScanInv
<1> QED BY <1>3, <1>4

\* A step of a writer that has no scan under way.
LEMMA WriterStepKeeps ==
    ASSUME Inv, NEW w \in Writers,
           pc[w] \notin {"attest", "returned"}, pc'[w] # "returned",
           UNCHANGED <<path, ino, mtime, scan, touched>>,
           faults' \in {faults, faults + 1},
           \A v \in Writers \ {w} : Untouched(v),
           Grows(w), TypeInv',
           Control(w)', Kept(w)', Tracked(w)', Quiet(w)',
           \E S : SumsOf(acked'[w], bytes'[w], S)
    PROVE  Inv'
<1>1. faults \in Nat /\ (faults' = 0 => faults = 0)
  BY DEF Inv, TypeInv
<1>2. ScanInv'
  <2>1. ASSUME NEW f \in Writers PROVE Grows(f)
    <3>1. CASE f = w
      BY <3>1
    <3>2. CASE f # w
      <4>1. lines'[f] = lines[f]
        BY <3>2 DEF Untouched
      <4>2. Len(lines[f]) \in Nat
        BY LenProperties DEF Inv, TypeInv
      <4> QED BY <4>1, <4>2 DEF Grows
    <3> QED BY <3>1, <3>2
  <2> QED BY <2>1, ScanKept DEF Inv
<1>3. scan.by = w => faults # 0 /\ scan.pc \notin {"first", "second", "bind"}
  BY DEF Inv, QuietScan, AttestInv
<1>4. AttestInv'
  <2>1. ASSUME NEW v \in Writers \ {w} PROVE pc'[v] = pc[v] /\ acked'[v] = acked[v]
    BY DEF Untouched
  <2> QED BY <1>3, <2>1 DEF AttestInv, Inv
<1>5. ASSUME NEW v \in Writers \ {w}
      PROVE  /\ Control(v)' /\ Kept(v)' /\ Tracked(v)'
             /\ Quiet(v)' /\ QuietScan(v)' /\ Sums(v)'
  <2>1. Control(v)' /\ Kept(v)' /\ Tracked(v)'
    BY UntouchedKeeps DEF Inv
  <2>2. Untouched(v)
    BY <1>5
  <2>3. Quiet(v)' /\ QuietScan(v)'
    BY <1>1, <2>2 DEF Inv, Quiet, QuietScan, Untouched
  <2>4. Sums(v)'
    BY <1>1, <2>2 DEF Inv, Sums, Untouched
  <2> QED BY <2>1, <2>3, <2>4
<1>6. QuietScan(w)' /\ Sums(w)'
  BY <1>1, <1>3 DEF QuietScan, Sums
<1> QED BY <1>2, <1>4, <1>5, <1>6 DEF Inv

----------------------------------------------------------------------------
(* The steps of a writer. *)

\* What the invariant says of one writer.
LEMMA OneWriter ==
    ASSUME Inv, NEW w \in Writers
    PROVE  /\ Control(w) /\ Kept(w) /\ Tracked(w) /\ Quiet(w)
           /\ acked[w] \in Seq(Items) /\ Len(acked[w]) \in Nat
           /\ lines[w] \in Seq(Lines) /\ Len(lines[w]) \in Nat
           /\ bytes[w] \in Nat /\ synced[w] \in Nat
           /\ state[w] # "dead" => size \in [Writers -> Nat] /\ size[w] \in Nat
           /\ \E S : SumsOf(acked[w], bytes[w], S)
<1>1. acked[w] \in Seq(Items) /\ lines[w] \in Seq(Lines) /\ bytes[w] \in Nat /\ synced[w] \in Nat
  BY DEF Inv, TypeInv
<1>2. Len(acked[w]) \in Nat /\ Len(lines[w]) \in Nat
  BY <1>1, LenProperties
<1> QED BY <1>1, <1>2 DEF Inv, TypeInv, Sums

LEMMA SameFiles ==
    ASSUME Inv, lines' = lines
    PROVE  \A f \in Writers : Grows(f)
BY OneWriter DEF Grows

LEMMA BeginAppendKeeps ==
    ASSUME Inv, NEW w \in Writers, NEW type \in {"header", "event", "closure"},
           NEW n \in 1 .. MaxEventLine, BeginAppend(w, type, n)
    PROVE  Inv'
<1> USE DEF BeginAppend, filevars
<1>1. Item(w, type, n) \in Items /\ Item(w, type, n).type = type
  BY DEF Item, Items
<1>2. TypeInv'
  BY <1>1 DEF Inv, TypeInv, PCs
<1>3. /\ item'[w] = Item(w, type, n) /\ pc'[w] = "write"
      /\ \A v \in Writers \ {w} : Untouched(v)
  BY DEF Inv, TypeInv, Untouched
<1>4. Control(w)'
  BY <1>1, <1>3, OneWriter DEF Control, Finished, Fits, Types
<1>5. Kept(w)' /\ Tracked(w)' /\ Quiet(w)'
  BY <1>3, OneWriter DEF Kept, Tracked, Quiet
<1> QED BY <1>2, <1>3, <1>4, <1>5, OneWriter, SameFiles, WriterStepKeeps

\* A writer that gives its file up.
LEMMA PoisonKeeps ==
    ASSUME Inv, NEW w \in Writers, Poison(w),
           pc[w] \notin {"attest", "returned"}, state[w] = "open",
           UNCHANGED <<path, synced, ino, mtime, scan, reads, touched>>,
           faults' \in {faults, faults + 1},
           fd' \in [Writers -> BOOLEAN], \A v \in Writers \ {w} : fd'[v] = fd[v],
           lines' \in [Writers -> Seq(Lines)], \A v \in Writers \ {w} : lines'[v] = lines[v],
           size' \in [Writers -> Nat], \A v \in Writers \ {w} : size'[v] = size[v],
           Grows(w), Kept(w)',
           faults' = 0 => acked[w] = <<>> /\ size'[w] = bytes[w]
    PROVE  Inv'
<1> USE DEF Poison
<1>0. faults \in Nat /\ faults' \in Nat /\ (faults' = 0 => faults = 0)
  <2>1. faults \in Nat
    BY DEF Inv, TypeInv
  <2> QED BY <2>1
<1>1. TypeInv'
  <2>1. /\ state' \in [Writers -> States] /\ pc' \in [Writers -> PCs]
        /\ item' \in [Writers -> Items \cup {None}]
    BY DEF Inv, TypeInv, PCs, States
  <2> QED BY <1>0, <2>1 DEF Inv, TypeInv
<1>2. /\ state'[w] = "poisoned" /\ pc'[w] = "idle"
      /\ acked'[w] = acked[w] /\ bytes'[w] = bytes[w]
      /\ \A v \in Writers \ {w} : Untouched(v)
  BY DEF Inv, TypeInv, Untouched
<1>3. Control(w)' /\ Tracked(w)'
  BY <1>2, OneWriter DEF Control, Finished, Tracked
<1>4. Quiet(w)'
  <2>1. faults' = 0 => touched = {} /\ path = w
    BY <1>0, OneWriter DEF Quiet
  <2> QED BY <1>2, <2>1 DEF Quiet
<1> QED BY <1>1, <1>2, <1>3, <1>4, OneWriter, WriterStepKeeps

LEMMA FaultCount == ASSUME Inv, Fault PROVE faults' = faults + 1 /\ faults' # 0
BY DEF Inv, TypeInv, Fault

LEMMA CloseFdFacts ==
    ASSUME Inv, NEW w \in Writers, CloseFd(w)
    PROVE  /\ faults' \in {faults, faults + 1} /\ (faults' = 0 => faults = 0)
           /\ fd' \in [Writers -> BOOLEAN] /\ \A v \in Writers \ {w} : fd'[v] = fd[v]
BY FaultCount DEF CloseFd, Inv, TypeInv

LEMMA AppendRefusedKeeps ==
    ASSUME Inv, NEW w \in Writers, NEW type \in {"header", "event", "closure"},
           NEW n \in 1 .. MaxEventLine, AppendRefused(w, type, n)
    PROVE  Inv'
<1> USE DEF AppendRefused, filevars
<1>1. Kept(w)'
  BY OneWriter DEF Kept, Poison
<1>2. size \in [Writers -> Nat] /\ lines \in [Writers -> Seq(Lines)]
  BY OneWriter DEF Inv, TypeInv
<1>3. faults' = 0 => faults = 0
  BY CloseFdFacts
<1>4. faults' = 0 => size[w] = bytes[w]
  BY <1>3, OneWriter DEF Quiet
<1>5. faults' = 0 => acked[w] = <<>>
  BY <1>4 DEF Types
<1> QED BY <1>1, <1>2, <1>4, <1>5, CloseFdFacts, SameFiles, PoisonKeeps

LEMMA FsyncKeeps ==
    ASSUME Inv, NEW w \in Writers, Fsync(w)
    PROVE  Inv'
<1> USE DEF Fsync
<1>1. TypeInv'
  BY OneWriter DEF Inv, TypeInv, PCs
<1>2. /\ pc'[w] = "ack" /\ synced'[w] = Len(lines[w])
      /\ \A v \in Writers \ {w} : Untouched(v)
  BY DEF Inv, TypeInv, Untouched
<1>3. Control(w)'
  BY <1>2, OneWriter DEF Control, Finished, Fits, Types
<1>4. Kept(w)' /\ Tracked(w)' /\ Quiet(w)'
  BY <1>2, OneWriter DEF Kept, Tracked, Quiet
<1> QED BY <1>1, <1>2, <1>3, <1>4, OneWriter, SameFiles, WriterStepKeeps

LEMMA FsyncFailsKeeps ==
    ASSUME Inv, NEW w \in Writers, FsyncFails(w)
    PROVE  Inv'
<1> USE DEF FsyncFails, filevars
<1>1. Kept(w)'
  BY OneWriter DEF Kept, Poison
<1>2. state[w] = "open" /\ size \in [Writers -> Nat] /\ lines \in [Writers -> Seq(Lines)]
  BY OneWriter DEF Inv, TypeInv, Control
<1>3. fd' \in [Writers -> BOOLEAN] /\ \A v \in Writers \ {w} : fd'[v] = fd[v]
  BY DEF Inv, TypeInv
<1> QED BY <1>1, <1>2, <1>3, FaultCount, SameFiles, PoisonKeeps

LEMMA AckRefusedKeeps ==
    ASSUME Inv, NEW w \in Writers, AckRefused(w)
    PROVE  Inv'
<1> USE DEF AckRefused, filevars
<1>1. Kept(w)'
  BY OneWriter DEF Kept, Poison
<1>2. state[w] = "open" /\ size \in [Writers -> Nat] /\ lines \in [Writers -> Seq(Lines)]
  BY OneWriter DEF Inv, TypeInv, Control
<1>3. faults' # 0
  <2>1. faults # 0
    BY <1>2, OneWriter DEF Quiet
  <2> QED BY <2>1, CloseFdFacts
<1> QED BY <1>1, <1>2, <1>3, CloseFdFacts, SameFiles, PoisonKeeps

\* Bytes at the end of a file leave the acknowledged records where they are.
LEMMA AppendedKeeps ==
    ASSUME Inv, NEW w \in Writers, NEW line \in Lines, lines'[w] = Appended(w, line),
           touched' = touched, acked'[w] = acked[w], synced'[w] = synced[w]
    PROVE  /\ Grows(w) /\ Kept(w)' /\ lines'[w] \in Seq(Lines)
           /\ w \notin touched => Len(lines'[w]) >= Len(acked[w]) + 1
           /\ w \notin touched /\ Len(lines[w]) = Len(acked[w]) =>
                 lines'[w] = Append(lines[w], line)
<1>1. /\ acked[w] \in Seq(Items) /\ lines[w] \in Seq(Lines)
      /\ Len(acked[w]) \in Nat /\ Len(lines[w]) \in Nat /\ synced[w] \in Nat /\ Kept(w)
  BY OneWriter
<1>2. /\ lines'[w] \in Seq(Lines)
      /\ Len(lines'[w]) \in {Len(lines[w]), Len(lines[w]) + 1}
      /\ \A k \in 1 .. Len(lines[w]) :
            \/ lines'[w][k] = lines[w][k]
            \/ /\ k = Len(lines[w]) /\ ~lines[w][k].whole
               /\ lines'[w][k].chain = <<>>
      /\ (\A k \in 1 .. Len(lines[w]) : lines[w][k].whole) =>
            lines'[w] = Append(lines[w], line)
  BY <1>1, AppendedFacts
<1>3. Grows(w)
  BY <1>1, <1>2 DEF Grows
<1>4. ASSUME w \notin touched, NEW k \in 1 .. Len(acked[w])
      PROVE  lines[w][k] = LineOf(acked[w], k) /\ lines[w][k].whole
  BY <1>1, <1>4, LineOfFacts DEF Kept
<1>5. Kept(w)'
  <2>1. w \notin touched => Len(acked[w]) <= Len(lines[w]) /\ Len(acked[w]) <= synced[w]
    BY <1>1 DEF Kept
  <2>2. ASSUME w \notin touched, NEW k \in 1 .. Len(acked[w])
        PROVE  lines'[w][k] = LineOf(acked[w], k)
    BY <1>1, <1>2, <1>4, <2>1, <2>2
  <2> QED BY <1>1, <1>2, <2>1, <2>2 DEF Kept
<1>6. ASSUME w \notin touched PROVE Len(lines'[w]) >= Len(acked[w]) + 1
  <2>1. Len(acked[w]) <= Len(lines[w])
    BY <1>1, <1>6 DEF Kept
  <2>2. CASE Len(acked[w]) < Len(lines[w])
    BY <1>1, <1>2, <2>2
  <2>3. CASE Len(acked[w]) = Len(lines[w])
    <3>1. lines'[w] = Append(lines[w], line)
      BY <1>2, <1>4, <1>6, <2>3
    <3> QED BY <1>1, <2>3, <3>1, AppendProperties
  <2> QED BY <1>1, <2>1, <2>2, <2>3
<1>7. ASSUME w \notin touched, Len(lines[w]) = Len(acked[w])
      PROVE  lines'[w] = Append(lines[w], line)
  BY <1>2, <1>4, <1>7
<1> QED BY <1>2, <1>3, <1>5, <1>6, <1>7

LEMMA WriteKeeps ==
    ASSUME Inv, NEW w \in Writers, Write(w)
    PROVE  Inv'
<1> DEFINE line == [chain |-> Append(acked[w], item[w]), size |-> item[w].size, whole |-> TRUE]
<1>1. /\ acked[w] \in Seq(Items) /\ lines[w] \in Seq(Lines)
      /\ Len(acked[w]) \in Nat /\ Len(lines[w]) \in Nat /\ bytes[w] \in Nat
  BY OneWriter
<1>2. /\ pc[w] = "write" /\ state[w] = "open" /\ item[w] \in Items
      /\ size \in [Writers -> Nat] /\ size[w] \in Nat
  BY OneWriter DEF Write, Control
<1>3. item[w].size \in Nat
  BY <1>2, LedgerAssumption DEF Items
<1>4. line \in Lines /\ line = LineOf(Append(acked[w], item[w]), Len(acked[w]) + 1)
  BY <1>1, <1>2, <1>3, ChainAppend DEF Lines
<1>5. /\ pc'[w] = "sync" /\ size'[w] = size[w] + item[w].size
      /\ state'[w] = state[w] /\ item'[w] = item[w] /\ acked'[w] = acked[w]
      /\ bytes'[w] = bytes[w] /\ synced'[w] = synced[w] /\ fd'[w] = fd[w]
      /\ lines'[w] = Appended(w, line)
      /\ \A v \in Writers \ {w} : Untouched(v)
      /\ UNCHANGED <<path, ino, mtime, scan, touched, faults, reads>>
  BY <1>2 DEF Write, Inv, TypeInv, Untouched
<1>6. /\ Grows(w) /\ Kept(w)' /\ lines'[w] \in Seq(Lines)
      /\ w \notin touched => Len(lines'[w]) >= Len(acked[w]) + 1
      /\ w \notin touched /\ Len(lines[w]) = Len(acked[w]) => lines'[w] = Append(lines[w], line)
  BY <1>4, <1>5, AppendedKeeps
<1> HIDE DEF line
<1>7. TypeInv'
  <2>1. lines' \in [Writers -> Seq(Lines)]
    <3>1. lines' = [lines EXCEPT ![w] = lines'[w]] /\ lines \in [Writers -> Seq(Lines)]
      BY DEF Write, Inv, TypeInv
    <3> QED BY <1>6, <3>1
  <2>2. size' \in [Writers -> Nat]
    <3>1. size' = [size EXCEPT ![w] = size[w] + item[w].size]
      BY DEF Write
    <3> QED BY <1>2, <1>3, <3>1
  <2>3. pc' \in [Writers -> PCs]
    BY DEF Write, Inv, TypeInv, PCs
  <2> QED BY <2>1, <2>2, <2>3 DEF Write, Inv, TypeInv
<1>8. Control(w)'
  BY <1>2, <1>5, OneWriter DEF Control, Finished, Fits, Types
<1>9. Tracked(w)'
  <2> SUFFICES ASSUME w \notin touched PROVE Tracked(w)'
    BY <1>5 DEF Tracked
  <2>1. size[w] >= bytes[w] /\ (size[w] = bytes[w] => Len(lines[w]) = Len(acked[w]))
    BY <1>2, OneWriter DEF Tracked
  <2>2. size'[w] >= bytes[w] + item[w].size
    BY <1>1, <1>2, <1>3, <1>5, <2>1
  <2>3. ASSUME size'[w] = bytes[w] + item[w].size
        PROVE  /\ Len(lines'[w]) = Len(acked[w]) + 1
               /\ lines'[w][Len(lines'[w])] =
                     LineOf(Append(acked[w], item[w]), Len(acked[w]) + 1)
    <3>1. size[w] = bytes[w]
      BY <1>1, <1>2, <1>3, <1>5, <2>3
    <3>2. lines'[w] = Append(lines[w], line) /\ Len(lines[w]) = Len(acked[w])
      BY <1>6, <2>1, <3>1
    <3> QED BY <1>1, <1>4, <3>2, AppendProperties
  <2> QED BY <1>5, <1>6, <2>2, <2>3 DEF Tracked
<1>10. Quiet(w)'
  BY <1>1, <1>2, <1>3, <1>5, OneWriter DEF Quiet
<1> QED BY <1>2, <1>5, <1>6, <1>7, <1>8, <1>9, <1>10, OneWriter, WriterStepKeeps

LEMMA WriteFailsKeeps ==
    ASSUME Inv, NEW w \in Writers, WriteFails(w)
    PROVE  Inv'
<1>1. /\ pc[w] = "write" /\ state[w] = "open" /\ item[w] \in Items
      /\ size \in [Writers -> Nat] /\ size[w] \in Nat /\ lines \in [Writers -> Seq(Lines)]
  BY OneWriter DEF WriteFails, Control, Inv, TypeInv
<1>2. /\ Poison(w) /\ faults' = faults + 1 /\ faults' # 0
      /\ UNCHANGED <<path, synced, ino, mtime, scan, reads, touched>>
      /\ fd' \in [Writers -> BOOLEAN] /\ \A v \in Writers \ {w} : fd'[v] = fd[v]
      /\ acked' = acked
  BY FaultCount DEF WriteFails, Poison, Inv, TypeInv
<1>3. CASE UNCHANGED <<lines, size>>
  <2>1. Kept(w)'
    BY <1>2, <1>3, OneWriter DEF Kept
  <2> QED BY <1>1, <1>2, <1>3, <2>1, SameFiles, PoisonKeeps
<1>4. CASE \E n \in 1 .. (item[w].size - 1) :
              /\ lines' = [lines EXCEPT ![w] = Appended(w, Junk(n, FALSE))]
              /\ size' = [size EXCEPT ![w] = @ + n]
  <2>1. item[w].size \in Nat
    BY <1>1, LedgerAssumption DEF Items
  <2>2. PICK n \in 1 .. (item[w].size - 1) :
              /\ lines' = [lines EXCEPT ![w] = Appended(w, Junk(n, FALSE))]
              /\ size' = [size EXCEPT ![w] = @ + n]
    BY <1>4
  <2>3. n \in Nat /\ Junk(n, FALSE) \in Lines
    <3>1. n \in Nat
      BY <2>1
    <3> QED BY <3>1, JunkFacts
  <2>4. /\ lines'[w] = Appended(w, Junk(n, FALSE)) /\ size' \in [Writers -> Nat]
        /\ \A v \in Writers \ {w} : lines'[v] = lines[v] /\ size'[v] = size[v]
    BY <1>1, <2>2, <2>3
  <2>5. Grows(w) /\ Kept(w)' /\ lines'[w] \in Seq(Lines)
    BY <1>2, <2>3, <2>4, AppendedKeeps
  <2>6. lines' \in [Writers -> Seq(Lines)]
    BY <1>1, <2>2, <2>4, <2>5
  <2> QED BY <1>1, <1>2, <2>4, <2>5, <2>6, PoisonKeeps
<1> QED BY <1>3, <1>4 DEF WriteFails

LEMMA AckKeeps ==
    ASSUME Inv, NEW w \in Writers, Ack(w)
    PROVE  Inv'
<1> DEFINE chain == Append(acked[w], item[w])
           n == Len(acked[w])
<1>1. /\ acked[w] \in Seq(Items) /\ lines[w] \in Seq(Lines)
      /\ n \in Nat /\ Len(lines[w]) \in Nat /\ bytes[w] \in Nat /\ synced[w] \in Nat
  BY OneWriter
<1>2. /\ pc[w] = "ack" /\ state[w] = "open" /\ item[w] \in Items
      /\ item[w].type \in Types(w) /\ Fits(w, item[w])
      /\ size \in [Writers -> Nat] /\ size[w] \in Nat /\ size[w] = bytes[w] + item[w].size
      /\ ~Finished(w) /\ Ordered(acked[w])
  BY OneWriter DEF Ack, Control
<1>3. item[w].size \in Nat /\ item[w].type \in {"header", "event", "closure"}
  BY <1>2, LedgerAssumption DEF Items
<1>4. /\ chain \in Seq(Items) /\ Len(chain) = n + 1 /\ chain # <<>>
      /\ \A k \in 1 .. n : chain[k] = acked[w][k] /\ LineOf(chain, k) = LineOf(acked[w], k)
      /\ chain[n + 1] = item[w]
  <2>1. /\ chain \in Seq(Items) /\ Len(chain) = n + 1
        /\ \A k \in 1 .. n : chain[k] = acked[w][k] /\ LineOf(chain, k) = LineOf(acked[w], k)
    BY <1>1, <1>2, ChainAppend
  <2>2. chain[n + 1] = item[w]
    BY <1>1, <1>2, AppendProperties
  <2>3. Len(chain) # 0
    BY <1>1, <2>1
  <2>4. chain # <<>>
    <3> HIDE DEF chain
    <3> QED BY <2>3, EmptySeq
  <2> QED BY <2>1, <2>2, <2>4
<1>5. /\ pc'[w] = IF item[w].type = "closure" THEN "close" ELSE "idle"
      /\ acked'[w] = chain /\ bytes'[w] = bytes[w] + item[w].size
      /\ \A v \in Writers \ {w} : Untouched(v)
      /\ UNCHANGED <<path, lines, size, synced, ino, mtime, state, fd, scan, faults, reads, touched>>
  BY DEF Ack, Inv, TypeInv, Untouched, filevars
<1>6. TypeInv'
  <2>1. acked' \in [Writers -> Seq(Items)]
    <3>1. acked' = [acked EXCEPT ![w] = chain] /\ acked \in [Writers -> Seq(Items)]
      BY DEF Ack, Inv, TypeInv
    <3> QED BY <1>4, <3>1
  <2>2. bytes' \in [Writers -> Nat]
    <3>1. bytes' = [bytes EXCEPT ![w] = bytes[w] + item[w].size] /\ bytes \in [Writers -> Nat]
      BY DEF Ack, Inv, TypeInv
    <3> QED BY <1>1, <1>3, <3>1
  <2>3. pc' \in [Writers -> PCs] /\ item' \in [Writers -> Items \cup {None}]
    BY DEF Ack, Inv, TypeInv, PCs
  <2> QED BY <1>5, <2>1, <2>2, <2>3 DEF Inv, TypeInv
<1> HIDE DEF chain
<1>7. Ordered(chain)
  <2>1. \A k \in 1 .. n : acked[w][k].type # "closure"
    BY <1>1, <1>2, EmptySeq DEF Ordered, Finished
  <2>2. item[w].type = "header" <=> n = 0
    BY <1>1, <1>2, EmptySeq DEF Types
  <2>3. item[w].type = "closure" => item[w].size <= MaxClosureLine
    BY <1>2 DEF Fits
  <2>4. ASSUME NEW k \in 1 .. n + 1
        PROVE  /\ chain[k].type = "header" <=> k = 1
               /\ chain[k].type = "closure" => chain[k].size <= MaxClosureLine /\ k = n + 1
    <3>1. CASE k \in 1 .. n
      BY <1>1, <1>2, <1>4, <2>1, <3>1 DEF Ordered
    <3>2. CASE k = n + 1
      BY <1>1, <1>4, <2>2, <2>3, <3>2
    <3> QED BY <1>1, <2>4, <3>1, <3>2
  <2> QED BY <1>4, <2>4 DEF Ordered
<1>8. Control(w)'
  <2>1. n + 1 <= MaxRecords /\ bytes[w] + item[w].size <= MaxBytes
    BY <1>1, <1>2, <1>3, LedgerAssumption DEF Fits
  <2>2. Finished(w)' <=> item[w].type = "closure"
    BY <1>4, <1>5 DEF Finished
  <2>3. item[w].type # "closure" => /\ n + 1 < MaxRecords
                                    /\ bytes[w] + item[w].size + MaxClosureLine <= MaxBytes
    BY <1>1, <1>2, <1>3, LedgerAssumption DEF Fits
  <2> QED BY <1>2, <1>4, <1>5, <1>7, <2>1, <2>2, <2>3 DEF Control
<1>9. Kept(w)' /\ Tracked(w)'
  <2>1. CASE w \in touched
    BY <1>5, <2>1 DEF Kept, Tracked
  <2>2. CASE w \notin touched
    <3>1. /\ Len(lines[w]) = n + 1 /\ synced[w] >= n + 1
          /\ lines[w][n + 1] = LineOf(chain, n + 1)
      BY <1>2, <2>2, OneWriter DEF Tracked, chain
    <3>2. ASSUME NEW k \in 1 .. n + 1 PROVE lines[w][k] = LineOf(chain, k)
      <4>1. CASE k \in 1 .. n
        BY <1>4, <2>2, <4>1, OneWriter DEF Kept
      <4> QED BY <1>1, <3>1, <3>2, <4>1
    <3>3. Kept(w)'
      BY <1>1, <1>4, <1>5, <3>1, <3>2 DEF Kept
    <3>4. Tracked(w)'
      BY <1>1, <1>2, <1>3, <1>4, <1>5, <3>1 DEF Tracked
    <3> QED BY <3>3, <3>4
  <2> QED BY <2>1, <2>2
<1>10. Quiet(w)'
  BY <1>2, <1>5, OneWriter DEF Quiet
<1>11. \E S : SumsOf(acked'[w], bytes'[w], S)
  <2>1. PICK S : SumsOf(acked[w], bytes[w], S)
    BY OneWriter
  <2> DEFINE T == [k \in 0 .. n + 1 |-> IF k = n + 1 THEN bytes[w] + item[w].size ELSE S[k]]
  <2>2. /\ S \in [0 .. n -> Nat] /\ S[0] = 0 /\ S[n] = bytes[w]
        /\ \A k \in 1 .. n : S[k] = S[k - 1] + acked[w][k].size
        /\ \A k \in 0 .. n : S[k] <= bytes[w]
    BY <2>1 DEF SumsOf
  <2>3. /\ T \in [0 .. n + 1 -> Nat] /\ T[0] = 0 /\ T[n + 1] = bytes[w] + item[w].size
        /\ \A k \in 0 .. n : T[k] = S[k]
    BY <1>1, <1>3, <2>2
  <2> HIDE DEF T
  <2>4. ASSUME NEW k \in 1 .. n + 1 PROVE T[k] = T[k - 1] + chain[k].size
    <3>1. CASE k \in 1 .. n
      <4>1. k \in 0 .. n /\ k - 1 \in 0 .. n
        BY <1>1, <3>1
      <4> QED BY <1>4, <2>2, <2>3, <3>1, <4>1
    <3>2. CASE k = n + 1
      <4>1. T[k - 1] = bytes[w]
        BY <1>1, <2>2, <2>3, <3>2
      <4> QED BY <1>4, <2>3, <3>2, <4>1
    <3> QED BY <1>1, <2>4, <3>1, <3>2
  <2>5. ASSUME NEW k \in 0 .. n + 1 PROVE T[k] <= bytes[w] + item[w].size
    <3>1. CASE k \in 0 .. n
      <4>1. S[k] \in Nat /\ S[k] <= bytes[w] /\ T[k] = S[k]
        BY <2>2, <2>3, <3>1
      <4> QED BY <1>1, <1>3, <4>1
    <3>2. CASE k = n + 1
      BY <1>1, <1>3, <2>3, <3>2
    <3> QED BY <1>1, <2>5, <3>1, <3>2
  <2>6. SumsOf(chain, bytes[w] + item[w].size, T)
    BY <1>4, <2>3, <2>4, <2>5 DEF SumsOf
  <2> QED BY <1>5, <2>6
<1>12. pc'[w] # "returned"
  BY <1>5
<1> QED BY <1>2, <1>5, <1>6, <1>8, <1>9, <1>10, <1>11, <1>12, SameFiles, WriterStepKeeps

\* close_with_closure and abandon_unfinalized.
LEMMA CloseWithKeeps ==
    ASSUME Inv, NEW w \in Writers, NEW next \in {"closed", "abandoned"},
           state[w] = "open", pc[w] = IF next = "closed" THEN "close" ELSE "idle",
           CloseWith(w, next), UNCHANGED <<filevars, scan, reads, touched>>
    PROVE  Inv'
<1> USE DEF filevars
<1>1. size \in [Writers -> Nat] /\ lines \in [Writers -> Seq(Lines)]
  BY OneWriter DEF Inv, TypeInv
<1>2. CASE Fault /\ Poison(w) /\ UNCHANGED fd
  <2>1. Kept(w)'
    BY <1>2, OneWriter DEF Kept, Poison
  <2>2. fd \in [Writers -> BOOLEAN]
    BY DEF Inv, TypeInv
  <2> QED BY <1>1, <1>2, <2>1, <2>2, FaultCount, SameFiles, PoisonKeeps
<1>3. CASE /\ fd' = [fd EXCEPT ![w] = FALSE]
           /\ state' = [state EXCEPT ![w] = next]
           /\ pc' = [pc EXCEPT ![w] = IF next = "closed" THEN "attest" ELSE "idle"]
           /\ UNCHANGED <<acked, bytes, item, faults>>
  <2>1. TypeInv'
    BY <1>1, <1>3 DEF Inv, TypeInv, PCs, States
  <2>2. /\ fd'[w] = FALSE /\ state'[w] = next
        /\ pc'[w] = IF next = "closed" THEN "attest" ELSE "idle"
        /\ \A v \in Writers \ {w} : Untouched(v)
    BY <1>3 DEF Inv, TypeInv, Untouched
  <2>3. Control(w)' /\ Kept(w)' /\ Tracked(w)' /\ Quiet(w)'
    BY <1>3, <2>2, OneWriter DEF Control, Finished, Kept, Tracked, Quiet
  <2>4. pc[w] \notin {"attest", "returned"} /\ pc'[w] # "returned"
    BY <2>2
  <2> QED BY <1>3, <2>1, <2>2, <2>3, <2>4, OneWriter, SameFiles, WriterStepKeeps
<1> QED BY <1>2, <1>3 DEF CloseWith

LEMMA CloseKeeps ==
    ASSUME Inv, NEW w \in Writers, Close(w)
    PROVE  Inv'
<1>1. state[w] = "open"
  BY OneWriter DEF Close, Control
<1> QED BY <1>1, CloseWithKeeps DEF Close

LEMMA AbandonKeeps ==
    ASSUME Inv, NEW w \in Writers, Abandon(w)
    PROVE  Inv'
BY CloseWithKeeps DEF Abandon

LEMMA DeleteKeeps ==
    ASSUME Inv, NEW w \in Writers, Delete(w)
    PROVE  Inv'
<1> USE DEF Delete, filevars
<1>1. pc[w] \notin {"attest", "returned"}
  BY OneWriter DEF Control
<1>2. /\ fd'[w] = FALSE /\ pc'[w] = "idle" /\ state'[w] \in {"abandoned", "dead"}
      /\ state'[w] = "abandoned" => state[w] = "poisoned"
      /\ \A v \in Writers \ {w} : Untouched(v)
  BY DEF Inv, TypeInv, Untouched
<1>3. TypeInv'
  <2>1. /\ state' \in [Writers -> States] /\ pc' \in [Writers -> PCs]
        /\ item' \in [Writers -> Items \cup {None}] /\ fd' \in [Writers -> BOOLEAN]
    BY DEF Inv, TypeInv, PCs, States
  <2>2. (\A v \in Writers : state[v] = "dead") => \A v \in Writers : state'[v] = "dead"
    BY <1>2 DEF Untouched
  <2> QED BY <2>1, <2>2 DEF Inv, TypeInv
<1>4. Control(w)' /\ Kept(w)' /\ Tracked(w)'
  BY <1>2, OneWriter DEF Control, Finished, Kept, Tracked
<1>5. Quiet(w)'
  <2>1. state[w] = "poisoned" => pc[w] = "idle" \/ pc[w] \notin {"sync", "ack"}
    BY OneWriter DEF Control
  <2> QED BY <1>2, <2>1, OneWriter DEF Quiet
<1> QED BY <1>1, <1>2, <1>3, <1>4, <1>5, OneWriter, SameFiles, WriterStepKeeps

LEMMA CreateKeeps ==
    ASSUME Inv, NEW w \in Writers, Create(w)
    PROVE  Inv'
<1> USE DEF Create
<1>1. /\ pc[w] = "idle" /\ acked[w] = <<>> /\ bytes[w] = 0 /\ lines[w] = <<>> /\ size[w] = 0
      /\ size \in [Writers -> Nat]
  BY OneWriter DEF Control
<1>2. /\ state'[w] = "open" /\ \A v \in Writers \ {w} : Untouched(v)
      /\ path' = w /\ path = None
  BY DEF Inv, TypeInv, Untouched
<1>3. TypeInv'
  <2>1. ino' \in [Writers -> Inos \cup {0}]
    BY DEF Inv, TypeInv
  <2>2. state' \in [Writers -> States] /\ fd' \in [Writers -> BOOLEAN]
    BY DEF Inv, TypeInv, States
  <2> QED BY <1>1, <2>1, <2>2 DEF Inv, TypeInv
<1>4. ScanInv' /\ AttestInv'
  <2>1. ScanInv'
    BY SameFiles, ScanKept DEF Inv
  <2> QED BY <2>1 DEF Inv, AttestInv
<1>5. Control(w)' /\ Kept(w)' /\ Tracked(w)'
  BY <1>1, <1>2, OneWriter, EmptySeq DEF Control, Finished, Kept, Tracked
<1>6. Quiet(w)' /\ QuietScan(w)' /\ Sums(w)'
  <2>1. Quiet(w)'
    BY <1>1, <1>2, OneWriter DEF Quiet
  <2>2. faults = 0 => scan.by # w
    BY <1>1 DEF Inv, QuietScan
  <2> QED BY <2>1, <2>2 DEF Inv, QuietScan, Sums
<1>7. ASSUME NEW v \in Writers \ {w}
      PROVE  /\ Control(v)' /\ Kept(v)' /\ Tracked(v)'
             /\ Quiet(v)' /\ QuietScan(v)' /\ Sums(v)'
  <2>1. Untouched(v)
    BY <1>2
  <2>2. Control(v)' /\ Kept(v)' /\ Tracked(v)'
    BY <2>1, UntouchedKeeps DEF Inv
  <2>3. faults = 0 => state[v] \in {"none", "dead"}
    BY <1>2, OneWriter, LedgerAssumption DEF Quiet
  <2>4. Quiet(v)'
    BY <2>1, <2>3, OneWriter DEF Quiet, Untouched
  <2>5. QuietScan(v)' /\ Sums(v)'
    BY <2>1 DEF Inv, QuietScan, Sums, Untouched
  <2> QED BY <2>2, <2>4, <2>5
<1> QED BY <1>3, <1>4, <1>5, <1>6, <1>7 DEF Inv

\* What the scan of an undisturbed close has read is the chain of the writer.
LEMMA QuietChain ==
    ASSUME Inv, NEW w \in Writers, faults = 0, scan.by = w, Len(scan.read) = Len(acked[w])
    PROVE  /\ scan.read # <<>> /\ ChainOf(scan.read) = acked[w] /\ Closed(scan.read)
           /\ scan.total = bytes[w]
<1> DEFINE n == Len(acked[w])
<1>1. QuietScan(w) /\ Sums(w) /\ pc[w] \in {"attest", "returned"}
  BY DEF Inv, QuietScan
<1>2. acked[w] \in Seq(Items) /\ n \in Nat /\ Finished(w)
  BY <1>1, OneWriter DEF Control
<1>3. n \in 1 .. n /\ n # 0
  BY <1>2, EmptySeq DEF Finished
<1>4. scan.read[n] = LineOf(acked[w], n)
  BY <1>1, <1>3 DEF QuietScan
<1>5. SubSeq(acked[w], 1, n) = acked[w]
  BY <1>2, SubSeqFull
<1>6. scan.read # <<>>
  BY <1>3, EmptySeq
<1>7. Last(scan.read) = LineOf(acked[w], n)
  BY <1>4 DEF Last
<1>8. Type(LineOf(acked[w], n)) = "closure" /\ LineOf(acked[w], n).chain = acked[w]
  BY <1>2, <1>3, <1>5, LineOfFacts DEF Finished
<1>9. scan.total = bytes[w]
  BY <1>1 DEF Sums, SumsOf
<1> QED BY <1>6, <1>7, <1>8, <1>9 DEF ChainOf, Closed

LEMMA ReattestKeeps ==
    ASSUME Inv, NEW w \in Writers, Reattest(w)
    PROVE  Inv'
<1> USE DEF Reattest, filevars
<1>1. /\ pc[w] = "attest" /\ state[w] = "closed" /\ ~fd[w] /\ Finished(w)
      /\ size \in [Writers -> Nat]
  BY OneWriter DEF Control
<1>2. ~Agrees(w) => faults # 0
  <2>1. faults = 0 => scan.pc = "closed_chain" /\ Len(scan.read) = Len(acked[w])
    BY DEF Inv, QuietScan
  <2> QED BY <2>1, QuietChain DEF Agrees
<1>3. /\ Agrees(w) => pc'[w] = "returned" /\ UNCHANGED <<state, acked, bytes, item>>
      /\ ~Agrees(w) => pc'[w] = "idle" /\ state'[w] = "poisoned"
      /\ UNCHANGED <<acked, bytes, touched, lines, size, synced, faults>>
      /\ \A v \in Writers \ {w} : Untouched(v)
  BY DEF Inv, TypeInv, Untouched, Poison
<1>4. TypeInv'
  <2>1. /\ state' \in [Writers -> States] /\ pc' \in [Writers -> PCs]
        /\ item' \in [Writers -> Items \cup {None}]
    BY DEF Inv, TypeInv, PCs, States, Poison
  <2> QED BY <1>1, <1>3, <2>1 DEF Inv, TypeInv
<1>5. ScanInv'
  BY SameFiles, ScanKept DEF Inv
<1>6. AttestInv'
  <2>1. Agrees(w) => Closed(scan.middle) /\ ChainOf(scan.middle) = acked[w]
    BY DEF Agrees, Inv, AttestInv, ScanInv
  <2> QED BY <1>3, <2>1 DEF Inv, AttestInv
<1>7. Control(w)' /\ Kept(w)' /\ Tracked(w)'
  BY <1>1, <1>3, OneWriter DEF Control, Finished, Kept, Tracked
<1>8. Quiet(w)' /\ QuietScan(w)' /\ Sums(w)'
  BY <1>1, <1>2, <1>3 DEF Inv, Quiet, QuietScan, Sums
<1>9. ASSUME NEW v \in Writers \ {w}
      PROVE  /\ Control(v)' /\ Kept(v)' /\ Tracked(v)'
             /\ Quiet(v)' /\ QuietScan(v)' /\ Sums(v)'
  <2>1. Untouched(v)
    BY <1>3
  <2>2. Control(v)' /\ Kept(v)' /\ Tracked(v)'
    BY <2>1, UntouchedKeeps DEF Inv
  <2>3. Quiet(v)' /\ QuietScan(v)' /\ Sums(v)'
    BY <2>1 DEF Inv, Quiet, QuietScan, Sums, Untouched
  <2> QED BY <2>2, <2>3
<1> QED BY <1>4, <1>5, <1>6, <1>7, <1>8, <1>9 DEF Inv

----------------------------------------------------------------------------
(* The steps of a scan. *)

\* A step of a scan touches no file and no writer.
LEMMA ScanStepKeeps ==
    ASSUME Inv, UNCHANGED <<filevars, writervars, touched>>,
           faults' \in {faults, faults + 1},
           reads' \in Nat, reads' = reads \/ size \in [Writers -> Nat],
           scan' \in Scans, ScanInv', AttestInv',
           \A w \in Writers : faults' = 0 /\ scan'.by = w => QuietScan(w)' /\ Sums(w)'
    PROVE  Inv'
<1> USE DEF filevars, writervars
<1>1. faults \in Nat /\ faults' \in Nat /\ (faults' = 0 => faults = 0)
  <2>1. faults \in Nat
    BY DEF Inv, TypeInv
  <2> QED BY <2>1
<1>2. TypeInv'
  BY <1>1 DEF Inv, TypeInv
<1>3. ASSUME NEW w \in Writers
      PROVE  Control(w)' /\ Kept(w)' /\ Tracked(w)' /\ Quiet(w)' /\ QuietScan(w)' /\ Sums(w)'
  <2>1. Control(w)' /\ Kept(w)' /\ Tracked(w)'
    BY UntouchedKeeps DEF Inv, Untouched
  <2>2. Quiet(w)'
    BY <1>1, OneWriter DEF Quiet
  <2>3. QuietScan(w)' /\ Sums(w)'
    <3>1. CASE faults' = 0 /\ scan'.by = w
      BY <3>1
    <3>2. CASE ~(faults' = 0 /\ scan'.by = w)
      BY <3>2 DEF Inv, QuietScan, Sums
    <3> QED BY <3>1, <3>2
  <2> QED BY <2>1, <2>2, <2>3
<1> QED BY <1>2, <1>3 DEF Inv

LEMMA EndedFacts ==
    ASSUME NEW s \in Scanners \cup {None}, NEW why \in {"error", "torn", "unclosed", "closed_chain"}
    PROVE  /\ Ended(s, why) \in Scans /\ Ended(s, why).by = s /\ Ended(s, why).pc = why
           /\ Ended(s, why).read = <<>> /\ Ended(s, why).middle = <<>>
<1>1. <<>> \in Seq(Lines)
  BY EmptySeq
<1> QED BY <1>1 DEF Ended, NoScan, Scans

\* The facts about a scan that is under way.
LEMMA ScanFacts ==
    ASSUME Inv
    PROVE  /\ scan \in Scans /\ scan.by \in Scanners \cup {None}
           /\ scan.read \in Seq(Lines) /\ Len(scan.read) \in Nat
           /\ scan.again \in Seq(Lines) /\ Len(scan.again) \in Nat
           /\ scan.middle \in Seq(Lines) /\ Len(scan.middle) \in Nat
           /\ scan.total \in Nat /\ faults \in Nat /\ reads \in Nat
<1>1. scan \in Scans /\ faults \in Nat /\ reads \in Nat
  BY DEF Inv, TypeInv
<1>2. /\ scan.by \in Scanners \cup {None} /\ scan.read \in Seq(Lines)
      /\ scan.again \in Seq(Lines) /\ scan.middle \in Seq(Lines) /\ scan.total \in Nat
  BY <1>1 DEF Scans
<1> QED BY <1>1, <1>2, LenProperties

\* A scan that ends for a reason, or because something failed.
LEMMA EndKeeps ==
    ASSUME Inv, UNCHANGED <<filevars, writervars, reads, touched>>,
           scan.pc \in {"first", "second", "bind"},
           faults' \in {faults, faults + 1},
           NEW why \in {"error", "torn", "unclosed", "closed_chain"},
           scan' = Ended(scan.by, why), why \in {"unclosed", "closed_chain"} => scan.by = Reader,
           faults' = 0 => scan.by \notin Writers
    PROVE  Inv'
<1>1. /\ scan' \in Scans /\ scan'.by = scan.by /\ scan'.pc = why
      /\ scan'.read = <<>> /\ scan'.middle = <<>>
  BY ScanFacts, EndedFacts
<1>2. ScanInv'
  BY <1>1 DEF ScanInv
<1>3. AttestInv'
  <2>1. ASSUME NEW w \in Writers, scan.by = w
        PROVE  why \notin {"unclosed", "closed_chain"} /\ pc'[w] # "returned"
    BY <2>1, LedgerAssumption DEF Inv, AttestInv, writervars
  <2> QED BY <1>1, <2>1 DEF AttestInv
<1> QED BY <1>1, <1>2, <1>3, ScanFacts, ScanStepKeeps

LEMMA ScanFailsKeeps ==
    ASSUME Inv, ScanFails PROVE Inv'
BY FaultCount, EndKeeps DEF ScanFails

LEMMA ScanOpenKeeps ==
    ASSUME Inv, NEW s \in Scanners, ScanOpen(s)
    PROVE  Inv'
<1>1. /\ UNCHANGED <<filevars, writervars, touched, faults>>
      /\ s \in Writers => pc[s] = "attest" /\ state[s] = "closed" /\ Finished(s)
  BY OneWriter, LedgerAssumption DEF Control, ScanOpen
<1>2. reads' \in Nat /\ size \in [Writers -> Nat]
  <2>1. CASE s = Reader
    <3>1. reads < MaxReads /\ reads \in Nat /\ reads' = reads + 1
      BY <2>1, ScanFacts, LedgerAssumption DEF ScanOpen
    <3>2. reads # MaxReads
      BY <3>1, LedgerAssumption
    <3> QED BY <3>1, <3>2 DEF Inv, TypeInv
  <2>2. CASE s # Reader
    BY <1>1, <2>2, OneWriter, ScanFacts DEF Scanners, ScanOpen
  <2> QED BY <2>1, <2>2
<1> DEFINE new == [NoScan EXCEPT !.by = s, !.pc = "first", !.file = path,
                         !.size = size[path], !.mtime = mtime[path], !.ino = ino[path]]
<1>3. CASE scan' = Ended(s, "error") /\ (s \in Writers => faults # 0)
  <2>1. /\ scan' \in Scans /\ scan'.by = s /\ scan'.pc = "error"
        /\ scan'.read = <<>> /\ scan'.middle = <<>>
    BY <1>3, EndedFacts
  <2>2. ScanInv'
    BY <2>1 DEF ScanInv
  <2>3. AttestInv'
    BY <1>1, <2>1 DEF AttestInv, writervars
  <2> QED BY <1>1, <1>2, <1>3, <2>1, <2>2, <2>3, ScanStepKeeps
<1>4. CASE scan' = new /\ path # None
  <2>1. path \in Writers /\ size[path] \in Nat /\ mtime[path] \in Nat /\ ino[path] \in Inos \cup {0}
    BY <1>2, <1>4 DEF Inv, TypeInv
  <2>2. /\ scan'.by = s /\ scan'.pc = "first" /\ scan'.file = path /\ scan'.size = size[path]
        /\ scan'.mtime = mtime[path] /\ scan'.ino = ino[path] /\ scan'.read = <<>>
        /\ scan'.total = 0 /\ scan'.again = <<>> /\ scan'.middle = <<>>
    BY <1>4 DEF NoScan
  <2>3. scan' \in Scans
    <3>1. <<>> \in Seq(Lines)
      BY EmptySeq
    <3> QED BY <1>4, <2>1, <3>1 DEF NoScan, Scans
  <2>4. ScanInv'
    <3>1. Len(lines[path]) \in Nat
      BY <2>1, OneWriter
    <3> QED BY <1>1, <2>1, <2>2, <3>1 DEF ScanInv, filevars
  <2>5. AttestInv'
    BY <1>1, <2>2 DEF AttestInv, writervars
  <2>6. ASSUME NEW w \in Writers, faults' = 0, scan'.by = w PROVE QuietScan(w)' /\ Sums(w)'
    <3>1. w = s /\ path = w /\ pc[w] = "attest"
      BY <1>1, <2>2, <2>6, OneWriter DEF Quiet
    <3>2. QuietScan(w)'
      BY <1>1, <2>2, <2>6, <3>1 DEF QuietScan, filevars, writervars
    <3>3. PICK S : SumsOf(acked[w], bytes[w], S)
      BY OneWriter
    <3>4. Len(acked[w]) \in Nat /\ S[0] = 0
      BY <3>3, OneWriter DEF SumsOf
    <3>5. Sums(w)'
      BY <1>1, <2>2, <3>3, <3>4 DEF Sums, writervars
    <3> QED BY <3>2, <3>5
  <2> QED BY <1>1, <1>2, <2>2, <2>3, <2>4, <2>5, <2>6, ScanStepKeeps
<1>5. ASSUME s \in Writers, faults = 0
      PROVE  path = s /\ size[path] <= MaxBytes
  <2>1. path = s /\ size[s] = bytes[s]
    BY <1>1, <1>5, OneWriter DEF Quiet
  <2> QED BY <1>5, <2>1, OneWriter DEF Control
<1>6. path = None => ~(s \in Writers /\ faults = 0)
  BY <1>5, LedgerAssumption
<1>7. CASE path = None \/ (s # Reader /\ ino[path] # ino[s]) \/ size[path] > MaxBytes
  <2>1. size[path] > MaxBytes /\ path # None => ~(size[path] <= MaxBytes)
    BY <1>2, LedgerAssumption DEF Inv, TypeInv
  <2> QED BY <1>3, <1>5, <1>6, <1>7, <2>1 DEF ScanOpen
<1>8. CASE ~(path = None \/ (s # Reader /\ ino[path] # ino[s]) \/ size[path] > MaxBytes)
  BY <1>4, <1>8 DEF ScanOpen
<1> QED BY <1>7, <1>8

\* While nothing interferes, the file of a closing writer is its chain.
LEMMA QuietFile ==
    ASSUME Inv, NEW w \in Writers, faults = 0, scan.by = w
    PROVE  /\ scan.file = w /\ path = w /\ size[w] = bytes[w] /\ size[w] \in Nat
           /\ Len(lines[w]) = Len(acked[w])
           /\ \A k \in 1 .. Len(acked[w]) : lines[w][k] = LineOf(acked[w], k)
           /\ Ordered(acked[w]) /\ Len(acked[w]) <= MaxRecords /\ bytes[w] <= MaxBytes
           /\ pc[w] \in {"attest", "returned"}
<1>1. QuietScan(w) /\ pc[w] \in {"attest", "returned"} /\ scan.file = w
  BY DEF Inv, QuietScan
<1>2. /\ state[w] = "closed" /\ Ordered(acked[w])
      /\ Len(acked[w]) <= MaxRecords /\ bytes[w] <= MaxBytes
  BY <1>1, OneWriter DEF Control
<1>3. touched = {} /\ path = w /\ size[w] = bytes[w] /\ size[w] \in Nat
  BY <1>1, <1>2, OneWriter DEF Quiet
<1>4. /\ Len(lines[w]) = Len(acked[w])
      /\ \A k \in 1 .. Len(acked[w]) : lines[w][k] = LineOf(acked[w], k)
  BY <1>1, <1>2, <1>3, OneWriter DEF Kept, Tracked
<1> QED BY <1>1, <1>2, <1>3, <1>4

\* Without its last record a chain is the chain before it.
LEMMA FrontPrefix ==
    ASSUME NEW s \in Seq(Items), NEW k \in 1 .. Len(s)
    PROVE  Front(SubSeq(s, 1, k)) = SubSeq(s, 1, k - 1)
<1> DEFINE p == SubSeq(s, 1, k)
           q == SubSeq(s, 1, k - 1)
<1>1. Len(s) \in Nat /\ k - 1 \in 0 .. Len(s) /\ k \in 0 .. Len(s)
  BY LenProperties
<1>2. p \in Seq(Items) /\ Len(p) = k /\ \A i \in 1 .. k : p[i] = s[i]
  BY <1>1, ChainPrefix
<1>3. q \in Seq(Items) /\ Len(q) = k - 1 /\ \A i \in 1 .. k - 1 : q[i] = s[i]
  BY <1>1, ChainPrefix
<1> HIDE DEF p, q
<1>4. /\ SubSeq(p, 1, k - 1) \in Seq(Items) /\ Len(SubSeq(p, 1, k - 1)) = k - 1
      /\ \A i \in 1 .. k - 1 : SubSeq(p, 1, k - 1)[i] = p[i]
  <2>1. k - 1 \in 0 .. Len(p)
    BY <1>1, <1>2
  <2> QED BY <1>2, <2>1, ChainPrefix
<1>5. SubSeq(p, 1, k - 1) = q
  <2>1. ASSUME NEW i \in 1 .. k - 1 PROVE SubSeq(p, 1, k - 1)[i] = q[i]
    BY <1>1, <1>2, <1>3, <1>4
  <2> QED BY <1>3, <1>4, <2>1, SeqEqual
<1> QED BY <1>2, <1>5 DEF Front, p, q

\* The first pass accepts the next line of an undisturbed ledger.
LEMMA QuietContinues ==
    ASSUME Inv, NEW w \in Writers, faults = 0, scan.by = w, scan.pc = "first",
           Len(scan.read) < Len(acked[w]), NEW S, SumsOf(acked[w], bytes[w], S),
           scan.total = S[Len(scan.read)]
    PROVE  LET k == Len(scan.read) + 1
           IN  /\ lines[w][k] = LineOf(acked[w], k) /\ k \in 1 .. Len(acked[w])
               /\ scan.total + lines[w][k].size = S[k]
               /\ Continues(scan.read, scan.total, lines[w][k])
<1> DEFINE k == Len(scan.read) + 1
           n == Len(acked[w])
<1>1. /\ acked[w] \in Seq(Items) /\ n \in Nat /\ Len(scan.read) \in Nat
      /\ scan.read \in Seq(Lines) /\ scan.total \in Nat /\ bytes[w] \in Nat
  BY OneWriter, ScanFacts
<1>2. k \in 1 .. n /\ k - 1 = Len(scan.read)
  BY <1>1
<1>3. /\ lines[w][k] = LineOf(acked[w], k) /\ Ordered(acked[w])
      /\ n <= MaxRecords /\ bytes[w] <= MaxBytes
  BY <1>2, QuietFile
<1> DEFINE line == lines[w][k]
<1>4. /\ line.whole /\ line.size = acked[w][k].size /\ acked[w][k] \in Items
      /\ line.chain # <<>> /\ line.chain = SubSeq(acked[w], 1, k)
      /\ Type(line) = acked[w][k].type
  BY <1>1, <1>2, <1>3, LineOfFacts
<1>5. acked[w][k].size \in Nat /\ acked[w][k].size <= MaxEventLine
  BY <1>4, LedgerAssumption DEF Items
<1>6. \A i \in 1 .. k - 1 : scan.read[i] = LineOf(acked[w], i)
  BY <1>2 DEF Inv, QuietScan
<1>7. S[k] = S[k - 1] + acked[w][k].size /\ S[k] <= bytes[w] /\ S[k] \in Nat
  BY <1>1, <1>2 DEF SumsOf
<1>8. scan.total + line.size = S[k] /\ scan.total + line.size <= MaxBytes
  BY <1>1, <1>2, <1>3, <1>4, <1>7, LedgerAssumption
<1>9. /\ acked[w][k].type = "header" <=> k = 1
      /\ acked[w][k].type = "closure" => acked[w][k].size <= MaxClosureLine
  BY <1>2, <1>3 DEF Ordered
<1>10. scan.read = <<>> <=> k = 1
  BY <1>1, <1>2, EmptySeq
<1>11. ASSUME scan.read # <<>>
       PROVE  /\ k - 1 \in 1 .. n /\ Last(scan.read) = LineOf(acked[w], k - 1)
              /\ Type(Last(scan.read)) # "closure"
              /\ Last(scan.read).chain = SubSeq(acked[w], 1, k - 1)
  <2>1. k - 1 \in 1 .. n /\ k - 1 \in 1 .. k - 1 /\ k - 1 # n
    BY <1>1, <1>2, <1>10, <1>11
  <2>2. Last(scan.read) = LineOf(acked[w], k - 1)
    BY <1>2, <1>6, <2>1 DEF Last
  <2>3. acked[w][k - 1].type # "closure"
    BY <1>3, <2>1 DEF Ordered
  <2> QED BY <1>1, <2>1, <2>2, <2>3, LineOfFacts
<1>12. ~Closed(scan.read)
  BY <1>11 DEF Closed
<1>13. Front(line.chain) = ChainOf(scan.read)
  <2>1. Front(line.chain) = SubSeq(acked[w], 1, k - 1)
    BY <1>1, <1>2, <1>4, FrontPrefix
  <2>2. scan.read = <<>> => SubSeq(acked[w], 1, k - 1) = <<>>
    <3>1. ASSUME scan.read = <<>> PROVE Len(SubSeq(acked[w], 1, 0)) = 0 /\ SubSeq(acked[w], 1, 0) \in Seq(Items)
      BY <1>1, ChainPrefix
    <3> QED BY <1>2, <1>10, <3>1, EmptySeq
  <2> QED BY <1>11, <2>1, <2>2 DEF ChainOf
<1>14. Len(scan.read) + 1 <= MaxRecords
  BY <1>1, <1>2, <1>3, LedgerAssumption
<1>15. Continues(scan.read, scan.total, line)
  BY <1>4, <1>5, <1>8, <1>9, <1>10, <1>12, <1>13, <1>14 DEF Continues
<1> QED BY <1>2, <1>3, <1>8, <1>15

LEMMA ScanUpdates ==
    ASSUME NEW s \in Scans, NEW r \in Seq(Lines), NEW n \in Nat,
           NEW p \in {"second", "bind", "unclosed", "closed_chain"}
    PROVE  /\ [s EXCEPT !.read = r, !.total = n] \in Scans
           /\ [s EXCEPT !.pc = p, !.middle = r] \in Scans
           /\ [s EXCEPT !.again = r] \in Scans
           /\ [s EXCEPT !.pc = p, !.again = r] \in Scans
           /\ [s EXCEPT !.pc = p] \in Scans
BY DEF Scans

LEMMA ScanLineKeeps ==
    ASSUME Inv, ScanLine
    PROVE  Inv'
<1> DEFINE k == Len(scan.read) + 1
           line == lines[scan.file][k]
<1>1. /\ scan.pc = "first" /\ Len(scan.read) < Len(lines[scan.file]) /\ scan.file \in Writers
      /\ scan.again = <<>>
      /\ UNCHANGED <<filevars, writervars, faults, reads, touched>>
  BY DEF ScanLine, Inv, ScanInv
<1>2. /\ Len(scan.read) \in Nat /\ Len(lines[scan.file]) \in Nat /\ k \in 1 .. Len(lines[scan.file])
      /\ scan.read \in Seq(Lines) /\ scan.total \in Nat
  BY <1>1, ScanFacts, OneWriter
<1>3. line \in Lines /\ line.size \in Nat
  <2>1. line \in Lines
    BY <1>1, <1>2, OneWriter, ElementOfSeq
  <2> QED BY <2>1 DEF Lines
<1>4. ASSUME NEW w \in Writers, faults = 0, scan.by = w
      PROVE  Continues(scan.read, scan.total, line)
  <2>1. PICK S : SumsOf(acked[w], bytes[w], S) /\ scan.total = S[Len(scan.read)]
    BY <1>4 DEF Inv, Sums
  <2>2. scan.file = w /\ Len(scan.read) < Len(acked[w])
    BY <1>1, <1>4, QuietFile
  <2> QED BY <1>1, <1>4, <2>1, <2>2, QuietContinues
<1>5. CASE ~Continues(scan.read, scan.total, line)
  <2>1. scan' = Ended(scan.by, "torn") \/ scan' = Ended(scan.by, "error")
    BY <1>5 DEF ScanLine
  <2>2. faults' = 0 => scan.by \notin Writers
    BY <1>1, <1>4, <1>5
  <2> QED BY <1>1, <2>1, <2>2, EndKeeps
<1>6. CASE Continues(scan.read, scan.total, line)
  <2>1. scan' = [scan EXCEPT !.read = Append(scan.read, line), !.total = scan.total + line.size]
    BY <1>6 DEF ScanLine
  <2> HIDE DEF line
  <2>2. /\ Append(scan.read, line) \in Seq(Lines) /\ Len(Append(scan.read, line)) = k
        /\ \A i \in 1 .. k - 1 : Append(scan.read, line)[i] = scan.read[i]
        /\ Append(scan.read, line)[k] = line
    BY <1>2, <1>3, AppendProperties
  <2>3. scan' \in Scans
    <3>1. scan.total + line.size \in Nat
      BY <1>2, <1>3
    <3> QED BY <2>1, <2>2, <3>1, ScanFacts, ScanUpdates
  <2>4. /\ scan'.read = Append(scan.read, line) /\ scan'.total = scan.total + line.size
        /\ scan'.pc = "first" /\ scan'.by = scan.by /\ scan'.file = scan.file
        /\ scan'.again = <<>> /\ scan'.size = scan.size /\ scan'.mtime = scan.mtime
        /\ scan'.ino = scan.ino /\ scan'.middle = scan.middle
    BY <1>1, <2>1, ScanFacts DEF Scans
  <2>5. ScanInv'
    <3>1. line.chain # <<>>
      BY <1>6 DEF Continues
    <3>2. ASSUME NEW i \in 1 .. k PROVE scan'.read[i].chain # <<>>
      <4>1. CASE i \in 1 .. k - 1
        <5>1. scan.read[i].chain # <<>>
          BY <1>2, <4>1 DEF Inv, ScanInv
        <5> QED BY <2>2, <2>4, <4>1, <5>1
      <4>2. CASE i = k
        BY <2>2, <2>4, <3>1, <4>2
      <4> QED BY <1>2, <3>2, <4>1, <4>2
    <3> QED BY <1>1, <1>2, <2>2, <2>4, <3>2 DEF ScanInv, filevars
  <2>6. AttestInv'
    BY <1>1, <2>4 DEF Inv, AttestInv, writervars
  <2>7. ASSUME NEW w \in Writers, faults' = 0, scan'.by = w PROVE QuietScan(w)' /\ Sums(w)'
    <3>1. faults = 0 /\ scan.by = w
      BY <1>1, <2>4, <2>7
    <3>2. PICK S : SumsOf(acked[w], bytes[w], S) /\ scan.total = S[Len(scan.read)]
      BY <3>1 DEF Inv, Sums
    <3>3. scan.file = w /\ Len(scan.read) < Len(acked[w])
      BY <1>1, <3>1, QuietFile
    <3>4. /\ lines[w][k] = LineOf(acked[w], k) /\ k \in 1 .. Len(acked[w])
          /\ scan.total + lines[w][k].size = S[k]
      BY <1>1, <3>1, <3>2, <3>3, QuietContinues
    <3>5. line = LineOf(acked[w], k) /\ scan'.total = S[k] /\ Len(scan'.read) = k
      BY <2>2, <2>4, <3>3, <3>4 DEF line
    <3>6. ASSUME NEW i \in 1 .. k PROVE scan'.read[i] = LineOf(acked[w], i)
      <4>1. CASE i \in 1 .. k - 1
        <5>1. scan.read[i] = LineOf(acked[w], i)
          BY <1>2, <3>1, <4>1 DEF Inv, QuietScan
        <5> QED BY <2>2, <2>4, <4>1, <5>1
      <4>2. CASE i = k
        BY <2>2, <2>4, <3>5, <4>2
      <4> QED BY <1>2, <3>6, <4>1, <4>2
    <3>7. QuietScan(w)'
      <4>1. /\ pc[w] \in {"attest", "returned"}
            /\ scan.file = w /\ scan.size = size[w] /\ scan.mtime = mtime[w] /\ scan.ino = ino[w]
        BY <3>1 DEF Inv, QuietScan
      <4> HIDE DEF k
      <4> QED BY <1>1, <2>4, <3>5, <3>6, <4>1 DEF QuietScan, filevars, writervars
    <3>8. Sums(w)'
      <4>1. k <= Len(acked[w])
        BY <1>2, <3>4
      <4> HIDE DEF k
      <4> QED BY <1>1, <3>2, <3>5, <4>1 DEF Sums, writervars
    <3> QED BY <3>7, <3>8
  <2> QED BY <1>1, <2>3, <2>5, <2>6, <2>7, ScanFacts, ScanStepKeeps
<1> QED BY <1>5, <1>6

LEMMA ScanBetweenKeeps ==
    ASSUME Inv, ScanBetween
    PROVE  Inv'
<1> DEFINE f == scan.file
<1>1. /\ scan.pc = "first" /\ Len(scan.read) >= Len(lines[f]) /\ f \in Writers
      /\ scan.again = <<>> /\ Len(scan.read) <= Len(lines[f])
      /\ UNCHANGED <<filevars, writervars, faults, reads, touched>>
  BY DEF ScanBetween, Inv, ScanInv
<1>2. /\ lines[f] \in Seq(Lines) /\ Len(lines[f]) \in Nat /\ Len(scan.read) \in Nat
      /\ Len(scan.read) = Len(lines[f])
  BY <1>1, OneWriter, ScanFacts
<1>3. ASSUME NEW w \in Writers, faults = 0, scan.by = w
      PROVE  SameStat /\ scan.total = scan.size /\ Len(scan.read) = Len(acked[w])
  <2>1. scan.size = size[w] /\ scan.mtime = mtime[w]
    BY <1>3 DEF Inv, QuietScan
  <2>2. f = w /\ size[w] = bytes[w] /\ Len(scan.read) = Len(acked[w])
    BY <1>2, <1>3, QuietFile
  <2>3. scan.total = bytes[w]
    BY <1>3, <2>2, QuietChain
  <2> QED BY <2>1, <2>2, <2>3 DEF SameStat
<1>4. CASE ~(SameStat /\ scan.total = scan.size)
  <2>1. scan' = Ended(scan.by, "error")
    BY <1>4 DEF ScanBetween
  <2>2. faults' = 0 => scan.by \notin Writers
    BY <1>1, <1>3, <1>4
  <2> QED BY <1>1, <2>1, <2>2, EndKeeps
<1>5. CASE SameStat /\ scan.total = scan.size
  <2>1. scan' = [scan EXCEPT !.pc = "second", !.middle = lines[f]]
    BY <1>5 DEF ScanBetween
  <2>2. scan' \in Scans
    BY <1>2, <2>1, ScanFacts, ScanUpdates
  <2>3. /\ scan'.read = scan.read /\ scan'.total = scan.total
        /\ scan'.pc = "second" /\ scan'.by = scan.by /\ scan'.file = f
        /\ scan'.again = <<>> /\ scan'.size = scan.size /\ scan'.mtime = scan.mtime
        /\ scan'.ino = scan.ino /\ scan'.middle = lines[f]
    BY <1>1, <2>1, ScanFacts DEF Scans
  <2> HIDE DEF f
  <2>4. ScanInv'
    <3>1. lines' = lines
      BY <1>1 DEF filevars
    <3>2. \A k \in 1 .. Len(scan.read) : scan.read[k].chain # <<>>
      BY DEF Inv, ScanInv
    <3> QED BY <1>1, <1>2, <2>3, <3>1, <3>2 DEF ScanInv
  <2>5. AttestInv'
    BY <1>1, <2>3 DEF Inv, AttestInv, writervars
  <2>6. ASSUME NEW w \in Writers, faults' = 0, scan'.by = w PROVE QuietScan(w)' /\ Sums(w)'
    <3>1. faults = 0 /\ scan.by = w /\ Len(scan.read) = Len(acked[w])
      BY <1>1, <1>3, <2>3, <2>6
    <3>2. QuietScan(w) /\ Sums(w)
      BY DEF Inv
    <3>3. QuietScan(w)'
      BY <1>1, <2>3, <3>1, <3>2 DEF QuietScan, filevars, writervars, f
    <3>4. Sums(w)'
      BY <1>1, <2>3, <3>1, <3>2 DEF Sums, writervars
    <3> QED BY <3>3, <3>4
  <2> QED BY <1>1, <2>2, <2>4, <2>5, <2>6, ScanFacts, ScanStepKeeps
<1> QED BY <1>4, <1>5

LEMMA ScanAgainKeeps ==
    ASSUME Inv, ScanAgain
    PROVE  Inv'
<1> DEFINE k == Len(scan.again) + 1
           line == lines[scan.file][k]
           again == Append(scan.again, line)
<1>1. /\ scan.pc = "second" /\ Len(scan.again) < Len(lines[scan.file]) /\ scan.file \in Writers
      /\ Len(scan.read) = Len(scan.middle) /\ Len(scan.read) <= Len(lines[scan.file])
      /\ UNCHANGED <<filevars, writervars, faults, reads, touched>>
      /\ scan' = [scan EXCEPT !.again = again]
  BY DEF ScanAgain, Inv, ScanInv
<1>2. /\ Len(scan.again) \in Nat /\ Len(lines[scan.file]) \in Nat /\ k \in 1 .. Len(lines[scan.file])
      /\ scan.again \in Seq(Lines) /\ Len(scan.middle) \in Nat
  BY <1>1, ScanFacts, OneWriter
<1>3. line \in Lines
  BY <1>1, <1>2, OneWriter, ElementOfSeq
<1>4. /\ again \in Seq(Lines) /\ Len(again) = k
      /\ \A i \in 1 .. k - 1 : again[i] = scan.again[i]
      /\ again[k] = line
  BY <1>2, <1>3, AppendProperties
<1> HIDE DEF again
<1>5. scan' \in Scans
  BY <1>1, <1>4, ScanFacts, ScanUpdates
<1>6. /\ scan'.read = scan.read /\ scan'.total = scan.total
      /\ scan'.pc = "second" /\ scan'.by = scan.by /\ scan'.file = scan.file
      /\ scan'.again = again /\ scan'.size = scan.size /\ scan'.mtime = scan.mtime
      /\ scan'.ino = scan.ino /\ scan'.middle = scan.middle
  BY <1>1, ScanFacts DEF Scans
<1>7. ScanInv'
  <2>1. lines' = lines
    BY <1>1 DEF filevars
  <2>2. ASSUME NEW i \in 1 .. k, i <= Len(scan.middle)
        PROVE  again[i] = scan.middle[i] \/ again[i].chain = <<>>
    <3>1. CASE i \in 1 .. k - 1
      <4>1. scan.again[i] = scan.middle[i] \/ scan.again[i].chain = <<>>
        BY <1>1, <1>2, <2>2, <3>1 DEF Inv, ScanInv
      <4> QED BY <1>4, <3>1, <4>1
    <3>2. CASE i = k
      <4>1. lines[scan.file][i] = scan.middle[i] \/ lines[scan.file][i].chain = <<>>
        BY <1>1, <1>2, <2>2, <3>2 DEF Inv, ScanInv
      <4> QED BY <1>4, <3>2, <4>1
    <3> QED BY <1>2, <2>2, <3>1, <3>2
  <2>3. /\ \A i \in 1 .. Len(scan.read) : scan.read[i].chain # <<>>
        /\ \A i \in 1 .. Len(scan.middle) :
              lines[scan.file][i] = scan.middle[i] \/ lines[scan.file][i].chain = <<>>
    BY <1>1 DEF Inv, ScanInv
  <2>4. k <= Len(lines[scan.file])
    BY <1>2
  <2> HIDE DEF k
  <2> QED BY <1>1, <1>4, <1>6, <2>1, <2>2, <2>3, <2>4 DEF ScanInv
<1>8. AttestInv'
  BY <1>1, <1>6 DEF Inv, AttestInv, writervars
<1>9. ASSUME NEW w \in Writers, faults' = 0, scan'.by = w PROVE QuietScan(w)' /\ Sums(w)'
  <2>1. faults = 0 /\ scan.by = w
    BY <1>1, <1>6, <1>9
  <2>2. QuietScan(w) /\ Sums(w)
    BY DEF Inv
  <2>3. scan.file = w /\ line = LineOf(acked[w], k)
    BY <1>1, <1>2, <2>1, QuietFile
  <2>4. ASSUME NEW i \in 1 .. k PROVE again[i] = LineOf(acked[w], i)
    <3>1. CASE i \in 1 .. k - 1
      <4>1. scan.again[i] = LineOf(acked[w], i)
        BY <1>1, <1>2, <2>1, <2>2, <3>1 DEF QuietScan
      <4> QED BY <1>4, <3>1, <4>1
    <3>2. CASE i = k
      BY <1>4, <2>3, <3>2
    <3> QED BY <1>2, <2>4, <3>1, <3>2
  <2> HIDE DEF k
  <2>5. QuietScan(w)'
    BY <1>1, <1>4, <1>6, <2>1, <2>2, <2>4 DEF QuietScan, filevars, writervars
  <2>6. Sums(w)'
    BY <1>1, <1>6, <2>1, <2>2 DEF Sums, writervars
  <2> QED BY <2>5, <2>6
<1> QED BY <1>1, <1>5, <1>7, <1>8, <1>9, ScanFacts, ScanStepKeeps

LEMMA ScanEndKeeps ==
    ASSUME Inv, ScanEnd
    PROVE  Inv'
<1>1. /\ scan.pc = "second" /\ Len(scan.again) >= Len(lines[scan.file]) /\ scan.file \in Writers
      /\ Len(scan.again) <= Len(lines[scan.file]) /\ Len(scan.read) = Len(scan.middle)
      /\ UNCHANGED <<filevars, writervars, faults, reads, touched>>
  BY DEF ScanEnd, Inv, ScanInv
<1>2. /\ Len(scan.again) \in Nat /\ Len(lines[scan.file]) \in Nat /\ Len(scan.read) \in Nat
      /\ scan.again \in Seq(Lines) /\ scan.read \in Seq(Lines) /\ scan.middle \in Seq(Lines)
      /\ Len(scan.again) = Len(lines[scan.file])
  BY <1>1, ScanFacts, OneWriter
<1>3. ASSUME NEW w \in Writers, faults = 0, scan.by = w
      PROVE  SameStat /\ scan.again = scan.read
  <2>1. /\ scan.size = size[w] /\ scan.mtime = mtime[w] /\ scan.file = w
        /\ Len(scan.read) = Len(acked[w])
        /\ \A i \in 1 .. Len(scan.read) : scan.read[i] = LineOf(acked[w], i)
        /\ \A i \in 1 .. Len(scan.again) : scan.again[i] = LineOf(acked[w], i)
    BY <1>1, <1>3 DEF Inv, QuietScan
  <2>2. Len(scan.again) = Len(acked[w])
    BY <1>2, <1>3, <2>1, QuietFile
  <2>3. \A i \in 1 .. Len(scan.again) : scan.again[i] = scan.read[i]
    BY <2>1, <2>2
  <2>4. scan.again = scan.read
    BY <1>2, <2>1, <2>2, <2>3, SeqEqual
  <2> QED BY <2>1, <2>4 DEF SameStat
<1>4. CASE ~(SameStat /\ scan.again = scan.read)
  <2>1. scan' = Ended(scan.by, "error")
    BY <1>4 DEF ScanEnd
  <2>2. faults' = 0 => scan.by \notin Writers
    BY <1>1, <1>3, <1>4
  <2> QED BY <1>1, <2>1, <2>2, EndKeeps
<1>5. CASE SameStat /\ scan.again = scan.read
  <2>1. scan.read = scan.middle
    <3>1. ASSUME NEW i \in 1 .. Len(scan.read) PROVE scan.read[i] = scan.middle[i]
      <4>1. scan.read[i].chain # <<>>
        BY DEF Inv, ScanInv
      <4>2. scan.again[i] = scan.middle[i] \/ scan.again[i].chain = <<>>
        BY <1>1, <1>2, <1>5 DEF Inv, ScanInv
      <4> QED BY <1>5, <4>1, <4>2
    <3> QED BY <1>1, <1>2, <3>1, SeqEqual
  <2>2. scan' = [scan EXCEPT !.pc = "bind", !.again = <<>>]
    BY <1>5 DEF ScanEnd
  <2>3. scan' \in Scans
    <3>1. <<>> \in Seq(Lines)
      BY EmptySeq
    <3> QED BY <2>2, <3>1, ScanFacts, ScanUpdates
  <2>4. /\ scan'.read = scan.read /\ scan'.total = scan.total
        /\ scan'.pc = "bind" /\ scan'.by = scan.by /\ scan'.file = scan.file
        /\ scan'.size = scan.size /\ scan'.mtime = scan.mtime
        /\ scan'.ino = scan.ino /\ scan'.middle = scan.middle
    BY <2>2, ScanFacts DEF Scans
  <2>5. ScanInv'
    BY <2>1, <2>4 DEF Inv, ScanInv
  <2>6. AttestInv'
    BY <1>1, <2>4 DEF Inv, AttestInv, writervars
  <2>7. ASSUME NEW w \in Writers, faults' = 0, scan'.by = w PROVE QuietScan(w)' /\ Sums(w)'
    <3>1. faults = 0 /\ scan.by = w /\ QuietScan(w) /\ Sums(w)
      BY <1>1, <2>4, <2>7 DEF Inv
    <3> QED BY <1>1, <2>4, <3>1 DEF QuietScan, Sums, filevars, writervars
  <2> QED BY <1>1, <2>3, <2>5, <2>6, <2>7, ScanFacts, ScanStepKeeps
<1> QED BY <1>4, <1>5

LEMMA ScanBindKeeps ==
    ASSUME Inv, ScanBind
    PROVE  Inv'
<1> DEFINE status == IF Closed(scan.read) THEN "closed_chain" ELSE "unclosed"
<1>1. /\ scan.pc = "bind" /\ UNCHANGED <<filevars, writervars, faults, reads, touched>>
      /\ status \in {"unclosed", "closed_chain"} /\ (status = "closed_chain" <=> Closed(scan.read))
  BY DEF ScanBind
<1>2. ASSUME NEW w \in Writers, faults = 0, scan.by = w
      PROVE  Bound /\ Closed(scan.read)
  <2>1. /\ scan.size = size[w] /\ scan.mtime = mtime[w] /\ scan.ino = ino[w]
        /\ Len(scan.read) = Len(acked[w])
    BY <1>1, <1>2 DEF Inv, QuietScan
  <2>2. path = w
    BY <1>2, QuietFile
  <2> QED BY <1>2, <2>1, <2>2, QuietChain, LedgerAssumption DEF Bound
<1>3. CASE ~Bound
  <2>1. scan' = Ended(scan.by, "error")
    BY <1>3 DEF ScanBind
  <2>2. faults' = 0 => scan.by \notin Writers
    BY <1>1, <1>2, <1>3
  <2> QED BY <1>1, <2>1, <2>2, EndKeeps
<1>4. CASE Bound /\ scan.by = Reader
  <2>1. scan' = Ended(scan.by, status)
    BY <1>4 DEF ScanBind
  <2> HIDE DEF status
  <2> QED BY <1>1, <1>4, <2>1, EndKeeps, LedgerAssumption
<1>5. CASE Bound /\ scan.by # Reader
  <2>1. scan' = [scan EXCEPT !.pc = status]
    BY <1>5 DEF ScanBind
  <2> HIDE DEF status
  <2>2. scan' \in Scans
    <3>1. <<>> \in Seq(Lines) /\ 0 \in Nat
      BY EmptySeq
    <3> QED BY <1>1, <2>1, <3>1, ScanFacts, ScanUpdates
  <2>3. /\ scan'.read = scan.read /\ scan'.total = scan.total
        /\ scan'.pc = status /\ scan'.by = scan.by /\ scan'.file = scan.file
        /\ scan'.size = scan.size /\ scan'.mtime = scan.mtime
        /\ scan'.ino = scan.ino /\ scan'.middle = scan.middle
    BY <2>1, ScanFacts DEF Scans
  <2>4. ScanInv'
    BY <1>1, <2>3 DEF Inv, ScanInv
  <2>5. AttestInv'
    BY <1>1, <2>3 DEF Inv, AttestInv, writervars
  <2>6. ASSUME NEW w \in Writers, faults' = 0, scan'.by = w PROVE QuietScan(w)' /\ Sums(w)'
    <3>1. faults = 0 /\ scan.by = w /\ QuietScan(w) /\ Sums(w)
      BY <1>1, <2>3, <2>6 DEF Inv
    <3>2. status = "closed_chain"
      BY <1>1, <1>2, <3>1
    <3> QED BY <1>1, <2>3, <3>1, <3>2 DEF QuietScan, Sums, filevars, writervars
  <2> QED BY <1>1, <2>2, <2>4, <2>5, <2>6, ScanFacts, ScanStepKeeps
<1> QED BY <1>3, <1>4, <1>5

----------------------------------------------------------------------------
(* Other programs, and the loss of power. *)

\* What other programs do is a fault: nothing is promised of quiet after it.
LEMMA ForeignKeeps ==
    ASSUME Inv, UNCHANGED <<writervars, scan>>, faults' = faults + 1,
           TypeInv', \A f \in Writers : Grows(f),
           \A w \in Writers : Control(w)' /\ Kept(w)' /\ Tracked(w)'
    PROVE  Inv'
<1> USE DEF writervars
<1>1. faults' # 0
  <2>1. faults \in Nat
    BY DEF Inv, TypeInv
  <2> QED BY <2>1
<1>2. ScanInv' /\ AttestInv'
  BY ScanKept DEF Inv, AttestInv
<1>3. ASSUME NEW w \in Writers PROVE Quiet(w)' /\ QuietScan(w)' /\ Sums(w)'
  BY <1>1, OneWriter DEF Quiet, QuietScan, Sums
<1> QED BY <1>2, <1>3 DEF Inv

LEMMA UnlinkKeeps ==
    ASSUME Inv, Unlink
    PROVE  Inv'
<1>1. /\ UNCHANGED <<lines, size, synced, ino, mtime, writervars, scan, reads, touched>>
      /\ faults' = faults + 1 /\ path' = None
  BY FaultCount DEF Unlink
<1>2. TypeInv'
  <2>1. faults' \in Nat
    BY <1>1 DEF Inv, TypeInv
  <2> QED BY <1>1, <2>1 DEF Inv, TypeInv, writervars
<1>3. ASSUME NEW w \in Writers PROVE Control(w)' /\ Kept(w)' /\ Tracked(w)'
  BY <1>1, UntouchedKeeps DEF Inv, Untouched, writervars
<1> QED BY <1>1, <1>2, <1>3, SameFiles, ForeignKeeps

\* A change of file f by another program.
LEMMA ForeignFileKeeps ==
    ASSUME Inv, NEW f \in Writers, Existing(f), faults' = faults + 1,
           UNCHANGED <<path, synced, ino, writervars, scan, reads>>,
           lines' = [lines EXCEPT ![f] = lines'[f]], lines'[f] \in Seq(Lines), Grows(f),
           size' = [size EXCEPT ![f] = size'[f]], size[f] \in Nat => size'[f] \in Nat,
           mtime' \in [Writers -> Nat], touched' \in SUBSET Writers, touched \subseteq touched',
           Kept(f)', Tracked(f)'
    PROVE  Inv'
<1>1. faults' \in Nat
  BY DEF Inv, TypeInv
<1>2. /\ \A v \in Writers \ {f} : lines'[v] = lines[v] /\ size'[v] = size[v]
      /\ lines' \in [Writers -> Seq(Lines)] /\ DOMAIN size = Writers
  BY DEF Inv, TypeInv
<1>3. /\ size \in [Writers -> Nat] => size' \in [Writers -> Nat]
      /\ DOMAIN size' = Writers /\ size' = [w \in Writers |-> size'[w]]
  BY <1>2
<1>4. TypeInv'
  BY <1>1, <1>2, <1>3 DEF Inv, TypeInv, writervars
<1>5. ASSUME NEW w \in Writers PROVE Grows(w)
  <2>1. CASE w = f
    BY <2>1
  <2>2. CASE w # f
    <3>1. lines'[w] = lines[w]
      BY <1>2, <2>2
    <3> QED BY <3>1, OneWriter DEF Grows
  <2> QED BY <2>1, <2>2
<1>6. ASSUME NEW w \in Writers PROVE Control(w)' /\ Kept(w)' /\ Tracked(w)'
  <2>1. CASE w = f
    <3>1. state[f] # "none"
      BY OneWriter DEF Existing, Control
    <3>2. Control(f)'
      BY <3>1, OneWriter DEF Control, Finished, Fits, Types, writervars
    <3> QED BY <2>1, <3>2
  <2>2. CASE w # f
    BY <1>2, <2>2, UntouchedKeeps DEF Inv, Untouched, writervars
  <2> QED BY <2>1, <2>2
<1> QED BY <1>4, <1>5, <1>6, ForeignKeeps

LEMMA ForeignAppendKeeps ==
    ASSUME Inv, NEW f \in Writers, ForeignAppend(f)
    PROVE  Inv'
<1>1. PICK whole \in BOOLEAN :
          /\ lines' = [lines EXCEPT ![f] = Appended(f, Junk(1, whole))]
          /\ size' = [size EXCEPT ![f] = @ + 1]
  BY DEF ForeignAppend
<1>2. /\ Existing(f) /\ faults' = faults + 1
      /\ UNCHANGED <<path, synced, ino, mtime, writervars, scan, reads, touched>>
  BY FaultCount DEF ForeignAppend
<1>3. lines'[f] = Appended(f, Junk(1, whole)) /\ size'[f] = size[f] + 1
  BY <1>1 DEF Inv, TypeInv
<1>4. Junk(1, whole) \in Lines
  BY JunkFacts
<1>5. /\ Grows(f) /\ Kept(f)' /\ lines'[f] \in Seq(Lines)
      /\ f \notin touched => Len(lines'[f]) >= Len(acked[f]) + 1
  BY <1>2, <1>3, <1>4, AppendedKeeps DEF writervars
<1>6. Tracked(f)'
  <2>1. CASE state[f] \in {"open", "closed"}
    <3>1. /\ size[f] \in Nat /\ bytes[f] \in Nat /\ Tracked(f)
          /\ pc[f] \in {"sync", "ack"} => item[f] \in Items
      BY <2>1, OneWriter DEF Control
    <3>2. pc[f] \in {"sync", "ack"} => item[f].size \in Nat
      BY <3>1, LedgerAssumption DEF Items
    <3> QED BY <1>2, <1>3, <1>5, <2>1, <3>1, <3>2 DEF Tracked, writervars
  <2>2. CASE state[f] \notin {"open", "closed"}
    <3>1. pc[f] \notin {"sync", "ack"}
      BY <2>2, OneWriter DEF Control
    <3> QED BY <1>2, <2>2, <3>1 DEF Tracked, writervars
  <2> QED BY <2>1, <2>2
<1>7. lines' = [lines EXCEPT ![f] = lines'[f]] /\ size' = [size EXCEPT ![f] = size'[f]]
  BY <1>1, <1>3
<1>8. size[f] \in Nat => size'[f] \in Nat
  BY <1>3
<1>9. mtime' \in [Writers -> Nat] /\ touched' \in SUBSET Writers /\ touched \subseteq touched'
  BY <1>2 DEF Inv, TypeInv
<1> QED BY <1>2, <1>5, <1>6, <1>7, <1>8, <1>9, ForeignFileKeeps

LEMMA ForeignWriteKeeps ==
    ASSUME Inv, NEW f \in Writers, NEW k \in 1 .. MaxRecords, ForeignWrite(f, k)
    PROVE  Inv'
<1> DEFINE new == Junk(lines[f][k].size, TRUE)
<1>1. /\ Existing(f) /\ faults' = faults + 1 /\ k \in DOMAIN lines[f]
      /\ UNCHANGED <<path, size, synced, ino, writervars, scan, reads>>
      /\ mtime' \in {mtime, [mtime EXCEPT ![f] = @ + 1]}
      /\ touched' = touched \cup {f}
  BY FaultCount DEF ForeignWrite
<1>2. lines[f] \in Seq(Lines) /\ Len(lines[f]) \in Nat /\ k \in 1 .. Len(lines[f])
  BY <1>1, OneWriter, LenProperties
<1>3. lines[f][k] \in Lines /\ lines[f][k].size \in Nat
  <2>1. lines[f][k] \in Lines
    BY <1>2, ElementOfSeq
  <2> QED BY <2>1 DEF Lines
<1>4. new \in Lines /\ new.chain = <<>>
  BY <1>3, JunkFacts
<1>5. lines' = [lines EXCEPT ![f] = [lines[f] EXCEPT ![k] = new]] /\ lines \in [Writers -> Seq(Lines)]
  BY DEF ForeignWrite, Inv, TypeInv
<1> HIDE DEF new
<1>6. lines'[f] = [lines[f] EXCEPT ![k] = new] /\ lines' = [lines EXCEPT ![f] = lines'[f]]
  BY <1>5
<1>7. /\ lines'[f] \in Seq(Lines) /\ Len(lines'[f]) = Len(lines[f])
      /\ \A i \in 1 .. Len(lines[f]) : lines'[f][i] = IF i = k THEN new ELSE lines[f][i]
  BY <1>2, <1>4, <1>6, ExceptSeq
<1>8. Grows(f)
  BY <1>2, <1>4, <1>7 DEF Grows
<1>9. Kept(f)' /\ Tracked(f)'
  BY <1>1 DEF Kept, Tracked
<1>10. mtime' \in [Writers -> Nat] /\ touched' \in SUBSET Writers /\ touched \subseteq touched'
  <2>1. mtime \in [Writers -> Nat] /\ touched \in SUBSET Writers
    BY DEF Inv, TypeInv
  <2>2. mtime' \in [Writers -> Nat]
    BY <1>1, <2>1
  <2> QED BY <1>1, <2>1, <2>2
<1>11. size' = [size EXCEPT ![f] = size'[f]] /\ (size[f] \in Nat => size'[f] \in Nat)
  BY <1>1 DEF Inv, TypeInv
<1> QED BY <1>1, <1>6, <1>7, <1>8, <1>9, <1>10, <1>11, ForeignFileKeeps

LEMMA PowerLossKeeps ==
    ASSUME Inv, NEW f \in Writers, NEW k \in Nat, NEW torn \in BOOLEAN, PowerLoss(f, k, torn)
    PROVE  Inv'
<1> DEFINE rest == SubSeq(lines[f], 1, k)
           left == IF torn THEN Append(rest, Junk(1, FALSE)) ELSE rest
<1>1. /\ k \in synced[f] .. Len(lines[f])
      /\ lines' = [lines EXCEPT ![f] = left] /\ size' = [size EXCEPT ![f] = SizeOf(left)]
      /\ state' = [w \in Writers |-> "dead"] /\ fd' = [w \in Writers |-> FALSE]
      /\ pc' = [w \in Writers |-> "idle"] /\ item' = [w \in Writers |-> None]
      /\ scan' = NoScan /\ reads' = MaxReads
      /\ UNCHANGED <<path, synced, ino, mtime, acked, bytes, faults, touched>>
  BY DEF PowerLoss
<1>2. /\ lines[f] \in Seq(Lines) /\ Len(lines[f]) \in Nat /\ synced[f] \in Nat
      /\ k <= Len(lines[f]) /\ synced[f] <= k
  BY <1>1, OneWriter
<1>3. /\ rest \in Seq(Lines) /\ Len(rest) = k /\ \A i \in 1 .. k : rest[i] = lines[f][i]
  <2>1. \A i \in 1 .. k : lines[f][i] \in Lines
    BY <1>2, ElementOfSeq
  <2>2. k \in Int /\ 1 \in Int
    OBVIOUS
  <2> QED BY <1>2, <2>1, <2>2, SubSeqProperties
<1> HIDE DEF rest
<1>4. /\ left \in Seq(Lines) /\ Len(left) >= k /\ Len(left) \in Nat
      /\ \A i \in 1 .. k : left[i] = lines[f][i]
  <2>1. CASE torn
    <3> DEFINE J == Junk(1, FALSE)
    <3>1. J \in Lines
      BY JunkFacts
    <3>2. left = Append(rest, J)
      BY <2>1
    <3> HIDE DEF J, left
    <3>3. /\ Append(rest, J) \in Seq(Lines)
          /\ Len(Append(rest, J)) = Len(rest) + 1
          /\ \A i \in 1 .. Len(rest) : Append(rest, J)[i] = rest[i]
      BY <1>3, <3>1, AppendProperties
    <3> QED BY <1>3, <3>2, <3>3
  <2>2. CASE ~torn
    BY <1>3, <2>2
  <2> QED BY <2>1, <2>2
<1> HIDE DEF left
<1>5. NoScan \in Scans /\ NoScan.by = None /\ NoScan.pc = "none"
      /\ NoScan.read = <<>> /\ NoScan.middle = <<>>
  <2>1. <<>> \in Seq(Lines)
    BY EmptySeq
  <2> QED BY <2>1 DEF NoScan, Scans
<1>6. TypeInv'
  <2>1. lines' \in [Writers -> Seq(Lines)]
    BY <1>1, <1>4 DEF Inv, TypeInv
  <2>2. DOMAIN size' = Writers /\ size' = [w \in Writers |-> size'[w]]
    <3>1. DOMAIN size = Writers
      BY DEF Inv, TypeInv
    <3> QED BY <1>1, <3>1
  <2>3. /\ state' \in [Writers -> States] /\ fd' \in [Writers -> BOOLEAN]
        /\ pc' \in [Writers -> PCs] /\ item' \in [Writers -> Items \cup {None}]
        /\ \A w \in Writers : state'[w] = "dead"
    BY <1>1 DEF States, PCs
  <2>4. reads' = MaxReads /\ MaxReads \in Nat
    BY <1>1, LedgerAssumption
  <2> QED BY <1>1, <1>5, <2>1, <2>2, <2>3, <2>4 DEF Inv, TypeInv
<1>7. ScanInv' /\ AttestInv'
  BY <1>1, <1>5, LedgerAssumption DEF ScanInv, AttestInv
<1>8. ASSUME NEW w \in Writers
      PROVE  Control(w)' /\ Kept(w)' /\ Tracked(w)' /\ Quiet(w)' /\ QuietScan(w)' /\ Sums(w)'
  <2>1. state'[w] = "dead" /\ pc'[w] = "idle" /\ fd'[w] = FALSE
    BY <1>1
  <2>2. Control(w)' /\ Tracked(w)'
    BY <1>1, <2>1, OneWriter DEF Control, Tracked
  <2>3. Quiet(w)' /\ QuietScan(w)' /\ Sums(w)'
    <3>1. scan'.by # w
      BY <1>1, <1>5, LedgerAssumption
    <3> QED BY <1>1, <2>1, <3>1, OneWriter DEF Quiet, QuietScan, Sums
  <2>4. Kept(w)'
    <3>1. CASE w # f
      <4>1. lines'[w] = lines[w]
        BY <1>1, <3>1 DEF Inv, TypeInv
      <4> QED BY <1>1, <4>1, OneWriter DEF Kept
    <3>2. CASE w = f
      <4>1. lines'[f] = left
        BY <1>1 DEF Inv, TypeInv
      <4>2. Len(acked[f]) \in Nat /\ (f \notin touched => Len(acked[f]) <= synced[f]) /\ Kept(f)
        BY OneWriter DEF Kept
      <4>3. f \notin touched => Len(acked[f]) <= k
        BY <1>2, <4>2
      <4>4. ASSUME f \notin touched, NEW i \in 1 .. Len(acked[f])
            PROVE  left[i] = LineOf(acked[f], i)
        <5>1. i \in 1 .. k
          BY <4>2, <4>3, <4>4
        <5>2. lines[f][i] = LineOf(acked[f], i)
          BY <4>2, <4>4 DEF Kept
        <5> QED BY <1>4, <5>1, <5>2
      <4>5. f \notin touched => Len(acked[f]) <= Len(left)
        BY <1>4, <4>2, <4>3
      <4> QED BY <1>1, <3>2, <4>1, <4>2, <4>4, <4>5 DEF Kept
    <3> QED BY <3>1, <3>2
  <2> QED BY <2>2, <2>3, <2>4
<1> QED BY <1>6, <1>7, <1>8 DEF Inv

----------------------------------------------------------------------------
(* The theorems. *)

LEMMA StutterKeeps ==
    ASSUME Inv, UNCHANGED vars PROVE Inv'
<1> USE DEF vars
<1>1. ScanInv' /\ AttestInv'
  BY SameFiles, ScanKept DEF Inv, AttestInv, filevars, writervars
<1>2. UNCHANGED <<filevars, writervars, touched>> /\ faults' = faults /\ reads' = reads /\ scan' = scan
  BY DEF filevars, writervars
<1>3. \A w \in Writers : QuietScan(w)' /\ Sums(w)'
  BY <1>2 DEF Inv, QuietScan, Sums, filevars, writervars
<1> QED BY <1>1, <1>2, <1>3, ScanFacts, ScanStepKeeps

LEMMA NextInv == Inv /\ [Next]_vars => Inv'
<1> SUFFICES ASSUME Inv, [Next]_vars PROVE Inv'
  OBVIOUS
<1>1. ASSUME NEW w \in Writers, WriterStep(w) PROVE Inv'
  BY <1>1, CreateKeeps, BeginAppendKeeps, AppendRefusedKeeps, WriteKeeps, WriteFailsKeeps,
     FsyncKeeps, FsyncFailsKeeps, AckKeeps, AckRefusedKeeps, CloseKeeps, AbandonKeeps,
     DeleteKeeps, ReattestKeeps DEF WriterStep
<1>2. ASSUME ScanStep PROVE Inv'
  BY <1>2, ScanOpenKeeps, ScanLineKeeps, ScanBetweenKeeps, ScanAgainKeeps, ScanEndKeeps,
     ScanBindKeeps, ScanFailsKeeps DEF ScanStep
<1>3. ASSUME NEW f \in Writers, FileStep(f) PROVE Inv'
  <2>1. \A k \in 0 .. MaxRecords + MaxFaults : k \in Nat
    BY LedgerAssumption
  <2> QED BY <1>3, <2>1, ForeignAppendKeeps, ForeignWriteKeeps, PowerLossKeeps DEF FileStep
<1> QED BY <1>1, <1>2, <1>3, UnlinkKeeps, StutterKeeps DEF Next

\* The invariant holds in every state.
THEOREM Invariance == Spec => []Inv
BY InitInv, NextInv, PTL DEF Spec

\* A chain that a scan of a ledger reports is what the file held at one instant
\* between its two passes, whatever other programs did, and the attestation that
\* close_with_closure returns is of the writer's own records.
THEOREM AttestationsAreTrue == Spec => []AttestationIsTrue
<1>1. Inv => AttestationIsTrue
  BY DEF Inv, ScanInv, AttestInv, AttestationIsTrue
<1> QED BY <1>1, Invariance, PTL

\* An acknowledged record stays in its place through a loss of power, a writer
\* can always be closed with a closure of full length, and its close succeeds
\* unless something interferes.
THEOREM WritersKeepTheirPromise == Spec => []WriterPromise
<1>1. ASSUME Inv, NEW w \in Writers PROVE RecordsKept(w)
  <2>1. acked[w] \in Seq(Items) /\ Kept(w) /\ DOMAIN acked[w] = 1 .. Len(acked[w])
    BY <1>1, OneWriter, LenProperties
  <2>2. ASSUME w \notin touched, NEW k \in 1 .. Len(acked[w])
        PROVE  lines[w][k].chain = SubSeq(acked[w], 1, k)
    BY <2>1, <2>2, LineOfFacts DEF Kept
  <2> QED BY <2>1, <2>2 DEF Kept, RecordsKept
<1>2. ASSUME Inv, NEW w \in Writers PROVE ClosureFits(w)
  <2>1. Item(w, "closure", MaxClosureLine).type = "closure"
        /\ Item(w, "closure", MaxClosureLine).size = MaxClosureLine
    BY DEF Item
  <2>2. MaxClosureLine <= MaxClosureLine
    BY LedgerAssumption
  <2> QED BY <1>2, <2>1, <2>2, OneWriter DEF Control, ClosureFits, Fits
<1>3. ASSUME Inv, NEW w \in Writers PROVE QuietCloseSucceeds(w)
  BY <1>3, OneWriter DEF Quiet, QuietCloseSucceeds
<1>4. Inv => WriterPromise
  BY <1>1, <1>2, <1>3 DEF WriterPromise
<1> QED BY <1>4, Invariance, PTL
=============================================================================
