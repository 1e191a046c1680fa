----------------------------- MODULE BulkChunk -----------------------------
(***************************************************************************)
(* One chunk of the bulk runner: _run_bulk_chunk_with_retry and             *)
(* _run_bulk_chunk (lean/worker_supervisor.py) over LeanBulkAuditor         *)
(* (lean/bulk_executor.py).  The theorems of a chunk are put into one Lean  *)
(* file, Lean's messages are attributed to them by line number, claimed     *)
(* successes are run again alone, and a chunk with a timeout is halved.     *)
(* Lean may die over a file; if it has said nothing by then, the whole file *)
(* has failed.                                                              *)
(*                                                                         *)
(* A script is abstracted to what it does to the file it is in, and to how  *)
(* long Lean takes over it.  Block k of a file starts at line 2k (its       *)
(* set_option) and has its body at 2k+1; line 1 is an import.               *)
(***************************************************************************)
EXTENDS Naturals, Sequences, FiniteSets, FiniteSetsExt, SequencesExt

CONSTANTS
    Chunk,      \* number of jobs in the chunk
    Scripts,    \* what a script may do to its file, and how long it takes
    Budget      \* timeout_s of a file

Kinds == {"proof", "warned", "wrong", "heartbeats", "dangling", "comment"}

ASSUME ChunkAssumption ==
    /\ {Chunk, Budget} \subseteq Nat \ {0}
    /\ Scripts \subseteq [kind : Kinds, cost : Nat \ {0}]

VARIABLES
    scripts,    \* the jobs of the chunk
    importFails,\* the imports of the group do not load
    stack,      \* parts still to be run: the recursion of the retry
    results,    \* audit status per job
    attempts,   \* bulk_attempts
    splits,     \* bulk_retry_batches
    silenced    \* history: jobs whose result is that of a file Lean left
                \*   without a word

vars == <<scripts, importFails, stack, results, attempts, splits, silenced>>

Jobs == 1 .. Chunk
Statuses == {"success", "fail", "timeout"}

-----------------------------------------------------------------------------
(* Lean on a file of scripts. *)

\* The block that opens a comment it never closes; Lean reads nothing after it.
FirstComment(file) ==
    Min({k \in DOMAIN file : file[k].kind = "comment"} \cup {Len(file) + 1})

Start(k) == 2 * k

\* Lean's messages as _errors_by_line keeps them: pairs of a line and what
\* _classify_block_failure makes of the text.  A warning is dropped but the
\* lines that follow it are kept under its line number.  A script that ends in
\* an incomplete construct is reported where the parser stops, which is the
\* first line of the next block; an open comment at the end of the file.
Messages(file) ==
    LET c == FirstComment(file)
        own(k) == IF file[k].kind = "heartbeats" THEN "timeout" ELSE "fail"
        lines(K, at, text(_)) == {<<Start(k) + at, text(k)>> : k \in {i \in 1 .. c - 1 : file[i].kind \in K}}
    IN  IF importFails THEN {<<1, "fail">>}
        ELSE lines({"wrong", "heartbeats", "warned"}, 1, own)
             \cup lines({"dangling"}, 2, own)
             \cup {<<2 * Len(file) + 2, "fail">> : k \in {c} \cap DOMAIN file}

\* The time Lean takes over the first n blocks.
Cost(file, n) == FoldSeq(LAMBDA s, acc : s.cost + acc, 0, SubSeq(file, 1, n))

\* The whole file has one deadline; what Lean does not read takes no time.
TimesOut(file) == ~importFails /\ Cost(file, Min({FirstComment(file), Len(file)})) > Budget

\* How many blocks Lean gets through: all of them and the end of the file, or
\* some before it dies within the deadline.
Ends(file) ==
    {Len(file) + 1} \cup
    {p \in 0 .. Len(file) : importFails \/ Cost(file, Min({FirstComment(file), p})) <= Budget}

Dies(file, p) == p <= Len(file)

\* The messages on the first p blocks.
Said(file, p) == {m \in Messages(file) : m[1] <= Start(p + 1)}

-----------------------------------------------------------------------------
(* LeanBulkAuditor. *)

\* Mutant: a block owns its own lines only.
Owner_OwnLines(n, line) ==
    Min({k \in 1 .. n : Start(k) <= line /\ (k = n \/ line < Start(k + 1))})

\* _attribute_lines: block k owns the lines from its start through the start
\* of the next, the last one through the end of the file.
Owner(n, line) ==
    Min({k \in 1 .. n : Start(k) <= line /\ (k = n \/ line <= Start(k + 1))})

\* An exit code other than zero without a location in the output: the message
\* is a global one.  (What is printed then does not speak of a timeout.)
Silent(file, p) == Dies(file, p) /\ Said(file, p) = {}

\* _run_chunk: a status for each block of one file.  _classify_block_failure
\* looks for a timeout first.
RunFile(file, p) ==
    LET found(k) == {m[2] : m \in {x \in Said(file, p) : x[1] < Start(1) \/ Owner(Len(file), x[1]) = k}}
    IN  [k \in DOMAIN file |->
            IF (~Dies(file, p) /\ TimesOut(file)) \/ "timeout" \in found(k) THEN "timeout"
            ELSE IF found(k) = {} /\ ~Silent(file, p) THEN "success" ELSE "fail"]

\* The blocks that run_pairs runs again.
Claims(file, p) == {k \in DOMAIN file : Len(file) > 1 /\ RunFile(file, p)[k] = "success"}

\* Mutant: confirm_successes is off.
RunPairs_NoConfirm(file, p, dead) == RunFile(file, p)

\* run_pairs: every success claimed by a file of several blocks is run again
\* alone, and that verdict wins.  Lean may die over some of these files too;
\* to die after a message of the block is no different from not dying.
RunPairs(file, p, dead) ==
    LET batch == RunFile(file, p)
    IN  [k \in DOMAIN file |->
            IF Len(file) > 1 /\ batch[k] = "success"
            THEN RunFile(<<file[k]>>, IF k \in dead THEN 0 ELSE 2)[1] ELSE batch[k]]

-----------------------------------------------------------------------------
(* _run_bulk_chunk_with_retry. *)

\* The jobs of a group share their imports; a chunk is not empty.
Init ==
    /\ scripts \in [Jobs -> Scripts]
    /\ importFails \in BOOLEAN
    /\ stack = <<<<1, Chunk>>>>
    /\ results = [j \in Jobs |-> "none"]
    /\ attempts = 0 /\ splits = 0 /\ silenced = {}

\* Mutant: the first half is a job short.
Halves_Short(lo, hi) ==
    LET mid == lo + (hi - lo + 1) \div 2
    IN  <<<<lo, mid - 1>>, <<mid + 1, hi>>>>

\* mid = max(1, len(jobs) // 2)
Halves(lo, hi) ==
    LET mid == lo + (hi - lo + 1) \div 2
    IN  <<<<lo, mid - 1>>, <<mid, hi>>>>

Record(lo, hi, found) ==
    results' = [j \in Jobs |-> IF j \in lo .. hi THEN found[j - lo + 1] ELSE results[j]]

\* Mutant: a single job that timed out is tried again.
RunPart_RetriesSingles ==
    /\ stack # <<>>
    /\ LET lo == Head(stack)[1]
           hi == Head(stack)[2]
           file == SubSeq(scripts, lo, hi)
           found == RunPairs(file, Len(file) + 1, {})
       IN  IF \E k \in DOMAIN found : found[k] = "timeout"
           THEN /\ stack' = IF lo < hi THEN Halves(lo, hi) \o Tail(stack) ELSE stack
                /\ splits' = splits + (IF lo < hi THEN 1 ELSE 0)
                /\ UNCHANGED results
           ELSE /\ Record(lo, hi, found)
                /\ stack' = Tail(stack)
                /\ UNCHANGED splits
    /\ attempts' = IF attempts > 2 * Chunk THEN attempts ELSE attempts + 1
    /\ UNCHANGED <<scripts, importFails, silenced>>

\* Run the next part; if it has several jobs and any timed out, its results
\* are thrown away and its halves are run instead, the first one first.
RunPart ==
    /\ stack # <<>>
    /\ LET lo == Head(stack)[1]
           hi == Head(stack)[2]
           file == SubSeq(scripts, lo, hi)
       IN  \E p \in Ends(file) : \E dead \in SUBSET Claims(file, p) :
             LET found == RunPairs(file, p, dead)
             IN  IF lo < hi /\ \E k \in DOMAIN found : found[k] = "timeout"
                 THEN /\ stack' = Halves(lo, hi) \o Tail(stack)
                      /\ splits' = splits + 1
                      /\ UNCHANGED <<results, silenced>>
                 ELSE /\ Record(lo, hi, found)
                      /\ silenced' = silenced \cup
                            {j \in lo .. hi : Silent(file, p) \/ j - lo + 1 \in dead}
                      /\ stack' = Tail(stack)
                      /\ UNCHANGED splits
    /\ attempts' = attempts + 1
    /\ UNCHANGED <<scripts, importFails>>

\* The auditor raises (no such command, no room for the file): every job of
\* the part is failed, and there is no retry.
PartRaises ==
    /\ stack # <<>>
    /\ LET lo == Head(stack)[1]
           hi == Head(stack)[2]
       IN  Record(lo, hi, [k \in 1 .. hi - lo + 1 |-> "raised"])
    /\ stack' = Tail(stack)
    /\ attempts' = attempts + 1
    /\ UNCHANGED <<scripts, importFails, splits, silenced>>

Next == RunPart \/ PartRaises

Spec == Init /\ [][Next]_vars

-----------------------------------------------------------------------------
(* Properties *)

\* What a script is worth by itself, to LeanExecutor.run_tactic, which goes by
\* the exit code: the reference.
Alone(s) ==
    IF importFails THEN "fail"
    ELSE IF s.cost > Budget \/ s.kind = "heartbeats" THEN "timeout"
    ELSE IF s.kind \in {"proof", "warned"} THEN "success" ELSE "fail"

\* Jobs that have their result.
Answered == Cardinality({j \in Jobs : results[j] # "none"})

\* The parts still on the stack and the jobs with a result share out the chunk,
\* and the results lie before the parts: the retry appends in order, loses no
\* job and answers for none twice.
TypeOK ==
    /\ attempts \in Nat /\ splits \in Nat
    /\ results \in [Jobs -> Statuses \cup {"none", "raised"}] /\ silenced \subseteq Jobs
    /\ \A i \in DOMAIN stack : stack[i][1] = (IF i = 1 THEN Answered ELSE stack[i - 1][2]) + 1
    /\ stack # <<>> => Last(stack)[2] = Chunk
    /\ \A j \in Jobs : results[j] # "none" <=> j <= Answered

\* No label is a false success and no timeout is a neighbour's, whatever the
\* other scripts of the chunk do to the file: a reported success is a proof by
\* itself within the time limit, and a job reported as timed out times out
\* alone, for the halving takes the blame from the neighbours of a slow script.
LabelsAreEarned ==
    \A j \in Jobs : results[j] \in {"success", "timeout"} => Alone(scripts[j]) = results[j]

\* Jobs that open comments stand before, in the order of the chunk.
BehindComment(j) == \E i \in 1 .. j - 1 : scripts[i].kind = "comment"

\* A job that would not fail alone is reported as failed only behind an open
\* comment in its part of the chunk, whose message at the end of the file goes
\* to the last block, for a warning of its own, or because Lean died over its
\* file without a word.  Failures are not confirmed; a dangling construct harms
\* nobody but itself, and a death after the first message harms nobody at all.
FalseFailureIsExplained ==
    \A j \in Jobs : results[j] = "fail" /\ Alone(scripts[j]) # "fail" =>
        BehindComment(j) \/ scripts[j].kind = "warned" \/ j \in silenced

\* The halving ends: at most 2n - 1 parts of a chunk of n are ever run, and
\* one more than are split when all is answered.
AttemptsBounded ==
    /\ attempts <= 2 * Chunk - 1 /\ splits <= Chunk - 1
    /\ stack = <<>> => attempts <= 2 * splits + 1 /\ \A j \in Jobs : results[j] # "none"
=============================================================================
