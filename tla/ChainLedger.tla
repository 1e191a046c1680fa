---------------------------- MODULE ChainLedger ----------------------------
(***************************************************************************)
(* The parsed-attempt ledger (evals/uprime_rpc_ledger.py): writers that     *)
(* append hash-chained records to a file they created exclusively, and       *)
(* scans that attest a closed chain by two passes over one handle.  Between   *)
(* any two system calls other programs may append to the file, overwrite a    *)
(* line of it or take it away from the path, and the machine may lose power.  *)
(*                                                                          *)
(* A file is named after the writer that created it.  A digest is modelled    *)
(* by what it binds: a record's line carries the chain of all items up to it, *)
(* so the predecessor digest of a record is the front of its chain.           *)
(***************************************************************************)
EXTENDS Naturals, Sequences, SequencesExt

CONSTANTS
    Writers,        \* StandaloneChainWriter objects, all for one path
    Reader,         \* a caller of attest, load or inspect
    None,           \* no file
    Inos,           \* inode numbers
    MaxRecords,     \* MAX_LEDGER_RECORDS
    MaxBytes,       \* MAX_LEDGER_BYTES
    MaxEventLine,   \* MAX_EVENT_LINE_BYTES
    MaxClosureLine, \* MAX_CLOSURE_LINE_BYTES
    MaxFaults,      \* bound: system calls that fail and acts of other programs
    MaxReads        \* bound: scans of the reader

ASSUME LedgerAssumption ==
    /\ Reader \notin Writers /\ None \notin Writers
    /\ {MaxRecords, MaxBytes, MaxEventLine, MaxClosureLine} \subseteq Nat \ {0}
    /\ MaxClosureLine <= MaxEventLine
    /\ {MaxFaults, MaxReads} \subseteq Nat

VARIABLES
    path,    \* the file the path leads to
    lines,   \* the lines of each file
    size,    \* st_size
    synced,  \* how many lines are on the disk for certain
    ino,     \* st_ino
    mtime,   \* st_mtime_ns, st_ctime_ns: they may miss a change
    state,   \* _state, "none" before create and "dead" after the process
    fd,      \* the writer holds a descriptor (_fd or _cleanup_fd)
    acked,   \* the chain up to _head; its length is _record_count
    bytes,   \* _tracked_bytes
    pc,      \* where the call of the writer is
    item,    \* the record it appends
    scan,    \* the scan of a closing writer or of the reader
    faults, reads,  \* bounded occurrences
    touched  \* history: files in which a line was overwritten

filevars == <<path, lines, size, synced, ino, mtime>>
writervars == <<state, fd, acked, bytes, pc, item>>
vars == <<filevars, writervars, scan, faults, reads, touched>>

Scanners == Writers \cup {Reader}

Item(w, type, n) == [type |-> type, size |-> n, by |-> w]
Junk(n, whole) == [chain |-> <<>>, size |-> n, whole |-> whole]

NoScan == [by |-> None, pc |-> "none", file |-> None, size |-> 0, mtime |-> 0, ino |-> 0,
           read |-> <<>>, total |-> 0, again |-> <<>>, middle |-> <<>>]

Init ==
    /\ path = None
    /\ lines = [f \in Writers |-> <<>>] /\ size = [f \in Writers |-> 0]
    /\ synced = [f \in Writers |-> 0] /\ ino = [f \in Writers |-> 0]
    /\ mtime = [f \in Writers |-> 0]
    /\ state = [w \in Writers |-> "none"] /\ fd = [w \in Writers |-> FALSE]
    /\ acked = [w \in Writers |-> <<>>] /\ bytes = [w \in Writers |-> 0]
    /\ pc = [w \in Writers |-> "idle"] /\ item = [w \in Writers |-> None]
    /\ scan = NoScan
    /\ faults = 0 /\ reads = 0 /\ touched = {}

\* The end of a scan without a chain.
Ended(s, why) == [NoScan EXCEPT !.by = s, !.pc = why]

\* A system call fails, or another program interferes.
Fault == faults < MaxFaults /\ faults' = faults + 1

----------------------------------------------------------------------------
(* The writer.  Its calls hold the lock from the first check to the last.  *)

\* Inode numbers of files that are linked or open are not given out again.
UsedInos ==
    {ino[f] : f \in {g \in Writers :
        g = path \/ fd[g] \/ (g = scan.file /\ scan.pc \in {"first", "second"})}}

\* create: O_EXCL, and the identity of the new file.
Create(w) ==
    /\ state[w] = "none" /\ path = None
    /\ \E i \in Inos \ UsedInos : ino' = [ino EXCEPT ![w] = i]
    /\ path' = w
    /\ state' = [state EXCEPT ![w] = "open"] /\ fd' = [fd EXCEPT ![w] = TRUE]
    /\ UNCHANGED <<lines, size, synced, mtime, acked, bytes, pc, item, scan, faults, reads,
                   touched>>

\* The descriptor is closed; if that fails it is kept in _cleanup_fd.
CloseFd(w) ==
    \/ fd' = [fd EXCEPT ![w] = FALSE] /\ UNCHANGED faults
    \/ Fault /\ UNCHANGED fd

Poison(w) ==
    /\ state' = [state EXCEPT ![w] = "poisoned"]
    /\ pc' = [pc EXCEPT ![w] = "idle"] /\ item' = [item EXCEPT ![w] = None]
    /\ UNCHANGED <<acked, bytes>>

\* Mutant: the reserve of one closure record is forgotten.
Fits_NoRecordReserve(w, x) ==
    /\ Len(acked[w]) < MaxRecords
    /\ x.type = "closure" => x.size <= MaxClosureLine /\ bytes[w] + x.size <= MaxBytes
    /\ x.type # "closure" => /\ x.size <= MaxEventLine
                             /\ bytes[w] + x.size + MaxClosureLine <= MaxBytes

\* The limits on lines, bytes and records, with what is kept back for a closure.
Fits(w, x) ==
    /\ Len(acked[w]) < MaxRecords
    /\ x.type = "closure" => x.size <= MaxClosureLine /\ bytes[w] + x.size <= MaxBytes
    /\ x.type # "closure" => /\ x.size <= MaxEventLine
                             /\ bytes[w] + x.size + MaxClosureLine <= MaxBytes
                             /\ Len(acked[w]) + 2 <= MaxRecords

\* The first record is the header and no other is; append_event and
\* close_with_closure pass the types of their own.
Types(w) == IF acked[w] = <<>> THEN {"header"} ELSE {"event", "closure"}

\* _append_record_locked up to its first fstat: the size must be the tracked
\* one.  The position of the descriptor follows the writer's own writes.
BeginAppend(w, type, n) ==
    /\ state[w] = "open" /\ pc[w] = "idle" /\ type \in Types(w)
    /\ Fits(w, Item(w, type, n)) /\ size[w] = bytes[w]
    /\ item' = [item EXCEPT ![w] = Item(w, type, n)] /\ pc' = [pc EXCEPT ![w] = "write"]
    /\ UNCHANGED <<filevars, state, fd, acked, bytes, scan, faults, reads, touched>>

\* The size has drifted, or a header does not fit: create gives its file up.
\* Any other record that does not fit is refused and nothing changes.
AppendRefused(w, type, n) ==
    /\ state[w] = "open" /\ pc[w] = "idle" /\ type \in Types(w)
    /\ \/ Fits(w, Item(w, type, n)) /\ size[w] # bytes[w]
       \/ ~Fits(w, Item(w, type, n)) /\ type = "header"
    /\ Poison(w) /\ CloseFd(w)
    /\ UNCHANGED <<filevars, scan, reads, touched>>

\* Bytes at the end of a file: a line without its LF runs into them.
Appended(f, line) ==
    IF lines[f] # <<>> /\ ~Last(lines[f]).whole
    THEN Append(Front(lines[f]), Junk(Last(lines[f]).size + line.size, line.whole))
    ELSE Append(lines[f], line)

\* One os.write with O_APPEND.
Write(w) ==
    /\ pc[w] = "write"
    /\ LET line == [chain |-> Append(acked[w], item[w]), size |-> item[w].size, whole |-> TRUE]
       IN  /\ lines' = [lines EXCEPT ![w] = Appended(w, line)]
           /\ size' = [size EXCEPT ![w] = @ + line.size]
    /\ pc' = [pc EXCEPT ![w] = "sync"]
    /\ UNCHANGED <<path, synced, ino, mtime, state, fd, acked, bytes, item, scan, faults, reads,
                   touched>>

\* The write is short or fails.
WriteFails(w) ==
    /\ pc[w] = "write" /\ Fault
    /\ \/ UNCHANGED <<lines, size>>
       \/ \E n \in 1 .. (item[w].size - 1) :
             /\ lines' = [lines EXCEPT ![w] = Appended(w, Junk(n, FALSE))]
             /\ size' = [size EXCEPT ![w] = @ + n]
    /\ Poison(w) /\ fd' = [fd EXCEPT ![w] = FALSE]
    /\ UNCHANGED <<path, synced, ino, mtime, scan, reads, touched>>

Fsync(w) ==
    /\ pc[w] = "sync"
    /\ synced' = [synced EXCEPT ![w] = Len(lines[w])]
    /\ pc' = [pc EXCEPT ![w] = "ack"]
    /\ UNCHANGED <<path, lines, size, ino, mtime, state, fd, acked, bytes, item, scan, faults,
                   reads, touched>>

FsyncFails(w) ==
    /\ pc[w] = "sync" /\ Fault
    /\ Poison(w) /\ fd' = [fd EXCEPT ![w] = FALSE]
    /\ UNCHANGED <<filevars, scan, reads, touched>>

\* Mutant: the size is not compared after the write.
Ack_NoSizeCheck(w) ==
    /\ pc[w] = "ack"
    /\ acked' = [acked EXCEPT ![w] = Append(@, item[w])]
    /\ bytes' = [bytes EXCEPT ![w] = @ + item[w].size]
    /\ pc' = [pc EXCEPT ![w] = IF item[w].type = "closure" THEN "close" ELSE "idle"]
    /\ item' = [item EXCEPT ![w] = None]
    /\ UNCHANGED <<filevars, state, fd, scan, faults, reads, touched>>

\* The second fstat agrees: the record counts.
Ack(w) ==
    /\ pc[w] = "ack" /\ size[w] = bytes[w] + item[w].size
    /\ acked' = [acked EXCEPT ![w] = Append(@, item[w])]
    /\ bytes' = [bytes EXCEPT ![w] = @ + item[w].size]
    /\ pc' = [pc EXCEPT ![w] = IF item[w].type = "closure" THEN "close" ELSE "idle"]
    /\ item' = [item EXCEPT ![w] = None]
    /\ UNCHANGED <<filevars, state, fd, scan, faults, reads, touched>>

\* Something else was appended meanwhile.
AckRefused(w) ==
    /\ pc[w] = "ack" /\ size[w] # bytes[w] + item[w].size
    /\ Poison(w) /\ CloseFd(w)
    /\ UNCHANGED <<filevars, scan, reads, touched>>

\* close_with_closure and abandon_unfinalized close the descriptor.
CloseWith(w, next) ==
    \/ /\ fd' = [fd EXCEPT ![w] = FALSE]
       /\ state' = [state EXCEPT ![w] = next]
       /\ pc' = [pc EXCEPT ![w] = IF next = "closed" THEN "attest" ELSE "idle"]
       /\ UNCHANGED <<acked, bytes, item, faults>>
    \/ Fault /\ Poison(w) /\ UNCHANGED fd

Close(w) ==
    /\ pc[w] = "close"
    /\ CloseWith(w, "closed")
    /\ UNCHANGED <<filevars, scan, reads, touched>>

Abandon(w) ==
    /\ state[w] = "open" /\ pc[w] = "idle" /\ acked[w] # <<>>
    /\ CloseWith(w, "abandoned")
    /\ UNCHANGED <<filevars, scan, reads, touched>>

\* __del__ closes what is left; the process may also end at any point.
Delete(w) ==
    /\ state[w] # "none" /\ fd[w]
    /\ \/ state[w] = "poisoned" /\ state' = [state EXCEPT ![w] = "abandoned"]
       \/ state' = [state EXCEPT ![w] = "dead"]
    /\ fd' = [fd EXCEPT ![w] = FALSE]
    /\ pc' = [pc EXCEPT ![w] = "idle"] /\ item' = [item EXCEPT ![w] = None]
    /\ UNCHANGED <<filevars, acked, bytes, scan, faults, reads, touched>>

----------------------------------------------------------------------------
(* A scan.  Scans only read, so that one at a time shows all they can see.  *)

\* Nobody is in a scan or waits for the result of this one.
ScanFree ==
    /\ scan.pc \notin {"first", "second", "bind"}
    /\ scan.by \in Writers => pc[scan.by] # "attest"

\* open and fstat; close_with_closure requires the identity of its file.
ScanOpen(s) ==
    /\ ScanFree
    /\ \/ s = Reader /\ reads < MaxReads /\ reads' = reads + 1
       \/ s \in Writers /\ pc[s] = "attest" /\ UNCHANGED reads
    /\ scan' = IF path = None \/ (s # Reader /\ ino[path] # ino[s]) \/ size[path] > MaxBytes
               THEN Ended(s, "error")
               ELSE [NoScan EXCEPT !.by = s, !.pc = "first", !.file = path,
                         !.size = size[path], !.mtime = mtime[path], !.ino = ino[path]]
    /\ UNCHANGED <<filevars, writervars, faults, touched>>

Type(line) == Last(line.chain).type
Closed(read) == read # <<>> /\ Type(Last(read)) = "closure"

\* The chain up to the lines read so far (head and the rest).
ChainOf(read) == IF read = <<>> THEN <<>> ELSE Last(read).chain

\* _validate_record_envelope and the limits: a line that continues the chain.
Continues(read, total, line) ==
    /\ ~Closed(read)
    /\ line.size <= MaxEventLine /\ total + line.size <= MaxBytes
    /\ line.whole /\ line.chain # <<>>
    /\ Front(line.chain) = ChainOf(read)
    /\ Type(line) = "header" <=> read = <<>>
    /\ Type(line) = "closure" => line.size <= MaxClosureLine
    /\ Len(read) + 1 <= MaxRecords

\* The first pass checks and digests a line, or ends the scan.
ScanLine ==
    /\ scan.pc = "first" /\ Len(scan.read) < Len(lines[scan.file])
    /\ LET line == lines[scan.file][Len(scan.read) + 1]
           torn == /\ ~Closed(scan.read) /\ ~line.whole
                   /\ line.size <= MaxEventLine /\ scan.total + line.size <= MaxBytes
       IN  scan' = IF Continues(scan.read, scan.total, line)
                   THEN [scan EXCEPT !.read = Append(@, line), !.total = @ + line.size]
                   ELSE Ended(scan.by, IF torn THEN "torn" ELSE "error")
    /\ UNCHANGED <<filevars, writervars, faults, reads, touched>>

SameStat == size[scan.file] = scan.size /\ mtime[scan.file] = scan.mtime

\* The end of the first pass: the file must look as when it was opened.
ScanBetween ==
    /\ scan.pc = "first" /\ Len(scan.read) >= Len(lines[scan.file])
    /\ scan' = IF SameStat /\ scan.total = scan.size
               THEN [scan EXCEPT !.pc = "second", !.middle = lines[scan.file]]
               ELSE Ended(scan.by, "error")
    /\ UNCHANGED <<filevars, writervars, faults, reads, touched>>

ScanAgain ==
    /\ scan.pc = "second" /\ Len(scan.again) < Len(lines[scan.file])
    /\ scan' = [scan EXCEPT !.again = Append(@, lines[scan.file][Len(@) + 1])]
    /\ UNCHANGED <<filevars, writervars, faults, reads, touched>>

\* Mutant: the second digest is not compared with the first.
ScanEnd_NoDigest ==
    /\ scan.pc = "second" /\ Len(scan.again) >= Len(lines[scan.file])
    /\ scan' = IF SameStat THEN [scan EXCEPT !.pc = "bind", !.again = <<>>]
               ELSE Ended(scan.by, "error")
    /\ UNCHANGED <<filevars, writervars, faults, reads, touched>>

\* The end of the second pass; the handle is closed.
ScanEnd ==
    /\ scan.pc = "second" /\ Len(scan.again) >= Len(lines[scan.file])
    /\ scan' = IF SameStat /\ scan.again = scan.read
               THEN [scan EXCEPT !.pc = "bind", !.again = <<>>]
               ELSE Ended(scan.by, "error")
    /\ UNCHANGED <<filevars, writervars, faults, reads, touched>>

\* The path must still lead to a file with this identity, size and time.
Bound ==
    /\ path # None
    /\ ino[path] = scan.ino /\ size[path] = scan.size /\ mtime[path] = scan.mtime

\* The result; the reader of this model keeps no more of it than the status.
ScanBind ==
    /\ scan.pc = "bind"
    /\ LET status == IF Closed(scan.read) THEN "closed_chain" ELSE "unclosed"
       IN  scan' = IF ~Bound THEN Ended(scan.by, "error")
                   ELSE IF scan.by = Reader THEN Ended(Reader, status)
                   ELSE [scan EXCEPT !.pc = status]
    /\ UNCHANGED <<filevars, writervars, faults, reads, touched>>

\* A system call of the scan raises.
ScanFails ==
    /\ scan.pc \in {"first", "second", "bind"} /\ Fault
    /\ scan' = Ended(scan.by, "error")
    /\ UNCHANGED <<filevars, writervars, reads, touched>>

\* Mutant: the head is not compared.
Agrees_NoHead(w) ==
    /\ scan.pc = "closed_chain"
    /\ Len(scan.read) = Len(acked[w]) /\ scan.total = bytes[w]

\* The attestation matches the writer: head, count and bytes.
Agrees(w) ==
    /\ scan.pc = "closed_chain"
    /\ ChainOf(scan.read) = acked[w]
    /\ Len(scan.read) = Len(acked[w]) /\ scan.total = bytes[w]

\* The rest of close_with_closure.
Reattest(w) ==
    /\ pc[w] = "attest" /\ scan.by = w
    /\ scan.pc \in {"error", "torn", "unclosed", "closed_chain"}
    /\ IF Agrees(w)
       THEN pc' = [pc EXCEPT ![w] = "returned"] /\ UNCHANGED <<state, acked, bytes, item>>
       ELSE Poison(w)
    /\ UNCHANGED <<filevars, fd, scan, faults, reads, touched>>

----------------------------------------------------------------------------
(* Other programs, and the machine.                                        *)

Existing(f) == ino[f] # 0

\* Another program appends to a file.
ForeignAppend(f) ==
    /\ Existing(f) /\ Fault
    /\ \E whole \in BOOLEAN :
          /\ lines' = [lines EXCEPT ![f] = Appended(f, Junk(1, whole))]
          /\ size' = [size EXCEPT ![f] = @ + 1]
    /\ UNCHANGED <<path, synced, ino, mtime, writervars, scan, reads, touched>>

\* Another program overwrites a line; the times need not tell.
ForeignWrite(f, k) ==
    /\ Existing(f) /\ k \in DOMAIN lines[f] /\ lines[f][k].chain # <<>> /\ Fault
    /\ lines' = [lines EXCEPT ![f][k] = Junk(@.size, TRUE)]
    /\ mtime' \in {mtime, [mtime EXCEPT ![f] = @ + 1]}
    /\ touched' = touched \cup {f}
    /\ UNCHANGED <<path, size, synced, ino, writervars, scan, reads>>

\* The path is unlinked or renamed: another writer may create its file there.
Unlink ==
    /\ path # None /\ Fault
    /\ path' = None
    /\ UNCHANGED <<lines, size, synced, ino, mtime, writervars, scan, reads, touched>>

SizeOf(ls) == FoldSeq(LAMBDA line, n : n + line.size, 0, ls)

\* Power is lost: every process ends, the reader too, and an end of file f that was not synced
\* may be missing, from the start of a line or from the middle of one.
PowerLoss(f, k, torn) ==
    /\ Existing(f) /\ k \in synced[f] .. Len(lines[f]) /\ (torn => k < Len(lines[f]))
    /\ LET rest == SubSeq(lines[f], 1, k)
           left == IF torn THEN Append(rest, Junk(1, FALSE)) ELSE rest
       IN  /\ lines' = [lines EXCEPT ![f] = left]
           /\ size' = [size EXCEPT ![f] = SizeOf(left)]
    /\ state' = [w \in Writers |-> "dead"]
    /\ fd' = [w \in Writers |-> FALSE]
    /\ pc' = [w \in Writers |-> "idle"] /\ item' = [w \in Writers |-> None]
    /\ scan' = NoScan /\ reads' = MaxReads
    /\ UNCHANGED <<path, synced, ino, mtime, acked, bytes, faults, touched>>

----------------------------------------------------------------------------
WriterStep(w) ==
    \/ Create(w)
    \/ \E type \in {"header", "event", "closure"}, n \in 1 .. MaxEventLine :
          BeginAppend(w, type, n) \/ AppendRefused(w, type, n)
    \/ Write(w) \/ WriteFails(w) \/ Fsync(w) \/ FsyncFails(w) \/ Ack(w) \/ AckRefused(w)
    \/ Close(w) \/ Abandon(w) \/ Delete(w) \/ Reattest(w)

ScanStep ==
    \/ \E s \in Scanners : ScanOpen(s)
    \/ ScanLine \/ ScanBetween \/ ScanAgain \/ ScanEnd \/ ScanBind \/ ScanFails

FileStep(f) ==
    \/ ForeignAppend(f)
    \/ \E k \in 1 .. MaxRecords : ForeignWrite(f, k)
    \/ \E k \in 0 .. MaxRecords + MaxFaults, torn \in BOOLEAN : PowerLoss(f, k, torn)

Next ==
    \/ \E w \in Writers : WriterStep(w)
    \/ ScanStep
    \/ \E f \in Writers : FileStep(f)
    \/ Unlink

Spec == Init /\ [][Next]_vars

----------------------------------------------------------------------------
(* Properties.                                                             *)

\* What a scan reports as a chain, closed or not, is what the file held at one
\* instant, between the two passes, whatever was done to it meanwhile; and the
\* attestation that close_with_closure returns is of the writer's own records,
\* also when the path and the inode number have gone to another ledger.
AttestationIsTrue ==
    /\ scan.pc = "bind" => scan.read = scan.middle
    /\ \A w \in Writers : scan.by = w /\ pc[w] = "returned" =>
          Closed(scan.middle) /\ ChainOf(scan.middle) = acked[w]

\* A record that append_event has returned for stays where it is, behind those
\* before it and through a loss of power, unless a line is overwritten.
RecordsKept(w) ==
    w \notin touched =>
        /\ Len(acked[w]) <= Len(lines[w])
        /\ \A k \in DOMAIN acked[w] : lines[w][k].chain = SubSeq(acked[w], 1, k)

\* A writer that is open can still be closed with a closure of full length.
ClosureFits(w) ==
    state[w] = "open" /\ pc[w] = "idle" /\ acked[w] # <<>> =>
        Fits(w, Item(w, "closure", MaxClosureLine))

\* Undisturbed, no writer that has its header is poisoned: what the writer
\* admits the scan of close_with_closure accepts.
QuietCloseSucceeds(w) ==
    faults = 0 /\ acked[w] # <<>> => state[w] # "poisoned"

\* What a writer may rely on: its acknowledged records stay, it can always be
\* closed, and its close succeeds unless something interferes.
WriterPromise ==
    \A w \in Writers : RecordsKept(w) /\ ClosureFits(w) /\ QuietCloseSucceeds(w)
============================================================================
