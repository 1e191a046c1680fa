-------------------------- MODULE AuditCacheProofs --------------------------
(***************************************************************************)
(* Theorems about AuditCache for every number of runs, workers, tasks and   *)
(* files, and every sequence of builds, crashes and unreadable spells.      *)
(***************************************************************************)
EXTENDS AuditCache, TLAPS

Statuses == {"absent", "queued", "running", "succeeded", "failed", "timeout",
             "succeeded_from_cache"}
PCs == {"idle", "hash", "apply", "run"}
Rows == Runs \X Tasks
Entries == [key : Keys, files : Contents, cause : {"none", "carried", "moved"}]

\* The types of the table, the workers, the cache and the invocations.
Types ==
    /\ disk \in Contents
    /\ status \in [Runs -> [Tasks -> Statuses]]
    /\ computed \in [Runs -> [Tasks -> Contents]]
    /\ fresh \in [Runs -> [Tasks -> BOOLEAN]]
    /\ chosen \in [Workers -> SUBSET Rows]
    /\ auditing \in [Workers -> SUBSET Rows]
    /\ span \in [Workers -> [Files -> SUBSET Versions]]
    /\ steady \in [Workers -> BOOLEAN]
    /\ cache \in SUBSET Entries
    /\ pc \in [Runs -> PCs]
    /\ print \in [Runs -> Prints]
    /\ unread \in [Runs -> SUBSET Files]
    /\ calm \in [Runs -> BOOLEAN]
    /\ nonces \in Nat

\* A row that a worker audits has been leased, and the cache settles only rows
\* that nobody has leased.
AuditInv ==
    \A w \in Workers, r \in Runs, t \in Tasks :
        <<r, t>> \in auditing[w] => status[r][t] \notin {"absent", "queued", "succeeded_from_cache"}

\* As long as nothing has changed since an audit began, what it reads and has
\* read is the directory as it is; such a row is no longer queued.
FreshInv ==
    /\ \A w \in Workers : steady[w] => \A f \in Files : span[w][f] = {disk[f]}
    /\ \A r \in Runs, t \in Tasks : fresh[r][t] =>
          computed[r][t] = disk /\ status[r][t] \notin {"absent", "queued"}

\* As long as nothing has changed since hashing began, the files hashed so far
\* are those of the directory as it is.
CalmInv ==
    \A r \in Runs : pc[r] # "idle" =>
        /\ pc[r] \in {"apply", "run"} => unread[r] = {}
        /\ print[r].nonce > 0 => unread[r] = {}
        /\ calm[r] /\ print[r].nonce = 0 =>
              \A f \in Files \ unread[r] : print[r].files[f] = disk[f]

\* A nonce is given out once: to one invocation, whose entries are stored when
\* it ends.
NonceInv ==
    /\ \A r \in Runs : print[r].nonce <= nonces
    /\ \A e \in cache : e.key[2].nonce <= nonces
    /\ \A r, s \in Runs : print[r].nonce > 0 /\ print[r].nonce = print[s].nonce => r = s
    /\ \A e \in cache, r \in Runs : print[r].nonce > 0 => e.key[2].nonce # print[r].nonce
    /\ \A r \in Runs : pc[r] = "idle" => print[r].nonce = 0

Inv == Types /\ AuditInv /\ FreshInv /\ CalmInv /\ NonceInv /\ FalseEntryHasCause

\* What a step may do to the rows.
RowStep ==
    \A x \in Runs, t \in Tasks :
        /\ /\ status[x][t] \in {"succeeded", "timeout", "succeeded_from_cache"}
           /\ \A w \in Workers : <<x, t>> \notin chosen[w] \cup auditing[w]
           => status'[x][t] = status[x][t] /\ computed'[x][t] = computed[x][t]
        /\ (\E w \in Workers : <<x, t>> \in auditing[w])
           => status'[x][t] # "succeeded_from_cache"

----------------------------------------------------------------------------
LEMMA BlankType == Blank \in Contents /\ NoPrint \in Prints /\ Unbegun \in [Files -> SUBSET Versions]
BY CacheAssumption DEF Blank, Contents, NoPrint, Prints, Unbegun

LEMMA InitInv == Init => Inv
<1> SUFFICES ASSUME Init PROVE Inv
  OBVIOUS
<1>1. Types
  BY BlankType DEF Init, Types, Statuses, PCs
<1>2. NoPrint.nonce = 0
  BY DEF NoPrint
<1>3. AuditInv /\ FreshInv /\ FalseEntryHasCause
  BY DEF Init, AuditInv, FreshInv, FalseEntryHasCause
<1>4. CalmInv /\ NonceInv
  BY <1>2 DEF Init, CalmInv, NonceInv
<1> QED
  BY <1>1, <1>3, <1>4 DEF Inv

LEMMA PrintType == ASSUME Types, NEW r \in Runs
                   PROVE  print[r].nonce \in Nat /\ print[r].files \in Contents
BY DEF Types, Prints

LEMMA EntryType == ASSUME Types, NEW e \in cache
                   PROVE  /\ e.key[1] \in Tasks /\ e.key[2] \in Prints /\ e.key[2].nonce \in Nat
                          /\ e.files \in Contents
BY DEF Types, Entries, Keys, Prints

\* A step that leaves the rows alone.
LEMMA SameRows == ASSUME Inv, UNCHANGED <<status, computed>>
                  PROVE  RowStep
BY DEF Inv, AuditInv, RowStep

\* The properties speak of these variables only.
LEMMA Frame ==
    ASSUME Inv,
           UNCHANGED <<disk, status, computed, fresh, audits, cache, pc, print, unread, calm, nonces>>
    PROVE  Inv'
<1> USE DEF audits
<1>1. Types' /\ AuditInv' /\ FreshInv'
  BY DEF Inv, Types, AuditInv, FreshInv
<1>2. CalmInv' /\ NonceInv' /\ FalseEntryHasCause'
  BY DEF Inv, CalmInv, NonceInv, FalseEntryHasCause
<1> QED BY <1>1, <1>2 DEF Inv

LEMMA ChangePreserves ==
    ASSUME Inv, NEW f \in Files, NEW v \in Versions, Change(f, v)
    PROVE  Inv' /\ RowStep
<1> USE DEF Inv, Change
<1>1. Types'
  <2>1. span' \in [Workers -> [Files -> SUBSET Versions]]
    BY DEF Types
  <2>2. disk' \in Contents
    BY DEF Types, Contents
  <2> QED BY <2>1, <2>2 DEF Types
<1>2. AuditInv' /\ FreshInv'
  BY DEF AuditInv, FreshInv
<1>3. NonceInv' /\ FalseEntryHasCause' /\ CalmInv'
  BY DEF NonceInv, FalseEntryHasCause, CalmInv
<1> QED BY <1>1, <1>2, <1>3, SameRows

LEMMA BeginPreserves ==
    ASSUME Inv, NEW r \in Runs, Begin(r)
    PROVE  Inv' /\ RowStep
<1> USE DEF Inv, Begin, Set, audits
<1>1. Types'
  BY DEF Types, PCs, Statuses
<1>2. \A s \in Runs, t \in Tasks :
        /\ status[s][t] # "absent" => status'[s][t] = status[s][t]
        /\ status[s][t] = "absent" => status'[s][t] \in {"absent", "queued"}
  BY DEF Types
<1>3. AuditInv' /\ FreshInv' /\ FalseEntryHasCause'
  BY <1>2 DEF AuditInv, FreshInv, FalseEntryHasCause
<1>4. CalmInv'
  BY DEF CalmInv, NonceInv, Types
<1>5. NonceInv'
  BY DEF NonceInv, Types
<1>6. RowStep
  <2> SUFFICES ASSUME NEW y \in Runs, NEW u \in Tasks
               PROVE  /\ /\ status[y][u] \in {"succeeded", "timeout", "succeeded_from_cache"}
                         /\ \A w \in Workers : <<y, u>> \notin chosen[w] \cup auditing[w]
                         => status'[y][u] = status[y][u] /\ computed'[y][u] = computed[y][u]
                      /\ (\E w \in Workers : <<y, u>> \in auditing[w])
                         => status'[y][u] # "succeeded_from_cache"
    BY DEF RowStep
  <2>1. (\E w \in Workers : <<y, u>> \in auditing[w]) =>
         status[y][u] \notin {"absent", "queued", "succeeded_from_cache"}
    BY DEF AuditInv
  <2> QED BY <1>2, <2>1
<1> QED BY <1>1, <1>3, <1>4, <1>5, <1>6

LEMMA HashFilePreserves ==
    ASSUME Inv, NEW r \in Runs, NEW f \in Files, HashFile(r, f)
    PROVE  Inv' /\ RowStep
<1> USE DEF Inv
<1>1. /\ print' = [print EXCEPT ![r].files[f] = disk[f]]
      /\ unread' = [unread EXCEPT ![r] = unread[r] \ {f}]
      /\ pc[r] = "hash" /\ f \in unread[r]
      /\ UNCHANGED <<disk, status, computed, fresh, audits, cache, pc, calm, nonces>>
  BY DEF HashFile, Set, jobs, bounds
<1>2. [print[r].files EXCEPT ![f] = disk[f]] \in Contents
  BY PrintType DEF Types, Contents
<1>3. print[r] \in Prints
  BY DEF Types
<1>4. /\ print'[r].nonce = print[r].nonce
      /\ print'[r].files = [print[r].files EXCEPT ![f] = disk[f]]
      /\ print'[r] \in Prints
  <2>1. print'[r] = [print[r] EXCEPT !.files[f] = disk[f]]
    BY <1>1 DEF Types
  <2>2. print'[r] = [print[r] EXCEPT !.files = [print[r].files EXCEPT ![f] = disk[f]]]
    BY <2>1, <1>3 DEF Prints
  <2> QED BY <2>2, <1>2, <1>3 DEF Prints
<1>5. print' \in [Runs -> Prints] /\ \A s \in Runs : s # r => print'[s] = print[s]
  BY <1>1, <1>4 DEF Types
<1>6. Types'
  BY <1>1, <1>5 DEF Types, audits
<1>7. AuditInv' /\ FreshInv' /\ FalseEntryHasCause'
  BY <1>1 DEF AuditInv, FreshInv, FalseEntryHasCause, audits
<1>8. \A g \in Files : print'[r].files[g] = IF g = f THEN disk[f] ELSE print[r].files[g]
  BY <1>4, PrintType DEF Contents
<1>9. CalmInv'
  <2> SUFFICES ASSUME NEW s \in Runs, pc[s] # "idle"
               PROVE  /\ pc[s] \in {"apply", "run"} => unread'[s] = {}
                      /\ print'[s].nonce > 0 => unread'[s] = {}
                      /\ calm[s] /\ print'[s].nonce = 0 =>
                            \A g \in Files \ unread'[s] : print'[s].files[g] = disk[g]
    BY <1>1 DEF CalmInv
  <2>1. CASE s = r
    <3>1. unread'[r] = unread[r] \ {f}
      BY <1>1 DEF Types
    <3> QED BY <1>1, <1>4, <1>8, <2>1, <3>1 DEF CalmInv
  <2>2. CASE s # r
    <3>1. unread'[s] = unread[s] /\ print'[s] = print[s]
      BY <1>1, <1>5, <2>2 DEF Types
    <3> QED BY <3>1 DEF CalmInv
  <2> QED BY <2>1, <2>2
<1>10. NonceInv'
  <2>1. \A s \in Runs : print'[s].nonce = print[s].nonce
    BY <1>4, <1>5
  <2> QED BY <1>1, <2>1 DEF NonceInv
<1> QED BY <1>1, <1>6, <1>7, <1>9, <1>10, SameRows

LEMMA HashFailsPreserves ==
    ASSUME Inv, NEW r \in Runs, HashFails(r)
    PROVE  Inv' /\ RowStep
<1> USE DEF Inv, HashFails, Set, jobs, audits
<1>1. Types'
  BY BlankType DEF Types, Prints
<1>2. AuditInv' /\ FreshInv' /\ FalseEntryHasCause'
  BY DEF AuditInv, FreshInv, FalseEntryHasCause
<1>3. CalmInv'
  BY DEF CalmInv, Types
<1>4. NonceInv'
  BY PrintType, EntryType DEF NonceInv, Types
<1> QED BY <1>1, <1>2, <1>3, <1>4, SameRows

LEMMA LookupPreserves ==
    ASSUME Inv, NEW r \in Runs, Lookup(r)
    PROVE  Inv' /\ RowStep
<1> USE DEF Inv, Lookup, Set, jobs, audits, bounds
<1>1. Types'
  BY DEF Types, PCs
<1>2. AuditInv' /\ FreshInv' /\ FalseEntryHasCause'
  BY DEF AuditInv, FreshInv, FalseEntryHasCause
<1>3. CalmInv' /\ NonceInv'
  BY DEF CalmInv, NonceInv, Types
<1> QED BY <1>1, <1>2, <1>3, SameRows

LEMMA ApplyPreserves ==
    ASSUME Inv, NEW r \in Runs, Apply(r)
    PROVE  Inv' /\ RowStep
<1> USE DEF Inv, Apply, Set, audits, bounds
<1>1. ASSUME NEW t \in Hits(r)
      PROVE  status[r][t] = "queued" /\ Entry(<<t, print[r]>>) \in cache
  <2>1. status[r][t] = "queued" /\ Cached(<<t, print[r]>>)
    BY <1>1 DEF Hits
  <2> QED BY <2>1 DEF Cached, Entry
<1>2. Types'
  BY <1>1, EntryType DEF Types, PCs, Statuses
<1> DEFINE Hit(s, t) == s = r /\ t \in Hits(r)
<1>3. \A s \in Runs, t \in Tasks :
        /\ status'[s][t] = IF Hit(s, t) THEN "succeeded_from_cache" ELSE status[s][t]
        /\ ~Hit(s, t) => computed'[s][t] = computed[s][t]
        /\ Hit(s, t) => status[s][t] = "queued"
  BY <1>1 DEF Types
<1>4. /\ \A s \in Runs : pc'[s] # "idle" <=> pc[s] # "idle"
      /\ UNCHANGED <<disk, fresh, chosen, auditing, span, steady, print, unread, calm, cache, nonces>>
      /\ \A s \in Runs : pc'[s] \in {"apply", "run"} <=> pc[s] \in {"apply", "run"}
  BY DEF Types
<1> HIDE DEF Apply, Hit
<1>5. AuditInv'
  BY <1>3, <1>4 DEF AuditInv
<1>6. FreshInv'
  BY <1>3, <1>4 DEF FreshInv
<1>7. CalmInv' /\ NonceInv' /\ FalseEntryHasCause'
  BY <1>4 DEF CalmInv, NonceInv, FalseEntryHasCause
<1>8. RowStep
  <2> SUFFICES ASSUME NEW y \in Runs, NEW u \in Tasks
               PROVE  /\ /\ status[y][u] \in {"succeeded", "timeout", "succeeded_from_cache"}
                         /\ \A w \in Workers : <<y, u>> \notin chosen[w] \cup auditing[w]
                         => status'[y][u] = status[y][u] /\ computed'[y][u] = computed[y][u]
                      /\ (\E w \in Workers : <<y, u>> \in auditing[w])
                         => status'[y][u] # "succeeded_from_cache"
    BY DEF RowStep
  <2>1. (\E w \in Workers : <<y, u>> \in auditing[w]) =>
         status[y][u] \notin {"absent", "queued", "succeeded_from_cache"}
    BY DEF AuditInv
  <2> QED BY <1>3, <2>1
<1> QED BY <1>2, <1>5, <1>6, <1>7, <1>8

LEMMA SelectPreserves ==
    ASSUME Inv, NEW w \in Workers, NEW x \in Runs, NEW t \in Tasks, Select(w, x, t)
    PROVE  Inv' /\ RowStep
<1> USE DEF Inv, Select, Set, jobs, locals, bounds
<1>1. Types'
  BY DEF Types, Rows
<1>2. AuditInv' /\ FreshInv'
  BY DEF AuditInv, FreshInv
<1>3. CalmInv' /\ NonceInv' /\ FalseEntryHasCause'
  BY DEF CalmInv, NonceInv, FalseEntryHasCause
<1> QED BY <1>1, <1>2, <1>3, SameRows

LEMMA LeasePreserves ==
    ASSUME Inv, NEW w \in Workers, NEW x \in Runs, NEW t \in Tasks, Lease(w, x, t)
    PROVE  Inv' /\ RowStep
<1> USE DEF Inv
<1>1. /\ <<x, t>> \in chosen[w]
      /\ status' = [status EXCEPT ![x][t] = "running"]
      /\ chosen' = [chosen EXCEPT ![w] = {}] /\ auditing' = [auditing EXCEPT ![w] = {<<x, t>>}]
      /\ span' = [span EXCEPT ![w] = [f \in Files |-> {disk[f]}]]
      /\ steady' = [steady EXCEPT ![w] = TRUE]
      /\ UNCHANGED <<disk, computed, fresh, cache, pc, print, unread, calm, nonces>>
  BY DEF Lease, Set, locals, bounds
<1>2. \A r \in Runs, u \in Tasks :
        status'[r][u] = IF r = x /\ u = t THEN "running" ELSE status[r][u]
  BY <1>1 DEF Types
<1>3. \A v \in Workers, r \in Runs, u \in Tasks :
        <<r, u>> \in auditing'[v] => (r = x /\ u = t) \/ <<r, u>> \in auditing[v]
  BY <1>1 DEF Types
<1>4. Types'
  <2>1. [f \in Files |-> {disk[f]}] \in [Files -> SUBSET Versions]
    BY DEF Types, Contents
  <2> QED BY <1>1, <2>1 DEF Types, Statuses, Rows
<1>5. AuditInv'
  BY <1>2, <1>3 DEF AuditInv
<1>6. FreshInv'
  <2>1. ASSUME NEW v \in Workers, steady'[v], NEW f \in Files PROVE span'[v][f] = {disk[f]}
    BY <1>1, <2>1 DEF FreshInv, Types
  <2> QED BY <1>1, <1>2, <2>1 DEF FreshInv
<1>7. CalmInv' /\ NonceInv' /\ FalseEntryHasCause'
  BY <1>1 DEF CalmInv, NonceInv, FalseEntryHasCause
<1>8. RowStep
  <2> SUFFICES ASSUME NEW y \in Runs, NEW u \in Tasks
               PROVE  /\ /\ status[y][u] \in {"succeeded", "timeout", "succeeded_from_cache"}
                         /\ \A w0 \in Workers : <<y, u>> \notin chosen[w0] \cup auditing[w0]
                         => status'[y][u] = status[y][u] /\ computed'[y][u] = computed[y][u]
                      /\ (\E w0 \in Workers : <<y, u>> \in auditing[w0])
                         => status'[y][u] # "succeeded_from_cache"
    BY DEF RowStep
  <2>1. (\E w0 \in Workers : <<y, u>> \in auditing[w0]) =>
         status[y][u] \notin {"absent", "queued", "succeeded_from_cache"}
    BY DEF AuditInv
  <2>2. y = x /\ u = t => \E w0 \in Workers : <<y, u>> \in chosen[w0]
    BY <1>1
  <2> QED BY <1>1, <1>2, <2>1, <2>2
<1> QED BY <1>4, <1>5, <1>6, <1>7, <1>8

\* The end of an audit, with a result of which fresh' says whether it is the
\* directory's as it is.
LEMMA ReleasePreserves ==
    ASSUME Inv, NEW w \in Workers, NEW x \in Runs, NEW t \in Tasks,
           NEW s \in {"succeeded", "failed", "timeout"}, Release(w, x, t, s),
           NEW c \in Contents, computed' = [computed EXCEPT ![x][t] = c],
           NEW b \in BOOLEAN, fresh' = [fresh EXCEPT ![x][t] = b],
           b => c = disk
    PROVE  Inv' /\ RowStep
<1> USE DEF Inv
<1>1. /\ <<x, t>> \in auditing[w]
      /\ status' = [status EXCEPT ![x][t] = s]
      /\ auditing' = [auditing EXCEPT ![w] = {}]
      /\ span' = [span EXCEPT ![w] = Unbegun] /\ steady' = [steady EXCEPT ![w] = FALSE]
      /\ UNCHANGED <<disk, chosen, cache, pc, print, unread, calm, nonces>>
  BY DEF Release, Set, locals, bounds
<1>2. \A r \in Runs, u \in Tasks :
        status'[r][u] = IF r = x /\ u = t THEN s ELSE status[r][u]
  BY <1>1 DEF Types
<1>3. \A v \in Workers : auditing'[v] \subseteq auditing[v]
  BY <1>1 DEF Types
<1>4. \A r \in Runs, u \in Tasks :
        /\ computed'[r][u] = IF r = x /\ u = t THEN c ELSE computed[r][u]
        /\ fresh'[r][u] = IF r = x /\ u = t THEN b ELSE fresh[r][u]
  BY DEF Types
<1>5. Types'
  BY <1>1, BlankType DEF Types, Statuses
<1>6. AuditInv'
  BY <1>2, <1>3 DEF AuditInv
<1>7. FreshInv'
  <2>1. ASSUME NEW v \in Workers, steady'[v], NEW f \in Files PROVE span'[v][f] = {disk[f]}
    BY <1>1, <2>1 DEF FreshInv, Types
  <2>2. ASSUME NEW r \in Runs, NEW u \in Tasks, fresh'[r][u]
        PROVE  computed'[r][u] = disk /\ status'[r][u] \notin {"absent", "queued"}
    BY <1>2, <1>4, <2>2 DEF FreshInv
  <2> QED BY <1>1, <2>1, <2>2 DEF FreshInv
<1>8. CalmInv' /\ NonceInv' /\ FalseEntryHasCause'
  BY <1>1 DEF CalmInv, NonceInv, FalseEntryHasCause
<1>9. RowStep
  <2> SUFFICES ASSUME NEW y \in Runs, NEW u \in Tasks
               PROVE  /\ /\ status[y][u] \in {"succeeded", "timeout", "succeeded_from_cache"}
                         /\ \A w0 \in Workers : <<y, u>> \notin chosen[w0] \cup auditing[w0]
                         => status'[y][u] = status[y][u] /\ computed'[y][u] = computed[y][u]
                      /\ (\E w0 \in Workers : <<y, u>> \in auditing[w0])
                         => status'[y][u] # "succeeded_from_cache"
    BY DEF RowStep
  <2>1. (\E w0 \in Workers : <<y, u>> \in auditing[w0]) =>
         status[y][u] \notin {"absent", "queued", "succeeded_from_cache"}
    BY DEF AuditInv
  <2>2. y = x /\ u = t => \E w0 \in Workers : <<y, u>> \in auditing[w0]
    BY <1>1
  <2> QED BY <1>2, <1>4, <2>1, <2>2
<1> QED BY <1>5, <1>6, <1>7, <1>8, <1>9

LEMMA FinishPreserves ==
    ASSUME Inv, NEW w \in Workers, NEW x \in Runs, NEW t \in Tasks, Finish(w, x, t)
    PROVE  Inv' /\ RowStep
<1>1. PICK c \in Contents : /\ \A f \in Files : c[f] \in span[w][f]
                            /\ computed' = [computed EXCEPT ![x][t] = c]
  BY DEF Finish
<1>2. steady[w] => \A f \in Files : c[f] = disk[f]
  BY <1>1 DEF Inv, FreshInv
<1>3. steady[w] => c = disk
  BY <1>2 DEF Inv, Types, Contents
<1>4. /\ Release(w, x, t, "succeeded") /\ fresh' = [fresh EXCEPT ![x][t] = steady[w]]
      /\ steady[w] \in BOOLEAN
  BY DEF Finish, Inv, Types
<1> QED BY <1>1, <1>3, <1>4, ReleasePreserves

LEMMA FailPreserves ==
    ASSUME Inv, NEW w \in Workers, NEW x \in Runs, NEW t \in Tasks, Fail(w, x, t)
    PROVE  Inv' /\ RowStep
<1>1. PICK s \in {"failed", "timeout"} : Release(w, x, t, s)
  BY DEF Fail
<1>2. /\ computed' = [computed EXCEPT ![x][t] = Blank] /\ fresh' = [fresh EXCEPT ![x][t] = FALSE]
  BY DEF Fail
<1> QED BY <1>1, <1>2, BlankType, ReleasePreserves

LEMMA StorePreserves ==
    ASSUME Inv, NEW r \in Runs, Store(r)
    PROVE  Inv' /\ RowStep
<1> USE DEF Inv
<1> DEFINE New(t) == [key |-> <<t, print[r]>>, files |-> computed[r][t], cause |-> Cause(r, t)]
<1>1. /\ pc[r] = "run" /\ pc' = [pc EXCEPT ![r] = "idle"] /\ print' = [print EXCEPT ![r] = NoPrint]
      /\ unread' = [unread EXCEPT ![r] = {}] /\ calm' = [calm EXCEPT ![r] = FALSE]
      /\ UNCHANGED <<disk, status, computed, fresh, chosen, auditing, span, steady, nonces>>
  BY DEF Store, Return, Set, jobs, audits, bounds
<1>2. ASSUME NEW e \in cache'
      PROVE  e \in cache \/ \E t \in Storable(r) : e = New(t)
  BY <1>2 DEF Store
<1>3. ASSUME NEW t \in Storable(r) PROVE t \in Tasks /\ New(t) \in Entries
  <2>1. t \in Tasks
    BY DEF Storable
  <2>2. Cause(r, t) \in {"none", "carried", "moved"}
    BY DEF Cause
  <2>3. <<t, print[r]>> \in Keys
    BY <2>1 DEF Keys, Types
  <2> QED BY <2>1, <2>2, <2>3 DEF Entries, Types
<1>4. Types'
  <2>1. cache' \in SUBSET Entries
    BY <1>2, <1>3 DEF Types
  <2> QED BY <1>1, <2>1, BlankType DEF Types, PCs
<1>5. AuditInv' /\ FreshInv' /\ CalmInv'
  <2>1. AuditInv' /\ FreshInv'
    BY <1>1 DEF AuditInv, FreshInv
  <2>2. CalmInv'
    BY <1>1 DEF CalmInv, Types
  <2> QED BY <2>1, <2>2
<1>6. NonceInv'
  <2>1. NoPrint.nonce = 0
    BY DEF NoPrint
  <2>2. \A s \in Runs : print'[s].nonce = IF s = r THEN 0 ELSE print[s].nonce
    BY <1>1, <2>1 DEF Types
  <2>3. \A e \in cache' : e \in cache \/ e.key[2].nonce = print[r].nonce
    BY <1>2
  <2> QED BY <1>1, <2>2, <2>3, PrintType DEF NonceInv, Types
<1>7. FalseEntryHasCause'
  <2> SUFFICES ASSUME NEW e \in cache', e.key[2].nonce = 0, e.cause = "none"
               PROVE  e.files = e.key[2].files
    BY DEF FalseEntryHasCause
  <2>1. CASE e \in cache
    BY <2>1 DEF FalseEntryHasCause
  <2>2. CASE \E t \in Storable(r) : e = New(t)
    <3>1. PICK t \in Storable(r) : e = New(t)
      BY <2>2
    <3>2. fresh[r][t] /\ calm[r]
      BY <3>1 DEF Cause
    <3>3. computed[r][t] = disk /\ print[r].nonce = 0
      BY <1>3, <3>1, <3>2 DEF FreshInv
    <3>4. print[r].files \in Contents /\ \A f \in Files : print[r].files[f] = disk[f]
      BY <1>1, <3>2, <3>3, PrintType DEF CalmInv
    <3>5. print[r].files = disk
      BY <3>4 DEF Types, Contents
    <3> QED BY <3>1, <3>3, <3>5
  <2> QED BY <1>2, <2>1, <2>2
<1> QED BY <1>1, <1>4, <1>5, <1>6, <1>7, SameRows

LEMMA CrashPreserves ==
    ASSUME Inv, NEW r \in Runs, Crash(r)
    PROVE  Inv' /\ RowStep
<1> USE DEF Inv
<1>1. /\ pc' = [pc EXCEPT ![r] = "idle"] /\ print' = [print EXCEPT ![r] = NoPrint]
      /\ unread' = [unread EXCEPT ![r] = {}] /\ calm' = [calm EXCEPT ![r] = FALSE]
      /\ chosen' = [w \in Workers |-> IF Home[w] = r THEN {} ELSE chosen[w]]
      /\ auditing' = [w \in Workers |-> IF Home[w] = r THEN {} ELSE auditing[w]]
      /\ span' = [w \in Workers |-> IF Home[w] = r THEN Unbegun ELSE span[w]]
      /\ steady' = [w \in Workers |-> Home[w] # r /\ steady[w]]
      /\ UNCHANGED <<disk, status, computed, fresh, cache, nonces>>
  BY DEF Crash, Return, Set, jobs
<1>2. Types'
  BY <1>1, BlankType DEF Types, PCs
<1>3. AuditInv' /\ FreshInv' /\ FalseEntryHasCause'
  BY <1>1 DEF AuditInv, FreshInv, FalseEntryHasCause
<1>4. CalmInv'
  BY <1>1 DEF CalmInv, Types
<1>5. NonceInv'
  <2>1. NoPrint.nonce = 0
    BY DEF NoPrint
  <2>2. \A s \in Runs : print'[s].nonce = IF s = r THEN 0 ELSE print[s].nonce
    BY <1>1, <2>1 DEF Types
  <2> QED BY <1>1, <2>2, PrintType DEF NonceInv, Types
<1> QED BY <1>1, <1>2, <1>3, <1>4, <1>5, SameRows

LEMMA StepPreserves == ASSUME Inv, [Next]_vars PROVE Inv' /\ RowStep
<1>1. CASE UNCHANGED vars
  BY <1>1, Frame, SameRows DEF vars, jobs, locals, bounds
<1>2. CASE TurnUnreadable \/ TurnReadable
  BY <1>2, Frame, SameRows DEF TurnUnreadable, TurnReadable, jobs, locals, bounds
<1>3. CASE \E f \in Files, v \in Versions : Change(f, v)
  BY <1>3, ChangePreserves
<1>4. CASE \E r \in Runs : RunStep(r)
  BY <1>4, BeginPreserves, HashFilePreserves, HashFailsPreserves, LookupPreserves,
     ApplyPreserves, StorePreserves, CrashPreserves DEF RunStep
<1>5. CASE \E w \in Workers : WorkerStep(w)
  BY <1>5, SelectPreserves, LeasePreserves, FinishPreserves, FailPreserves DEF WorkerStep
<1> QED BY <1>1, <1>2, <1>3, <1>4, <1>5 DEF Next

THEOREM Invariance == Spec => []Inv
<1>1. Inv /\ [Next]_vars => Inv'
  BY StepPreserves
<1> QED BY <1>1, InitInv, PTL DEF Spec

----------------------------------------------------------------------------
\* What the cache holds is the result of the contents in its key, unless the
\* directory changed after the invocation that stored it began, or between the
\* beginning of the row's audit and that of the invocation: for every
\* interleaving of invocations, audits, builds and crashes.
THEOREM EntriesExplained == Spec => []FalseEntryHasCause
<1>1. Inv => FalseEntryHasCause
  BY DEF Inv
<1> QED BY <1>1, Invariance, PTL

\* The cache replaces no verdict and settles no row under the worker that
\* audits it, whatever happens between its SELECT and its UPDATE.
THEOREM HitsDisturbNothing == Spec => AuditsUndisturbed
<1>1. Inv /\ [Next]_vars => [RowStep]_vars
  BY StepPreserves
<1>2. Spec => [][RowStep]_vars
  BY <1>1, Invariance, PTL DEF Spec
<1> QED BY <1>2 DEF RowStep, AuditsUndisturbed

\* A fingerprint with a nonce finds nothing in the cache.
THEOREM UnreadableHasNoIdentity == Spec => []UnreadableNeverHits
<1>1. Inv => UnreadableNeverHits
  BY DEF Inv, NonceInv, UnreadableNeverHits, Cached
<1> QED BY <1>1, Invariance, PTL
=============================================================================
