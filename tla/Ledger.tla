------------------------------- MODULE Ledger -------------------------------
(***************************************************************************)
(* The durable operation ledger (crates/ssdev-invocation-ledger): the      *)
(* replay evidence of tracked invocations.  It keeps a map of operations   *)
(* in memory, a snapshot file that is replaced atomically and a journal    *)
(* that is appended and synced before an operation is reported as started. *)
(*                                                                         *)
(* A file has two images: what the operating system shows ("seen") and     *)
(* what a power loss leaves at least ("stable").  Where the program does   *)
(* not sync directories (every platform but Unix: Windows too), a power    *)
(* loss may also bring back a snapshot that a rename replaced ("stale"),   *)
(* although the journal was emptied since.  Every file operation may fail  *)
(* at each of its steps; a failed append leaves any part of the record     *)
(* behind.  Each operation runs under the ledger's mutex, so it is one     *)
(* action; a crash inside an operation is a failed step followed by the    *)
(* loss of the memory.                                                     *)
(***************************************************************************)
EXTENDS Integers, FiniteSets, SequencesExt

CONSTANTS
  Key,                 \* operation keys: (operation id, scope hash)
  Scope,               \* authorization scopes (one per business origin)
  ScopeOf,             \* [Key -> Scope]
  Request,             \* request hashes
  None,                \* no operation
  MaxOperations,       \* MAX_DURABLE_OPERATIONS
  MaxPerScope,         \* MAX_DURABLE_OPERATIONS_PER_SCOPE
  CompactAt,           \* COMPACT_JOURNAL_BYTES, in records
  MaxJournal,          \* MAX_FILE_BYTES, in records
  AcceptedRetention,   \* INDETERMINATE_OPERATION_RETENTION
  CompletedRetention,  \* COMPLETED_OPERATION_RETENTION
  MaxTime,             \* bound: the clock stops here
  MaxErrors,           \* bound: I/O errors returned to a live process
  MaxRestarts          \* bound: crashes and power losses

ASSUME LedgerAssumption ==
  /\ ScopeOf \in [Key -> Scope]
  /\ None \notin [request : Request, state : {"accepted", "completed"}, at : Nat]
  /\ None \notin [op : [request : Request, state : {"accepted", "completed"}, at : Nat],
                  until : Nat]
  /\ IsFiniteSet(Key)
  /\ {MaxOperations, MaxPerScope, CompactAt, MaxJournal} \subseteq Nat \ {0}
  /\ {AcceptedRetention, CompletedRetention, MaxTime} \subseteq Nat
  /\ {MaxErrors, MaxRestarts} \subseteq Nat
  /\ CompletedRetention <= AcceptedRetention

VARIABLES
  syncsDirectories,  \* the platform: cfg(unix) or not, fixed at the start
  phase,      \* "closed", "open" or "refused" (open returned an error)
  inner,      \* LedgerInner: what the process holds in memory
  disk,       \* the images of the snapshot and the journal
  now,        \* the system clock, monotone
  errors,     \* I/O errors returned to a live process so far
  restarts,   \* crashes and power losses so far
  running,    \* workflows of this process whose begin returned Started
  promised,   \* history: the evidence the callers were promised
  undone      \* history: a power loss has undone a rename that went with the
              \* emptying of the journal

vars == <<syncsDirectories, phase, inner, disk, now, errors, restarts, running,
          promised, undone>>

States == {"accepted", "completed"}
Stored == [request : Request, state : States, at : Nat]

\* A piece of the journal: a whole line, a record without its newline
\* ("bare") or a proper prefix of a record ("torn").
Parts == {"whole", "bare", "torn"}
Chunk == [key : Key, op : Stored, part : Parts]

Nothing == [k \in Key |-> None]
Empty == [snapshot |-> Nothing, journal |-> <<>>]

Live(operations) == {k \in Key : operations[k] # None}

-----------------------------------------------------------------------------
\* Retention.

Expiration(op) ==
  op.at + 1 + IF op.state = "accepted" THEN AcceptedRetention
                                       ELSE CompletedRetention

\* Mutant: retention ends one tick early.
IsExpiredEarly(op, t) == t + 1 >= Expiration(op)

IsExpired(op, t) == t >= Expiration(op)

\* u64::MAX: later than every expiration of the bounded clock.
Never == MaxTime + AcceptedRetention + 2

NextExpiration(operations) ==
  Min({Expiration(operations[k]) : k \in Live(operations)} \cup {Never})

PruneExpired(operations, t) ==
  [k \in Key |-> IF operations[k] # None /\ IsExpired(operations[k], t)
                 THEN None ELSE operations[k]]

ScopeCounts(operations) ==
  [s \in Scope |-> Cardinality({k \in Live(operations) : ScopeOf[k] = s})]

-----------------------------------------------------------------------------
\* Loading: the snapshot, then the journal over it, last record of a key wins.

\* The chunks that begin a line: those after a terminated line.
LineStarts(journal) ==
  {i \in DOMAIN journal : i = 1 \/ journal[i - 1].part = "whole"}

\* Mutant: a torn last line is an error too.
EveryLineParses(journal) == \A i \in DOMAIN journal : journal[i].part # "torn"

\* A line that ends in a newline must be one record.
LinesParse(journal) ==
  \A i \in DOMAIN journal : journal[i].part = "whole" => i \in LineStarts(journal)

\* The records a load reads.  An unterminated last line counts when it is a
\* record that only lacks its newline, and is ignored otherwise.
Records(journal) ==
  {i \in LineStarts(journal) :
     \/ journal[i].part = "whole"
     \/ journal[i].part = "bare" /\ i = Len(journal)}

RecordsOf(journal, k) == {i \in Records(journal) : journal[i].key = k}

\* A record that contradicts what was loaded before it for its key.
Conflicts(image) ==
  \E k \in Key : \E i \in RecordsOf(image.journal, k) :
    \/ /\ image.snapshot[k] # None
       /\ image.snapshot[k].request # image.journal[i].op.request
    \/ \E j \in RecordsOf(image.journal, k) :
         image.journal[i].op.request # image.journal[j].op.request

Loaded(image) ==
  [k \in Key |-> LET own == RecordsOf(image.journal, k)
                 IN IF own = {} THEN image.snapshot[k]
                    ELSE image.journal[Max(own)].op]

\* load_records succeeds on both files.
Loads(image) ==
  /\ LinesParse(image.journal)
  /\ ~Conflicts(image)
  /\ Cardinality(Live(Loaded(image))) <= MaxOperations

-----------------------------------------------------------------------------
(* Fallible steps.  A step maps a result to the set of its possible        *)
(* results: [inner, disk, ok].  An error ends the operation at once and    *)
(* keeps what the steps before it changed (the ? operator).                *)

Then(results, Step(_)) ==
  UNION {IF r.ok THEN Step(r) ELSE {r} : r \in results}

Failed(r) == [r EXCEPT !.ok = FALSE]

\* What an append may leave in the file when it fails: nothing, a part of
\* the record, or a record that is not known to be synced.
Leftovers(journal, chunk) ==
  {journal} \cup {Append(journal, [chunk EXCEPT !.part = p]) : p \in Parts}

\* write_all, flush, sync_data.
WriteJournal(r, k, op) ==
  LET chunk == [key |-> k, op |-> op, part |-> "whole"]
      file  == Append(r.disk.seen.journal, chunk)
  IN {[r EXCEPT !.disk.seen.journal = file, !.disk.stable.journal = file,
                !.inner.journalBytes = @ + 1]}
     \cup {[Failed(r) EXCEPT !.disk.seen.journal = left] :
             left \in Leftovers(r.disk.seen.journal, chunk)}

Snapshots(d) == {d.stable.snapshot, d.seen.snapshot}

\* A synced temporary file renamed over the snapshot, then sync_directory.  The
\* rename that it hides may have reached the disk meanwhile.  It fails before
\* the rename or, where directories are synced, after it; elsewhere
\* sync_directory does nothing and the rename is not synced.
WriteSnapshot(r) ==
  LET new     == r.inner.operations
      Synced  == [r EXCEPT !.disk.seen.snapshot = new, !.disk.stable.snapshot = new]
      Renamed == {[r EXCEPT !.disk.seen.snapshot = new, !.disk.stable.snapshot = old] :
                    old \in Snapshots(r.disk)}
  IN {Failed(r)} \cup IF syncsDirectories
                      THEN {Synced} \cup {Failed(s) : s \in Renamed}
                      ELSE Renamed

\* set_len(0) and sync_all: fails before or after the truncation shows.  From
\* then on the snapshot that an unsynced rename replaced is stale.
TruncateJournal(r) ==
  LET shown == r.disk.seen.snapshot
      s == [r EXCEPT !.disk.seen.journal = <<>>,
                     !.disk.stable.snapshot = shown,
                     !.disk.stale = @ \cup (Snapshots(r.disk) \ {shown})]
  IN {[s EXCEPT !.disk.stable.journal = <<>>, !.inner.journalBytes = 0],
      Failed(r), Failed(s)}

\* Mutant: the journal is emptied before the snapshot is written.
CompactJournalFirst(r) == Then(TruncateJournal(r), WriteSnapshot)

Compact(r) == Then(WriteSnapshot(r), TruncateJournal)

MaybeCompact(r) ==
  IF r.inner.journalBytes >= CompactAt THEN Compact(r) ELSE {r}

\* Compacts first when the file limit is reached.  (A journal emptied by a
\* successful compaction always has room for one record.)
AppendRecord(r, k, op) ==
  Then(IF r.inner.journalBytes + 1 > MaxJournal THEN Compact(r) ELSE {r},
       LAMBDA s : WriteJournal(s, k, op))

\* Does nothing before the next deadline; then drops what expired from the
\* memory and compacts when that dropped something.
MaintainExpirations(r) ==
  IF now < r.inner.nextPruneAt THEN {r}
  ELSE LET kept   == PruneExpired(r.inner.operations, now)
           pruned == [r EXCEPT !.inner.operations = kept,
                               !.inner.scopeCounts = ScopeCounts(kept),
                               !.inner.nextPruneAt = NextExpiration(kept)]
       IN IF kept # r.inner.operations THEN Compact(pruned) ELSE {pruned}

\* The insertion after a record is on disk.
Remember(r, k, op) ==
  [r EXCEPT !.inner.operations[k] = op,
            !.inner.nextPruneAt = Min({@, Expiration(op)})]

\* One more operation of k's scope.
CountOne(r, k) ==
  LET counts == [r.inner.scopeCounts EXCEPT ![ScopeOf[k]] = @ + 1]
  IN [r EXCEPT !.inner.scopeCounts = counts]

Ready == [inner |-> inner, disk |-> disk, ok |-> TRUE]

Forgotten == [operations |-> Nothing, scopeCounts |-> [s \in Scope |-> 0],
              nextPruneAt |-> Never, journalBytes |-> 0]

\* An operation returns with result r; an error is counted.
Return(r) ==
  /\ inner' = r.inner
  /\ disk' = r.disk
  /\ errors' = IF r.ok THEN errors ELSE errors + 1
  /\ errors' <= MaxErrors
  /\ UNCHANGED <<syncsDirectories, restarts, undone>>

\* The process dies: the memory and its workflows are gone.
Die ==
  /\ restarts < MaxRestarts
  /\ restarts' = restarts + 1
  /\ phase' = "closed"
  /\ inner' = Forgotten
  /\ running' = {}
  /\ UNCHANGED <<syncsDirectories, errors>>

\* The process dies inside an operation, after the steps that led to r.
Interrupt(r) == Die /\ disk' = r.disk /\ UNCHANGED undone

-----------------------------------------------------------------------------
\* The operations of the ledger.

\* Mutant: one record more than the scope's capacity.
HasRoomForOneMore(i, k) ==
  /\ i.scopeCounts[ScopeOf[k]] <= MaxPerScope
  /\ Cardinality(Live(i.operations)) < MaxOperations

HasCapacity(i, k) ==
  /\ i.scopeCounts[ScopeOf[k]] < MaxPerScope
  /\ Cardinality(Live(i.operations)) < MaxOperations

\* begin of a key that is known (the answer is Indeterminate,
\* CompletedWithoutResult or a conflict) or that finds no room, or whose
\* maintenance failed; and status.  Only maintenance changes anything.
Consult ==
  /\ phase = "open"
  /\ now >= inner.nextPruneAt
  /\ \E m \in MaintainExpirations(Ready) :
       \/ Return(m) /\ UNCHANGED <<phase, running>>
       \/ Interrupt(m)
  /\ UNCHANGED <<now, promised>>

\* begin of an unknown key: append, insert, count, compact.  Started is
\* returned when all of it succeeded.
Begin(k, r) ==
  LET op == [request |-> r, state |-> "accepted", at |-> now]
      Insert(s) == MaybeCompact(CountOne(Remember(s, k, op), k))
  IN /\ phase = "open"
     /\ \E m \in MaintainExpirations(Ready) :
          /\ m.ok
          /\ m.inner.operations[k] = None
          /\ HasCapacity(m.inner, k)
          /\ \E b \in Then(AppendRecord(m, k, op), Insert) :
               \/ /\ Return(b)
                  /\ running' = IF b.ok THEN running \cup {<<k, r>>} ELSE running
                  /\ promised' = IF b.ok
                                 THEN [promised EXCEPT ![k] =
                                         [op |-> op, until |-> Expiration(op)]]
                                 ELSE promised
                  /\ UNCHANGED phase
               \/ Interrupt(b) /\ UNCHANGED promised
     /\ UNCHANGED now

\* complete by the workflow that was started.  A completion that was not
\* reported may still be found on disk, so it limits the promise to its own
\* retention.
Complete(k, r) ==
  LET op        == [request |-> r, state |-> "completed", at |-> now]
      Insert(s) == MaybeCompact(Remember(s, k, op))
      stored    == inner.operations[k]
      Limited   == [promised EXCEPT ![k].until = Min({@, Expiration(op)})]
  IN /\ phase = "open"
     /\ <<k, r>> \in running
     /\ stored # None /\ stored.request = r /\ stored.state = "accepted"
     /\ \E c \in Then(AppendRecord(Ready, k, op), Insert) :
          \/ /\ Return(c)
             /\ running' = running \ {<<k, r>>}
             /\ promised' = IF c.ok
                            THEN [promised EXCEPT ![k] =
                                    [op |-> op, until |-> Expiration(op)]]
                            ELSE Limited
             /\ UNCHANGED phase
          \/ Interrupt(c) /\ promised' = Limited
     /\ UNCHANGED now

\* complete of an operation that expired meanwhile (MissingAcceptedOperation),
\* was bound again (OperationConflict) or is already complete.
CompleteWithoutRecord(k, r) ==
  LET stored == inner.operations[k]
  IN /\ phase = "open"
     /\ <<k, r>> \in running
     /\ stored # None => stored.request # r \/ stored.state = "completed"
     /\ running' = running \ {<<k, r>>}
     /\ UNCHANGED <<syncsDirectories, phase, inner, disk, now, errors, restarts,
                    promised, undone>>

\* open: load, prune, write a fresh snapshot, empty the journal.  Any error
\* disables the ledger for the rest of the process.
Open ==
  LET kept  == PruneExpired(Loaded(disk.seen), now)
      start == [inner |-> [operations |-> kept, scopeCounts |-> ScopeCounts(kept),
                           nextPruneAt |-> NextExpiration(kept), journalBytes |-> 0],
                disk |-> disk, ok |-> TRUE]
  IN /\ phase = "closed"
     /\ Loads(disk.seen)
     /\ \E o \in Compact(start) :
          \/ /\ Return(IF o.ok THEN o ELSE [o EXCEPT !.inner = Forgotten])
             /\ phase' = IF o.ok THEN "open" ELSE "refused"
             /\ UNCHANGED running
          \/ Interrupt(o)
     /\ UNCHANGED <<now, promised>>

\* open finds a record that does not parse, a conflict or too many records.
Refuse ==
  /\ phase = "closed"
  /\ ~Loads(disk.seen)
  /\ phase' = "refused"
  /\ UNCHANGED <<syncsDirectories, inner, disk, now, errors, restarts, running,
                 promised, undone>>

-----------------------------------------------------------------------------
\* The environment: time, process crashes and power losses.

Tick ==
  /\ now < MaxTime
  /\ now' = now + 1
  /\ UNCHANGED <<syncsDirectories, phase, inner, disk, errors, restarts, running,
                 promised, undone>>

\* The process dies between two operations; the system keeps the files.
Crash == phase # "closed" /\ Die /\ UNCHANGED <<disk, now, promised, undone>>

\* A file whose last write was not synced may come back cut anywhere.
CutIn(journal, n, p) ==
  Append(SubSeq(journal, 1, n - 1), [journal[n] EXCEPT !.part = p])

Cuts(journal) ==
  {SubSeq(journal, 1, n) : n \in 0..Len(journal)} \cup
  {CutIn(journal, n, p) : n \in DOMAIN journal, p \in Parts}

\* The journals a power loss may leave: what is guaranteed, or what shows, cut
\* anywhere after the part of it that is guaranteed.
JournalImages(d) ==
  LET stable == d.stable.journal
      seen   == d.seen.journal
  IN {stable} \cup IF IsPrefix(stable, seen)
                   THEN {j \in Cuts(seen) : IsPrefix(stable, j)}
                   ELSE Cuts(seen)

AfterPowerLoss == [snapshot : Snapshots(disk), journal : JournalImages(disk)]

\* The disk as it is when the system starts again.
Settled(image) == [seen |-> image, stable |-> image, stale |-> {}]

PowerLoss ==
  /\ \E image \in AfterPowerLoss : disk' = Settled(image)
  /\ Die
  /\ UNCHANGED <<now, promised, undone>>

\* A power loss after which an earlier snapshot is back, without its journal.
LoseRename ==
  /\ \E image \in [snapshot : disk.stale, journal : JournalImages(disk)] :
       disk' = Settled(image)
  /\ undone' = TRUE
  /\ Die
  /\ UNCHANGED <<now, promised>>

-----------------------------------------------------------------------------
Init ==
  /\ syncsDirectories \in BOOLEAN
  /\ phase = "closed"
  /\ inner = Forgotten
  /\ disk = Settled(Empty)
  /\ now = 0
  /\ errors = 0
  /\ restarts = 0
  /\ running = {}
  /\ promised = Nothing
  /\ undone = FALSE

Next ==
  \/ Open \/ Refuse
  \/ \E k \in Key, r \in Request :
       Begin(k, r) \/ Complete(k, r) \/ CompleteWithoutRecord(k, r)
  \/ Consult
  \/ Tick \/ Crash \/ PowerLoss \/ LoseRename

Spec == Init /\ [][Next]_vars

-----------------------------------------------------------------------------
Operations == [Key -> Stored \cup {None}]
Image == [snapshot : Operations, journal : Seq(Chunk)]
Disk == [seen : Image, stable : Image, stale : SUBSET Operations]
Memory == [operations : Operations, scopeCounts : [Scope -> Nat], nextPruneAt : Nat,
           journalBytes : 0..MaxJournal]
Promised == [op : Stored, until : Nat]

\* Type correctness of the ledger's memory, its files and the history.
TypeOK ==
  /\ syncsDirectories \in BOOLEAN /\ undone \in BOOLEAN
  /\ phase \in {"closed", "open", "refused"}
  /\ inner \in Memory /\ disk \in Disk
  /\ now \in 0..MaxTime /\ errors \in 0..MaxErrors /\ restarts \in 0..MaxRestarts
  /\ running \subseteq Key \X Request
  /\ promised \in [Key -> Promised \cup {None}]

\* begin or complete reported success, the retention is not over, and no power
\* loss has undone a rename.
Owed(p) == p # None /\ now < p.until /\ ~undone

\* The evidence a caller was promised for k is among the operations.
Kept(operations, k) ==
  Owed(promised[k]) =>
    /\ operations[k] # None
    /\ operations[k].request = promised[k].op.request
    /\ promised[k].op.state = "completed" => operations[k].state = "completed"

\* Every image of the files a crash or a power loss can leave now.
AfterRestart == AfterPowerLoss \cup {disk.seen}

\* A rename is undone only where directories are not synced (sync_directory).
RenamesLast == syncsDirectories => disk.stale = {} /\ ~undone

\* Evidence survives: whatever the next crash or power loss leaves on disk,
\* and whatever I/O errors happened before, a restart either refuses the
\* ledger or finds the evidence of every started operation and the
\* completion of every completed one (begin, complete, load_records).  A
\* power loss that undoes a rename is excepted.
EvidenceSurvives ==
  \A image \in AfterRestart : Loads(image) =>
    \A k \in Key : Kept(PruneExpired(Loaded(image), now), k)

\* The running process never forgets evidence it promised, although a failed
\* compaction, a failed append or a prune may have ended an operation early.
EvidenceInMemory ==
  phase = "open" => \A k \in Key : Kept(inner.operations, k)

\* Crashes and power losses alone, at any step of any operation, never make
\* the ledger unreadable: only an I/O error reported to a live process or an
\* undone rename can.
CrashesAreRecoverable ==
  errors = 0 /\ ~undone => \A image \in AfterRestart : Loads(image)

\* The deadline that lets begin and status skip the scan is never later than
\* the first expiration, so an expired operation never answers for its key.
DeadlineIsSound ==
  phase = "open" =>
    \A k \in Live(inner.operations) :
      inner.nextPruneAt <= Expiration(inner.operations[k])

\* The counters begin increments agree with a recount, and neither a scope
\* nor the ledger holds more than its capacity, so no scope takes the room of
\* another (no I/O error has happened: a record whose append failed is found,
\* and counted, after a restart).
CapacityIsIsolated ==
  phase = "open" =>
    /\ inner.scopeCounts = ScopeCounts(inner.operations)
    /\ errors = 0 /\ ~undone =>
                     /\ \A s \in Scope : inner.scopeCounts[s] <= MaxPerScope
                     /\ Cardinality(Live(inner.operations)) <= MaxOperations

\* The abstract promise.  begin reports Started only for a key that owes
\* nothing, and what is owed ends only with its retention: there is no replay
\* across any crashes, I/O errors and power losses, until one undoes a rename.
Promise == INSTANCE AtMostOnce WITH
  owed <- [k \in Key |->
             IF ~Owed(promised[k]) THEN "free"
             ELSE IF promised[k].op.state = "accepted" THEN "started"
             ELSE "completed"]

StartsAtMostOnce == Promise!Spec

\* What begin and complete promised is found again, by the running process and
\* by every start that accepts the ledger: where directories are synced after
\* every crash and power loss, elsewhere after all that undo no rename.
EvidenceIsKept == TypeOK /\ RenamesLast /\ EvidenceSurvives /\ EvidenceInMemory

\* A start after a crash or a power loss reads the ledger, and neither it nor
\* the running process lets an operation answer beyond its retention.
RecoveryIsSound == CrashesAreRecoverable /\ DeadlineIsSound

-----------------------------------------------------------------------------
(* The strengthening of these invariants that every step preserves.  It is *)
(* stated of a disk, a memory and the promises, because it also holds      *)
(* between the steps of an operation.                                      *)

\* An operation that is the evidence of a promise for as long as it is owed.
Supports(p, op) ==
  Owed(p) =>
    /\ op # None
    /\ op.request = p.op.request
    /\ p.op.state = "completed" => op.state = "completed"
    /\ p.until <= Expiration(op)

\* The last of the records of a key in R supports its promise; when there is
\* none, every snapshot does.
FoundIn(P, R, journal, snapshots) ==
  \A k \in Key :
    LET own == {i \in R : journal[i].key = k}
    IN /\ own = {} => \A S \in snapshots : Supports(P[k], S[k])
       /\ \A i \in own : (\A h \in own : h <= i) => Supports(P[k], journal[i].op)

\* Whatever a crash or a power loss leaves, if its lines parse.
FilesHold(P, d) ==
  \A j \in JournalImages(d) : LinesParse(j) => FoundIn(P, Records(j), j, Snapshots(d))

\* The same without a tail that lacks its newline: what an append hides.
Wholes(journal) == {i \in LineStarts(journal) : journal[i].part = "whole"}

WholesHold(P, d) ==
  \A j \in JournalImages(d) : LinesParse(j) => FoundIn(P, Wholes(j), j, Snapshots(d))

MemoryHolds(P, operations) == \A k \in Key : Supports(P[k], operations[k])

CountsAreExact(i) == i.scopeCounts = ScopeCounts(i.operations)

DeadlineHolds(i) ==
  \A k \in Live(i.operations) : i.nextPruneAt <= Expiration(i.operations[k])

\* The operations that a file has of a key, wherever it has them.
MentionedIn(image, k) ==
  ({image.snapshot[k]} \ {None}) \cup
  {image.journal[i].op : i \in {h \in DOMAIN image.journal : image.journal[h].key = k}}

Mentioned(d, k) == MentionedIn(d.seen, k) \cup MentionedIn(d.stable, k)

KeysOf(d) == {k \in Key : Mentioned(d, k) # {}}

Journals(d) == {d.stable.journal, d.seen.journal}

Fits(keys) ==
  /\ Cardinality(keys) <= MaxOperations
  /\ \A s \in Scope : Cardinality({k \in keys : ScopeOf[k] = s}) <= MaxPerScope

\* Files that no I/O error has touched: only a last record may be unfinished,
\* the requests of a key agree and the keys fit.
CleanFiles(d) ==
  /\ \A j \in Journals(d) : \A i \in 1..(Len(j) - 1) : j[i].part = "whole"
  /\ \A k \in Key : \A op1, op2 \in Mentioned(d, k) : op1.request = op2.request
  /\ Fits(KeysOf(d))

\* While the ledger is open they have only operations of the memory.
Covers(operations, d) ==
  \A k \in Key : \A op \in Mentioned(d, k) :
    operations[k] # None /\ op.request = operations[k].request

CleanRun(operations, d) ==
  /\ \A j \in Journals(d) : \A i \in DOMAIN j : j[i].part = "whole"
  /\ Covers(operations, d)
  /\ Fits(Live(operations))

OpenIsSound ==
  phase = "open" =>
    /\ MemoryHolds(promised, inner.operations)
    /\ WholesHold(promised, disk)
    /\ CountsAreExact(inner) /\ DeadlineHolds(inner)
    /\ errors = 0 /\ ~undone => CleanRun(inner.operations, disk)

IInv ==
  /\ TypeOK
  /\ \A w \in running : promised[w[1]] # None
  /\ FilesHold(promised, disk)
  /\ errors = 0 /\ ~undone => CleanFiles(disk) /\ phase # "refused"
  /\ RenamesLast
  /\ OpenIsSound

=============================================================================
