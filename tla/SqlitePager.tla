----------------------------- MODULE SqlitePager -----------------------------
(***************************************************************************)
(* The pager of the vendored sqlite 3.5.0, which the sqlite subscription   *)
(* manager rests on: connections of several processes, or of threads of    *)
(* one, to one file, the five-level file lock, the rollback journal with   *)
(* its two syncs, the recovery of a journal somebody left behind ("hot"),  *)
(* and the page cache that is checked by the change counter in the first   *)
(* page.                                                                   *)
(*                                                                         *)
(* The file and the journal are modelled twice: as processes see them, and *)
(* as the set of contents the disk may hold after a loss of power.  A      *)
(* database that exists with its pages is modelled, so the branches for an *)
(* empty file are left out, and so are the spilling of a full cache within *)
(* a transaction, statement and master journals, and exclusive mode.       *)
(***************************************************************************)
EXTENDS Naturals, FiniteSets

CONSTANTS
  Proc,        \* connections, each used by one thread
  Process,     \* the process each connection is in
  Page,        \* the pages of the file
  Head,        \* the first page, with the change counter
  Value,       \* what another page can hold
  NoContent,   \* a page that is not cached, or not in the journal
  NoJournal,   \* there is no journal file
  Kept,        \* the pages a connection may have cached when it locks again
  MaxCounter,  \* bound: the change counter's last value
  Faults       \* which may happen: "crash" of a process, "power" loss, "io" error

ASSUME PagerAssumption ==
  /\ Head \in Page
  /\ Kept \subseteq Page
  /\ MaxCounter \in Nat
  /\ NoContent \notin Nat \cup Value
  /\ Faults \subseteq {"crash", "power", "io"}

Content == (0..MaxCounter) \cup Value
Maybe   == Content \cup {NoContent}

\* The records of original pages; nRec of the header is written, not 0.
Journal == [rec : [Page -> Maybe], counted : BOOLEAN]

ASSUME NoJournalAssumption == NoJournal \notin Journal

VARIABLES
  file,     \* the pages as the operating system shows them
  disk,     \* for each page, the contents the disk may hold
  journal,  \* the journal file as the operating system shows it
  jdisk,    \* the journal files the disk may hold
  lock,     \* the lock of each connection
  pc,       \* where it is
  cache,    \* its pages in memory
  dirty,    \* those it has changed in its transaction
  todo,     \* those it has still to write, or to play back
  unsynced  \* a recovery has ended, and the file was not synced since

pages    == <<file, disk>>
journals == <<journal, jdisk>>
vars     == <<pages, journals, lock, pc, cache, dirty, todo, unsynced>>

\* PENDING without RESERVED is what a recovery that had to give up has.
Lock == {"none", "shared", "reserved", "pendingOnly", "pending", "exclusive"}
PC == {"idle", "checkJournal", "checkReserved", "recover", "giveUp", "reopen", "playback",
       "validate", "read", "openJournal", "modify", "sync", "count", "lock", "write", "synced",
       "end"}

TypeOK ==
  /\ file    \in [Page -> Content]
  /\ disk    \in [Page -> SUBSET Content]
  /\ journal \in Journal \cup {NoJournal}
  /\ jdisk   \subseteq Journal \cup {NoJournal}
  /\ lock    \in [Proc -> Lock]
  /\ pc      \in [Proc -> PC]
  /\ cache   \in [Proc -> [Page -> Maybe]]
  /\ dirty   \in [Proc -> SUBSET Page]
  /\ todo    \in [Proc -> SUBSET Page]
  /\ unsynced \in BOOLEAN

Nothing == [pg \in Page |-> NoContent]
Fresh   == [rec |-> Nothing, counted |-> FALSE]

Init ==
  /\ file \in [Page -> Value \cup {0}]
  /\ \A pg \in Page : file[pg] = 0 <=> pg = Head
  /\ disk    = [pg \in Page |-> {file[pg]}]
  /\ journal = NoJournal
  /\ jdisk   = {NoJournal}
  /\ lock    = [p \in Proc |-> "none"]
  /\ pc      = [p \in Proc |-> "idle"]
  /\ cache   = [p \in Proc |-> Nothing]
  /\ dirty   = [p \in Proc |-> {}]
  /\ todo    = [p \in Proc |-> {}]
  /\ unsynced = FALSE

-----------------------------------------------------------------------------
(* Helpers.                                                                *)

Others(p) == Proc \ {p}

\* The kernel's locks belong to a process.  Its threads share a lockInfo with
\* the highest lock any of them has and the number of those that have one.
Threads(p)  == {q \in Proc : Process[q] = Process[p]}
Siblings(p) == Threads(p) \ {p}
Foreign(p)  == Proc \ Threads(p)

\* The locks that have the PENDING byte, and those that have the RESERVED byte.
PendingByte  == {"pendingOnly", "pending", "exclusive"}
ReservedByte == {"reserved", "pending", "exclusive"}

\* unixLock, SHARED: along with a sibling that has it; or else a read lock on the
\* PENDING byte, then on the shared range.
CanRead(p) ==
  /\ \A q \in Siblings(p) : lock[q] \notin PendingByte
  /\ \/ \E q \in Siblings(p) : lock[q] # "none"
     \/ \A q \in Foreign(p) : lock[q] \notin PendingByte

\* RESERVED: no sibling has more than SHARED; a write lock on the RESERVED byte.
CanReserve(p) ==
  /\ \A q \in Siblings(p) : lock[q] \in {"none", "shared"}
  /\ \A q \in Foreign(p) : lock[q] \notin ReservedByte

\* EXCLUSIVE: no sibling has more than the process itself; a write lock on the
\* PENDING byte, which is kept if the next step fails ...
CanPend(p) ==
  /\ \A q \in Siblings(p) : lock[q] \in {"none", "shared"}
  /\ \A q \in Foreign(p) : lock[q] \notin PendingByte

\* ... no sibling left; and a write lock on the shared range, of which every
\* other lock reads a part.
PendingAlone(p) == \A q \in Others(p) : lock[q] \notin PendingByte
CanExclude(p) == \A q \in Others(p) : lock[q] = "none"

Goto(p, label)      == pc' = [pc EXCEPT ![p] = label]
SetLock(p, l)       == lock' = [lock EXCEPT ![p] = l]

Cached(p)   == {pg \in Page : cache[p][pg] # NoContent}
Recorded(j) == {pg \in Page : j.rec[pg] # NoContent}

\* The pages a hot journal brings back: none while its header says nRec = 0.
PlayedByPage(j) == IF j # NoJournal /\ j.counted THEN Page ELSE {}
Played(j) == IF j # NoJournal /\ j.counted THEN Recorded(j) ELSE {}

\* What the file holds once the journal is played back.
Recovered(f, j) == [pg \in Page |-> IF pg \in Played(j) THEN j.rec[pg] ELSE f[pg]]

\* A page is written; the disk may or may not have it at once.
Put(pg, c) ==
  /\ file' = [file EXCEPT ![pg] = c]
  /\ disk' = [disk EXCEPT ![pg] = @ \cup {c}]

\* The journal file is written, created or deleted; without a sync of the file
\* and of its directory the disk may show any earlier one.  The records of one
\* that is not counted do not matter there.
OnDisk(j)      == IF j # NoJournal /\ ~j.counted THEN Fresh ELSE j
PutJournal(j)  == journal' = j /\ jdisk' = jdisk \cup {OnDisk(j)}
SyncJournal(j) == journal' = j /\ jdisk' = {OnDisk(j)}

-----------------------------------------------------------------------------
(* pagerSharedLock: the lock, then the journal of a writer that is gone,    *)
(* then the cache.                                                          *)

GetShared(p) ==
  /\ pc[p] = "idle"
  /\ CanRead(p)
  /\ SetLock(p, "shared")
  /\ Goto(p, "checkJournal")
  /\ UNCHANGED <<pages, journals, cache, dirty, todo, unsynced>>

\* hasHotJournal, first half: is there a journal?
CheckJournal(p) ==
  /\ pc[p] = "checkJournal"
  /\ Goto(p, IF journal = NoJournal THEN "validate" ELSE "checkReserved")
  /\ UNCHANGED <<pages, journals, lock, cache, dirty, todo, unsynced>>

\* hasHotJournal, second half: does a writer that is alive own it?  For threads
\* of the same process any lock above SHARED is taken for RESERVED.
Owned(p) ==
  \/ \E q \in Siblings(p) : lock[q] \in PendingByte \cup ReservedByte
  \/ \E q \in Foreign(p) : lock[q] \in ReservedByte

CheckReserved(p) ==
  /\ pc[p] = "checkReserved"
  /\ Goto(p, IF Owned(p) THEN "validate" ELSE "recover")
  /\ UNCHANGED <<pages, journals, lock, cache, dirty, todo, unsynced>>

\* EXCLUSIVE without RESERVED, so that nobody takes the recovery for a writer.
\* If it cannot be had at once, SQLITE_BUSY: with PENDING, if that could be had.
LockToRecover(p) ==
  /\ pc[p] = "recover"
  /\ \/ CanExclude(p) /\ SetLock(p, "exclusive") /\ Goto(p, "reopen")
     \/ ~CanExclude(p) /\ CanPend(p) /\ SetLock(p, "pendingOnly") /\ Goto(p, "giveUp")
     \/ ~CanPend(p) /\ SetLock(p, "none") /\ Goto(p, "idle")
  /\ UNCHANGED <<pages, journals, cache, dirty, todo, unsynced>>

\* pager_unlock, after the recovery could not lock the file.
GiveUp(p) ==
  /\ pc[p] = "giveUp"
  /\ SetLock(p, "none")
  /\ Goto(p, "idle")
  /\ UNCHANGED <<pages, journals, cache, dirty, todo, unsynced>>

\* The journal may be gone by now: SQLITE_BUSY too.
OpenHotJournal(p) ==
  /\ pc[p] = "reopen"
  /\ \/ /\ journal = NoJournal
        /\ SetLock(p, "none") /\ Goto(p, "idle")
        /\ UNCHANGED todo
     \/ /\ journal # NoJournal
        /\ todo' = [todo EXCEPT ![p] = Played(journal)]
        /\ Goto(p, "playback")
        /\ UNCHANGED lock
  /\ UNCHANGED <<pages, journals, cache, dirty, unsynced>>

\* pager_playback_one_page: the file, and the page in the cache if it is there.
PlayBack(p, pg) ==
  /\ pc[p] = "playback"
  /\ pg \in todo[p]
  /\ Put(pg, journal.rec[pg])
  /\ cache' = [cache EXCEPT ![p][pg] = IF @ = NoContent THEN @ ELSE journal.rec[pg]]
  /\ todo'  = [todo EXCEPT ![p] = @ \ {pg}]
  /\ UNCHANGED <<journals, lock, pc, dirty, unsynced>>

\* pager_end_transaction: the journal is deleted, then the lock is lowered.
\* The file has not been synced.
EndPlayback(p) ==
  /\ pc[p] = "playback"
  /\ todo[p] = {}
  /\ PutJournal(NoJournal)
  /\ SetLock(p, "shared")
  /\ Goto(p, IF dirty[p] = {} THEN "validate" ELSE "end")
  /\ dirty' = [dirty EXCEPT ![p] = {}]
  /\ unsynced' = (unsynced \/ \E pg \in Page : disk[pg] # {file[pg]})
  /\ UNCHANGED <<pages, cache, todo>>

\* The cache is dropped if the change counter in the file is not the one it
\* was read with.  Then lockBtree reads the first page.
CacheKept(p)  == cache[p]
CacheValid(p) == IF cache[p][Head] = file[Head] THEN cache[p] ELSE Nothing

Validate(p) ==
  /\ pc[p] = "validate"
  /\ cache' = [cache EXCEPT ![p] = [CacheValid(p) EXCEPT ![Head] = IF @ = NoContent THEN file[Head] ELSE @]]
  /\ Goto(p, "read")
  /\ UNCHANGED <<pages, journals, lock, dirty, todo, unsynced>>

-----------------------------------------------------------------------------
(* A transaction.                                                           *)

ReadPage(p, pg) ==
  /\ pc[p] = "read"
  /\ cache[p][pg] = NoContent
  /\ cache' = [cache EXCEPT ![p][pg] = file[pg]]
  /\ UNCHANGED <<pages, journals, lock, pc, dirty, todo, unsynced>>

\* The last page is given back.  The cache stays with the connection: between
\* the preparation of a statement and its first step that is what the schema
\* needs; then the connection is closed.
Unlock(p) ==
  /\ pc[p] \in {"read", "end"}
  /\ SetLock(p, "none")
  /\ Goto(p, "idle")
  /\ cache' = [cache EXCEPT ![p] = IF Cached(p) \subseteq Kept THEN @ ELSE Nothing]
  /\ UNCHANGED <<pages, journals, dirty, todo, unsynced>>

Close(p) ==
  /\ pc[p] = "idle"
  /\ Cached(p) # {}
  /\ cache' = [cache EXCEPT ![p] = Nothing]
  /\ UNCHANGED <<pages, journals, lock, pc, dirty, todo, unsynced>>

\* sqlite3PagerBegin: RESERVED, then a journal of its own, which must not
\* exist yet.
Reserve(p) ==
  /\ pc[p] = "read"
  /\ CanReserve(p)
  /\ SetLock(p, "reserved")
  /\ Goto(p, "openJournal")
  /\ UNCHANGED <<pages, journals, cache, dirty, todo, unsynced>>

OpenJournal(p) ==
  /\ pc[p] = "openJournal"
  /\ \/ journal = NoJournal /\ PutJournal(Fresh) /\ Goto(p, "modify") /\ UNCHANGED lock
     \/ journal # NoJournal /\ SetLock(p, "shared") /\ Goto(p, "end") /\ UNCHANGED journals
  /\ UNCHANGED <<pages, cache, dirty, todo, unsynced>>

\* pager_write: the original goes to the journal before the page is changed.
\* The file is not touched.  What the first page holds besides its counter is
\* not told apart.
WriteCache(p, pg, c) ==
  /\ PutJournal([journal EXCEPT !.rec[pg] = IF @ = NoContent THEN cache[p][pg] ELSE @])
  /\ cache' = [cache EXCEPT ![p][pg] = c]
  /\ dirty' = [dirty EXCEPT ![p] = @ \cup {pg}]

Modify(p, pg, v) ==
  /\ pc[p] = "modify"
  /\ pg \in Cached(p)
  /\ WriteCache(p, pg, IF pg = Head THEN cache[p][Head] ELSE v)
  /\ UNCHANGED <<pages, lock, pc, todo, unsynced>>

\* sqlite3PagerCommitPhaseOne: the change counter, the syncs of the journal, the
\* lock, the pages, the sync of the file.  A commit that was busy is repeated
\* from the lock on.
IncrChangeCounter(p) ==
  /\ pc[p] = "modify"
  /\ dirty[p] # {}
  /\ cache[p][Head] < MaxCounter
  /\ WriteCache(p, Head, cache[p][Head] + 1)
  /\ Goto(p, "sync")
  /\ UNCHANGED <<pages, lock, todo, unsynced>>

SyncRecords(p) ==
  /\ pc[p] = "sync"
  /\ SyncJournal(journal)
  /\ Goto(p, "count")
  /\ UNCHANGED <<pages, lock, cache, dirty, todo, unsynced>>

CountUnsynced(p) ==
  /\ pc[p] = "count"
  /\ PutJournal([journal EXCEPT !.counted = TRUE])
  /\ Goto(p, "lock")
  /\ UNCHANGED <<pages, lock, cache, dirty, todo, unsynced>>
CountRecords(p) ==
  /\ pc[p] = "count"
  /\ SyncJournal([journal EXCEPT !.counted = TRUE])
  /\ Goto(p, "lock")
  /\ UNCHANGED <<pages, lock, cache, dirty, todo, unsynced>>

\* pager_wait_on_lock: PENDING is kept while readers are left.
LockToWrite(p) ==
  /\ pc[p] = "lock"
  /\ \/ /\ CanExclude(p)
        /\ SetLock(p, "exclusive")
        /\ Goto(p, "write")
        /\ todo' = [todo EXCEPT ![p] = dirty[p]]
     \/ /\ ~CanExclude(p) /\ CanPend(p)
        /\ SetLock(p, "pending")
        /\ UNCHANGED <<pc, todo>>
  /\ UNCHANGED <<pages, journals, cache, dirty, unsynced>>

WritePage(p, pg) ==
  /\ pc[p] = "write"
  /\ pg \in todo[p]
  /\ Put(pg, cache[p][pg])
  /\ todo' = [todo EXCEPT ![p] = @ \ {pg}]
  /\ UNCHANGED <<journals, lock, pc, cache, dirty, unsynced>>

SyncFile(p) ==
  /\ pc[p] = "write"
  /\ todo[p] = {}
  /\ disk' = [pg \in Page |-> {file[pg]}]
  /\ Goto(p, "synced")
  /\ unsynced' = FALSE
  /\ UNCHANGED <<file, journals, lock, cache, dirty, todo>>

\* sqlite3PagerCommitPhaseTwo: the commit is the deletion of the journal.
Commit(p) ==
  /\ pc[p] = "synced"
  /\ PutJournal(NoJournal)
  /\ SetLock(p, "shared")
  /\ Goto(p, "end")
  /\ dirty' = [dirty EXCEPT ![p] = {}]
  /\ UNCHANGED <<pages, cache, todo, unsynced>>

\* sqlite3PagerRollback while the file is as it was: the cache alone is
\* restored from the journal.
RollbackCache(p) ==
  /\ pc[p] \in {"modify", "sync", "count", "lock"}
  /\ cache' = [cache EXCEPT ![p] =
                 [pg \in Page |-> IF pg \in dirty[p] THEN journal.rec[pg] ELSE @[pg]]]
  /\ dirty' = [dirty EXCEPT ![p] = {}]
  /\ PutJournal(NoJournal)
  /\ SetLock(p, "shared")
  /\ Goto(p, "end")
  /\ UNCHANGED <<pages, todo, unsynced>>

\* ... and after an error in the middle of the writing.
RollbackFile(p) ==
  /\ "io" \in Faults
  /\ pc[p] \in {"write", "synced"}
  /\ todo' = [todo EXCEPT ![p] = Played(journal)]
  /\ Goto(p, "playback")
  /\ UNCHANGED <<pages, journals, lock, cache, dirty, unsynced>>

-----------------------------------------------------------------------------

\* Connections are gone: without a lock, without a cache.
Gone(dead) ==
  /\ lock'  = [q \in Proc |-> IF q \in dead THEN "none" ELSE lock[q]]
  /\ pc'    = [q \in Proc |-> IF q \in dead THEN "idle" ELSE pc[q]]
  /\ cache' = [q \in Proc |-> IF q \in dead THEN Nothing ELSE cache[q]]
  /\ dirty' = [q \in Proc |-> IF q \in dead THEN {} ELSE dirty[q]]
  /\ todo'  = [q \in Proc |-> IF q \in dead THEN {} ELSE todo[q]]

\* A process dies with all its threads; the file and the journal stay.
Crash(p) ==
  /\ "crash" \in Faults
  /\ pc[p] # "idle"
  /\ Gone(Threads(p))
  /\ UNCHANGED <<pages, journals, unsynced>>

\* The power fails: all processes are gone, and what the disk holds shows.
\* Bound: not between a recovery and the next sync of the file.
PowerLoss ==
  /\ "power" \in Faults
  /\ ~unsynced
  /\ file' \in {f \in [Page -> UNION {disk[pg] : pg \in Page}] : \A pg \in Page : f[pg] \in disk[pg]}
  /\ disk' = [pg \in Page |-> {file'[pg]}]
  /\ journal' \in jdisk
  /\ jdisk' = {journal'}
  /\ Gone(Proc)
  /\ UNCHANGED unsynced

Step(p) ==
  \/ GetShared(p) \/ CheckJournal(p) \/ CheckReserved(p)
  \/ LockToRecover(p) \/ GiveUp(p) \/ OpenHotJournal(p)
  \/ \E pg \in Page : PlayBack(p, pg) \/ ReadPage(p, pg) \/ WritePage(p, pg)
  \/ EndPlayback(p) \/ Validate(p) \/ Unlock(p) \/ Close(p)
  \/ Reserve(p) \/ OpenJournal(p)
  \/ \E pg \in Page, v \in Value : Modify(p, pg, v)
  \/ IncrChangeCounter(p) \/ SyncRecords(p) \/ CountRecords(p)
  \/ LockToWrite(p) \/ SyncFile(p) \/ Commit(p)
  \/ RollbackCache(p) \/ RollbackFile(p)

Next == (\E p \in Proc : Step(p) \/ Crash(p)) \/ PowerLoss

Spec == Init /\ [][Next]_vars

-----------------------------------------------------------------------------
(* What must hold.                                                          *)

\* The journal has one user: a writer that fills it, or a process that plays it
\* back (sqlite3.c:22163 "there is never any chance of two or more processes
\* opening the journal at the same time"), though its existence and its owner
\* are looked at one after the other.
UsesJournal(p) == pc[p] \in {"modify", "sync", "count", "lock", "write", "synced", "playback"}
OneJournalUser == \A p, q \in Proc : UsesJournal(p) /\ UsesJournal(q) => p = q

\* Between its lock and its unlock a connection sees the committed pages and its
\* own changes, those it had cached before included: no half of a commit, none
\* that was rolled back, none that is older.
Reading(p) == pc[p] \in {"read", "openJournal", "modify", "sync", "count", "lock", "write",
                         "synced", "end"}
CacheIsCurrent ==
  \A p \in Proc : Reading(p) =>
    \A pg \in Cached(p) \ dirty[p] : cache[p][pg] = Recovered(file, journal)[pg]

\* The states of the file a loss of power would leave.
Survivors == {Recovered(f, j) :
    f \in {g \in [Page -> UNION {disk[pg] : pg \in Page}] : \A pg \in Page : g[pg] \in disk[pg]},
    j \in jdisk}

\* The refinement mapping: what the file holds once its journal is played back,
\* what a loss of power would leave of it, and what a transaction has read.
Db      == Recovered(file, journal)
Remains == IF unsynced THEN {Db} ELSE Survivors
View    == [p \in Proc |-> IF Reading(p) THEN cache[p] ELSE Nothing]

Atomic == INSTANCE AtomicFile WITH data <- Db, kept <- Remains, view <- View

\* Whichever connections share a process, and whichever of them die, the pages
\* change by a commit, all of them at once, or by a loss of power.  What that
\* would leave is the pages before the last commit or after it, and once the
\* next transaction has synced its journal no longer those before.
CommitIsAtomic ==
  [][\/ Db' = Db /\ Remains' \in {Remains, {Db}}
     \/ \E p \in Proc : Commit(p) /\ Db' = Atomic!Over(Db, cache[p]) /\ Remains' = {Db, Db'}
     \/ PowerLoss /\ Db' \in Remains /\ Remains' = {Db'}]_vars

\* A commit is one step for everybody, whichever process crashes where and
\* wherever the power fails: what is committed is what the file would hold
\* if the journal that is there were played back.
ImplementsAtomicFile == Atomic!Spec

=============================================================================
