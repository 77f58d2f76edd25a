------------------------- MODULE SqlitePager_proofs --------------------------
(***************************************************************************)
(* Proofs about the pager, for any number of connections, pages and        *)
(* contents, through crashes and losses of power.  For connections of any  *)
(* processes: the file lock keeps writers and recoveries apart, and a      *)
(* commit is atomic.  For one connection in each process, or where no      *)
(* process dies: what a connection reads is committed, and the file with   *)
(* its journal implements AtomicFile.                                      *)
(***************************************************************************)
EXTENDS SqlitePager, TLAPS

Counter == 0..MaxCounter

\* The first page holds a counter, wherever a copy of it is.
HeadInv ==
  /\ file[Head] \in Counter
  /\ disk[Head] \subseteq Counter
  /\ journal # NoJournal => journal.rec[Head] \in Counter \cup {NoContent}
  /\ \A j \in jdisk : j # NoJournal => j.rec[Head] \in Counter \cup {NoContent}
  /\ \A p \in Proc : cache[p][Head] \in Counter \cup {NoContent}

TypeInv == TypeOK /\ HeadInv

-----------------------------------------------------------------------------

Filling == {"modify", "sync", "count", "lock"}
Writing == Filling \cup {"write", "synced"}
Waiting == {"idle", "checkJournal", "checkReserved", "recover", "giveUp", "reopen", "playback",
            "validate"}

\* The lock each place in the code has.
Place(label, l) ==
  /\ label = "idle" => l = "none"
  /\ label \in {"checkJournal", "checkReserved", "recover", "validate", "read", "end"} => l = "shared"
  /\ label = "giveUp" => l = "pendingOnly"
  /\ label \in {"reopen", "playback", "write", "synced"} => l = "exclusive"
  /\ label \in {"openJournal", "modify", "sync", "count"} => l = "reserved"
  /\ label = "lock" => l \in {"reserved", "pending"}

Compatible(l, m) ==
  /\ ~(l \in ReservedByte /\ m \in ReservedByte)
  /\ l = "exclusive" => m = "none"
  /\ m = "exclusive" => l = "none"

LockInv ==
  /\ \A p \in Proc : Place(pc[p], lock[p])
  /\ \A p, q \in Proc : p # q => Compatible(lock[p], lock[q])

\* What there is to work on at each place: a journal, records of the pages that
\* were changed, and the first page in the cache.
Holds(p) ==
  /\ UsesJournal(p) => journal # NoJournal
  /\ pc[p] \in Writing => dirty[p] = Recorded(journal)
  /\ pc[p] \notin Writing \cup {"playback"} => dirty[p] = {}
  /\ pc[p] \in {"write", "synced"} => todo[p] \subseteq dirty[p]
  /\ pc[p] = "playback" => todo[p] \subseteq Played(journal)
  /\ dirty[p] \subseteq Cached(p)
  /\ Reading(p) \/ dirty[p] # {} => Head \in Cached(p)

BaseInv == TypeInv /\ LockInv /\ \A p \in Proc : Holds(p)

\* What a process knows of the journal and of the file.
Owns(p) ==
  /\ pc[p] \in {"modify", "sync", "count"} => ~journal.counted
  /\ pc[p] \in {"lock", "write", "synced"} => journal.counted
  /\ pc[p] \in Writing \ {"modify"} => Head \in dirty[p]
  /\ pc[p] \in Filling => \A pg \in dirty[p] : journal.rec[pg] = file[pg]
  /\ pc[p] \in {"write", "synced"} =>
       \A pg \in dirty[p] \ todo[p] : file[pg] = cache[p][pg]
  /\ pc[p] = "synced" => todo[p] = {}
  /\ pc[p] = "playback" =>
       /\ \A pg \in Played(journal) \ todo[p] : file[pg] = journal.rec[pg]
       /\ dirty[p] # {} => /\ journal.counted /\ dirty[p] = Recorded(journal)
                           /\ \A pg \in Cached(p) \ todo[p] : cache[p][pg] = Db[pg]

\* What its cache is worth: nobody writes the file while it has a lock.
Sees(p) ==
  /\ pc[p] \notin {"write", "synced", "playback"} => todo[p] = {}
  /\ pc[p] \in Waiting /\ dirty[p] = {} => Cached(p) \subseteq Kept
  /\ Reading(p) => \A pg \in Cached(p) \ dirty[p] : cache[p][pg] = file[pg]

\* Only the first page, with the counter, is kept from one lock to the next.
OnlyHeadKept == Kept \subseteq {Head}

DataInv == BaseInv /\ \A p \in Proc : Owns(p) /\ Sees(p)

\* There is nothing to play back where the file is read.
Clean(p) == pc[p] \in {"validate", "read", "openJournal", "end"} => Db = file

\* A journal has an owner that is alive, if nobody ever dies.
JournalHasOwner == journal # NoJournal => \E p \in Proc : UsesJournal(p)

\* Who looks for the owner of a journal takes a sibling that gives up a recovery
\* for one.  So either nobody has siblings, or no journal is ever left behind.
OneThreadEach == \A p, q \in Proc : p # q => Process[p] # Process[q]
NobodyDies    == Faults \cap {"crash", "power"} = {}
ThreadsAreApart == OneThreadEach \/ NobodyDies

CleanInv ==
  /\ \A p \in Proc : Clean(p)
  /\ NobodyDies => JournalHasOwner

Counted == journal # NoJournal /\ journal.counted
Settled == \A pg \in Page : disk[pg] = {file[pg]}

\* What the disk may hold, by the syncs of the journal and of the file.
DiskInv ==
  /\ OnDisk(journal) \in jdisk
  /\ \A j \in jdisk : OnDisk(j) = j
  /\ Counted => jdisk = {journal}
  /\ \A pg \in Page : file[pg] \in disk[pg]
  /\ ~unsynced => \A pg \in Page \ Played(journal) : disk[pg] = {file[pg]}
  /\ \A p \in Proc : pc[p] \in Filling /\ ~unsynced => Settled
  /\ \A p \in Proc : pc[p] = "synced" => ~unsynced /\ Settled

-----------------------------------------------------------------------------
(* One step of a process and what it leaves alone.                          *)

OthersStay(p) ==
  \A q \in Proc \ {p} :
    /\ lock'[q] = lock[q] /\ pc'[q] = pc[q] /\ cache'[q] = cache[q]
    /\ dirty'[q] = dirty[q] /\ todo'[q] = todo[q]

\* A process changes its own part of the state only.
LEMMA StepIsOwn ==
  ASSUME TypeInv, NEW p \in Proc, Step(p)
  PROVE  OthersStay(p)
<1> USE DEF TypeInv, TypeOK, OthersStay, Goto, SetLock, pages, journals
<1>1. CASE GetShared(p) BY <1>1 DEF GetShared
<1>2. CASE CheckJournal(p) BY <1>2 DEF CheckJournal
<1>3. CASE CheckReserved(p) BY <1>3 DEF CheckReserved
<1>4. CASE LockToRecover(p) BY <1>4 DEF LockToRecover
<1>5. CASE OpenHotJournal(p) BY <1>5 DEF OpenHotJournal
<1>6. ASSUME NEW pg \in Page, PlayBack(p, pg) PROVE OthersStay(p) BY <1>6 DEF PlayBack
<1>7. ASSUME NEW pg \in Page, ReadPage(p, pg) PROVE OthersStay(p) BY <1>7 DEF ReadPage
<1>8. ASSUME NEW pg \in Page, WritePage(p, pg) PROVE OthersStay(p) BY <1>8 DEF WritePage
<1>9. CASE EndPlayback(p) BY <1>9 DEF EndPlayback
<1>10. CASE Validate(p) BY <1>10 DEF Validate
<1>11. CASE Unlock(p) BY <1>11 DEF Unlock
<1>12. CASE Close(p) BY <1>12 DEF Close
<1>13. CASE Reserve(p) BY <1>13 DEF Reserve
<1>14. CASE OpenJournal(p) BY <1>14 DEF OpenJournal
<1>15. ASSUME NEW pg \in Page, NEW v \in Value, Modify(p, pg, v) PROVE OthersStay(p)
  BY <1>15 DEF Modify, WriteCache
<1>16. CASE IncrChangeCounter(p) BY <1>16 DEF IncrChangeCounter, WriteCache
<1>17. CASE SyncRecords(p) BY <1>17 DEF SyncRecords
<1>18. CASE CountRecords(p) BY <1>18 DEF CountRecords
<1>19. CASE LockToWrite(p) BY <1>19 DEF LockToWrite
<1>20. CASE SyncFile(p) BY <1>20 DEF SyncFile
<1>21. CASE Commit(p) BY <1>21 DEF Commit
<1>22. CASE RollbackCache(p) BY <1>22 DEF RollbackCache
<1>23. CASE RollbackFile(p) BY <1>23 DEF RollbackFile
<1>24. CASE GiveUp(p) BY <1>24 DEF GiveUp
<1> QED
  BY <1>1, <1>2, <1>3, <1>4, <1>5, <1>6, <1>7, <1>8, <1>9, <1>10, <1>11, <1>12, <1>13, <1>14,
     <1>15, <1>16, <1>17, <1>18, <1>19, <1>20, <1>21, <1>22, <1>23, <1>24 DEF Step

\* The file is written under EXCLUSIVE, the journal by a writer.
LEMMA WritersWrite ==
  ASSUME TypeInv, LockInv, NEW p \in Proc, Step(p)
  PROVE  /\ lock[p] # "exclusive" => UNCHANGED pages
         /\ lock[p] \notin ReservedByte => UNCHANGED <<pages, journals>>
<1> USE DEF LockInv, Place, ReservedByte, pages, journals, PC, TypeInv, TypeOK
<1>1. ASSUME NEW pg \in Page, PlayBack(p, pg) \/ WritePage(p, pg)
      PROVE  lock[p] = "exclusive"
  BY <1>1 DEF PlayBack, WritePage
<1>2. CASE SyncFile(p)
  BY <1>2 DEF SyncFile
<1>3. CASE \/ EndPlayback(p) \/ OpenJournal(p) \/ IncrChangeCounter(p) \/ SyncRecords(p)
         \/ CountRecords(p) \/ Commit(p) \/ RollbackCache(p)
  BY <1>3 DEF EndPlayback, OpenJournal, IncrChangeCounter, SyncRecords, CountRecords, Commit,
              RollbackCache
<1>4. ASSUME NEW pg \in Page, NEW v \in Value, Modify(p, pg, v)
      PROVE  lock[p] = "reserved" /\ UNCHANGED pages
  BY <1>4 DEF Modify
<1>5. CASE \/ GetShared(p) \/ CheckJournal(p) \/ CheckReserved(p) \/ LockToRecover(p)
         \/ OpenHotJournal(p) \/ (\E pg \in Page : ReadPage(p, pg)) \/ Validate(p) \/ Unlock(p)
         \/ Close(p) \/ Reserve(p) \/ LockToWrite(p) \/ RollbackFile(p) \/ GiveUp(p)
  BY <1>5 DEF GetShared, CheckJournal, CheckReserved, LockToRecover, OpenHotJournal, ReadPage,
              Validate, Unlock, Close, Reserve, LockToWrite, RollbackFile, GiveUp
<1> QED
  BY <1>1, <1>2, <1>3, <1>4, <1>5 DEF Step

\* What the journal brings back are pages.
LEMMA JournalTypes ==
  ASSUME NEW j \in Journal \cup {NoJournal}
  PROVE  /\ Played(j) \subseteq Page
         /\ \A pg \in Played(j) : j.rec[pg] \in Content
         /\ j # NoJournal => j \in Journal /\ j.rec \in [Page -> Maybe] /\ j.counted \in BOOLEAN
BY NoJournalAssumption DEF Played, Recorded, Journal, Maybe

-----------------------------------------------------------------------------
(* Types.                                                                   *)

PagesOK ==
  /\ file \in [Page -> Content] /\ disk \in [Page -> SUBSET Content]
  /\ file[Head] \in Counter /\ disk[Head] \subseteq Counter

JournalOK(j) ==
  /\ j \in Journal \cup {NoJournal}
  /\ j # NoJournal => j.rec[Head] \in Counter \cup {NoContent}

JournalsOK == JournalOK(journal) /\ \A j \in jdisk : JournalOK(j)

CacheOK(c) == c \in [Page -> Maybe] /\ c[Head] \in Counter \cup {NoContent}

OwnOK ==
  /\ lock \in [Proc -> Lock] /\ pc \in [Proc -> PC]
  /\ DOMAIN cache = Proc /\ \A q \in Proc : CacheOK(cache[q])
  /\ cache = [q \in Proc |-> cache[q]]
  /\ dirty \in [Proc -> SUBSET Page] /\ todo \in [Proc -> SUBSET Page]

SyncOK == unsynced \in BOOLEAN

LEMMA TypeParts == TypeInv <=> PagesOK /\ JournalsOK /\ OwnOK /\ SyncOK
<1>1. TypeInv => PagesOK /\ JournalsOK /\ OwnOK /\ SyncOK
  <2> SUFFICES ASSUME TypeInv PROVE PagesOK /\ JournalsOK /\ OwnOK /\ SyncOK
    OBVIOUS
  <2>1. PagesOK
    BY DEF TypeInv, TypeOK, HeadInv, PagesOK
  <2>2. JournalsOK
    BY DEF TypeInv, TypeOK, HeadInv, JournalsOK, JournalOK
  <2>3. OwnOK
    BY DEF TypeInv, TypeOK, HeadInv, OwnOK, CacheOK
  <2> QED
    BY <2>1, <2>2, <2>3 DEF TypeInv, TypeOK, SyncOK
<1>2. PagesOK /\ JournalsOK /\ OwnOK /\ SyncOK => TypeInv
  <2> SUFFICES ASSUME PagesOK, JournalsOK, OwnOK, SyncOK PROVE TypeInv
    OBVIOUS
  <2>1. HeadInv
    BY DEF PagesOK, JournalsOK, JournalOK, OwnOK, CacheOK, HeadInv
  <2>2. cache \in [Proc -> [Page -> Maybe]]
    BY DEF OwnOK, CacheOK
  <2> QED
    BY <2>1, <2>2 DEF PagesOK, JournalsOK, JournalOK, OwnOK, SyncOK, TypeInv, TypeOK
<1> QED
  BY <1>1, <1>2

LEMMA TypePartsNext ==
  TypeInv' <=> PagesOK' /\ JournalsOK' /\ OwnOK' /\ SyncOK'
BY TypeParts, PTL

LEMMA FreshOK == /\ Fresh \in Journal /\ JournalOK(Fresh) /\ JournalOK(NoJournal)
                 /\ CacheOK(Nothing) /\ Fresh # NoJournal /\ ~Fresh.counted
                 /\ Recorded(Fresh) = {}
<1>1. Fresh \in Journal
  BY DEF Fresh, Journal, Nothing, Maybe
<1>2. \A pg \in Page : Fresh.rec[pg] = NoContent /\ Nothing[pg] = NoContent
  BY DEF Fresh, Nothing
<1>3. Nothing \in [Page -> Maybe]
  BY DEF Nothing, Maybe
<1>4. ~Fresh.counted
  BY DEF Fresh
<1> QED
  BY <1>1, <1>2, <1>3, <1>4, NoJournalAssumption, PagerAssumption DEF JournalOK, CacheOK, Recorded

LEMMA PutTypes ==
  ASSUME TypeInv, NEW pg \in Page, NEW c \in Content, pg = Head => c \in Counter, Put(pg, c)
  PROVE  PagesOK'
BY PagerAssumption, TypeParts DEF PagesOK, Put, Counter

LEMMA PutJournalTypes ==
  ASSUME TypeInv, NEW j, JournalOK(j), PutJournal(j) \/ SyncJournal(j)
  PROVE  JournalsOK'
<1>1. JournalOK(OnDisk(j))
  BY FreshOK DEF OnDisk
<1> QED
  BY <1>1, TypeParts DEF JournalsOK, PutJournal, SyncJournal, JournalOK

LEMMA CacheTypes ==
  ASSUME TypeInv, NEW p \in Proc, NEW c, CacheOK(c), cache' = [cache EXCEPT ![p] = c]
  PROVE  /\ DOMAIN cache' = Proc /\ \A q \in Proc : CacheOK(cache'[q])
         /\ cache' = [q \in Proc |-> cache'[q]]
BY TypeParts DEF OwnOK, CacheOK

\* A page is recorded and changed, and the records are counted.
LEMMA RecordTypes ==
  ASSUME TypeInv, journal # NoJournal, NEW p \in Proc
  PROVE  /\ \A pg \in Page :
              JournalOK([journal EXCEPT !.rec[pg] = IF @ = NoContent THEN cache[p][pg] ELSE @])
         /\ JournalOK([journal EXCEPT !.counted = TRUE])
<1>1. /\ journal \in Journal /\ journal.rec[Head] \in Counter \cup {NoContent}
      /\ cache[p] \in [Page -> Maybe] /\ cache[p][Head] \in Counter \cup {NoContent}
  BY TypeParts DEF JournalsOK, JournalOK, OwnOK, CacheOK
<1>2. ASSUME NEW pg \in Page
      PROVE JournalOK([journal EXCEPT !.rec[pg] = IF @ = NoContent THEN cache[p][pg] ELSE @])
  <2> DEFINE j == [journal EXCEPT !.rec[pg] = IF @ = NoContent THEN cache[p][pg] ELSE @]
  <2>1. j.rec = [journal.rec EXCEPT ![pg] = IF @ = NoContent THEN cache[p][pg] ELSE @]
    BY <1>1 DEF Journal
  <2>2. j \in Journal
    BY <1>1 DEF Journal
  <2>3. j.rec[Head] \in Counter \cup {NoContent}
    BY <1>1, <2>1, PagerAssumption DEF Journal
  <2> QED
    BY <2>2, <2>3 DEF JournalOK
<1>3. JournalOK([journal EXCEPT !.counted = TRUE])
  <2>1. [journal EXCEPT !.counted = TRUE] \in Journal /\ [journal EXCEPT !.counted = TRUE].rec = journal.rec
    BY <1>1 DEF Journal
  <2> QED
    BY <1>1, <2>1 DEF JournalOK
<1> QED
  BY <1>2, <1>3

LEMMA WriteCacheTypes ==
  ASSUME TypeInv, journal # NoJournal, NEW p \in Proc, NEW pg \in Page, NEW c \in Content,
         pg = Head => c \in Counter, WriteCache(p, pg, c), UNCHANGED <<lock, todo>>, pc' \in [Proc -> PC]
  PROVE  JournalsOK' /\ OwnOK'
<1>1. JournalsOK'
  BY RecordTypes, PutJournalTypes DEF WriteCache
<1>2. CacheOK([cache[p] EXCEPT ![pg] = c])
  BY TypeParts, PagerAssumption DEF OwnOK, CacheOK, Maybe
<1>3. cache' = [cache EXCEPT ![p] = [cache[p] EXCEPT ![pg] = c]]
  BY TypeParts DEF OwnOK, WriteCache
<1>4. dirty' \in [Proc -> SUBSET Page]
  BY TypeParts DEF OwnOK, WriteCache
<1> QED
  BY <1>1, <1>2, <1>3, <1>4, CacheTypes, TypeParts DEF OwnOK

LEMMA TypeStep ==
  ASSUME TypeInv, NEW p \in Proc, Holds(p), Step(p)
  PROVE  TypeInv'
<1>a. /\ PagesOK /\ JournalsOK /\ OwnOK /\ unsynced \in BOOLEAN
      /\ file \in [Page -> Content] /\ file[Head] \in Counter
      /\ cache[p] \in [Page -> Maybe] /\ cache[p][Head] \in Counter \cup {NoContent}
      /\ pc[p] \in PC
  BY TypeParts DEF PagesOK, OwnOK, CacheOK, SyncOK
<1>b. PagesOK' /\ JournalsOK' /\ OwnOK' /\ unsynced' \in BOOLEAN => TypeInv'
  BY TypePartsNext DEF SyncOK
<1>c. /\ UNCHANGED pages => PagesOK'
      /\ UNCHANGED journals => JournalsOK'
      /\ UNCHANGED cache /\ lock' \in [Proc -> Lock] /\ pc' \in [Proc -> PC]
           /\ dirty' \in [Proc -> SUBSET Page] /\ todo' \in [Proc -> SUBSET Page] => OwnOK'
  BY <1>a DEF PagesOK, JournalsOK, OwnOK, pages, journals
<1>d. ASSUME NEW c, CacheOK(c), cache' = [cache EXCEPT ![p] = c], lock' \in [Proc -> Lock],
             pc' \in [Proc -> PC], dirty' \in [Proc -> SUBSET Page], todo' \in [Proc -> SUBSET Page]
      PROVE  OwnOK'
  BY <1>d, CacheTypes DEF OwnOK
<1>e. /\ \A pg \in Played(journal) : journal.rec[pg] \in Content
      /\ Played(journal) \subseteq Page
      /\ Head \in Played(journal) => journal.rec[Head] \in Counter
  BY <1>a, JournalTypes, PagerAssumption DEF JournalsOK, JournalOK, Played, Recorded
<1>1. CASE GetShared(p) \/ CheckJournal(p) \/ CheckReserved(p) \/ LockToRecover(p) \/ Reserve(p)
         \/ GiveUp(p)
  BY <1>1, <1>a, <1>b, <1>c DEF GetShared, CheckJournal, CheckReserved, LockToRecover, Reserve,
     GiveUp,
     Goto, SetLock, Lock, PC, OwnOK
<1>2. CASE OpenHotJournal(p)
  BY <1>2, <1>a, <1>b, <1>c, <1>e DEF OpenHotJournal, Goto, SetLock, Lock, PC, OwnOK
<1>3. ASSUME NEW pg \in Page, PlayBack(p, pg) PROVE TypeInv'
  <2>1. journal.rec[pg] \in Content /\ (pg = Head => journal.rec[pg] \in Counter)
    BY <1>3, <1>e DEF PlayBack, Holds
  <2>2. PagesOK'
    BY <1>3, <2>1, PutTypes DEF PlayBack
  <2>3. CacheOK([cache[p] EXCEPT ![pg] = IF @ = NoContent THEN @ ELSE journal.rec[pg]])
    BY <2>1, <1>a, PagerAssumption DEF CacheOK, Maybe
  <2>4. cache' = [cache EXCEPT ![p] = [cache[p] EXCEPT ![pg] = IF @ = NoContent THEN @ ELSE journal.rec[pg]]]
    BY <1>3, <1>a DEF PlayBack, OwnOK
  <2>5. OwnOK'
    BY <1>3, <2>3, <2>4, <1>a, <1>d DEF PlayBack, OwnOK
  <2> QED
    BY <1>3, <2>2, <2>5, <1>a, <1>b, <1>c DEF PlayBack
<1>4. CASE EndPlayback(p)
  <2>1. JournalsOK'
    BY <1>4, FreshOK, PutJournalTypes DEF EndPlayback
  <2>2. OwnOK'
    BY <1>4, <1>a, <1>c DEF EndPlayback, Goto, SetLock, Lock, PC, OwnOK
  <2> QED
    BY <1>4, <2>1, <2>2, <1>a, <1>b, <1>c DEF EndPlayback
<1>5. CASE Validate(p)
  <2>1. CacheOK(CacheValid(p))
    BY <1>a, FreshOK DEF CacheValid, CacheOK
  <2>2. CacheOK([CacheValid(p) EXCEPT ![Head] = IF @ = NoContent THEN file[Head] ELSE @])
    BY <2>1, <1>a, PagerAssumption DEF CacheOK, Maybe
  <2> QED
    BY <1>5, <2>2, <1>a, <1>b, <1>c, <1>d DEF Validate, Goto, PC, OwnOK
<1>6. ASSUME NEW pg \in Page, ReadPage(p, pg) PROVE TypeInv'
  <2>1. CacheOK([cache[p] EXCEPT ![pg] = file[pg]])
    BY <1>a, PagerAssumption DEF CacheOK, Maybe
  <2>2. cache' = [cache EXCEPT ![p] = [cache[p] EXCEPT ![pg] = file[pg]]]
    BY <1>6, <1>a DEF ReadPage, OwnOK
  <2> QED
    BY <1>6, <2>1, <2>2, <1>a, <1>b, <1>c, <1>d DEF ReadPage, OwnOK
<1>7. CASE Unlock(p) \/ Close(p)
  <2>1. PICK c : CacheOK(c) /\ cache' = [cache EXCEPT ![p] = c]
    BY <1>7, <1>a, FreshOK DEF Unlock, Close, CacheOK, OwnOK
  <2>2. /\ lock' \in [Proc -> Lock] /\ pc' \in [Proc -> PC]
        /\ dirty' \in [Proc -> SUBSET Page] /\ todo' \in [Proc -> SUBSET Page]
        /\ UNCHANGED <<pages, journals, unsynced>>
    BY <1>7, <1>a DEF Unlock, Close, Goto, SetLock, Lock, PC, OwnOK
  <2> QED
    BY <2>1, <2>2, <1>a, <1>b, <1>c, <1>d
<1>8. CASE OpenJournal(p)
  <2>1. JournalsOK'
    BY <1>8, FreshOK, PutJournalTypes, <1>c DEF OpenJournal
  <2> QED
    BY <1>8, <2>1, <1>a, <1>b, <1>c DEF OpenJournal, Goto, SetLock, Lock, PC, OwnOK
<1>9. ASSUME NEW pg \in Page, NEW v \in Value, Modify(p, pg, v) PROVE TypeInv'
  <2>1. journal # NoJournal
    BY <1>9 DEF Modify, Holds, UsesJournal
  <2>2. cache[p][pg] # NoContent
    BY <1>9 DEF Modify, Cached
  <2> DEFINE c == IF pg = Head THEN cache[p][Head] ELSE v
  <2>3. c \in Content /\ (pg = Head => c \in Counter)
    BY <2>2, <1>a DEF Content, Counter
  <2>4. WriteCache(p, pg, c) /\ UNCHANGED <<pages, lock, pc, todo, unsynced>>
    BY <1>9 DEF Modify
  <2> HIDE DEF c
  <2>5. JournalsOK' /\ OwnOK'
    BY <2>1, <2>3, <2>4, <1>a, WriteCacheTypes DEF OwnOK
  <2> QED
    BY <2>4, <2>5, <1>a, <1>b, <1>c
<1>10. CASE IncrChangeCounter(p)
  <2>1. journal # NoJournal
    BY <1>10 DEF IncrChangeCounter, Holds, UsesJournal
  <2>2. cache[p][Head] \in Counter
    <3>1. cache[p][Head] # NoContent
      BY <1>10 DEF IncrChangeCounter, Holds, Reading, Cached
    <3> QED
      BY <3>1, <1>a
  <2> DEFINE c == cache[p][Head] + 1
  <2>3. c \in Content /\ c \in Counter
    BY <1>10, <2>2, PagerAssumption DEF IncrChangeCounter, Counter, Content
  <2>4. WriteCache(p, Head, c) /\ UNCHANGED <<pages, lock, todo, unsynced>> /\ pc' \in [Proc -> PC]
    BY <1>10, <1>a DEF IncrChangeCounter, Goto, PC, OwnOK
  <2> HIDE DEF c
  <2>5. JournalsOK' /\ OwnOK'
    BY <2>1, <2>3, <2>4, WriteCacheTypes, PagerAssumption
  <2> QED
    BY <2>4, <2>5, <1>a, <1>b, <1>c
<1>11. CASE SyncRecords(p) \/ CountRecords(p)
  <2>1. journal # NoJournal
    BY <1>11 DEF SyncRecords, CountRecords, Holds, UsesJournal
  <2>2. JournalOK(journal)
    BY <1>a DEF JournalsOK
  <2>3. JournalsOK'
    BY <1>11, <2>1, <2>2, RecordTypes, PutJournalTypes DEF SyncRecords, CountRecords
  <2> QED
    BY <1>11, <2>3, <1>a, <1>b, <1>c DEF SyncRecords, CountRecords, Goto, PC, OwnOK
<1>12. CASE LockToWrite(p) \/ RollbackFile(p)
  BY <1>12, <1>a, <1>b, <1>c, <1>e DEF LockToWrite, RollbackFile, Goto, SetLock, Lock, PC, OwnOK
<1>13. ASSUME NEW pg \in Page, WritePage(p, pg) PROVE TypeInv'
  <2>1. cache[p][pg] # NoContent
    BY <1>13 DEF WritePage, Holds, Cached
  <2>2. cache[p][pg] \in Content /\ (pg = Head => cache[p][pg] \in Counter)
    BY <2>1, <1>a DEF Maybe
  <2>3. PagesOK'
    BY <1>13, <2>2, PutTypes DEF WritePage
  <2> QED
    BY <1>13, <2>3, <1>a, <1>b, <1>c DEF WritePage, OwnOK
<1>14. CASE SyncFile(p)
  <2>1. PagesOK'
    BY <1>14, <1>a, PagerAssumption DEF SyncFile, PagesOK
  <2> QED
    BY <1>14, <2>1, <1>a, <1>b, <1>c DEF SyncFile, Goto, PC, OwnOK
<1>15. CASE Commit(p)
  <2>1. JournalsOK'
    BY <1>15, FreshOK, PutJournalTypes DEF Commit
  <2> QED
    BY <1>15, <2>1, <1>a, <1>b, <1>c DEF Commit, Goto, SetLock, Lock, PC, OwnOK
<1>16. CASE RollbackCache(p)
  <2>1. JournalsOK'
    BY <1>16, FreshOK, PutJournalTypes DEF RollbackCache
  <2> DEFINE c == [pg \in Page |-> IF pg \in dirty[p] THEN journal.rec[pg] ELSE cache[p][pg]]
  <2>2. journal \in Journal /\ journal.rec \in [Page -> Maybe]
        /\ journal.rec[Head] \in Counter \cup {NoContent}
    BY <1>16, <1>a DEF RollbackCache, Holds, UsesJournal, JournalsOK, JournalOK, Journal
  <2>3. CacheOK(c)
    BY <2>2, <1>a, PagerAssumption DEF CacheOK
  <2>4. cache' = [cache EXCEPT ![p] = c]
    BY <1>16, <1>a DEF RollbackCache, OwnOK
  <2> HIDE DEF c
  <2>5. OwnOK'
    BY <1>16, <2>3, <2>4, <1>a, <1>d DEF RollbackCache, Goto, SetLock, Lock, PC, OwnOK
  <2> QED
    BY <1>16, <2>1, <2>5, <1>a, <1>b, <1>c DEF RollbackCache
<1> QED
  BY <1>1, <1>2, <1>3, <1>4, <1>5, <1>6, <1>7, <1>8, <1>9, <1>10, <1>11, <1>12, <1>13, <1>14, <1>15,
     <1>16 DEF Step

-----------------------------------------------------------------------------
(* The lock.                                                                *)

\* What a step does to the lock of its process fits the locks of the others.
LEMMA OwnLock ==
  ASSUME TypeInv, LockInv, NEW p \in Proc, Step(p)
  PROVE  /\ Place(pc'[p], lock'[p])
         /\ \A q \in Proc \ {p} : Compatible(lock'[p], lock[q])
<1> DEFINE Fits == /\ Place(pc'[p], lock'[p])
                   /\ \A q \in Proc \ {p} : Compatible(lock'[p], lock[q])
<1>a. /\ Place(pc[p], lock[p])
      /\ \A q \in Proc \ {p} : Compatible(lock[p], lock[q])
      /\ lock \in [Proc -> Lock] /\ pc \in [Proc -> PC]
  BY DEF LockInv, TypeInv, TypeOK
<1> USE <1>a DEF Goto, SetLock, Place, Compatible, ReservedByte, Lock, PC, Others
<1>1. CASE GetShared(p)
  <2>1. ASSUME NEW q \in Proc \ {p} PROVE lock[q] # "exclusive"
    <3>1. CASE q \in Siblings(p)
      BY <1>1, <3>1 DEF GetShared, CanRead, PendingByte
    <3>2. CASE q \notin Siblings(p) /\ \E r \in Siblings(p) : lock[r] # "none"
      <4>1. PICK r \in Siblings(p) : lock[r] # "none"
        BY <3>2
      <4>2. Compatible(lock[r], lock[q])
        BY <3>2 DEF LockInv, Siblings, Threads
      <4> QED
        BY <4>1, <4>2
    <3>3. CASE q \in Foreign(p) /\ \A r \in Siblings(p) : lock[r] = "none"
      BY <1>1, <3>3 DEF GetShared, CanRead, PendingByte
    <3> QED
      BY <3>1, <3>2, <3>3 DEF Siblings, Threads, Foreign
  <2> QED
    BY <1>1, <2>1 DEF GetShared
<1>2. CASE CheckJournal(p) BY <1>2 DEF CheckJournal
<1>3. CASE CheckReserved(p) BY <1>3 DEF CheckReserved
<1>4. CASE LockToRecover(p) BY <1>4 DEF LockToRecover, CanExclude, CanPend, Threads, Siblings, Foreign, PendingByte
<1>5. CASE OpenHotJournal(p) BY <1>5 DEF OpenHotJournal
<1>6. ASSUME NEW pg \in Page, PlayBack(p, pg) \/ ReadPage(p, pg) \/ WritePage(p, pg) PROVE Fits
  BY <1>6 DEF PlayBack, ReadPage, WritePage
<1>7. CASE EndPlayback(p) BY <1>7 DEF EndPlayback
<1>8. CASE Validate(p) BY <1>8 DEF Validate
<1>9. CASE Unlock(p) \/ Close(p) \/ GiveUp(p) BY <1>9 DEF Unlock, Close, GiveUp
<1>10. CASE Reserve(p) BY <1>10 DEF Reserve, CanReserve, Threads, Siblings, Foreign
<1>11. CASE OpenJournal(p) BY <1>11 DEF OpenJournal
<1>12. ASSUME NEW pg \in Page, NEW v \in Value, Modify(p, pg, v) PROVE Fits BY <1>12 DEF Modify
<1>13. CASE IncrChangeCounter(p) \/ SyncRecords(p) \/ CountRecords(p)
  BY <1>13 DEF IncrChangeCounter, SyncRecords, CountRecords
<1>14. CASE LockToWrite(p) BY <1>14 DEF LockToWrite, CanExclude, CanPend, Threads, Siblings, Foreign
<1>15. CASE SyncFile(p) \/ Commit(p) BY <1>15 DEF SyncFile, Commit
<1>16. CASE RollbackCache(p) BY <1>16 DEF RollbackCache
<1>17. CASE RollbackFile(p) BY <1>17 DEF RollbackFile
<1> QED
  BY <1>1, <1>2, <1>3, <1>4, <1>5, <1>6, <1>7, <1>8, <1>9, <1>10, <1>11, <1>12, <1>13, <1>14,
     <1>15, <1>16, <1>17 DEF Step

LEMMA LockStep ==
  ASSUME TypeInv, LockInv, NEW p \in Proc, Step(p)
  PROVE  LockInv'
<1>1. OthersStay(p)
  BY StepIsOwn
<1>2. /\ Place(pc'[p], lock'[p])
      /\ \A q \in Proc \ {p} : Compatible(lock'[p], lock[q])
  BY OwnLock
<1>3. ASSUME NEW q \in Proc PROVE Place(pc'[q], lock'[q])
  BY <1>1, <1>2 DEF LockInv, OthersStay
<1>4. ASSUME NEW q \in Proc, NEW r \in Proc, q # r PROVE Compatible(lock'[q], lock'[r])
  <2>1. Compatible(lock[q], lock[r])
    BY <1>4 DEF LockInv
  <2>2. \A l, m : Compatible(l, m) <=> Compatible(m, l)
    BY DEF Compatible
  <2> QED
    BY <1>1, <1>2, <1>4, <2>1, <2>2 DEF OthersStay
<1> QED
  BY <1>3, <1>4 DEF LockInv

\* Under RESERVED nobody else uses the journal; under EXCLUSIVE everybody else
\* is idle.
LEMMA Apart ==
  ASSUME TypeInv, LockInv, NEW p \in Proc, NEW q \in Proc, p # q
  PROVE  /\ lock[p] \in ReservedByte => ~UsesJournal(q) /\ pc[q] # "openJournal"
         /\ lock[p] = "exclusive" => pc[q] = "idle"
<1>1. Place(pc[q], lock[q]) /\ Compatible(lock[p], lock[q]) /\ pc[q] \in PC
  BY DEF LockInv, TypeInv, TypeOK
<1> QED
  BY <1>1 DEF Place, Compatible, ReservedByte, PC, UsesJournal

-----------------------------------------------------------------------------
(* What there is to work on.                                                *)

\* A step keeps what its connection holds.
LEMMA HoldsOwn ==
  ASSUME BaseInv, NEW p \in Proc, Step(p)
  PROVE  Holds(p)'
<1>1. /\ Holds(p) /\ pc[p] \in PC /\ Head \in Page /\ NoContent \notin Counter
      /\ pc \in [Proc -> PC] /\ cache \in [Proc -> [Page -> Maybe]] /\ file \in [Page -> Content]
      /\ dirty \in [Proc -> SUBSET Page] /\ todo \in [Proc -> SUBSET Page]
      /\ journal \in Journal \cup {NoJournal} /\ file[Head] \in Counter
  BY PagerAssumption DEF BaseInv, TypeInv, TypeOK, HeadInv, Counter
<1>2. ASSUME pc'[p] \in Waiting \ {"playback"}, dirty'[p] = {} PROVE Holds(p)'
  BY <1>2 DEF Holds, UsesJournal, Reading, Waiting, Writing, Filling
<1>3. ASSUME pc'[p] \in {"read", "openJournal", "end"}, dirty'[p] = {}, Head \in Cached(p)'
      PROVE  Holds(p)'
  BY <1>3 DEF Holds, UsesJournal, Reading, Writing, Filling
<1>4. ASSUME pc[p] \in Writing, pc'[p] \in Writing, journal' # NoJournal,
             Recorded(journal)' = Recorded(journal), UNCHANGED <<cache, dirty>>,
             pc'[p] \in {"write", "synced"} => todo'[p] \subseteq dirty[p]
      PROVE  Holds(p)'
  <2>1. Cached(p)' = Cached(p)
    BY <1>4 DEF Cached
  <2>2. dirty[p] = Recorded(journal) /\ dirty[p] \subseteq Cached(p) /\ Head \in Cached(p)
    BY <1>1, <1>4 DEF Holds, Writing, Filling, Reading
  <2> QED
    BY <1>4, <2>1, <2>2 DEF Holds, UsesJournal, Reading, Writing, Filling
<1>5. ASSUME NEW pg \in Cached(p), NEW c, c # NoContent, pc[p] = "modify", WriteCache(p, pg, c),
             pc'[p] \in {"modify", "sync"}
      PROVE  Holds(p)'
  <2>1. /\ journal # NoJournal /\ dirty[p] = Recorded(journal)
        /\ dirty[p] \subseteq Cached(p) /\ Head \in Cached(p) /\ pg \in Page
    BY <1>1, <1>5 DEF Holds, UsesJournal, Writing, Filling, Reading, Cached
  <2>2. journal' = [journal EXCEPT !.rec[pg] = IF @ = NoContent THEN cache[p][pg] ELSE @]
    BY <1>5 DEF WriteCache, PutJournal
  <2>3. /\ journal' \in [rec : {journal'.rec}, counted : BOOLEAN]
        /\ journal'.rec = [journal.rec EXCEPT ![pg] = IF @ = NoContent THEN cache[p][pg] ELSE @]
        /\ journal.rec \in [Page -> Maybe]
    BY <1>1, <2>1, <2>2 DEF Journal
  <2>4. journal' # NoJournal
    <3>1. JournalOK(journal')
      BY <1>5, <2>1, <2>2, RecordTypes DEF BaseInv
    <3>2. cache[p][pg] \in Maybe
      BY <1>1, <2>1
    <3>3. journal' \in Journal
      BY <1>1, <2>1, <2>2, <3>2 DEF Journal
    <3> QED
      BY <3>3, NoJournalAssumption
  <2>5. cache'[p] = [cache[p] EXCEPT ![pg] = c] /\ dirty'[p] = dirty[p] \cup {pg}
    BY <1>1, <1>5 DEF WriteCache
  <2>6. Cached(p)' = Cached(p)
    BY <1>1, <1>5, <2>1, <2>5 DEF Cached
  <2>7. Recorded(journal)' = Recorded(journal) \cup {pg}
    BY <2>1, <2>3 DEF Recorded, Cached
  <2> QED
    BY <1>5, <2>1, <2>4, <2>5, <2>6, <2>7 DEF Holds, UsesJournal, Writing, Filling
<1>6. pc[p] \notin Writing \cup {"playback"} => dirty[p] = {}
  BY <1>1 DEF Holds
<1>7. CASE GetShared(p) \/ CheckJournal(p) \/ CheckReserved(p) \/ LockToRecover(p) \/ GiveUp(p)
         \/ Unlock(p) \/ Close(p)
  BY <1>7, <1>1, <1>2, <1>6 DEF GetShared, CheckJournal, CheckReserved, LockToRecover, GiveUp, Unlock,
     Close, Goto, Waiting, Writing, Filling
<1>8. CASE OpenHotJournal(p)
  <2>1. /\ pc[p] = "reopen" /\ UNCHANGED <<journal, cache, dirty>>
        /\ \/ pc'[p] = "idle"
           \/ pc'[p] = "playback" /\ todo'[p] = Played(journal) /\ journal # NoJournal
    BY <1>8, <1>1 DEF OpenHotJournal, Goto, journals
  <2>2. dirty'[p] = {} /\ Played(journal)' = Played(journal)
    BY <1>6, <2>1 DEF Writing, Filling, Played, Recorded
  <2> QED
    BY <1>2, <2>1, <2>2 DEF Holds, UsesJournal, Reading, Waiting, Writing, Filling
<1>9. ASSUME NEW pg \in Page, PlayBack(p, pg) PROVE Holds(p)'
  <2>1. /\ pc[p] = "playback" /\ pc' = pc /\ pg \in todo[p] /\ journal' = journal /\ dirty' = dirty
        /\ cache'[p] = [cache[p] EXCEPT ![pg] = IF @ = NoContent THEN @ ELSE journal.rec[pg]]
        /\ todo'[p] \subseteq todo[p]
    BY <1>9, <1>1 DEF PlayBack, journals
  <2>2. journal # NoJournal /\ todo[p] \subseteq Played(journal) /\ journal.rec[pg] # NoContent
    BY <2>1, <1>1 DEF Holds, UsesJournal, Played, Recorded
  <2>3. Cached(p)' = Cached(p) /\ Played(journal)' = Played(journal)
    BY <2>1, <2>2, <1>1 DEF Cached, Played, Recorded
  <2> QED
    BY <2>1, <2>2, <2>3, <1>1 DEF Holds, UsesJournal, Reading, Writing, Filling
<1>10. CASE EndPlayback(p)
  <2>1. /\ pc'[p] = IF dirty[p] = {} THEN "validate" ELSE "end"
        /\ dirty'[p] = {} /\ cache' = cache
    BY <1>10, <1>1 DEF EndPlayback, Goto
  <2>2. Cached(p)' = Cached(p)
    BY <2>1 DEF Cached
  <2>3. dirty[p] # {} => Head \in Cached(p)
    BY <1>1 DEF Holds
  <2> QED
    BY <1>2, <1>3, <2>1, <2>2, <2>3 DEF Waiting
<1>11. CASE Validate(p)
  <2>1. /\ pc[p] = "validate" /\ pc'[p] = "read" /\ dirty' = dirty
        /\ cache'[p] = [CacheValid(p) EXCEPT ![Head] = IF @ = NoContent THEN file[Head] ELSE @]
    BY <1>11, <1>1 DEF Validate, Goto
  <2>2. CacheValid(p) \in [Page -> Maybe]
    BY <1>1 DEF CacheValid, Nothing, Maybe
  <2>3. cache'[p][Head] # NoContent
    BY <1>1, <2>1, <2>2
  <2> QED
    BY <1>1, <1>3, <1>6, <2>1, <2>3 DEF Cached, Writing, Filling
<1>12. ASSUME NEW pg \in Page, ReadPage(p, pg) PROVE Holds(p)'
  <2>1. /\ pc[p] = "read" /\ pc' = pc /\ dirty' = dirty
        /\ cache'[p] = [cache[p] EXCEPT ![pg] = file[pg]] /\ cache[p][pg] = NoContent
    BY <1>12, <1>1 DEF ReadPage
  <2>2. Head \in Cached(p)
    BY <1>1, <2>1 DEF Holds, Reading
  <2>3. Head \in Cached(p)'
    BY <1>1, <2>1, <2>2 DEF Cached
  <2> QED
    BY <1>3, <1>6, <2>1, <2>3 DEF Writing, Filling
<1>13. CASE Reserve(p)
  <2>1. /\ pc[p] = "read" /\ pc'[p] = "openJournal" /\ UNCHANGED <<cache, dirty>>
    BY <1>13, <1>1 DEF Reserve, Goto
  <2> QED
    BY <1>1, <1>3, <1>6, <2>1 DEF Holds, Reading, Cached, Writing, Filling
<1>14. CASE OpenJournal(p)
  <2>1. /\ pc[p] = "openJournal" /\ UNCHANGED <<cache, dirty>>
        /\ \/ pc'[p] = "modify" /\ journal' = Fresh
           \/ pc'[p] = "end"
    BY <1>14, <1>1 DEF OpenJournal, PutJournal, Goto
  <2>2. dirty[p] = {} /\ Head \in Cached(p) /\ Cached(p)' = Cached(p)
    BY <1>1, <1>6, <2>1 DEF Holds, Reading, Writing, Filling, Cached
  <2>3. Fresh # NoJournal /\ Recorded(Fresh) = {}
    BY FreshOK
  <2> QED
    BY <1>3, <2>1, <2>2, <2>3 DEF Holds, UsesJournal, Reading, Writing, Filling
<1>15. ASSUME NEW pg \in Page, NEW v \in Value, Modify(p, pg, v) PROVE Holds(p)'
  <2>1. /\ pg \in Cached(p) /\ pc[p] = "modify" /\ pc' = pc
        /\ WriteCache(p, pg, IF pg = Head THEN cache[p][Head] ELSE v)
    BY <1>15 DEF Modify
  <2>2. (IF pg = Head THEN cache[p][Head] ELSE v) # NoContent
    BY <2>1, PagerAssumption DEF Cached
  <2> QED
    BY <2>1, <2>2, <1>5
<1>16. CASE IncrChangeCounter(p)
  <2>1. /\ pc[p] = "modify" /\ pc'[p] = "sync"
        /\ WriteCache(p, Head, cache[p][Head] + 1)
    BY <1>16, <1>1 DEF IncrChangeCounter, Goto
  <2>2. Head \in Cached(p)
    BY <1>1, <2>1 DEF Holds, Reading
  <2>3. cache[p][Head] \in Counter
    BY <2>2 DEF BaseInv, TypeInv, HeadInv, Cached
  <2>4. cache[p][Head] + 1 # NoContent
    BY <2>3, PagerAssumption DEF Counter
  <2> QED
    BY <2>1, <2>2, <2>4, <1>5
<1>17. CASE SyncRecords(p)
  <2>1. /\ pc[p] = "sync" /\ pc'[p] = "count" /\ UNCHANGED <<journal, cache, dirty>>
    BY <1>17, <1>1 DEF SyncRecords, SyncJournal, Goto
  <2>2. journal # NoJournal
    BY <1>1, <2>1 DEF Holds, UsesJournal
  <2> QED
    BY <1>4, <2>1, <2>2 DEF Writing, Filling, Recorded
<1>18. CASE CountRecords(p)
  <2>1. /\ pc[p] = "count" /\ pc'[p] = "lock" /\ UNCHANGED <<cache, dirty>>
        /\ journal' = [journal EXCEPT !.counted = TRUE]
    BY <1>18, <1>1 DEF CountRecords, SyncJournal, Goto
  <2>2. journal # NoJournal
    BY <1>1, <2>1 DEF Holds, UsesJournal
  <2>3. journal' \in Journal /\ journal'.rec = journal.rec
    BY <1>1, <2>1, <2>2 DEF Journal
  <2> QED
    BY <1>4, <2>1, <2>3, NoJournalAssumption DEF Writing, Filling, Recorded
<1>19. CASE LockToWrite(p) \/ (\E pg \in Page : WritePage(p, pg)) \/ SyncFile(p)
  <2>1. /\ pc[p] \in {"lock", "write"} /\ pc'[p] \in {"lock", "write", "synced"}
        /\ UNCHANGED <<journal, cache, dirty>>
        /\ \/ pc'[p] = "lock"
           \/ pc[p] = "lock" /\ todo'[p] = dirty[p]
           \/ pc[p] = "write" /\ todo'[p] \subseteq todo[p]
    BY <1>19, <1>1 DEF LockToWrite, WritePage, SyncFile, Goto, journals
  <2>2. journal # NoJournal /\ (pc[p] = "write" => todo[p] \subseteq dirty[p])
    BY <1>1, <2>1 DEF Holds, UsesJournal
  <2> QED
    BY <1>4, <2>1, <2>2 DEF Writing, Filling, Recorded
<1>20. CASE Commit(p)
  <2>1. /\ pc[p] = "synced" /\ pc'[p] = "end" /\ dirty'[p] = {} /\ cache' = cache
    BY <1>20, <1>1 DEF Commit, Goto
  <2> QED
    BY <1>1, <1>3, <2>1 DEF Holds, Reading, Cached
<1>21. CASE RollbackCache(p)
  <2>1. /\ pc[p] \in Filling /\ pc'[p] = "end" /\ dirty'[p] = {}
        /\ cache'[p] = [pg \in Page |-> IF pg \in dirty[p] THEN journal.rec[pg] ELSE cache[p][pg]]
    BY <1>21, <1>1 DEF RollbackCache, Goto, Filling
  <2>2. Head \in Cached(p) /\ dirty[p] = Recorded(journal)
    BY <1>1, <2>1 DEF Holds, Reading, Writing, Filling
  <2>3. Head \in Cached(p)'
    BY <1>1, <2>1, <2>2 DEF Cached, Recorded
  <2> QED
    BY <1>3, <2>1, <2>3
<1>22. CASE RollbackFile(p)
  <2>1. /\ pc[p] \in {"write", "synced"} /\ pc'[p] = "playback" /\ todo'[p] = Played(journal)
        /\ UNCHANGED <<journal, cache, dirty>>
    BY <1>22, <1>1 DEF RollbackFile, Goto, journals
  <2>2. Cached(p)' = Cached(p) /\ Played(journal)' = Played(journal)
    BY <2>1 DEF Cached, Played, Recorded
  <2> QED
    BY <2>1, <2>2, <1>1 DEF Holds, UsesJournal, Reading, Writing, Filling
<1> QED
  BY <1>7, <1>8, <1>9, <1>10, <1>11, <1>12, <1>13, <1>14, <1>15, <1>16, <1>17, <1>18, <1>19, <1>20,
     <1>21, <1>22 DEF Step

\* ... and what the others hold.
LEMMA HoldsOthers ==
  ASSUME BaseInv, NEW p \in Proc, Step(p), NEW q \in Proc, q # p
  PROVE  Holds(q)'
<1>1. /\ TypeInv /\ LockInv /\ Holds(q)
  BY DEF BaseInv
<1>2. /\ pc'[q] = pc[q] /\ cache'[q] = cache[q] /\ dirty'[q] = dirty[q] /\ todo'[q] = todo[q]
  BY <1>1, StepIsOwn DEF OthersStay
<1>3. /\ UsesJournal(q)' <=> UsesJournal(q)
      /\ Reading(q)' <=> Reading(q)
      /\ Cached(q)' = Cached(q)
  BY <1>2 DEF UsesJournal, Reading, Cached
<1>4. CASE lock[p] \notin ReservedByte
  <2>1. journal' = journal
    BY <1>1, <1>4, WritersWrite DEF journals
  <2>2. Played(journal)' = Played(journal) /\ Recorded(journal)' = Recorded(journal)
    BY <2>1 DEF Played, Recorded
  <2> QED
    BY <1>1, <1>2, <1>3, <2>1, <2>2 DEF Holds
<1>5. CASE lock[p] \in ReservedByte
  <2>1. ~UsesJournal(q)
    BY <1>1, <1>5, Apart
  <2> QED
    BY <1>1, <1>2, <1>3, <2>1 DEF Holds, UsesJournal, Writing, Filling
<1> QED
  BY <1>4, <1>5

-----------------------------------------------------------------------------
(* Connections that are gone.                                               *)

\* They have no lock and nothing in memory; the others keep theirs.
LEMMA GoneIs ==
  ASSUME NEW dead, Gone(dead), NEW q \in Proc
  PROVE  /\ q \in dead => /\ lock'[q] = "none" /\ pc'[q] = "idle" /\ cache'[q] = Nothing
                          /\ dirty'[q] = {} /\ todo'[q] = {} /\ Cached(q)' = {}
         /\ q \notin dead => /\ lock'[q] = lock[q] /\ pc'[q] = pc[q] /\ cache'[q] = cache[q]
                             /\ dirty'[q] = dirty[q] /\ todo'[q] = todo[q] /\ Cached(q)' = Cached(q)
BY DEF Gone, Cached, Nothing

\* The rest of the state may be another one if all of them are gone.
LEMMA BaseGone ==
  ASSUME BaseInv, NEW dead, Gone(dead), PagesOK', JournalsOK', SyncOK',
         UNCHANGED journal \/ Proc \subseteq dead
  PROVE  BaseInv'
<1>1. /\ TypeInv /\ LockInv /\ OwnOK /\ \A q \in Proc : Holds(q)
  BY TypeParts DEF BaseInv
<1>2. OwnOK'
  <2>1. \A q \in Proc : CacheOK(cache'[q])
    BY <1>1, FreshOK, GoneIs DEF OwnOK
  <2>2. /\ lock' \in [Proc -> Lock] /\ pc' \in [Proc -> PC]
        /\ dirty' \in [Proc -> SUBSET Page] /\ todo' \in [Proc -> SUBSET Page]
    BY <1>1 DEF Gone, OwnOK, Lock, PC
  <2>3. DOMAIN cache' = Proc /\ cache' = [q \in Proc |-> cache'[q]]
    BY DEF Gone
  <2> QED
    BY <2>1, <2>2, <2>3 DEF OwnOK
<1>3. TypeInv'
  BY <1>2, TypePartsNext
<1>4. LockInv'
  <2>1. ASSUME NEW q \in Proc PROVE Place(pc'[q], lock'[q])
    <3>1. Place(pc[q], lock[q]) /\ Place("idle", "none")
      BY <1>1 DEF LockInv, Place
    <3> QED
      BY <3>1, GoneIs
  <2>2. ASSUME NEW q \in Proc, NEW r \in Proc, q # r PROVE Compatible(lock'[q], lock'[r])
    <3>1. Compatible(lock[q], lock[r]) /\ \A l : Compatible(l, "none") /\ Compatible("none", l)
      BY <1>1, <2>2 DEF LockInv, Compatible, ReservedByte
    <3>2. lock'[q] \in {"none", lock[q]} /\ lock'[r] \in {"none", lock[r]}
      BY GoneIs
    <3> QED
      BY <3>1, <3>2
  <2> QED
    BY <2>1, <2>2 DEF LockInv
<1>5. ASSUME NEW q \in Proc PROVE Holds(q)'
  <2>1. CASE q \in dead
    BY <2>1, GoneIs DEF Holds, UsesJournal, Reading, Writing, Filling
  <2>2. CASE q \notin dead
    <3>1. /\ pc'[q] = pc[q] /\ cache'[q] = cache[q] /\ dirty'[q] = dirty[q] /\ todo'[q] = todo[q]
          /\ Cached(q)' = Cached(q) /\ journal' = journal
      BY <2>2, GoneIs
    <3>2. /\ UsesJournal(q)' <=> UsesJournal(q)
          /\ Reading(q)' <=> Reading(q)
          /\ Played(journal)' = Played(journal) /\ Recorded(journal)' = Recorded(journal)
      BY <3>1 DEF UsesJournal, Reading, Played, Recorded
    <3> QED
      BY <1>1, <3>1, <3>2 DEF Holds
  <2> QED
    BY <2>1, <2>2
<1> QED
  BY <1>3, <1>4, <1>5 DEF BaseInv

\* What the disk shows after a loss of power.
LEMMA PowerTypes ==
  ASSUME BaseInv, PowerLoss
  PROVE  /\ PagesOK' /\ JournalsOK' /\ SyncOK'
         /\ \A pg \in Page : file'[pg] \in disk[pg]
<1>1. PagesOK /\ JournalsOK /\ SyncOK /\ Head \in Page
  BY TypeParts, PagerAssumption DEF BaseInv
<1>2. PagesOK' /\ \A pg \in Page : file'[pg] \in disk[pg]
  <2>1. \A pg \in Page : file'[pg] \in disk[pg]
    BY DEF PowerLoss
  <2>2. file' \in [Page -> Content]
    BY <1>1, <2>1 DEF PowerLoss, PagesOK
  <2> QED
    BY <1>1, <2>1, <2>2 DEF PowerLoss, PagesOK
<1>3. JournalsOK'
  BY <1>1 DEF PowerLoss, JournalsOK
<1> QED
  BY <1>1, <1>2, <1>3 DEF PowerLoss, SyncOK

LEMMA BaseInit == Init => BaseInv
<1> SUFFICES ASSUME Init PROVE BaseInv
  OBVIOUS
<1>1. \A pg \in Page : file[pg] \in Value \cup {0} /\ (file[pg] = 0 <=> pg = Head)
  BY DEF Init
<1>2. PagesOK
  BY <1>1, PagerAssumption DEF Init, PagesOK, Content, Counter
<1>3. JournalsOK
  BY FreshOK DEF Init, JournalsOK
<1>4. OwnOK
  BY FreshOK DEF Init, OwnOK, Lock, PC
<1>5. TypeInv
  BY <1>2, <1>3, <1>4, TypeParts DEF Init, SyncOK
<1>6. LockInv
  BY DEF Init, LockInv, Place, Compatible, ReservedByte
<1>7. ASSUME NEW p \in Proc PROVE Holds(p)
  BY DEF Init, Holds, UsesJournal, Reading, Filling, Writing
<1> QED
  BY <1>5, <1>6, <1>7 DEF BaseInv

LEMMA BaseStep == BaseInv /\ [Next]_vars => BaseInv'
<1> SUFFICES ASSUME BaseInv, [Next]_vars PROVE BaseInv'
  OBVIOUS
<1>1. ASSUME NEW p \in Proc, Step(p) PROVE BaseInv'
  <2>1. TypeInv'
    BY <1>1, TypeStep DEF BaseInv
  <2>2. LockInv'
    BY <1>1, LockStep DEF BaseInv
  <2>3. ASSUME NEW q \in Proc PROVE Holds(q)'
    BY <1>1, HoldsOwn, HoldsOthers
  <2> QED
    BY <2>1, <2>2, <2>3 DEF BaseInv
<1>2. ASSUME NEW p \in Proc, Crash(p) PROVE BaseInv'
  <2>1. Gone(Threads(p)) /\ UNCHANGED <<pages, journals, unsynced>>
    BY <1>2 DEF Crash
  <2>2. PagesOK' /\ JournalsOK' /\ SyncOK'
    BY <2>1, TypeParts DEF BaseInv, PagesOK, JournalsOK, SyncOK, pages, journals
  <2> QED
    BY <2>1, <2>2, BaseGone DEF journals
<1>3. CASE PowerLoss
  <2>1. Gone(Proc)
    BY <1>3 DEF PowerLoss
  <2> QED
    BY <1>3, <2>1, PowerTypes, BaseGone
<1>4. CASE UNCHANGED vars
  <2> USE <1>4 DEF vars, pages, journals
  <2>1. TypeInv' /\ LockInv'
    BY DEF BaseInv, TypeInv, TypeOK, HeadInv, LockInv
  <2>2. ASSUME NEW q \in Proc PROVE Holds(q)'
    BY DEF BaseInv, Holds, UsesJournal, Reading, Cached, Played, Recorded
  <2> QED
    BY <2>1, <2>2 DEF BaseInv
<1> QED
  BY <1>1, <1>2, <1>3, <1>4 DEF Next

\* The pager keeps to its types, whatever a connection keeps in its cache and
\* however connections share processes.
THEOREM TypeCorrect == Spec => []TypeOK
<1>1. BaseInv => TypeOK
  BY DEF BaseInv, TypeInv
<1> QED
  BY <1>1, BaseInit, BaseStep, PTL DEF Spec

\* However the checks of hasHotJournal and the locks of the others interleave,
\* two connections never use the journal at once, threads of one process
\* included.
THEOREM JournalHasOneUser == Spec => []OneJournalUser
<1>1. BaseInv => OneJournalUser
  <2> SUFFICES ASSUME BaseInv, NEW p \in Proc, NEW q \in Proc, UsesJournal(p), UsesJournal(q), p # q
               PROVE  FALSE
    BY DEF OneJournalUser
  <2>1. TypeInv /\ LockInv /\ lock[p] \in ReservedByte
    BY DEF BaseInv, LockInv, Place, UsesJournal, ReservedByte
  <2> QED
    BY <2>1, Apart
<1> QED
  BY <1>1, BaseInit, BaseStep, PTL DEF Spec

-----------------------------------------------------------------------------
(* The committed pages.                                                     *)

\* The file is the committed one while a writer fills its journal.
LEMMA FillingIsClean ==
  ASSUME DataInv, NEW p \in Proc, pc[p] \in Filling
  PROVE  Db = file
<1>1. /\ file \in [Page -> Content] /\ dirty[p] = Recorded(journal)
      /\ \A pg \in dirty[p] : journal.rec[pg] = file[pg]
  BY DEF DataInv, BaseInv, TypeInv, TypeOK, Holds, Owns, Writing
<1>2. Played(journal) \subseteq Recorded(journal)
  BY DEF Played
<1> QED
  BY <1>1, <1>2 DEF Db, Recovered

\* Only the deletion of the journal of a writer that is through changes them.
LEMMA DbStep ==
  ASSUME DataInv, NEW p \in Proc, Step(p), ~Commit(p)
  PROVE  Db' = Db
<1>a. /\ Holds(p) /\ Owns(p) /\ Sees(p)
      /\ file \in [Page -> Content]
      /\ journal \in Journal \cup {NoJournal}
      /\ pc[p] \in PC
  BY DEF DataInv, BaseInv, TypeInv, TypeOK
<1>b. journal # NoJournal => /\ journal = [rec |-> journal.rec, counted |-> journal.counted]
                             /\ journal.rec \in [Page -> Maybe]
  BY <1>a DEF Journal
<1>c. Fresh # NoJournal /\ ~Fresh.counted
  BY FreshOK
<1>d. \A f, j : Recovered(f, j) = [pg \in Page |-> IF pg \in Played(j) THEN j.rec[pg] ELSE f[pg]]
  BY DEF Recovered
<1>e. \A f : f \in [Page -> Content] => \A j : Played(j) = {} => Recovered(f, j) = f
  BY DEF Recovered
<1>1. CASE UNCHANGED <<file, journal>>
  BY <1>1 DEF Db, Recovered, Played, Recorded
<1>2. ASSUME NEW pg \in Page, PlayBack(p, pg) \/ WritePage(p, pg) PROVE Db' = Db
  <2>1. journal # NoJournal /\ pg \in Played(journal)
    BY <1>2, <1>a DEF PlayBack, WritePage, Holds, Owns, UsesJournal, Writing, Played
  <2>2. journal' = journal /\ \E c : file' = [file EXCEPT ![pg] = c]
    BY <1>2 DEF PlayBack, WritePage, Put, journals
  <2> QED
    BY <2>1, <2>2, <1>a DEF Db, Recovered, Played, Recorded
<1>3. CASE EndPlayback(p)
  <2>1. file' = file /\ journal' = NoJournal /\ journal # NoJournal
    BY <1>3, <1>a DEF EndPlayback, PutJournal, pages, Holds, Owns, UsesJournal
  <2>2. \A pg \in Played(journal) : file[pg] = journal.rec[pg]
    BY <1>3, <1>a DEF EndPlayback, Holds, Owns
  <2>3. Db = file
    BY <2>2, <1>a DEF Db, Recovered
  <2> QED
    BY <2>1, <2>3, <1>a, <1>e DEF Db, Played
<1>4. CASE OpenJournal(p)
  <2>1. /\ file' = file
        /\ \/ journal' = journal
           \/ journal = NoJournal /\ journal' = Fresh
    BY <1>4 DEF OpenJournal, PutJournal, pages, journals
  <2> QED
    BY <2>1, <1>a, <1>c, <1>e, <1>1 DEF Db, Played
<1>5. ASSUME NEW pg \in Page, NEW c, WriteCache(p, pg, c), UNCHANGED pages, pc[p] = "modify"
      PROVE  Db' = Db
  <2>1. journal # NoJournal /\ ~journal.counted
    BY <1>5, <1>a DEF Holds, Owns, UsesJournal
  <2>2. journal' = [journal EXCEPT !.rec[pg] = IF @ = NoContent THEN cache[p][pg] ELSE @]
    BY <1>5 DEF WriteCache, PutJournal
  <2>3. ~journal'.counted
    BY <2>1, <2>2, <1>b
  <2> QED
    BY <2>1, <2>3, <1>5, <1>a, <1>e DEF Db, Played, pages
<1>6. CASE CountRecords(p)
  <2>1. /\ journal # NoJournal /\ ~journal.counted
        /\ \A pg \in Recorded(journal) : journal.rec[pg] = file[pg]
    BY <1>6, <1>a DEF CountRecords, Holds, Owns, UsesJournal, Writing, Filling
  <2>2. journal' = [journal EXCEPT !.counted = TRUE] /\ file' = file
    BY <1>6 DEF CountRecords, SyncJournal, pages
  <2>3. journal'.rec = journal.rec
    BY <2>1, <2>2, <1>b
  <2>4. Played(journal') \subseteq Recorded(journal)
    BY <2>3 DEF Played, Recorded
  <2>5. Db' = file
    BY <2>1, <2>2, <2>3, <2>4, <1>a DEF Db, Recovered
  <2>6. Db = file
    BY <2>1, <1>a, <1>e DEF Db, Played
  <2> QED
    BY <2>5, <2>6
<1>7. CASE RollbackCache(p)
  <2>1. Db = file /\ file' = file /\ journal' = NoJournal
    BY <1>7, FillingIsClean DEF RollbackCache, PutJournal, Filling, pages
  <2> QED
    BY <2>1, <1>a, <1>e DEF Db, Played
<1>8. ASSUME NEW pg \in Page, NEW v \in Value, Modify(p, pg, v) PROVE Db' = Db
  BY <1>8, <1>5 DEF Modify
<1>9. CASE IncrChangeCounter(p)
  BY <1>9, <1>5, PagerAssumption DEF IncrChangeCounter
<1>10. CASE \/ GetShared(p) \/ CheckJournal(p) \/ CheckReserved(p) \/ LockToRecover(p)
          \/ OpenHotJournal(p) \/ (\E pg \in Page : ReadPage(p, pg)) \/ Validate(p) \/ Unlock(p)
          \/ Close(p) \/ Reserve(p) \/ LockToWrite(p) \/ RollbackFile(p) \/ GiveUp(p)
          \/ SyncRecords(p) \/ SyncFile(p)
  <2>1. UNCHANGED <<file, journal>>
    BY <1>10 DEF GetShared, CheckJournal, CheckReserved, LockToRecover, OpenHotJournal, ReadPage,
             Validate, Unlock, Close, Reserve, LockToWrite, RollbackFile, GiveUp, SyncRecords,
             SyncJournal, SyncFile, pages, journals
  <2> QED
    BY <2>1, <1>1
<1> QED
  BY <1>2, <1>3, <1>4, <1>6, <1>7, <1>8, <1>9, <1>10 DEF Step

\* The commit makes the file what it is.
LEMMA DbCommit ==
  ASSUME DataInv, NEW p \in Proc, Commit(p)
  PROVE  Db' = file /\ file' = file
<1>1. journal' = NoJournal /\ file' = file /\ file \in [Page -> Content]
  BY DEF Commit, PutJournal, pages, DataInv, BaseInv, TypeInv, TypeOK
<1> QED
  BY <1>1 DEF Db, Recovered, Played

-----------------------------------------------------------------------------
(* What a process knows is not disturbed by the others.                     *)

LEMMA OthersStep ==
  ASSUME DataInv, NEW p \in Proc, Step(p), NEW q \in Proc, q # p
  PROVE  Owns(q)' /\ Sees(q)'
<1>1. /\ TypeInv /\ LockInv /\ Holds(q) /\ Owns(q) /\ Sees(q) /\ pc[q] \in PC
  BY DEF DataInv, BaseInv, TypeInv, TypeOK
<1>2. /\ lock'[q] = lock[q] /\ pc'[q] = pc[q] /\ cache'[q] = cache[q]
      /\ dirty'[q] = dirty[q] /\ todo'[q] = todo[q]
  BY <1>1, StepIsOwn DEF OthersStay
<1>3. Reading(q)' <=> Reading(q)
  BY <1>2 DEF Reading
<1>4. Cached(q)' = Cached(q)
  BY <1>2 DEF Cached
<1>5. Owns(q)'
  <2>1. CASE lock[p] \notin ReservedByte
    <3>1. journal' = journal /\ file' = file
      BY <1>1, <2>1, WritersWrite DEF pages, journals
    <3>2. Db' = Db /\ Played(journal)' = Played(journal) /\ Recorded(journal)' = Recorded(journal)
      BY <3>1 DEF Db, Recovered, Played, Recorded
    <3> QED
      BY <1>1, <1>2, <1>4, <3>1, <3>2 DEF Owns
  <2>2. CASE lock[p] \in ReservedByte
    <3>1. ~UsesJournal(q)
      BY <1>1, <2>2, Apart
    <3> QED
      BY <1>2, <3>1, <1>1 DEF Owns, UsesJournal, Filling, Writing, PC
  <2> QED
    BY <2>1, <2>2
<1>6. Sees(q)'
  <2>1. CASE lock[p] = "exclusive"
    <3>1. pc[q] = "idle"
      BY <1>1, <2>1, Apart
    <3> QED
      BY <1>1, <1>2, <1>4, <3>1 DEF Sees, Reading, Filling, Writing, Waiting
  <2>2. CASE lock[p] # "exclusive"
    <3>1. file' = file
      BY <1>1, <2>2, WritersWrite DEF pages
    <3> QED
      BY <1>1, <1>2, <1>3, <1>4, <3>1 DEF Sees
  <2> QED
    BY <2>1, <2>2
<1> QED
  BY <1>5, <1>6

-----------------------------------------------------------------------------
(* ... and is kept true by its own steps.                                   *)

Knows(p) == Owns(p) /\ Sees(p)

\* A connection that has changed nothing and is not past "validate".
LEMMA WaitingKnows ==
  ASSUME NEW p \in Proc, pc'[p] \in Waiting \ {"playback"}, dirty'[p] = {}, todo'[p] = {},
         Cached(p)' \subseteq Kept
  PROVE  Knows(p)'
BY DEF Knows, Owns, Sees, Reading, Filling, Writing, Waiting

\* One that reads, and has changed nothing.
LEMMA ReadingKnows ==
  ASSUME NEW p \in Proc, pc'[p] \in {"read", "openJournal", "end"}, dirty'[p] = {}, todo'[p] = {},
         \A pg \in Cached(p)' : cache'[p][pg] = file'[pg]
  PROVE  Knows(p)'
BY DEF Knows, Owns, Sees, Reading, Filling, Writing, Waiting

LEMMA WaitSteps ==
  ASSUME DataInv, NEW p \in Proc,
         \/ GetShared(p) \/ CheckJournal(p) \/ CheckReserved(p) \/ LockToRecover(p) \/ GiveUp(p)
         \/ Close(p) \/ Unlock(p)
  PROVE  Knows(p)'
<1>1. /\ Holds(p) /\ Sees(p)
      /\ pc \in [Proc -> PC] /\ cache \in [Proc -> [Page -> Maybe]]
  BY DEF DataInv, BaseInv, TypeInv, TypeOK
<1>2. \A pg \in Page : Nothing[pg] = NoContent
  BY DEF Nothing
<1>3. CASE GetShared(p) \/ CheckJournal(p) \/ CheckReserved(p) \/ LockToRecover(p) \/ GiveUp(p)
  <2>1. /\ pc[p] \in Waiting \ {"playback"} /\ pc'[p] \in Waiting \ {"playback"}
        /\ dirty' = dirty /\ todo' = todo /\ cache' = cache
    BY <1>3, <1>1 DEF GetShared, CheckJournal, CheckReserved, LockToRecover, GiveUp, Goto, Waiting
  <2>2. dirty[p] = {} /\ todo[p] = {} /\ Cached(p) \subseteq Kept /\ Cached(p)' = Cached(p)
    BY <1>1, <2>1 DEF Holds, Sees, Writing, Filling, Waiting, Cached
  <2> QED
    BY <2>1, <2>2, WaitingKnows
<1>4. CASE Close(p) \/ Unlock(p)
  <2>1. pc'[p] = "idle" /\ dirty'[p] = {} /\ todo'[p] = {}
    BY <1>4, <1>1 DEF Close, Unlock, Goto, Holds, Sees, Writing, Filling
  <2>2. Cached(p)' \subseteq Kept
    <3>1. cache'[p] \in {cache[p], Nothing} /\ (cache'[p] = Nothing \/ Cached(p) \subseteq Kept)
      <4>1. CASE Close(p)
        BY <4>1, <1>1 DEF Close
      <4>2. CASE Unlock(p)
        BY <4>2, <1>1 DEF Unlock
      <4> QED
        BY <1>4, <4>1, <4>2
    <3> QED
      BY <3>1, <1>2 DEF Cached
  <2> QED
    BY <2>1, <2>2, WaitingKnows DEF Waiting
<1> QED
  BY <1>3, <1>4

\* The recovery of a hot journal, or of one's own.
LEMMA RecoverySteps ==
  ASSUME DataInv, NEW p \in Proc,
         \/ OpenHotJournal(p) \/ (\E pg \in Page : PlayBack(p, pg)) \/ EndPlayback(p)
         \/ RollbackFile(p)
  PROVE  Knows(p)'
<1>1. /\ Holds(p) /\ Owns(p) /\ Sees(p) /\ TypeInv /\ LockInv /\ pc[p] \in PC
      /\ pc \in [Proc -> PC] /\ cache \in [Proc -> [Page -> Maybe]] /\ file \in [Page -> Content]
      /\ dirty \in [Proc -> SUBSET Page] /\ todo \in [Proc -> SUBSET Page]
      /\ journal \in Journal \cup {NoJournal}
  BY DEF DataInv, BaseInv, TypeInv, TypeOK
<1>2. \A pg \in Page : Db[pg] = IF pg \in Played(journal) THEN journal.rec[pg] ELSE file[pg]
  BY DEF Db, Recovered
<1>3. Step(p) /\ ~Commit(p) => Db' = Db
  BY DbStep
<1>4. UNCHANGED <<file, journal>> => /\ Db' = Db /\ Played(journal)' = Played(journal)
                                    /\ Recorded(journal)' = Recorded(journal)
  BY DEF Db, Recovered, Played, Recorded
<1>5. CASE OpenHotJournal(p)
  <2>1. pc[p] = "reopen" /\ cache' = cache /\ dirty' = dirty /\ file' = file /\ journal' = journal
    BY <1>5 DEF OpenHotJournal, pages, journals
  <2>2. dirty[p] = {} /\ todo[p] = {} /\ Cached(p) \subseteq Kept
    BY <1>1, <2>1 DEF Holds, Sees, Writing, Filling, Waiting
  <2>3. Cached(p)' = Cached(p)
    BY <2>1 DEF Cached
  <2>4. CASE pc'[p] = "idle" /\ todo' = todo
    BY <2>1, <2>2, <2>3, <2>4, WaitingKnows DEF Waiting
  <2>5. CASE pc'[p] = "playback" /\ todo'[p] = Played(journal) /\ journal # NoJournal
    BY <2>1, <2>2, <2>3, <2>5, <1>4
    DEF Knows, Holds, Owns, Sees, UsesJournal, Reading, Filling, Writing, Waiting
  <2> QED
    BY <1>5, <1>1, <2>4, <2>5 DEF OpenHotJournal, Goto
<1>6. ASSUME NEW pg \in Page, PlayBack(p, pg) PROVE Knows(p)'
  <2>1. /\ pc[p] = "playback" /\ pc'[p] = "playback" /\ pg \in todo[p] /\ journal' = journal
        /\ file' = [file EXCEPT ![pg] = journal.rec[pg]]
        /\ cache'[p] = [cache[p] EXCEPT ![pg] = IF @ = NoContent THEN @ ELSE journal.rec[pg]]
        /\ todo'[p] = todo[p] \ {pg} /\ dirty' = dirty
    BY <1>6, <1>1 DEF PlayBack, Put, journals
  <2>2. /\ journal # NoJournal /\ pg \in Played(journal) /\ todo[p] \subseteq Played(journal)
        /\ Played(journal) \subseteq Page /\ journal.rec[pg] # NoContent
    BY <2>1, <1>1, JournalTypes DEF Holds, Owns, UsesJournal, Played, Recorded
  <2>3. Cached(p)' = Cached(p)
    BY <2>1, <2>2, <1>1 DEF Cached
  <2>4. Db' = Db
    BY <1>6, <1>3, <2>1 DEF Step, Commit
  <2>5. Played(journal)' = Played(journal) /\ Recorded(journal)' = Recorded(journal)
    BY <2>1 DEF Played, Recorded
  <2>6. \A x \in Played(journal) \ todo'[p] : file'[x] = journal.rec[x]
    BY <2>1, <2>2, <1>1 DEF Holds, Owns
  <2>7. dirty[p] # {} => \A x \in Cached(p) \ todo'[p] : cache'[p][x] = Db[x]
    BY <2>1, <2>2, <1>1, <1>2 DEF Holds, Owns, Cached
  <2>8. Owns(p)'
    BY <2>1, <2>2, <2>3, <2>4, <2>5, <2>6, <2>7, <1>1 DEF Holds, Owns, UsesJournal, Filling, Writing
  <2>9. Sees(p)'
    BY <2>1, <2>3, <1>1 DEF Holds, Sees, Reading, Filling, Writing, Waiting
  <2> QED
    BY <2>8, <2>9 DEF Knows
<1>7. CASE EndPlayback(p)
  <2>1. /\ pc[p] = "playback" /\ pc'[p] = IF dirty[p] = {} THEN "validate" ELSE "end"
        /\ todo[p] = {} /\ todo' = todo /\ dirty'[p] = {} /\ cache' = cache /\ file' = file
    BY <1>7, <1>1 DEF EndPlayback, Goto, pages
  <2>2. Cached(p)' = Cached(p)
    BY <2>1 DEF Cached
  <2>3. Db' = Db
    BY <1>7, <1>3, <2>1 DEF Step, Commit
  <2>4. Db = file
    BY <1>1, <1>2, <2>1 DEF Holds, Owns, Db, Recovered
  <2>5. CASE dirty[p] = {}
    BY <1>1, <2>1, <2>2, <2>5, WaitingKnows DEF Sees, Waiting
  <2>6. CASE dirty[p] # {}
    <3>1. Head \in Cached(p) /\ \A pg \in Cached(p) : cache[p][pg] = Db[pg]
      BY <1>1, <2>1, <2>6 DEF Holds, Owns, Sees
    <3> QED
      BY <2>1, <2>2, <2>3, <2>4, <2>6, <3>1, ReadingKnows
  <2> QED
    BY <2>5, <2>6
<1>8. CASE RollbackFile(p)
  <2>1. /\ pc[p] \in {"write", "synced"} /\ pc'[p] = "playback" /\ todo'[p] = Played(journal)
        /\ UNCHANGED <<file, journal, cache, dirty>>
    BY <1>8, <1>1 DEF RollbackFile, Goto, pages, journals
  <2>2. /\ journal # NoJournal /\ journal.counted /\ dirty[p] = Recorded(journal) /\ Head \in dirty[p]
        /\ \A pg \in Cached(p) \ dirty[p] : cache[p][pg] = file[pg]
    BY <2>1, <1>1 DEF Holds, Owns, Sees, UsesJournal, Reading, Writing, Filling
  <2>3. Played(journal) = dirty[p] /\ \A pg \in Cached(p) \ dirty[p] : cache[p][pg] = Db[pg]
    BY <2>2, <1>2 DEF Played, Cached
  <2>4. Cached(p)' = Cached(p)
    BY <2>1 DEF Cached
  <2> QED
    BY <2>1, <2>2, <2>3, <2>4, <1>1, <1>4
    DEF Knows, Holds, Owns, Sees, UsesJournal, Reading, Filling, Writing, Waiting
<1> QED
  BY <1>5, <1>6, <1>7, <1>8

\* Steps of a process that has changed nothing, or changes nothing any more.
LEMMA ReadSteps ==
  ASSUME DataInv, OnlyHeadKept, NEW p \in Proc,
         \/ Validate(p) \/ (\E pg \in Page : ReadPage(p, pg)) \/ Reserve(p) \/ Commit(p)
         \/ RollbackCache(p)
  PROVE  Knows(p)'
<1>1. /\ Holds(p) /\ Owns(p) /\ Sees(p) /\ pc[p] \in PC
      /\ pc \in [Proc -> PC] /\ cache \in [Proc -> [Page -> Maybe]] /\ file \in [Page -> Content]
      /\ dirty \in [Proc -> SUBSET Page] /\ todo \in [Proc -> SUBSET Page]
      /\ journal \in Journal \cup {NoJournal} /\ file[Head] \in Counter
  BY DEF DataInv, BaseInv, TypeInv, TypeOK, HeadInv
<1>2. \A pg \in Page : Db[pg] = IF pg \in Played(journal) THEN journal.rec[pg] ELSE file[pg]
  BY DEF Db, Recovered
<1>3. UNCHANGED <<file, journal>> => Db' = Db
  BY DEF Db, Recovered, Played, Recorded
<1>4. Head \in Page /\ NoContent \notin Content /\ NoContent \notin Counter
      /\ \A pg \in Page : Nothing[pg] = NoContent
  BY PagerAssumption DEF Content, Counter, Nothing
<1>5. CASE Validate(p)
  <2>1. /\ pc[p] = "validate" /\ pc'[p] = "read" /\ dirty' = dirty /\ todo' = todo
        /\ cache'[p] = [CacheValid(p) EXCEPT ![Head] = IF @ = NoContent THEN file[Head] ELSE @]
        /\ file' = file /\ journal' = journal
    BY <1>5, <1>1 DEF Validate, Goto, pages, journals
  <2>2. dirty[p] = {} /\ todo[p] = {} /\ Cached(p) \subseteq {Head}
    BY <1>1, <2>1 DEF Holds, Sees, Writing, Filling, Waiting, OnlyHeadKept
  <2>3. /\ CacheValid(p) \in [Page -> Maybe]
        /\ CacheValid(p)[Head] \in {NoContent, file[Head]}
        /\ \A pg \in Page \ {Head} : CacheValid(p)[pg] = NoContent
    <3>1. Nothing \in [Page -> Maybe]
      BY DEF Nothing, Maybe
    <3> QED
      BY <1>1, <1>4, <2>2, <3>1 DEF CacheValid, Cached
  <2>4. cache'[p][Head] = file[Head] /\ \A pg \in Page \ {Head} : cache'[p][pg] = NoContent
    BY <1>4, <2>1, <2>3
  <2>5. Cached(p)' = {Head}
    BY <1>1, <1>4, <2>4 DEF Cached
  <2> QED
    BY <2>1, <2>2, <2>4, <2>5, <1>3, ReadingKnows
<1>6. ASSUME NEW pg \in Page, ReadPage(p, pg) PROVE Knows(p)'
  <2>1. /\ pc[p] = "read" /\ pc' = pc /\ dirty' = dirty /\ todo' = todo
        /\ cache'[p] = [cache[p] EXCEPT ![pg] = file[pg]]
        /\ file' = file /\ journal' = journal
    BY <1>6, <1>1 DEF ReadPage, pages, journals
  <2>2. /\ dirty[p] = {} /\ todo[p] = {}
        /\ \A x \in Cached(p) : cache[p][x] = file[x]
    BY <1>1, <2>1 DEF Holds, Sees, Writing, Filling, Reading
  <2>3. Cached(p)' = Cached(p) \cup {pg}
    BY <1>1, <1>4, <2>1 DEF Cached
  <2>4. \A x \in Cached(p)' : cache'[p][x] = file[x]
    BY <1>1, <2>1, <2>2, <2>3 DEF Cached
  <2> QED
    BY <2>1, <2>2, <2>3, <2>4, <1>3, ReadingKnows
<1>7. CASE Reserve(p)
  <2>1. /\ pc[p] = "read" /\ pc'[p] = "openJournal" /\ dirty' = dirty /\ todo' = todo /\ cache' = cache
        /\ file' = file /\ journal' = journal
    BY <1>7, <1>1 DEF Reserve, Goto, pages, journals
  <2>2. /\ dirty[p] = {} /\ todo[p] = {}
        /\ \A x \in Cached(p) : cache[p][x] = file[x]
    BY <1>1, <2>1 DEF Holds, Sees, Writing, Filling, Reading
  <2>3. Cached(p)' = Cached(p)
    BY <2>1 DEF Cached
  <2> QED
    BY <2>1, <2>2, <2>3, <1>3, ReadingKnows
<1>8. CASE Commit(p)
  <2>1. /\ pc[p] = "synced" /\ pc'[p] = "end" /\ dirty'[p] = {} /\ todo' = todo /\ cache' = cache
        /\ todo[p] = {}
    BY <1>8, <1>1 DEF Commit, Goto, Holds, Owns
  <2>2. Db' = file /\ file' = file
    BY <1>8, DbCommit
  <2>3. /\ \A x \in dirty[p] : file[x] = cache[p][x]
        /\ \A x \in Cached(p) \ dirty[p] : cache[p][x] = file[x]
    BY <1>1, <2>1 DEF Holds, Owns, Sees, UsesJournal, Writing, Filling, Reading
  <2>4. \A x \in Cached(p) : cache[p][x] = file[x]
    BY <2>3
  <2>5. Cached(p)' = Cached(p)
    BY <2>1 DEF Cached
  <2> QED
    BY <2>1, <2>2, <2>3, <2>4, <2>5, ReadingKnows
<1>9. CASE RollbackCache(p)
  <2>1. /\ pc[p] \in Filling /\ pc'[p] = "end" /\ dirty'[p] = {} /\ todo' = todo
        /\ cache'[p] = [pg \in Page |-> IF pg \in dirty[p] THEN journal.rec[pg] ELSE cache[p][pg]]
        /\ file' = file /\ journal' = NoJournal
    BY <1>9, <1>1 DEF RollbackCache, Goto, Filling, PutJournal, pages
  <2>2. /\ dirty[p] = Recorded(journal) /\ todo[p] = {}
        /\ \A x \in dirty[p] : journal.rec[x] = file[x]
        /\ \A x \in Cached(p) \ dirty[p] : cache[p][x] = file[x]
        /\ dirty[p] \subseteq Cached(p)
    BY <1>1, <2>1 DEF Holds, Owns, Sees, Writing, Filling, Reading
  <2>3. Cached(p)' = Cached(p)
    BY <2>1, <2>2, <1>1 DEF Cached, Recorded
  <2>4. \A x \in Cached(p) : cache'[p][x] = file[x]
    BY <2>1, <2>2 DEF Cached
  <2> QED
    BY <2>1, <2>2, <2>3, <2>4, ReadingKnows
<1> QED
  BY <1>5, <1>6, <1>7, <1>8, <1>9

\* Two steps that change a page in the cache.
LEMMA RecordStep ==
  ASSUME DataInv, NEW p \in Proc, NEW pg \in Cached(p), NEW c \in Content, pc[p] = "modify",
         WriteCache(p, pg, c), UNCHANGED <<pages, todo>>,
         pc'[p] = "modify" \/ (pc'[p] = "sync" /\ pg = Head)
  PROVE  Knows(p)'
<1>1. /\ Holds(p) /\ Owns(p) /\ Sees(p) /\ pg \in Page
      /\ cache \in [Proc -> [Page -> Maybe]] /\ file \in [Page -> Content]
      /\ dirty \in [Proc -> SUBSET Page] /\ journal \in Journal \cup {NoJournal}
  BY DEF DataInv, BaseInv, TypeInv, TypeOK, Cached
<1>2. /\ journal # NoJournal /\ ~journal.counted /\ dirty[p] = Recorded(journal) /\ todo[p] = {}
      /\ \A x \in dirty[p] : journal.rec[x] = file[x]
      /\ \A x \in Cached(p) \ dirty[p] : cache[p][x] = file[x]
  BY <1>1 DEF Holds, Owns, Sees, UsesJournal, Writing, Filling, Reading
<1>3. journal' = [journal EXCEPT !.rec[pg] = IF @ = NoContent THEN cache[p][pg] ELSE @]
  BY DEF WriteCache, PutJournal
<1>4. /\ journal \in Journal /\ journal'.counted = journal.counted
      /\ journal'.rec = [journal.rec EXCEPT ![pg] = IF @ = NoContent THEN cache[p][pg] ELSE @]
      /\ journal.rec \in [Page -> Maybe]
  BY <1>1, <1>2, <1>3 DEF Journal
<1>5. journal' # NoJournal
  BY <1>1, <1>2, <1>3, <1>4, NoJournalAssumption DEF Journal
<1>6. /\ cache'[p] = [cache[p] EXCEPT ![pg] = c] /\ dirty'[p] = dirty[p] \cup {pg}
      /\ file' = file /\ todo' = todo
  BY <1>1 DEF WriteCache, pages
<1>7. c # NoContent /\ cache[p][pg] # NoContent
  BY PagerAssumption DEF Content, Cached
<1>8. Cached(p)' = Cached(p)
  BY <1>1, <1>6, <1>7 DEF Cached
<1>9. Recorded(journal)' = Recorded(journal) \cup {pg}
  BY <1>1, <1>4, <1>7 DEF Recorded
<1>10. \A x \in dirty'[p] : journal'.rec[x] = file[x]
  <2>1. pg \notin dirty[p] => journal'.rec[pg] = file[pg]
    BY <1>1, <1>2, <1>4 DEF Recorded
  <2>2. \A x \in dirty[p] : journal'.rec[x] = journal.rec[x]
    BY <1>2, <1>4 DEF Recorded
  <2> QED
    BY <1>2, <1>6, <2>1, <2>2
<1>11. \A x \in Cached(p) \ dirty'[p] : cache'[p][x] = file[x]
  BY <1>2, <1>6
<1>12. Owns(p)'
  BY <1>2, <1>4, <1>6, <1>10 DEF Owns, Writing, Filling
<1>13. Sees(p)'
  BY <1>2, <1>6, <1>8, <1>11 DEF Sees, Writing, Filling, Reading, Waiting
<1> QED
  BY <1>12, <1>13 DEF Knows

\* Steps of a writer.
LEMMA WriteSteps ==
  ASSUME DataInv, NEW p \in Proc,
         \/ OpenJournal(p) \/ SyncRecords(p) \/ CountRecords(p) \/ LockToWrite(p)
         \/ (\E pg \in Page : WritePage(p, pg)) \/ SyncFile(p)
  PROVE  Knows(p)'
<1>1. /\ Holds(p) /\ Owns(p) /\ Sees(p) /\ pc[p] \in PC
      /\ pc \in [Proc -> PC] /\ cache \in [Proc -> [Page -> Maybe]] /\ file \in [Page -> Content]
      /\ dirty \in [Proc -> SUBSET Page] /\ todo \in [Proc -> SUBSET Page]
      /\ journal \in Journal \cup {NoJournal}
  BY DEF DataInv, BaseInv, TypeInv, TypeOK
<1>2. Step(p) /\ ~Commit(p) => Db' = Db
  BY DbStep
<1>3. UNCHANGED journal => Played(journal)' = Played(journal) /\ Recorded(journal)' = Recorded(journal)
  BY DEF Played, Recorded
<1>4. CASE OpenJournal(p)
  <2>1. /\ pc[p] = "openJournal" /\ cache' = cache /\ dirty' = dirty /\ todo' = todo /\ file' = file
        /\ \/ journal' = Fresh /\ pc'[p] = "modify"
           \/ pc'[p] = "end"
    BY <1>4, <1>1 DEF OpenJournal, PutJournal, Goto, pages
  <2>2. /\ dirty[p] = {} /\ todo[p] = {}
        /\ \A x \in Cached(p) : cache[p][x] = file[x]
    BY <1>1, <2>1 DEF Holds, Sees, Writing, Filling, Reading
  <2>3. Cached(p)' = Cached(p)
    BY <2>1 DEF Cached
  <2>4. Db' = Db
    BY <1>4, <1>2, <2>1 DEF Step, Commit
  <2>5. CASE pc'[p] = "end"
    BY <2>1, <2>2, <2>3, <2>4, <2>5, ReadingKnows
  <2>6. CASE journal' = Fresh /\ pc'[p] = "modify"
    <3>1. Recorded(journal)' = {}
      BY <2>6, FreshOK
    <3>2. Owns(p)'
      BY <2>1, <2>2, <2>6, <3>1, FreshOK DEF Holds, Owns, Writing, Filling
    <3>3. Sees(p)'
      BY <2>1, <2>2, <2>3, <2>4, <2>6 DEF Holds, Sees, Writing, Filling, Reading, Waiting
    <3> QED
      BY <3>2, <3>3 DEF Knows
  <2> QED
    BY <2>1, <2>5, <2>6
<1>5. CASE SyncRecords(p)
  <2>1. /\ pc[p] = "sync" /\ pc'[p] = "count"
        /\ UNCHANGED <<cache, dirty, todo, file, journal>>
    BY <1>5, <1>1 DEF SyncRecords, SyncJournal, Goto, pages
  <2>2. Db' = Db /\ Cached(p)' = Cached(p)
    BY <1>5, <1>2, <2>1 DEF Step, Commit, Cached
  <2>3. Owns(p)'
    BY <2>1, <1>1, <1>3 DEF Holds, Owns, UsesJournal, Writing, Filling
  <2>4. Sees(p)'
    BY <2>1, <2>2, <1>1 DEF Holds, Sees, Reading, Writing, Filling, Waiting
  <2> QED
    BY <2>3, <2>4 DEF Knows
<1>6. CASE CountRecords(p)
  <2>1. /\ pc[p] = "count" /\ pc'[p] = "lock" /\ journal' = [journal EXCEPT !.counted = TRUE]
        /\ UNCHANGED <<cache, dirty, todo, file>>
    BY <1>6, <1>1 DEF CountRecords, SyncJournal, Goto, pages
  <2>2. Db' = Db /\ Cached(p)' = Cached(p)
    BY <1>6, <1>2, <2>1 DEF Step, Commit, Cached
  <2>3. journal \in Journal /\ journal'.rec = journal.rec /\ journal'.counted /\ journal' # NoJournal
    BY <2>1, <1>1, NoJournalAssumption DEF Holds, Owns, UsesJournal, Journal
  <2>4. Recorded(journal)' = Recorded(journal)
    BY <2>3 DEF Recorded
  <2>5. Owns(p)'
    BY <2>1, <2>3, <2>4, <1>1 DEF Holds, Owns, Writing, Filling
  <2>6. Sees(p)'
    BY <2>1, <2>2, <1>1 DEF Holds, Sees, Reading, Writing, Filling, Waiting
  <2> QED
    BY <2>5, <2>6 DEF Knows
<1>7. CASE LockToWrite(p)
  <2>1. /\ pc[p] = "lock" /\ UNCHANGED <<cache, dirty, file, journal>>
        /\ \/ pc'[p] = "write" /\ todo'[p] = dirty[p]
           \/ pc' = pc /\ todo' = todo
    BY <1>7, <1>1 DEF LockToWrite, Goto, pages, journals
  <2>2. Db' = Db /\ Cached(p)' = Cached(p)
    BY <1>7, <1>2, <2>1 DEF Step, Commit, Cached
  <2>3. Owns(p)'
    BY <2>1, <1>1, <1>3 DEF Holds, Owns, UsesJournal, Writing, Filling
  <2>4. Sees(p)'
    BY <2>1, <2>2, <1>1 DEF Holds, Sees, Reading, Writing, Filling, Waiting
  <2> QED
    BY <2>3, <2>4 DEF Knows
<1>8. ASSUME NEW pg \in Page, WritePage(p, pg) PROVE Knows(p)'
  <2>1. /\ pc[p] = "write" /\ pc' = pc /\ UNCHANGED <<cache, dirty, journal>>
        /\ file' = [file EXCEPT ![pg] = cache[p][pg]] /\ todo'[p] = todo[p] \ {pg} /\ pg \in todo[p]
    BY <1>8, <1>1 DEF WritePage, Put, journals
  <2>2. Db' = Db /\ Cached(p)' = Cached(p)
    BY <1>8, <1>2, <2>1 DEF Step, Commit, Cached
  <2>3. \A x \in dirty[p] \ todo'[p] : file'[x] = cache[p][x]
    BY <2>1, <1>1 DEF Holds, Owns
  <2>4. Owns(p)'
    BY <2>1, <2>3, <1>1, <1>3 DEF Holds, Owns, UsesJournal, Writing, Filling
  <2>5. Sees(p)'
    BY <2>1, <2>2, <1>1 DEF Holds, Sees, Reading, Writing, Filling, Waiting
  <2> QED
    BY <2>4, <2>5 DEF Knows
<1>9. CASE SyncFile(p)
  <2>1. /\ pc[p] = "write" /\ pc'[p] = "synced" /\ todo[p] = {}
        /\ UNCHANGED <<cache, dirty, journal, file, todo>>
    BY <1>9, <1>1 DEF SyncFile, Goto, journals
  <2>2. Db' = Db /\ Cached(p)' = Cached(p)
    BY <1>9, <1>2, <2>1 DEF Step, Commit, Cached
  <2>3. Owns(p)'
    BY <2>1, <1>1, <1>3 DEF Holds, Owns, UsesJournal, Writing, Filling
  <2>4. Sees(p)'
    BY <2>1, <2>2, <1>1 DEF Holds, Sees, Reading, Writing, Filling, Waiting
  <2> QED
    BY <2>3, <2>4 DEF Knows
<1> QED
  BY <1>4, <1>5, <1>6, <1>7, <1>8, <1>9

-----------------------------------------------------------------------------
(* All steps.                                                               *)

LEMMA OwnStep ==
  ASSUME DataInv, OnlyHeadKept, NEW p \in Proc, Step(p)
  PROVE  Knows(p)'
<1>1. ASSUME NEW pg \in Page, NEW v \in Value, Modify(p, pg, v) PROVE Knows(p)'
  <2>1. /\ pg \in Cached(p) /\ pc[p] = "modify" /\ pc' = pc /\ UNCHANGED <<pages, todo>>
        /\ WriteCache(p, pg, IF pg = Head THEN cache[p][Head] ELSE v)
    BY <1>1 DEF Modify
  <2>2. (IF pg = Head THEN cache[p][Head] ELSE v) \in Content
    BY <2>1 DEF DataInv, BaseInv, TypeInv, HeadInv, Cached, Content, Counter
  <2> QED
    BY <2>1, <2>2, RecordStep
<1>2. CASE IncrChangeCounter(p)
  <2>1. /\ pc[p] = "modify" /\ pc'[p] = "sync" /\ UNCHANGED <<pages, todo>>
        /\ WriteCache(p, Head, cache[p][Head] + 1) /\ cache[p][Head] < MaxCounter
    BY <1>2 DEF IncrChangeCounter, Goto, DataInv, BaseInv, TypeInv, TypeOK
  <2>2. Head \in Cached(p)
    BY <2>1 DEF DataInv, BaseInv, Holds, Sees, Reading
  <2>3. cache[p][Head] + 1 \in Content
    BY <2>1, <2>2, PagerAssumption DEF DataInv, BaseInv, TypeInv, HeadInv, Cached, Content, Counter
  <2> QED
    BY <2>1, <2>2, <2>3, RecordStep
<1> QED
  BY <1>1, <1>2, WaitSteps, RecoverySteps, ReadSteps, WriteSteps DEF Step

LEMMA DataInit == Init => DataInv
<1> SUFFICES ASSUME Init PROVE DataInv
  OBVIOUS
<1>1. ASSUME NEW p \in Proc PROVE Owns(p) /\ Sees(p)
  <2>1. Cached(p) = {}
    BY DEF Init, Cached, Nothing
  <2> QED
    BY <2>1 DEF Init, Owns, Sees, Reading, Filling, Writing, Waiting
<1> QED
  BY <1>1, BaseInit DEF DataInv

LEMMA DataGone ==
  ASSUME DataInv, BaseInv', NEW dead, Gone(dead), UNCHANGED <<file, journal>> \/ Proc \subseteq dead
  PROVE  DataInv'
<1>1. ASSUME NEW q \in Proc PROVE Owns(q)' /\ Sees(q)'
  <2>1. CASE q \in dead
    BY <2>1, GoneIs DEF Owns, Sees, Reading, Filling, Writing, Waiting
  <2>2. CASE q \notin dead
    <3>1. /\ pc'[q] = pc[q] /\ cache'[q] = cache[q] /\ dirty'[q] = dirty[q] /\ todo'[q] = todo[q]
          /\ Cached(q)' = Cached(q) /\ UNCHANGED <<file, journal>>
      BY <2>2, GoneIs
    <3>2. /\ Reading(q)' <=> Reading(q)
          /\ Db' = Db /\ Played(journal)' = Played(journal) /\ Recorded(journal)' = Recorded(journal)
      BY <3>1 DEF Reading, Db, Recovered, Played, Recorded
    <3>3. Owns(q) /\ Sees(q)
      BY DEF DataInv
    <3> QED
      BY <3>1, <3>2, <3>3 DEF Owns, Sees
  <2> QED
    BY <2>1, <2>2
<1> QED
  BY <1>1 DEF DataInv

LEMMA DataStep == OnlyHeadKept /\ DataInv /\ [Next]_vars => DataInv'
<1> SUFFICES ASSUME OnlyHeadKept, DataInv, [Next]_vars PROVE DataInv'
  OBVIOUS
<1>1. BaseInv'
  BY BaseStep DEF DataInv
<1>2. ASSUME NEW p \in Proc, Step(p) PROVE DataInv'
  <2>1. ASSUME NEW q \in Proc PROVE Owns(q)' /\ Sees(q)'
    BY <1>2, OwnStep, OthersStep DEF Knows
  <2> QED
    BY <1>1, <2>1 DEF DataInv
<1>3. ASSUME NEW p \in Proc, Crash(p) PROVE DataInv'
  BY <1>1, <1>3, DataGone DEF Crash, pages, journals
<1>4. CASE PowerLoss
  BY <1>1, <1>4, DataGone DEF PowerLoss
<1>5. CASE UNCHANGED vars
  <2> USE <1>5 DEF vars, pages, journals
  <2>1. ASSUME NEW q \in Proc PROVE Owns(q)' /\ Sees(q)'
    BY DEF DataInv, Owns, Sees, Reading, Cached, Db, Recovered, Played, Recorded
  <2> QED
    BY <1>1, <2>1 DEF DataInv
<1> QED
  BY <1>2, <1>3, <1>4, <1>5 DEF Next

-----------------------------------------------------------------------------
(* The disk.                                                                *)

\* With nothing to play back, the file is the committed one.
LEMMA NothingPlayed ==
  ASSUME DataInv, DiskInv, ~unsynced, ~Counted
  PROVE  Settled
BY DEF DiskInv, Counted, Settled, Played

LEMMA DiskInit == Init => DiskInv
BY PagerAssumption DEF Init, DiskInv, OnDisk, Played, Counted, Settled, Filling

LEMMA DiskPowerLoss == DataInv /\ DiskInv /\ PowerLoss => DiskInv'
<1> SUFFICES ASSUME DataInv, DiskInv, PowerLoss PROVE DiskInv'
  OBVIOUS
<1>1. Settled'
  BY DEF PowerLoss, Settled
<1>2. /\ OnDisk(journal)' = journal' /\ jdisk' = {journal'}
      /\ \A j \in jdisk' : OnDisk(j) = j
  BY DEF PowerLoss, DiskInv, OnDisk
<1>3. \A pg \in Page : file'[pg] \in disk'[pg]
  BY DEF PowerLoss
<1>4. \A p \in Proc : pc'[p] = "idle"
  BY GoneIs DEF PowerLoss
<1> QED
  BY <1>1, <1>2, <1>3, <1>4 DEF DiskInv, Settled, Filling

\* The journal files the disk may hold.
LEMMA JournalDisk ==
  ASSUME DataInv, DiskInv, NEW p \in Proc, Step(p)
  PROVE  /\ OnDisk(journal)' \in jdisk'
         /\ \A j \in jdisk' : OnDisk(j) = j
         /\ Counted' => jdisk' = {journal'}
<1>a. /\ Holds(p) /\ Owns(p) /\ journal \in Journal \cup {NoJournal}
      /\ \A j \in jdisk : OnDisk(j) = j
      /\ OnDisk(journal) \in jdisk /\ (Counted => jdisk = {journal})
  BY DEF DataInv, BaseInv, TypeInv, TypeOK, DiskInv
<1>b. /\ OnDisk(Fresh) = Fresh /\ OnDisk(NoJournal) = NoJournal
      /\ \A j : OnDisk(OnDisk(j)) = OnDisk(j)
  BY FreshOK DEF OnDisk
<1>1. CASE UNCHANGED journals
  BY <1>1, <1>a DEF journals, OnDisk, Counted
<1>2. ASSUME NEW j, PutJournal(j), j = NoJournal \/ ~j.counted
      PROVE  /\ OnDisk(journal)' \in jdisk' /\ \A k \in jdisk' : OnDisk(k) = k
             /\ Counted' => jdisk' = {journal'}
  <2>1. journal' = j /\ jdisk' = jdisk \cup {OnDisk(j)} /\ OnDisk(journal)' = OnDisk(j)
    BY <1>2 DEF PutJournal, OnDisk
  <2> QED
    BY <1>2, <2>1, <1>a, <1>b DEF Counted
<1>3. ASSUME NEW j, SyncJournal(j), OnDisk(j) = j \/ ~j.counted
      PROVE  /\ OnDisk(journal)' \in jdisk' /\ \A k \in jdisk' : OnDisk(k) = k
             /\ Counted' => jdisk' = {journal'}
  <2>1. journal' = j /\ jdisk' = {OnDisk(j)} /\ OnDisk(journal)' = OnDisk(j)
    BY <1>3 DEF SyncJournal, OnDisk
  <2> QED
    BY <1>3, <2>1, <1>b DEF Counted
<1>4. CASE EndPlayback(p) \/ Commit(p) \/ RollbackCache(p)
  BY <1>4, <1>2 DEF EndPlayback, Commit, RollbackCache
<1>5. CASE OpenJournal(p)
  BY <1>5, <1>1, <1>2, FreshOK DEF OpenJournal
<1>6. ASSUME NEW pg \in Page, NEW c, WriteCache(p, pg, c), pc[p] = "modify"
      PROVE  /\ OnDisk(journal)' \in jdisk' /\ \A k \in jdisk' : OnDisk(k) = k
             /\ Counted' => jdisk' = {journal'}
  <2>1. journal \in Journal /\ ~journal.counted
    BY <1>6, <1>a DEF Holds, Owns, UsesJournal
  <2> DEFINE j == [journal EXCEPT !.rec[pg] = IF @ = NoContent THEN cache[p][pg] ELSE @]
  <2>2. ~j.counted
    BY <2>1 DEF Journal
  <2>3. PutJournal(j)
    BY <1>6 DEF WriteCache
  <2> HIDE DEF j
  <2> QED
    BY <2>2, <2>3, <1>2
<1>7. ASSUME NEW pg \in Page, NEW v \in Value, Modify(p, pg, v)
      PROVE  /\ OnDisk(journal)' \in jdisk' /\ \A k \in jdisk' : OnDisk(k) = k
             /\ Counted' => jdisk' = {journal'}
  BY <1>6, <1>7 DEF Modify
<1>8. CASE IncrChangeCounter(p)
  BY <1>6, <1>8, PagerAssumption DEF IncrChangeCounter
<1>9. CASE SyncRecords(p)
  BY <1>9, <1>3, <1>a DEF SyncRecords, Holds, Owns
<1>10. CASE CountRecords(p)
  <2>1. journal \in Journal
    BY <1>10, <1>a DEF CountRecords, Holds, Owns, UsesJournal
  <2>2. [journal EXCEPT !.counted = TRUE].counted
    BY <2>1 DEF Journal
  <2>3. OnDisk([journal EXCEPT !.counted = TRUE]) = [journal EXCEPT !.counted = TRUE]
    BY <2>2 DEF OnDisk
  <2> QED
    BY <1>10, <1>3, <2>3 DEF CountRecords
<1>11. CASE \/ GetShared(p) \/ CheckJournal(p) \/ CheckReserved(p) \/ LockToRecover(p)
          \/ OpenHotJournal(p) \/ (\E pg \in Page : PlayBack(p, pg) \/ ReadPage(p, pg) \/ WritePage(p, pg))
          \/ Validate(p) \/ Unlock(p) \/ Close(p) \/ Reserve(p) \/ LockToWrite(p) \/ SyncFile(p)
          \/ RollbackFile(p) \/ GiveUp(p)
  <2>1. UNCHANGED journals
    BY <1>11 DEF GetShared, CheckJournal, CheckReserved, LockToRecover, OpenHotJournal, PlayBack,
             ReadPage, WritePage, Validate, Unlock, Close, Reserve, LockToWrite, SyncFile, RollbackFile,
             GiveUp, journals
  <2> QED
    BY <2>1, <1>1
<1> QED
  BY <1>4, <1>5, <1>7, <1>8, <1>9, <1>10, <1>11 DEF Step

\* The pages the disk may hold.
LEMMA PagesDisk ==
  ASSUME DataInv, DiskInv, NEW p \in Proc, Step(p)
  PROVE  /\ \A pg \in Page : file'[pg] \in disk'[pg]
         /\ ~unsynced' => \A pg \in Page \ Played(journal)' : disk'[pg] = {file'[pg]}
         /\ \A q \in Proc : pc'[q] \in Filling /\ ~unsynced' => Settled'
         /\ \A q \in Proc : pc'[q] = "synced" => ~unsynced' /\ Settled'
<1> DEFINE PagesStay ==
             /\ \A pg \in Page : file'[pg] \in disk'[pg]
             /\ ~unsynced' => \A pg \in Page \ Played(journal)' : disk'[pg] = {file'[pg]}
           PlacesStay ==
             /\ \A q \in Proc : pc'[q] \in Filling /\ ~unsynced' => Settled'
             /\ \A q \in Proc : pc'[q] = "synced" => ~unsynced' /\ Settled'
<1>a. /\ TypeInv /\ LockInv /\ Holds(p) /\ Owns(p) /\ Sees(p) /\ pc \in [Proc -> PC]
      /\ file \in [Page -> Content] /\ disk \in [Page -> SUBSET Content]
      /\ dirty \in [Proc -> SUBSET Page] /\ todo \in [Proc -> SUBSET Page]
      /\ journal \in Journal \cup {NoJournal}
  BY DEF DataInv, BaseInv, TypeInv, TypeOK
<1>b. /\ \A pg \in Page : file[pg] \in disk[pg]
      /\ ~unsynced => \A pg \in Page \ Played(journal) : disk[pg] = {file[pg]}
      /\ \A q \in Proc : pc[q] \in Filling /\ ~unsynced => Settled
      /\ \A q \in Proc : pc[q] = "synced" => ~unsynced /\ Settled
  BY DEF DiskInv
<1>c. \A q \in Proc \ {p} : pc'[q] = pc[q]
  BY <1>a, StepIsOwn DEF OthersStay
<1>d. lock[p] = "exclusive" => \A q \in Proc \ {p} : pc'[q] = "idle"
  BY <1>a, <1>c, Apart
<1>e. UNCHANGED <<pages, unsynced>> => (Settled' <=> Settled)
  BY DEF pages, Settled
<1>f. Played(NoJournal) = {} /\ Played(Fresh) = {}
  BY FreshOK DEF Played
<1>1. ASSUME NEW pg \in Page, PlayBack(p, pg) PROVE PagesStay /\ PlacesStay
  <2>1. /\ pc[p] = "playback" /\ pc' = pc /\ journal' = journal /\ unsynced' = unsynced
        /\ file' = [file EXCEPT ![pg] = journal.rec[pg]]
        /\ disk' = [disk EXCEPT ![pg] = @ \cup {journal.rec[pg]}]
    BY <1>1 DEF PlayBack, Put, journals
  <2>2. lock[p] = "exclusive"
    BY <1>a, <2>1 DEF LockInv, Place
  <2>3. pg \in Played(journal) /\ Played(journal)' = Played(journal)
    BY <1>1, <2>1, <1>a DEF PlayBack, Holds, Owns, UsesJournal, Played, Recorded
  <2>4. PagesStay
    BY <2>1, <2>3, <1>a, <1>b
  <2>5. PlacesStay
    BY <2>1, <2>2, <1>d DEF Filling
  <2> QED
    BY <2>4, <2>5
<1>2. ASSUME NEW pg \in Page, WritePage(p, pg) PROVE PagesStay /\ PlacesStay
  <2>1. /\ pc[p] = "write" /\ pc' = pc /\ journal' = journal /\ unsynced' = unsynced
        /\ file' = [file EXCEPT ![pg] = cache[p][pg]]
        /\ disk' = [disk EXCEPT ![pg] = @ \cup {cache[p][pg]}]
    BY <1>2 DEF WritePage, Put, journals
  <2>2. lock[p] = "exclusive"
    BY <1>a, <2>1 DEF LockInv, Place
  <2>3. pg \in Played(journal) /\ Played(journal)' = Played(journal)
    BY <1>2, <2>1, <1>a DEF WritePage, Holds, Owns, UsesJournal, Writing, Played, Recorded
  <2>4. PagesStay
    BY <2>1, <2>3, <1>a, <1>b
  <2>5. PlacesStay
    BY <2>1, <2>2, <1>d DEF Filling
  <2> QED
    BY <2>4, <2>5
<1>3. CASE SyncFile(p)
  <2>1. /\ pc[p] = "write" /\ file' = file /\ unsynced' = FALSE
        /\ disk' = [pg \in Page |-> {file[pg]}]
    BY <1>3 DEF SyncFile
  <2> QED
    BY <2>1 DEF Settled
<1>4. CASE EndPlayback(p)
  <2>1. /\ pc[p] = "playback" /\ pc'[p] \in {"validate", "end"} /\ file' = file /\ disk' = disk
        /\ unsynced' = (unsynced \/ \E pg \in Page : disk[pg] # {file[pg]})
    BY <1>4, <1>a DEF EndPlayback, Goto, pages
  <2>2. lock[p] = "exclusive"
    BY <1>a, <2>1 DEF LockInv, Place
  <2>3. PagesStay
    BY <2>1, <1>b
  <2>4. PlacesStay
    BY <2>1, <2>2, <1>d DEF Filling
  <2> QED
    BY <2>3, <2>4
<1>5. ASSUME UNCHANGED <<pages, unsynced>>,
             (pc[p] \in {"modify", "sync", "count", "lock", "synced", "openJournal"} /\ journal' # journal)
               \/ Played(journal)' = Played(journal),
             pc'[p] \in Filling => pc[p] \in Filling \/ (pc[p] = "openJournal" /\ journal = NoJournal),
             pc'[p] = "synced" => pc[p] = "synced",
             pc[p] = "openJournal" => journal' = journal \/ journal = NoJournal
      PROVE  PagesStay /\ PlacesStay
  <2>1. file' = file /\ disk' = disk /\ unsynced' = unsynced
    BY <1>5 DEF pages
  <2>2. journal = NoJournal /\ ~unsynced => Settled
    BY <1>b, <1>f DEF Settled
  <2>3. ASSUME NEW q \in Proc, q # p
        PROVE  /\ pc'[q] \in Filling /\ ~unsynced' => Settled'
               /\ pc'[q] = "synced" => ~unsynced' /\ Settled'
    BY <2>3, <1>b, <1>c, <1>e, <1>5
  <2>4. /\ pc'[p] \in Filling /\ ~unsynced' => Settled'
        /\ pc'[p] = "synced" => ~unsynced' /\ Settled'
    BY <1>b, <1>e, <1>5, <2>1, <2>2
  <2>5. PagesStay
    <3>1. CASE Played(journal)' = Played(journal)
      BY <2>1, <3>1, <1>b
    <3>2. CASE pc[p] \in {"modify", "sync", "count", "lock", "synced", "openJournal"} /\ journal' # journal
      <4>1. ~unsynced => Settled
        BY <3>2, <1>5, <1>b, <2>2 DEF Filling
      <4> QED
        BY <2>1, <4>1, <1>b DEF Settled
    <3> QED
      BY <1>5, <3>1, <3>2
  <2>6. PlacesStay
    BY <2>3, <2>4
  <2> QED
    BY <2>5, <2>6
<1>6. journal' = journal => Played(journal)' = Played(journal)
  BY DEF Played, Recorded
<1>7. CASE \/ GetShared(p) \/ CheckJournal(p) \/ CheckReserved(p) \/ LockToRecover(p)
         \/ OpenHotJournal(p) \/ Validate(p) \/ Unlock(p) \/ Close(p) \/ Reserve(p) \/ LockToWrite(p)
         \/ RollbackFile(p) \/ GiveUp(p) \/ (\E pg \in Page : ReadPage(p, pg))
  <2>1. UNCHANGED <<pages, unsynced>> /\ journal' = journal
    BY <1>7 DEF GetShared, CheckJournal, CheckReserved, LockToRecover, OpenHotJournal, ReadPage,
             Validate, Unlock, Close, Reserve, LockToWrite, RollbackFile, GiveUp, journals
  <2>2. /\ pc'[p] \in Filling => pc[p] \in Filling
        /\ pc'[p] = "synced" => pc[p] = "synced"
    BY <1>7, <1>a DEF GetShared, CheckJournal, CheckReserved, LockToRecover, OpenHotJournal, ReadPage,
             Validate, Unlock, Close, Reserve, LockToWrite, RollbackFile, GiveUp, Goto, Filling
  <2> QED
    BY <2>1, <2>2, <1>5, <1>6
<1>8. CASE OpenJournal(p)
  <2>1. /\ UNCHANGED <<pages, unsynced>> /\ pc[p] = "openJournal"
        /\ \/ journal = NoJournal /\ journal' = Fresh /\ pc'[p] = "modify"
           \/ journal' = journal /\ pc'[p] = "end"
    BY <1>8, <1>a DEF OpenJournal, PutJournal, Goto, journals
  <2> QED
    BY <2>1, <1>5, <1>6, <1>f DEF Filling
<1>9. ASSUME NEW pg \in Page, NEW v \in Value, Modify(p, pg, v) PROVE PagesStay /\ PlacesStay
  <2>1. UNCHANGED <<pages, unsynced>> /\ pc[p] = "modify" /\ pc' = pc
    BY <1>9 DEF Modify
  <2> QED
    BY <2>1, <1>5, <1>6 DEF Filling
<1>10. CASE IncrChangeCounter(p) \/ SyncRecords(p) \/ CountRecords(p)
  <2>1. /\ UNCHANGED <<pages, unsynced>> /\ pc[p] \in {"modify", "sync", "count"}
        /\ pc'[p] \in {"sync", "count", "lock"}
    BY <1>10, <1>a DEF IncrChangeCounter, SyncRecords, CountRecords, Goto
  <2> QED
    BY <2>1, <1>5, <1>6 DEF Filling
<1>11. CASE Commit(p) \/ RollbackCache(p)
  <2>1. /\ UNCHANGED <<pages, unsynced>> /\ pc[p] \in {"modify", "sync", "count", "lock", "synced"}
        /\ pc'[p] = "end"
    BY <1>11, <1>a DEF Commit, RollbackCache, Goto
  <2> QED
    BY <2>1, <1>5, <1>6 DEF Filling
<1> QED
  BY <1>1, <1>2, <1>3, <1>4, <1>7, <1>8, <1>9, <1>10, <1>11 DEF Step

LEMMA DiskStep == DataInv /\ DiskInv /\ [Next]_vars => DiskInv'
<1> SUFFICES ASSUME DataInv, DiskInv, [Next]_vars PROVE DiskInv'
  OBVIOUS
<1>1. ASSUME NEW p \in Proc, Step(p) PROVE DiskInv'
  BY <1>1, JournalDisk, PagesDisk DEF DiskInv
<1>2. ASSUME UNCHANGED <<pages, journals, unsynced>>,
             \A q \in Proc : pc'[q] \in {"idle", pc[q]}
      PROVE  DiskInv'
  BY <1>2 DEF pages, journals, DiskInv, OnDisk, Counted, Settled, Played, Recorded, Filling
<1>3. ASSUME NEW p \in Proc, Crash(p) PROVE DiskInv'
  BY <1>2, <1>3, GoneIs DEF Crash
<1>4. CASE UNCHANGED vars
  BY <1>2, <1>4 DEF vars
<1> QED
  BY <1>1, <1>3, <1>4, DiskPowerLoss DEF Next

-----------------------------------------------------------------------------
(* What a loss of power would leave.                                        *)

RemainsDb     == Remains = {Db}
RemainsPlayed == Remains = {Recovered(file, j) : j \in jdisk}

\* A file the disk may hold.
LEMMA Survivor ==
  ASSUME DataInv, NEW x
  PROVE  x \in Survivors <=>
           \E f \in [Page -> Content], j \in jdisk : (\A pg \in Page : f[pg] \in disk[pg]) /\ x = Recovered(f, j)
<1>1. disk \in [Page -> SUBSET Content]
  BY DEF DataInv, BaseInv, TypeInv, TypeOK
<1>2. ASSUME NEW f, \A pg \in Page : f[pg] \in disk[pg]
      PROVE  f \in [Page -> UNION {disk[pg] : pg \in Page}] <=> f \in [Page -> Content]
  <2>1. \A pg \in Page : f[pg] \in UNION {disk[y] : y \in Page} /\ f[pg] \in Content
    BY <1>1, <1>2
  <2> QED
    BY <2>1
<1> QED
  BY <1>2 DEF Survivors

\* The journal is there, with its records counted: it brings back what is
\* committed, whatever the disk holds of the pages in it.
LEMMA RemainsCounted == DataInv /\ DiskInv /\ Counted => RemainsDb
<1> SUFFICES ASSUME DataInv, DiskInv, Counted PROVE RemainsDb
  OBVIOUS
<1>1. CASE unsynced
  BY <1>1 DEF Remains, RemainsDb
<1>2. CASE ~unsynced
  <2>1. /\ jdisk = {journal} /\ \A pg \in Page \ Played(journal) : disk[pg] = {file[pg]}
        /\ file \in [Page -> Content] /\ \A pg \in Page : file[pg] \in disk[pg]
    BY <1>2 DEF DiskInv, DataInv, BaseInv, TypeInv, TypeOK
  <2>2. ASSUME NEW f \in [Page -> Content], \A pg \in Page : f[pg] \in disk[pg]
        PROVE  Recovered(f, journal) = Db
    BY <2>1, <2>2 DEF Recovered, Db
  <2>3. \A x : x \in Survivors <=> x = Db
    BY <2>1, <2>2, Survivor
  <2> QED
    BY <1>2, <2>3 DEF Remains, RemainsDb
<1> QED
  BY <1>1, <1>2

\* The file is on the disk.
LEMMA RemainsSettled == DataInv /\ Settled /\ ~unsynced => RemainsPlayed
<1> SUFFICES ASSUME DataInv, Settled, ~unsynced PROVE RemainsPlayed
  OBVIOUS
<1>1. file \in [Page -> Content]
  BY DEF DataInv, BaseInv, TypeInv, TypeOK
<1>2. ASSUME NEW f \in [Page -> Content], \A pg \in Page : f[pg] \in disk[pg] PROVE f = file
  BY <1>1, <1>2 DEF Settled
<1>3. \A x : x \in Survivors <=> \E j \in jdisk : x = Recovered(file, j)
  BY <1>1, <1>2, Survivor DEF Settled
<1> QED
  BY <1>3 DEF Remains, RemainsPlayed

LEMMA RemainsNext ==
  /\ DataInv' /\ DiskInv' /\ Counted' => RemainsDb'
  /\ DataInv' /\ Settled' /\ ~unsynced' => RemainsPlayed'
<1>1. DataInv' /\ DiskInv' /\ Counted' => RemainsDb'
  BY RemainsCounted, PTL
<1>2. DataInv' /\ Settled' /\ ~unsynced' => RemainsPlayed'
  BY RemainsSettled, PTL
<1> QED
  BY <1>1, <1>2

\* An empty journal takes the place of another, or its deletion does.
LEMMA RemainsEmptied ==
  ASSUME DataInv, DiskInv, DataInv', NEW j, PutJournal(j), j = NoJournal \/ ~j.counted,
         UNCHANGED <<pages, unsynced>>, ~unsynced => Settled, Db' = Db
  PROVE  Remains' = Remains
<1>a. file \in [Page -> Content] /\ file' = file /\ disk' = disk /\ unsynced' = unsynced
  BY DEF DataInv, BaseInv, TypeInv, TypeOK, pages
<1>b. \A k : k = NoJournal \/ ~k.counted => Recovered(file, k) = file
  BY <1>a DEF Recovered, Played
<1>1. CASE unsynced
  BY <1>1, <1>a DEF Remains
<1>2. CASE ~unsynced
  <2>1. RemainsPlayed /\ RemainsPlayed'
    BY <1>2, <1>a, RemainsSettled, RemainsNext DEF Settled
  <2>2. jdisk' = jdisk \cup {OnDisk(j)} /\ journal' = j
    BY DEF PutJournal
  <2>3. OnDisk(j) = NoJournal \/ ~OnDisk(j).counted
    BY FreshOK DEF OnDisk
  <2>4. /\ Recovered(file, OnDisk(j)) = file
        /\ Db = file
    BY <1>a, <1>b, <2>2, <2>3 DEF Db
  <2>5. \E k \in jdisk : Recovered(file, k) = file
    <3>1. CASE Counted
      BY <2>4, <3>1 DEF DiskInv, Db
    <3>2. CASE ~Counted
      <4>1. OnDisk(journal) = NoJournal \/ ~OnDisk(journal).counted
        BY <3>2, FreshOK DEF OnDisk, Counted
      <4> QED
        BY <4>1, <1>b DEF DiskInv
    <3> QED
      BY <3>1, <3>2
  <2>6. \A x : x \in Remains' <=> x \in Remains
    BY <1>a, <2>1, <2>2, <2>4, <2>5 DEF RemainsPlayed
  <2> QED
    BY <2>1, <2>6 DEF RemainsPlayed
<1> QED
  BY <1>1, <1>2

\* Only a commit, and the syncs of the journal before it, change what a loss of
\* power would leave.
LEMMA RemainsStep ==
  ASSUME DataInv, DiskInv, DataInv', DiskInv', NEW p \in Proc, Step(p), ~Commit(p)
  PROVE  \/ Remains' = Remains
         \/ (SyncRecords(p) \/ CountRecords(p)) /\ Remains' = {Db}
<1>a. /\ Holds(p) /\ Owns(p) /\ Sees(p) /\ file \in [Page -> Content] /\ journal \in Journal \cup {NoJournal}
      /\ Db' = Db
  BY DbStep DEF DataInv, BaseInv, TypeInv, TypeOK
<1>1. CASE UNCHANGED <<disk, jdisk, unsynced>>
  BY <1>1, <1>a DEF Remains, Survivors
<1>2. CASE Counted /\ UNCHANGED journal
  <2>1. Counted'
    BY <1>2 DEF Counted
  <2> QED
    BY <1>2, <2>1, <1>a, RemainsCounted, RemainsNext DEF RemainsDb
<1>3. ASSUME NEW pg \in Page, PlayBack(p, pg) \/ WritePage(p, pg) PROVE Counted /\ UNCHANGED journal
  BY <1>3, <1>a DEF PlayBack, WritePage, Holds, Owns, UsesJournal, Played, Counted, journals
<1>4. CASE SyncFile(p)
  <2>1. Counted /\ UNCHANGED journal
    BY <1>4, <1>a DEF SyncFile, Holds, Owns, UsesJournal, Counted, journals
  <2> QED
    BY <2>1, <1>2
<1>5. CASE EndPlayback(p)
  <2>1. /\ UNCHANGED pages /\ PutJournal(NoJournal)
        /\ unsynced' <=> (unsynced \/ ~Settled)
    BY <1>5 DEF EndPlayback, Settled
  <2>2. unsynced \in BOOLEAN /\ unsynced' \in BOOLEAN
    BY DEF DataInv, BaseInv, TypeInv, TypeOK
  <2>3. CASE unsynced' = unsynced
    BY <2>1, <2>3, <1>a, RemainsEmptied
  <2>4. CASE unsynced' # unsynced
    <3>1. ~unsynced /\ unsynced' /\ ~Settled
      BY <2>1, <2>2, <2>4
    <3>2. RemainsDb
      BY <3>1, NothingPlayed, RemainsCounted
    <3> QED
      BY <3>1, <3>2, <1>a DEF RemainsDb, Remains
  <2> QED
    BY <2>3, <2>4
<1>6. CASE OpenJournal(p)
  <2>1. UNCHANGED <<pages, unsynced>>
    BY <1>6 DEF OpenJournal
  <2>2. CASE UNCHANGED journals
    BY <2>1, <2>2, <1>1 DEF pages, journals
  <2>3. CASE journal = NoJournal /\ PutJournal(Fresh)
    BY <2>1, <2>3, <1>a, NothingPlayed, RemainsEmptied, FreshOK DEF Counted
  <2> QED
    BY <1>6, <2>2, <2>3 DEF OpenJournal
<1>7. CASE RollbackCache(p)
  <2>1. /\ UNCHANGED <<pages, unsynced>> /\ PutJournal(NoJournal)
        /\ pc[p] \in Filling
    BY <1>7 DEF RollbackCache, Filling
  <2> QED
    BY <2>1, <1>a, RemainsEmptied DEF DiskInv
<1>8. ASSUME NEW pg \in Page, NEW c, WriteCache(p, pg, c), pc[p] = "modify", UNCHANGED <<pages, unsynced>>
      PROVE  Remains' = Remains
  <2>1. journal \in Journal /\ ~journal.counted /\ journal # NoJournal
    BY <1>8, <1>a DEF Holds, Owns, UsesJournal
  <2> DEFINE j == [journal EXCEPT !.rec[pg] = IF @ = NoContent THEN cache[p][pg] ELSE @]
  <2>2. ~j.counted
    BY <2>1 DEF Journal
  <2>3. PutJournal(j)
    BY <1>8 DEF WriteCache
  <2> HIDE DEF j
  <2>4. ~unsynced => Settled
    BY <1>8 DEF DiskInv, Filling
  <2> QED
    BY <2>2, <2>3, <2>4, <1>8, <1>a, RemainsEmptied
<1>9. ASSUME NEW pg \in Page, NEW v \in Value, Modify(p, pg, v) PROVE Remains' = Remains
  BY <1>8, <1>9 DEF Modify
<1>10. CASE IncrChangeCounter(p)
  BY <1>8, <1>10, PagerAssumption DEF IncrChangeCounter
<1>11. CASE SyncRecords(p)
  <2>1. /\ UNCHANGED <<pages, unsynced>> /\ jdisk' = {OnDisk(journal)} /\ pc[p] = "sync"
    BY <1>11 DEF SyncRecords, SyncJournal
  <2>2. journal # NoJournal /\ ~journal.counted /\ Db = file
    BY <2>1, <1>a, FillingIsClean DEF Holds, Owns, UsesJournal, Filling
  <2>3. CASE unsynced
    BY <2>1, <2>3, <1>a, <1>11 DEF Remains
  <2>4. CASE ~unsynced
    <3>1. Settled' /\ ~unsynced'
      BY <2>1, <2>4 DEF DiskInv, Filling, Settled, pages
    <3>2. RemainsPlayed'
      BY <3>1, RemainsNext
    <3>3. Recovered(file, OnDisk(journal)) = file
      BY <2>2, <1>a, FreshOK DEF OnDisk, Recovered, Played
    <3> QED
      BY <2>1, <2>2, <3>2, <3>3, <1>11 DEF RemainsPlayed, pages
  <2> QED
    BY <2>3, <2>4
<1>12. CASE CountRecords(p)
  <2>1. journal' = [journal EXCEPT !.counted = TRUE] /\ journal \in Journal
    BY <1>12, <1>a DEF CountRecords, SyncJournal, Holds, Owns, UsesJournal
  <2>2. Counted'
    BY <2>1, NoJournalAssumption DEF Counted, Journal
  <2> QED
    BY <2>2, <1>12, <1>a, RemainsNext DEF RemainsDb
<1>13. CASE \/ GetShared(p) \/ CheckJournal(p) \/ CheckReserved(p) \/ LockToRecover(p)
          \/ OpenHotJournal(p) \/ (\E pg \in Page : ReadPage(p, pg)) \/ Validate(p) \/ Unlock(p)
          \/ Close(p) \/ Reserve(p) \/ LockToWrite(p) \/ RollbackFile(p) \/ GiveUp(p)
  <2>1. UNCHANGED <<disk, jdisk, unsynced>>
    BY <1>13 DEF GetShared, CheckJournal, CheckReserved, LockToRecover, OpenHotJournal, ReadPage,
             Validate, Unlock, Close, Reserve, LockToWrite, RollbackFile, GiveUp, pages, journals
  <2> QED
    BY <2>1, <1>1
<1> QED
  BY <1>2, <1>3, <1>4, <1>5, <1>6, <1>7, <1>9, <1>10, <1>11, <1>12, <1>13 DEF Step

LEMMA RemainsCommit ==
  ASSUME DataInv, DiskInv, DataInv', NEW p \in Proc, Commit(p)
  PROVE  Remains' = {Db, Db'}
<1>1. /\ pc[p] = "synced" /\ UNCHANGED <<pages, unsynced>> /\ journal' = NoJournal
      /\ jdisk' = jdisk \cup {NoJournal}
  BY DEF Commit, PutJournal, OnDisk
<1>2. Counted /\ Settled /\ ~unsynced /\ jdisk = {journal} /\ file \in [Page -> Content]
  BY <1>1 DEF DataInv, BaseInv, DiskInv, Holds, Owns, UsesJournal, Counted, TypeInv, TypeOK
<1>3. RemainsPlayed'
  BY <1>1, <1>2, RemainsNext DEF Settled, pages
<1>4. Recovered(file, NoJournal) = file /\ Db' = file /\ file' = file
  BY <1>2, DbCommit DEF Recovered, Played
<1> QED
  BY <1>1, <1>2, <1>3, <1>4 DEF RemainsPlayed, Db

-----------------------------------------------------------------------------
(* A commit is atomic.                                                      *)

\* What is committed: the pages that were changed are in the file, and the others
\* are as they were.
LEMMA CommitOver ==
  ASSUME DataInv, NEW p \in Proc, Commit(p)
  PROVE  Db' = Atomic!Over(Db, cache[p])
<1>1. pc[p] = "synced" /\ file \in [Page -> Content] /\ Holds(p) /\ Owns(p) /\ Sees(p)
  BY DEF Commit, DataInv, BaseInv, TypeInv, TypeOK
<1>2. /\ journal # NoJournal /\ journal.counted /\ dirty[p] = Recorded(journal)
      /\ \A pg \in dirty[p] : file[pg] = cache[p][pg]
      /\ \A pg \in Cached(p) \ dirty[p] : cache[p][pg] = file[pg]
      /\ dirty[p] \subseteq Cached(p)
  BY <1>1 DEF Holds, Owns, Sees, UsesJournal, Writing, Filling, Reading
<1>3. \A pg \in Page \ dirty[p] : Db[pg] = file[pg]
  BY <1>2 DEF Db, Recovered, Played
<1>4. \A pg \in Page : file[pg] = IF cache[p][pg] = NoContent THEN Db[pg] ELSE cache[p][pg]
  BY <1>2, <1>3 DEF Cached
<1> QED
  BY <1>1, <1>4, DbCommit DEF Atomic!Over

\* What a loss of power leaves is one of the states it could leave.
LEMMA PowerLossRemains ==
  ASSUME DataInv, DataInv', PowerLoss
  PROVE  Db' \in Remains /\ Remains' = {Db'}
<1>1. /\ ~unsynced /\ unsynced' = unsynced /\ Settled' /\ jdisk' = {journal'} /\ journal' \in jdisk
      /\ \A pg \in Page : file'[pg] \in disk[pg]
      /\ file' \in [Page -> Content]
  BY DEF PowerLoss, Settled, DataInv, BaseInv, TypeInv, TypeOK
<1>2. Db' \in Survivors
  BY <1>1, Survivor DEF Db
<1>3. Remains' = {Db'}
  BY <1>1, RemainsNext DEF RemainsPlayed, Db
<1> QED
  BY <1>1, <1>2, <1>3 DEF Remains

\* Only the commit of a connection, or a loss of power, changes what the file holds,
\* and it changes all of it: however connections share processes, and whichever of
\* them die, if they keep no page but the first from one lock to the next.
THEOREM CommitsAreAtomic == OnlyHeadKept /\ Spec => CommitIsAtomic
<1> SUFFICES ASSUME OnlyHeadKept PROVE Spec => CommitIsAtomic
  OBVIOUS
<1> DEFINE Atomically ==
             \/ Db' = Db /\ Remains' \in {Remains, {Db}}
             \/ \E p \in Proc : Commit(p) /\ Db' = Atomic!Over(Db, cache[p]) /\ Remains' = {Db, Db'}
             \/ PowerLoss /\ Db' \in Remains /\ Remains' = {Db'}
<1>1. DataInv /\ DiskInv /\ DataInv' /\ DiskInv' /\ [Next]_vars => [Atomically]_vars
  <2> SUFFICES ASSUME DataInv, DiskInv, DataInv', DiskInv', Next PROVE Atomically
    OBVIOUS
  <2>1. ASSUME NEW p \in Proc, Commit(p) PROVE Atomically
    BY <2>1, CommitOver, RemainsCommit
  <2>2. ASSUME NEW p \in Proc, Step(p), ~Commit(p) PROVE Atomically
    BY <2>2, DbStep, RemainsStep
  <2>3. ASSUME NEW p \in Proc, Crash(p) PROVE Atomically
    BY <2>3 DEF Crash, pages, journals, Db, Recovered, Played, Recorded, Remains, Survivors
  <2>4. CASE PowerLoss
    BY <2>4, PowerLossRemains
  <2> QED
    BY <2>1, <2>2, <2>3, <2>4 DEF Next
<1>2. DataInv /\ [Next]_vars => DataInv'
  BY DataStep
<1> QED
  BY <1>1, <1>2, DataInit, DiskInit, DiskStep, PTL DEF Spec, CommitIsAtomic

-----------------------------------------------------------------------------
(* What is read is committed.                                               *)

\* A connection that finds an owner of the journal reads the committed pages: the
\* owner is a writer that only fills it.
LEMMA OwnedIsClean ==
  ASSUME ThreadsAreApart, DataInv, CleanInv, NEW p \in Proc, lock[p] = "shared", Owned(p)
  PROVE  Db = file
<1>1. CASE journal = NoJournal
  BY <1>1 DEF DataInv, BaseInv, TypeInv, TypeOK, Db, Recovered, Played
<1>2. CASE journal # NoJournal
  <2>1. PICK q \in Proc : lock[q] \in ReservedByte
    <3>1. CASE OneThreadEach
      <4>1. Siblings(p) = {}
        BY <3>1 DEF OneThreadEach, Siblings, Threads
      <4> QED
        BY <4>1 DEF Owned, Foreign
    <3>2. CASE NobodyDies
      <4>1. PICK q \in Proc : UsesJournal(q)
        BY <1>2, <3>2 DEF CleanInv, JournalHasOwner
      <4>2. lock[q] \in ReservedByte
        BY <4>1 DEF DataInv, BaseInv, LockInv, Place, UsesJournal, ReservedByte
      <4> QED
        BY <4>2
    <3> QED
      BY <3>1, <3>2 DEF ThreadsAreApart
  <2>2. /\ Place(pc[q], lock[q]) /\ pc[q] \in PC /\ Clean(q)
        /\ p # q => Compatible(lock[p], lock[q])
    BY DEF DataInv, BaseInv, LockInv, TypeInv, TypeOK, CleanInv
  <2>3. p # q /\ lock[q] # "exclusive"
    BY <2>1, <2>2 DEF Compatible, ReservedByte
  <2>4. pc[q] \in {"openJournal"} \cup Filling
    BY <2>1, <2>2, <2>3 DEF Place, PC, ReservedByte, Filling
  <2> QED
    BY <2>2, <2>4, FillingIsClean DEF Clean
<1> QED
  BY <1>1, <1>2

LEMMA CleanOwn ==
  ASSUME ThreadsAreApart, DataInv, CleanInv, NEW p \in Proc, Step(p)
  PROVE  Clean(p)'
<1> DEFINE Clear == {"validate", "read", "openJournal", "end"}
<1>1. /\ Holds(p) /\ Owns(p) /\ Clean(p) /\ LockInv /\ pc[p] \in PC
      /\ pc \in [Proc -> PC] /\ file \in [Page -> Content]
  BY DEF DataInv, BaseInv, TypeInv, TypeOK, CleanInv
<1>2. SUFFICES ASSUME pc'[p] \in Clear PROVE Db' = file'
  BY DEF Clean
<1>3. ~Commit(p) => Db' = Db
  BY DbStep
<1>4. CASE Commit(p)
  BY <1>4, DbCommit
<1>5. CASE RollbackCache(p)
  <2>1. pc[p] \in Filling /\ file' = file /\ ~Commit(p)
    BY <1>5 DEF RollbackCache, Filling, pages, Commit
  <2> QED
    BY <1>3, <2>1, FillingIsClean
<1>6. CASE EndPlayback(p)
  <2>1. pc[p] = "playback" /\ todo[p] = {} /\ file' = file /\ ~Commit(p)
    BY <1>6 DEF EndPlayback, pages, Commit
  <2>2. Db = file
    BY <1>1, <2>1 DEF Owns, Db, Recovered
  <2> QED
    BY <1>3, <2>1, <2>2
<1>7. CASE CheckJournal(p)
  <2>1. journal = NoJournal /\ file' = file /\ ~Commit(p)
    BY <1>1, <1>2, <1>7 DEF CheckJournal, Goto, pages, Commit
  <2>2. Db = file
    BY <1>1, <2>1 DEF Db, Recovered, Played
  <2> QED
    BY <1>3, <2>1, <2>2
<1>8. CASE CheckReserved(p)
  <2>1. Owned(p) /\ file' = file /\ ~Commit(p) /\ pc[p] = "checkReserved"
    BY <1>1, <1>2, <1>8 DEF CheckReserved, Goto, pages, Commit
  <2>2. lock[p] = "shared"
    BY <1>1, <2>1 DEF LockInv, Place
  <2> QED
    BY <1>3, <2>1, <2>2, OwnedIsClean
<1>9. CASE Validate(p) \/ (\E pg \in Page : ReadPage(p, pg)) \/ Reserve(p) \/ OpenJournal(p)
  <2>1. pc[p] \in Clear /\ file' = file /\ ~Commit(p)
    BY <1>9 DEF Validate, ReadPage, Reserve, OpenJournal, pages, Commit
  <2> QED
    BY <1>1, <1>3, <2>1 DEF Clean
<1>10. CASE GetShared(p) \/ LockToRecover(p) \/ GiveUp(p) \/ OpenHotJournal(p) \/ Unlock(p) \/ Close(p)
  BY <1>1, <1>2, <1>10 DEF GetShared, LockToRecover, GiveUp, OpenHotJournal, Unlock, Close, Goto
<1>11. CASE \/ IncrChangeCounter(p) \/ SyncRecords(p) \/ CountRecords(p) \/ LockToWrite(p) \/ SyncFile(p)
          \/ RollbackFile(p)
  BY <1>1, <1>2, <1>11 DEF IncrChangeCounter, SyncRecords, CountRecords, LockToWrite, SyncFile,
     RollbackFile, Goto
<1>12. CASE \/ \E pg \in Page : PlayBack(p, pg) \/ WritePage(p, pg)
          \/ \E pg \in Page, v \in Value : Modify(p, pg, v)
  BY <1>2, <1>12 DEF PlayBack, WritePage, Modify
<1> QED
  BY <1>4, <1>5, <1>6, <1>7, <1>8, <1>9, <1>10, <1>11, <1>12 DEF Step

LEMMA CleanOthers ==
  ASSUME DataInv, CleanInv, NEW p \in Proc, Step(p), NEW q \in Proc, q # p
  PROVE  Clean(q)'
<1>1. /\ TypeInv /\ LockInv /\ Clean(q)
  BY DEF DataInv, BaseInv, CleanInv
<1>2. pc'[q] = pc[q]
  BY <1>1, StepIsOwn DEF OthersStay
<1>3. CASE lock[p] = "exclusive"
  <2>1. pc[q] = "idle"
    BY <1>1, <1>3, Apart
  <2> QED
    BY <1>2, <2>1 DEF Clean
<1>4. CASE lock[p] # "exclusive"
  <2>1. file' = file
    BY <1>1, <1>4, WritersWrite DEF pages
  <2>2. ~Commit(p)
    BY <1>1, <1>4 DEF Commit, LockInv, Place
  <2>3. Db' = Db
    BY <2>2, DbStep
  <2> QED
    BY <1>1, <1>2, <2>1, <2>3 DEF Clean
<1> QED
  BY <1>3, <1>4

\* A journal is left by its owner only when it is deleted.
LEMMA OwnerStep ==
  ASSUME DataInv, JournalHasOwner, NEW p \in Proc, Step(p)
  PROVE  JournalHasOwner'
<1>1. TypeInv /\ LockInv /\ pc \in [Proc -> PC]
  BY DEF DataInv, BaseInv, TypeInv, TypeOK
<1>2. \A q \in Proc \ {p} : UsesJournal(q)' <=> UsesJournal(q)
  BY <1>1, StepIsOwn DEF OthersStay, UsesJournal
<1>3. SUFFICES ASSUME journal' # NoJournal PROVE \E q \in Proc : UsesJournal(q)'
  BY DEF JournalHasOwner
<1>4. CASE journal # NoJournal
  <2>1. UsesJournal(p) => UsesJournal(p)'
    <3>1. CASE EndPlayback(p) \/ Commit(p) \/ RollbackCache(p)
      BY <1>3, <3>1 DEF EndPlayback, Commit, RollbackCache, PutJournal
    <3>2. CASE \/ (\E pg \in Page : PlayBack(p, pg) \/ WritePage(p, pg))
             \/ (\E pg \in Page, v \in Value : Modify(p, pg, v))
      BY <3>2 DEF PlayBack, WritePage, Modify, UsesJournal
    <3>3. CASE \/ IncrChangeCounter(p) \/ SyncRecords(p) \/ CountRecords(p) \/ LockToWrite(p)
             \/ SyncFile(p) \/ RollbackFile(p)
      BY <1>1, <3>3 DEF IncrChangeCounter, SyncRecords, CountRecords, LockToWrite, SyncFile, RollbackFile,
         Goto, UsesJournal
    <3>4. CASE \/ GetShared(p) \/ CheckJournal(p) \/ CheckReserved(p) \/ LockToRecover(p) \/ GiveUp(p)
             \/ OpenHotJournal(p) \/ Validate(p) \/ Unlock(p) \/ Close(p) \/ Reserve(p) \/ OpenJournal(p)
             \/ (\E pg \in Page : ReadPage(p, pg))
      BY <3>4 DEF GetShared, CheckJournal, CheckReserved, LockToRecover, GiveUp, OpenHotJournal, Validate,
         Unlock, Close, Reserve, OpenJournal, ReadPage, UsesJournal
    <3> QED
      BY <3>1, <3>2, <3>3, <3>4 DEF Step
  <2>2. PICK q \in Proc : UsesJournal(q)
    BY <1>4 DEF JournalHasOwner
  <2> QED
    BY <1>2, <2>1, <2>2
<1>5. CASE journal = NoJournal
  <2>1. lock[p] \in ReservedByte /\ pc[p] \in PC
    BY <1>1, <1>3, <1>5, WritersWrite DEF journals
  <2>2. ~UsesJournal(p) /\ Place(pc[p], lock[p])
    BY <1>1, <1>5 DEF DataInv, BaseInv, Holds, LockInv
  <2>3. pc[p] \in {"openJournal", "reopen"}
    BY <2>1, <2>2 DEF Place, ReservedByte, PC, UsesJournal
  <2>4. OpenJournal(p)
    BY <1>3, <1>5, <2>3 DEF Step, GetShared, CheckJournal, CheckReserved, LockToRecover, GiveUp,
       OpenHotJournal, PlayBack, ReadPage, WritePage, EndPlayback, Validate, Unlock, Close, Reserve,
       Modify, IncrChangeCounter, SyncRecords, CountRecords, LockToWrite, SyncFile, Commit,
       RollbackCache, RollbackFile, journals
  <2>5. pc'[p] = "modify"
    BY <1>1, <1>3, <1>5, <2>4 DEF OpenJournal, Goto, journals
  <2> QED
    BY <2>5 DEF UsesJournal
<1> QED
  BY <1>4, <1>5

LEMMA CleanInit == Init => CleanInv
BY DEF Init, CleanInv, Clean, JournalHasOwner

LEMMA CleanStep == ThreadsAreApart /\ DataInv /\ CleanInv /\ [Next]_vars => CleanInv'
<1> SUFFICES ASSUME ThreadsAreApart, DataInv, CleanInv, [Next]_vars PROVE CleanInv'
  OBVIOUS
<1>1. ASSUME NEW p \in Proc, Step(p) PROVE CleanInv'
  <2>1. \A q \in Proc : Clean(q)'
    BY <1>1, CleanOwn, CleanOthers
  <2>2. NobodyDies => JournalHasOwner'
    BY <1>1, OwnerStep DEF CleanInv
  <2> QED
    BY <2>1, <2>2 DEF CleanInv
<1>2. ASSUME NEW p \in Proc, Crash(p) PROVE CleanInv'
  <2>1. ~NobodyDies
    BY <1>2 DEF Crash, NobodyDies
  <2>2. file' = file /\ Db' = Db
    BY <1>2 DEF Crash, pages, journals, Db, Recovered, Played, Recorded
  <2>3. \A q \in Proc : pc'[q] \in {"idle", pc[q]}
    BY <1>2, GoneIs DEF Crash
  <2>4. \A q \in Proc : Clean(q)'
    BY <2>2, <2>3 DEF CleanInv, Clean
  <2> QED
    BY <2>1, <2>4 DEF CleanInv, NobodyDies
<1>3. CASE PowerLoss
  <2>1. ~NobodyDies /\ \A q \in Proc : pc'[q] = "idle"
    BY <1>3, GoneIs DEF PowerLoss, NobodyDies
  <2> QED
    BY <2>1 DEF CleanInv, Clean, NobodyDies
<1>4. CASE UNCHANGED vars
  <2> USE <1>4 DEF vars, pages, journals
  <2> QED
    BY DEF CleanInv, Clean, JournalHasOwner, UsesJournal, NobodyDies, Db, Recovered, Played, Recorded
<1> QED
  BY <1>1, <1>2, <1>3, <1>4 DEF Next

\* What each connection has read is what is committed.
LEMMA ReadIsCommitted ==
  ASSUME DataInv, CleanInv, NEW p \in Proc, Reading(p), NEW pg \in Cached(p) \ dirty[p]
  PROVE  cache[p][pg] = Db[pg]
<1>1. Holds(p) /\ Owns(p) /\ Sees(p) /\ Clean(p) /\ pg \in Page
  BY DEF DataInv, BaseInv, CleanInv, Cached
<1>2. cache[p][pg] = file[pg]
  BY <1>1 DEF Sees
<1>3. CASE pc[p] \in Filling
  BY <1>1, <1>2, <1>3, FillingIsClean
<1>4. CASE pc[p] \in {"read", "openJournal", "end"}
  BY <1>1, <1>2, <1>4 DEF Clean
<1>5. CASE pc[p] \in {"write", "synced"}
  <2>1. pg \notin Played(journal)
    BY <1>1, <1>5 DEF Holds, Writing, Played
  <2> QED
    BY <1>1, <1>2, <2>1 DEF Db, Recovered
<1> QED
  BY <1>3, <1>4, <1>5 DEF Reading, Filling

LEMMA ReadsCurrent == DataInv /\ CleanInv => CacheIsCurrent
BY ReadIsCommitted DEF CacheIsCurrent, Db

\* What a connection reads is what is committed, if it keeps no page but the
\* first from one lock to the next, and either each process has one connection or
\* nobody dies.
THEOREM ReadsAreCommitted == OnlyHeadKept /\ ThreadsAreApart /\ Spec => []CacheIsCurrent
<1> SUFFICES ASSUME OnlyHeadKept, ThreadsAreApart PROVE Spec => []CacheIsCurrent
  OBVIOUS
<1>1. DataInv /\ [Next]_vars => DataInv'
  BY DataStep
<1>2. DataInv /\ CleanInv /\ [Next]_vars => CleanInv'
  BY CleanStep
<1>3. DataInv /\ CleanInv => CacheIsCurrent
  BY ReadsCurrent
<1> QED
  BY <1>1, <1>2, <1>3, DataInit, CleanInit, PTL DEF Spec

-----------------------------------------------------------------------------
(* Each step is one of AtomicFile, or none.                                 *)

Seen(p) == IF Reading(p) THEN cache[p] ELSE Nothing

LEMMA ViewStep ==
  ASSUME DataInv, NEW p \in Proc, Step(p)
  PROVE  View' = [View EXCEPT ![p] = Seen(p)']
<1>1. OthersStay(p)
  BY StepIsOwn DEF DataInv, BaseInv
<1>2. \A q \in Proc \ {p} : Seen(q)' = Seen(q)
  BY <1>1 DEF OthersStay, Seen, Reading
<1>3. View = [q \in Proc |-> Seen(q)] /\ View' = [q \in Proc |-> Seen(q)']
  BY DEF View, Seen
<1> QED
  BY <1>2, <1>3

LEMMA ReadsCurrentNext == DataInv' /\ CleanInv' => CacheIsCurrent'
BY ReadsCurrent, PTL

\* Steps that show nothing.
LEMMA QuietRefines ==
  ASSUME DataInv, DiskInv, DataInv', DiskInv', NEW p \in Proc,
         \/ GetShared(p) \/ CheckJournal(p) \/ CheckReserved(p) \/ LockToRecover(p) \/ GiveUp(p)
         \/ OpenHotJournal(p) \/ Close(p) \/ Reserve(p) \/ OpenJournal(p) \/ SyncRecords(p)
         \/ CountRecords(p) \/ LockToWrite(p) \/ SyncFile(p)
         \/ (\E pg \in Page : PlayBack(p, pg) \/ WritePage(p, pg))
  PROVE  Atomic!Settle \/ UNCHANGED Atomic!vars
<1>1. Step(p) /\ pc \in [Proc -> PC] /\ cache \in [Proc -> [Page -> Maybe]]
  BY DEF Step, DataInv, BaseInv, TypeInv, TypeOK
<1>2. ~Commit(p)
  BY DEF GetShared, CheckJournal, CheckReserved, LockToRecover, GiveUp, OpenHotJournal, Close, Reserve,
     OpenJournal, SyncRecords, CountRecords, LockToWrite, SyncFile, PlayBack, WritePage, Commit
<1>3. Db' = Db
  BY <1>1, <1>2, DbStep
<1>4. Seen(p)' = Seen(p)
  BY <1>1 DEF GetShared, CheckJournal, CheckReserved, LockToRecover, GiveUp, OpenHotJournal, Close, Reserve,
     OpenJournal, SyncRecords, CountRecords, LockToWrite, SyncFile, PlayBack, WritePage, Seen, Reading,
     Goto
<1>5. View' = View
  BY <1>1, <1>4, ViewStep DEF View, Seen
<1>6. Remains' = Remains \/ Remains' = {Db}
  BY <1>1, <1>2, RemainsStep
<1> QED
  BY <1>3, <1>5, <1>6 DEF Atomic!Settle, Atomic!vars

\* Steps that show committed pages.
LEMMA ReadRefines ==
  ASSUME DataInv, DiskInv, DataInv', DiskInv', CleanInv', NEW p \in Proc,
         Validate(p) \/ (\E pg \in Page : ReadPage(p, pg)) \/ EndPlayback(p)
  PROVE  Atomic!Read(p) \/ UNCHANGED Atomic!vars
<1>1. /\ Step(p) /\ pc \in [Proc -> PC] /\ cache \in [Proc -> [Page -> Maybe]] /\ Holds(p)
      /\ dirty \in [Proc -> SUBSET Page] /\ cache' \in [Proc -> [Page -> Maybe]]
  BY DEF Step, DataInv, BaseInv, TypeInv, TypeOK
<1>2. ~Commit(p) /\ ~SyncRecords(p) /\ ~CountRecords(p)
  BY DEF Validate, ReadPage, EndPlayback, Commit, SyncRecords, CountRecords
<1>3. Db' = Db /\ Remains' = Remains
  BY <1>1, <1>2, DbStep, RemainsStep
<1>4. View' = [View EXCEPT ![p] = Seen(p)'] /\ View[p] = Seen(p)
  BY <1>1, ViewStep DEF View, Seen
<1>5. CASE pc'[p] = "validate"
  <2>1. Seen(p)' = Seen(p)
    BY <1>1, <1>5 DEF Validate, ReadPage, EndPlayback, Goto, Seen, Reading
  <2>2. View' = View
    BY <1>4, <2>1 DEF View
  <2> QED
    BY <1>3, <2>2 DEF Atomic!vars
<1>6. CASE pc'[p] # "validate"
  <2>1. pc'[p] \in {"read", "end"} /\ dirty'[p] = {}
    BY <1>1, <1>6 DEF Validate, ReadPage, EndPlayback, Goto, Holds, Writing, Filling
  <2>2. \A pg \in Page : cache'[p][pg] \in {NoContent, Db[pg]}
    BY <1>3, <2>1, ReadsCurrentNext DEF CacheIsCurrent, Db, Reading, Cached
  <2>3. Seen(p)' = cache'[p]
    BY <2>1 DEF Seen, Reading
  <2>4. \A pg \in Page : Seen(p)[pg] # NoContent => cache'[p][pg] = Seen(p)[pg]
    <3>1. CASE pc[p] = "read"
      BY <1>1, <3>1 DEF Validate, ReadPage, EndPlayback, Seen, Reading
    <3>2. CASE pc[p] # "read"
      BY <1>1, <3>2 DEF Validate, ReadPage, EndPlayback, Seen, Reading, Nothing
    <3> QED
      BY <3>1, <3>2
  <2>5. Seen(p)' = [pg \in Page |-> IF pg \in Cached(p)' /\ Seen(p)[pg] = NoContent
                                   THEN Db[pg] ELSE Seen(p)[pg]]
    <3>1. cache'[p] \in [Page -> Maybe]
      BY <1>1
    <3>2. ASSUME NEW pg \in Page
          PROVE  cache'[p][pg] = IF pg \in Cached(p)' /\ Seen(p)[pg] = NoContent THEN Db[pg] ELSE Seen(p)[pg]
      <4>1. CASE Seen(p)[pg] = NoContent
        BY <2>2, <4>1 DEF Cached
      <4>2. CASE Seen(p)[pg] # NoContent
        BY <2>4, <4>2
      <4> QED
        BY <4>1, <4>2
    <3> QED
      BY <2>3, <3>1, <3>2
  <2>6. Cached(p)' \in SUBSET Page
    BY DEF Cached
  <2>7. View' = [View EXCEPT ![p] =
                   [pg \in Page |-> IF pg \in Cached(p)' /\ @[pg] = NoContent THEN Db[pg] ELSE @[pg]]]
    BY <1>4, <2>5
  <2> QED
    BY <1>3, <2>6, <2>7 DEF Atomic!Read
<1> QED
  BY <1>5, <1>6

\* Steps that end a transaction.
LEMMA EndRefines ==
  ASSUME DataInv, DiskInv, DataInv', DiskInv', NEW p \in Proc, Unlock(p) \/ RollbackFile(p)
  PROVE  Atomic!End({p})
<1>1. Step(p) /\ pc \in [Proc -> PC]
  BY DEF Step, DataInv, BaseInv, TypeInv, TypeOK
<1>2. pc'[p] \in {"idle", "playback"}
  BY <1>1 DEF Unlock, RollbackFile, Goto
<1>3. ~Commit(p) /\ ~SyncRecords(p) /\ ~CountRecords(p)
  BY <1>1, <1>2 DEF Commit, SyncRecords, CountRecords, Goto
<1>4. Db' = Db /\ Remains' = Remains
  BY <1>1, <1>3, DbStep, RemainsStep
<1>5. Seen(p)' = Nothing
  BY <1>2 DEF Seen, Reading
<1>6. View' = [View EXCEPT ![p] = Nothing]
  BY <1>1, <1>5, ViewStep
<1> QED
  BY <1>4, <1>6 DEF Atomic!End, Nothing, Atomic!Nothing, View

LEMMA CrashRefines ==
  ASSUME DataInv, NEW p \in Proc, Crash(p)
  PROVE  Atomic!End(Threads(p))
<1>1. Db' = Db /\ Remains' = Remains
  BY DEF Crash, pages, journals, Db, Recovered, Played, Recorded, Remains, Survivors
<1>2. ASSUME NEW q \in Proc PROVE Seen(q)' = IF q \in Threads(p) THEN Nothing ELSE Seen(q)
  BY GoneIs DEF Crash, Seen, Reading
<1>3. View' = [q \in Proc |-> IF q \in Threads(p) THEN Nothing ELSE View[q]]
  BY <1>2 DEF View, Seen
<1> QED
  BY <1>1, <1>3 DEF Atomic!End, Nothing, Atomic!Nothing

\* Nobody else has changed anything while a process writes to its journal.
LEMMA OthersClean ==
  ASSUME DataInv, CleanInv, NEW p \in Proc, lock[p] \in ReservedByte, NEW q \in Proc, q # p
  PROVE  Atomic!Clean(q)
<1>1. /\ ~UsesJournal(q) /\ Holds(q)
  BY Apart DEF DataInv, BaseInv
<1>2. dirty[q] = {}
  BY <1>1 DEF Holds, UsesJournal, Writing, Filling
<1>3. \A pg \in Page : Seen(q)[pg] \in {NoContent, Db[pg]}
  BY <1>2, ReadIsCommitted DEF Seen, Cached, Nothing
<1> QED
  BY <1>3 DEF Atomic!Clean, View, Seen

LEMMA ChangeRefines ==
  ASSUME DataInv, DiskInv, DataInv', DiskInv', CleanInv, NEW p \in Proc,
         (\E pg \in Page, v \in Value : Modify(p, pg, v)) \/ IncrChangeCounter(p)
  PROVE  Atomic!Change(p)
<1>1. /\ Step(p) /\ pc \in [Proc -> PC] /\ cache \in [Proc -> [Page -> Maybe]] /\ Holds(p)
      /\ TypeInv /\ LockInv
  BY DEF Step, DataInv, BaseInv, TypeInv, TypeOK
<1>2. pc[p] = "modify" /\ pc'[p] \in {"modify", "sync"}
  BY <1>1 DEF Modify, IncrChangeCounter, Goto
<1>3. ~Commit(p) /\ ~SyncRecords(p) /\ ~CountRecords(p) /\ lock[p] \in ReservedByte
  BY <1>1, <1>2 DEF Commit, SyncRecords, CountRecords, LockInv, Place, ReservedByte
<1>4. Db' = Db /\ Remains' = Remains
  BY <1>1, <1>3, DbStep, RemainsStep
<1>5. PICK pg \in Cached(p), c \in Content : WriteCache(p, pg, c)
  <2>1. ASSUME NEW pg \in Page, NEW v \in Value, Modify(p, pg, v)
        PROVE  \E x \in Cached(p), c \in Content : WriteCache(p, x, c)
    <3>1. pg \in Cached(p) /\ WriteCache(p, pg, IF pg = Head THEN cache[p][Head] ELSE v)
      BY <2>1 DEF Modify
    <3>2. (IF pg = Head THEN cache[p][Head] ELSE v) \in Content
      BY <3>1, <1>1 DEF TypeInv, HeadInv, Cached, Content, Counter
    <3> QED
      BY <3>1, <3>2
  <2>2. ASSUME IncrChangeCounter(p)
        PROVE  \E x \in Cached(p), c \in Content : WriteCache(p, x, c)
    <3>1. WriteCache(p, Head, cache[p][Head] + 1) /\ cache[p][Head] < MaxCounter
      BY <2>2 DEF IncrChangeCounter
    <3>2. Head \in Cached(p)
      BY <1>1, <1>2 DEF Holds, Reading
    <3>3. cache[p][Head] + 1 \in Content
      BY <3>1, <3>2, <1>1, PagerAssumption DEF TypeInv, HeadInv, Cached, Content, Counter
    <3> QED
      BY <3>1, <3>2, <3>3
  <2> QED
    BY <2>1, <2>2
<1>6. pg \in Page /\ cache[p][pg] # NoContent
  BY DEF Cached
<1>7. /\ Seen(p)' = [Seen(p) EXCEPT ![pg] = c] /\ Seen(p) = cache[p]
  BY <1>1, <1>2, <1>5 DEF WriteCache, Seen, Reading
<1>8. View' = [View EXCEPT ![p][pg] = c] /\ View[p] = Seen(p)
  BY <1>1, <1>7, ViewStep DEF View, Seen
<1>9. \A q \in Proc \ {p} : Atomic!Clean(q)
  BY <1>3, OthersClean
<1> QED
  BY <1>4, <1>6, <1>7, <1>8, <1>9 DEF Atomic!Change

LEMMA RollbackRefines ==
  ASSUME DataInv, DiskInv, DataInv', DiskInv', CleanInv, NEW p \in Proc, RollbackCache(p)
  PROVE  Atomic!Rollback(p)
<1>1. /\ Step(p) /\ pc \in [Proc -> PC] /\ cache \in [Proc -> [Page -> Maybe]] /\ Holds(p) /\ Sees(p) /\ Owns(p)
  BY DEF Step, DataInv, BaseInv, TypeInv, TypeOK
<1>2. /\ pc[p] \in Filling /\ pc'[p] = "end"
      /\ cache'[p] = [pg \in Page |-> IF pg \in dirty[p] THEN journal.rec[pg] ELSE cache[p][pg]]
  BY <1>1 DEF RollbackCache, Goto, Filling
<1>3. ~Commit(p) /\ ~SyncRecords(p) /\ ~CountRecords(p)
  BY <1>1, <1>2 DEF Commit, SyncRecords, CountRecords, Goto, Filling
<1>4. Db' = Db /\ Remains' = Remains
  BY <1>1, <1>3, DbStep, RemainsStep
<1>5. /\ \A pg \in dirty[p] : journal.rec[pg] = Db[pg] /\ cache[p][pg] # NoContent
      /\ \A pg \in Cached(p) \ dirty[p] : cache[p][pg] = Db[pg]
  <2>1. \A pg \in dirty[p] : journal.rec[pg] = file[pg] /\ cache[p][pg] # NoContent
    BY <1>1, <1>2 DEF Holds, Owns, Cached
  <2>2. Reading(p)
    BY <1>2 DEF Filling, Reading
  <2> QED
    BY <1>2, <2>1, <2>2, FillingIsClean, ReadIsCommitted
<1>6. Seen(p) = cache[p] /\ Seen(p)' = cache'[p]
  BY <1>2 DEF Seen, Reading, Filling
<1>7. Seen(p)' = [pg \in Page |-> IF Seen(p)[pg] = NoContent THEN NoContent ELSE Db[pg]]
  BY <1>2, <1>5, <1>6 DEF Cached
<1>8. View' = [View EXCEPT ![p] = Seen(p)'] /\ View[p] = Seen(p)
  BY <1>1, ViewStep DEF View, Seen
<1> QED
  BY <1>4, <1>7, <1>8 DEF Atomic!Rollback

LEMMA CommitRefines ==
  ASSUME DataInv, DiskInv, DataInv', DiskInv', NEW p \in Proc, Commit(p)
  PROVE  Atomic!Commit(p)
<1>1. Step(p) /\ pc \in [Proc -> PC] /\ TypeInv /\ LockInv
  BY DEF Step, DataInv, BaseInv, TypeInv, TypeOK
<1>2. pc[p] = "synced" /\ pc'[p] = "end" /\ cache' = cache
  BY <1>1 DEF Commit, Goto
<1>3. Db' = Atomic!Over(Db, cache[p]) /\ Remains' = {Db, Db'}
  BY CommitOver, RemainsCommit
<1>4. Seen(p) = cache[p] /\ Seen(p)' = cache[p]
  BY <1>2 DEF Seen, Reading
<1>5. View' = View /\ View[p] = cache[p]
  BY <1>1, <1>4, ViewStep DEF View, Seen
<1>6. ASSUME NEW q \in Proc \ {p} PROVE View[q] = Nothing
  <2>1. pc[q] = "idle"
    BY <1>1, <1>2, Apart DEF LockInv, Place
  <2> QED
    BY <2>1 DEF View, Reading
<1> QED
  BY <1>3, <1>5, <1>6 DEF Atomic!Commit, Nothing, Atomic!Nothing

LEMMA PowerLossRefines ==
  ASSUME DataInv, DataInv', PowerLoss
  PROVE  Atomic!PowerLoss
<1>1. View' = [p \in Proc |-> Nothing]
  BY GoneIs DEF PowerLoss, View, Reading
<1> QED
  BY <1>1, PowerLossRemains DEF Atomic!PowerLoss, Nothing, Atomic!Nothing

\* A file and its journal are one value that changes at once, whichever process
\* dies where; a loss of power takes back the last commit or nothing, if it does
\* not come between a recovery and the next sync of the file.
THEOREM PagerImplementsAtomicFile ==
  OnlyHeadKept /\ ThreadsAreApart /\ Spec => ImplementsAtomicFile
<1> SUFFICES ASSUME OnlyHeadKept, ThreadsAreApart PROVE Spec => ImplementsAtomicFile
  OBVIOUS
<1>1. Init => Atomic!Init
  <2> SUFFICES ASSUME Init PROVE Atomic!Init
    OBVIOUS
  <2>1. DataInv /\ Settled /\ ~unsynced /\ journal = NoJournal /\ jdisk = {NoJournal}
    BY DataInit DEF Init, Settled
  <2>2. file \in [Page -> Content] /\ Db = file
    BY <2>1 DEF DataInv, BaseInv, TypeInv, TypeOK, Db, Recovered, Played
  <2>3. Remains = {Db}
    BY <2>1, RemainsSettled DEF RemainsPlayed, Db
  <2>4. View = [p \in Proc |-> Nothing]
    BY DEF Init, View, Reading
  <2> QED
    BY <2>2, <2>3, <2>4 DEF Atomic!Init, Nothing, Atomic!Nothing
<1> DEFINE IInv == DataInv /\ DiskInv /\ CleanInv
<1>2. IInv /\ IInv' /\ [Next]_vars => [Atomic!Next]_Atomic!vars
  <2> SUFFICES ASSUME IInv, IInv', [Next]_vars
               PROVE  Atomic!Next \/ UNCHANGED Atomic!vars
    OBVIOUS
  <2>1. ASSUME NEW p \in Proc, Step(p) PROVE Atomic!Next \/ UNCHANGED Atomic!vars
    <3>1. \A ended \in SUBSET Proc : Atomic!End(ended) => Atomic!Next
      BY DEF Atomic!Next
    <3>2. Unlock(p) \/ RollbackFile(p) => Atomic!Next
      BY <3>1, EndRefines
    <3> QED
      BY <2>1, <3>2, QuietRefines, ReadRefines, ChangeRefines, RollbackRefines, CommitRefines
      DEF Step, Atomic!Next
  <2>2. ASSUME NEW p \in Proc, Crash(p) PROVE Atomic!Next
    BY <2>2, CrashRefines DEF Atomic!Next, Threads
  <2>3. CASE PowerLoss
    BY <2>3, PowerLossRefines DEF Atomic!Next
  <2>4. CASE UNCHANGED vars
    BY <2>4 DEF vars, pages, journals, Atomic!vars, Db, Recovered, Played, Recorded, Remains, Survivors,
                View, Reading
  <2> QED
    BY <2>1, <2>2, <2>3, <2>4 DEF Next
<1>3. Init => IInv
  BY DataInit, DiskInit, CleanInit
<1>4. IInv /\ [Next]_vars => IInv'
  BY DataStep, DiskStep, CleanStep
<1> HIDE DEF IInv
<1> QED
  BY <1>1, <1>2, <1>3, <1>4, PTL DEF Spec, ImplementsAtomicFile, Atomic!Spec

=============================================================================
