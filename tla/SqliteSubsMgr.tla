---------------------------- MODULE SqliteSubsMgr ----------------------------
(***************************************************************************)
(* The sqlite subscription manager, the default one: every call of the     *)
(* manager opens a connection of its own, runs one statement or a small    *)
(* transaction and closes the connection.  What keeps the calls apart is   *)
(* the file lock of sqlite 3.5 with a rollback journal (SHARED, RESERVED,  *)
(* PENDING, EXCLUSIVE); what the manager adds is how it treats SQLITE_BUSY *)
(* in each call, and that differs: an insert or an update gives up, a      *)
(* removal or a retrieval repeats the statement a number of times.         *)
(*                                                                         *)
(* The library is modelled from its use here: which lock a statement needs *)
(* and what SQLITE_BUSY leaves behind.                                     *)
(***************************************************************************)
EXTENDS Naturals, FiniteSets

CONSTANTS
  Proc,        \* server threads and processes, one connection each
  Id,          \* subscription identifiers
  Value,       \* what a row holds besides its identifier
  NoRow,       \* no row for the identifier
  MaxRetries,  \* how often a statement is repeated on SQLITE_BUSY (512 in the code)
  Faults       \* which of these may happen: "chmod" fails, "crash" of a process

ASSUME SqliteAssumption ==
  /\ NoRow \notin Value
  /\ MaxRetries \in Nat
  /\ Faults \subseteq {"chmod", "crash"}

VARIABLES
  file,    \* the database file: "absent", "empty" or with the subscriber "table"
  db,      \* the committed rows
  lock,    \* the file lock of each connection
  pc,      \* where each process is
  op,      \* the call it is in
  id,      \* its subscription identifier
  val,     \* the row it writes, NoRow when it writes none
  tries,   \* repetitions of the current statement so far
  got,     \* the rows a select has delivered so far
  seen,    \* the identifiers it is through with
  status   \* what the last call returned

vars == <<file, db, lock, pc, op, id, val, tries, got, seen, status>>

WriteOp == {"insert", "update", "remove"}
ReadOp  == {"retrieve", "retrieveAll"}
Row     == Value \cup {NoRow}
NoRows  == [i \in Id |-> NoRow]

File == {"absent", "empty", "table"}
Lock == {"none", "shared", "reserved", "pending", "exclusive"}
PC   == {"down", "open", "createTable", "idle", "statement", "commit", "write", "fetch"}

\* Within create_db, or not running.
Starting == {"down", "open", "createTable"}

TypeOK ==
  /\ file   \in File
  /\ db     \in [Id -> Row]
  /\ lock   \in [Proc -> Lock]
  /\ pc     \in [Proc -> PC]
  /\ op     \in [Proc -> WriteOp \cup ReadOp \cup {"none"}]
  /\ id     \in [Proc -> Id]
  /\ val    \in [Proc -> Row]
  /\ tries  \in [Proc -> 0..MaxRetries]
  /\ got    \in [Proc -> [Id -> Row]]
  /\ seen   \in [Proc -> SUBSET Id]
  /\ status \in [Proc -> {"none", "SUCCESS", "FAILURE"}]

Init ==
  /\ file   = "absent"
  /\ db     = NoRows
  /\ lock   = [p \in Proc |-> "none"]
  /\ pc     = [p \in Proc |-> "down"]
  /\ op     = [p \in Proc |-> "none"]
  /\ id     \in {[p \in Proc |-> i] : i \in Id}
  /\ val    = [p \in Proc |-> NoRow]
  /\ tries  = [p \in Proc |-> 0]
  /\ got    = [p \in Proc |-> NoRows]
  /\ seen   = [p \in Proc |-> {}]
  /\ status = [p \in Proc |-> "none"]

-----------------------------------------------------------------------------
(* The file lock.                                                           *)

Others(p) == Proc \ {p}

\* SHARED can be had: nobody waits for, or has, the whole file.
CanRead(p) == \A q \in Others(p) : lock[q] \notin {"pending", "exclusive"}

\* RESERVED can be had: there is no other writer.
CanReserve(p) == CanRead(p) /\ \A q \in Others(p) : lock[q] # "reserved"

\* EXCLUSIVE can be had by the writer: there is no reader left.
CanExclude(p) == \A q \in Others(p) : lock[q] = "none"

-----------------------------------------------------------------------------
(* create_db, run by every process when it creates its manager.  Its status *)
(* is dropped: the process has a manager afterwards in any case.            *)

\* A file that exists is taken for a database with its table.
CheckFile(p) ==
  /\ pc[p] = "down"
  /\ pc' = [pc EXCEPT ![p] = IF file = "absent" THEN "open" ELSE "idle"]
  /\ UNCHANGED <<file, db, lock, op, id, val, tries, got, seen, status>>

\* sqlite3_open creates the file; then "chmod 777" by a shell.
OpenFile(p) ==
  /\ pc[p] = "open"
  /\ file' = IF file = "absent" THEN "empty" ELSE file
  /\ \/ pc' = [pc EXCEPT ![p] = "createTable"]
     \/ "chmod" \in Faults /\ pc' = [pc EXCEPT ![p] = "idle"]
  /\ UNCHANGED <<db, lock, op, id, val, tries, got, seen, status>>

\* "create table if not exists", not repeated on SQLITE_BUSY: another
\* connection that looks at the schema or writes just then makes it fail.
CreateTable(p) ==
  /\ pc[p] = "createTable"
  /\ \/ file' = "table" /\ CanExclude(p)
     \/ /\ \E q \in Others(p) : lock[q] # "none" \/ pc[q] \in {"createTable", "statement"}
        /\ UNCHANGED file
  /\ pc' = [pc EXCEPT ![p] = "idle"]
  /\ UNCHANGED <<db, lock, op, id, val, tries, got, seen, status>>

-----------------------------------------------------------------------------
(* A call and its end.                                                      *)

Call(p, o, i, v) ==
  /\ pc[p] = "idle"
  /\ pc'     = [pc EXCEPT ![p] = "statement"]
  /\ op'     = [op EXCEPT ![p] = o]
  /\ id'     = [id EXCEPT ![p] = i]
  /\ val'    = [val EXCEPT ![p] = v]
  /\ status' = [status EXCEPT ![p] = "none"]
  /\ got'    = [got EXCEPT ![p] = NoRows]
  /\ UNCHANGED <<file, db, lock, tries, seen>>

\* sqlite3_close ends the transaction, if there is one, and gives up the lock.
Return(p, s) ==
  /\ pc'     = [pc EXCEPT ![p] = "idle"]
  /\ op'     = [op EXCEPT ![p] = "none"]
  /\ lock'   = [lock EXCEPT ![p] = "none"]
  /\ val'    = [val EXCEPT ![p] = NoRow]
  /\ tries'  = [tries EXCEPT ![p] = 0]
  /\ seen'   = [seen EXCEPT ![p] = {}]
  /\ status' = [status EXCEPT ![p] = s]
  /\ UNCHANGED <<file, id>>

\* The statement got its lock, and the process goes on.
Advance(p, label, l) ==
  /\ pc'    = [pc EXCEPT ![p] = label]
  /\ lock'  = [lock EXCEPT ![p] = l]
  /\ tries' = [tries EXCEPT ![p] = 0]
  /\ UNCHANGED <<file, db, op, id, val, got, seen, status>>

\* busy_handler: once more after a pause.  The connection keeps what it holds.
RetryUncounted(p, l) ==
  /\ lock' = [lock EXCEPT ![p] = l]
  /\ UNCHANGED <<file, db, pc, op, id, val, tries, got, seen, status>>
RetryOnceMore(p, l) ==
  /\ tries[p] <= MaxRetries
  /\ tries' = [tries EXCEPT ![p] = @ + 1]
  /\ lock'  = [lock EXCEPT ![p] = l]
  /\ UNCHANGED <<file, db, pc, op, id, val, got, seen, status>>
Retry(p, l) ==
  /\ tries[p] < MaxRetries
  /\ tries' = [tries EXCEPT ![p] = @ + 1]
  /\ lock'  = [lock EXCEPT ![p] = l]
  /\ UNCHANGED <<file, db, pc, op, id, val, got, seen, status>>

GiveUp(p, s) == Return(p, s) /\ UNCHANGED <<db, got>>

-----------------------------------------------------------------------------
(* insert_subscriber and update_subscriber: one prepared statement that     *)
(* commits by itself.  SQLITE_BUSY at either lock ends the call.            *)

Step(p) ==
  /\ pc[p] = "statement" /\ op[p] \in {"insert", "update"}
  /\ LET ready == /\ file = "table"
                  /\ CanReserve(p)
                  /\ op[p] = "insert" => db[id[p]] = NoRow
     IN  \/ ready /\ Advance(p, "commit", "reserved")
         \/ ~ready /\ GiveUp(p, "FAILURE")

StepUnchecked(p) ==
  /\ pc[p] = "commit" /\ op[p] \in {"insert", "update"}
  /\ \/ CanExclude(p) /\ Advance(p, "write", "exclusive")
     \/ ~CanExclude(p) /\ GiveUp(p, "SUCCESS")
StepCommit(p) ==
  /\ pc[p] = "commit" /\ op[p] \in {"insert", "update"}
  /\ \/ CanExclude(p) /\ Advance(p, "write", "exclusive")
     \/ ~CanExclude(p) /\ GiveUp(p, "FAILURE")

\* The table after a write: the row's value, or no row.
Written(table, o, i, v) ==
  [table EXCEPT ![i] = IF o = "insert" THEN v
                       ELSE IF o = "update" /\ @ # NoRow THEN v
                       ELSE NoRow]

\* The journal is deleted: the transaction is committed.
Write(p) ==
  /\ pc[p] = "write"
  /\ db' = Written(db, op[p], id[p], val[p])
  /\ Return(p, "SUCCESS")
  /\ UNCHANGED got

-----------------------------------------------------------------------------
(* remove_subscriber: BEGIN, DELETE, COMMIT.  BEGIN takes no lock.          *)

\* A DELETE that never gets RESERVED, or finds no table, is rolled back and
\* reported.
Delete(p) ==
  /\ pc[p] = "statement" /\ op[p] = "remove"
  /\ \/ CanReserve(p) /\ file = "table" /\ Advance(p, "commit", "reserved")
     \/ CanRead(p) /\ file # "table" /\ GiveUp(p, "FAILURE")
     \/ ~CanReserve(p) /\ Retry(p, "none")
     \/ ~CanReserve(p) /\ tries[p] = MaxRetries /\ GiveUp(p, "FAILURE")

\* A COMMIT that finds readers keeps PENDING, which lets no new reader in.
\* The result of the last repetition is not looked at: AXIS2_SUCCESS either
\* way, and the close rolls the transaction back.
Commit(p) ==
  /\ pc[p] = "commit" /\ op[p] = "remove"
  /\ \/ CanExclude(p) /\ Advance(p, "write", "exclusive")
     \/ ~CanExclude(p) /\ Retry(p, "pending")
     \/ ~CanExclude(p) /\ tries[p] = MaxRetries /\ GiveUp(p, "SUCCESS")

-----------------------------------------------------------------------------
(* retrieve_subscriber and retrieve_all_subscribers: "BEGIN READ_ONLY" is   *)
(* no statement of sqlite and fails unnoticed, so the select runs alone.    *)

SelectUnlocked(p) ==
  /\ pc[p] = "statement" /\ op[p] \in ReadOp
  /\ \/ CanRead(p) /\ file = "table" /\ Advance(p, "fetch", "none")
     \/ CanRead(p) /\ file # "table" /\ GiveUp(p, "FAILURE")
     \/ ~CanRead(p) /\ Retry(p, "none")
     \/ ~CanRead(p) /\ tries[p] = MaxRetries /\ GiveUp(p, "FAILURE")
Select(p) ==
  /\ pc[p] = "statement" /\ op[p] \in ReadOp
  /\ \/ CanRead(p) /\ file = "table" /\ Advance(p, "fetch", "shared")
     \/ CanRead(p) /\ file # "table" /\ GiveUp(p, "FAILURE")
     \/ ~CanRead(p) /\ Retry(p, "none")
     \/ ~CanRead(p) /\ tries[p] = MaxRetries /\ GiveUp(p, "FAILURE")

\* The rows the where clause lets through.
Wanted(p) == IF op[p] = "retrieveAll" THEN Id ELSE {id[p]}

\* The callback of sqlite3_exec, once for a row.
Fetch(p, i) ==
  /\ pc[p] = "fetch"
  /\ i \in Wanted(p) \ seen[p]
  /\ got'  = [got EXCEPT ![p][i] = db[i]]
  /\ seen' = [seen EXCEPT ![p] = @ \cup {i}]
  /\ UNCHANGED <<file, db, lock, pc, op, id, val, tries, status>>

EndFetch(p) ==
  /\ pc[p] = "fetch"
  /\ Wanted(p) \subseteq seen[p]
  /\ GiveUp(p, "SUCCESS")

-----------------------------------------------------------------------------

\* A process dies: its locks go, a transaction it has not committed is rolled
\* back from the journal by the next reader.
Crash(p) ==
  /\ "crash" \in Faults
  /\ pc[p] # "down"
  /\ pc'     = [pc EXCEPT ![p] = "down"]
  /\ op'     = [op EXCEPT ![p] = "none"]
  /\ lock'   = [lock EXCEPT ![p] = "none"]
  /\ tries'  = [tries EXCEPT ![p] = 0]
  /\ seen'   = [seen EXCEPT ![p] = {}]
  /\ got'    = [got EXCEPT ![p] = NoRows]
  /\ val'    = [val EXCEPT ![p] = NoRow]
  /\ status' = [status EXCEPT ![p] = "none"]
  /\ UNCHANGED <<file, db, id>>

Work(p) ==
  \/ CheckFile(p) \/ OpenFile(p) \/ CreateTable(p)
  \/ Step(p) \/ StepCommit(p) \/ Write(p)
  \/ Delete(p) \/ Commit(p)
  \/ Select(p) \/ (\E i \in Id : Fetch(p, i)) \/ EndFetch(p)

Next == \E p \in Proc :
  \/ \E i \in Id : \/ \E o \in {"insert", "update"}, v \in Value : Call(p, o, i, v)
                  \/ \E o \in {"remove"} \cup ReadOp : Call(p, o, i, NoRow)
  \/ Work(p)
  \/ Crash(p)

Spec == Init /\ [][Next]_vars

\* A call is run by a thread of the server; every repetition of a statement is
\* a step of it.
Fairness == \A p \in Proc : WF_vars(Work(p))

FairSpec == Spec /\ Fairness

-----------------------------------------------------------------------------
(* What must hold.                                                          *)

\* What a select has delivered is what is in the table until the select ends,
\* and so is the primary key an insert has checked: no writer commits under a
\* reader, none slips in between another's check and its commit.
ReadsAreStable == \A p \in Proc :
  /\ pc[p] = "fetch" => \A i \in seen[p] : got[p][i] = db[i]
  /\ pc[p] \in {"commit", "write"} /\ op[p] = "insert" => db[id[p]] = NoRow

\* The manager does what the store's specification says: a call is one step on
\* the table, or fails and leaves it alone.  Removals may pretend.
Store == INSTANCE SubscriptionStore
  WITH rows           <- db,
       result         <- [p \in Proc |-> IF pc[p] = "fetch" THEN NoRows ELSE got[p]],
       TruthfulRemove <- FALSE

ImplementsStore == Store!Spec

\* With savan_subs_mgr.h:159, "@return status of the operation" of
\* savan_subs_mgr_remove_subscriber: AXIS2_SUCCESS means the row is gone when
\* the call returns.
RemoveStatusIsTrue ==
  [][\A p \in Proc : op[p] = "remove" /\ status'[p] = "SUCCESS" => db'[id[p]] = NoRow]_vars

\* Every call returns, however long others hold their locks: the repetitions
\* are counted, and nobody waits without counting.
InCall(p) == pc[p] \notin Starting \cup {"idle"}
EveryCallReturns == \A p \in Proc : InCall(p) ~> (pc[p] \in {"idle", "down"})

\* The steps a call has still to take, at most: a statement and a COMMIT with their
\* repetitions, and the rows of a select.
Left(p) ==
  CASE pc[p] = "statement" -> (MaxRetries - tries[p]) + MaxRetries + Cardinality(Wanted(p)) + 3
    [] pc[p] = "commit"    -> (MaxRetries - tries[p]) + 2
    [] pc[p] = "fetch"     -> Cardinality(Wanted(p) \ seen[p]) + 1
    [] pc[p] = "write"     -> 1
    [] OTHER               -> 0

\* Each step of a call counts down, repetitions on SQLITE_BUSY (busy_handler)
\* included, and no step of another process adds to what is left: a call takes
\* so many steps and no more, whoever holds which lock for how long.
CallsAreBounded ==
  [][\A p \in Proc : InCall(p) => IF Work(p) THEN Left(p)' < Left(p) ELSE Left(p)' <= Left(p)]_vars

=============================================================================
