------------------------- MODULE SqliteSubsMgr_proofs -------------------------
(***************************************************************************)
(* Proofs about the sqlite subscription manager, for every set of          *)
(* processes, identifiers and values and every bound on the repetitions:   *)
(* what a call has read stays true until it returns, and the manager       *)
(* implements SubscriptionStore.                                           *)
(***************************************************************************)
EXTENDS SqliteSubsMgr, FiniteSetTheorems, TLAPS

-----------------------------------------------------------------------------
(* Types.                                                                   *)

\* A call's arguments are those of one of the five operations.
LEMMA CallCases ==
  ASSUME NEW p \in Proc,
         \E i \in Id : \/ \E o \in {"insert", "update"}, v \in Value : Call(p, o, i, v)
                       \/ \E o \in {"remove"} \cup ReadOp : Call(p, o, i, NoRow)
  PROVE  \E i \in Id, o \in WriteOp \cup ReadOp, v \in Row : Call(p, o, i, v)
BY DEF WriteOp, Row

\* One step of a call.
LEMMA TypeWork ==
  ASSUME TypeOK, NEW p \in Proc, Work(p)
  PROVE  TypeOK'
<1> USE SqliteAssumption DEF TypeOK, File, Lock, PC, Row, WriteOp, ReadOp
<1>1. CASE CheckFile(p)
  BY <1>1 DEF CheckFile
<1>2. CASE OpenFile(p)
  <2>1. file' \in File
    BY <1>2 DEF OpenFile
  <2>2. pc' \in [Proc -> PC]
    BY <1>2 DEF OpenFile
  <2> QED
    BY <1>2, <2>1, <2>2 DEF OpenFile
<1>3. CASE CreateTable(p)
  BY <1>3 DEF CreateTable
<1>4. ASSUME NEW label \in PC, NEW l \in Lock, Advance(p, label, l) PROVE TypeOK'
  BY <1>4 DEF Advance
<1>5. ASSUME NEW l \in Lock, Retry(p, l) PROVE TypeOK'
  BY <1>5 DEF Retry
<1>6. ASSUME NEW s \in {"SUCCESS", "FAILURE"}, GiveUp(p, s) PROVE TypeOK'
  BY <1>6 DEF GiveUp, Return
<1>7. /\ {"commit", "write", "fetch"} \subseteq PC
      /\ {"none", "shared", "reserved", "pending", "exclusive"} \subseteq Lock
  OBVIOUS
<1>8. CASE Write(p)
  BY <1>8 DEF Write, Return, Written
<1>9. ASSUME NEW i \in Id, Fetch(p, i) PROVE TypeOK'
  BY <1>9 DEF Fetch
<1> HIDE DEF TypeOK, PC, Lock
<1>10. CASE Step(p)
  BY <1>4, <1>6, <1>7, <1>10 DEF Step
<1>11. CASE StepCommit(p)
  BY <1>4, <1>6, <1>7, <1>11 DEF StepCommit
<1>12. CASE Delete(p)
  BY <1>4, <1>5, <1>6, <1>7, <1>12 DEF Delete
<1>13. CASE Commit(p)
  BY <1>4, <1>5, <1>6, <1>7, <1>13 DEF Commit
<1>14. CASE Select(p)
  BY <1>4, <1>5, <1>6, <1>7, <1>14 DEF Select
<1>15. CASE EndFetch(p)
  BY <1>6, <1>15 DEF EndFetch
<1> QED
  BY <1>1, <1>2, <1>3, <1>8, <1>9, <1>10, <1>11, <1>12, <1>13, <1>14, <1>15 DEF Work

\* Every variable keeps to the values the code's data can take; in particular
\* no statement is repeated more than MaxRetries times.
THEOREM TypeCorrect == Spec => []TypeOK
<1> USE SqliteAssumption DEF TypeOK, File, Lock, PC, Row, NoRows, WriteOp, ReadOp
<1>1. Init => TypeOK
  BY DEF Init
<1>2. TypeOK /\ [Next]_vars => TypeOK'
  <2> SUFFICES ASSUME TypeOK, [Next]_vars PROVE TypeOK'
    OBVIOUS
  <2>1. ASSUME NEW p \in Proc, NEW i \in Id, NEW o \in WriteOp \cup ReadOp, NEW v \in Row,
               Call(p, o, i, v)
        PROVE  TypeOK'
    BY <2>1 DEF Call
  <2>2. ASSUME NEW p \in Proc, Crash(p) PROVE TypeOK'
    BY <2>2 DEF Crash
  <2>3. CASE UNCHANGED vars
    BY <2>3 DEF vars
  <2> HIDE DEF TypeOK, Row, WriteOp, ReadOp
  <2> QED
    BY <2>1, <2>2, <2>3, CallCases, TypeWork DEF Next
<1> QED
  BY <1>1, <1>2, PTL DEF Spec

-----------------------------------------------------------------------------
(* Locks.                                                                   *)

\* The locks that make a connection the only writer.
Writer == {"reserved", "pending", "exclusive"}

\* Which lock and which call belong to each place in the code.
Place(label, l, o) ==
  /\ label \in Starting \cup {"idle"} => l = "none" /\ o = "none"
  /\ label = "statement" => l = "none" /\ o \in WriteOp \cup ReadOp
  /\ label = "fetch"     => l = "shared" /\ o \in ReadOp
  /\ label = "commit"    => l \in {"reserved", "pending"} /\ o \in WriteOp
  /\ label = "write"     => l = "exclusive" /\ o \in WriteOp

\* Which locks exclude each other.
Compatible(l, m) ==
  /\ ~(l \in Writer /\ m \in Writer)
  /\ l = "exclusive" => m = "none"
  /\ m = "exclusive" => l = "none"

LockInv ==
  /\ TypeOK
  /\ \A p \in Proc : Place(pc[p], lock[p], op[p])
  /\ \A p \in Proc : \A q \in Others(p) : Compatible(lock[p], lock[q])

\* One connection moves: it is enough that its own place is in order and that
\* its lock goes with those of the others.
LEMMA OneMoves ==
  ASSUME LockInv, TypeOK', NEW p \in Proc, NEW label, NEW l, NEW o,
         pc' = [pc EXCEPT ![p] = label],
         lock' = [lock EXCEPT ![p] = l],
         op' = [op EXCEPT ![p] = o],
         Place(label, l, o),
         \A q \in Others(p) : Compatible(l, lock[q])
  PROVE  LockInv'
<1>1. \A q \in Others(p) : pc'[q] = pc[q] /\ lock'[q] = lock[q] /\ op'[q] = op[q]
  BY DEF LockInv, TypeOK, Others
<1>2. pc'[p] = label /\ lock'[p] = l /\ op'[p] = o
  BY DEF LockInv, TypeOK
<1>3. \A q \in Proc : Place(pc[q], lock[q], op[q])'
  BY <1>1, <1>2 DEF LockInv, Others, Place
<1>4. ASSUME NEW q \in Proc, NEW r \in Others(q) PROVE Compatible(lock'[q], lock'[r])
  <2>1. CASE q = p
    BY <2>1, <1>1, <1>2
  <2>2. CASE r = p
    BY <2>2, <1>1, <1>2 DEF Others, Compatible
  <2>3. CASE q # p /\ r # p
    BY <2>3, <1>1 DEF Others, LockInv
  <2> QED
    BY <2>1, <2>2, <2>3
<1> QED
  BY <1>3, <1>4 DEF LockInv, Others

\* The end of a call, and the end of a process.
LEMMA OneLeaves ==
  ASSUME LockInv, TypeOK', NEW p \in Proc, NEW label \in {"idle", "down"},
         pc' = [pc EXCEPT ![p] = label],
         lock' = [lock EXCEPT ![p] = "none"],
         op' = [op EXCEPT ![p] = "none"]
  PROVE  LockInv'
<1>1. Place(label, "none", "none")
  BY DEF Place, Starting
<1>2. \A q \in Others(p) : Compatible("none", lock[q])
  BY DEF Compatible, Writer
<1> QED
  BY <1>1, <1>2, OneMoves

\* The statement is repeated or the lock is had.
LEMMA OneStays ==
  ASSUME LockInv, TypeOK', NEW p \in Proc, NEW label, NEW l,
         pc' = [pc EXCEPT ![p] = label],
         lock' = [lock EXCEPT ![p] = l],
         UNCHANGED op,
         Place(label, l, op[p]),
         \A q \in Others(p) : Compatible(l, lock[q])
  PROVE  LockInv'
<1>1. op' = [op EXCEPT ![p] = op[p]]
  BY DEF LockInv, TypeOK
<1> QED
  BY <1>1, OneMoves

\* Locks and places, step by step.
LEMMA LockInvWork ==
  ASSUME LockInv, TypeOK', NEW p \in Proc, Work(p)
  PROVE  LockInv'
<1> USE DEF WriteOp, ReadOp
<1>0. TypeOK /\ Place(pc[p], lock[p], op[p]) /\ \A q \in Others(p) : Compatible(lock[p], lock[q])
  BY DEF LockInv
<1>1. ASSUME NEW s, Return(p, s) PROVE LockInv'
  BY <1>1, OneLeaves DEF Return
<1>2. ASSUME NEW s, GiveUp(p, s) PROVE LockInv'
  BY <1>1, <1>2 DEF GiveUp
<1>3. ASSUME NEW label, pc[p] \in Starting \cup {"idle"}, label \in Starting \cup {"idle"},
             pc' = [pc EXCEPT ![p] = label], UNCHANGED <<lock, op>>
      PROVE  LockInv'
  <2>1. lock' = [lock EXCEPT ![p] = "none"] /\ op[p] = "none"
    BY <1>0, <1>3 DEF Place, TypeOK
  <2>2. Place(label, "none", op[p]) /\ \A q \in Others(p) : Compatible("none", lock[q])
    BY <1>3, <2>1 DEF Place, Starting, Compatible, Writer
  <2> QED
    BY <1>3, <2>1, <2>2, OneStays
<1>4. CASE CheckFile(p)
  BY <1>3, <1>4 DEF CheckFile, Starting
<1>5. CASE OpenFile(p)
  BY <1>3, <1>5 DEF OpenFile, Starting
<1>6. CASE CreateTable(p)
  BY <1>3, <1>6 DEF CreateTable, Starting
<1>7. ASSUME op[p] \in WriteOp, CanReserve(p), Advance(p, "commit", "reserved") PROVE LockInv'
  <2>1. Place("commit", "reserved", op[p])
    BY <1>7 DEF Place, Starting
  <2>2. \A q \in Others(p) : Compatible("reserved", lock[q])
    BY <1>7 DEF Compatible, CanReserve, CanRead, Writer
  <2> QED
    BY <1>7, <2>1, <2>2, OneStays DEF Advance
<1>8. ASSUME op[p] \in WriteOp, CanExclude(p), Advance(p, "write", "exclusive") PROVE LockInv'
  <2>1. Place("write", "exclusive", op[p])
    BY <1>8 DEF Place, Starting
  <2>2. \A q \in Others(p) : Compatible("exclusive", lock[q])
    BY <1>8 DEF Compatible, CanExclude, Writer
  <2> QED
    BY <1>8, <2>1, <2>2, OneStays DEF Advance
<1>9. ASSUME pc[p] = "statement", Retry(p, "none") PROVE LockInv'
  <2>1. pc' = [pc EXCEPT ![p] = "statement"]
    BY <1>0, <1>9 DEF Retry, TypeOK
  <2>2. Place("statement", "none", op[p]) /\ \A q \in Others(p) : Compatible("none", lock[q])
    BY <1>0, <1>9 DEF Place, Starting, Compatible, Writer
  <2> QED
    BY <1>9, <2>1, <2>2, OneStays DEF Retry
<1>10. ASSUME pc[p] = "commit", Retry(p, "pending") PROVE LockInv'
  <2>1. pc' = [pc EXCEPT ![p] = "commit"]
    BY <1>0, <1>10 DEF Retry, TypeOK
  <2>2. Place("commit", "pending", op[p]) /\ \A q \in Others(p) : Compatible("pending", lock[q])
    BY <1>0, <1>10 DEF Place, Starting, Compatible, Writer
  <2> QED
    BY <1>10, <2>1, <2>2, OneStays DEF Retry
<1>11. CASE Step(p)
  BY <1>2, <1>7, <1>11 DEF Step
<1>12. CASE StepCommit(p)
  BY <1>2, <1>8, <1>12 DEF StepCommit
<1>13. CASE Write(p)
  BY <1>1, <1>13 DEF Write
<1>14. CASE Delete(p)
  BY <1>2, <1>7, <1>9, <1>14 DEF Delete
<1>15. CASE Commit(p)
  BY <1>2, <1>8, <1>10, <1>15 DEF Commit
<1>16. CASE Select(p)
  <2>1. ASSUME CanRead(p), Advance(p, "fetch", "shared") PROVE LockInv'
    <3>1. Place("fetch", "shared", op[p]) /\ \A q \in Others(p) : Compatible("shared", lock[q])
      BY <1>16, <2>1 DEF Select, Place, Starting, CanRead, Compatible, Writer
    <3> QED
      BY <2>1, <3>1, OneStays DEF Advance
  <2> QED
    BY <1>2, <1>9, <1>16, <2>1 DEF Select
<1>17. ASSUME NEW i \in Id, Fetch(p, i) PROVE LockInv'
  BY <1>17 DEF Fetch, LockInv
<1>18. CASE EndFetch(p)
  BY <1>2, <1>18 DEF EndFetch
<1> QED
  BY <1>4, <1>5, <1>6, <1>11, <1>12, <1>13, <1>14, <1>15, <1>16, <1>17, <1>18 DEF Work

\* Every connection holds the lock its place in the code calls for, and the
\* locks exclude each other.
THEOREM LockInvCorrect == Spec => []LockInv
<1>1. Init => LockInv
  <2>1. Init => TypeOK
    BY SqliteAssumption DEF Init, TypeOK, File, Lock, PC, Row, NoRows, WriteOp, ReadOp
  <2> QED
    BY <2>1 DEF Init, LockInv, Place, Starting, Compatible, Others, Writer
<1>2. LockInv /\ TypeOK' /\ [Next]_vars => LockInv'
  <2> SUFFICES ASSUME LockInv, TypeOK', [Next]_vars PROVE LockInv'
    OBVIOUS
  <2>1. ASSUME NEW p \in Proc, NEW i \in Id, NEW o \in WriteOp \cup ReadOp, NEW v \in Row,
               Call(p, o, i, v)
        PROVE  LockInv'
    <3>1. lock' = [lock EXCEPT ![p] = "none"]
      BY <2>1 DEF Call, LockInv, Place, TypeOK
    <3>2. Place("statement", "none", o) /\ \A q \in Others(p) : Compatible("none", lock[q])
      BY DEF Place, Starting, Compatible, Writer
    <3> QED
      BY <2>1, <3>1, <3>2, OneMoves DEF Call
  <2>2. ASSUME NEW p \in Proc, Crash(p) PROVE LockInv'
    BY <2>2, OneLeaves DEF Crash
  <2>3. CASE UNCHANGED vars
    BY <2>3 DEF vars, LockInv
  <2> QED
    BY <2>1, <2>2, <2>3, CallCases, LockInvWork DEF Next
<1> QED
  BY <1>1, <1>2, TypeCorrect, PTL DEF Spec

-----------------------------------------------------------------------------
(* What a select has read and what an insert has checked.                   *)

\* A select has delivered only rows it was asked for, and nothing before it
\* began.
FetchInv == \A p \in Proc :
  /\ pc[p] # "fetch" => seen[p] = {}
  /\ pc[p] = "fetch" => seen[p] \subseteq Wanted(p)
  /\ pc[p] = "statement" => got[p] = NoRows
  /\ pc[p] = "fetch" => \A i \in Id \ seen[p] : got[p][i] = NoRow

DataInv == FetchInv /\ ReadsAreStable

\* A step that does not touch the table leaves every other process alone.
LEMMA DataInvOther ==
  ASSUME DataInv, LockInv, NEW p \in Proc,
         UNCHANGED db,
         \A q \in Others(p) : /\ pc'[q] = pc[q] /\ op'[q] = op[q] /\ id'[q] = id[q]
                              /\ got'[q] = got[q] /\ seen'[q] = seen[q],
         pc'[p] # "fetch" => seen'[p] = {},
         pc'[p] = "fetch" => /\ seen'[p] \subseteq Wanted(p)'
                             /\ \A i \in Id \ seen'[p] : got'[p][i] = NoRow
                             /\ \A i \in seen'[p] : got'[p][i] = db[i],
         pc'[p] = "statement" => got'[p] = NoRows,
         pc'[p] \in {"commit", "write"} /\ op'[p] = "insert" => db[id'[p]] = NoRow
  PROVE  DataInv'
BY DEF DataInv, FetchInv, ReadsAreStable, Wanted, Others

\* One step of a call.
LEMMA DataInvWork ==
  ASSUME DataInv, LockInv, LockInv', NEW p \in Proc, Work(p)
  PROVE  DataInv'
<1> USE SqliteAssumption DEF LockInv, TypeOK
<1>0. /\ pc[p] # "fetch" => seen[p] = {}
      /\ pc[p] = "statement" => got[p] = NoRows
      /\ pc[p] \in {"commit", "write"} /\ op[p] = "insert" => db[id[p]] = NoRow
  BY DEF DataInv, FetchInv, ReadsAreStable
<1>1. ASSUME NEW s, GiveUp(p, s) PROVE DataInv'
  BY <1>0, <1>1, DataInvOther DEF GiveUp, Return, Others
<1>2. ASSUME NEW l, Retry(p, l), pc[p] # "fetch" PROVE DataInv'
  BY <1>0, <1>2, DataInvOther DEF Retry, Others
<1>3. CASE CheckFile(p)
  BY <1>0, <1>3, DataInvOther DEF CheckFile, Others
<1>4. CASE OpenFile(p)
  <2>1. pc[p] = "open" /\ pc'[p] \in {"createTable", "idle"}
    BY <1>4 DEF OpenFile
  <2>2. \A q \in Others(p) : pc'[q] = pc[q]
    BY <1>4 DEF OpenFile, Others
  <2> QED
    BY <1>0, <1>4, <2>1, <2>2, DataInvOther DEF OpenFile
<1>5. CASE CreateTable(p)
  BY <1>0, <1>5, DataInvOther DEF CreateTable, Others
<1>6. ASSUME NEW l, pc[p] = "statement", op[p] = "insert" => db[id[p]] = NoRow,
             Advance(p, "commit", l)
      PROVE  DataInv'
  BY <1>0, <1>6, DataInvOther DEF Advance, Others
<1>7. ASSUME pc[p] = "commit", Advance(p, "write", "exclusive") PROVE DataInv'
  BY <1>0, <1>7, DataInvOther DEF Advance, Others
<1>8. CASE Step(p)
  BY <1>1, <1>6, <1>8 DEF Step
<1>9. CASE StepCommit(p)
  BY <1>1, <1>7, <1>9 DEF StepCommit
<1>10. CASE Write(p)
  <2>1. \A q \in Others(p) : lock[q] = "none"
    BY <1>10 DEF Write, Place, Compatible
  <2>2. \A q \in Others(p) : pc[q] \notin {"fetch", "commit", "write"}
    BY <2>1 DEF Place, Others
  <2>3. \A q \in Others(p) : pc'[q] = pc[q] /\ seen'[q] = seen[q] /\ got'[q] = got[q]
    BY <1>10 DEF Write, Return, Others
  <2>4. pc'[p] = "idle" /\ seen'[p] = {}
    BY <1>10 DEF Write, Return
  <2>5. \A q \in Others(p) : seen[q] = {} /\ (pc[q] = "statement" => got[q] = NoRows)
    BY <2>2 DEF DataInv, FetchInv, Others
  <2>6. \A q \in Proc : q = p \/ q \in Others(p)
    BY DEF Others
  <2> HIDE DEF LockInv, TypeOK
  <2>7. FetchInv'
    BY <2>2, <2>3, <2>4, <2>5, <2>6 DEF FetchInv
  <2>8. ReadsAreStable'
    BY <2>2, <2>3, <2>4, <2>6 DEF ReadsAreStable
  <2> QED
    BY <2>7, <2>8 DEF DataInv
<1>11. CASE Delete(p)
  BY <1>1, <1>2, <1>6, <1>11 DEF Delete
<1>12. CASE Commit(p)
  BY <1>1, <1>2, <1>7, <1>12 DEF Commit
<1>13. CASE Select(p)
  <2>1. ASSUME Advance(p, "fetch", "shared") PROVE DataInv'
    <3>1. pc[p] = "statement" /\ seen[p] = {} /\ got[p] = NoRows
      BY <1>0, <1>13 DEF Select
    <3>2. /\ pc'[p] = "fetch" /\ seen'[p] = {} /\ got'[p] = NoRows
          /\ \A q \in Others(p) : /\ pc'[q] = pc[q] /\ op'[q] = op[q] /\ id'[q] = id[q]
                                  /\ got'[q] = got[q] /\ seen'[q] = seen[q]
      BY <2>1, <3>1 DEF Advance, Others
    <3> QED
      BY <2>1, <3>2, DataInvOther DEF Advance, NoRows
  <2> QED
    BY <1>1, <1>2, <1>13, <2>1 DEF Select
<1>14. ASSUME NEW i \in Id, Fetch(p, i) PROVE DataInv'
  <2>1. /\ pc'[p] = "fetch" /\ seen'[p] = seen[p] \cup {i} /\ i \in Wanted(p)
        /\ got'[p] = [got[p] EXCEPT ![i] = db[i]] /\ got[p] \in [Id -> Row]
    BY <1>14 DEF Fetch
  <2>2. /\ Wanted(p)' = Wanted(p)
        /\ seen[p] \subseteq Wanted(p)
        /\ \A j \in Id \ seen[p] : got[p][j] = NoRow
        /\ \A j \in seen[p] : got[p][j] = db[j]
    BY <1>14 DEF Fetch, Wanted, DataInv, FetchInv, ReadsAreStable
  <2>3. seen[p] \subseteq Id
    OBVIOUS
  <2>4. /\ \A j \in Id \ seen'[p] : got'[p][j] = NoRow
        /\ \A j \in seen'[p] : got'[p][j] = db[j]
    BY <2>1, <2>2, <2>3
  <2>5. \A q \in Others(p) : /\ pc'[q] = pc[q] /\ op'[q] = op[q] /\ id'[q] = id[q]
                             /\ got'[q] = got[q] /\ seen'[q] = seen[q]
    BY <1>14 DEF Fetch, Others
  <2> QED
    BY <1>14, <2>1, <2>2, <2>4, <2>5, DataInvOther DEF Fetch
<1>15. CASE EndFetch(p)
  BY <1>1, <1>15 DEF EndFetch
<1> QED
  BY <1>3, <1>4, <1>5, <1>8, <1>9, <1>10, <1>11, <1>12, <1>13, <1>14, <1>15 DEF Work

\* The invariant behind the next two theorems.
THEOREM DataInvCorrect == Spec => []DataInv
<1>1. Init => DataInv
  BY DEF Init, DataInv, FetchInv, ReadsAreStable
<1>2. DataInv /\ LockInv /\ LockInv' /\ [Next]_vars => DataInv'
  <2> SUFFICES ASSUME DataInv, LockInv, LockInv', [Next]_vars PROVE DataInv'
    OBVIOUS
  <2>1. ASSUME NEW p \in Proc, NEW i \in Id, NEW o \in WriteOp \cup ReadOp, NEW v \in Row,
               Call(p, o, i, v)
        PROVE  DataInv'
    <3>1. seen[p] = {}
      BY <2>1 DEF Call, DataInv, FetchInv
    <3> QED
      BY <2>1, <3>1, DataInvOther DEF Call, Others, LockInv, TypeOK
  <2>2. ASSUME NEW p \in Proc, Crash(p) PROVE DataInv'
    BY <2>2, DataInvOther DEF Crash, Others, LockInv, TypeOK
  <2>3. CASE UNCHANGED vars
    BY <2>3 DEF vars, DataInv, FetchInv, ReadsAreStable, Wanted
  <2> QED
    BY <2>1, <2>2, <2>3, CallCases, DataInvWork DEF Next
<1> QED
  BY <1>1, <1>2, LockInvCorrect, PTL DEF Spec

\* What a select has read stays true while it runs, and so does what an insert
\* has checked.
THEOREM ReadsStable == Spec => []ReadsAreStable
<1>1. DataInv => ReadsAreStable
  BY DEF DataInv
<1> QED
  BY <1>1, DataInvCorrect, PTL

-----------------------------------------------------------------------------
(* The manager implements the store.                                        *)

\* What the store's specification calls the result of the last retrieval.
Result == [p \in Proc |-> IF pc[p] = "fetch" THEN NoRows ELSE got[p]]

\* A step that neither touches the table nor ends a call is none for the store.
LEMMA Stutters ==
  ASSUME UNCHANGED <<db, op, id, val, status>>, Result' = Result
  PROVE  UNCHANGED Store!vars
BY DEF Store!vars, Result

\* One step of a call.
LEMMA WorkRefines ==
  ASSUME LockInv, LockInv', DataInv, NEW p \in Proc, Work(p)
  PROVE  Store!Next \/ UNCHANGED Store!vars
<1> USE DEF LockInv, TypeOK, Result
<1>0. /\ pc[p] = "statement" => got[p] = NoRows
      /\ Place(pc[p], lock[p], op[p])
  BY DEF DataInv, FetchInv
<1>1. ASSUME pc[p] # "fetch", pc'[p] # "fetch", UNCHANGED got,
             \A q \in Proc \ {p} : pc'[q] = pc[q]
      PROVE  Result' = Result
  BY <1>1
<1>2. CASE CheckFile(p)
  BY <1>1, <1>2, Stutters DEF CheckFile
<1>3. CASE OpenFile(p)
  <2>1. pc[p] = "open" /\ pc'[p] \in {"createTable", "idle"} /\ \A q \in Proc \ {p} : pc'[q] = pc[q]
    BY <1>3 DEF OpenFile
  <2> QED
    BY <1>1, <1>3, <2>1, Stutters DEF OpenFile
<1>4. CASE CreateTable(p)
  BY <1>1, <1>4, Stutters DEF CreateTable
<1>5. ASSUME pc[p] # "fetch", NEW label \in {"commit", "write"}, NEW l, Advance(p, label, l)
      PROVE  UNCHANGED Store!vars
  BY <1>1, <1>5, Stutters DEF Advance
<1>6. ASSUME pc[p] # "fetch", NEW l, Retry(p, l) PROVE UNCHANGED Store!vars
  BY <1>1, <1>6, Stutters DEF Retry
<1>7. ASSUME pc[p] \in {"statement", "commit"}, GiveUp(p, "FAILURE") PROVE Store!Fail(p)
  <2>1. Result' = Result
    BY <1>1, <1>7 DEF GiveUp, Return
  <2>2. op[p] # "none"
    BY <1>0, <1>7 DEF Place, WriteOp, ReadOp
  <2> QED
    BY <1>7, <2>1, <2>2 DEF GiveUp, Return, Store!Fail, Store!Return
<1>8. CASE Step(p)
  BY <1>5, <1>7, <1>8 DEF Step, Store!Next
<1>9. CASE StepCommit(p)
  BY <1>5, <1>7, <1>9 DEF StepCommit, Store!Next
<1>10. CASE Write(p)
  <2>1. op[p] \in WriteOp /\ (op[p] = "insert" => db[id[p]] = NoRow)
    BY <1>0, <1>10 DEF Write, Place, DataInv, ReadsAreStable
  <2>2. Result' = Result
    BY <1>1, <1>10 DEF Write, Return
  <2>3. Store!Write(p)
    BY <1>10, <2>1, <2>2
    DEF Write, Return, Written, WriteOp, Store!Write, Store!Return, Store!Written, Store!WriteOp
  <2> QED
    BY <2>3 DEF Store!Next
<1>11. CASE Delete(p)
  BY <1>5, <1>6, <1>7, <1>11 DEF Delete, Store!Next
<1>12. CASE Commit(p)
  <2>1. ASSUME GiveUp(p, "SUCCESS") PROVE Store!Pretend(p)
    <3>1. Result' = Result
      BY <1>1, <1>12, <2>1 DEF Commit, GiveUp, Return
    <3> QED
      BY <1>12, <2>1, <3>1 DEF Commit, GiveUp, Return, Store!Pretend, Store!Return
  <2> QED
    BY <1>5, <1>6, <1>12, <2>1 DEF Commit, Store!Next
<1>13. CASE Select(p)
  <2>1. ASSUME Advance(p, "fetch", "shared") PROVE UNCHANGED Store!vars
    <3>1. Result' = Result
      BY <1>0, <1>13, <2>1 DEF Select, Advance
    <3> QED
      BY <2>1, <3>1, Stutters DEF Advance
  <2> QED
    BY <1>6, <1>7, <1>13, <2>1 DEF Select, Store!Next
<1>14. ASSUME NEW i \in Id, Fetch(p, i) PROVE UNCHANGED Store!vars
  <2>1. Result' = Result
    BY <1>14 DEF Fetch
  <2> QED
    BY <1>14, <2>1, Stutters DEF Fetch
<1>15. CASE EndFetch(p)
  <2>1. /\ op[p] \in ReadOp
        /\ \A i \in Id : got[p][i] = IF i \in seen[p] THEN db[i] ELSE NoRow
        /\ \A i \in Id : i \in seen[p] <=> i \in Wanted(p)
    BY <1>0, <1>15 DEF EndFetch, Place, DataInv, FetchInv, ReadsAreStable
  <2>2. got[p] = Store!Found(db, op[p], id[p])
    BY <2>1 DEF Store!Found, Wanted
  <2>3. Result' = [Result EXCEPT ![p] = got[p]]
    BY <1>15 DEF EndFetch, GiveUp, Return
  <2>4. Store!Read(p)
    BY <1>15, <2>1, <2>2, <2>3
    DEF EndFetch, GiveUp, Return, ReadOp, Store!Read, Store!Return, Store!ReadOp
  <2> QED
    BY <2>4 DEF Store!Next
<1> QED
  BY <1>2, <1>3, <1>4, <1>8, <1>9, <1>10, <1>11, <1>12, <1>13, <1>14, <1>15 DEF Work

\* A call of the sqlite manager takes effect at one moment or fails, whatever
\* the other connections do and wherever a process dies.
THEOREM SqliteImplementsStore == Spec => ImplementsStore
<1>1. Init => Store!Init
  BY DEF Init, Store!Init, NoRows, Store!NoRows
<1>2. LockInv /\ LockInv' /\ DataInv /\ [Next]_vars => [Store!Next]_Store!vars
  <2> SUFFICES ASSUME LockInv, LockInv', DataInv, [Next]_vars
               PROVE  Store!Next \/ UNCHANGED Store!vars
    OBVIOUS
  <2>1. ASSUME NEW p \in Proc, NEW i \in Id,
               \/ \E o \in {"insert", "update"}, v \in Value : Call(p, o, i, v)
               \/ \E o \in {"remove"} \cup ReadOp : Call(p, o, i, NoRow)
        PROVE  Store!Next
    <3>1. ASSUME NEW o \in WriteOp \cup ReadOp, NEW v \in Row, Call(p, o, i, v)
          PROVE  Store!Call(p, o, i, v)
      <4>1. op[p] = "none"
        BY <3>1 DEF Call, LockInv, Place
      <4>2. Result' = [Result EXCEPT ![p] = NoRows]
        BY <3>1 DEF Call, Result, LockInv, TypeOK
      <4> QED
        BY <3>1, <4>1, <4>2 DEF Call, Result, Store!Call, NoRows, Store!NoRows
    <3> QED
      BY <2>1, <3>1 DEF Store!Next, WriteOp, ReadOp, Row, Store!ReadOp
  <2>2. ASSUME NEW p \in Proc, Crash(p) PROVE Store!Next
    <3>1. Result' = [Result EXCEPT ![p] = NoRows]
      BY <2>2 DEF Crash, Result, LockInv, TypeOK
    <3>2. Store!Crash(p)
      BY <2>2, <3>1 DEF Crash, Result, Store!Crash, NoRows, Store!NoRows
    <3> QED
      BY <3>2 DEF Store!Next
  <2>3. CASE UNCHANGED vars
    BY <2>3 DEF vars, Store!vars
  <2> QED
    BY <2>1, <2>2, <2>3, WorkRefines DEF Next
<1> QED
  BY <1>1, <1>2, LockInvCorrect, DataInvCorrect, PTL DEF Spec, ImplementsStore, Store!Spec

-----------------------------------------------------------------------------
(* A call is bounded.                                                       *)

\* The rows a select can deliver.
LEMMA WantedIsFinite ==
  ASSUME TypeOK, IsFiniteSet(Id), NEW p \in Proc
  PROVE  /\ IsFiniteSet(Wanted(p)) /\ Cardinality(Wanted(p)) \in Nat
         /\ IsFiniteSet(Wanted(p) \ seen[p]) /\ Cardinality(Wanted(p) \ seen[p]) \in Nat
         /\ Cardinality(Wanted(p) \ seen[p]) <= Cardinality(Wanted(p))
<1>1. IsFiniteSet(Wanted(p))
  BY FS_Singleton DEF Wanted
<1>2. (Wanted(p) \ seen[p]) \in SUBSET Wanted(p)
  OBVIOUS
<1> QED
  BY <1>1, <1>2, FS_Subset, FS_CardinalityType

\* What is left of a call that has got no further is the same.
LEMMA LeftStays ==
  ASSUME NEW p \in Proc, pc'[p] = pc[p], tries'[p] = tries[p], op'[p] = op[p],
         id'[p] = id[p], seen'[p] = seen[p]
  PROVE  Left(p)' = Left(p)
BY DEF Left, Wanted

\* One step of a call.
LEMMA WorkCounts ==
  ASSUME LockInv, IsFiniteSet(Id), NEW p \in Proc, InCall(p), Work(p)
  PROVE  Left(p)' < Left(p)
<1> USE SqliteAssumption
<1>1. TypeOK /\ Place(pc[p], lock[p], op[p])
  BY DEF LockInv
<1>2. /\ tries[p] \in Nat /\ tries[p] <= MaxRetries /\ MaxRetries \in Nat
      /\ pc[p] \in {"statement", "commit", "write", "fetch"}
  BY <1>1 DEF TypeOK, InCall, PC, Starting
<1>3. /\ Cardinality(Wanted(p)) \in Nat /\ Cardinality(Wanted(p) \ seen[p]) \in Nat
      /\ Cardinality(Wanted(p) \ seen[p]) <= Cardinality(Wanted(p))
  BY <1>1, WantedIsFinite
<1>4. Left(p) \in Nat \ {0}
  BY <1>2, <1>3 DEF Left
<1>5. ASSUME NEW s, Return(p, s) PROVE Left(p)' < Left(p)
  <2>1. pc'[p] = "idle"
    BY <1>1, <1>5 DEF Return, TypeOK
  <2>2. Left(p)' = 0
    BY <2>1 DEF Left
  <2> QED
    BY <1>4, <2>2
<1>6. ASSUME NEW l, Retry(p, l), pc[p] \in {"statement", "commit"} PROVE Left(p)' < Left(p)
  <2>1. pc'[p] = pc[p] /\ tries'[p] = tries[p] + 1 /\ op'[p] = op[p] /\ id'[p] = id[p]
    BY <1>1, <1>6 DEF Retry, TypeOK
  <2>2. Wanted(p)' = Wanted(p)
    BY <2>1 DEF Wanted
  <2> QED
    BY <1>2, <1>3, <1>6, <2>1, <2>2 DEF Left
<1>7. ASSUME NEW l, Advance(p, "commit", l), pc[p] = "statement" PROVE Left(p)' < Left(p)
  <2>1. pc'[p] = "commit" /\ tries'[p] = 0
    BY <1>1, <1>7 DEF Advance, TypeOK
  <2>2. Left(p)' = MaxRetries + 2
    BY <1>2, <2>1 DEF Left
  <2>3. Left(p) = (MaxRetries - tries[p]) + MaxRetries + Cardinality(Wanted(p)) + 3
    BY <1>7 DEF Left
  <2> QED
    BY <1>2, <1>3, <2>2, <2>3
<1>8. ASSUME NEW l, Advance(p, "write", l), pc[p] = "commit" PROVE Left(p)' < Left(p)
  <2>1. pc'[p] = "write"
    BY <1>1, <1>8 DEF Advance, TypeOK
  <2> QED
    BY <1>2, <1>8, <2>1 DEF Left
<1>9. ASSUME NEW l, Advance(p, "fetch", l), pc[p] = "statement" PROVE Left(p)' < Left(p)
  <2>1. pc'[p] = "fetch" /\ op'[p] = op[p] /\ id'[p] = id[p] /\ seen'[p] = seen[p]
    BY <1>1, <1>9 DEF Advance, TypeOK
  <2>2. Left(p)' = Cardinality(Wanted(p) \ seen[p]) + 1
    BY <2>1 DEF Left, Wanted
  <2>3. Left(p) = (MaxRetries - tries[p]) + MaxRetries + Cardinality(Wanted(p)) + 3
    BY <1>9 DEF Left
  <2> QED
    BY <1>2, <1>3, <2>2, <2>3
<1>10. CASE Step(p)
  BY <1>5, <1>7, <1>10 DEF Step, GiveUp
<1>11. CASE StepCommit(p)
  BY <1>5, <1>8, <1>11 DEF StepCommit, GiveUp
<1>12. CASE Write(p)
  BY <1>5, <1>12 DEF Write
<1>13. CASE Delete(p)
  BY <1>5, <1>6, <1>7, <1>13 DEF Delete, GiveUp
<1>14. CASE Commit(p)
  BY <1>5, <1>6, <1>8, <1>14 DEF Commit, GiveUp
<1>15. CASE Select(p)
  BY <1>5, <1>6, <1>9, <1>15 DEF Select, GiveUp
<1>16. ASSUME NEW i \in Id, Fetch(p, i) PROVE Left(p)' < Left(p)
  <2>1. /\ pc[p] = "fetch" /\ i \in Wanted(p) \ seen[p]
        /\ pc'[p] = "fetch" /\ op'[p] = op[p] /\ id'[p] = id[p] /\ seen'[p] = seen[p] \cup {i}
    BY <1>1, <1>16 DEF Fetch, TypeOK
  <2>2. (Wanted(p) \ seen[p])' = (Wanted(p) \ seen[p]) \ {i}
    BY <2>1 DEF Wanted
  <2>3. Cardinality((Wanted(p) \ seen[p]) \ {i}) = Cardinality(Wanted(p) \ seen[p]) - 1
    BY <1>1, <2>1, WantedIsFinite, FS_RemoveElement
  <2>4. Left(p) = Cardinality(Wanted(p) \ seen[p]) + 1
    BY <2>1 DEF Left
  <2>5. Left(p)' = Cardinality((Wanted(p) \ seen[p])') + 1
    BY <2>1 DEF Left
  <2> QED
    <3>1. Cardinality((Wanted(p) \ seen[p])') = Cardinality(Wanted(p) \ seen[p]) - 1
      BY <2>2, <2>3
    <3> QED
      BY <1>3, <2>4, <2>5, <3>1
<1>17. CASE EndFetch(p)
  BY <1>5, <1>17 DEF EndFetch, GiveUp
<1> QED
  BY <1>2, <1>10, <1>11, <1>12, <1>13, <1>14, <1>15, <1>16, <1>17
  DEF Work, CheckFile, OpenFile, CreateTable

\* What a process does leaves the calls of the others where they are.
LEMMA OthersWait ==
  ASSUME TypeOK, NEW p \in Proc, NEW q \in Proc, p # q,
         \/ Work(p) \/ Crash(p)
         \/ \E i \in Id, o \in WriteOp \cup ReadOp, v \in Row : Call(p, o, i, v)
  PROVE  Left(q)' = Left(q)
<1>1. /\ pc'[q] = pc[q] /\ tries'[q] = tries[q] /\ op'[q] = op[q]
      /\ id'[q] = id[q] /\ seen'[q] = seen[q]
  <2> USE DEF TypeOK, Return, GiveUp, Advance, Retry
  <2>1. CASE CheckFile(p) \/ OpenFile(p) \/ CreateTable(p)
    BY <2>1 DEF CheckFile, OpenFile, CreateTable
  <2>2. CASE Step(p) \/ StepCommit(p) \/ Write(p)
    BY <2>2 DEF Step, StepCommit, Write
  <2>3. CASE Delete(p) \/ Commit(p) \/ Select(p)
    BY <2>3 DEF Delete, Commit, Select
  <2>4. CASE (\E i \in Id : Fetch(p, i)) \/ EndFetch(p)
    BY <2>4 DEF Fetch, EndFetch
  <2>5. CASE Crash(p)
    BY <2>5 DEF Crash
  <2>6. CASE \E i \in Id, o \in WriteOp \cup ReadOp, v \in Row : Call(p, o, i, v)
    BY <2>6 DEF Call
  <2> QED
    BY <2>1, <2>2, <2>3, <2>4, <2>5, <2>6 DEF Work
<1> QED
  BY <1>1, LeftStays

\* A call takes a number of steps that is known when it starts, for any bound on
\* the repetitions and whatever locks the others hold, if there are finitely many
\* rows.  With the fairness of FairSpec, and as no call is ever without a step it
\* can take, every call returns.
THEOREM CallsBounded == IsFiniteSet(Id) /\ Spec => CallsAreBounded
<1> SUFFICES ASSUME IsFiniteSet(Id) PROVE Spec => CallsAreBounded
  OBVIOUS
<1> DEFINE Bounded(p) == IF Work(p) THEN Left(p)' < Left(p) ELSE Left(p)' <= Left(p)
<1>1. LockInv /\ [Next]_vars => [\A p \in Proc : InCall(p) => Bounded(p)]_vars
  <2> SUFFICES ASSUME LockInv, Next, NEW p \in Proc, InCall(p), ~Work(p)
               PROVE  Left(p)' <= Left(p)
    BY WorkCounts
  <2>1. Left(p) \in Nat
    <3>1. MaxRetries \in Nat /\ tries[p] \in 0..MaxRetries
      BY SqliteAssumption DEF LockInv, TypeOK
    <3>2. Cardinality(Wanted(p)) \in Nat /\ Cardinality(Wanted(p) \ seen[p]) \in Nat
      BY WantedIsFinite DEF LockInv
    <3> QED
      BY <3>1, <3>2 DEF Left
  <2>2. PICK q \in Proc :
          \/ Work(q) \/ Crash(q)
          \/ \E i \in Id, o \in WriteOp \cup ReadOp, v \in Row : Call(q, o, i, v)
    BY CallCases DEF Next
  <2>3. CASE q = p
    <3>1. Crash(p)
      BY <2>2, <2>3 DEF InCall, Call
    <3>2. Left(p)' = 0
      BY <3>1 DEF Crash, Left, LockInv, TypeOK
    <3> QED
      BY <2>1, <3>2
  <2>4. CASE q # p
    BY <2>1, <2>2, <2>4, OthersWait DEF LockInv
  <2> QED
    BY <2>3, <2>4
<1> QED
  BY <1>1, LockInvCorrect, PTL DEF Spec, CallsAreBounded

=============================================================================
