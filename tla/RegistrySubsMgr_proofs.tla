------------------------ MODULE RegistrySubsMgr_proofs ------------------------
(***************************************************************************)
(* Proofs about the registry manager, for every set of processes,          *)
(* identifiers and values: what holds of the index with any number of      *)
(* writers, and what holds with one.                                       *)
(***************************************************************************)
EXTENDS RegistrySubsMgr, TLAPS

-----------------------------------------------------------------------------
(* Types, and what each call is about.                                      *)

\* The requests a call can be at.
Place(label, o) ==
  /\ o = "none"          => label \in {"down", "start", "idle"}
  /\ o = "insert"        => label \in {"put", "reindex", "putIndex"}
  /\ o = "update"        => label \in {"index", "subscriber", "put"}
  /\ o = "remove"        => label \in {"index", "delete", "reindex", "putIndex"}
  /\ o = "retrieve"      => label \in {"index", "subscriber", "list"}
  /\ o = "retrieveAll"   => label \in {"index", "list"}
  /\ o = "retrieveTopic" => label = "topic"

\* What is known of its identifier and its subscriber.
Known(p) ==
  /\ op[p] \in WriteOp => p \in Writer
  /\ op[p] = "insert" => id[p] \in used \ added
  /\ op[p] \in {"update", "remove", "retrieve"} => id[p] \in added
  /\ op[p] # "insert" => filtered[p]
  /\ op[p] = "remove" => id[p] \in withdrawn
  /\ op[p] \in {"insert", "update"} => val[p] \in Value

CallInv ==
  /\ TypeOK
  /\ \A p \in Proc : Place(pc[p], op[p]) /\ Known(p)
  /\ \A p, q \in Proc : op[p] = "insert" /\ op[q] = "insert" /\ id[p] = id[q] => p = q

\* The answers a client may give, and what the histories keep of the rows.
RecordsOK ==
  /\ indexCopies \in [Proc -> SUBSET [Id -> Entry]]
  /\ rowCopies   \in [Proc -> [Id -> SUBSET Value]]
  /\ witnessed   \in [Proc -> [Id -> SUBSET Row]]

LEMMA RecordsType ==
  ASSUME TypeOK, NEW p \in Proc, Copies(p), Witness(p),
         index' \in [Id -> Entry], resource' \in [Id -> Row]
  PROVE  RecordsOK'
<1>1. indexCopies' \in [Proc -> SUBSET [Id -> Entry]]
  <2>1. ASSUME NEW q \in Proc
        PROVE  (IF pc'[q] = "down" THEN {}
                ELSE IF q = p /\ WritesIndex(p) THEN {index'}
                ELSE indexCopies[q] \cup IF hasIndex' THEN {index'} ELSE {}) \in SUBSET [Id -> Entry]
    BY DEF TypeOK
  <2> QED
    BY <2>1 DEF Copies
<1>2. rowCopies' \in [Proc -> [Id -> SUBSET Value]]
  <2>1. ASSUME NEW q \in Proc, NEW i \in Id
        PROVE  (IF pc'[q] = "down" THEN {}
                ELSE ({resource'[i]} \cup IF q = p /\ i = id[p] /\ WritesRow(p) THEN {} ELSE rowCopies[q][i])
                     \ {NoRow}) \in SUBSET Value
    <3>1. rowCopies[q][i] \in SUBSET Value /\ resource'[i] \in Value \cup {NoRow}
      BY DEF TypeOK, Row
    <3> QED
      BY <3>1
  <2> QED
    BY <2>1 DEF Copies
<1>3. witnessed' \in [Proc -> [Id -> SUBSET Row]]
  <2>1. Table' \in [Id -> Row]
    BY DEF Table, Row
  <2>2. ASSUME NEW q \in Proc, NEW i \in Id
        PROVE  (IF pc'[q] = "down" THEN {}
                ELSE {Table'[i]} \cup
                     IF q = p /\ i = id[p] /\ (WritesRow(p) \/ WritesEntry(p)) THEN {}
                     ELSE witnessed[q][i]) \in SUBSET Row
    <3>1. witnessed[q][i] \in SUBSET Row /\ Table'[i] \in Row
      BY <2>1 DEF TypeOK
    <3> QED
      BY <3>1
  <2> QED
    BY <2>2 DEF Witness
<1> QED
  BY <1>1, <1>2, <1>3 DEF RecordsOK

\* What a request may do besides its way through the call.
Data ==
  /\ hasIndex' \in BOOLEAN
  /\ index'    \in [Id -> Entry]
  /\ resource' \in [Id -> Row]
  /\ got'      \in [Proc -> [Id -> Row]]
  /\ failed'   \in [Proc -> BOOLEAN]
  /\ UNCHANGED <<used, withdrawn>>

\* A retrieval finds one more subscriber.
LEMMA GotType ==
  ASSUME TypeOK, NEW p \in Proc, NEW i \in Id, NEW x \in Row, got' = [got EXCEPT ![p][i] = x]
  PROVE  got' \in [Proc -> [Id -> Row]]
<1>1. [got[p] EXCEPT ![i] = x] \in [Id -> Row]
  BY DEF TypeOK
<1> QED
  BY <1>1 DEF TypeOK

LEMMA FoundIsRow ==
  ASSUME TypeOK, NEW p \in Proc, NEW i \in Id
  PROVE  \A row \in At(p, i) : row \in Row
<1>1. rowCopies[p][i] \in SUBSET Value /\ resource[i] \in Row
  BY DEF TypeOK
<1> QED
  BY <1>1 DEF At, Found, Row

\* A call ends.
LEMMA ReturnKeeps ==
  ASSUME CallInv, NEW p \in Proc, NEW s, Return(p, s), op[p] # "none", Data, Copies(p), Witness(p)
  PROVE  CallInv'
<1> USE DEF CallInv, Return, Data
<1>1. added' \in SUBSET used /\ added \subseteq added' /\ added' \subseteq added \cup {id[p]}
  BY DEF TypeOK, Known
<1>2. added' # added => op[p] = "insert"
  OBVIOUS
<1>3. plain' \in SUBSET added'
  BY DEF TypeOK
<1>4. removed' \in SUBSET withdrawn
  BY DEF TypeOK, Known
<1>5. TypeOK'
  <2>1. RecordsOK'
    BY RecordsType
  <2>2. /\ pc' \in [Proc -> PC] /\ op' \in [Proc -> WriteOp \cup ReadOp \cup {"none"}]
        /\ id' \in [Proc -> Id \cup {NoId}]
        /\ val' \in [Proc -> Row] /\ filtered' \in [Proc -> BOOLEAN]
        /\ copy' \in [Proc -> [Id -> Entry]] /\ left' \in [Proc -> SUBSET Id]
    BY DEF TypeOK, PC, Row, Entry, NoEntries
  <2> QED
    BY <1>1, <1>3, <1>4, <2>1, <2>2 DEF TypeOK, RecordsOK
<1>6. \A q \in Proc : q # p => /\ op'[q] = op[q] /\ pc'[q] = pc[q] /\ id'[q] = id[q]
                               /\ val'[q] = val[q] /\ filtered'[q] = filtered[q]
  BY DEF TypeOK
<1>7. op'[p] = "none" /\ pc'[p] = "idle" /\ filtered'[p]
  BY DEF TypeOK
<1>8. ASSUME NEW q \in Proc PROVE Place(pc[q], op[q])' /\ Known(q)'
  <2>1. CASE q = p
    BY <2>1, <1>7 DEF Place, Known, WriteOp
  <2>2. CASE q # p
    <3>1. op[q] = "insert" => id[q] \notin added'
      BY <2>2, <1>1, <1>2 DEF Known
    <3> QED
      BY <2>2, <1>1, <1>6, <3>1 DEF Known
  <2> QED
    BY <2>1, <2>2
<1>9. ASSUME NEW q \in Proc, NEW r \in Proc, op'[q] = "insert", op'[r] = "insert", id'[q] = id'[r]
      PROVE  q = r
  BY <1>9, <1>6, <1>7
<1> QED
  BY <1>5, <1>8, <1>9

\* A call goes on.
LEMMA GotoKeeps ==
  ASSUME CallInv, NEW p \in Proc, NEW label \in PC, NEW c \in [Id -> Entry], NEW l \in SUBSET Id,
         GotoWith(p, label, c, l), Place(label, op[p]), Data, Copies(p), Witness(p)
  PROVE  CallInv'
<1> USE DEF CallInv, GotoWith, Data
<1>1. TypeOK'
  <2>1. RecordsOK'
    BY RecordsType
  <2>2. /\ pc' \in [Proc -> PC]
        /\ copy' \in [Proc -> [Id -> Entry]] /\ left' \in [Proc -> SUBSET Id]
    BY DEF TypeOK
  <2> QED
    BY <2>1, <2>2 DEF TypeOK, RecordsOK
<1>2. ASSUME NEW q \in Proc PROVE Place(pc[q], op[q])' /\ Known(q)'
  <2>1. pc'[q] = IF q = p THEN label ELSE pc[q]
    BY DEF TypeOK
  <2>2. Place(pc'[q], op[q])
    BY <2>1
  <2> QED
    BY <2>2 DEF Known
<1> QED
  BY <1>1, <1>2

\* The requests: each ends its call or goes on with it.
LEMMA CallInvRequest ==
  ASSUME CallInv, NEW p \in Proc, Request(p), Copies(p), Witness(p)
  PROVE  CallInv'
<1>0. Request(p)
  OBVIOUS
<1>1. ASSUME NEW s, Return(p, s), op[p] # "none", Data PROVE CallInv'
  BY <1>1, ReturnKeeps
<1>2. ASSUME NEW label \in PC, NEW c \in [Id -> Entry], NEW l \in SUBSET Id,
             GotoWith(p, label, c, l), Place(label, op[p]), Data
      PROVE  CallInv'
  BY <1>2, GotoKeeps
<1>3. ASSUME NEW label \in PC, Goto(p, label), Place(label, op[p]), Data PROVE CallInv'
  <2>1. copy[p] \in [Id -> Entry] /\ left[p] \in SUBSET Id
    BY DEF CallInv, TypeOK
  <2> QED
    BY <1>3, <2>1, <1>2 DEF Goto
<1>4. CASE pc[p] \in {"down", "start"} /\ (StartGet(p) \/ StartPut(p))
  <2>1. /\ op[p] = "none"
        /\ hasIndex' \in BOOLEAN /\ index' \in [Id -> Entry]
    BY <1>4 DEF StartGet, StartPut, CallInv, TypeOK, Place, WriteOp, ReadOp, NoEntries, Entry,
                registry
  <2>5. PICK label \in {"start", "idle"} : pc' = [pc EXCEPT ![p] = label]
    BY <1>4 DEF StartGet, StartPut
  <2>2. UNCHANGED <<resource, op, id, val, filtered, copy, left, got, histories>>
    BY <1>4 DEF StartGet, StartPut, registry
  <2>3. TypeOK'
    <3>1. RecordsOK'
      BY <2>1, <2>2, RecordsType DEF CallInv, TypeOK
    <3> QED
      BY <2>1, <2>2, <2>5, <3>1 DEF CallInv, TypeOK, RecordsOK, PC, histories
  <2>4. ASSUME NEW q \in Proc PROVE Place(pc[q], op[q])' /\ Known(q)'
    BY <2>1, <2>2, <2>5 DEF CallInv, TypeOK, Place, Known, histories
  <2> QED
    BY <2>2, <2>3, <2>4 DEF CallInv, histories
<1>5. CASE GetIndex(p)
  <2> USE <1>5 DEF GetIndex, registry
  <2>1. /\ op[p] \in {"update", "remove", "retrieve", "retrieveAll"}
        /\ \A c \in indexCopies[p] : c \in [Id -> Entry] /\ {i \in Id : c[i] # "none"} \in SUBSET Id
        /\ {"list", "delete", "subscriber"} \subseteq PC
    BY DEF CallInv, TypeOK, Place, WriteOp, ReadOp, PC
  <2>2. Data
    BY DEF Data, CallInv, TypeOK
  <2>3. ASSUME NEW s, Return(p, s) PROVE CallInv'
    BY <1>1, <2>1, <2>2, <2>3
  <2>4. ASSUME NEW c \in indexCopies[p], NEW label \in {"list", "delete", "subscriber"},
               NEW l \in SUBSET Id, GotoWith(p, label, c, l), Place(label, op[p])
        PROVE  CallInv'
    BY <1>2, <2>1, <2>2, <2>4
  <2>5. CASE GiveUp(p)
    BY <2>3, <2>5 DEF GiveUp
  <2>6. ASSUME NEW c \in indexCopies[p],
               \/ op[p] = "retrieveAll" /\ GotoWith(p, "list", c, {i \in Id : c[i] # "none"})
               \/ op[p] = "remove" /\ GotoWith(p, "delete", c, {})
               \/ op[p] \in {"update", "retrieve"} /\ GotoWith(p, "subscriber", c, {})
               \/ op[p] = "retrieve" /\ GotoWith(p, "list", c, {})
               \/ Return(p, "FAILURE")
        PROVE  CallInv'
    <3> HIDE DEF CallInv, GotoWith, Return
    <3> QED
      BY <2>1, <2>3, <2>4, <2>6 DEF Place
  <2> HIDE DEF CallInv, GotoWith, Return
  <2> QED
    BY <2>5, <2>6
<1>6. CASE GetIndexAgain(p)
  <2> USE <1>6 DEF GetIndexAgain, registry
  <2>1. /\ op[p] \in {"insert", "remove"}
        /\ \A c \in indexCopies[p] : c \in [Id -> Entry]
        /\ "putIndex" \in PC
    BY DEF CallInv, TypeOK, Place, WriteOp, ReadOp, PC
  <2>2. Data
    BY DEF Data, CallInv, TypeOK
  <2> QED
    BY <2>1, <2>2, <1>1, <1>2 DEF GiveUp, Place
<1>7. CASE PutIndex(p)
  <2>1. NewIndex(copy[p], op[p], id[p], filtered[p]) \in [Id -> Entry]
    BY DEF NewIndex, CallInv, TypeOK, Entry
  <2>2. Data
    BY <1>7, <2>1 DEF Data, PutIndex, CallInv, TypeOK
  <2>3. op[p] # "none"
    BY <1>7 DEF PutIndex, CallInv, Place
  <2> QED
    BY <1>7, <2>2, <2>3, <1>1 DEF PutIndex
<1>8. CASE PutSubscriber(p)
  <2>1. op[p] \in {"insert", "update"} /\ "reindex" \in PC
    BY <1>8 DEF PutSubscriber, PC
  <2>2. Data
    BY <1>8 DEF Data, PutSubscriber, CallInv, TypeOK
  <2> QED
    BY <1>8, <2>1, <2>2, <1>1, <1>3 DEF PutSubscriber, Place
<1>9. CASE GetSubscriber(p)
  <2>1. op[p] \in {"update", "retrieve"} /\ "put" \in PC /\ "list" \in PC
    BY <1>9 DEF GetSubscriber, PC, CallInv, Place, TypeOK, WriteOp, ReadOp
  <2>2. got' \in [Proc -> [Id -> Row]]
    <3>1. id[p] \in Id
      BY <2>1 DEF CallInv, Known, TypeOK
    <3>2. \A row \in At(p, id[p]) : row \in Row
      BY <3>1, FoundIsRow DEF CallInv
    <3>3. UNCHANGED got \/ \E row \in At(p, id[p]) : got' = [got EXCEPT ![p][id[p]] = row]
      BY <1>9 DEF GetSubscriber
    <3> QED
      BY <3>1, <3>2, <3>3, GotType DEF CallInv, TypeOK
  <2>4. Data
    BY <1>9, <2>2 DEF Data, GetSubscriber, CallInv, TypeOK, registry
  <2> QED
    BY <1>9, <2>1, <2>4, <1>1, <1>3 DEF GetSubscriber, GiveUp, Place
<1>10. CASE DeleteSubscriber(p)
  <2>1. op[p] = "remove" /\ "reindex" \in PC
    BY <1>10 DEF DeleteSubscriber, PC, CallInv, Place, TypeOK, WriteOp, ReadOp
  <2>2. Deleted(p) \in [Id -> Row]
    BY DEF Deleted, CallInv, TypeOK, Row
  <2>3. Data
    BY <1>10, <2>2 DEF Data, DeleteSubscriber, CallInv, TypeOK
  <2> QED
    BY <1>10, <2>1, <2>3, <1>1, <1>3 DEF DeleteSubscriber, GiveUp, Place
<1>11. ASSUME NEW i \in Id, GetListed(p, i) PROVE CallInv'
  <2>1. Data /\ left' \in [Proc -> SUBSET Id]
    <3>1. \A row \in At(p, i) : row \in Row
      BY FoundIsRow DEF CallInv
    <3>2. got' \in [Proc -> [Id -> Row]]
      <4>1. UNCHANGED got \/ \E row \in At(p, i) : got' = [got EXCEPT ![p][i] = row]
        BY <1>11 DEF GetListed
      <4> QED
        BY <3>1, <4>1, GotType DEF CallInv, TypeOK
    <3>3. failed' \in [Proc -> BOOLEAN] /\ left' \in [Proc -> SUBSET Id]
      <4>1. left' = [left EXCEPT ![p] = @ \ {i}]
        BY <1>11 DEF GetListed, Rest
      <4>2. failed' = failed \/ failed' = [failed EXCEPT ![p] = TRUE]
        BY <1>11 DEF GetListed
      <4>3. left[p] \ {i} \in SUBSET Id
        BY DEF CallInv, TypeOK
      <4> QED
        BY <4>1, <4>2, <4>3 DEF CallInv, TypeOK
    <3> QED
      BY <1>11, <3>2, <3>3 DEF Data, GetListed, CallInv, TypeOK, registry
  <2>2. UNCHANGED <<registry, pc, op, id, val, filtered, copy, used, added, plain, withdrawn, removed>>
    BY <1>11 DEF GetListed
  <2>3. TypeOK'
    <3>1. RecordsOK'
      BY <2>1, RecordsType DEF CallInv, Data
    <3> QED
      BY <2>1, <2>2, <3>1 DEF CallInv, TypeOK, RecordsOK, Data
  <2> QED
    BY <2>2, <2>3 DEF CallInv, Known
<1>12. CASE EndRetrieval(p)
  <2>1. Data /\ op[p] # "none"
    BY <1>12 DEF Data, EndRetrieval, CallInv, TypeOK, Place, registry, NoRows, Row
  <2> QED
    BY <1>12, <2>1, <1>1 DEF EndRetrieval
<1>13. CASE GetTopic(p)
  <2>1. Data /\ op[p] # "none"
    BY <1>13 DEF Data, GetTopic, CallInv, TypeOK, Place, registry
  <2> QED
    BY <1>13, <2>1, <1>1 DEF GetTopic, GiveUp
<1> QED
  BY <1>0, <1>4, <1>5, <1>6, <1>7, <1>8, <1>9, <1>10, <1>11, <1>12, <1>13
  DEF Request, StartGet, StartPut

LEMMA CallInvCall ==
  ASSUME CallInv, NEW p \in Proc, NEW o \in WriteOp \cup ReadOp, NEW i \in Id \cup {NoId}, NEW v \in Row,
         NEW f \in BOOLEAN, Call(p, o, i, v, f), Copies(p), Witness(p),
         o = "insert" => i \in Id,
         o \in {"insert", "update"} => v \in Value,
         o # "insert" => f
  PROVE  CallInv'
<1> USE DEF Call, CallInv
<1>1. First(o) \in PC /\ Place(First(o), o)
  BY DEF First, PC, Place, WriteOp, ReadOp
<1>2. TypeOK'
  <2>1. RecordsOK'
    BY RecordsType DEF TypeOK, registry
  <2>2. /\ hasIndex' \in BOOLEAN /\ index' \in [Id -> Entry] /\ resource' \in [Id -> Row]
        /\ pc' \in [Proc -> PC] /\ op' \in [Proc -> WriteOp \cup ReadOp \cup {"none"}]
        /\ id' \in [Proc -> Id \cup {NoId}] /\ val' \in [Proc -> Row] /\ filtered' \in [Proc -> BOOLEAN]
        /\ copy' \in [Proc -> [Id -> Entry]] /\ left' \in [Proc -> SUBSET Id]
    BY <1>1 DEF TypeOK, registry
  <2>3. got' \in [Proc -> [Id -> Row]] /\ failed' \in [Proc -> BOOLEAN]
    BY DEF TypeOK, NoRows, Row
  <2>4. /\ used' \in SUBSET Id /\ added' \in SUBSET used' /\ plain' \in SUBSET added'
        /\ withdrawn' \in SUBSET added' /\ removed' \in SUBSET withdrawn'
    BY DEF TypeOK
  <2> QED
    BY <2>1, <2>2, <2>3, <2>4 DEF TypeOK, RecordsOK
<1>3. \A q \in Proc : q # p => /\ pc'[q] = pc[q] /\ op'[q] = op[q] /\ id'[q] = id[q]
                               /\ val'[q] = val[q] /\ filtered'[q] = filtered[q]
  BY DEF TypeOK
<1>4. pc'[p] = First(o) /\ op'[p] = o /\ id'[p] = i /\ val'[p] = v /\ filtered'[p] = f
  BY DEF TypeOK
<1>5. ASSUME NEW q \in Proc PROVE Place(pc[q], op[q])' /\ Known(q)'
  <2>1. CASE q = p
    BY <2>1, <1>1, <1>4 DEF Known, TypeOK
  <2>2. CASE q # p
    BY <2>2, <1>3 DEF Known, Place
  <2> QED
    BY <2>1, <2>2
<1>6. ASSUME NEW q \in Proc, NEW r \in Proc, op'[q] = "insert", op'[r] = "insert", id'[q] = id'[r]
      PROVE  q = r
  <2>1. \A t \in Proc : t # p /\ op[t] = "insert" => id[t] \in used
    BY DEF Known
  <2> QED
    BY <1>3, <1>4, <1>6, <2>1
<1> QED
  BY <1>2, <1>5, <1>6

LEMMA CallInvCrash ==
  ASSUME CallInv, NEW p \in Proc, Crash(p), Copies(p), Witness(p)
  PROVE  CallInv'
<1> USE DEF Crash, CallInv
<1>1. TypeOK'
  <2>1. RecordsOK'
    BY RecordsType DEF TypeOK, registry
  <2>2. /\ pc' \in [Proc -> PC] /\ op' \in [Proc -> WriteOp \cup ReadOp \cup {"none"}]
        /\ id' \in [Proc -> Id \cup {NoId}] /\ val' \in [Proc -> Row]
        /\ filtered' \in [Proc -> BOOLEAN] /\ got' \in [Proc -> [Id -> Row]]
        /\ failed' \in [Proc -> BOOLEAN]
        /\ copy' \in [Proc -> [Id -> Entry]] /\ left' \in [Proc -> SUBSET Id]
    BY DEF TypeOK, PC, Row, NoRows, NoEntries, Entry
  <2> QED
    BY <2>1, <2>2 DEF TypeOK, RecordsOK, registry
<1>2. \A q \in Proc : q # p => /\ pc'[q] = pc[q] /\ op'[q] = op[q] /\ id'[q] = id[q]
                               /\ val'[q] = val[q] /\ filtered'[q] = filtered[q]
  BY DEF TypeOK
<1>3. pc'[p] = "down" /\ op'[p] = "none" /\ filtered'[p]
  BY DEF TypeOK
<1>4. ASSUME NEW q \in Proc PROVE Place(pc[q], op[q])' /\ Known(q)'
  BY <1>2, <1>3 DEF Place, Known, WriteOp
<1>5. ASSUME NEW q \in Proc, NEW r \in Proc, op'[q] = "insert", op'[r] = "insert", id'[q] = id'[r]
      PROVE  q = r
  BY <1>2, <1>3, <1>5
<1> QED
  BY <1>1, <1>4, <1>5

\* The calls the manager is given, as Call takes them.
LEMMA BeginCall ==
  ASSUME NEW p \in Proc, Begin(p)
  PROVE  \E o \in WriteOp \cup ReadOp, i \in Id \cup {NoId}, v \in Row, f \in BOOLEAN :
           /\ Call(p, o, i, v, f)
           /\ o = "insert" => i \in Id
           /\ o \in {"insert", "update"} => v \in Value
           /\ o # "insert" => f
BY DEF Begin, WriteOp, ReadOp, Row

LEMMA CallInvStutter ==
  ASSUME CallInv, UNCHANGED vars
  PROVE  CallInv'
BY DEF CallInv, TypeOK, Known, Place, vars, registry, call, cached, histories

LEMMA CallInvInit == Init => CallInv
<1> SUFFICES ASSUME Init PROVE CallInv
  OBVIOUS
<1>1. TypeOK
  BY DEF Init, TypeOK, PC, Row, Entry, NoRows, NoEntries
<1>2. \A p \in Proc : pc[p] = "down" /\ op[p] = "none" /\ filtered[p]
  BY DEF Init
<1> QED
  BY <1>1, <1>2 DEF CallInv, Place, Known, WriteOp

LEMMA CallInvNext == CallInv /\ [Next]_vars => CallInv'
BY BeginCall, CallInvCall, CallInvRequest, CallInvCrash, CallInvStutter DEF Next

\* Every variable keeps to the values the code's data can take, and what the
\* histories say is consistent: only what was added is withdrawn, only what was
\* withdrawn is removed.
THEOREM TypeCorrect == Spec => []TypeOK
<1>1. CallInv => TypeOK
  BY DEF CallInv
<1> QED
  BY <1>1, CallInvInit, CallInvNext, PTL DEF Spec

-----------------------------------------------------------------------------
(* The kinds of steps.                                                      *)

Step(p) == (Begin(p) \/ Request(p) \/ Crash(p)) /\ Copies(p) /\ Witness(p)

\* A step moves one process.
LEMMA OthersStay ==
  ASSUME CallInv, NEW p \in Proc, Step(p), NEW q \in Proc, q # p
  PROVE  /\ pc'[q] = pc[q] /\ op'[q] = op[q] /\ id'[q] = id[q] /\ val'[q] = val[q]
         /\ filtered'[q] = filtered[q] /\ copy'[q] = copy[q]
         /\ left'[q] = left[q] /\ got'[q] = got[q] /\ failed'[q] = failed[q]
<1> USE DEF CallInv, TypeOK
<1>1. ASSUME Begin(p) PROVE
        /\ pc'[q] = pc[q] /\ op'[q] = op[q] /\ id'[q] = id[q] /\ val'[q] = val[q]
        /\ filtered'[q] = filtered[q] /\ copy'[q] = copy[q]
        /\ left'[q] = left[q] /\ got'[q] = got[q] /\ failed'[q] = failed[q]
  <2>1. \E o \in WriteOp \cup ReadOp, i \in Id \cup {NoId}, v \in Row, f \in BOOLEAN : Call(p, o, i, v, f)
    BY ONLY <1>1, BeginCall, Zenon
  <2>2. PICK o \in WriteOp \cup ReadOp, i \in Id \cup {NoId}, v \in Row, f \in BOOLEAN : Call(p, o, i, v, f)
    BY <2>1
  <2> QED
    BY <2>2 DEF Call
<1>2. CASE Crash(p)
  BY <1>2 DEF Crash
<1>3. ASSUME Request(p) PROVE
        /\ got'[q] = got[q] /\ failed'[q] = failed[q]
        /\ \/ UNCHANGED <<op, id, val, filtered, copy, left>> /\ \E label : pc' = [pc EXCEPT ![p] = label]
           \/ \E s : Return(p, s)
           \/ \E label, c, l : GotoWith(p, label, c, l)
           \/ UNCHANGED <<pc, op, id, val, filtered, copy>> /\ left'[q] = left[q]
  <2> USE <1>3 DEF GiveUp, Goto
  <2>1. CASE StartGet(p) \/ StartPut(p)
    <3>1. \E label : pc' = [pc EXCEPT ![p] = label]
      BY <2>1 DEF StartGet, StartPut
    <3> QED
      BY <2>1, <3>1 DEF StartGet, StartPut, histories
  <2>2. CASE GetIndex(p)
    <3> HIDE DEF CallInv, TypeOK
    <3> QED
      BY <2>2 DEF GetIndex
  <2>3. CASE GetIndexAgain(p) \/ PutIndex(p)
    BY <2>3 DEF GetIndexAgain, PutIndex
  <2>4. CASE PutSubscriber(p)
    BY <2>4 DEF PutSubscriber
  <2>5. CASE GetSubscriber(p)
    BY <2>5 DEF GetSubscriber
  <2>6. CASE DeleteSubscriber(p)
    BY <2>6 DEF DeleteSubscriber
  <2>7. ASSUME NEW i \in Id, GetListed(p, i) 
        PROVE  /\ UNCHANGED <<pc, op, id, val, filtered, copy>>
               /\ left'[q] = left[q] /\ got'[q] = got[q] /\ failed'[q] = failed[q]
    BY <2>7 DEF GetListed
  <2>8. CASE EndRetrieval(p) \/ GetTopic(p)
    BY <2>8 DEF EndRetrieval, GetTopic
  <2> QED
    BY <2>1, <2>2, <2>3, <2>4, <2>5, <2>6, <2>7, <2>8 DEF Request
<1>4. CASE Request(p)
  BY <1>3, <1>4 DEF Return, GotoWith
<1> QED
  BY <1>1, <1>2, <1>4 DEF Step

LEMMA UsedGrows ==
  ASSUME CallInv, NEW p \in Proc, Step(p)
  PROVE  used \subseteq used'
<1>1. ASSUME Begin(p) PROVE used \subseteq used'
  BY <1>1, BeginCall DEF Call
<1>2. CASE Crash(p)
  BY <1>2 DEF Crash
<1>3. CASE Request(p)
  BY <1>3 DEF Request, StartGet, StartPut, GetIndex, GetIndexAgain, PutIndex, PutSubscriber,
              GetSubscriber, DeleteSubscriber, GetListed, EndRetrieval, GetTopic, histories
<1> QED
  BY <1>1, <1>2, <1>3 DEF Step

\* A step that leaves the registry alone and does not bring a call to changing
\* the index.
Quiet(p) ==
  /\ UNCHANGED <<registry, added, plain, removed>>
  /\ withdrawn \subseteq withdrawn'
  /\ pc[p] \notin {"down", "start"} \/ Crash(p)
  /\ pc'[p] \notin {"start", "reindex", "putIndex"}
  /\ op'[p] = "insert" => id'[p] \notin used
  /\ pc'[p] = "delete" => copy'[p] \in indexCopies[p] /\ copy'[p][id'[p]] # "none"
  /\ pc'[p] = "put" /\ op'[p] = "update" =>
       /\ pc[p] = "subscriber" /\ op[p] = "update" /\ id'[p] = id[p] /\ copy'[p] = copy[p]
       /\ copy[p][id[p]] = "topic"
       /\ resource[id[p]] # NoRow \/ rowCopies[p][id[p]] # {}
  /\ pc'[p] = "subscriber" => copy'[p] \in indexCopies[p]
  /\ pc'[p] = "list" =>
       copy'[p] \in indexCopies[p] \/ (pc[p] \in {"list", "subscriber"} /\ copy'[p] = copy[p])

LEMMA StepKinds ==
  ASSUME CallInv, NEW p \in Proc, Step(p)
  PROVE  \/ StartGet(p) \/ StartPut(p)
         \/ GetIndexAgain(p) /\ \E c \in indexCopies[p] : GotoWith(p, "putIndex", c, {})
         \/ PutIndex(p)
         \/ PutSubscriber(p) \/ DeleteSubscriber(p)
         \/ Quiet(p)
<1> USE DEF CallInv, TypeOK, Quiet, registry
<1>0. ASSUME NEW s, Return(p, s), op[p] \notin {"insert", "remove"} \/ s = "FAILURE",
             pc[p] \notin {"down", "start"}, UNCHANGED <<registry, withdrawn>>
      PROVE  Quiet(p)
  BY <1>0 DEF Return
<1>1. ASSUME Begin(p) PROVE Quiet(p)
  <2>1. \E o \in WriteOp \cup ReadOp, i \in Id \cup {NoId}, v \in Row, f \in BOOLEAN : Call(p, o, i, v, f)
    BY ONLY <1>1, BeginCall, Zenon
  <2>2. PICK o \in WriteOp \cup ReadOp, i \in Id \cup {NoId}, v \in Row, f \in BOOLEAN : Call(p, o, i, v, f)
    BY <2>1
  <2>3. First(o) \notin {"start", "reindex", "putIndex", "delete", "list", "subscriber"} /\ First("update") # "put"
    BY DEF First
  <2> QED
    BY <2>2, <2>3 DEF Call
<1>2. ASSUME Crash(p) PROVE Quiet(p)
  BY <1>2 DEF Crash
<1>3. ASSUME GetIndex(p) PROVE Quiet(p)
  <2>1. pc[p] = "index" /\ op[p] # "insert" /\ UNCHANGED <<registry, withdrawn>>
    BY <1>3 DEF GetIndex, Place
  <2>2. ASSUME NEW c \in indexCopies[p], NEW l,
               \/ GotoWith(p, "list", c, l)
               \/ GotoWith(p, "subscriber", c, l)
               \/ GotoWith(p, "delete", c, l) /\ c[id[p]] # "none"
        PROVE  Quiet(p)
    BY <2>1, <2>2 DEF GotoWith
  <2> HIDE DEF CallInv, TypeOK, Quiet, registry
  <2> QED
    BY <1>3, <1>0, <2>1, <2>2 DEF GetIndex, GiveUp
<1>4. ASSUME GetIndexAgain(p)
      PROVE  Quiet(p) \/ \E c \in indexCopies[p] : GotoWith(p, "putIndex", c, {})
  <2> HIDE DEF CallInv, TypeOK, Quiet
  <2> QED
    BY <1>4, <1>0 DEF GetIndexAgain, GiveUp
<1>5. ASSUME GetSubscriber(p) PROVE Quiet(p)
  <2>1. /\ pc[p] = "subscriber" /\ op[p] \in {"update", "retrieve"}
        /\ UNCHANGED <<registry, withdrawn>>
    BY <1>5 DEF GetSubscriber, Place, WriteOp, ReadOp
  <2>2. ASSUME op[p] = "retrieve", Goto(p, "list") PROVE Quiet(p)
    BY <2>1, <2>2 DEF Goto, GotoWith
  <2>3. ASSUME op[p] = "update", NEW row \in At(p, id[p]), row # NoRow, Goto(p, "put") PROVE Quiet(p)
    <3>1. copy[p][id[p]] = "topic" /\ row \in rowCopies[p][id[p]] \cup {resource[id[p]]}
      BY <2>3 DEF At, Found
    <3>2. resource[id[p]] # NoRow \/ rowCopies[p][id[p]] # {}
      BY <3>1, <2>3
    <3> QED
      BY <2>1, <2>3, <3>1, <3>2 DEF Goto, GotoWith
  <2> HIDE DEF CallInv, TypeOK, Quiet, registry
  <2> QED
    BY <1>5, <1>0, <2>1, <2>2, <2>3 DEF GetSubscriber, GiveUp
<1>6. ASSUME NEW i \in Id, GetListed(p, i) PROVE Quiet(p)
  BY <1>6 DEF GetListed, Place
<1>7. ASSUME EndRetrieval(p) \/ GetTopic(p) PROVE Quiet(p)
  <2>1. /\ pc[p] \in {"list", "topic"} /\ op[p] \notin {"insert", "remove"}
        /\ UNCHANGED <<registry, withdrawn>>
    BY <1>7 DEF EndRetrieval, GetTopic, Place
  <2> HIDE DEF CallInv, TypeOK, Quiet, registry
  <2> QED
    BY <1>7, <1>0, <2>1 DEF EndRetrieval, GetTopic, GiveUp
<1> HIDE DEF CallInv, TypeOK, Quiet, registry
<1>9. Step(p)
  OBVIOUS
<1> QED
  BY <1>1, <1>2, <1>3, <1>4, <1>5, <1>6, <1>7, <1>9 DEF Step, Request

\* What the clients may answer with: what they could before, and what is there now.
LEMMA RecordsGrow ==
  ASSUME NEW p \in Proc, Step(p), NEW q \in Proc
  PROVE  /\ indexCopies'[q] \subseteq indexCopies[q] \cup {index'}
         /\ \A i \in Id : /\ rowCopies'[q][i] \subseteq rowCopies[q][i] \cup {resource'[i]}
                         /\ NoRow \notin rowCopies'[q][i]
<1>1. indexCopies'[q] \in { {}, {index'}, indexCopies[q] \cup {index'}, indexCopies[q] }
  BY DEF Step, Copies
<1>2. ASSUME NEW i \in Id
      PROVE  \/ rowCopies'[q][i] = {}
             \/ rowCopies'[q][i] = ({resource'[i]} \cup rowCopies[q][i]) \ {NoRow}
             \/ rowCopies'[q][i] = {resource'[i]} \ {NoRow}
  BY DEF Step, Copies
<1> QED
  BY <1>1, <1>2

-----------------------------------------------------------------------------
(* An entry leads to its subscriber, with any number of writers.            *)

\* What an entry of the index answers for.
Kept(i) == resource[i] # NoRow \/ i \in withdrawn

\* Only a removal takes a subscriber away.
LEMMA KeptStays ==
  ASSUME CallInv, NEW p \in Proc, Step(p), NEW i \in Id, Kept(i)
  PROVE  Kept(i)'
<1> USE DEF Kept
<1>1. CASE StartGet(p) \/ StartPut(p) \/ PutIndex(p) \/ GetIndexAgain(p)
  BY <1>1 DEF StartGet, StartPut, PutIndex, GetIndexAgain, registry, histories
<1>2. CASE PutSubscriber(p)
  <2>1. val[p] # NoRow
    BY <1>2, RegistryAssumption DEF PutSubscriber, CallInv, Known
  <2> QED
    BY <1>2, <2>1 DEF PutSubscriber, CallInv, TypeOK
<1>3. CASE DeleteSubscriber(p)
  <2>1. id[p] \in withdrawn
    BY <1>3 DEF DeleteSubscriber, CallInv, Place, Known, TypeOK, WriteOp, ReadOp
  <2> QED
    BY <1>3, <2>1 DEF DeleteSubscriber, Deleted, CallInv, TypeOK
<1>4. CASE Quiet(p)
  BY <1>4 DEF Quiet, registry
<1> QED
  BY <1>1, <1>2, <1>3, <1>4, StepKinds

\* The index, every copy that is about to be put and every entry that is about
\* to be added answer for what they name.
EntryInv ==
  /\ CallInv
  /\ \A i \in Id : index[i] = "topic" => Kept(i)
  /\ \A p \in Proc : \A c \in indexCopies[p], i \in Id : c[i] = "topic" => Kept(i)
  /\ \A p \in Proc : pc[p] = "putIndex" => \A i \in Id : copy[p][i] = "topic" => Kept(i)
  /\ \A p \in Proc : op[p] = "insert" /\ pc[p] \in {"reindex", "putIndex"} /\ filtered[p]
                       => Kept(id[p])

LEMMA EntryStep ==
  ASSUME "put" \notin Faults, EntryInv, NEW p \in Proc, Step(p), CallInv'
  PROVE  EntryInv'
<1> USE DEF EntryInv
<1>1. \A i \in Id : Kept(i) => Kept(i)'
  BY KeptStays
<1>2. \A q \in Proc : q # p => /\ pc'[q] = pc[q] /\ op'[q] = op[q] /\ id'[q] = id[q]
                               /\ filtered'[q] = filtered[q] /\ copy'[q] = copy[q]
  BY OthersStay
<1>3. \A q \in Proc : op[q] = "insert" => id[q] \in Id
  BY DEF CallInv, Known, TypeOK
<1>4. ASSUME \A i \in Id : index'[i] = "topic" => Kept(i)',
             pc'[p] = "putIndex" => \A i \in Id : copy'[p][i] = "topic" => Kept(i)',
             op'[p] = "insert" /\ pc'[p] \in {"reindex", "putIndex"} /\ filtered'[p]
               => op[p] = "insert" /\ id'[p] = id[p] /\ Kept(id[p])'
      PROVE  EntryInv'
  <2>1. ASSUME NEW q \in Proc, pc'[q] = "putIndex", NEW i \in Id, copy'[q][i] = "topic"
        PROVE  Kept(i)'
    BY <2>1, <1>1, <1>2, <1>4
  <2>2. ASSUME NEW q \in Proc, op'[q] = "insert", pc'[q] \in {"reindex", "putIndex"}, filtered'[q]
        PROVE  Kept(id[q])'
    BY <2>2, <1>1, <1>2, <1>3, <1>4
  <2>3. ASSUME NEW q \in Proc, NEW c \in indexCopies'[q], NEW i \in Id, c[i] = "topic"
        PROVE  Kept(i)'
    <3>1. c \in indexCopies[q] \/ c = index'
      BY RecordsGrow
    <3> QED
      BY <3>1, <2>3, <1>1, <1>4
  <2> QED
    BY <1>4, <2>1, <2>2, <2>3
<1>5. CASE Quiet(p)
  BY <1>1, <1>4, <1>5 DEF Quiet, registry
<1>6. CASE StartGet(p)
  BY <1>1, <1>4, <1>6 DEF StartGet, CallInv, TypeOK, registry
<1>7. CASE StartPut(p)
  BY <1>4, <1>7 DEF StartPut, CallInv, TypeOK, NoEntries
<1>8. ASSUME GetIndexAgain(p), NEW c \in indexCopies[p], GotoWith(p, "putIndex", c, {})
      PROVE  EntryInv'
  <2>1. /\ pc[p] = "reindex" /\ copy'[p] = c /\ UNCHANGED <<registry, op, id, filtered, withdrawn>>
    BY <1>8 DEF GetIndexAgain, GotoWith, CallInv, TypeOK
  <2>2. \A i \in Id : index'[i] = "topic" => Kept(i)'
    BY <1>1, <2>1 DEF registry
  <2>3. \A i \in Id : copy'[p][i] = "topic" => Kept(i)'
    BY <1>1, <2>1
  <2>4. op'[p] = "insert" /\ filtered'[p] => op[p] = "insert" /\ id'[p] = id[p] /\ Kept(id[p])'
    BY <1>1, <1>3, <2>1
  <2> QED
    BY <1>4, <2>2, <2>3, <2>4
<1>9. CASE PutIndex(p)
  <2>1. pc'[p] = "idle"
    BY <1>9 DEF PutIndex, Return, CallInv, TypeOK
  <2>2. ASSUME NEW i \in Id, index'[i] = "topic" PROVE Kept(i)
    <3>1. index' = NewIndex(copy[p], op[p], id[p], filtered[p]) /\ pc[p] = "putIndex"
      BY <1>9 DEF PutIndex
    <3>2. CASE i # id[p]
      BY <2>2, <3>1, <3>2 DEF NewIndex, CallInv, TypeOK
    <3>3. CASE i = id[p]
      <4>1. op[p] # "remove" /\ filtered[p]
        BY <2>2, <3>1, <3>3 DEF NewIndex, CallInv, TypeOK
      <4>2. op[p] = "insert"
        BY <4>1, <3>1 DEF CallInv, TypeOK, Place, WriteOp, ReadOp
      <4> QED
        BY <3>1, <3>3, <4>1, <4>2
    <3> QED
      BY <3>2, <3>3
  <2> QED
    BY <1>1, <1>4, <2>1, <2>2
<1>10. CASE PutSubscriber(p)
  <2>1. /\ resource' = IF filtered[p] THEN [resource EXCEPT ![id[p]] = val[p]] ELSE resource
        /\ UNCHANGED index /\ pc'[p] # "putIndex"
        /\ op[p] = "insert" => UNCHANGED <<op, id, filtered>>
        /\ op[p] # "insert" => op'[p] # "insert"
    BY <1>10 DEF PutSubscriber, Goto, GotoWith, Return, CallInv, TypeOK
  <2>2. val[p] # NoRow
    BY <1>10, RegistryAssumption DEF PutSubscriber, CallInv, Known
  <2>3. op[p] = "insert" /\ filtered[p] => Kept(id[p])'
    BY <2>1, <2>2, <1>3 DEF Kept, CallInv, TypeOK
  <2> QED
    BY <1>1, <1>4, <2>1, <2>3
<1>11. CASE DeleteSubscriber(p)
  <2>1. op[p] = "remove"
    BY <1>11 DEF DeleteSubscriber, CallInv, Place, TypeOK, WriteOp, ReadOp
  <2>2. UNCHANGED index /\ op'[p] # "insert" /\ pc'[p] # "putIndex"
    BY <1>11, <2>1 DEF DeleteSubscriber, GiveUp, Goto, GotoWith, Return, CallInv, TypeOK
  <2> QED
    BY <1>1, <1>4, <2>2
<1> QED
  BY <1>5, <1>6, <1>7, <1>8, <1>9, <1>10, <1>11, StepKinds

\* If no put fails, an entry of the index leads to its subscriber until the
\* removal of the subscription is asked for, whatever the writers do to each
\* other, whatever else fails and wherever a process dies.
THEOREM EntriesLead ==
  ASSUME "put" \notin Faults
  PROVE  Spec => []EntryLeadsToSubscriber
<1>1. Init => EntryInv
  <2> SUFFICES ASSUME Init PROVE EntryInv
    OBVIOUS
  <2>1. CallInv
    BY CallInvInit
  <2> QED
    BY <2>1 DEF EntryInv, Init, NoEntries
<1>2. EntryInv /\ [Next]_vars => EntryInv'
  <2> SUFFICES ASSUME EntryInv, [Next]_vars PROVE EntryInv'
    OBVIOUS
  <2>1. CallInv'
    BY CallInvNext DEF EntryInv
  <2>2. CASE UNCHANGED vars
    BY <2>1, <2>2 DEF EntryInv, Kept, vars, registry, call, cached, histories
  <2>3. CASE Next
    BY <2>1, <2>3, EntryStep DEF Next, Step
  <2> QED
    BY <2>2, <2>3
<1>3. EntryInv => EntryLeadsToSubscriber
  BY DEF EntryInv, EntryLeadsToSubscriber, Kept
<1> QED
  BY <1>1, <1>2, <1>3, PTL DEF Spec

-----------------------------------------------------------------------------
(* One writer: what is removed is gone.                                     *)

OneWriter == \A p, q \in Writer : p = q

\* While it is in a call that writes, no other process is.
LEMMA OnlyWriter ==
  ASSUME OneWriter, CallInv, NEW p \in Proc, op[p] \in WriteOp, NEW q \in Proc, q # p
  PROVE  op[q] \notin WriteOp /\ pc[q] \notin {"put", "delete", "putIndex"}
<1>1. op[q] \notin WriteOp
  <2>1. p \in Writer /\ (op[q] \in WriteOp => q \in Writer)
    BY DEF CallInv, Known
  <2> QED
    BY <2>1 DEF OneWriter
<1>2. pc[q] \in {"put", "delete", "putIndex"} => op[q] \in WriteOp
  BY DEF CallInv, TypeOK, Place, WriteOp, ReadOp
<1> QED
  BY <1>1, <1>2

\* What the requests that write do, and for which calls they are.
LEMMA PutIndexIs ==
  ASSUME CallInv, NEW p \in Proc, PutIndex(p)
  PROVE  /\ pc[p] = "putIndex" /\ op[p] \in {"insert", "remove"} /\ op[p] \in WriteOp
         /\ pc'[p] = "idle" /\ op'[p] = "none"
         /\ UNCHANGED <<resource, used, withdrawn>>
         /\ added' = IF op[p] = "insert" THEN added \cup {id[p]} ELSE added
         /\ plain' = IF op[p] = "insert" /\ ~filtered[p] THEN plain \cup {id[p]} ELSE plain
         /\ removed' = IF op[p] = "remove" THEN removed \cup {id[p]} ELSE removed
<1>1. pc[p] = "putIndex" /\ op[p] \in {"insert", "remove"}
  BY DEF PutIndex, CallInv, TypeOK, Place, WriteOp, ReadOp
<1> QED
  BY <1>1 DEF PutIndex, Return, CallInv, TypeOK, WriteOp

LEMMA PutSubscriberIs ==
  ASSUME CallInv, NEW p \in Proc, PutSubscriber(p)
  PROVE  /\ pc[p] = "put" /\ op[p] \in {"insert", "update"} /\ op[p] \in WriteOp
         /\ UNCHANGED <<hasIndex, index, used, added, plain, withdrawn, removed>>
         /\ \A i \in Id : i # id[p] \/ ~filtered[p] => resource'[i] = resource[i]
         /\ \/ op[p] = "insert" /\ pc'[p] = "reindex" /\ UNCHANGED <<op, id, filtered>>
            \/ op[p] = "update" /\ pc'[p] = "idle" /\ op'[p] = "none"
<1>1. \A i \in Id : i # id[p] \/ ~filtered[p] => resource'[i] = resource[i]
  BY DEF PutSubscriber, CallInv, TypeOK
<1> QED
  BY <1>1 DEF PutSubscriber, Goto, GotoWith, Return, CallInv, TypeOK, WriteOp

LEMMA DeleteSubscriberIs ==
  ASSUME CallInv, NEW p \in Proc, DeleteSubscriber(p)
  PROVE  /\ pc[p] = "delete" /\ op[p] = "remove" /\ op[p] \in WriteOp
         /\ UNCHANGED <<hasIndex, index, used, added, plain, withdrawn, removed>>
         /\ \A i \in Id : resource'[i] = resource[i] \/ resource'[i] = NoRow
         /\ \A i \in Id : i # id[p] => resource'[i] = resource[i]
         /\ \/ pc'[p] = "reindex" /\ UNCHANGED <<op, id>> /\ resource' = Deleted(p)
            \/ pc'[p] = "idle" /\ op'[p] = "none"
<1>1. pc[p] = "delete" /\ op[p] = "remove"
  BY DEF DeleteSubscriber, CallInv, TypeOK, Place, WriteOp, ReadOp
<1>2. /\ \A i \in Id : resource'[i] = resource[i] \/ resource'[i] = NoRow
      /\ \A i \in Id : i # id[p] => resource'[i] = resource[i]
  BY DEF DeleteSubscriber, Deleted, CallInv, TypeOK
<1> QED
  BY <1>1, <1>2 DEF DeleteSubscriber, GiveUp, Goto, GotoWith, Return, CallInv, TypeOK, WriteOp

\* Only a call that writes changes the subscribers, and how its insert or its
\* removal ended is known with its last put.
LEMMA HistoriesGrow ==
  ASSUME CallInv, NEW p \in Proc, Step(p)
  PROVE  /\ added \subseteq added' /\ plain \subseteq plain' /\ plain' \cap added \subseteq plain
         /\ used \subseteq used'
         /\ \A i \in removed' \ removed : pc[p] = "putIndex" /\ op[p] = "remove" /\ i = id[p]
         /\ op[p] \notin WriteOp => UNCHANGED <<resource, added, plain, removed>>
<1>1. used \subseteq used'
  BY UsedGrows
<1>2. CASE StartGet(p) \/ StartPut(p)
  BY <1>1, <1>2 DEF StartGet, StartPut, registry, histories
<1>3. CASE GetIndexAgain(p) /\ \E c \in indexCopies[p] : GotoWith(p, "putIndex", c, {})
  BY <1>1, <1>3 DEF GetIndexAgain, GotoWith, registry
<1>4. CASE PutIndex(p)
  <2>1. op[p] = "insert" => id[p] \notin added
    BY DEF CallInv, Known
  <2> QED
    BY <1>1, <1>4, <2>1, PutIndexIs
<1>5. CASE PutSubscriber(p) \/ DeleteSubscriber(p)
  BY <1>1, <1>5, PutSubscriberIs, DeleteSubscriberIs
<1>6. CASE Quiet(p)
  BY <1>1, <1>6 DEF Quiet, registry
<1> QED
  BY <1>2, <1>3, <1>4, <1>5, <1>6, StepKinds

\* Where a process still follows the copy of the index it has.
InUse(p) == \/ pc[p] \in {"subscriber", "list", "delete", "putIndex"}
            \/ pc[p] = "put" /\ op[p] = "update"

LEMMA CopyInUse ==
  ASSUME CallInv, NEW p \in Proc, Step(p), InUse(p)'
  PROVE  copy'[p] \in indexCopies[p] \/ (InUse(p) /\ copy'[p] = copy[p])
<1>1. CASE StartGet(p) \/ StartPut(p)
  BY <1>1 DEF StartGet, StartPut, InUse, CallInv, TypeOK
<1>2. CASE GetIndexAgain(p) /\ \E c \in indexCopies[p] : GotoWith(p, "putIndex", c, {})
  BY <1>2 DEF GotoWith, CallInv, TypeOK
<1>3. CASE PutIndex(p) \/ PutSubscriber(p) \/ DeleteSubscriber(p)
  BY <1>3, PutIndexIs, PutSubscriberIs, DeleteSubscriberIs DEF InUse
<1>4. CASE Quiet(p)
  BY <1>4 DEF Quiet, InUse
<1> QED
  BY <1>1, <1>2, <1>3, <1>4, StepKinds

\* An entry for "/" is of a subscription without a filter, the others are of those
\* with one.
Entered(e, i) == /\ e[i] = "root"  => i \in plain
                 /\ e[i] = "topic" => i \in added \ plain

\* What a process that writes knows of its subscription.
Own(p) ==
  /\ pc[p] = "delete" => copy[p][id[p]] # "none"
  /\ op[p] = "insert" /\ (~filtered[p] \/ pc[p] = "put") => resource[id[p]] = NoRow
  /\ op[p] = "remove" /\ pc[p] \in {"reindex", "putIndex"}
       => resource[id[p]] = NoRow /\ rowCopies[p][id[p]] = {}
  /\ op[p] = "update" /\ pc[p] = "put"
       => id[p] \notin removed \cup plain /\ copy[p][id[p]] = "topic"

GoneInv ==
  /\ CallInv
  /\ \A i \in Id : i \in removed \cup plain \/ i \notin used => resource[i] = NoRow
  /\ \A w \in Writer, i \in removed : rowCopies[w][i] = {}
  /\ \A i \in Id : Entered(index, i)
  /\ \A p \in Proc : \A c \in indexCopies[p], i \in Id : Entered(c, i)
  /\ \A p \in Proc : InUse(p) => \A i \in Id : Entered(copy[p], i)
  /\ \A p \in Proc : Own(p)

\* The subscribers: those of unused, plain and removed identifiers are not put.
LEMMA GoneRows ==
  ASSUME GoneInv, NEW p \in Proc, Step(p), NEW i \in Id,
         i \in removed' \cup plain' \/ i \notin used'
  PROVE  resource'[i] = NoRow
<1> USE DEF GoneInv
<1>1. CASE PutSubscriber(p)
  <2>1. i \in removed \cup plain \/ i \notin used
    BY <1>1, PutSubscriberIs
  <2>2. i # id[p]
    <3>1. CASE op[p] = "insert"
      BY <2>1, <3>1 DEF CallInv, Known, TypeOK
    <3>2. CASE op[p] = "update"
      BY <1>1, <2>1, <3>2, PutSubscriberIs DEF CallInv, Known, TypeOK, Own
    <3> QED
      BY <1>1, <3>1, <3>2, PutSubscriberIs
  <2> QED
    BY <1>1, <2>1, <2>2, PutSubscriberIs
<1>2. CASE DeleteSubscriber(p)
  BY <1>2, DeleteSubscriberIs
<1>3. CASE PutIndex(p)
  BY <1>3, PutIndexIs DEF Own
<1>4. CASE Quiet(p)
  BY <1>4, HistoriesGrow DEF Quiet, registry
<1>5. CASE StartGet(p) \/ StartPut(p)
  BY <1>5 DEF StartGet, StartPut, registry, histories
<1>6. CASE GetIndexAgain(p) /\ \E c \in indexCopies[p] : GotoWith(p, "putIndex", c, {})
  BY <1>6 DEF GetIndexAgain, GotoWith, registry
<1> QED
  BY <1>1, <1>2, <1>3, <1>4, <1>5, <1>6, StepKinds

LEMMA GoneIndex ==
  ASSUME GoneInv, NEW p \in Proc, Step(p), NEW i \in Id
  PROVE  Entered(index, i)'
<1> USE DEF GoneInv
<1>1. CASE index' = index
  BY <1>1, HistoriesGrow DEF Entered
<1>2. CASE PutIndex(p) /\ index' = NewIndex(copy[p], op[p], id[p], filtered[p])
  <2>1. Entered(copy[p], i)
    BY <1>2, PutIndexIs DEF InUse
  <2>2. CASE i # id[p]
    <3>1. index'[i] = copy[p][i]
      BY <1>2, <2>2 DEF NewIndex, CallInv, TypeOK
    <3> QED
      BY <2>1, <3>1, HistoriesGrow DEF Entered
  <2>3. CASE i = id[p]
    <3>1. index'[i] = IF op[p] = "remove" THEN "none" ELSE IF filtered[p] THEN "topic" ELSE "root"
      BY <1>2, <2>3 DEF NewIndex, CallInv, TypeOK
    <3>2. op[p] = "insert" => i \notin plain
      BY <2>3 DEF CallInv, Known, TypeOK
    <3> QED
      BY <1>2, <2>3, <3>1, <3>2, PutIndexIs DEF Entered
  <2> QED
    BY <2>2, <2>3
<1>3. CASE StartPut(p) /\ index' = NoEntries
  BY <1>3 DEF NoEntries, Entered
<1> QED
  BY <1>1, <1>2, <1>3, StepKinds
  DEF PutIndex, StartPut, StartGet, GetIndexAgain, PutSubscriber, DeleteSubscriber, Quiet, registry

\* The process that moves.
LEMMA GoneOwn ==
  ASSUME GoneInv, NEW p \in Proc, Step(p), CallInv'
  PROVE  Own(p)'
<1> USE DEF GoneInv
<1>1. CASE Quiet(p)
  <2>1. op'[p] = "insert" => resource'[id'[p]] = NoRow
    BY <1>1 DEF Quiet, CallInv, Known, TypeOK, registry
  <2>2. ASSUME op'[p] = "update", pc'[p] = "put" PROVE id'[p] \notin removed' \cup plain' /\ copy'[p][id'[p]] = "topic"
    <3>1. /\ UNCHANGED <<removed, plain>> /\ id'[p] = id[p] /\ pc[p] = "subscriber"
          /\ op[p] = "update" /\ copy'[p] = copy[p] /\ copy[p][id[p]] = "topic"
          /\ resource[id[p]] # NoRow \/ rowCopies[p][id[p]] # {}
      BY <1>1, <2>2 DEF Quiet
    <3>2. p \in Writer /\ id[p] \in Id
      BY <3>1 DEF CallInv, Known, TypeOK, WriteOp
    <3>3. id[p] \notin plain
      BY <3>1, <3>2 DEF InUse, Entered
    <3> QED
      BY <3>1, <3>2, <3>3
  <2> QED
    BY <1>1, <2>1, <2>2 DEF Quiet, Own
<1>2. CASE StartGet(p) \/ StartPut(p)
  BY <1>2 DEF StartGet, StartPut, Own, CallInv, TypeOK, Place, WriteOp, ReadOp
<1>3. CASE GetIndexAgain(p) /\ \E c \in indexCopies[p] : GotoWith(p, "putIndex", c, {})
  <2>1. /\ pc[p] = "reindex" /\ pc'[p] = "putIndex"
        /\ UNCHANGED <<resource, op, id, filtered>>
    BY <1>3 DEF GetIndexAgain, GotoWith, CallInv, TypeOK, registry
  <2>2. op[p] = "remove" => rowCopies'[p][id[p]] = {}
    <3>1. op[p] = "remove" => id[p] \in Id /\ resource'[id[p]] = NoRow /\ rowCopies[p][id[p]] = {}
      BY <2>1 DEF Own, CallInv, Known, TypeOK
    <3> QED
      BY <3>1, RecordsGrow
  <2> QED
    BY <2>1, <2>2 DEF Own
<1>4. CASE PutIndex(p)
  BY <1>4, PutIndexIs DEF Own
<1>5. CASE PutSubscriber(p)
  <2>1. op[p] = "insert" => id[p] \in Id
    BY DEF CallInv, Known, TypeOK
  <2> QED
    BY <1>5, <2>1, PutSubscriberIs DEF Own
<1>6. CASE DeleteSubscriber(p)
  <2>1. pc[p] = "delete" /\ id[p] \in Id
    BY <1>6, DeleteSubscriberIs DEF CallInv, Known, TypeOK
  <2>2. Deleted(p)[id[p]] = NoRow
    <3>1. copy[p][id[p]] = "topic" \/ copy[p][id[p]] = "root"
      BY <2>1 DEF CallInv, TypeOK, Entry, Own
    <3>2. copy[p][id[p]] = "root" => resource[id[p]] = NoRow
      BY <2>1 DEF InUse, Entered
    <3> QED
      BY <2>1, <3>1, <3>2 DEF Deleted, CallInv, TypeOK
  <2>3. CASE pc'[p] = "reindex" /\ UNCHANGED <<op, id>> /\ resource' = Deleted(p)
    <3>1. WritesRow(p)
      BY <2>1, <2>3 DEF WritesRow
    <3>2. rowCopies'[p][id[p]] = {}
      BY <2>1, <2>2, <2>3, <3>1 DEF Step, Copies
    <3> QED
      BY <1>6, <2>2, <2>3, <3>2, DeleteSubscriberIs DEF Own
  <2>4. CASE pc'[p] = "idle" /\ op'[p] = "none"
    BY <2>4 DEF Own
  <2> QED
    BY <1>6, <2>3, <2>4, DeleteSubscriberIs
<1> QED
  BY <1>1, <1>2, <1>3, <1>4, <1>5, <1>6, StepKinds

LEMMA GoneStep ==
  ASSUME OneWriter, GoneInv, NEW p \in Proc, Step(p), CallInv'
  PROVE  GoneInv'
<1> USE DEF GoneInv
<1>1. \A q \in Proc : q # p => /\ pc'[q] = pc[q] /\ op'[q] = op[q] /\ id'[q] = id[q]
                               /\ filtered'[q] = filtered[q] /\ copy'[q] = copy[q]
  BY OthersStay
<1>2. \A i \in Id : i \in removed' \cup plain' \/ i \notin used' => resource'[i] = NoRow
  BY GoneRows
<1>3. ASSUME NEW w \in Writer, NEW i \in removed' PROVE rowCopies'[w][i] = {}
  <2>1. w \in Proc /\ i \in Id
    BY <1>3, RegistryAssumption DEF CallInv, TypeOK
  <2>2. rowCopies[w][i] = {}
    <3>1. CASE i \notin removed
      <4>1. pc[p] = "putIndex" /\ op[p] = "remove" /\ i = id[p]
        BY <1>3, <3>1, HistoriesGrow
      <4>2. w = p
        BY <4>1 DEF OneWriter, CallInv, Known, WriteOp
      <4> QED
        BY <4>1, <4>2 DEF Own
    <3> QED
      BY <3>1
  <2>3. resource'[i] = NoRow
    BY <1>2, <1>3, <2>1
  <2> QED
    BY <2>1, <2>2, <2>3, RecordsGrow
<1>4. \A i \in Id : Entered(index, i)'
  BY GoneIndex
<1>5. ASSUME NEW e, NEW i \in Id, Entered(e, i)
      PROVE  (e[i] = "root" => i \in plain') /\ (e[i] = "topic" => i \in added' \ plain')
  BY <1>5, HistoriesGrow DEF Entered
<1>6. ASSUME NEW q \in Proc, NEW c \in indexCopies'[q], NEW i \in Id
      PROVE  (c[i] = "root" => i \in plain') /\ (c[i] = "topic" => i \in added' \ plain')
  <2>1. c \in indexCopies[q] \/ c = index'
    BY RecordsGrow
  <2> QED
    BY <2>1, <1>4, <1>5 DEF Entered
<1>7. ASSUME NEW q \in Proc, InUse(q)', NEW i \in Id
      PROVE  Entered(copy[q], i)'
  <2>1. Entered(copy'[q], i)
    <3>1. CASE q = p
      <4>1. copy'[p] \in indexCopies[p] \/ (InUse(p) /\ copy'[p] = copy[p])
        BY <1>7, <3>1, CopyInUse
      <4> QED
        BY <3>1, <4>1
    <3>2. CASE q # p
      BY <1>1, <1>7, <3>2 DEF InUse
    <3> QED
      BY <3>1, <3>2
  <2> QED
    BY <2>1, <1>5 DEF Entered
<1>8. ASSUME NEW q \in Proc PROVE Own(q)'
  <2>1. CASE q = p
    BY <2>1, GoneOwn
  <2>2. CASE q # p /\ op[p] \in WriteOp
    BY <1>1, <2>2, OnlyWriter DEF Own, WriteOp
  <2>3. CASE q # p /\ op[p] \notin WriteOp
    <3>1. UNCHANGED <<resource, removed, plain>>
      BY <2>3, HistoriesGrow
    <3>2. op[q] = "remove" => id[q] \in Id
      BY DEF CallInv, Known, TypeOK
    <3>3. op[q] = "remove" /\ resource[id[q]] = NoRow /\ rowCopies[q][id[q]] = {}
            => rowCopies'[q][id[q]] = {}
      BY <3>1, <3>2, RecordsGrow
    <3> QED
      BY <1>1, <2>3, <3>1, <3>3 DEF Own
  <2> QED
    BY <2>1, <2>2, <2>3
<1>9. \A q \in Proc : \A c \in indexCopies'[q], i \in Id :
        (c[i] = "root" => i \in plain') /\ (c[i] = "topic" => i \in added' \ plain')
  BY <1>6
<1> QED
  BY <1>2, <1>3, <1>4, <1>7, <1>8, <1>9 DEF Entered

LEMMA GoneInit == Init => GoneInv
<1> SUFFICES ASSUME Init PROVE GoneInv
  OBVIOUS
<1>1. CallInv
  BY CallInvInit
<1> QED
  BY <1>1 DEF GoneInv, Init, NoEntries, NoRows, Entered, InUse, Own

LEMMA GoneNext ==
  ASSUME OneWriter
  PROVE  GoneInv /\ [Next]_vars => GoneInv'
<1> SUFFICES ASSUME GoneInv, [Next]_vars PROVE GoneInv'
  OBVIOUS
<1>1. CallInv'
  BY CallInvNext DEF GoneInv
<1>2. CASE UNCHANGED vars
  BY <1>1, <1>2 DEF GoneInv, Entered, InUse, Own, vars, registry, call, cached, histories
<1>3. CASE Next
  BY <1>1, <1>3, GoneStep DEF Next, Step
<1> QED
  BY <1>2, <1>3

\* With one writer, a subscription whose removal was a success is neither listed
\* nor stored again, whatever fails, whatever the clients have kept of it, and
\* wherever the writer or a reader dies.
THEOREM RemovedStaysGone ==
  ASSUME OneWriter
  PROVE  Spec => []RemovedIsGone
<1>1. GoneInv => RemovedIsGone
  BY DEF GoneInv, RemovedIsGone, Table, CallInv, TypeOK
<1> QED
  BY GoneInit, GoneNext, <1>1, PTL DEF Spec

-----------------------------------------------------------------------------
(* One writer: what is added is listed.                                     *)

\* The subscriptions a retrieval must find.
Expected == added \ (plain \cup withdrawn)

\* The client of the writer knows the index as it is, and so does a call of the
\* writer from its look into it to its end.
ListedInv ==
  /\ CallInv
  /\ ~hasIndex => /\ added = {}
                  /\ \A p \in Proc : pc[p] \in {"down", "start"} /\ indexCopies[p] = {}
  /\ \A p \in Proc : pc[p] = "start" => ~hasIndex
  /\ \A p, q \in Proc : pc[p] = "start" /\ pc[q] = "start" => p = q
  /\ \A i \in Expected : index[i] = "topic"
  /\ \A w \in Writer : indexCopies[w] \subseteq {index}
  /\ \A w \in Writer : InUse(w) => copy[w] = index

LEMMA ListedStep ==
  ASSUME OneWriter, OneByOne, Faults \cap {"put", "startGet"} = {},
         ListedInv, NEW p \in Proc, Step(p), CallInv'
  PROVE  ListedInv'
<1> USE DEF ListedInv
<1>1. \A q \in Proc : q # p => pc'[q] = pc[q] /\ op'[q] = op[q] /\ copy'[q] = copy[q]
  BY OthersStay
<1>2. Writer \subseteq Proc
  BY RegistryAssumption
\* A step that leaves the index alone leaves what is known of it.
<1>3. ASSUME index' = index, hasIndex' = hasIndex
      PROVE  /\ \A w \in Writer : indexCopies'[w] \subseteq {index'}
             /\ \A w \in Writer : InUse(w)' => copy'[w] = index'
             /\ ~hasIndex => \A q \in Proc : indexCopies'[q] = {}
  <2>1. \A w \in Writer : indexCopies'[w] \subseteq {index'}
    BY <1>2, <1>3, RecordsGrow
  <2>2. ASSUME NEW w \in Writer, InUse(w)' PROVE copy'[w] = index'
    <3>1. CASE w = p
      <4>1. copy'[p] \in indexCopies[p] \/ (InUse(p) /\ copy'[p] = copy[p])
        BY <2>2, <3>1, CopyInUse
      <4> QED
        BY <1>3, <3>1, <4>1
    <3>2. CASE w # p
      BY <1>1, <1>2, <1>3, <2>2, <3>2 DEF InUse
    <3> QED
      BY <3>1, <3>2
  <2>3. ASSUME ~hasIndex, NEW q \in Proc PROVE indexCopies'[q] = {}
    BY <1>3, <2>3 DEF Step, Copies, WritesIndex
  <2> QED
    BY <2>1, <2>2, <2>3
<1>4. CASE Quiet(p)
  <2>1. UNCHANGED <<hasIndex, index, added>> /\ Expected' \subseteq Expected
    BY <1>4 DEF Quiet, registry, Expected
  <2>2. pc'[p] \notin {"start", "putIndex"} /\ (~hasIndex => pc'[p] = "down")
    BY <1>4 DEF Quiet, Crash, CallInv, TypeOK
  <2> QED
    BY <1>1, <1>3, <2>1, <2>2
<1>5. CASE StartGet(p)
  <2>1. UNCHANGED <<hasIndex, index, added>> /\ Expected' = Expected
    BY <1>5 DEF StartGet, registry, histories, Expected
  <2>2. \/ hasIndex /\ pc'[p] = "idle"
        \/ ~hasIndex /\ pc'[p] = "start" /\ \A q \in Proc : pc[q] # "start"
    BY <1>5 DEF StartGet, CallInv, TypeOK
  <2> QED
    BY <1>1, <1>3, <2>1, <2>2
<1>6. CASE StartPut(p)
  <2>1. /\ pc[p] = "start" /\ pc'[p] = "idle" /\ hasIndex' = TRUE
        /\ added' = added /\ Expected' = Expected
    BY <1>6 DEF StartPut, histories, Expected, CallInv, TypeOK
  <2>2. ~hasIndex /\ Expected = {}
    BY <2>1 DEF Expected
  <2>3. \A w \in Writer : indexCopies'[w] \subseteq {index'}
    BY <1>2, <2>2, RecordsGrow
  <2>4. \A w \in Writer : ~InUse(w)'
    BY <1>1, <1>2, <2>1, <2>2 DEF InUse
  <2> QED
    BY <1>1, <2>1, <2>2, <2>3, <2>4
<1>7. CASE GetIndexAgain(p) /\ \E c \in indexCopies[p] : GotoWith(p, "putIndex", c, {})
  <2>1. /\ UNCHANGED <<hasIndex, index, added>> /\ Expected' = Expected
        /\ pc[p] = "reindex" /\ pc'[p] = "putIndex"
    BY <1>7 DEF GetIndexAgain, GotoWith, registry, Expected, CallInv, TypeOK
  <2> QED
    BY <1>1, <1>3, <2>1
<1>8. CASE PutIndex(p)
  <2>1. /\ hasIndex' = TRUE /\ index' = NewIndex(copy[p], op[p], id[p], filtered[p])
        /\ pc[p] = "putIndex" /\ pc'[p] = "idle" /\ op[p] \in WriteOp
    BY <1>8, PutIndexIs DEF PutIndex
  <2>2. p \in Writer /\ copy[p] = index /\ hasIndex
    BY <2>1 DEF CallInv, Known, InUse
  <2>3. ASSUME NEW i \in Expected' PROVE index'[i] = "topic"
    <3>1. CASE i # id[p]
      <4>1. i \in Expected /\ i \in Id
        BY <1>8, PutIndexIs, <3>1, <2>3 DEF Expected, CallInv, TypeOK
      <4> QED
        BY <2>1, <2>2, <3>1, <4>1 DEF NewIndex, CallInv, TypeOK
    <3>2. CASE i = id[p]
      <4>1. op[p] = "insert"
        BY <1>8, PutIndexIs, <3>2, <2>3 DEF Expected, CallInv, Known
      <4>2. filtered[p] /\ id[p] \in Id
        BY <1>8, PutIndexIs, <3>2, <4>1, <2>3 DEF Expected, CallInv, Known, TypeOK
      <4> QED
        BY <2>1, <2>2, <3>2, <4>1, <4>2 DEF NewIndex, CallInv, TypeOK
    <3> QED
      BY <3>1, <3>2
  <2>4. ASSUME NEW w \in Writer PROVE indexCopies'[w] \subseteq {index'} /\ ~InUse(w)'
    <3>1. w = p
      BY <2>2 DEF OneWriter
    <3>2. ~InUse(w)'
      BY <2>1, <3>1 DEF InUse
    <3>3. index' # index => indexCopies'[p] = {index'}
      BY <2>1 DEF Step, Copies, WritesIndex
    <3>4. index' = index => indexCopies'[p] \subseteq {index'}
      BY <2>2, RecordsGrow
    <3> QED
      BY <3>1, <3>2, <3>3, <3>4
  <2> QED
    BY <1>1, <2>1, <2>2, <2>3, <2>4
<1>9. CASE PutSubscriber(p) \/ DeleteSubscriber(p)
  <2>1. /\ UNCHANGED <<hasIndex, index, added>> /\ Expected' = Expected
        /\ pc[p] \in {"put", "delete"} /\ pc'[p] \in {"idle", "reindex"}
    BY <1>9, PutSubscriberIs, DeleteSubscriberIs DEF Expected
  <2> QED
    BY <1>1, <1>3, <2>1
<1> QED
  BY <1>4, <1>5, <1>6, <1>7, <1>8, <1>9, StepKinds

LEMMA ListedInit == Init => ListedInv
<1> SUFFICES ASSUME Init PROVE ListedInv
  OBVIOUS
<1>1. CallInv
  BY CallInvInit
<1> QED
  BY <1>1, RegistryAssumption DEF ListedInv, Init, Expected, InUse

LEMMA ListedNext ==
  ASSUME OneWriter, OneByOne, Faults \cap {"put", "startGet"} = {}
  PROVE  ListedInv /\ [Next]_vars => ListedInv'
<1> SUFFICES ASSUME ListedInv, [Next]_vars PROVE ListedInv'
  OBVIOUS
<1>1. CallInv'
  BY CallInvNext DEF ListedInv
<1>2. CASE UNCHANGED vars
  BY <1>1, <1>2 DEF ListedInv, Expected, InUse, vars, registry, call, cached, histories
<1>3. CASE Next
  BY <1>1, <1>3, ListedStep DEF Next, Step
<1> QED
  BY <1>2, <1>3

\* With one writer, no put that fails and managers that start one by one, a
\* subscription with a filter is in the index and stored from the moment its
\* insert is a success until its removal is asked for.
THEOREM AddedStaysListed ==
  ASSUME OneWriter, OneByOne, Faults \cap {"put", "startGet"} = {}
  PROVE  Spec => []AddedIsListed
<1>1. ListedInv /\ EntryLeadsToSubscriber => AddedIsListed
  <2> SUFFICES ASSUME ListedInv, EntryLeadsToSubscriber, NEW i \in Expected
               PROVE  Table[i] # NoRow
    BY DEF AddedIsListed, Expected
  <2>1. index[i] = "topic" /\ i \in Id /\ i \notin withdrawn
    BY DEF ListedInv, Expected, CallInv, TypeOK
  <2> QED
    BY <2>1 DEF EntryLeadsToSubscriber, Table
<1>2. Spec => []EntryLeadsToSubscriber
  BY EntriesLead
<1> QED
  BY ListedInit, ListedNext, <1>1, <1>2, PTL DEF Spec

-----------------------------------------------------------------------------
(* One writer: what a retrieval may be answered with.                       *)

\* A subscriber that an insert has put is not one of a subscription before its
\* entry is there, so a client may have a row that was never the subscription's;
\* but it has no entry that would lead it there.
RowsInv ==
  /\ ListedInv
  /\ GoneInv
  /\ \A i \in added : index[i] = "topic" \/ resource[i] = NoRow
  /\ \A p \in Proc : /\ failed[p] => pc[p] = "list"
                     /\ op[p] \in {"insert", "remove"} /\ pc[p] \in {"reindex", "putIndex"}
                          => rowCopies[p][id[p]] \subseteq {resource[id[p]]}
  /\ \A p \in Proc, i \in Id :
       /\ pc[p] # "down" => Table[i] \in witnessed[p][i]
       /\ \A c \in indexCopies[p] : c[i] # "topic" => NoRow \in witnessed[p][i]
       /\ \A v \in rowCopies[p][i] :
            v \in witnessed[p][i] \/ (v = resource[i] /\ i \notin added)

\* A subscription whose insert is through has its row where the entry leads.
LEMMA RowsLead ==
  ASSUME RowsInv, NEW p \in Proc, Step(p), ListedInv', GoneInv', "put" \notin Faults,
         NEW i \in added'
  PROVE  index'[i] = "topic" \/ resource'[i] = NoRow
<1> USE DEF RowsInv
<1>0. CallInv /\ i \in Id
  BY DEF GoneInv, CallInv, TypeOK
<1>1. CASE PutSubscriber(p)
  <2>1. UNCHANGED <<index, added>>
    BY <1>0, <1>1, PutSubscriberIs
  <2>2. CASE i = id[p] /\ filtered[p]
    <3>1. op[p] = "update"
      BY <1>0, <1>1, <2>1, <2>2, PutSubscriberIs DEF CallInv, Known
    <3>2. p \in Writer /\ InUse(p)
      BY <1>0, <1>1, <3>1, PutSubscriberIs DEF CallInv, Known, InUse, WriteOp
    <3>3. copy[p] = index
      BY <3>2 DEF ListedInv
    <3>4. copy[p][id[p]] = "topic"
      BY <1>0, <1>1, <3>1, PutSubscriberIs DEF GoneInv, Own
    <3> QED
      BY <2>1, <2>2, <3>3, <3>4
  <2> QED
    BY <1>0, <1>1, <2>1, <2>2, PutSubscriberIs
<1>2. CASE DeleteSubscriber(p)
  BY <1>0, <1>2, DeleteSubscriberIs
<1>3. CASE PutIndex(p)
  <2>1. /\ index' = NewIndex(copy[p], op[p], id[p], filtered[p])
        /\ copy[p] = index /\ UNCHANGED resource
    <3>1. p \in Writer /\ InUse(p)
      BY <1>0, <1>3, PutIndexIs DEF CallInv, Known, InUse
    <3> QED
      BY <1>0, <1>3, <3>1, PutIndexIs DEF PutIndex, ListedInv
  <2>2. CASE i # id[p]
    <3>1. i \in added /\ index'[i] = index[i]
      BY <1>0, <1>3, <2>1, <2>2, PutIndexIs DEF NewIndex, CallInv, TypeOK
    <3> QED
      BY <2>1, <3>1
  <2>3. CASE i = id[p]
    <3>1. op[p] = "remove" => resource[i] = NoRow
      BY <1>3, <1>0, <2>3, PutIndexIs DEF GoneInv, Own
    <3>2. op[p] = "insert" /\ ~filtered[p] => resource[i] = NoRow
      BY <2>3 DEF GoneInv, Own
    <3>3. op[p] = "insert" /\ filtered[p] => index'[i] = "topic"
      BY <1>0, <2>1, <2>3 DEF NewIndex, CallInv, TypeOK
    <3> QED
      BY <1>0, <1>3, <2>1, <3>1, <3>2, <3>3, PutIndexIs
  <2> QED
    BY <2>2, <2>3
<1>4. CASE StartPut(p)
  BY <1>4 DEF StartPut, ListedInv, histories
<1>5. CASE StartGet(p)
  BY <1>5 DEF StartGet, registry, histories
<1>6. CASE GetIndexAgain(p) /\ \E c \in indexCopies[p] : GotoWith(p, "putIndex", c, {})
  BY <1>6 DEF GetIndexAgain, GotoWith, registry
<1>7. CASE Quiet(p)
  BY <1>7 DEF Quiet, registry
<1> QED
  BY <1>0, <1>1, <1>2, <1>3, <1>4, <1>5, <1>6, <1>7, StepKinds

\* A row changes only before its subscription is there, or by its update or removal.
LEMMA RowChange ==
  ASSUME GoneInv, NEW p \in Proc, Step(p), NEW i \in Id, resource'[i] # resource[i]
  PROVE  i \in added \/ resource[i] = NoRow
<1>0. CallInv
  BY DEF GoneInv
<1>1. PutSubscriber(p) \/ DeleteSubscriber(p)
  BY <1>0, StepKinds, PutIndexIs DEF StartGet, StartPut, GetIndexAgain, Quiet, registry
<1>2. CASE i = id[p] /\ op[p] = "insert" /\ pc[p] = "put"
  BY <1>2 DEF GoneInv, Own
<1> QED
  BY <1>0, <1>1, <1>2, PutSubscriberIs, DeleteSubscriberIs DEF CallInv, Known

\* Without a put that fails, only the gets of a list are known to have failed.
LEMMA FailedStep ==
  ASSUME CallInv, "put" \notin Faults, NEW p \in Proc, Step(p), failed[p] => pc[p] = "list"
  PROVE  failed'[p] => pc'[p] = "list"
<1> USE DEF CallInv, TypeOK
<1>1. ASSUME Begin(p) PROVE ~failed'[p]
  <2>1. \E o \in WriteOp \cup ReadOp, i \in Id \cup {NoId}, v \in Row, f \in BOOLEAN : Call(p, o, i, v, f)
    BY ONLY <1>1, BeginCall, Zenon
  <2> QED
    BY <2>1 DEF Call
<1>2. ASSUME Crash(p) \/ EndRetrieval(p) PROVE ~failed'[p]
  BY <1>2 DEF Crash, EndRetrieval
<1>3. ASSUME NEW i \in Id, GetListed(p, i) PROVE pc'[p] = "list"
  BY <1>3 DEF GetListed
<1>4. CASE pc[p] # "list" /\ failed' = failed
  BY <1>4
<1>5. Begin(p) \/ Request(p) \/ Crash(p)
  BY DEF Step
<1> HIDE DEF CallInv, TypeOK
<1> QED
  BY <1>1, <1>2, <1>3, <1>4, <1>5
  DEF Request, StartGet, StartPut, GetIndex, GetIndexAgain, PutIndex, PutSubscriber, GetSubscriber,
      DeleteSubscriber, GetTopic, histories

\* Between its first write and its last the writer's client has nothing older of
\* the subscription.
LEMMA OwnRowsStep ==
  ASSUME OneWriter, RowsInv, "put" \notin Faults, NEW p \in Proc, Step(p), CallInv', NEW q \in Proc,
         op'[q] \in {"insert", "remove"}, pc'[q] \in {"reindex", "putIndex"}
  PROVE  rowCopies'[q][id'[q]] \subseteq {resource'[id'[q]]}
<1> USE DEF RowsInv
<1>0. CallInv /\ id'[q] \in Id
  BY DEF GoneInv, CallInv, TypeOK, Known
<1>1. CASE q = p
  <2>1. CASE GetIndexAgain(p) /\ \E c \in indexCopies[p] : GotoWith(p, "putIndex", c, {})
    <3>1. pc[p] = "reindex" /\ UNCHANGED <<resource, op, id>>
      BY <2>1 DEF GetIndexAgain, GotoWith, registry
    <3> QED
      BY <1>0, <1>1, <3>1, RecordsGrow
  <2>2. CASE PutSubscriber(p) \/ DeleteSubscriber(p)
    <3>1. id'[p] = id[p] /\ pc'[p] = "reindex"
      BY <1>0, <1>1, <2>2, PutSubscriberIs, DeleteSubscriberIs
    <3>2. PutSubscriber(p) => failed' = failed
      BY DEF PutSubscriber
    <3>3. WritesRow(p)
      BY <1>0, <2>2, <3>1, <3>2, PutSubscriberIs, DeleteSubscriberIs DEF WritesRow
    <3>4. rowCopies'[p][id[p]] = {} \/ rowCopies'[p][id[p]] = {resource'[id[p]]} \ {NoRow}
      BY <1>0, <1>1, <3>1, <3>3 DEF Step, Copies
    <3> QED
      BY <1>1, <3>1, <3>4
  <2>3. CASE StartGet(p) \/ StartPut(p) \/ PutIndex(p) \/ Quiet(p)
    BY <1>0, <1>1, <2>3, PutIndexIs DEF StartGet, StartPut, Quiet, CallInv, TypeOK
  <2> QED
    BY <1>0, <2>1, <2>2, <2>3, StepKinds
<1>2. CASE q # p
  <2>1. pc'[q] = pc[q] /\ op'[q] = op[q] /\ id'[q] = id[q]
    BY <1>0, <1>2, OthersStay
  <2>2. op[p] \notin WriteOp
    BY <1>0, <1>2, <2>1, OnlyWriter DEF WriteOp
  <2>3. UNCHANGED resource
    BY <1>0, <2>2, HistoriesGrow
  <2> QED
    BY <1>0, <2>1, <2>3, RecordsGrow
<1> QED
  BY <1>1, <1>2

\* What a client may answer with was the subscription's, or is not yet.
LEMMA RowRecords ==
  ASSUME OneWriter, RowsInv, "put" \notin Faults, NEW p \in Proc, Step(p), ListedInv', GoneInv',
         NEW q \in Proc, NEW i \in Id
  PROVE  /\ pc'[q] # "down" => Table'[i] \in witnessed'[q][i]
         /\ \A c \in indexCopies'[q] : c[i] # "topic" => NoRow \in witnessed'[q][i]
         /\ \A v \in rowCopies'[q][i] :
              v \in witnessed'[q][i] \/ (v = resource'[i] /\ i \notin added')
<1> USE DEF RowsInv
<1>0. CallInv
  BY DEF GoneInv
<1>1. pc'[q] # "down" => Table'[i] \in witnessed'[q][i]
  BY DEF Step, Witness
<1>2. CASE pc'[q] = "down"
  BY <1>2 DEF Step, Copies
<1>3. CASE pc'[q] # "down"
  <2> DEFINE reset == q = p /\ i = id[p] /\ (WritesRow(p) \/ WritesEntry(p))
  <2>1. ~reset => witnessed[q][i] \subseteq witnessed'[q][i]
    BY <1>3 DEF Step, Witness
  <2>2. reset => q \in Writer
    <3>1. WritesRow(p) \/ WritesEntry(p) => pc[p] \in {"put", "delete", "putIndex"}
      BY DEF WritesRow, WritesEntry
    <3>2. pc[p] \in {"put", "delete", "putIndex"} => op[p] \in WriteOp
      BY <1>0 DEF CallInv, TypeOK, Place, WriteOp, ReadOp
    <3>3. op[p] \in WriteOp => p \in Writer
      BY <1>0 DEF CallInv, Known
    <3> QED
      BY <3>1, <3>2, <3>3
  <2>3. index'[i] # "topic" => Table'[i] = NoRow
    BY DEF Table
  <2>4. index'[i] = "topic" => Table'[i] = resource'[i]
    BY DEF Table
  <2>5. ASSUME NEW c \in indexCopies'[q], c[i] # "topic" PROVE NoRow \in witnessed'[q][i]
    <3>1. CASE c = index'
      BY <1>1, <1>3, <2>3, <2>5, <3>1
    <3>2. CASE reset
      <4>1. c = index'
        BY <2>2, <2>5, <3>2 DEF ListedInv
      <4> QED
        BY <3>1, <4>1
    <3>3. CASE c \in indexCopies[q] /\ ~reset
      BY <2>1, <2>5, <3>3
    <3> QED
      BY <2>5, <3>1, <3>2, <3>3, RecordsGrow
  <2>6. ASSUME NEW v \in rowCopies'[q][i]
        PROVE  v \in witnessed'[q][i] \/ (v = resource'[i] /\ i \notin added')
    <3>0. v # NoRow
      BY <2>6, RecordsGrow
    <3>1. CASE v = resource'[i]
      <4>1. i \in added' => index'[i] = "topic"
        BY <3>0, <3>1, RowsLead
      <4> QED
        BY <1>1, <1>3, <2>4, <3>1, <4>1
    <3>2. CASE v # resource'[i] /\ v \in rowCopies[q][i]
      <4>1. CASE reset
        <5>1. ~WritesRow(p)
          BY <1>3, <2>6, <3>2, <4>1 DEF Step, Copies
        <5>2. /\ pc[p] = "putIndex" /\ op[p] \in {"insert", "remove"}
          BY <1>0, <4>1, <5>1 DEF WritesEntry, CallInv, TypeOK, Place, WriteOp, ReadOp
        <5>3. v = resource[i]
          BY <3>2, <4>1, <5>2
        <5>4. UNCHANGED resource
          BY <1>0, <5>2, StepKinds, PutIndexIs
          DEF StartGet, StartPut, GetIndexAgain, PutSubscriber, DeleteSubscriber, Quiet, registry
        <5> QED
          BY <3>2, <5>3, <5>4
      <4>2. CASE ~reset /\ v \in witnessed[q][i]
        BY <2>1, <4>2
      <4>3. CASE v = resource[i] /\ i \notin added
        <5>1. resource'[i] = resource[i]
          BY <1>0, <3>0, <4>3, RowChange DEF GoneInv
        <5> QED
          BY <3>2, <4>3, <5>1
      <4> QED
        BY <3>2, <4>1, <4>2, <4>3
    <3> QED
      BY <2>6, <3>1, <3>2, RecordsGrow
  <2> QED
    BY <1>1, <2>5, <2>6
<1> QED
  BY <1>1, <1>2, <1>3

LEMMA RowsNext ==
  ASSUME OneWriter, OneByOne, Faults \cap {"put", "startGet"} = {}
  PROVE  RowsInv /\ [Next]_vars => RowsInv'
<1> SUFFICES ASSUME RowsInv, [Next]_vars PROVE RowsInv'
  OBVIOUS
<1>1. ListedInv' /\ GoneInv'
  BY ListedNext, GoneNext DEF RowsInv
<1>2. CASE UNCHANGED vars
  BY <1>1, <1>2 DEF RowsInv, Table, vars, registry, call, cached, histories
<1>3. CASE Next
  <2>1. PICK p \in Proc : Step(p)
    BY <1>3 DEF Next, Step
  <2>2. "put" \notin Faults /\ CallInv /\ CallInv'
    BY <1>1 DEF RowsInv, GoneInv
  <2>3. \A i \in added' : index'[i] = "topic" \/ resource'[i] = NoRow
    BY <1>1, <2>1, <2>2, RowsLead
  <2>4. ASSUME NEW q \in Proc PROVE failed'[q] => pc'[q] = "list"
    <3>1. CASE q = p
      BY <2>1, <2>2, <3>1, FailedStep DEF RowsInv
    <3>2. CASE q # p
      BY <2>1, <2>2, <3>2, OthersStay DEF RowsInv
    <3> QED
      BY <3>1, <3>2
  <2>5. \A q \in Proc : op'[q] \in {"insert", "remove"} /\ pc'[q] \in {"reindex", "putIndex"}
                           => rowCopies'[q][id'[q]] \subseteq {resource'[id'[q]]}
    BY <2>1, <2>2, OwnRowsStep
  <2>6. \A q \in Proc, i \in Id :
          /\ pc'[q] # "down" => Table'[i] \in witnessed'[q][i]
          /\ \A c \in indexCopies'[q] : c[i] # "topic" => NoRow \in witnessed'[q][i]
          /\ \A v \in rowCopies'[q][i] :
               v \in witnessed'[q][i] \/ (v = resource'[i] /\ i \notin added')
    BY <1>1, <2>1, <2>2, RowRecords
  <2> QED
    BY <1>1, <2>3, <2>4, <2>5, <2>6 DEF RowsInv
<1> QED
  BY <1>2, <1>3

-----------------------------------------------------------------------------
(* What a retrieval has found, and what it has yet to find where its copy has *)
(* no path to follow.                                                        *)

Reading(p) ==
  op[p] \in {"retrieve", "retrieveAll"} =>
    /\ pc[p] \in {"index", "subscriber"} => got[p] = NoRows
    /\ pc[p] \in {"list", "subscriber"}
         => \A i \in Id : copy[p][i] # "topic" => NoRow \in witnessed[p][i]
    /\ pc[p] = "list" /\ ~failed[p] =>
         \A i \in Id \ left[p] : op[p] = "retrieveAll" \/ i = id[p] => got[p][i] \in witnessed[p][i]

\* Every answer to the get of a subscriber is one of its rows.
LEMMA AnswerWitnessed ==
  ASSUME RowsInv, NEW p \in Proc, Reading(p), pc[p] \in {"list", "subscriber"},
         op[p] \in {"retrieve", "retrieveAll"}, NEW i \in Id, NEW row \in At(p, i)
  PROVE  row \in witnessed[p][i]
<1>1. CASE copy[p][i] # "topic"
  BY <1>1 DEF At, Reading
<1>2. CASE copy[p][i] = "topic"
  <2>1. i \in added
    BY <1>2 DEF RowsInv, GoneInv, InUse, Entered
  <2>2. Table[i] = resource[i] /\ Table[i] \in witnessed[p][i]
    BY <2>1 DEF RowsInv, Table
  <2> QED
    BY <1>2, <2>1, <2>2 DEF At, Found, RowsInv
<1> QED
  BY <1>1, <1>2

LEMMA ReadingStep ==
  ASSUME RowsInv, NEW p \in Proc, Reading(p), Step(p)
  PROVE  Reading(p)'
<1>0. CallInv
  BY DEF RowsInv, GoneInv
<1>1. ASSUME op[p] \in {"retrieve", "retrieveAll"}, pc'[p] # "down", NEW i \in Id
      PROVE  witnessed[p][i] \subseteq witnessed'[p][i]
  <2>1. ~WritesRow(p) /\ ~WritesEntry(p)
    BY <1>0, <1>1 DEF WritesRow, WritesEntry, CallInv, Place
  <2> QED
    BY <1>1, <2>1 DEF Step, Witness
<1>2. CASE op'[p] \notin {"retrieve", "retrieveAll"}
  BY <1>2 DEF Reading
<1>3. CASE Begin(p)
  <2>1. \E o \in WriteOp \cup ReadOp, i \in Id \cup {NoId}, v \in Row, f \in BOOLEAN : Call(p, o, i, v, f)
    BY ONLY <1>3, BeginCall, Zenon
  <2>2. PICK o \in WriteOp \cup ReadOp, i \in Id \cup {NoId}, v \in Row, f \in BOOLEAN : Call(p, o, i, v, f)
    BY <2>1
  <2>3. op'[p] = o /\ pc'[p] = First(o) /\ got'[p] = NoRows
    BY <1>0, <2>2 DEF Call, CallInv, TypeOK
  <2>4. o \in {"retrieve", "retrieveAll"} => First(o) = "index"
    BY DEF First
  <2> QED
    BY <2>3, <2>4 DEF Reading
<1>4. CASE Crash(p)
  BY <1>0, <1>2, <1>4 DEF Crash, CallInv, TypeOK
<1>5. ASSUME NEW s, Return(p, s) PROVE Reading(p)'
  BY <1>0, <1>2, <1>5 DEF Return, CallInv, TypeOK
<1>6. CASE StartGet(p) \/ StartPut(p)
  <2>1. op[p] = "none" /\ op' = op
    BY <1>0, <1>6 DEF StartGet, StartPut, CallInv, Place, TypeOK, WriteOp, ReadOp
  <2> QED
    BY <1>2, <2>1
<1>7. CASE GetIndexAgain(p) \/ PutIndex(p) \/ PutSubscriber(p) \/ DeleteSubscriber(p)
  <2>1. op[p] \in WriteOp
    BY <1>0, <1>7 DEF GetIndexAgain, PutIndex, PutSubscriber, DeleteSubscriber, CallInv, Place,
                      TypeOK, WriteOp, ReadOp
  <2>2. op' = op \/ op'[p] = "none"
    BY <1>0, <1>7 DEF GetIndexAgain, PutIndex, PutSubscriber, DeleteSubscriber, GiveUp, Goto,
                      GotoWith, Return, CallInv, TypeOK
  <2> QED
    BY <1>2, <2>1, <2>2 DEF WriteOp
<1>8. CASE GetTopic(p) \/ EndRetrieval(p)
  BY <1>5, <1>8 DEF GetTopic, EndRetrieval, GiveUp
<1>9. CASE GetIndex(p)
  <2>1. UNCHANGED <<got, failed>> /\ pc[p] = "index"
    BY <1>9 DEF GetIndex
  <2>2. ASSUME op[p] \in {"retrieve", "retrieveAll"}, NEW c \in indexCopies[p],
               NEW label \in {"list", "subscriber"}, NEW l, GotoWith(p, label, c, l),
               label = "list" => \A i \in Id \ l : op[p] = "retrieveAll" \/ i = id[p] => c[i] = "none"
        PROVE  Reading(p)'
    <3>1. /\ pc'[p] = label /\ copy'[p] = c /\ left'[p] = l /\ op'[p] = op[p] /\ id'[p] = id[p]
      BY <1>0, <2>2 DEF GotoWith, CallInv, TypeOK
    <3>2. got'[p] = NoRows /\ \A i \in Id : got'[p][i] = NoRow
      BY <2>1, <2>2 DEF Reading, NoRows
    <3>3. ASSUME NEW i \in Id, c[i] # "topic" PROVE NoRow \in witnessed'[p][i]
      <4>1. NoRow \in witnessed[p][i]
        BY <2>2, <3>3 DEF RowsInv
      <4> QED
        BY <1>1, <2>2, <3>1, <4>1
    <3> QED
      BY <2>2, <3>1, <3>2, <3>3 DEF Reading
  <2>3. ASSUME NEW c \in indexCopies[p], GotoWith(p, "delete", c, {}) PROVE Reading(p)'
    BY <1>0, <1>9, <2>3 DEF GotoWith, Reading, CallInv, TypeOK, Place
  <2>4. ASSUME NEW c \in indexCopies[p], op[p] = "update", GotoWith(p, "subscriber", c, {})
        PROVE  Reading(p)'
    BY <1>0, <2>4 DEF GotoWith, Reading, CallInv, TypeOK
  <2>5. ASSUME NEW c \in indexCopies[p], op[p] = "retrieveAll",
               GotoWith(p, "list", c, {i \in Id : c[i] # "none"})
        PROVE  Reading(p)'
    BY <2>2, <2>5
  <2>6. ASSUME NEW c \in indexCopies[p], op[p] = "retrieve",
               \/ GotoWith(p, "subscriber", c, {})
               \/ c[id[p]] = "none" /\ GotoWith(p, "list", c, {})
        PROVE  Reading(p)'
    BY <2>2, <2>6
  <2> QED
    BY <1>5, <1>9, <2>3, <2>4, <2>5, <2>6 DEF GetIndex, GiveUp
<1>10. CASE GetSubscriber(p)
  <2>1. pc[p] = "subscriber" /\ op[p] \in {"update", "retrieve"}
    BY <1>0, <1>10 DEF GetSubscriber, CallInv, Place, TypeOK, WriteOp, ReadOp
  <2>2. ASSUME op[p] = "update", Goto(p, "put") PROVE Reading(p)'
    BY <1>0, <2>2 DEF Goto, GotoWith, Reading, CallInv, TypeOK
  <2>3. ASSUME op[p] = "retrieve", NEW row \in At(p, id[p]),
               got' = [got EXCEPT ![p][id[p]] = row], Goto(p, "list")
        PROVE  Reading(p)'
    <3>1. id[p] \in Id
      BY <1>0, <2>3 DEF CallInv, Known, TypeOK
    <3>2. /\ op'[p] = "retrieve" /\ pc'[p] = "list" /\ id'[p] = id[p] /\ copy'[p] = copy[p]
          /\ got'[p][id[p]] = row
      BY <1>0, <2>3, <3>1 DEF Goto, GotoWith, CallInv, TypeOK
    <3>3. row \in witnessed[p][id[p]]
      BY <2>1, <2>3, <3>1, AnswerWitnessed
    <3>4. \A i \in Id : witnessed[p][i] \subseteq witnessed'[p][i]
      BY <1>1, <2>3, <3>2
    <3>5. \A i \in Id : copy[p][i] # "topic" => NoRow \in witnessed'[p][i]
      BY <2>1, <2>3, <3>4 DEF Reading
    <3> QED
      BY <3>1, <3>2, <3>3, <3>4, <3>5 DEF Reading
  <2> QED
    BY <1>5, <1>10, <2>1, <2>2, <2>3 DEF GetSubscriber, GiveUp
<1>11. ASSUME NEW i \in Id, GetListed(p, i) PROVE Reading(p)'
  <2>1. UNCHANGED <<pc, op, id, copy>> /\ pc[p] = "list"
    BY <1>11 DEF GetListed
  <2>2. CASE op[p] \in {"retrieve", "retrieveAll"}
    <3>1. \A j \in Id : witnessed[p][j] \subseteq witnessed'[p][j]
      BY <1>1, <2>1, <2>2
    <3>2. \/ failed'[p]
          \/ /\ left'[p] = left[p] \ {i} /\ failed' = failed
             /\ \E row \in At(p, i) : got'[p][i] = row
             /\ \A j \in Id : j # i => got'[p][j] = got[p][j]
      BY <1>0, <1>11 DEF GetListed, Rest, CallInv, TypeOK
    <3>3. ASSUME ~failed'[p] PROVE got'[p][i] \in witnessed'[p][i]
      BY <2>1, <2>2, <3>1, <3>2, <3>3, AnswerWitnessed
    <3>4. ASSUME ~failed'[p], NEW j \in Id \ left'[p], op[p] = "retrieveAll" \/ j = id[p]
          PROVE  got'[p][j] \in witnessed'[p][j]
      <4>1. CASE j = i
        BY <3>3, <3>4, <4>1
      <4>2. CASE j # i
        <5>1. got[p][j] \in witnessed[p][j]
          BY <2>1, <2>2, <3>2, <3>4, <4>2 DEF Reading
        <5> QED
          BY <3>1, <3>2, <3>4, <4>2, <5>1
      <4> QED
        BY <4>1, <4>2
    <3>5. \A j \in Id : copy[p][j] # "topic" => NoRow \in witnessed'[p][j]
      BY <2>1, <2>2, <3>1 DEF Reading
    <3> QED
      BY <2>1, <3>4, <3>5 DEF Reading
  <2> QED
    BY <1>2, <2>1, <2>2
<1>12. Begin(p) \/ Request(p) \/ Crash(p)
  BY DEF Step
<1> QED
  BY <1>3, <1>4, <1>6, <1>7, <1>8, <1>9, <1>10, <1>11, <1>12 DEF Request

LEMMA ReadingElsewhere ==
  ASSUME RowsInv, NEW p \in Proc, Step(p), NEW q \in Proc, q # p, Reading(q)
  PROVE  Reading(q)'
<1>1. /\ pc'[q] = pc[q] /\ op'[q] = op[q] /\ id'[q] = id[q] /\ copy'[q] = copy[q]
      /\ left'[q] = left[q] /\ got'[q] = got[q] /\ failed'[q] = failed[q]
  BY OthersStay DEF RowsInv, GoneInv
<1>2. pc[q] # "down" => \A i \in Id : witnessed[q][i] \subseteq witnessed'[q][i]
  BY <1>1 DEF Step, Witness
<1> QED
  BY <1>1, <1>2 DEF Reading

\* With one writer, no put that fails and managers that start one by one, every
\* row that a retrieval without a failed request returns, or does not find, is
\* one the subscription has had since the process came up or last changed it,
\* however old the records are that the client answers with.
THEOREM RetrievedIsRecent ==
  ASSUME OneWriter, OneByOne, Faults \cap {"put", "startGet"} = {}
  PROVE  Spec => []RetrievedIsNoOlder
<1>1. Init => RowsInv /\ \A p \in Proc : Reading(p)
  <2> SUFFICES ASSUME Init PROVE RowsInv /\ \A p \in Proc : Reading(p)
    OBVIOUS
  <2>1. ListedInv /\ GoneInv
    BY ListedInit, GoneInit
  <2> QED
    BY <2>1 DEF RowsInv, Reading, Init
<1>2. RowsInv /\ (\A p \in Proc : Reading(p)) /\ [Next]_vars
        => RowsInv' /\ (\A p \in Proc : Reading(p))'
  <2> SUFFICES ASSUME RowsInv, \A p \in Proc : Reading(p), [Next]_vars
               PROVE  RowsInv' /\ \A p \in Proc : Reading(p)'
    OBVIOUS
  <2>1. RowsInv'
    BY RowsNext
  <2>2. CASE UNCHANGED vars
    BY <2>1, <2>2 DEF Reading, vars, call, histories
  <2>3. CASE Next
    <3>1. PICK p \in Proc : Step(p)
      BY <2>3 DEF Next, Step
    <3> QED
      BY <2>1, <3>1, ReadingStep, ReadingElsewhere
  <2> QED
    BY <2>2, <2>3
<1>3. RowsInv /\ (\A p \in Proc : Reading(p)) => RetrievedIsNoOlder
  <2> SUFFICES ASSUME RowsInv, NEW p \in Proc, Reading(p), pc[p] = "list", left[p] = {}, ~failed[p],
                      NEW i \in Id, op[p] = "retrieveAll" \/ i = id[p]
               PROVE  got[p][i] \in witnessed[p][i]
    BY DEF RetrievedIsNoOlder
  <2>1. op[p] \in {"retrieve", "retrieveAll"}
    <3>1. Place(pc[p], op[p]) /\ op[p] \in WriteOp \cup ReadOp \cup {"none"}
      BY DEF RowsInv, GoneInv, CallInv, TypeOK
    <3> QED
      BY <3>1 DEF Place, WriteOp, ReadOp
  <2> QED
    BY <2>1 DEF Reading
<1> QED
  BY <1>1, <1>2, <1>3, PTL DEF Spec

=============================================================================
