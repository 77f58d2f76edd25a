------------------------- MODULE SavanClient_proofs --------------------------
(***************************************************************************)
(* Proofs about the client library, for any number of subscriptions over   *)
(* one service client, any number of requests under way, any of the faults *)
(* and any choice of the calls before which the application removes the    *)
(* headers.                                                                *)
(***************************************************************************)
EXTENDS SavanClient, TLAPS

\* The application removes the headers before it unsubscribes.
UnsubscribeClears == "unsubscribe" \in Clears

Known == issued \cup {NoId}

\* The application's own action, or what a Subscribe without a message has left.
OwnAction(a) == a = "own" \/ (aborted /\ a = "subscribe")

\* One call at a time, and what the event source works on for it.
CallInv ==
  /\ Idle => /\ OwnAction(action)
             /\ request = None /\ mine = None /\ answer = None /\ wrote = None
  /\ ~Idle =>
       /\ OwnAction(saved)
       /\ request \in Request
       /\ mine \in Connection
       /\ work[mine] # None => answer = None /\ work[mine].req = request
       /\ request.type \in Clears \ {"subscribe"} => request.names = subId[caller]
  /\ answer # None =>
       /\ answer.type \in {request.type, "Fault"}
       /\ answer.type = "subscribe" => answer.id \in Id
       /\ answer.type \in {"renew", "getStatus"} =>
            request.names \in Id /\ answer.expires \in Stored
  /\ wrote # None => request.type = "renew" /\ request.names \in Id

\* What the event source has in hand once it has found the row.
WorkInv ==
  \A w \in Connection : work[w] # None /\ work[w].at # "arrived" =>
    /\ Names(w) \in Id
    /\ work[w].req.type = "renew" => work[w].row \in Stored

\* Nobody names an identifier that was not given out.
IdInv ==
  /\ \A n \in 1..Len(headers) : headers[n] \in Known
  /\ \A c \in Client : subId[c] \in Known
  /\ ~Idle => request.names \in Known
  /\ \A w \in Connection : work[w] # None => Names(w) \in Known
  /\ answer # None /\ answer.type = "subscribe" => answer.id \in issued
  /\ \A i \in Id : store[i] # NoRow \/ expected[i] # {} \/ i \in ended => i \in issued

Inv == TypeOK /\ CallInv /\ WorkInv /\ IdInv

\* What an Unsubscribe has removed, or found missing, is not there later.
GoneInv ==
  ~Idle /\ request.type = "unsubscribe" /\ request.names \in Id /\ ~spared =>
    (answer # None \/ (work[mine] # None /\ work[mine].at = "look") =>
      store[request.names] = NoRow)

\* What an answer says still holds when it is returned, but for late Renews.
ExpiryInv ==
  /\ answer # None /\ answer.type = "subscribe" =>
       store[answer.id] \in {Never, NoRow} \cup expected[answer.id]
  /\ answer # None /\ answer.type \in {"renew", "getStatus"} =>
       store[request.names] \in {answer.expires, NoRow} \cup unseen
  /\ wrote # None =>
       store[request.names] \in {wrote, NoRow} \cup expected[request.names]
  /\ ExpiryIsKnown

-----------------------------------------------------------------------------
(* The steps of the event source.                                           *)

\* Types of the answers.
LEMMA AnswerTypes ==
  /\ Fault \in Answer /\ Gone \in Answer
  /\ \A i \in Id : Granted(i) \in Answer
  /\ \A t \in Call, row \in Stored : Shows(t, row) \in Answer
BY DEF Fault, Gone, Granted, Shows, Answer, Call

\* What the handlers read of a row.
LEMMA RetrieveIs ==
  ASSUME Inv, NEW i \in Id \cup {NoId}, NEW row \in Retrieve(i), row # NoRow
  PROVE  i \in Id /\ row = store[i] /\ row \in Stored
BY DEF Retrieve, Inv, TypeOK

\* A request that is worked on stays the same request.
LEMMA GoesOnIs ==
  ASSUME Inv, NEW w \in Connection, work[w] # None, NEW at \in {"write", "look"},
         NEW row \in Stored \cup {None}, GoesOn(w, at, row)
  PROVE  /\ work' \in [Connection -> Work \cup {None}]
         /\ \A v \in Connection \ {w} : work'[v] = work[v]
         /\ work'[w] # None /\ work'[w].req = work[w].req
         /\ work'[w].at = at /\ work'[w].row = row
         /\ answer' = answer
<1>1. work[w] \in Work /\ work \in [Connection -> Work \cup {None}]
  BY DEF Inv, TypeOK
<1>2. [req |-> work[w].req, at |-> at, row |-> row] \in Work
  BY <1>1 DEF Work
<1> DEFINE k == [req |-> work[w].req, at |-> at, row |-> row]
<1>3. work' = [work EXCEPT ![w] = k] /\ answer' = answer
  BY <1>1 DEF GoesOn
<1>4. k # None /\ k.req = work[w].req /\ k.at = at /\ k.row = row /\ k \in Work
  BY <1>2, NoneAssumption
<1> HIDE DEF k
<1> QED
  BY <1>1, <1>3, <1>4

LEMMA AnswersIs ==
  ASSUME Inv, NEW w \in Connection, NEW a \in Answer, Answers(w, a)
  PROVE  /\ work' \in [Connection -> Work \cup {None}]
         /\ \A v \in Connection \ {w} : work'[v] = work[v]
         /\ work'[w] = None
         /\ answer' = IF w = mine THEN a ELSE answer
         /\ answer' \in Answer \cup {None}
BY DEF Answers, Inv, TypeOK

\* What a step on a connection makes of its request: an answer, or a later stage.
Worked(w) ==
  /\ work[w] # None
  /\ work' \in [Connection -> Work \cup {None}]
  /\ \A v \in Connection \ {w} : work'[v] = work[v]
  /\ \/ /\ work'[w] # None /\ work'[w].req = work[w].req
        /\ work'[w].at # "arrived"
        /\ Names(w) \in Id
        /\ work[w].req.type = "renew" => work'[w].row \in Stored
        /\ answer' = answer
     \/ /\ work'[w] = None
        /\ w # mine /\ answer' = answer
     \/ /\ work'[w] = None
        /\ w = mine /\ answer' \in Answer
        /\ answer'.type \in {work[w].req.type, "Fault"}
        /\ answer'.type = "subscribe" => answer'.id \in Id
        /\ answer'.type \in {"renew", "getStatus"} =>
             Names(w) \in Id /\ answer'.expires \in Stored
        /\ answer'.type = "subscribe" =>
             answer'.id \in issued' /\ store'[answer'.id] \in {Never, NoRow}
        /\ answer'.type \in {"renew", "getStatus"} => store'[Names(w)] = answer'.expires

\* What a step does to the rows.
Rows(w) ==
  \/ UNCHANGED <<store, issued, expected, wrote, unseen>>
  \/ \E i \in Id \ issued :
       /\ issued' = issued \cup {i}
       /\ store' = store \/ store' = [store EXCEPT ![i] = Never]
       /\ UNCHANGED <<expected, wrote, unseen>>
  \/ /\ Names(w) \in Id /\ store' = [store EXCEPT ![Names(w)] = NoRow]
     /\ UNCHANGED <<issued, expected, wrote, unseen>>
  \/ /\ At(w, "renew", "write") /\ Names(w) \in Id /\ work[w].row \in Stored
     /\ store' = [store EXCEPT ![Names(w)] = UpdatedRow(@, work[w].row)]
     /\ Wrote(w, store'[Names(w)])
     /\ UNCHANGED <<issued, answer>>

LEMMA FaultWorked ==
  ASSUME Inv, NEW w \in Connection, work[w] # None, Answers(w, Fault)
  PROVE  Worked(w)
<1>1. Fault \in Answer /\ Fault.type = "Fault"
  BY AnswerTypes DEF Fault
<1>2. /\ work' \in [Connection -> Work \cup {None}]
      /\ \A v \in Connection \ {w} : work'[v] = work[v]
      /\ work'[w] = None
      /\ answer' = IF w = mine THEN Fault ELSE answer
  BY <1>1, AnswersIs
<1> QED
  BY <1>1, <1>2 DEF Worked

LEMMA GoesOnWorked ==
  ASSUME Inv, NEW w \in Connection, work[w] # None, Names(w) \in Id,
         NEW at \in {"write", "look"}, NEW row \in Stored \cup {None},
         work[w].req.type = "renew" => row \in Stored, GoesOn(w, at, row)
  PROVE  Worked(w)
<1>1. /\ work' \in [Connection -> Work \cup {None}]
      /\ \A v \in Connection \ {w} : work'[v] = work[v]
      /\ work'[w] # None /\ work'[w].req = work[w].req
      /\ work'[w].at = at /\ work'[w].row = row
      /\ answer' = answer
  BY GoesOnIs
<1>2. at # "arrived"
  OBVIOUS
<1> QED
  BY <1>1, <1>2 DEF Worked

LEMMA HandleIs ==
  ASSUME Inv, NEW w \in Connection, Handle(w)
  PROVE  /\ Worked(w) /\ Rows(w)
         /\ spared' \in BOOLEAN
         /\ UNCHANGED <<svcClient, call, subId, ended, aborted>>
<1> DEFINE r == work[w].req
<1>a. ASSUME work[w] # None
      PROVE  work[w] \in Work /\ r \in Request /\ r.type \in Call /\ Names(w) \in Id \cup {NoId}
             /\ r.asks \in Expiry \cup {None} /\ work[w].row \in Stored \cup {None}
  BY <1>a DEF Inv, TypeOK, Work, Request, Names
<1>b. Never \in Stored /\ Expiry \subseteq Stored /\ store \in [Id -> Stored \cup {NoRow}]
  BY DEF Stored, Inv, TypeOK
<1>1. CASE HandleSubscribe(w)
  <2>1. work[w] # None /\ r.type = "subscribe"
    BY <1>1 DEF HandleSubscribe, At
  <2>2. PICK i \in Id \ issued :
          /\ issued' = issued \cup {i}
          /\ \/ store' = [store EXCEPT ![i] = Never] /\ Answers(w, Granted(i))
             \/ UNCHANGED store /\ (Answers(w, Fault) \/ Answers(w, Granted(i)))
    BY <1>1 DEF HandleSubscribe
  <2>3. store'[i] \in {Never, NoRow}
    BY <1>b, <2>2 DEF Inv, IdInv
  <2>4. PICK a \in {Fault, Granted(i)} : Answers(w, a)
    BY <2>2
  <2>5. a \in Answer /\ a.type \in {"subscribe", "Fault"} /\ (a.type = "subscribe" => a.id = i)
    BY <2>4, AnswerTypes DEF Fault, Granted
  <2>6. /\ work' \in [Connection -> Work \cup {None}]
        /\ \A v \in Connection \ {w} : work'[v] = work[v]
        /\ work'[w] = None
        /\ answer' = IF w = mine THEN a ELSE answer
    BY <2>4, <2>5, AnswersIs
  <2>7. Worked(w)
    BY <2>1, <2>2, <2>3, <2>5, <2>6 DEF Worked
  <2>8. Rows(w)
    BY <1>1, <2>2 DEF Rows, HandleSubscribe, histories
  <2> QED
    BY <1>1, <2>7, <2>8 DEF HandleSubscribe, histories, Inv, TypeOK
<1>2. CASE FindUnsubscribed(w)
  <2>1. work[w] # None /\ r.type = "unsubscribe"
    BY <1>2 DEF FindUnsubscribed, At
  <2>2. PICK row \in Retrieve(Names(w)) :
          \/ row = NoRow /\ Answers(w, Fault)
          \/ row # NoRow /\ GoesOn(w, "write", None)
    BY <1>2 DEF FindUnsubscribed
  <2>3. ASSUME row # NoRow /\ GoesOn(w, "write", None) PROVE Worked(w)
    <3>1. Names(w) \in Id
      BY <1>a, <2>1, <2>3, RetrieveIs
    <3> QED
      BY <2>1, <2>3, <3>1, GoesOnWorked
  <2>4. ASSUME Answers(w, Fault) PROVE Worked(w)
    BY <2>1, <2>4, FaultWorked
  <2>5. Worked(w)
    BY <2>2, <2>3, <2>4
  <2>6. spared' \in BOOLEAN
    BY <1>2 DEF FindUnsubscribed, Inv, TypeOK
  <2> QED
    BY <1>2, <2>5, <2>6 DEF FindUnsubscribed, Rows, server
<1>3. CASE RemoveSubscriber(w)
  <2>1. work[w] # None /\ r.type = "unsubscribe" /\ Names(w) \in Id
    BY <1>3 DEF RemoveSubscriber, At, Inv, WorkInv
  <2>2. GoesOn(w, "look", None)
    BY <1>3 DEF RemoveSubscriber
  <2>3. Worked(w)
    BY <2>1, <2>2, GoesOnWorked
  <2>4. spared' \in BOOLEAN
    BY <1>3 DEF RemoveSubscriber, Inv, TypeOK, HasRow
  <2> QED
    BY <1>3, <2>1, <2>3, <2>4 DEF RemoveSubscriber, Rows
<1>4. CASE HandleUnsubRequest(w)
  <2>1. work[w] # None /\ r.type = "unsubscribe"
    BY <1>4 DEF HandleUnsubRequest, At
  <2>2. PICK a \in {Fault, Gone} : Answers(w, a)
    BY <1>4 DEF HandleUnsubRequest
  <2>3. a \in Answer /\ a.type \in {"unsubscribe", "Fault"}
    BY <2>2, AnswerTypes DEF Fault, Gone
  <2>4. Worked(w)
    BY <2>1, <2>2, <2>3, AnswersIs DEF Worked
  <2> QED
    BY <1>4, <2>4 DEF HandleUnsubRequest, Rows, server, histories, Inv, TypeOK
<1>5. CASE RenewSubscription(w)
  <2>1. work[w] # None /\ r.type = "renew"
    BY <1>5 DEF RenewSubscription, At
  <2>2. PICK row \in Retrieve(Names(w)) :
          \/ row = NoRow /\ Answers(w, Fault)
          \/ row # NoRow /\ GoesOn(w, "write", RenewedExpiry(r.asks, row))
    BY <1>5 DEF RenewSubscription
  <2>3. ASSUME row # NoRow /\ GoesOn(w, "write", RenewedExpiry(r.asks, row)) PROVE Worked(w)
    <3>1. Names(w) \in Id /\ row \in Stored
      BY <1>a, <2>1, <2>3, RetrieveIs
    <3>2. RenewedExpiry(r.asks, row) \in Stored
      BY <1>a, <1>b, <2>1, <3>1 DEF RenewedExpiry
    <3> QED
      BY <2>1, <2>3, <3>1, <3>2, GoesOnWorked
  <2>4. ASSUME Answers(w, Fault) PROVE Worked(w)
    BY <2>1, <2>4, FaultWorked
  <2>5. Worked(w)
    BY <2>2, <2>3, <2>4
  <2> QED
    BY <1>5, <2>5 DEF RenewSubscription, Rows, server, histories, Inv, TypeOK
<1>6. CASE UpdateSubscriber(w)
  <2>1. work[w] # None /\ r.type = "renew" /\ Names(w) \in Id /\ work[w].row \in Stored
    BY <1>6 DEF UpdateSubscriber, At, Inv, WorkInv
  <2>2. ASSUME GoesOn(w, "look", work[w].row) PROVE Worked(w)
    BY <2>1, <2>2, GoesOnWorked
  <2>3. ASSUME Answers(w, Fault) PROVE Worked(w)
    BY <2>1, <2>3, FaultWorked
  <2>4. Worked(w)
    BY <1>6, <2>2, <2>3 DEF UpdateSubscriber
  <2>5. Rows(w)
    BY <1>6, <2>1 DEF UpdateSubscriber, Rows, GoesOn
  <2> QED
    BY <1>6, <2>4, <2>5 DEF UpdateSubscriber, Inv, TypeOK
<1>7. ASSUME NEW t \in {"renew", "getStatus"}, r.type = t, work[w] # None, UNCHANGED store,
             NEW row \in Retrieve(Names(w)),
             Answers(w, IF row = NoRow THEN Fault ELSE Shows(t, row))
      PROVE  Worked(w)
  <2>1. CASE row = NoRow
    BY <1>7, <2>1, FaultWorked
  <2>2. CASE row # NoRow
    <3>1. Names(w) \in Id /\ row = store[Names(w)] /\ row \in Stored
      BY <1>a, <1>7, <2>2, RetrieveIs
    <3>2. /\ Shows(t, row) \in Answer /\ Shows(t, row).type = t /\ Shows(t, row).expires = row
      BY <1>7, <3>1, AnswerTypes DEF Shows, Call
    <3> QED
      BY <1>7, <2>2, <3>1, <3>2, AnswersIs DEF Worked
  <2> QED
    BY <2>1, <2>2
<1>8. CASE HandleRenewRequest(w)
  <2>1. Worked(w)
    BY <1>7, <1>8 DEF HandleRenewRequest, At, ReadAgain, server
  <2> QED
    BY <1>8, <2>1 DEF HandleRenewRequest, Rows, server, histories, Inv, TypeOK
<1>9. CASE HandleGetStatusRequest(w)
  <2>1. Worked(w)
    BY <1>7, <1>9 DEF HandleGetStatusRequest, At, server
  <2> QED
    BY <1>9, <2>1 DEF HandleGetStatusRequest, Rows, server, histories, Inv, TypeOK
<1> QED
  BY <1>1, <1>2, <1>3, <1>4, <1>5, <1>6, <1>8, <1>9 DEF Handle

\* What a step does to the row of one identifier.
LEMMA RowStep ==
  ASSUME Inv, NEW w \in Connection, Rows(w), NEW i \in Id
  PROVE  \/ store'[i] = store[i] /\ UNCHANGED <<expected, wrote, unseen>>
         \/ /\ i \notin issued /\ i \in issued' /\ store'[i] = Never
            /\ UNCHANGED <<expected, wrote, unseen>>
         \/ store'[i] = NoRow /\ UNCHANGED <<expected, wrote, unseen>>
         \/ /\ store[i] # NoRow \/ i # Names(w)
            /\ store'[i] = IF i = Names(w) THEN work[w].row ELSE store[i]
            /\ At(w, "renew", "write") /\ Names(w) \in Id /\ work[w].row \in Stored
            /\ Wrote(w, work[w].row) /\ UNCHANGED answer
<1> USE DEF Inv, TypeOK
<1>1. ASSUME NEW j \in Id \ issued, issued' = issued \cup {j},
             store' = store \/ store' = [store EXCEPT ![j] = Never],
             UNCHANGED <<expected, wrote, unseen>>
      PROVE  \/ store'[i] = store[i]
             \/ i \notin issued /\ i \in issued' /\ store'[i] = Never
  BY <1>1
<1>2. CASE /\ Names(w) \in Id /\ store' = [store EXCEPT ![Names(w)] = NoRow]
           /\ UNCHANGED <<issued, expected, wrote, unseen>>
  BY <1>2
<1>3. CASE /\ At(w, "renew", "write") /\ Names(w) \in Id /\ work[w].row \in Stored
           /\ store' = [store EXCEPT ![Names(w)] = UpdatedRow(@, work[w].row)]
           /\ Wrote(w, store'[Names(w)])
           /\ UNCHANGED <<issued, answer>>
  <2>1. store'[Names(w)] = UpdatedRow(store[Names(w)], work[w].row)
    BY <1>3
  <2>2. CASE store[Names(w)] = NoRow
    BY <1>3, <2>1, <2>2 DEF UpdatedRow, Wrote
  <2>3. CASE store[Names(w)] # NoRow
    <3>1. store'[Names(w)] = work[w].row
      BY <2>1, <2>3 DEF UpdatedRow
    <3> QED
      BY <1>3, <2>3, <3>1
  <2> QED
    BY <2>2, <2>3
<1> QED
  BY <1>1, <1>2, <1>3 DEF Rows

\* The connection that is waited for is the caller's.
LEMMA MineIs ==
  ASSUME Inv, NEW w \in Connection, work[w] # None, w = mine
  PROVE  ~Idle /\ answer = None /\ work[w].req = request
BY NoneAssumption DEF Inv, CallInv

\* The types and the histories after a step of the event source.
LEMMA RowTypes ==
  ASSUME Inv, NEW w \in Connection, work[w] # None, Rows(w)
  PROVE  /\ store' \in [Id -> Stored \cup {NoRow}]
         /\ issued' \subseteq Id /\ issued \subseteq issued'
         /\ expected' \in [Id -> SUBSET Stored]
         /\ wrote' \in Stored \cup {None} /\ unseen' \subseteq Stored
         /\ wrote' # None => request.type = "renew" /\ request.names \in Id
         /\ \A i \in Id : store'[i] # NoRow \/ expected'[i] # {} => i \in issued'
<1> USE DEF Inv, TypeOK
<1>1. Never \in Stored /\ NoRow \notin Stored
  BY ClientAssumption DEF Stored
<1>2. /\ wrote # None => request.type = "renew" /\ request.names \in Id
      /\ \A i \in Id : store[i] # NoRow \/ expected[i] # {} => i \in issued
  BY DEF CallInv, IdInv
<1>3. CASE UNCHANGED <<store, issued, expected, wrote, unseen>>
  BY <1>2, <1>3
<1>4. CASE \E i \in Id \ issued :
             /\ issued' = issued \cup {i}
             /\ store' = store \/ store' = [store EXCEPT ![i] = Never]
             /\ UNCHANGED <<expected, wrote, unseen>>
  BY <1>1, <1>2, <1>4
<1>5. CASE /\ Names(w) \in Id /\ store' = [store EXCEPT ![Names(w)] = NoRow]
           /\ UNCHANGED <<issued, expected, wrote, unseen>>
  BY <1>2, <1>5
<1>6. CASE /\ At(w, "renew", "write") /\ Names(w) \in Id /\ work[w].row \in Stored
           /\ store' = [store EXCEPT ![Names(w)] = UpdatedRow(@, work[w].row)]
           /\ Wrote(w, store'[Names(w)])
           /\ UNCHANGED <<issued, answer>>
  <2>1. store'[Names(w)] \in Stored \cup {NoRow} /\ (store[Names(w)] = NoRow => store'[Names(w)] = NoRow)
    BY <1>6 DEF UpdatedRow
  <2>2. /\ store' \in [Id -> Stored \cup {NoRow}]
        /\ \A i \in Id : store'[i] # NoRow => i \in issued
    BY <1>2, <1>6, <2>1
  <2>3. CASE store'[Names(w)] = NoRow
    BY <1>2, <1>6, <2>2, <2>3 DEF Wrote
  <2>4. CASE store'[Names(w)] # NoRow /\ w = mine
    <3>1. wrote' = store'[Names(w)] /\ UNCHANGED <<expected, unseen>>
      BY <1>6, <2>4 DEF Wrote
    <3>2. request.type = "renew" /\ request.names = Names(w)
      BY <1>6, <2>4, MineIs DEF At, Names
    <3> QED
      BY <1>2, <1>6, <2>1, <2>2, <2>4, <3>1, <3>2
  <2>5. CASE store'[Names(w)] # NoRow /\ w # mine
    <3>1. /\ expected' = [expected EXCEPT ![Names(w)] = @ \cup {store'[Names(w)]}]
          /\ unseen' = unseen \/ unseen' = unseen \cup {store'[Names(w)]}
          /\ UNCHANGED wrote
      BY <1>6, <2>5 DEF Wrote
    <3>2. Names(w) \in issued
      BY <1>6, <2>2, <2>5
    <3> QED
      BY <1>2, <1>6, <2>1, <2>2, <2>5, <3>1, <3>2
  <2> QED
    BY <2>3, <2>4, <2>5
<1> QED
  BY <1>3, <1>4, <1>5, <1>6 DEF Rows

-----------------------------------------------------------------------------
(* Each step keeps the types and what is known of the call and of the       *)
(* identifiers.                                                             *)

LEMMA HandleStep ==
  ASSUME Inv, NEW w \in Connection, Handle(w)
  PROVE  Inv'
<1>1. /\ Worked(w) /\ Rows(w) /\ spared' \in BOOLEAN
      /\ UNCHANGED <<headers, action, caller, saved, request, mine, subId, ended, aborted>>
  BY HandleIs DEF svcClient, call
<1>2. work[w] # None
  BY <1>1 DEF Worked
<1>3. /\ store' \in [Id -> Stored \cup {NoRow}]
      /\ issued' \subseteq Id /\ issued \subseteq issued'
      /\ expected' \in [Id -> SUBSET Stored]
      /\ wrote' \in Stored \cup {None} /\ unseen' \subseteq Stored
      /\ wrote' # None => request.type = "renew" /\ request.names \in Id
      /\ \A i \in Id : store'[i] # NoRow \/ expected'[i] # {} => i \in issued'
  BY <1>1, <1>2, RowTypes
<1>4. w = mine => ~Idle /\ answer = None /\ work[w].req = request
  BY <1>2, MineIs
<1>5. TypeOK'
  <2>1. answer' \in Answer \cup {None} /\ work' \in [Connection -> Work \cup {None}]
    BY <1>1 DEF Worked, Inv, TypeOK
  <2> QED
    BY <1>1, <1>3, <2>1 DEF Inv, TypeOK
<1>6. CallInv'
  <2>1. Idle => answer' = None /\ wrote' = None
    <3>1. ASSUME Idle PROVE w # mine
      BY <1>4, <3>1
    <3>2. ASSUME Idle PROVE answer' = None
      BY <1>1, <3>1, <3>2 DEF Worked, Inv, CallInv
    <3>3. ASSUME Idle PROVE wrote' = None
      <4>1. request = None /\ wrote = None /\ answer = None
        BY <3>3 DEF Inv, CallInv
      <4>2. UNCHANGED wrote \/ Wrote(w, store'[Names(w)])
        BY <1>1 DEF Rows
      <4> QED
        BY <3>1, <3>3, <4>1, <4>2 DEF Wrote
    <3> QED
      BY <3>2, <3>3
  <2>2. ASSUME ~Idle, work'[mine] # None
        PROVE  answer' = None /\ work'[mine].req = request
    <3>1. mine \in Connection
      BY <2>2 DEF Inv, CallInv
    <3>2. CASE w = mine
      BY <1>1, <1>4, <2>2, <3>2 DEF Worked
    <3>3. CASE w # mine
      BY <1>1, <2>2, <3>1, <3>3 DEF Worked, Inv, CallInv
    <3> QED
      BY <3>2, <3>3
  <2>3. ASSUME answer' # None
        PROVE  /\ answer'.type \in {request.type, "Fault"}
               /\ answer'.type = "subscribe" => answer'.id \in Id
               /\ answer'.type \in {"renew", "getStatus"} =>
                    request.names \in Id /\ answer'.expires \in Stored
    <3>1. CASE answer' = answer
      BY <2>3, <3>1 DEF Inv, CallInv
    <3>2. CASE answer' # answer
      BY <1>1, <1>4, <3>2 DEF Worked, Names
    <3> QED
      BY <3>1, <3>2
  <2>4. OwnAction(action)' = OwnAction(action) /\ OwnAction(saved)' = OwnAction(saved) /\ Idle' = Idle
    BY <1>1 DEF OwnAction, Idle
  <2> QED
    BY <1>1, <1>3, <2>1, <2>2, <2>3, <2>4 DEF Inv, CallInv
<1>7. WorkInv'
  <2> SUFFICES ASSUME NEW v \in Connection, work'[v] # None, work'[v].at # "arrived"
               PROVE  work'[v].req.names \in Id /\ (work'[v].req.type = "renew" => work'[v].row \in Stored)
    BY DEF WorkInv, Names
  <2>1. CASE v = w
    BY <1>1, <2>1 DEF Worked, Names
  <2>2. CASE v # w
    BY <1>1, <2>2 DEF Worked, Inv, WorkInv, Names
  <2> QED
    BY <2>1, <2>2
<1>8. IdInv'
  <2>1. Known \subseteq Known'
    BY <1>3 DEF Known
  <2>2. ASSUME NEW v \in Connection, work'[v] # None
        PROVE  work'[v].req.names \in Known'
    <3>1. work[v] # None /\ work'[v].req = work[v].req
      BY <1>1, <1>2, <2>2 DEF Worked
    <3> QED
      BY <2>1, <3>1 DEF Inv, IdInv, Names
  <2>3. answer' # None /\ answer'.type = "subscribe" => answer'.id \in issued'
    BY <1>1, <1>3 DEF Worked, Inv, IdInv
  <2> QED
    BY <1>1, <1>3, <2>1, <2>2, <2>3 DEF Inv, IdInv, Idle, Names, Known
<1> QED
  BY <1>5, <1>6, <1>7, <1>8 DEF Inv

\* The headers of a request.
LEMMA HeadersStep ==
  ASSUME Inv, NEW c \in Client, NEW o \in Call, Len(WithHeader(c, o)) <= MaxHeaders
  PROVE  /\ WithHeader(c, o) \in Seq(Id \cup {NoId})
         /\ \A n \in 1..Len(WithHeader(c, o)) : WithHeader(c, o)[n] \in Known
         /\ First(WithHeader(c, o)) \in Known
         /\ o \in Clears \ {"subscribe"} => First(WithHeader(c, o)) = subId[c]
<1> DEFINE hs == HeadersOf(o)
<1>1. /\ hs \in Seq(Id \cup {NoId}) /\ \A n \in 1..Len(hs) : hs[n] \in Known
      /\ subId[c] \in Id \cup {NoId} /\ subId[c] \in Known
      /\ o \in Clears => hs = << >>
  BY DEF HeadersOf, Inv, TypeOK, IdInv
<1> HIDE DEF hs
<1>2. CASE o = "subscribe"
  <2>1. WithHeader(c, o) = hs
    BY <1>2 DEF WithHeader, hs
  <2> QED
    BY <1>1, <1>2, <2>1 DEF First, Known
<1>3. CASE o # "subscribe"
  <2>1. WithHeader(c, o) = Append(hs, subId[c])
    BY <1>3 DEF WithHeader, hs
  <2>2. /\ Append(hs, subId[c]) \in Seq(Id \cup {NoId}) /\ Len(Append(hs, subId[c])) = Len(hs) + 1
        /\ Len(hs) \in Nat
        /\ \A n \in 1..Len(hs) : Append(hs, subId[c])[n] = hs[n]
        /\ Append(hs, subId[c])[Len(hs) + 1] = subId[c]
    BY <1>1
  <2>3. \A n \in 1..(Len(hs) + 1) : Append(hs, subId[c])[n] \in Known
    BY <1>1, <2>2
  <2>4. First(Append(hs, subId[c])) = Append(hs, subId[c])[1]
    <3>1. Append(hs, subId[c]) # << >>
      BY <2>2
    <3> QED
      BY <3>1 DEF First
  <2>5. First(Append(hs, subId[c])) \in Known
    BY <2>2, <2>3, <2>4
  <2>6. o \in Clears => First(Append(hs, subId[c])) = subId[c]
    BY <1>1, <2>2, <2>4
  <2> QED
    BY <2>1, <2>2, <2>3, <2>5, <2>6
<1> QED
  BY <1>2, <1>3

\* A call begins.
LEMMA SendStep ==
  ASSUME Inv, NEW c \in Client, NEW o \in Call, NEW e \in Expiry \cup {None}, Send(c, o, e)
  PROVE  Inv'
<1>1. /\ headers' \in Seq(Id \cup {NoId})
      /\ \A n \in 1..Len(headers') : headers'[n] \in Known
      /\ First(headers') \in Known
      /\ o \in Clears \ {"subscribe"} => First(headers') = subId[c]
  BY HeadersStep DEF Send
<1>2. Known \subseteq Id \cup {NoId}
  BY DEF Known, Inv, TypeOK
<1>3. request' \in Request /\ request'.type = o /\ request'.names = First(headers')
  BY <1>1, <1>2 DEF Send, Request
<1>4. c # None /\ Idle
  BY NoneAssumption DEF Send
<1>5. PICK w \in Connection : work[w] = None /\ mine' = w /\ work' = [work EXCEPT ![w] = Arrived(request')]
  BY DEF Send
<1>6. /\ Arrived(request') \in Work /\ Arrived(request').req = request'
      /\ Arrived(request').at = "arrived"
  BY <1>3 DEF Arrived, Work
<1>7. /\ work' \in [Connection -> Work \cup {None}]
      /\ work'[w] = Arrived(request')
      /\ \A v \in Connection \ {w} : work'[v] = work[v]
  BY <1>5, <1>6 DEF Inv, TypeOK
<1>8. answer' = None /\ wrote' = None /\ caller' = c /\ ~Idle'
  BY <1>4 DEF Send, Inv, CallInv, Idle, OwnAction, histories
<1>9. TypeOK'
  BY <1>1, <1>3, <1>5, <1>7 DEF Send, Inv, TypeOK, server, histories, Call
<1>10. CallInv'
  <2>1. OwnAction(saved)'
    BY <1>4 DEF Send, Inv, CallInv, OwnAction, histories
  <2> QED
    BY <1>1, <1>3, <1>4, <1>5, <1>6, <1>7, <1>8, <2>1 DEF Send, CallInv, Idle
<1>11. WorkInv'
  BY <1>6, <1>7 DEF Inv, WorkInv, Names
<1>12. IdInv'
  <2>1. Known' = Known /\ UNCHANGED <<store, expected, ended, issued, subId>>
    BY DEF Send, Known, server, histories
  <2>2. \A v \in Connection : work'[v] # None => work'[v].req.names \in Known
    BY <1>1, <1>3, <1>6, <1>7 DEF Inv, IdInv, Names
  <2> QED
    BY <1>1, <1>3, <1>8, <2>1, <2>2 DEF Inv, IdInv, Names
<1> QED
  BY <1>9, <1>10, <1>11, <1>12 DEF Inv

\* A call ends.
LEMMA ReturnStep ==
  ASSUME Inv,
         SubscribeReturns \/ ExpiryReturns \/ UnsubscribeReturns \/ FaultReturns \/ Fails
  PROVE  Inv'
<1> USE DEF Inv
<1>1. Return
  BY DEF SubscribeReturns, ExpiryReturns, UnsubscribeReturns, FaultReturns, Fails
<1>2. /\ caller # None /\ caller \in Client /\ request \in Request /\ OwnAction(saved)
      /\ mine \in Connection /\ subId[caller] \in Known
  BY <1>1 DEF Return, CallInv, IdInv, Idle, TypeOK
<1>3. /\ action' = saved /\ caller' = None /\ request' = None /\ mine' = None /\ answer' = None
      /\ saved' = "own" /\ wrote' = None /\ unseen' = {} /\ spared' = FALSE
      /\ UNCHANGED <<headers, store, issued, aborted>>
  BY <1>1 DEF Return, ResetAction, server
<1>4. OwnAction(action)'
  BY <1>2, <1>3 DEF OwnAction
<1>5. CallInv'
  BY <1>3, <1>4 DEF CallInv, Idle
<1>6. /\ work' \in [Connection -> Work \cup {None}]
      /\ \A v \in Connection : work'[v] = None \/ work'[v] = work[v]
  <2>1. work' = work \/ work' = [work EXCEPT ![mine] = None]
    BY DEF SubscribeReturns, ExpiryReturns, UnsubscribeReturns, FaultReturns, Fails
  <2> QED
    BY <1>2, <2>1 DEF TypeOK
<1>7. WorkInv'
  BY <1>6 DEF WorkInv, Names
<1>8. /\ subId' \in [Client -> Id \cup {NoId}] /\ \A c \in Client : subId'[c] \in Known
      /\ expected' \in [Id -> SUBSET Stored]
      /\ \A j \in Id : expected'[j] # {} => j \in issued
      /\ ended' \subseteq Id /\ ended' \subseteq issued
  <2>1. CASE SubscribeReturns
    <3>1. answer # None /\ answer.type = "subscribe" /\ answer.id \in issued
      BY <2>1 DEF SubscribeReturns, Answered, IdInv
    <3> QED
      BY <2>1, <3>1, <1>2 DEF SubscribeReturns, IdInv, TypeOK, Known, Stored
  <2>2. CASE ExpiryReturns
    <3>1. answer # None /\ answer.type \in {"renew", "getStatus"}
      BY <2>2 DEF ExpiryReturns, Answered
    <3>2. request.names \in Id /\ request.names \in issued /\ answer.expires \in Stored
      BY <3>1, <1>2, ClientAssumption DEF CallInv, IdInv, Known, Idle
    <3> QED
      BY <2>2, <3>2, <1>2 DEF ExpiryReturns, IdInv, TypeOK, Known
  <2>3. CASE UnsubscribeReturns
    BY <2>3, <1>2, ClientAssumption DEF UnsubscribeReturns, IdInv, TypeOK, Known
  <2>4. CASE FaultReturns \/ Fails
    <3>1. LeavesUntold /\ UNCHANGED <<subId, ended>>
      BY <2>4 DEF FaultReturns, Fails
    <3>2. wrote # None => request.names \in Id /\ request.names \in issued /\ wrote \in Stored
      BY <1>2, ClientAssumption DEF CallInv, IdInv, Known, Idle, TypeOK
    <3>3. expected' \in [Id -> SUBSET Stored] /\ \A j \in Id : expected'[j] # {} => j \in issued
      BY <3>1, <3>2 DEF LeavesUntold, TypeOK, IdInv
    <3> QED
      BY <3>1, <3>3 DEF IdInv, TypeOK
  <2> QED
    BY <2>1, <2>2, <2>3, <2>4
<1>9. TypeOK'
  BY <1>2, <1>3, <1>6, <1>8 DEF TypeOK
<1>10. IdInv'
  BY <1>3, <1>6, <1>8 DEF IdInv, Idle, Known, Names
<1> QED
  BY <1>5, <1>7, <1>9, <1>10

LEMMA NoHeaders == << >> \in Seq(Id \cup {NoId}) /\ Len(<< >>) <= MaxHeaders
BY ClientAssumption

\* The application's own message, and the Subscribe that is not sent.
LEMMA OwnStep ==
  ASSUME Inv, SendEvent \/ \E c \in Client : SubscribeFails(c)
  PROVE  Inv'
<1>1. /\ Idle /\ UNCHANGED <<caller, saved, request, mine, answer, subId, work, store, issued>>
      /\ UNCHANGED <<expected, wrote, unseen, spared, ended>>
      /\ headers' = << >> \/ headers' = headers
      /\ action' = "own" \/ (aborted' /\ action' = "subscribe")
      /\ action' \in Call \cup {"own"} /\ aborted' \in BOOLEAN
  BY DEF SendEvent, SubscribeFails, call, server, Call
<1>2. TypeOK'
  BY <1>1, NoHeaders DEF Inv, TypeOK
<1>3. CallInv' /\ WorkInv'
  BY <1>1 DEF Inv, CallInv, WorkInv, Idle, OwnAction, Names
<1>4. IdInv'
  BY <1>1 DEF Inv, IdInv, Idle, Known, Names
<1> QED
  BY <1>2, <1>3, <1>4 DEF Inv

LEMMA InvInit == Init => Inv
<1> SUFFICES ASSUME Init PROVE Inv
  OBVIOUS
<1>1. TypeOK
  BY NoHeaders DEF Init, TypeOK
<1>2. CallInv /\ WorkInv
  BY <1>1 DEF Init, CallInv, WorkInv, Idle, OwnAction
<1>3. IdInv
  BY DEF Init, IdInv, Idle, Known
<1> QED
  BY <1>1, <1>2, <1>3 DEF Inv

\* Every step is a call, a step of the event source, or a return.
LEMMA StepKinds ==
  ASSUME Next
  PROVE  \/ \E c \in Client, o \in Call, e \in Expiry \cup {None} : Send(c, o, e)
         \/ \E w \in Connection : Handle(w)
         \/ SubscribeReturns \/ ExpiryReturns \/ UnsubscribeReturns \/ FaultReturns \/ Fails
         \/ SendEvent \/ \E c \in Client : SubscribeFails(c)
<1>1. {"subscribe", "renew", "getStatus", "unsubscribe"} \subseteq Call
  BY DEF Call
<1>2. ASSUME NEW c \in Client, Subscribe(c) \/ GetStatus(c) \/ Unsubscribe(c)
      PROVE  \E o \in Call, e \in Expiry \cup {None} : Send(c, o, e)
  BY <1>1, <1>2 DEF Subscribe, GetStatus, Unsubscribe
<1>3. ASSUME NEW c \in Client, NEW e \in Expiry \cup {None}, Renew(c, e)
      PROVE  \E o \in Call : Send(c, o, e)
  BY <1>1, <1>3 DEF Renew
<1> QED
  BY <1>2, <1>3 DEF Next

LEMMA InvStep == Inv /\ [Next]_vars => Inv'
<1> SUFFICES ASSUME Inv, [Next]_vars PROVE Inv'
  OBVIOUS
<1>1. CASE UNCHANGED vars
  BY <1>1 DEF Inv, TypeOK, CallInv, WorkInv, IdInv, Idle, OwnAction, Known, Names, vars, svcClient,
              call, server, histories
<1>2. CASE Next
  BY <1>2, StepKinds, SendStep, HandleStep, ReturnStep, OwnStep
<1> QED
  BY <1>1, <1>2

\* The client library and the event source keep to their types, whatever fails:
\* what is stored is always an expiry that was given or asked for.
THEOREM TypeCorrect == Spec => []TypeOK
<1>1. Spec => []Inv
  BY InvInit, InvStep, PTL DEF Spec
<1>2. Inv => TypeOK
  BY DEF Inv
<1> QED
  BY <1>1, <1>2, PTL

\* A call before which the application removes the headers is about the
\* subscription of the struct it is called with.
THEOREM RequestIsOwn == Spec => []RequestNamesSubscription
<1>1. Spec => []Inv
  BY InvInit, InvStep, PTL DEF Spec
<1>2. Inv => RequestNamesSubscription
  BY DEF Inv, CallInv, RequestNamesSubscription
<1> QED
  BY <1>1, <1>2, PTL

\* Between the calls the action option is the application's own, and a message of
\* its own is not taken for a request, unless a Subscribe could not make its
\* message.
THEOREM EventStaysEvent == Spec => []EventIsEvent
<1>1. Spec => []Inv
  BY InvInit, InvStep, PTL DEF Spec
<1>2. Inv => EventIsEvent
  BY DEF Inv, CallInv, OwnAction, EventIsEvent
<1> QED
  BY <1>1, <1>2, PTL

-----------------------------------------------------------------------------
(* The end of a subscription.                                               *)

\* A row that is gone stays gone, if its identifier was given out.
LEMMA GoneStays ==
  ASSUME Inv, Next, NEW i \in issued, store[i] = NoRow
  PROVE  store'[i] = NoRow
<1>1. i \in Id
  BY DEF Inv, TypeOK
<1>2. ASSUME NEW w \in Connection, Handle(w) PROVE store'[i] = NoRow
  BY <1>1, <1>2, HandleIs, RowStep
<1>3. ASSUME NEW c, NEW o, NEW e, Send(c, o, e) PROVE store' = store
  BY <1>3 DEF Send, server
<1>4. CASE SubscribeReturns \/ ExpiryReturns \/ UnsubscribeReturns \/ FaultReturns \/ Fails
  BY <1>4 DEF SubscribeReturns, ExpiryReturns, UnsubscribeReturns, FaultReturns, Fails, Return, server
<1>5. CASE SendEvent \/ \E c \in Client : SubscribeFails(c)
  BY <1>5 DEF SendEvent, SubscribeFails, server
<1> QED
  BY <1>2, <1>3, <1>4, <1>5, StepKinds

\* What the step of an Unsubscribe that is waited for leaves.
LEMMA UnsubscribeStep ==
  ASSUME Inv, GoneInv, NEW w \in Connection, Handle(w), w = mine,
         request.type = "unsubscribe", request.names \in Id, ~spared',
         answer' # None \/ (work'[w] # None /\ work'[w].at = "look")
  PROVE  store'[request.names] = NoRow
<1>1. work[w] # None
  BY HandleIs DEF Worked
<1>2. /\ ~Idle /\ answer = None /\ work[w].req = request /\ Names(w) = request.names
      /\ work[w] \in Work
  BY <1>1, MineIs DEF Names, Inv, TypeOK
<1>3. CASE FindUnsubscribed(w)
  <2>1. UNCHANGED store
    BY <1>3 DEF FindUnsubscribed, server
  <2>2. CASE answer' # None
    <3>1. ~HasRow(w)
      BY <1>3, <2>2 DEF FindUnsubscribed
    <3> QED
      BY <1>2, <2>1, <3>1 DEF HasRow
  <2>3. CASE answer' = None
    <3>1. work'[w] # None /\ work'[w].at = "look"
      BY <2>3
    <3>2. ASSUME GoesOn(w, "write", None) PROVE FALSE
      BY <1>1, <3>1, <3>2, GoesOnIs
    <3>3. ASSUME Answers(w, Fault) PROVE FALSE
      BY <3>1, <3>3, AnswerTypes, AnswersIs
    <3> QED
      BY <1>3, <3>2, <3>3 DEF FindUnsubscribed
  <2> QED
    BY <2>2, <2>3
<1>4. CASE RemoveSubscriber(w)
  <2>1. CASE store' = [store EXCEPT ![Names(w)] = NoRow]
    BY <1>2, <2>1 DEF Inv, TypeOK
  <2>2. CASE spared' = HasRow(w) /\ UNCHANGED store
    BY <1>2, <2>2 DEF HasRow
  <2> QED
    BY <1>4, <2>1, <2>2 DEF RemoveSubscriber
<1>5. CASE HandleUnsubRequest(w)
  BY <1>2, <1>5 DEF HandleUnsubRequest, At, GoneInv, server, histories
<1>6. CASE \/ HandleSubscribe(w) \/ RenewSubscription(w) \/ UpdateSubscriber(w)
           \/ HandleRenewRequest(w) \/ HandleGetStatusRequest(w)
  BY <1>2, <1>6 DEF HandleSubscribe, RenewSubscription, UpdateSubscriber, HandleRenewRequest,
                    HandleGetStatusRequest, At
<1> QED
  BY <1>3, <1>4, <1>5, <1>6 DEF Handle

LEMMA GoneStep ==
  ASSUME Inv, GoneInv, [Next]_vars
  PROVE  GoneInv'
<1>1. CASE UNCHANGED vars
  BY <1>1 DEF GoneInv, Idle, vars, call, server, histories
<1>2. ASSUME NEW w \in Connection, Handle(w) PROVE GoneInv'
  <2>1. Worked(w) /\ UNCHANGED <<caller, request, mine>>
    BY <1>2, HandleIs DEF call
  <2>2. CASE w = mine
    BY <1>2, <2>1, <2>2, UnsubscribeStep DEF GoneInv
  <2>3. CASE w # mine
    <3>1. spared' = spared
      BY <1>2, <2>3 DEF Handle, HandleSubscribe, FindUnsubscribed, RemoveSubscriber, HandleUnsubRequest,
                        RenewSubscription, UpdateSubscriber, HandleRenewRequest,
                        HandleGetStatusRequest, histories
    <3>2. answer' = answer
      BY <2>1, <2>3 DEF Worked
    <3> SUFFICES ASSUME ~Idle, request.type = "unsubscribe", request.names \in Id, ~spared,
                        answer # None \/ (work'[mine] # None /\ work'[mine].at = "look")
                 PROVE  store'[request.names] = NoRow
      BY <2>1, <3>1, <3>2 DEF GoneInv, Idle
    <3>3. mine \in Connection /\ request.names \in issued
      BY ClientAssumption DEF Inv, CallInv, IdInv, Known
    <3>4. work'[mine] = work[mine]
      BY <2>1, <2>3, <3>3 DEF Worked
    <3>5. store[request.names] = NoRow
      BY <3>4 DEF GoneInv
    <3> QED
      BY <1>2, <3>3, <3>5, GoneStays DEF Next
  <2> QED
    BY <2>2, <2>3
<1>3. ASSUME NEW c, NEW o, NEW e, Send(c, o, e) PROVE GoneInv'
  <2>1. answer' = None
    BY <1>3 DEF Send, Inv, CallInv
  <2>2. PICK w \in Connection : mine' = w /\ work' = [work EXCEPT ![w] = Arrived(request')]
    BY <1>3 DEF Send
  <2>3. work'[mine'] = Arrived(request') /\ Arrived(request').at = "arrived"
    BY <2>2 DEF Arrived, Inv, TypeOK
  <2> QED
    BY <2>1, <2>3 DEF GoneInv
<1>4. CASE SubscribeReturns \/ ExpiryReturns \/ UnsubscribeReturns \/ FaultReturns \/ Fails
  BY <1>4 DEF SubscribeReturns, ExpiryReturns, UnsubscribeReturns, FaultReturns, Fails, Return,
              GoneInv, Idle
<1>5. CASE SendEvent \/ \E c \in Client : SubscribeFails(c)
  BY <1>5 DEF SendEvent, SubscribeFails, GoneInv, Idle, call
<1> QED
  BY <1>1, <1>2, <1>3, <1>4, <1>5, StepKinds

LEMMA EndStep ==
  ASSUME UnsubscribeClears, Inv, GoneInv, UnsubscribeEnds, [Next]_vars
  PROVE  UnsubscribeEnds'
<1>1. CASE UNCHANGED vars
  BY <1>1 DEF UnsubscribeEnds, vars, server, histories
<1>2. CASE Next
  <2>1. ASSUME NEW i \in ended PROVE store'[i] = NoRow
    BY <1>2, <2>1, GoneStays DEF UnsubscribeEnds, Inv, TypeOK, IdInv
  <2>2. CASE UnsubscribeReturns /\ ~spared
    <3>1. /\ ~Idle /\ answer # None /\ request.type = "unsubscribe"
          /\ ended' = ended \cup ({subId[caller]} \cap Id) /\ store' = store
      BY <2>2 DEF UnsubscribeReturns, Return, Idle, server
    <3>2. request.names = subId[caller]
      BY <3>1 DEF Inv, CallInv, UnsubscribeClears
    <3>3. subId[caller] \in Id => store[subId[caller]] = NoRow
      BY <2>2, <3>1, <3>2 DEF GoneInv
    <3> QED
      BY <2>1, <3>1, <3>3 DEF UnsubscribeEnds
  <2>3. CASE ended' = ended
    BY <2>1, <2>3 DEF UnsubscribeEnds
  <2>4. ASSUME NEW c, NEW o, NEW e, Send(c, o, e) PROVE ended' = ended
    BY <2>4 DEF Send, histories
  <2>5. CASE SubscribeReturns \/ ExpiryReturns \/ FaultReturns \/ Fails \/ (UnsubscribeReturns /\ spared)
    <3>1. ended' = ended
      BY <2>5 DEF SubscribeReturns, ExpiryReturns, FaultReturns, Fails, UnsubscribeReturns
    <3> QED
      BY <3>1, <2>3
  <2>6. ASSUME NEW w \in Connection, Handle(w) PROVE ended' = ended
    BY <2>6, HandleIs
  <2>7. CASE SendEvent \/ \E c \in Client : SubscribeFails(c)
    <3>1. ended' = ended
      BY <2>7 DEF SendEvent, SubscribeFails
    <3> QED
      BY <3>1, <2>3
  <2> QED
    BY <1>2, <2>2, <2>3, <2>4, <2>5, <2>6, <2>7, StepKinds
<1> QED
  BY <1>1, <1>2

\* When Unsubscribe has returned a success the subscription is gone for good, unless
\* the event source failed to remove it or to find it: if the application removes
\* the headers before it, and whatever else fails or is late.
THEOREM UnsubscribedIsGone == UnsubscribeClears /\ Spec => []UnsubscribeEnds
<1> SUFFICES ASSUME UnsubscribeClears PROVE Spec => []UnsubscribeEnds
  OBVIOUS
<1>1. Init => GoneInv /\ UnsubscribeEnds
  BY DEF Init, GoneInv, UnsubscribeEnds, Idle
<1>2. Spec => []Inv
  BY InvInit, InvStep, PTL DEF Spec
<1>3. Inv /\ GoneInv /\ UnsubscribeEnds /\ [Next]_vars => (GoneInv /\ UnsubscribeEnds)'
  BY GoneStep, EndStep
<1> QED
  BY <1>1, <1>2, <1>3, PTL DEF Spec

\* No removal and no select fails.
RemovalsWork == Faults \cap {"remove", "retrieve"} = {}

\* Then no Unsubscribe is left out of UnsubscribeEnds: each one that is a success
\* has ended its subscription, a fault for a missing one included.
THEOREM NothingSpared == RemovalsWork /\ Spec => []~spared
<1> SUFFICES ASSUME RemovalsWork PROVE Spec => []~spared
  OBVIOUS
<1>1. Init => ~spared
  BY DEF Init
<1>2. ASSUME Inv, ~spared, [Next]_vars PROVE ~spared'
  <2>1. CASE UNCHANGED spared
    BY <1>2, <2>1
  <2>2. ASSUME NEW w \in Connection, Handle(w) PROVE ~spared'
    <3>1. CASE FindUnsubscribed(w) /\ w = mine
      <4>1. work[w] # None
        BY <3>1 DEF FindUnsubscribed, At
      <4>2. answer = None
        BY <1>2, <3>1, <4>1, MineIs
      <4>3. PICK row \in Retrieve(Names(w)) :
              row = NoRow \/ (row # NoRow /\ answer' = answer)
        BY <3>1 DEF FindUnsubscribed, GoesOn
      <4>4. Names(w) \in Id => row = store[Names(w)]
        BY DEF RemovalsWork, Retrieve
      <4>5. answer' = None \/ ~HasRow(w)
        BY <4>2, <4>3, <4>4 DEF HasRow
      <4> QED
        BY <3>1, <4>5 DEF FindUnsubscribed
    <3>2. CASE FindUnsubscribed(w) /\ w # mine
      BY <1>2, <3>2 DEF FindUnsubscribed
    <3>3. CASE RemoveSubscriber(w)
      BY <1>2, <3>3 DEF RemoveSubscriber, RemovalsWork
    <3>4. CASE \/ HandleSubscribe(w) \/ HandleUnsubRequest(w) \/ RenewSubscription(w)
               \/ UpdateSubscriber(w) \/ HandleRenewRequest(w) \/ HandleGetStatusRequest(w)
      BY <1>2, <3>4 DEF HandleSubscribe, HandleUnsubRequest, RenewSubscription, UpdateSubscriber,
                        HandleRenewRequest, HandleGetStatusRequest, histories
    <3> QED
      BY <2>2, <3>1, <3>2, <3>3, <3>4 DEF Handle
  <2>3. ASSUME NEW c, NEW o, NEW e, Send(c, o, e) PROVE UNCHANGED spared
    BY <2>3 DEF Send, histories
  <2>4. CASE SubscribeReturns \/ ExpiryReturns \/ UnsubscribeReturns \/ FaultReturns \/ Fails
    BY <2>4 DEF SubscribeReturns, ExpiryReturns, UnsubscribeReturns, FaultReturns, Fails, Return
  <2>5. CASE SendEvent \/ \E c \in Client : SubscribeFails(c)
    BY <1>2, <2>5 DEF SendEvent, SubscribeFails
  <2>6. CASE UNCHANGED vars
    BY <1>2, <2>6 DEF vars, histories
  <2> QED
    BY <1>2, <2>1, <2>2, <2>3, <2>4, <2>5, <2>6, StepKinds
<1>3. Spec => []Inv
  BY InvInit, InvStep, PTL DEF Spec
<1> QED
  BY <1>1, <1>2, <1>3, PTL DEF Spec

-----------------------------------------------------------------------------
(* What the application knows of the expiry.                                *)

\* Who is to learn of the expiry that a step of the event source leaves.
LEMMA ExpiryRow ==
  ASSUME Inv, NEW w \in Connection, Handle(w), NEW i \in Id
  PROVE  /\ expected[i] \subseteq expected'[i] /\ unseen \subseteq unseen'
         /\ expected'[i] = expected[i] \/ store'[i] \in expected'[i]
         /\ wrote' = wrote \/ store'[i] = wrote' \/ i # request.names
         /\ \/ store'[i] \in {store[i], NoRow}
            \/ i \notin issued /\ expected'[i] = expected[i]
            \/ ~Idle /\ i = request.names /\ wrote' = store'[i] /\ answer' = None
            \/ /\ store'[i] \in expected'[i]
               /\ answer # None /\ request.names = i => store'[i] \in unseen'
<1>1. Rows(w) /\ work[w] # None
  BY HandleIs DEF Worked
<1>2. CASE UNCHANGED <<expected, wrote, unseen>> /\ (store'[i] \in {store[i], NoRow} \/ i \notin issued)
  BY <1>2
<1>3. CASE /\ store'[i] = IF i = Names(w) THEN work[w].row ELSE store[i]
           /\ Names(w) \in Id /\ work[w].row \in Stored
           /\ Wrote(w, work[w].row) /\ UNCHANGED answer
  <2>1. work[w].row # NoRow
    BY <1>3, ClientAssumption DEF Stored
  <2>2. CASE w = mine
    <3>1. wrote' = work[w].row /\ UNCHANGED <<expected, unseen>>
      BY <1>3, <2>1, <2>2 DEF Wrote
    <3>2. ~Idle /\ answer = None /\ request.names = Names(w)
      BY <1>1, <2>2, MineIs DEF Names
    <3> QED
      BY <1>3, <3>1, <3>2
  <2>3. CASE w # mine
    <3>1. /\ expected' = [expected EXCEPT ![Names(w)] = @ \cup {work[w].row}]
          /\ unseen' = IF answer # None /\ request.names = Names(w)
                       THEN unseen \cup {work[w].row} ELSE unseen
          /\ UNCHANGED wrote
      BY <1>3, <2>1, <2>3 DEF Wrote
    <3>2. expected \in [Id -> SUBSET Stored]
      BY DEF Inv, TypeOK
    <3>3. CASE i = Names(w)
      BY <1>3, <3>1, <3>2, <3>3
    <3>4. CASE i # Names(w)
      BY <1>3, <3>1, <3>2, <3>4
    <3> QED
      BY <3>3, <3>4
  <2> QED
    BY <2>2, <2>3
<1> QED
  BY <1>1, <1>2, <1>3, RowStep

LEMMA ExpiryHandleStep ==
  ASSUME Inv, ExpiryInv, NEW w \in Connection, Handle(w)
  PROVE  ExpiryInv'
<1>1. Worked(w) /\ UNCHANGED <<caller, request>>
  BY HandleIs DEF call
<1>2. w = mine => work[w].req = request
  BY <1>1, MineIs DEF Worked
<1>3. ASSUME answer' # None, answer'.type = "subscribe"
      PROVE  store'[answer'.id] \in {Never, NoRow} \cup expected'[answer'.id]
  <2>1. CASE answer' = answer
    <3>1. answer.id \in Id /\ answer.id \in issued
      BY <1>3, <2>1 DEF Inv, CallInv, IdInv
    <3> QED
      BY <1>3, <2>1, <3>1, ExpiryRow DEF ExpiryInv
  <2>2. CASE answer' # answer
    BY <1>1, <1>3, <2>2 DEF Worked
  <2> QED
    BY <2>1, <2>2
<1>4. ASSUME answer' # None, answer'.type \in {"renew", "getStatus"}
      PROVE  store'[request.names] \in {answer'.expires, NoRow} \cup unseen'
  <2>1. CASE answer' = answer
    <3>1. request.names \in Id /\ request.names \in issued
      BY <1>4, <2>1, ClientAssumption DEF Inv, CallInv, IdInv, Known
    <3> QED
      BY <1>4, <2>1, <3>1, ExpiryRow DEF ExpiryInv
  <2>2. CASE answer' # answer
    BY <1>1, <1>2, <1>4, <2>2 DEF Worked, Names
  <2> QED
    BY <2>1, <2>2
<1>5. ASSUME NEW i \in Id, store'[i] # NoRow, expected'[i] # {}
      PROVE  \/ store'[i] \in expected'[i]
             \/ ~Idle /\ request.names = i /\ wrote' = store'[i]
  <2> SUFFICES ASSUME store'[i] \notin expected'[i]
               PROVE  ~Idle /\ request.names = i /\ wrote' = store'[i]
    OBVIOUS
  <2>1. expected'[i] = expected[i] /\ (wrote' = wrote \/ store'[i] = wrote' \/ i # request.names)
    BY ExpiryRow
  <2>2. i \in issued
    BY <1>5, <2>1 DEF Inv, IdInv
  <2>3. CASE store'[i] = store[i]
    BY <1>5, <2>1, <2>3 DEF ExpiryInv, ExpiryIsKnown
  <2> QED
    BY <1>5, <2>2, <2>3, ExpiryRow
<1>6. ASSUME wrote' # None
      PROVE  store'[request.names] \in {wrote', NoRow} \cup expected'[request.names]
  <2>1. Inv'
    BY HandleStep
  <2>2. request.names \in Id /\ ~Idle
    BY <1>1, <1>6, <2>1 DEF Inv, CallInv, Idle
  <2>3. CASE wrote' = wrote
    <3>1. request.names \in issued
      BY <2>2, ClientAssumption DEF Inv, IdInv, Known
    <3> QED
      BY <1>6, <2>2, <2>3, <3>1, ExpiryRow DEF ExpiryInv
  <2>4. CASE wrote' # wrote
    BY <2>2, <2>4, ExpiryRow
  <2> QED
    BY <2>3, <2>4
<1>7. Idle' = Idle
  BY <1>1 DEF Idle
<1> QED
  BY <1>1, <1>3, <1>4, <1>5, <1>6, <1>7 DEF ExpiryInv, ExpiryIsKnown

LEMMA ExpiryReturnStep ==
  ASSUME Inv, ExpiryInv,
         SubscribeReturns \/ ExpiryReturns \/ UnsubscribeReturns \/ FaultReturns \/ Fails
  PROVE  ExpiryInv'
<1>1. ~Idle /\ answer' = None /\ wrote' = None /\ store' = store
  BY DEF SubscribeReturns, ExpiryReturns, UnsubscribeReturns, FaultReturns, Fails, Return, Idle, server
<1>2. ASSUME NEW i \in Id, store[i] # NoRow, expected'[i] # {}
      PROVE  store[i] \in expected'[i]
  <2>1. store[i] \in Stored /\ store[i] # None /\ expected \in [Id -> SUBSET Stored]
    BY <1>2, ClientAssumption DEF Inv, TypeOK, Stored
  <2>2. \/ expected[i] = {} \/ store[i] \in expected[i]
        \/ request.names = i /\ wrote = store[i]
    BY <1>2 DEF ExpiryInv, ExpiryIsKnown
  <2>3. wrote # None => request.type = "renew" /\ request.names \in Id
    BY DEF Inv, CallInv
  <2>4. CASE SubscribeReturns
    <3>1. /\ answer # None /\ answer.type = "subscribe" /\ request.type = "subscribe"
          /\ answer.id \in Id
          /\ expected' = [expected EXCEPT ![answer.id] = @ \cup {Never}]
      BY <2>4 DEF SubscribeReturns, Answered, Inv, CallInv
    <3>2. CASE i = answer.id
      BY <1>2, <2>1, <3>1, <3>2 DEF ExpiryInv
    <3>3. CASE i # answer.id
      BY <1>2, <2>1, <2>2, <2>3, <3>1, <3>3
    <3> QED
      BY <3>2, <3>3
  <2>5. CASE ExpiryReturns
    <3>1. /\ answer # None /\ answer.type \in {"renew", "getStatus"}
          /\ expected' = [expected EXCEPT ![request.names] = {answer.expires} \cup unseen]
      BY <2>5 DEF ExpiryReturns, Answered
    <3>2. CASE i = request.names
      BY <1>2, <2>1, <3>1, <3>2 DEF ExpiryInv
    <3>3. CASE i # request.names
      BY <1>2, <2>1, <2>2, <3>1, <3>3
    <3> QED
      BY <3>2, <3>3
  <2>6. CASE UnsubscribeReturns
    BY <1>2, <2>1, <2>2, <2>3, <2>6 DEF UnsubscribeReturns
  <2>7. CASE FaultReturns \/ Fails
    <3>1. LeavesUntold
      BY <2>7 DEF FaultReturns, Fails
    <3>2. CASE wrote = None
      BY <1>2, <2>1, <2>2, <3>1, <3>2 DEF LeavesUntold
    <3>3. CASE wrote # None /\ i = request.names
      <4>1. expected'[i] = expected[i] \cup {wrote}
        BY <2>1, <3>1, <3>3 DEF LeavesUntold
      <4>2. store[i] \in {wrote} \cup expected[i]
        BY <1>2, <3>3 DEF ExpiryInv
      <4> QED
        BY <4>1, <4>2
    <3>4. CASE wrote # None /\ i # request.names
      BY <1>2, <2>1, <2>2, <3>1, <3>4 DEF LeavesUntold
    <3> QED
      BY <3>2, <3>3, <3>4
  <2> QED
    BY <2>4, <2>5, <2>6, <2>7
<1> QED
  BY <1>1, <1>2 DEF ExpiryInv, ExpiryIsKnown

LEMMA ExpiryStep ==
  ASSUME Inv, ExpiryInv, [Next]_vars
  PROVE  ExpiryInv'
<1>1. CASE UNCHANGED <<caller, request, answer, store, expected, wrote, unseen>>
  BY <1>1 DEF ExpiryInv, ExpiryIsKnown, Idle
<1>2. ASSUME NEW c \in Client, NEW o, NEW e, Send(c, o, e) PROVE ExpiryInv'
  <2>1. answer' = None /\ wrote' = None /\ Idle /\ UNCHANGED <<store, expected>>
    BY <1>2 DEF Send, Inv, CallInv, server, histories
  <2>2. ASSUME NEW i \in Id, store[i] # NoRow, expected[i] # {} PROVE store[i] \in expected[i]
    BY <2>1, <2>2 DEF ExpiryInv, ExpiryIsKnown
  <2> QED
    BY <2>1, <2>2 DEF ExpiryInv, ExpiryIsKnown
<1>3. CASE SendEvent \/ \E c \in Client : SubscribeFails(c)
  BY <1>1, <1>3 DEF SendEvent, SubscribeFails, call, server
<1>4. CASE UNCHANGED vars
  BY <1>1, <1>4 DEF vars, call, server, histories
<1> QED
  BY <1>2, <1>3, <1>4, ExpiryHandleStep, ExpiryReturnStep, StepKinds

\* The expiry a call returned last is the one the subscription has, but for what
\* Renews have written since whose callers got no RenewResponse: those that came
\* late, and those that got a fault for an update that was stored.
THEOREM ExpiryStaysKnown == Spec => []ExpiryIsKnown
<1>1. Init => ExpiryInv
  BY DEF Init, ExpiryInv, ExpiryIsKnown
<1>2. Spec => []Inv
  BY InvInit, InvStep, PTL DEF Spec
<1>3. Inv /\ ExpiryInv /\ [Next]_vars => ExpiryInv'
  BY ExpiryStep
<1>4. ExpiryInv => ExpiryIsKnown
  BY DEF ExpiryInv
<1> QED
  BY <1>1, <1>2, <1>3, <1>4, PTL DEF Spec

=============================================================================
