-------------------------- MODULE EventSource_proofs --------------------------
(***************************************************************************)
(* Proofs, for every set of workers, identifiers and expiries, of what the *)
(* runs of MCEventSource check on small ones.                              *)
(***************************************************************************)
EXTENDS EventSource, FiniteSetTheorems, TLAPS

MessageType == {"subscribe", "event", "unsubscribe", "renew", "getStatus"}

\* Whatever message arrives, its arrival is a Receive.
LEMMA ArrivalIsReceive ==
  ASSUME TypeOK, NEW w \in Worker, Arrival(w)
  PROVE  \E type \in MessageType, i \in Id \cup {NoId}, e \in RenewAsks \cup {None} :
            /\ type = "renew" => e \in RenewAsks
            /\ Receive(w, type, i, e)
<1>1. CASE ReceiveSubscribe(w)
  BY <1>1 DEF ReceiveSubscribe, MessageType
<1>2. CASE ReceiveEvent(w)
  BY <1>2 DEF ReceiveEvent, MessageType
<1>3. ASSUME NEW i \in known \cup {NoId}, ReceiveUnsubscribe(w, i) \/ ReceiveGetStatus(w, i)
      PROVE  \E type \in MessageType, j \in Id \cup {NoId}, e \in RenewAsks \cup {None} :
               /\ type = "renew" => e \in RenewAsks
               /\ Receive(w, type, j, e)
  BY <1>3 DEF ReceiveUnsubscribe, ReceiveGetStatus, MessageType, TypeOK
<1>4. ASSUME NEW i \in known \cup {NoId}, NEW f \in RenewAsks, ReceiveRenew(w, i, f)
      PROVE  \E type \in MessageType, j \in Id \cup {NoId}, e \in RenewAsks \cup {None} :
               /\ type = "renew" => e \in RenewAsks
               /\ Receive(w, type, j, e)
  BY <1>4 DEF ReceiveRenew, MessageType, TypeOK
<1> QED
  BY <1>1, <1>2, <1>3, <1>4 DEF Arrival

-----------------------------------------------------------------------------
(* Types and identifiers.  TypeOK is not inductive by itself: a message that *)
(* is past its first store access must have an identifier that was given     *)
(* out, and to know that, every row must have one.                           *)

\* Where a worker holds on to a row it has seen or added.
Committed == {"subReply", "remove", "unsubReply", "update", "renewReply"}

IdInv ==
  /\ TypeOK
  /\ \A i \in Id : store[i] # NoRow => i \in issued
  /\ known \cup ended \cup withdrawn \subseteq issued
  /\ \A w \in Worker : pc[w] \in Committed => target[w] \in issued
  /\ \A w \in Worker : pc[w] # "idle" => reply[w] = "none"

\* No row but that of the identifier a Subscribe generates appears, and only
\* the row of the message's own identifier changes.
LEMMA IdInvHandle ==
  ASSUME IdInv, NEW w \in Worker, Handle(w)
  PROVE  IdInv'
<1> USE EventSourceAssumption DEF IdInv, Committed, TypeOK, PC, Reply, Stored, Goto
<1>1. CASE Subscribe(w)
  BY <1>1 DEF Subscribe, FreshId, AddSubscriber, Reject, Fault, Answer
<1>2. CASE HandleSubRequest(w)
  BY <1>2 DEF HandleSubRequest, Answer
<1>3. CASE Unsubscribe(w)
  BY <1>3 DEF Unsubscribe, Retrieve, Fault, Answer, histories
<1>4. CASE RemoveSubscriber(w)
  BY <1>4 DEF RemoveSubscriber
<1>5. CASE HandleUnsubRequest(w)
  BY <1>5 DEF HandleUnsubRequest, Fault, Answer
<1>6. CASE RenewSubscription(w)
  BY <1>6 DEF RenewSubscription, RenewedExpiry, Retrieve, Fault, Answer, histories
<1>7. CASE UpdateSubscriber(w)
  <2>1. /\ target[w] \in issued
        /\ store' \in [Id -> Stored \cup {NoRow}]
        /\ \A i \in Id : store'[i] # NoRow => i \in issued
    BY <1>7 DEF UpdateSubscriber, UpdatedRow
  <2>2. renewed' \in [Worker -> BOOLEAN]
    BY <1>7 DEF UpdateSubscriber
  <2>3. promised' \in [Id -> Stored \cup {None}]
    BY <1>7 DEF UpdateSubscriber
  <2>4. /\ pc' \in [Worker -> PC]
        /\ reply' \in [Worker -> Reply]
        /\ answer' \in [Worker -> Stored \cup {None}]
        /\ \A v \in Worker : pc'[v] \in Committed => target[v] \in issued
        /\ \A v \in Worker : pc'[v] # "idle" => reply'[v] = "none"
    BY <1>7 DEF UpdateSubscriber, Fault, Answer
  <2> QED
    BY <1>7, <2>1, <2>2, <2>3, <2>4 DEF UpdateSubscriber
<1>8. CASE HandleRenewRequest(w)
  BY <1>8 DEF HandleRenewRequest, Retrieve, Fault, Answer
<1>9. CASE HandleGetStatusRequest(w)
  BY <1>9 DEF HandleGetStatusRequest, Retrieve, Fault, Answer, histories
<1>10. CASE HandleEvent(w)
  BY <1>10 DEF HandleEvent, Rows
<1>11. ASSUME NEW i \in Id, PublishToSubscriber(w, i) PROVE IdInv'
  BY <1>11 DEF PublishToSubscriber, Visited
<1>12. CASE EndPublish(w)
  BY <1>12 DEF EndPublish, Answer, histories
<1> QED
  BY <1>1, <1>2, <1>3, <1>4, <1>5, <1>6, <1>7, <1>8, <1>9, <1>10, <1>11, <1>12 DEF Handle

\* The identifiers a worker and the clients hold were generated by Subscribe,
\* and so was that of every row.
THEOREM IdInvCorrect == Spec => []IdInv
<1>1. Init => IdInv
  BY EventSourceAssumption DEF Init, IdInv, Committed, TypeOK, PC, Reply, Stored
<1>2. IdInv /\ [Next]_vars => IdInv'
  <2> SUFFICES ASSUME IdInv, [Next]_vars PROVE IdInv'
    OBVIOUS
  <2>1. ASSUME NEW w \in Worker, Arrival(w) PROVE IdInv'
    <3>1. PICK type \in MessageType, i \in Id \cup {NoId}, e \in RenewAsks \cup {None} :
            Receive(w, type, i, e)
      BY <2>1, ArrivalIsReceive DEF IdInv
    <3> QED
      BY <3>1, EventSourceAssumption
      DEF Receive, IdInv, Committed, TypeOK, MessageType, PC, Reply, Stored
  <2>2. CASE Crash
    BY <2>2, EventSourceAssumption DEF Crash, IdInv, Committed, TypeOK, PC, Reply, Stored
  <2>3. CASE UNCHANGED vars
    BY <2>3 DEF vars, handling, histories, IdInv, TypeOK
  <2> QED
    BY <2>1, <2>2, <2>3, IdInvHandle DEF Next
<1> QED
  BY <1>1, <1>2, PTL DEF Spec

\* Every variable keeps to the values the code's data can take.
THEOREM TypeCorrect == Spec => []TypeOK
<1>1. IdInv => TypeOK
  BY DEF IdInv
<1> QED
  BY <1>1, IdInvCorrect, PTL

-----------------------------------------------------------------------------
(* What no step does to the store and to the histories.                     *)

\* Histories only grow, a row disappears only when its removal is asked for,
\* and the row of an identifier that was given out does not appear.
Kept ==
  /\ issued \subseteq issued' /\ known \subseteq known'
  /\ ended \subseteq ended' /\ withdrawn \subseteq withdrawn'
  /\ \A i \in Id : store[i] # NoRow => store'[i] # NoRow \/ i \in withdrawn'
  /\ \A i \in issued : store[i] = NoRow => store'[i] = NoRow

\* One message step.
LEMMA KeptHandle ==
  ASSUME IdInv, NEW w \in Worker, Handle(w)
  PROVE  Kept
<1> USE EventSourceAssumption DEF Kept, IdInv, Committed, TypeOK, Stored, Goto
<1>1. CASE Subscribe(w)
  BY <1>1 DEF Subscribe, FreshId, AddSubscriber, Reject, Fault, Answer
<1>2. CASE HandleSubRequest(w)
  BY <1>2 DEF HandleSubRequest, Answer
<1>3. CASE Unsubscribe(w)
  BY <1>3 DEF Unsubscribe, Fault, Answer, histories
<1>4. CASE RemoveSubscriber(w)
  BY <1>4 DEF RemoveSubscriber
<1>5. CASE HandleUnsubRequest(w)
  BY <1>5 DEF HandleUnsubRequest, Fault, Answer
<1>6. CASE RenewSubscription(w)
  BY <1>6 DEF RenewSubscription, Fault, Answer, histories
<1>7. CASE UpdateSubscriber(w)
  BY <1>7 DEF UpdateSubscriber, UpdatedRow, Fault, Answer
<1>8. CASE HandleRenewRequest(w)
  BY <1>8 DEF HandleRenewRequest, Fault, Answer
<1>9. CASE HandleGetStatusRequest(w)
  BY <1>9 DEF HandleGetStatusRequest, Fault, Answer, histories
<1>10. CASE HandleEvent(w)
  BY <1>10 DEF HandleEvent
<1>11. ASSUME NEW i \in Id, PublishToSubscriber(w, i) PROVE Kept
  BY <1>11 DEF PublishToSubscriber, Visited
<1>12. CASE EndPublish(w)
  BY <1>12 DEF EndPublish, Answer, histories
<1> QED
  BY <1>1, <1>2, <1>3, <1>4, <1>5, <1>6, <1>7, <1>8, <1>9, <1>10, <1>11, <1>12 DEF Handle

\* Every step.
LEMMA KeptNext ==
  ASSUME IdInv, [Next]_vars
  PROVE  Kept
<1>1. ASSUME NEW w \in Worker, Arrival(w) PROVE Kept
  BY <1>1, ArrivalIsReceive DEF Receive, Kept, IdInv
<1>2. CASE Crash
  BY <1>2 DEF Crash, Kept
<1>3. CASE UNCHANGED vars
  BY <1>3 DEF vars, histories, Kept
<1> QED
  BY <1>1, <1>2, <1>3, KeptHandle DEF Next

\* A removed row never comes back, whatever copies of it are in flight.
THEOREM RemovedStaysRemoved == Spec => NoResurrection
<1>1. IdInv /\ [Next]_vars => [\A i \in issued : store[i] = NoRow => store'[i] = NoRow]_vars
  BY KeptNext DEF Kept
<1> QED
  BY <1>1, IdInvCorrect, PTL DEF Spec, NoResurrection

-----------------------------------------------------------------------------
(* What was acknowledged is stored.                                         *)

AckInv ==
  /\ \A i \in known : store[i] # NoRow \/ i \in withdrawn
  /\ \A w \in Worker :
       pc[w] = "subReply" => store[target[w]] # NoRow \/ target[w] \in withdrawn

\* One message step.
LEMMA AckInvHandle ==
  ASSUME IdInv, Kept, AckInv, NEW w \in Worker, Handle(w)
  PROVE  AckInv'
<1> USE EventSourceAssumption DEF AckInv, Kept, IdInv, Committed, TypeOK, Stored, Goto
<1>1. CASE Subscribe(w)
  BY <1>1 DEF Subscribe, FreshId, AddSubscriber, Reject, Fault, Answer
<1>2. CASE HandleSubRequest(w)
  BY <1>2 DEF HandleSubRequest, Answer
<1>3. CASE Unsubscribe(w)
  BY <1>3 DEF Unsubscribe, Fault, Answer, histories
<1>4. CASE RemoveSubscriber(w)
  BY <1>4 DEF RemoveSubscriber
<1>5. CASE HandleUnsubRequest(w)
  BY <1>5 DEF HandleUnsubRequest, Fault, Answer
<1>6. CASE RenewSubscription(w)
  BY <1>6 DEF RenewSubscription, Fault, Answer, histories
<1>7. CASE UpdateSubscriber(w)
  BY <1>7 DEF UpdateSubscriber, UpdatedRow, Fault, Answer
<1>8. CASE HandleRenewRequest(w)
  BY <1>8 DEF HandleRenewRequest, Fault, Answer
<1>9. CASE HandleGetStatusRequest(w)
  BY <1>9 DEF HandleGetStatusRequest, Fault, Answer, histories
<1>10. CASE HandleEvent(w)
  BY <1>10 DEF HandleEvent
<1>11. ASSUME NEW i \in Id, PublishToSubscriber(w, i) PROVE AckInv'
  BY <1>11 DEF PublishToSubscriber, Visited
<1>12. CASE EndPublish(w)
  BY <1>12 DEF EndPublish, Answer, histories
<1> QED
  BY <1>1, <1>2, <1>3, <1>4, <1>5, <1>6, <1>7, <1>8, <1>9, <1>10, <1>11, <1>12 DEF Handle

\* The invariant behind the next theorem: the row is there from the insert on,
\* before the SubscribeResponse is sent.
THEOREM AckInvCorrect == Spec => []AckInv
<1>1. Init => AckInv
  BY EventSourceAssumption DEF Init, AckInv
<1>2. IdInv /\ IdInv' /\ AckInv /\ [Next]_vars => AckInv'
  <2> SUFFICES ASSUME IdInv, IdInv', AckInv, [Next]_vars PROVE AckInv'
    OBVIOUS
  <2>1. Kept
    BY KeptNext
  <2>2. ASSUME NEW w \in Worker, Arrival(w) PROVE AckInv'
    <3>1. PICK type \in MessageType, i \in Id \cup {NoId}, e \in RenewAsks \cup {None} :
            (type = "renew" => e \in RenewAsks) /\ Receive(w, type, i, e)
      BY <2>2, ArrivalIsReceive DEF IdInv
    <3> QED
      BY <3>1 DEF Receive, MessageType, IdInv, TypeOK, AckInv
  <2>3. CASE Crash
    BY <2>3 DEF Crash, IdInv, TypeOK, AckInv
  <2>4. CASE UNCHANGED vars
    BY <2>4 DEF vars, handling, histories, AckInv
  <2> QED
    BY <2>1, <2>2, <2>3, <2>4, AckInvHandle DEF Next
<1> QED
  BY <1>1, <1>2, IdInvCorrect, PTL DEF Spec

\* A subscription that was acknowledged stays stored until it is withdrawn.
THEOREM AcknowledgedStored == Spec => []AcknowledgedIsStored
<1>1. AckInv => AcknowledgedIsStored
  BY DEF AckInv, AcknowledgedIsStored
<1> QED
  BY <1>1, AckInvCorrect, PTL

-----------------------------------------------------------------------------
(* No row without an acknowledgement.                                       *)

\* One message step.
LEMMA NoUnacknowledgedHandle ==
  ASSUME IdInv, NoUnacknowledgedRow, NEW w \in Worker, Handle(w)
  PROVE  NoUnacknowledgedRow'
<1> USE EventSourceAssumption DEF NoUnacknowledgedRow, Rows, IdInv, Committed, TypeOK, Stored, Goto
<1>1. CASE Subscribe(w)
  BY <1>1 DEF Subscribe, FreshId, AddSubscriber, Reject, Fault, Answer
<1>2. CASE HandleSubRequest(w)
  BY <1>2 DEF HandleSubRequest, Answer
<1>3. CASE Unsubscribe(w)
  BY <1>3 DEF Unsubscribe, Fault, Answer, histories
<1>4. CASE RemoveSubscriber(w)
  BY <1>4 DEF RemoveSubscriber
<1>5. CASE HandleUnsubRequest(w)
  BY <1>5 DEF HandleUnsubRequest, Fault, Answer
<1>6. CASE RenewSubscription(w)
  BY <1>6 DEF RenewSubscription, Fault, Answer, histories
<1>7. CASE UpdateSubscriber(w)
  BY <1>7 DEF UpdateSubscriber, UpdatedRow, Fault, Answer
<1>8. CASE HandleRenewRequest(w)
  BY <1>8 DEF HandleRenewRequest, Fault, Answer
<1>9. CASE HandleGetStatusRequest(w)
  BY <1>9 DEF HandleGetStatusRequest, Fault, Answer, histories
<1>10. CASE HandleEvent(w)
  BY <1>10 DEF HandleEvent
<1>11. ASSUME NEW i \in Id, PublishToSubscriber(w, i) PROVE NoUnacknowledgedRow'
  BY <1>11 DEF PublishToSubscriber, Visited
<1>12. CASE EndPublish(w)
  BY <1>12 DEF EndPublish, Answer, histories
<1> QED
  BY <1>1, <1>2, <1>3, <1>4, <1>5, <1>6, <1>7, <1>8, <1>9, <1>10, <1>11, <1>12 DEF Handle

\* A row belongs to a subscription that was, will be or would have been
\* acknowledged.
THEOREM NoStrayRow == Spec => []NoUnacknowledgedRow
<1>1. Init => NoUnacknowledgedRow
  BY EventSourceAssumption DEF Init, NoUnacknowledgedRow, Rows
<1>2. IdInv /\ IdInv' /\ NoUnacknowledgedRow /\ [Next]_vars => NoUnacknowledgedRow'
  <2> SUFFICES ASSUME IdInv, IdInv', NoUnacknowledgedRow, [Next]_vars PROVE NoUnacknowledgedRow'
    OBVIOUS
  <2>1. Kept
    BY KeptNext
  <2>2. ASSUME NEW w \in Worker, Arrival(w) PROVE NoUnacknowledgedRow'
    <3>1. PICK type \in MessageType, i \in Id \cup {NoId}, e \in RenewAsks \cup {None} :
            (type = "renew" => e \in RenewAsks) /\ Receive(w, type, i, e)
      BY <2>2, ArrivalIsReceive DEF IdInv
    <3> QED
      BY <3>1 DEF Receive, MessageType, IdInv, TypeOK, NoUnacknowledgedRow, Rows
  <2>3. CASE Crash
    BY <2>3 DEF Crash, IdInv, TypeOK, NoUnacknowledgedRow, Rows
  <2>4. CASE UNCHANGED vars
    BY <2>4 DEF vars, handling, histories, NoUnacknowledgedRow, Rows
  <2> QED
    BY <2>1, <2>2, <2>3, <2>4, NoUnacknowledgedHandle DEF Next
<1>3. NoUnacknowledgedRow => NoUnacknowledgedRow
  BY DEF NoUnacknowledgedRow, Rows
<1> QED
  BY <1>1, <1>2, <1>3, IdInvCorrect, PTL DEF Spec

-----------------------------------------------------------------------------
(* A RenewResponse means that the row was updated.                          *)

RenewInv == \A w \in Worker :
  /\ pc[w] = "renewReply" => renewed[w] \/ store[target[w]] = NoRow
  /\ reply[w] = "RenewResponse" => renewed[w]

\* One message step.
LEMMA RenewInvHandle ==
  ASSUME IdInv, Kept, RenewInv, NEW w \in Worker, Handle(w)
  PROVE  RenewInv'
<1> USE EventSourceAssumption DEF RenewInv, Kept, IdInv, Committed, TypeOK, Stored, Goto
<1>1. CASE Subscribe(w)
  BY <1>1 DEF Subscribe, FreshId, AddSubscriber, Reject, Fault, Answer
<1>2. CASE HandleSubRequest(w)
  BY <1>2 DEF HandleSubRequest, Answer
<1>3. CASE Unsubscribe(w)
  BY <1>3 DEF Unsubscribe, Fault, Answer, histories
<1>4. CASE RemoveSubscriber(w)
  BY <1>4 DEF RemoveSubscriber
<1>5. CASE HandleUnsubRequest(w)
  BY <1>5 DEF HandleUnsubRequest, Fault, Answer
<1>6. CASE RenewSubscription(w)
  BY <1>6 DEF RenewSubscription, Fault, Answer, histories
<1>7. CASE UpdateSubscriber(w)
  <2>1. ASSUME NEW v \in Worker, pc'[v] = "renewReply" PROVE renewed'[v] \/ store'[target'[v]] = NoRow
    <3>1. CASE v = w
      <4>1. CASE store[target[w]] = NoRow
        BY <1>7, <2>1, <3>1, <4>1 DEF UpdateSubscriber, Fault, Answer
      <4>2. CASE store[target[w]] # NoRow
        BY <1>7, <2>1, <3>1, <4>2 DEF UpdateSubscriber, Fault, Answer
      <4> QED
        BY <4>1, <4>2
    <3>2. CASE v # w
      <4>1. pc[v] = "renewReply" /\ target'[v] = target[v] /\ target[v] \in issued
        BY <1>7, <2>1, <3>2 DEF UpdateSubscriber, Fault, Answer
      <4>2. renewed'[v] = renewed[v]
        BY <1>7, <3>2 DEF UpdateSubscriber
      <4> QED
        BY <4>1, <4>2
    <3> QED
      BY <3>1, <3>2
  <2>2. ASSUME NEW v \in Worker, reply'[v] = "RenewResponse" PROVE renewed'[v]
    <3>1. v # w /\ reply[v] = "RenewResponse"
      BY <1>7, <2>2 DEF UpdateSubscriber, Fault, Answer
    <3> QED
      BY <1>7, <3>1 DEF UpdateSubscriber
  <2> QED
    BY <2>1, <2>2
<1>8. CASE HandleRenewRequest(w)
  BY <1>8 DEF HandleRenewRequest, Fault, Answer, Retrieve
<1>9. CASE HandleGetStatusRequest(w)
  BY <1>9 DEF HandleGetStatusRequest, Fault, Answer, histories
<1>10. CASE HandleEvent(w)
  BY <1>10 DEF HandleEvent
<1>11. ASSUME NEW i \in Id, PublishToSubscriber(w, i) PROVE RenewInv'
  BY <1>11 DEF PublishToSubscriber, Visited
<1>12. CASE EndPublish(w)
  BY <1>12 DEF EndPublish, Answer, histories
<1> QED
  BY <1>1, <1>2, <1>3, <1>4, <1>5, <1>6, <1>7, <1>8, <1>9, <1>10, <1>11, <1>12 DEF Handle

\* The update of a Renew that was answered by a RenewResponse found its row.
THEOREM RenewResponseIsTrue == Spec => []RenewResponseMeansRenewed
<1>1. Init => RenewInv
  BY EventSourceAssumption DEF Init, RenewInv
<1>2. IdInv /\ IdInv' /\ RenewInv /\ [Next]_vars => RenewInv'
  <2> SUFFICES ASSUME IdInv, IdInv', RenewInv, [Next]_vars PROVE RenewInv'
    OBVIOUS
  <2>1. Kept
    BY KeptNext
  <2>2. ASSUME NEW w \in Worker, Arrival(w) PROVE RenewInv'
    <3>1. PICK type \in MessageType, i \in Id \cup {NoId}, e \in RenewAsks \cup {None} :
            (type = "renew" => e \in RenewAsks) /\ Receive(w, type, i, e)
      BY <2>2, ArrivalIsReceive DEF IdInv
    <3> QED
      BY <3>1 DEF Receive, MessageType, IdInv, TypeOK, RenewInv
  <2>3. CASE Crash
    BY <2>3 DEF Crash, IdInv, TypeOK, RenewInv
  <2>4. CASE UNCHANGED vars
    BY <2>4 DEF vars, handling, histories, RenewInv
  <2> QED
    BY <2>1, <2>2, <2>3, <2>4, RenewInvHandle DEF Next
<1>3. RenewInv => RenewResponseMeansRenewed
  BY DEF RenewInv, RenewResponseMeansRenewed
<1> QED
  BY <1>1, <1>2, <1>3, IdInvCorrect, PTL DEF Spec

-----------------------------------------------------------------------------
(* An event reaches every subscriber that was acknowledged before it.       *)

EventInv == \A w \in Worker :
  /\ pc[w] = "event" => owed[w] \subseteq known
  /\ pc[w] = "publish" => owed[w] \subseteq pending[w] \cup withdrawn
  /\ reply[w] = "EventHandled" => owed[w] \subseteq withdrawn

\* One message step.
LEMMA EventInvHandle ==
  ASSUME IdInv, IdInv', Kept, AckInv, EventInv, NEW w \in Worker, Handle(w)
  PROVE  EventInv'
<1> USE EventSourceAssumption DEF EventInv, AckInv, Kept, IdInv, Committed, TypeOK, Stored, Goto
<1>1. CASE Subscribe(w)
  BY <1>1 DEF Subscribe, FreshId, AddSubscriber, Reject, Fault, Answer
<1>2. CASE HandleSubRequest(w)
  BY <1>2 DEF HandleSubRequest, Answer
<1>3. CASE Unsubscribe(w)
  BY <1>3 DEF Unsubscribe, Fault, Answer, histories
<1>4. CASE RemoveSubscriber(w)
  BY <1>4 DEF RemoveSubscriber
<1>5. CASE HandleUnsubRequest(w)
  BY <1>5 DEF HandleUnsubRequest, Fault, Answer
<1>6. CASE RenewSubscription(w)
  BY <1>6 DEF RenewSubscription, Fault, Answer, histories
<1>7. CASE UpdateSubscriber(w)
  BY <1>7 DEF UpdateSubscriber, UpdatedRow, Fault, Answer
<1>8. CASE HandleRenewRequest(w)
  BY <1>8 DEF HandleRenewRequest, Fault, Answer
<1>9. CASE HandleGetStatusRequest(w)
  BY <1>9 DEF HandleGetStatusRequest, Fault, Answer, histories
<1>10. CASE HandleEvent(w)
  BY <1>10 DEF HandleEvent, Rows
<1>11. ASSUME NEW i \in Id, PublishToSubscriber(w, i) PROVE EventInv'
  BY <1>11 DEF PublishToSubscriber, Visited
<1>12. CASE EndPublish(w)
  BY <1>12 DEF EndPublish, Answer, histories
<1> QED
  BY <1>1, <1>2, <1>3, <1>4, <1>5, <1>6, <1>7, <1>8, <1>9, <1>10, <1>11, <1>12 DEF Handle

\* An event is sent to everybody whose subscription was acknowledged before it
\* arrived and not withdrawn since, whether or not the sends before succeeded.
THEOREM EventReachesAcknowledged == Spec => []EventReachesSubscribers
<1>1. Init => EventInv
  BY EventSourceAssumption DEF Init, EventInv
<1>2. IdInv /\ IdInv' /\ AckInv /\ EventInv /\ [Next]_vars => EventInv'
  <2> SUFFICES ASSUME IdInv, IdInv', AckInv, EventInv, [Next]_vars PROVE EventInv'
    OBVIOUS
  <2>1. Kept
    BY KeptNext
  <2>2. ASSUME NEW w \in Worker, Arrival(w) PROVE EventInv'
    <3>1. PICK type \in MessageType, i \in Id \cup {NoId}, e \in RenewAsks \cup {None} :
            (type = "renew" => e \in RenewAsks) /\ Receive(w, type, i, e)
      BY <2>2, ArrivalIsReceive DEF IdInv
    <3> QED
      BY <3>1 DEF Receive, MessageType, IdInv, TypeOK, EventInv
  <2>3. CASE Crash
    BY <2>3 DEF Crash, IdInv, TypeOK, EventInv
  <2>4. CASE UNCHANGED vars
    BY <2>4 DEF vars, handling, histories, EventInv
  <2> QED
    BY <2>1, <2>2, <2>3, <2>4, EventInvHandle DEF Next
<1>3. EventInv => EventReachesSubscribers
  BY DEF EventInv, EventReachesSubscribers
<1> QED
  BY <1>1, <1>2, <1>3, IdInvCorrect, AckInvCorrect, PTL DEF Spec

-----------------------------------------------------------------------------
(* An UnsubscribeResponse is the truth when reads of the store do not fail:  *)
(* a failed read looks like a row that is gone.                              *)

ReliableReads == "retrieve" \notin Faulty

GoneInv ==
  /\ \A i \in ended : store[i] = NoRow
  /\ \A w \in Worker : /\ barred[w] \subseteq ended
                       /\ pc[w] = "publish" => pending[w] \cap barred[w] = {}

\* One message step.
LEMMA GoneInvHandle ==
  ASSUME ReliableReads, IdInv, Kept, GoneInv, NEW w \in Worker, Handle(w)
  PROVE  GoneInv'
<1> USE EventSourceAssumption DEF GoneInv, ReliableReads, Kept, IdInv, Committed, TypeOK, Stored, Goto
<1>1. CASE Subscribe(w)
  BY <1>1 DEF Subscribe, FreshId, AddSubscriber, Reject, Fault, Answer
<1>2. CASE HandleSubRequest(w)
  BY <1>2 DEF HandleSubRequest, Answer
<1>3. CASE Unsubscribe(w)
  BY <1>3 DEF Unsubscribe, Fault, Answer, histories
<1>4. CASE RemoveSubscriber(w)
  BY <1>4 DEF RemoveSubscriber
<1>5. CASE HandleUnsubRequest(w)
  BY <1>5 DEF HandleUnsubRequest, Fault, Answer, RowAfterRemoval, Retrieve
<1>6. CASE RenewSubscription(w)
  BY <1>6 DEF RenewSubscription, Fault, Answer, histories
<1>7. CASE UpdateSubscriber(w)
  BY <1>7 DEF UpdateSubscriber, UpdatedRow, Fault, Answer
<1>8. CASE HandleRenewRequest(w)
  BY <1>8 DEF HandleRenewRequest, Fault, Answer
<1>9. CASE HandleGetStatusRequest(w)
  BY <1>9 DEF HandleGetStatusRequest, Fault, Answer, histories
<1>10. CASE HandleEvent(w)
  BY <1>10 DEF HandleEvent, Rows
<1>11. ASSUME NEW i \in Id, PublishToSubscriber(w, i) PROVE GoneInv'
  BY <1>11 DEF PublishToSubscriber, Visited
<1>12. CASE EndPublish(w)
  BY <1>12 DEF EndPublish, Answer, histories
<1> QED
  BY <1>1, <1>2, <1>3, <1>4, <1>5, <1>6, <1>7, <1>8, <1>9, <1>10, <1>11, <1>12 DEF Handle

\* The invariant behind the two theorems that follow.
THEOREM GoneInvCorrect ==
  ASSUME ReliableReads
  PROVE  Spec => []GoneInv
<1>1. Init => GoneInv
  BY EventSourceAssumption DEF Init, GoneInv
<1>2. IdInv /\ IdInv' /\ GoneInv /\ [Next]_vars => GoneInv'
  <2> SUFFICES ASSUME IdInv, IdInv', GoneInv, [Next]_vars PROVE GoneInv'
    OBVIOUS
  <2>1. Kept
    BY KeptNext
  <2>2. ASSUME NEW w \in Worker, Arrival(w) PROVE GoneInv'
    <3>1. PICK type \in MessageType, i \in Id \cup {NoId}, e \in RenewAsks \cup {None} :
            (type = "renew" => e \in RenewAsks) /\ Receive(w, type, i, e)
      BY <2>2, ArrivalIsReceive DEF IdInv
    <3> QED
      BY <3>1 DEF Receive, MessageType, IdInv, TypeOK, GoneInv
  <2>3. CASE Crash
    BY <2>3 DEF Crash, IdInv, TypeOK, GoneInv
  <2>4. CASE UNCHANGED vars
    BY <2>4 DEF vars, handling, histories, GoneInv
  <2> QED
    BY <2>1, <2>2, <2>3, <2>4, GoneInvHandle DEF Next
<1> QED
  BY <1>1, <1>2, IdInvCorrect, PTL DEF Spec

\* After an UnsubscribeResponse the row is gone for good.
THEOREM UnsubscribedGone ==
  ASSUME ReliableReads
  PROVE  Spec => []UnsubscribedIsGone
<1>1. GoneInv => UnsubscribedIsGone
  BY DEF GoneInv, UnsubscribedIsGone
<1> QED
  BY <1>1, GoneInvCorrect, PTL

\* No event that arrives after an UnsubscribeResponse goes to that subscriber.
THEOREM NoEventAfterGone ==
  ASSUME ReliableReads
  PROVE  Spec => []NoEventAfterUnsubscribe
<1>1. GoneInv => NoEventAfterUnsubscribe
  BY DEF GoneInv, NoEventAfterUnsubscribe
<1> QED
  BY <1>1, GoneInvCorrect, PTL

-----------------------------------------------------------------------------
(* When every Renew says which expiry it wants, the expiry that was answered *)
(* is the one that is stored.                                                *)

ExplicitRenewals == None \notin RenewAsks

PromiseInv ==
  /\ \A i \in Id : store[i] # NoRow => promised[i] = None \/ promised[i] = store[i]
  /\ \A i \in Id : promised[i] # None => i \in issued
  /\ \A w \in Worker : pc[w] \in {"renew", "update"} => asked[w] # None

\* One message step.
LEMMA PromiseInvHandle ==
  ASSUME ExplicitRenewals, IdInv, Kept, PromiseInv, NEW w \in Worker, Handle(w)
  PROVE  PromiseInv'
<1> USE EventSourceAssumption DEF PromiseInv, ExplicitRenewals, Kept, IdInv, Committed, TypeOK, Stored, Goto
<1>1. CASE Subscribe(w)
  BY <1>1 DEF Subscribe, FreshId, AddSubscriber, Reject, Fault, Answer
<1>2. CASE HandleSubRequest(w)
  BY <1>2 DEF HandleSubRequest, Answer
<1>3. CASE Unsubscribe(w)
  BY <1>3 DEF Unsubscribe, Fault, Answer, histories
<1>4. CASE RemoveSubscriber(w)
  BY <1>4 DEF RemoveSubscriber
<1>5. CASE HandleUnsubRequest(w)
  BY <1>5 DEF HandleUnsubRequest, Fault, Answer
<1>6. CASE RenewSubscription(w)
  BY <1>6 DEF RenewSubscription, Fault, Answer, histories
<1>7. CASE UpdateSubscriber(w)
  BY <1>7 DEF UpdateSubscriber, UpdatedRow, Fault, Answer
<1>8. CASE HandleRenewRequest(w)
  BY <1>8 DEF HandleRenewRequest, Fault, Answer, Retrieve
<1>9. CASE HandleGetStatusRequest(w)
  BY <1>9 DEF HandleGetStatusRequest, Fault, Answer, histories
<1>10. CASE HandleEvent(w)
  BY <1>10 DEF HandleEvent
<1>11. ASSUME NEW i \in Id, PublishToSubscriber(w, i) PROVE PromiseInv'
  BY <1>11 DEF PublishToSubscriber, Visited
<1>12. CASE EndPublish(w)
  BY <1>12 DEF EndPublish, Answer, histories
<1> QED
  BY <1>1, <1>2, <1>3, <1>4, <1>5, <1>6, <1>7, <1>8, <1>9, <1>10, <1>11, <1>12 DEF Handle

\* A plain Renew is the only way to lose the expiry another Renew was promised.
THEOREM AnsweredExpiryStored ==
  ASSUME ExplicitRenewals
  PROVE  Spec => []AnsweredExpiryHolds
<1>1. Init => PromiseInv
  BY EventSourceAssumption DEF Init, PromiseInv
<1>2. IdInv /\ IdInv' /\ PromiseInv /\ [Next]_vars => PromiseInv'
  <2> SUFFICES ASSUME IdInv, IdInv', PromiseInv, [Next]_vars PROVE PromiseInv'
    OBVIOUS
  <2>1. Kept
    BY KeptNext
  <2>2. ASSUME NEW w \in Worker, Arrival(w) PROVE PromiseInv'
    <3>1. PICK type \in MessageType, i \in Id \cup {NoId}, e \in RenewAsks \cup {None} :
            (type = "renew" => e \in RenewAsks) /\ Receive(w, type, i, e)
      BY <2>2, ArrivalIsReceive DEF IdInv
    <3> QED
      BY <3>1 DEF Receive, MessageType, IdInv, TypeOK, PromiseInv, ExplicitRenewals
  <2>3. CASE Crash
    BY <2>3 DEF Crash, IdInv, TypeOK, PromiseInv, ExplicitRenewals
  <2>4. CASE UNCHANGED vars
    BY <2>4 DEF vars, handling, histories, PromiseInv
  <2> QED
    BY <2>1, <2>2, <2>3, <2>4, PromiseInvHandle DEF Next
<1>3. PromiseInv => AnsweredExpiryHolds
  BY DEF PromiseInv, AnsweredExpiryHolds, Rows
<1> QED
  BY <1>1, <1>2, <1>3, IdInvCorrect, PTL DEF Spec

-----------------------------------------------------------------------------
(* A message takes a number of steps that is known when it arrives.         *)

\* What is left is a number, as there are finitely many subscribers.
LEMMA LeftIsNat ==
  ASSUME TypeOK, IsFiniteSet(Id), NEW w \in Worker
  PROVE  /\ Left(w) \in Nat
         /\ pc[w] # "idle" => Left(w) # 0
         /\ IsFiniteSet(pending[w]) /\ Cardinality(pending[w]) \in Nat
         /\ Cardinality(Id) \in Nat
         /\ IsFiniteSet(Rows) /\ Cardinality(Rows) \in Nat /\ Cardinality(Rows) <= Cardinality(Id)
<1>1. pending[w] \in SUBSET Id /\ Rows \in SUBSET Id /\ pc[w] \in PC
  BY DEF TypeOK, Rows
<1>2. /\ IsFiniteSet(pending[w]) /\ Cardinality(pending[w]) \in Nat
      /\ IsFiniteSet(Rows) /\ Cardinality(Rows) \in Nat /\ Cardinality(Rows) <= Cardinality(Id)
      /\ Cardinality(Id) \in Nat
  BY <1>1, FS_Subset, FS_CardinalityType
<1> QED
  BY <1>1, <1>2 DEF Left, PC

LEMMA OneLess ==
  ASSUME NEW S, IsFiniteSet(S), NEW x \in S
  PROVE  Cardinality(S \ {x}) = Cardinality(S) - 1
BY FS_RemoveElement

\* One message step.
LEMMA HandleCounts ==
  ASSUME TypeOK, IsFiniteSet(Id), NEW w \in Worker, Handle(w)
  PROVE  Left(w)' < Left(w)
<1>1. ASSUME pc[w] # "idle", pc'[w] = "idle" PROVE Left(w)' < Left(w)
  <2>1. Left(w)' = 0
    BY <1>1 DEF Left
  <2> QED
    BY <1>1, <2>1, LeftIsNat
<1>2. ASSUME NEW kind, NEW e, Answer(w, kind, e), pc[w] # "idle" PROVE Left(w)' < Left(w)
  BY <1>1, <1>2 DEF Answer, Goto, TypeOK
<1> USE DEF Goto, TypeOK
<1>3. CASE Subscribe(w)
  <2>1. pc[w] = "subscribe" /\ pc'[w] \in {"subReply", "idle"}
    BY <1>3 DEF Subscribe, AddSubscriber, Reject, Fault, Answer
  <2> QED
    BY <2>1 DEF Left
<1>4. CASE Unsubscribe(w)
  <2>1. pc[w] = "unsubscribe" /\ pc'[w] \in {"remove", "idle"}
    BY <1>4 DEF Unsubscribe, Fault, Answer
  <2> QED
    BY <2>1 DEF Left
<1>5. CASE RemoveSubscriber(w)
  <2>1. pc[w] = "remove" /\ pc'[w] = "unsubReply"
    BY <1>5 DEF RemoveSubscriber
  <2> QED
    BY <2>1 DEF Left
<1>6. CASE RenewSubscription(w)
  <2>1. pc[w] = "renew" /\ pc'[w] \in {"update", "idle"}
    BY <1>6 DEF RenewSubscription, Fault, Answer
  <2> QED
    BY <2>1 DEF Left
<1>7. CASE UpdateSubscriber(w)
  <2>1. pc[w] = "update" /\ pc'[w] \in {"renewReply", "idle"}
    BY <1>7 DEF UpdateSubscriber, Fault, Answer
  <2> QED
    BY <2>1 DEF Left
<1>8. CASE HandleSubRequest(w) \/ HandleUnsubRequest(w) \/ HandleRenewRequest(w)
           \/ HandleGetStatusRequest(w) \/ EndPublish(w)
  BY <1>2, <1>8 DEF HandleSubRequest, HandleUnsubRequest, HandleRenewRequest, HandleGetStatusRequest,
     EndPublish, Fault
<1>9. CASE HandleEvent(w)
  <2>1. pc[w] = "event" /\ pc'[w] = "publish" /\ pending'[w] \in {Rows, {}}
    BY <1>9 DEF HandleEvent
  <2>2. Left(w)' = Cardinality(pending'[w]) + 1 /\ Left(w) = Cardinality(Id) + 2
    BY <2>1 DEF Left
  <2>3. CASE pending'[w] = Rows
    BY <2>2, <2>3, LeftIsNat
  <2>4. CASE pending'[w] = {}
    <3>1. Cardinality(pending'[w]) = 0
      BY <2>4, FS_EmptySet, Zenon
    <3> QED
      BY <2>2, <3>1, LeftIsNat
  <2> QED
    BY <2>1, <2>3, <2>4
<1>10. ASSUME NEW i \in Id, PublishToSubscriber(w, i) PROVE Left(w)' < Left(w)
  <2>1. /\ pc[w] = "publish" /\ pc'[w] = "publish"
        /\ i \in pending[w] /\ pending'[w] = pending[w] \ {i}
    BY <1>10 DEF PublishToSubscriber, Visited
  <2>2. Left(w)' = Cardinality(pending'[w]) + 1 /\ Left(w) = Cardinality(pending[w]) + 1
    BY <2>1 DEF Left
  <2>3. IsFiniteSet(pending[w]) /\ Cardinality(pending[w]) \in Nat
    BY LeftIsNat
  <2>4. Cardinality(pending[w] \ {i}) = Cardinality(pending[w]) - 1
    BY <2>1, <2>3, OneLess
  <2> QED
    BY <2>1, <2>2, <2>3, <2>4
<1> QED
  BY <1>3, <1>4, <1>5, <1>6, <1>7, <1>8, <1>9, <1>10 DEF Handle

\* A message that another worker handles, or that arrives there, is none of this one's.
LEMMA OthersAreLeft ==
  ASSUME TypeOK, NEW w \in Worker, NEW v \in Worker, v # w, Arrival(v) \/ Handle(v)
  PROVE  Left(w)' = Left(w)
<1>1. pc'[w] = pc[w] /\ pending'[w] = pending[w]
  <2> USE DEF TypeOK, Goto, Answer, Fault
  <2>1. CASE Arrival(v)
    BY <2>1, ArrivalIsReceive DEF Receive
  <2>2. CASE Subscribe(v) \/ HandleSubRequest(v) \/ Unsubscribe(v) \/ RemoveSubscriber(v)
             \/ HandleUnsubRequest(v)
    BY <2>2 DEF Subscribe, AddSubscriber, Reject, HandleSubRequest, Unsubscribe, RemoveSubscriber,
       HandleUnsubRequest
  <2>3. CASE RenewSubscription(v) \/ UpdateSubscriber(v) \/ HandleRenewRequest(v)
             \/ HandleGetStatusRequest(v)
    BY <2>3 DEF RenewSubscription, UpdateSubscriber, HandleRenewRequest, HandleGetStatusRequest
  <2>4. CASE HandleEvent(v) \/ (\E i \in Id : PublishToSubscriber(v, i)) \/ EndPublish(v)
    BY <2>4 DEF HandleEvent, PublishToSubscriber, EndPublish
  <2> QED
    BY <2>1, <2>2, <2>3, <2>4 DEF Handle
<1> QED
  BY <1>1 DEF Left

\* For any workers and faults and any finite number of subscribers, a message takes
\* a number of steps that is known when it arrives.  With the fairness of FairSpec
\* it is answered, unless the server dies.
THEOREM MessagesBounded == IsFiniteSet(Id) /\ Spec => MessagesAreBounded
<1> SUFFICES ASSUME IsFiniteSet(Id) PROVE Spec => MessagesAreBounded
  OBVIOUS
<1> DEFINE Bounded(w) == IF Handle(w) THEN Left(w)' < Left(w) ELSE Left(w)' <= Left(w)
<1>1. TypeOK /\ [Next]_vars => [\A w \in Worker : pc[w] # "idle" => Bounded(w)]_vars
  <2> SUFFICES ASSUME TypeOK, Next, NEW w \in Worker, pc[w] # "idle", ~Handle(w)
               PROVE  Left(w)' <= Left(w)
    BY HandleCounts
  <2>1. Left(w) \in Nat
    BY LeftIsNat
  <2>2. CASE Crash
    <3>1. pc'[w] = "idle"
      BY <2>2 DEF Crash
    <3>2. Left(w)' = 0
      BY <3>1 DEF Left
    <3> QED
      BY <2>1, <3>2
  <2>3. ASSUME NEW v \in Worker, Arrival(v) \/ Handle(v) PROVE Left(w)' <= Left(w)
    <3>1. v # w
      BY <2>3, ArrivalIsReceive DEF Receive
    <3> QED
      BY <2>1, <2>3, <3>1, OthersAreLeft
  <2> QED
    BY <2>2, <2>3 DEF Next
<1> QED
  BY <1>1, TypeCorrect, PTL DEF Spec, MessagesAreBounded

=============================================================================
