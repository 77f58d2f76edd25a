----------------------------- MODULE EventSource -----------------------------
(***************************************************************************)
(* The event source of Savan/C: worker threads that each carry one SOAP    *)
(* message through the Savan in-handler (savan_in_handler_invoke and the   *)
(* subscription processor) and then through the Savan message receiver,    *)
(* over one subscription store shared by all of them.                      *)
(*                                                                         *)
(* A message visits the store several times and nothing is held between    *)
(* two visits, so every visit is an action of its own: the handler reads a *)
(* row, another worker changes it, the handler writes what it read.  One   *)
(* call of the subscription manager is one atomic action here; the sqlite  *)
(* manager that makes this so is the subject of SqliteSubsMgr.             *)
(***************************************************************************)
EXTENDS Naturals, FiniteSets

CONSTANTS
  Worker,      \* threads (or processes) of the Axis2/C server
  Id,          \* the "urn:uuid:" identifiers that can be generated
  Expiry,      \* what a client can write in wse:Expires of a Renew
  Never,       \* "*", the expiry savan_util_get_expiry_time gives everybody
  None,        \* a Renew without wse:Expires; no expiry in an answer
  NoRow,       \* the subscriber table has no row for the identifier
  NoId,        \* a message without an identifier the server ever gave out
  RenewAsks,   \* what the Renew messages of this instance may ask for
  Faulty,      \* the store operations that may fail in this instance
  Filtering    \* whether the build defines SAVAN_FILTERING

StoreOp == {"insert", "update", "remove", "retrieve"}

ASSUME EventSourceAssumption ==
  /\ NoId \notin Id
  /\ Never \notin Expiry
  /\ None \notin Expiry \cup {Never}
  /\ NoRow \notin Expiry \cup {Never}
  /\ RenewAsks \subseteq Expiry \cup {None}
  /\ Faulty \subseteq StoreOp
  /\ Filtering \in BOOLEAN

VARIABLES
  store,      \* the subscriber table: for each id the expires column, or NoRow
  pc,         \* where each worker is in the handling of its message
  target,     \* wse:Identifier of the message, or the id just generated
  asked,      \* wse:Expires of a Renew message
  held,       \* the expires member of the subscriber struct the worker holds
  pending,    \* the subscribers the publisher's loop has still to visit
  reply,      \* what the worker answered to its last message
  answer,     \* the wse:Expires of that answer
  \* What clients were told, and what was done, kept for the properties only.
  issued,     \* identifiers generated so far
  known,      \* identifiers given out in a SubscribeResponse
  ended,      \* identifiers for which an UnsubscribeResponse was sent
  withdrawn,  \* identifiers the store was asked to remove
  lost,       \* rows whose SubscribeResponse a crash swallowed
  renewed,    \* the update of this worker's Renew found its row
  promised,   \* the expiry the last RenewResponse for the id reported
  owed,       \* ids the publisher must still go to, known when the event arrived
  barred      \* ids that had ended when the event arrived

handling  == <<pc, target, asked, held, pending, reply, answer>>
histories == <<issued, known, ended, withdrawn, lost, renewed, promised, owed, barred>>
vars      == <<store, handling, histories>>

PC == {"idle", "subscribe", "subReply", "unsubscribe", "remove", "unsubReply",
       "renew", "update", "renewReply", "getStatus", "event", "publish"}

Reply == {"none", "Fault", "SubscribeResponse", "UnsubscribeResponse",
          "RenewResponse", "GetStatusResponse", "EventHandled"}

Stored == Expiry \cup {Never}

TypeOK ==
  /\ store     \in [Id -> Stored \cup {NoRow}]
  /\ pc        \in [Worker -> PC]
  /\ target    \in [Worker -> Id \cup {NoId}]
  /\ asked     \in [Worker -> Expiry \cup {None}]
  /\ held      \in [Worker -> Stored]
  /\ pending   \in [Worker -> SUBSET Id]
  /\ reply     \in [Worker -> Reply]
  /\ answer    \in [Worker -> Stored \cup {None}]
  /\ issued    \in SUBSET Id
  /\ known     \in SUBSET Id
  /\ ended     \in SUBSET Id
  /\ withdrawn \in SUBSET Id
  /\ lost      \in SUBSET Id
  /\ renewed   \in [Worker -> BOOLEAN]
  /\ promised  \in [Id -> Stored \cup {None}]
  /\ owed      \in [Worker -> SUBSET Id]
  /\ barred    \in [Worker -> SUBSET Id]

Init ==
  /\ store     = [i \in Id |-> NoRow]
  /\ pc        = [w \in Worker |-> "idle"]
  /\ target    = [w \in Worker |-> NoId]
  /\ asked     = [w \in Worker |-> None]
  /\ held      = [w \in Worker |-> Never]
  /\ pending   = [w \in Worker |-> {}]
  /\ reply     = [w \in Worker |-> "none"]
  /\ answer    = [w \in Worker |-> None]
  /\ issued    = {}
  /\ known     = {}
  /\ ended     = {}
  /\ withdrawn = {}
  /\ lost      = {}
  /\ renewed   = [w \in Worker |-> FALSE]
  /\ promised  = [i \in Id |-> None]
  /\ owed      = [w \in Worker |-> {}]
  /\ barred    = [w \in Worker |-> {}]

-----------------------------------------------------------------------------
(* Helpers.                                                                *)

Rows == {i \in Id : store[i] # NoRow}

\* savan_subs_mgr_retrieve_subscriber: the row, or NULL, which is the answer
\* for a row that is not there as well as for a select that failed.
Retrieve(i) ==
  (IF i \in Id THEN {store[i]} ELSE {NoRow})
    \cup (IF "retrieve" \in Faulty THEN {NoRow} ELSE {})

\* The worker moves on within its message.
Goto(w, label) == pc' = [pc EXCEPT ![w] = label]

\* The worker sends its answer and is free for the next message.
Answer(w, kind, e) ==
  /\ Goto(w, "idle")
  /\ reply'  = [reply EXCEPT ![w] = kind]
  /\ answer' = [answer EXCEPT ![w] = e]

Fault(w) == Answer(w, "Fault", None)

\* What savan_sub_processor_validate_subscription makes of the filter dialect.
\* No delivery mode is ever read from the message, and the expiration check is
\* empty, so the filter decides alone.
Dialect == {"none", "xpath", "synapse", "other"}
ValidateFilter(d) == d \in {"none", "synapse"} \/ (d = "xpath" /\ Filtering)

-----------------------------------------------------------------------------
(* Arrival.  An identifier that a client sends was told to it by a          *)
(* SubscribeResponse, or is not one of this server's.                       *)

Receive(w, type, i, e) ==
  /\ pc[w] = "idle"
  /\ pc'      = [pc EXCEPT ![w] = type]
  /\ target'  = [target EXCEPT ![w] = i]
  /\ asked'   = [asked EXCEPT ![w] = e]
  /\ reply'   = [reply EXCEPT ![w] = "none"]
  /\ answer'  = [answer EXCEPT ![w] = None]
  /\ held'    = [held EXCEPT ![w] = Never]
  /\ renewed' = [renewed EXCEPT ![w] = FALSE]
  /\ owed'    = [owed EXCEPT ![w] = IF type = "event" THEN known ELSE {}]
  /\ barred'  = [barred EXCEPT ![w] = IF type = "event" THEN ended ELSE {}]
  /\ UNCHANGED <<store, pending, issued, known, ended, withdrawn, lost, promised>>

\* Bound: one unused identifier for every Subscribe message in hand.
ReceiveSubscribe(w) ==
  /\ Cardinality({v \in Worker : pc[v] = "subscribe"}) < Cardinality(Id \ issued)
  /\ Receive(w, "subscribe", NoId, None)

ReceiveEvent(w)          == Receive(w, "event", NoId, None)
ReceiveUnsubscribe(w, i) == Receive(w, "unsubscribe", i, None)
ReceiveRenew(w, i, e)    == Receive(w, "renew", i, e)
ReceiveGetStatus(w, i)   == Receive(w, "getStatus", i, None)

-----------------------------------------------------------------------------
(* Subscribe.                                                               *)

\* savan_subs_mgr_add_subscriber: the status of the insert decides whether the
\* message goes on to the message receiver.
AddUnchecked(w, i) ==
  /\ \/ store' = [store EXCEPT ![i] = Never]
     \/ "insert" \in Faulty /\ UNCHANGED store
  /\ Goto(w, "subReply")
  /\ UNCHANGED <<reply, answer>>
AddSubscriber(w, i) ==
  \/ /\ store' = [store EXCEPT ![i] = Never]
     /\ Goto(w, "subReply")
     /\ UNCHANGED <<reply, answer>>
  \/ /\ "insert" \in Faulty
     /\ Fault(w)
     /\ UNCHANGED store

\* The message holds no subscription, or one that does not pass the validation.
RejectAdded(w, i) == store' = [store EXCEPT ![i] = Never] /\ Fault(w)
Reject(w, i) == UNCHANGED store /\ Fault(w)

\* savan_sub_processor_create_subscriber_from_msg gives the subscriber an
\* identifier of its own, axutil_uuid_gen being taken at its word.
FreshId == Id \ issued

\* savan_sub_processor_subscribe: a fresh identifier, the server's own expiry
\* whatever the client asked for, validation, insert.
Subscribe(w) ==
  /\ pc[w] = "subscribe"
  /\ \E i \in FreshId, d \in Dialect :
       /\ issued' = issued \cup {i}
       /\ target' = [target EXCEPT ![w] = i]
       /\ held'   = [held EXCEPT ![w] = Never]
       /\ \/ ValidateFilter(d) /\ AddSubscriber(w, i)
          \/ ~ValidateFilter(d) /\ Reject(w, i)
  /\ UNCHANGED <<asked, pending, known, ended, withdrawn, lost, renewed, promised,
                 owed, barred>>

\* savan_msg_recv_handle_sub_request: answers from the struct the in-handler
\* left in the message context; the store is not read again.
HandleSubRequest(w) ==
  /\ pc[w] = "subReply"
  /\ known' = known \cup {target[w]}
  /\ Answer(w, "SubscribeResponse", held[w])
  /\ UNCHANGED <<store, target, asked, held, pending, issued, ended, withdrawn, lost,
                 renewed, promised, owed, barred>>

-----------------------------------------------------------------------------
(* Unsubscribe.                                                             *)

\* savan_sub_processor_unsubscribe up to the removal: no subscriber, no
\* unsubscription.
Unsubscribe(w) ==
  /\ pc[w] = "unsubscribe"
  /\ \E row \in Retrieve(target[w]) :
       \/ /\ row = NoRow
          /\ Fault(w)
       \/ /\ row # NoRow
          /\ Goto(w, "remove")
          /\ UNCHANGED <<reply, answer>>
  /\ UNCHANGED <<store, target, asked, held, pending, histories>>

\* savan_subs_mgr_remove_subscriber_with_msg_ctx: whatever the removal
\* returned, the caller is told AXIS2_SUCCESS.
RemoveSubscriber(w) ==
  /\ pc[w] = "remove"
  /\ \/ store' = [store EXCEPT ![target[w]] = NoRow]
     \/ "remove" \in Faulty /\ UNCHANGED store
  /\ withdrawn' = withdrawn \cup {target[w]}
  /\ Goto(w, "unsubReply")
  /\ UNCHANGED <<target, asked, held, pending, reply, answer, issued, known, ended, lost,
                 renewed, promised, owed, barred>>

\* What the message receiver finds when it looks whether the row is gone.
NotLooked(i) == {NoRow}
RowAfterRemoval(i) == Retrieve(i)

\* savan_msg_recv_handle_unsub_request: answers UnsubscribeResponse when it
\* cannot find the subscriber any more.
RemoveAgain(w) ==
  /\ pc[w] = "unsubReply"
  /\ \E row \in Retrieve(target[w]) :
       \/ row # NoRow /\ Goto(w, "remove") /\ UNCHANGED <<ended, reply, answer>>
       \/ /\ row = NoRow
          /\ ended' = ended \cup {target[w]}
          /\ Answer(w, "UnsubscribeResponse", None)
  /\ UNCHANGED <<store, target, asked, held, pending, issued, known, withdrawn, lost,
                 renewed, promised, owed, barred>>
HandleUnsubRequest(w) ==
  /\ pc[w] = "unsubReply"
  /\ \E row \in RowAfterRemoval(target[w]) :
       \/ /\ row # NoRow
          /\ Fault(w)
          /\ UNCHANGED ended
       \/ /\ row = NoRow
          /\ ended' = ended \cup {target[w]}
          /\ Answer(w, "UnsubscribeResponse", None)
  /\ UNCHANGED <<store, target, asked, held, pending, issued, known, withdrawn, lost,
                 renewed, promised, owed, barred>>

-----------------------------------------------------------------------------
(* Renew.                                                                   *)

\* What savan_subs_mgr_get_subscriber_from_renew_msg leaves in the struct: the
\* expiry the message asks for, else the one that was read.
AskedExpiry(e, row) == e
RenewedExpiry(e, row) == IF e = None THEN row ELSE e

\* savan_sub_processor_renew_subscription up to the update.
RenewSubscription(w) ==
  /\ pc[w] = "renew"
  /\ \E row \in Retrieve(target[w]) :
       \/ /\ row = NoRow
          /\ Fault(w)
          /\ UNCHANGED held
       \/ /\ row # NoRow
          /\ held' = [held EXCEPT ![w] = RenewedExpiry(asked[w], row)]
          /\ Goto(w, "update")
          /\ UNCHANGED <<reply, answer>>
  /\ UNCHANGED <<store, target, asked, pending, histories>>

\* The row after "update subscriber set ... where id=?": a row that is not
\* there stays away, and the statement is a success all the same.
UpsertedRow(row, e) == e
UpdatedRow(row, e) == IF row = NoRow THEN NoRow ELSE e

\* savan_subs_mgr_update_subscriber writes the whole struct back.
UpdateSubscriber(w) ==
  /\ pc[w] = "update"
  /\ \/ /\ store'    = [store EXCEPT ![target[w]] = UpdatedRow(@, held[w])]
        /\ renewed'  = [renewed EXCEPT ![w] = store[target[w]] # NoRow]
        /\ promised' = IF asked[w] = None THEN promised
                       ELSE [promised EXCEPT ![target[w]] = None]
        /\ Goto(w, "renewReply")
        /\ UNCHANGED <<reply, answer>>
     \/ /\ "update" \in Faulty
        /\ Fault(w)
        /\ UNCHANGED <<store, renewed, promised>>
  /\ UNCHANGED <<target, asked, held, pending, issued, known, ended, withdrawn, lost,
                 owed, barred>>

\* savan_msg_recv_handle_renew_request: reads the row again and reports the
\* expiry it finds there.
AnswerFromStruct(w) ==
  /\ pc[w] = "renewReply"
  /\ promised' = [promised EXCEPT ![target[w]] = held[w]]
  /\ Answer(w, "RenewResponse", held[w])
  /\ UNCHANGED <<store, target, asked, held, pending, issued, known, ended, withdrawn, lost,
                 renewed, owed, barred>>
HandleRenewRequest(w) ==
  /\ pc[w] = "renewReply"
  /\ \E row \in Retrieve(target[w]) :
       \/ /\ row = NoRow
          /\ Fault(w)
          /\ UNCHANGED promised
       \/ /\ row # NoRow
          /\ promised' = [promised EXCEPT ![target[w]] = row]
          /\ Answer(w, "RenewResponse", row)
  /\ UNCHANGED <<store, target, asked, held, pending, issued, known, ended, withdrawn, lost,
                 renewed, owed, barred>>

-----------------------------------------------------------------------------
(* GetStatus: the in-handler only copies the identifier; the message        *)
(* receiver reads the row.                                                  *)

HandleGetStatusRequest(w) ==
  /\ pc[w] = "getStatus"
  /\ \E row \in Retrieve(target[w]) :
       \/ row = NoRow /\ Fault(w)
       \/ row # NoRow /\ Answer(w, "GetStatusResponse", row)
  /\ UNCHANGED <<store, target, asked, held, pending, histories>>

-----------------------------------------------------------------------------
(* Any other message is an event: the publisher takes the list of           *)
(* subscribers once and then visits them one by one.                        *)

HandleEvent(w) ==
  /\ pc[w] = "event"
  /\ \/ /\ pending' = [pending EXCEPT ![w] = Rows]
        /\ UNCHANGED owed
     \/ /\ "retrieve" \in Faulty
        /\ pending' = [pending EXCEPT ![w] = {}]
        /\ owed' = [owed EXCEPT ![w] = {}]
  /\ Goto(w, "publish")
  /\ UNCHANGED <<store, target, asked, held, reply, answer, issued, known, ended,
                 withdrawn, lost, renewed, promised, barred>>

\* The list after a visit: whether the event was sent, or was held back by a
\* filter or by a data sink that is not there, changes nothing.
StopAtFailure(list, i, sent) == IF sent THEN list \ {i} ELSE {}
Visited(list, i, sent) == list \ {i}

PublishToSubscriber(w, i) ==
  /\ pc[w] = "publish"
  /\ i \in pending[w]
  /\ \E sent \in BOOLEAN : pending' = [pending EXCEPT ![w] = Visited(@, i, sent)]
  /\ owed' = [owed EXCEPT ![w] = @ \ {i}]
  /\ UNCHANGED <<store, pc, target, asked, held, reply, answer, issued, known, ended,
                 withdrawn, lost, renewed, promised, barred>>

EndPublish(w) ==
  /\ pc[w] = "publish"
  /\ pending[w] = {}
  /\ Answer(w, "EventHandled", None)
  /\ UNCHANGED <<store, target, asked, held, pending, histories>>

-----------------------------------------------------------------------------
(* The server process goes down and comes back: the store is all that is    *)
(* left, and the messages in flight are never answered.                     *)

Crash ==
  /\ \E w \in Worker : pc[w] # "idle"
  /\ lost'    = lost \cup {target[w] : w \in {v \in Worker : pc[v] = "subReply"}}
  /\ pc'      = [w \in Worker |-> "idle"]
  /\ target'  = [w \in Worker |-> NoId]
  /\ asked'   = [w \in Worker |-> None]
  /\ held'    = [w \in Worker |-> Never]
  /\ pending' = [w \in Worker |-> {}]
  /\ reply'   = [w \in Worker |-> "none"]
  /\ answer'  = [w \in Worker |-> None]
  /\ renewed' = [w \in Worker |-> FALSE]
  /\ owed'    = [w \in Worker |-> {}]
  /\ barred'  = [w \in Worker |-> {}]
  /\ UNCHANGED <<store, issued, known, ended, withdrawn, promised>>

-----------------------------------------------------------------------------

Arrival(w) ==
  \/ ReceiveSubscribe(w)
  \/ ReceiveEvent(w)
  \/ \E i \in known \cup {NoId} :
       \/ ReceiveUnsubscribe(w, i)
       \/ ReceiveGetStatus(w, i)
       \/ \E e \in RenewAsks : ReceiveRenew(w, i, e)

Handle(w) ==
  \/ Subscribe(w)
  \/ HandleSubRequest(w)
  \/ Unsubscribe(w)
  \/ RemoveSubscriber(w)
  \/ HandleUnsubRequest(w)
  \/ RenewSubscription(w)
  \/ UpdateSubscriber(w)
  \/ HandleRenewRequest(w)
  \/ HandleGetStatusRequest(w)
  \/ HandleEvent(w)
  \/ \E i \in Id : PublishToSubscriber(w, i)
  \/ EndPublish(w)

Next ==
  \/ \E w \in Worker : Arrival(w) \/ Handle(w)
  \/ Crash

Spec == Init /\ [][Next]_vars

\* Every message is carried by a thread of its own, and every store call ends
\* (SqliteSubsMgr checks that), so a message in hand is worked on.
Fairness == \A w \in Worker : WF_vars(Handle(w))

FairSpec == Spec /\ Fairness

-----------------------------------------------------------------------------
(* What must hold.                                                          *)

\* A subscription whose SubscribeResponse was sent is in the store until a
\* removal was asked for it: savan_subs_mgr_add_subscriber hands the insert
\* status on, and no other step of any worker takes the row away.
AcknowledgedIsStored == \A i \in known : store[i] # NoRow \/ i \in withdrawn

\* The store holds only subscriptions whose SubscribeResponse was sent, is
\* about to be sent, or was swallowed by a crash: a Subscribe that was answered
\* by a fault (sub_processor.c:126 "don't add the subscriber into the list")
\* leaves no row behind.
NoUnacknowledgedRow ==
  \A i \in Rows : \/ i \in known \cup lost
                  \/ \E w \in Worker : pc[w] = "subReply" /\ target[w] = i

\* An UnsubscribeResponse is the truth (msg_recv.c:334 "check whether the
\* subscriber has been removed from the store"): the row is gone and stays
\* gone, whatever Renew messages were in flight with a copy of it.
UnsubscribedIsGone == \A i \in ended : store[i] = NoRow

\* A row that was removed never comes back: no step writes the row of an
\* identifier that has been given out and has none.
NoResurrection ==
  [][\A i \in issued : store[i] = NoRow => store'[i] = NoRow]_vars

\* A RenewResponse means that this worker's update found its row, although
\* an update of no row is reported as a success: the message receiver reads
\* the row again, and a removed row cannot have come back in between.
RenewResponseMeansRenewed ==
  \A w \in Worker : reply[w] = "RenewResponse" => renewed[w]

\* The publisher has gone to every subscriber that had its SubscribeResponse
\* when the event arrived, except those whose removal was asked for: a data
\* sink that fails, or a filter that lets the event not through, does not keep
\* the event from the others.
EventReachesSubscribers ==
  \A w \in Worker : reply[w] = "EventHandled" => owed[w] \subseteq withdrawn

\* An event that arrives after an UnsubscribeResponse does not go to that
\* subscriber, though the list of subscribers is read once and may be stale
\* against removals that happen while it is worked off.
NoEventAfterUnsubscribe ==
  \A w \in Worker : pc[w] = "publish" => pending[w] \cap barred[w] = {}

\* The expiry a RenewResponse reported last is the one in the store until a
\* Renew that asks for another one is stored (savan_client.h:66 "@return new
\* expiry date").
AnsweredExpiryHolds ==
  \A i \in Rows : promised[i] \in {None, store[i]}

\* The steps a message has still to take, at most: one for each access to the
\* store, one for each subscriber that is visited, and its answer.
Left(w) ==
  CASE pc[w] \in {"unsubscribe", "renew"} -> 3
    [] pc[w] \in {"subscribe", "remove", "update"} -> 2
    [] pc[w] \in {"subReply", "unsubReply", "renewReply", "getStatus"} -> 1
    [] pc[w] = "event" -> Cardinality(Id) + 2
    [] pc[w] = "publish" -> Cardinality(pending[w]) + 1
    [] OTHER -> 0

\* Each step of a handler counts down, and no other worker adds to what is left: no
\* handler starts over because a row it has read is gone or has changed by the
\* time it writes or answers, and the publisher's list does not grow.
MessagesAreBounded ==
  [][\A w \in Worker : pc[w] # "idle" =>
       IF Handle(w) THEN Left(w)' < Left(w) ELSE Left(w)' <= Left(w)]_vars

\* Every message that arrives is answered in the end.
EveryMessageAnswered ==
  \A w \in Worker : (pc[w] # "idle") ~> (pc[w] = "idle")

=============================================================================
