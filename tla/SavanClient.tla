----------------------------- MODULE SavanClient -----------------------------
(***************************************************************************)
(* The client library: an application thread that drives several           *)
(* savan_client_t structs, one for each subscription, over one service     *)
(* client of Axis2/C.  The service client keeps what the calls leave in    *)
(* it: the action option and the Identifier headers, which are only taken  *)
(* out when the application says so.                                       *)
(*                                                                         *)
(* The event source works on each request in the steps of its handlers,    *)
(* any of which may fail.  A request that nobody waits for any more goes   *)
(* on beside the later ones.  The store answers as the sqlite manager does *)
(* (an update of a missing row writes nothing), or takes a write and does  *)
(* nothing, as the service manager does with removals and updates.         *)
(***************************************************************************)
EXTENDS Naturals, Sequences, FiniteSets

CONSTANTS
  Client,      \* the savan_client_t structs
  Id,          \* the identifiers the event source can give
  NoId,        \* sub_id is NULL
  Expiry,      \* what a Renew can ask for
  Never,       \* the expiry the event source gives everybody
  NoRow,       \* the event source has no such subscription
  None,        \* no request, no answer, no expiry, no connection
  Connection,  \* bound: requests that are under way at a time
  Clears,      \* the calls before which the application removes all headers
  Faults,      \* what can fail: the store's calls, and "node", the Subscribe message
  MaxHeaders   \* bound: headers the service client collects

Call == {"subscribe", "renew", "getStatus", "unsubscribe"}

ASSUME ClientAssumption ==
  /\ NoId \notin Id
  /\ Never \notin Expiry
  /\ {NoRow, None} \cap (Expiry \cup {Never}) = {} /\ NoRow # None
  /\ Clears \subseteq Call
  /\ Faults \subseteq {"retrieve", "insert", "update", "remove", "node"}
  /\ MaxHeaders \in Nat

VARIABLES
  headers,  \* Identifier headers of the service client, in the order they were added
  action,   \* its action option: one of the calls, or the application's "own"
  saved,    \* old_action of the call
  subId,    \* client->sub_id
  caller,   \* the client that is in a call
  request,  \* what it has sent
  mine,     \* the connection on which it waits
  answer,   \* what has come back
  work,     \* the request of each connection, as far as the event source has come
  store,    \* the subscriptions at the event source
  issued,   \* the identifiers it has given
  \* Kept for the properties only.
  expected, \* the expiry that a call returned last, and what was written unseen since
  wrote,    \* what the Renew that is waited for has written
  unseen,   \* what Renews that nobody waits for have written since the answer
  spared,   \* the Unsubscribe that is waited for has failed to remove the row
  ended,    \* subscriptions whose Unsubscribe was a success, and did not fail to
  aborted   \* a Subscribe has left its action in the options

svcClient == <<headers, action>>
call      == <<caller, saved, request, mine>>
server    == <<store, issued>>
histories == <<expected, wrote, unseen, spared, ended, aborted>>
vars      == <<svcClient, call, answer, subId, work, server, histories>>

Stored  == Expiry \cup {Never}
Request == [type : Call, names : Id \cup {NoId}, asks : Expiry \cup {None}]
Answer  == [type : Call \cup {"Fault"}, id : Id \cup {NoId}, expires : Stored \cup {None}]
Work    == [req : Request, at : {"arrived", "write", "look"}, row : Stored \cup {None}]

ASSUME NoneAssumption == None \notin Client \cup Connection \cup Request \cup Answer \cup Work

TypeOK ==
  /\ headers  \in Seq(Id \cup {NoId}) /\ Len(headers) <= MaxHeaders
  /\ action   \in Call \cup {"own"}
  /\ saved    \in Call \cup {"own"}
  /\ subId    \in [Client -> Id \cup {NoId}]
  /\ caller   \in Client \cup {None}
  /\ request  \in Request \cup {None}
  /\ mine     \in Connection \cup {None}
  /\ answer   \in Answer \cup {None}
  /\ work     \in [Connection -> Work \cup {None}]
  /\ store    \in [Id -> Stored \cup {NoRow}]
  /\ issued   \subseteq Id
  /\ expected \in [Id -> SUBSET Stored]
  /\ wrote    \in Stored \cup {None}
  /\ unseen   \subseteq Stored
  /\ spared   \in BOOLEAN
  /\ ended    \subseteq Id
  /\ aborted  \in BOOLEAN

Init ==
  /\ headers  = <<>>
  /\ action   = "own"
  /\ saved    = "own"
  /\ subId    = [c \in Client |-> NoId]
  /\ caller   = None
  /\ request  = None
  /\ mine     = None
  /\ answer   = None
  /\ work     = [w \in Connection |-> None]
  /\ store    = [i \in Id |-> NoRow]
  /\ issued   = {}
  /\ expected = [i \in Id |-> {}]
  /\ wrote    = None
  /\ unseen   = {}
  /\ spared   = FALSE
  /\ ended    = {}
  /\ aborted  = FALSE

-----------------------------------------------------------------------------
(* The event source.  The action of a message tells what it is.             *)

\* savan_util_get_subscription_id_from_msg takes the first Identifier header.
First(hs) == IF hs = <<>> THEN NoId ELSE hs[1]

Arrived(r) == [req |-> r, at |-> "arrived", row |-> None]

At(w, type, at) == work[w] # None /\ work[w].req.type = type /\ work[w].at = at
Names(w)        == work[w].req.names
HasRow(w)       == Names(w) \in Id /\ store[Names(w)] # NoRow

Fault         == [type |-> "Fault", id |-> NoId, expires |-> None]
Granted(i)    == [type |-> "subscribe", id |-> i, expires |-> None]
Gone          == [type |-> "unsubscribe", id |-> NoId, expires |-> None]
Shows(t, row) == [type |-> t, id |-> NoId, expires |-> row]

\* The row of the identifier; a select that fails is taken for a missing row.
Retrieve(i) ==
  (IF i \in Id THEN {store[i]} ELSE {NoRow})
    \cup (IF "retrieve" \in Faults THEN {NoRow} ELSE {})

GoesOn(w, at, row) ==
  /\ work' = [work EXCEPT ![w] = [req |-> @.req, at |-> at, row |-> row]]
  /\ UNCHANGED answer

\* An answer that nobody waits for goes nowhere.
Answers(w, a) ==
  /\ work'   = [work EXCEPT ![w] = None]
  /\ answer' = IF w = mine THEN a ELSE answer

\* savan_sub_processor_subscribe and the answer.  The store may refuse the row,
\* or drop it and say nothing.
HandleSubscribe(w) ==
  /\ At(w, "subscribe", "arrived")
  /\ \E i \in Id \ issued :
       /\ issued' = issued \cup {i}
       /\ \/ store' = [store EXCEPT ![i] = Never] /\ Answers(w, Granted(i))
          \/ /\ "insert" \in Faults /\ UNCHANGED store
             /\ Answers(w, Fault) \/ Answers(w, Granted(i))
  /\ UNCHANGED <<svcClient, call, subId, histories>>

\* savan_sub_processor_unsubscribe up to the removal.
FindUnsubscribed(w) ==
  /\ At(w, "unsubscribe", "arrived")
  /\ \E row \in Retrieve(Names(w)) :
       \/ row = NoRow /\ Answers(w, Fault)
       \/ row # NoRow /\ GoesOn(w, "write", None)
  /\ spared' = IF w = mine THEN answer' # None /\ HasRow(w) ELSE spared
  /\ UNCHANGED <<svcClient, call, subId, server, expected, wrote, unseen, ended, aborted>>

\* savan_subs_mgr_remove_subscriber_with_msg_ctx drops the status of the removal.
RemoveSubscriber(w) ==
  /\ At(w, "unsubscribe", "write")
  /\ \/ /\ store' = [store EXCEPT ![Names(w)] = NoRow]
        /\ UNCHANGED spared
     \/ /\ "remove" \in Faults
        /\ spared' = IF w = mine THEN HasRow(w) ELSE spared
        /\ UNCHANGED store
  /\ GoesOn(w, "look", None)
  /\ UNCHANGED <<svcClient, call, subId, issued, expected, wrote, unseen, ended, aborted>>

\* savan_msg_recv_handle_unsub_request: a fault for a row that is still there.
HandleUnsubRequest(w) ==
  /\ At(w, "unsubscribe", "look")
  /\ \E row \in Retrieve(Names(w)) : Answers(w, IF row = NoRow THEN Gone ELSE Fault)
  /\ UNCHANGED <<svcClient, call, subId, server, histories>>

\* What savan_subs_mgr_get_subscriber_from_renew_msg leaves in the struct.
AskedExpiry(e, row)   == e
RenewedExpiry(e, row) == IF e = None THEN row ELSE e

\* savan_sub_processor_renew_subscription up to the update.
RenewSubscription(w) ==
  /\ At(w, "renew", "arrived")
  /\ \E row \in Retrieve(Names(w)) :
       \/ row = NoRow /\ Answers(w, Fault)
       \/ row # NoRow /\ GoesOn(w, "write", RenewedExpiry(work[w].req.asks, row))
  /\ UNCHANGED <<svcClient, call, subId, server, histories>>

\* The row after "update subscriber set ... where id=?".
UpsertedRow(row, e) == e
UpdatedRow(row, e)  == IF row = NoRow THEN NoRow ELSE e

\* For the histories: who is to learn of the row that an update has left.
Wrote(w, row) ==
  IF row = NoRow THEN UNCHANGED <<expected, wrote, unseen>>
  ELSE IF w = mine THEN wrote' = row /\ UNCHANGED <<expected, unseen>>
  ELSE /\ expected' = [expected EXCEPT ![Names(w)] = @ \cup {row}]
       /\ unseen' = IF answer # None /\ request.names = Names(w)
                    THEN unseen \cup {row} ELSE unseen
       /\ UNCHANGED wrote

\* savan_subs_mgr_update_subscriber writes the struct back.  The store may refuse
\* it, or, as the service manager does, leave the row and report a success.
UpdateSubscriber(w) ==
  /\ At(w, "renew", "write")
  /\ \/ /\ store' = [store EXCEPT ![Names(w)] = UpdatedRow(@, work[w].row)]
        /\ Wrote(w, store'[Names(w)])
        /\ GoesOn(w, "look", work[w].row)
     \/ /\ "update" \in Faults
        /\ Answers(w, Fault) \/ GoesOn(w, "look", work[w].row)
        /\ UNCHANGED <<store, expected, wrote, unseen>>
  /\ UNCHANGED <<svcClient, call, subId, issued, spared, ended, aborted>>

\* Where savan_msg_recv_handle_renew_request finds the expiry it answers with.
FromStruct(w) == {work[w].row}
ReadAgain(w)  == Retrieve(Names(w))

\* savan_msg_recv_handle_renew_request: a read that fails makes a fault of an
\* update that was stored.
HandleRenewRequest(w) ==
  /\ At(w, "renew", "look")
  /\ \E row \in ReadAgain(w) : Answers(w, IF row = NoRow THEN Fault ELSE Shows("renew", row))
  /\ UNCHANGED <<svcClient, call, subId, server, histories>>

\* The in-handler only copies the identifier.
HandleGetStatusRequest(w) ==
  /\ At(w, "getStatus", "arrived")
  /\ \E row \in Retrieve(Names(w)) :
       Answers(w, IF row = NoRow THEN Fault ELSE Shows("getStatus", row))
  /\ UNCHANGED <<svcClient, call, subId, server, histories>>

-----------------------------------------------------------------------------
(* The calls of the client library.                                         *)

Idle == caller = None

\* axis2_svc_client_remove_all_headers, where the application calls it.
HeadersLeft(o) == headers
HeadersOf(o)   == IF o \in Clears THEN <<>> ELSE headers

\* savan_client_add_sub_id_to_soap_header.
WithHeader(c, o) ==
  IF o = "subscribe" THEN HeadersOf(o) ELSE Append(HeadersOf(o), subId[c])

\* A call up to axis2_svc_client_send_receive.
Send(c, o, e) ==
  /\ Idle
  /\ Len(WithHeader(c, o)) <= MaxHeaders
  /\ caller'  = c
  /\ headers' = WithHeader(c, o)
  /\ saved'   = action
  /\ action'  = o
  /\ request' = [type |-> action', names |-> First(headers'), asks |-> e]
  /\ \E w \in Connection :
       /\ work[w] = None
       /\ mine' = w
       /\ work' = [work EXCEPT ![w] = Arrived(request')]
  /\ UNCHANGED <<answer, subId, server, histories>>

Subscribe(c)   == Send(c, "subscribe", None)
Renew(c, e)    == Send(c, "renew", e)
GetStatus(c)   == Send(c, "getStatus", None)
Unsubscribe(c) == Send(c, "unsubscribe", None)

\* savan_client_subscribe without a Subscribe node: nothing is sent, and this one
\* return leaves the action option as the call has set it.
SubscribeFails(c) ==
  /\ Idle
  /\ "node" \in Faults
  /\ action'  = "subscribe"
  /\ aborted' = TRUE
  /\ UNCHANGED <<headers, call, answer, subId, work, server,
                 expected, wrote, unseen, spared, ended>>

\* Once a request was sent the action option is set back before the reply is
\* looked at.
KeepAction  == UNCHANGED action
ResetAction == action' = saved

Return ==
  /\ caller # None
  /\ ResetAction
  /\ caller'  = None
  /\ request' = None
  /\ mine'    = None
  /\ answer'  = None
  /\ saved'   = "own"
  /\ wrote'   = None
  /\ unseen'  = {}
  /\ spared'  = FALSE
  /\ UNCHANGED <<headers, server, aborted>>

\* The expiry that the call has written, and does not tell.
LeavesUntold ==
  expected' = IF wrote = None THEN expected
              ELSE [expected EXCEPT ![request.names] = @ \cup {wrote}]

\* The other calls look for the response they expect.
Answered == answer # None /\ answer.type = request.type

SubscribeReturns ==
  /\ Answered /\ request.type = "subscribe"
  /\ Return
  /\ subId' = [subId EXCEPT ![caller] = answer.id]
  /\ expected' = [expected EXCEPT ![answer.id] = @ \cup {Never}]
  /\ UNCHANGED <<work, ended>>

ExpiryReturns ==
  /\ Answered /\ request.type \in {"renew", "getStatus"}
  /\ Return
  /\ expected' = [expected EXCEPT ![request.names] = {answer.expires} \cup unseen]
  /\ UNCHANGED <<subId, work, ended>>

\* Whatever comes back, a fault too, is a success.
UnsubscribeReturns ==
  /\ answer # None /\ request.type = "unsubscribe"
  /\ Return
  /\ ended' = IF spared THEN ended ELSE ended \cup ({subId[caller]} \cap Id)
  /\ UNCHANGED <<subId, work, expected>>

FaultReturns ==
  /\ answer # None /\ answer.type = "Fault" /\ request.type # "unsubscribe"
  /\ Return
  /\ LeavesUntold
  /\ UNCHANGED <<subId, work, ended>>

\* No answer comes: the answer is lost, or the request with all that was still to
\* be done for it, or the request goes on and nobody waits for it.
Fails ==
  /\ Return
  /\ LeavesUntold
  /\ UNCHANGED work \/ work' = [work EXCEPT ![mine] = None]
  /\ UNCHANGED <<subId, ended>>

\* The application sends a message of its own as the sample subscriber does: with
\* its own action, and without headers.
SendEvent ==
  /\ Idle
  /\ action'  = "own"
  /\ headers' = <<>>
  /\ aborted' = FALSE
  /\ UNCHANGED <<call, answer, subId, work, server, expected, wrote, unseen, spared, ended>>

Handle(w) ==
  \/ HandleSubscribe(w)
  \/ FindUnsubscribed(w)
  \/ RemoveSubscriber(w)
  \/ HandleUnsubRequest(w)
  \/ RenewSubscription(w)
  \/ UpdateSubscriber(w)
  \/ HandleRenewRequest(w)
  \/ HandleGetStatusRequest(w)

Next ==
  \/ \E c \in Client : Subscribe(c) \/ SubscribeFails(c) \/ GetStatus(c) \/ Unsubscribe(c)
  \/ \E c \in Client, e \in Expiry \cup {None} : Renew(c, e)
  \/ \E w \in Connection : Handle(w)
  \/ SubscribeReturns \/ ExpiryReturns \/ UnsubscribeReturns \/ FaultReturns \/ Fails
  \/ SendEvent

Spec == Init /\ [][Next]_vars

-----------------------------------------------------------------------------
(* Properties.                                                              *)

\* Once Unsubscribe has returned AXIS2_SUCCESS the subscription is gone and stays
\* gone, whatever Renews arrive late.  savan_client_unsubscribe takes a fault for
\* a success, so this leaves out the subscription whose removal failed, or that
\* the event source did not find though it was there.
UnsubscribeEnds == \A i \in ended : store[i] = NoRow

\* A call before which the application has removed the headers, as the sample
\* subscriber does, is about the caller's own subscription, whatever headers
\* the calls for other subscriptions have left in the service client.
RequestNamesSubscription ==
  ~Idle /\ request.type \in Clears \ {"subscribe"} => request.names = subId[caller]

\* The expiry that savan_client_renew or savan_client_get_status returned last
\* for a subscription is the one it has, unless a Renew has written another one
\* since and its caller got no RenewResponse, or waits for it: what the Renew asks
\* for, or an expiry that it had read before.
ExpiryIsKnown ==
  \A i \in Id : store[i] # NoRow /\ expected[i] # {} =>
    \/ store[i] \in expected[i]
    \/ ~Idle /\ request.names = i /\ wrote = store[i]

\* A message that the application itself sends through the service client is not
\* taken for the request of an earlier call, those that fail included.  The
\* Subscribe that could not make its message is the exception, until the
\* application sets its own action again.
EventIsEvent == Idle => action = "own" \/ (aborted /\ action = "subscribe")
=============================================================================
