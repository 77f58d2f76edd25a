--------------------------- MODULE ServiceSubsMgr ---------------------------
(***************************************************************************)
(* The service subscription manager: the store is a Web service that       *)
(* several event sources share, and each call is one SOAP message to it.   *)
(* An insert does not look at what became of its message, a renewal and a  *)
(* removal send none, and a retrieval takes no answer for no subscriber.   *)
(*                                                                         *)
(* The service itself (subs_mgr_svc) keeps the subscribers in a sqlite     *)
(* manager of its own; a call of that one is atomic, as SqliteSubsMgr has  *)
(* it.  A message whose sender has given up may still arrive.              *)
(***************************************************************************)
EXTENDS SubscriberCodec, FiniteSets

CONSTANTS
  Inserted,  \* the subscribers that are inserted in this instance
  Topic,     \* the filters that subscribers are listed by, Null for none
  Faults     \* which may happen: a lost "message", an "insert" or a "retrieve"
             \* that fails in a store, a "crash" of a caller

ASSUME ServiceAssumption ==
  /\ Inserted \subseteq Subscriber
  /\ Topic \subseteq Maybe
  /\ Faults \subseteq {"message", "insert", "retrieve", "crash"}

VARIABLES
  table,   \* the subscribers the service has stored
  late,    \* the AddSubscriber messages nobody waits for, still on their way
  pc,      \* where each process is in its call of the manager
  op,      \* the call
  arg,     \* its identifier, or the filter of a list
  answer,  \* the Subscriber elements the service has answered with
  \* Kept for the properties only.
  asked,   \* what was handed to the insert of each identifier
  tables   \* what the service has stored since a retrieval was called

calls == <<pc, op, arg, answer>>
svcVars == <<table, late, calls, asked, tables>>

Op == {"none", "insert", "retrieve", "retrieveAll"}

SvcTypeOK ==
  /\ table  \in [Id -> Row]
  /\ late   \subseteq Id
  /\ pc     \in [Proc -> {"idle", "sent", "answered"}]
  /\ op     \in [Proc -> Op]
  /\ arg    \in [Proc -> Id \cup Maybe]
  /\ answer \in [Proc -> [Id -> Element]]
  /\ asked  \in [Id -> Row]
  /\ tables \in [Proc -> SUBSET [Id -> Row]]

SvcInit ==
  /\ table  = Empty
  /\ late   = {}
  /\ pc     = [p \in Proc |-> "idle"]
  /\ op     = [p \in Proc |-> "none"]
  /\ arg    = [p \in Proc |-> Null]
  /\ answer = [p \in Proc |-> Empty]
  /\ asked  = Empty
  /\ tables = [p \in Proc |-> {}]

-----------------------------------------------------------------------------
(* Helpers.                                                                *)

\* Each table the service comes to hold is one a retrieval may be answered from.
Watch(new) ==
  tables' = [p \in Proc |-> IF tables[p] = {} THEN {} ELSE tables[p] \cup {new}]

\* savan_subs_mgr_svc_add_subscriber: what the element says, less the column
\* there is not.
StoredUnread(s) == AddSubscriberNode(s)
Stored(s) == Columns(ReadSubscriber(AddSubscriberNode(s)))

\* An identifier is the key of the table.
WithRow(i, s) == IF table[i] = NoRow THEN [table EXCEPT ![i] = Stored(s)] ELSE table

\* savan_util_create_savan_specific_subscriber_node, for each row of a list.
Elements(rows) == [i \in Id |-> IF rows[i] = NoRow THEN NoRow ELSE SubscriberNode(rows[i])]
\* savan_service_subs_mgr_process_savan_specific_subscriber_node.
Subscribers(els) == [i \in Id |-> IF els[i] = NoRow THEN NoRow ELSE ReadSubscriber(els[i])]

\* What savan_subs_mgr_svc_get_subscriber_list selects; a request without a
\* filter is refused.
Listed(rows, t) ==
  [i \in Id |-> IF rows[i] # NoRow /\ t # Null /\ rows[i].filter = t THEN rows[i] ELSE NoRow]
Only(rows, i) == [j \in Id |-> IF j = i THEN rows[i] ELSE NoRow]

Selected(p, rows) == IF op[p] = "retrieve" THEN Only(rows, arg[p]) ELSE Listed(rows, arg[p])

-----------------------------------------------------------------------------
(* The caller.                                                              *)

Send(p, o, a) ==
  /\ pc[p] = "idle"
  /\ pc'     = [pc EXCEPT ![p] = "sent"]
  /\ op'     = [op EXCEPT ![p] = o]
  /\ arg'    = [arg EXCEPT ![p] = a]
  /\ tables' = [tables EXCEPT ![p] = IF o = "insert" THEN {} ELSE {table}]
  /\ UNCHANGED <<table, late, answer>>

\* An identifier is inserted once, being a UUID.
SendInsert(p, i, s) ==
  /\ asked[i] = NoRow
  /\ asked' = [asked EXCEPT ![i] = s]
  /\ Send(p, "insert", i)

SendRetrieve(p, i)    == Send(p, "retrieve", i) /\ UNCHANGED asked
SendRetrieveAll(p, t) == Send(p, "retrieveAll", t) /\ UNCHANGED asked

\* What a retrieval returns; no answer is no subscriber.
Result(p) == Subscribers(answer[p])

Return(p) ==
  /\ pc'     = [pc EXCEPT ![p] = "idle"]
  /\ op'     = [op EXCEPT ![p] = "none"]
  /\ arg'    = [arg EXCEPT ![p] = Null]
  /\ answer' = [answer EXCEPT ![p] = Empty]
  /\ tables' = [tables EXCEPT ![p] = {}]
  /\ UNCHANGED <<table, asked>>

Answered(p) == pc[p] = "answered" /\ Return(p) /\ UNCHANGED late

\* The request stays on its way, or it is lost.
Abandon(p) ==
  /\ pc[p] # "idle"
  /\ Return(p)
  /\ \/ UNCHANGED late
     \/ pc[p] = "sent" /\ op[p] = "insert" /\ late' = late \cup {arg[p]}

\* The caller waits no longer: an insert is a success all the same, a retrieval
\* has found nothing.
GiveUp(p) == "message" \in Faults /\ Abandon(p)

Crash(p) == "crash" \in Faults /\ Abandon(p)

-----------------------------------------------------------------------------
(* The service.                                                             *)

\* The service answers an AddSubscriber in any case with nothing.
AddSubscriber(p) ==
  /\ pc[p] = "sent" /\ op[p] = "insert"
  /\ pc' = [pc EXCEPT ![p] = "answered"]
  /\ \/ table' = WithRow(arg[p], asked[arg[p]])
     \/ "insert" \in Faults /\ UNCHANGED table
  /\ Watch(table')
  /\ UNCHANGED <<late, op, arg, answer, asked>>

LateAddSubscriber(i) ==
  /\ i \in late
  /\ late'  = late \ {i}
  /\ table' = WithRow(i, asked[i])
  /\ Watch(table')
  /\ UNCHANGED <<calls, asked>>

\* GetSubscriber and GetSubscriberList.  A list is answered as a whole or not
\* at all.
Ask(p) ==
  /\ pc[p] = "sent" /\ op[p] \in {"retrieve", "retrieveAll"}
  /\ pc' = [pc EXCEPT ![p] = "answered"]
  /\ \/ answer' = [answer EXCEPT ![p] = Elements(Selected(p, table))]
     \/ "retrieve" \in Faults /\ UNCHANGED answer
  /\ UNCHANGED <<table, late, op, arg, asked, tables>>

\* RemoveSubscriber: no event source sends it, but the service answers it.
RemoveSubscriber(i) ==
  /\ table[i] # NoRow
  /\ table' = [table EXCEPT ![i] = NoRow]
  /\ Watch(table')
  /\ UNCHANGED <<late, calls, asked>>

SvcNext ==
  \/ \E p \in Proc :
       \/ \E i \in Id : SendRetrieve(p, i) \/ \E s \in Inserted : SendInsert(p, i, s)
       \/ \E t \in Topic : SendRetrieveAll(p, t)
       \/ Answered(p) \/ GiveUp(p) \/ Crash(p) \/ AddSubscriber(p) \/ Ask(p)
  \/ \E i \in Id : LateAddSubscriber(i) \/ RemoveSubscriber(i)

SvcSpec == SvcInit /\ [][SvcNext]_svcVars

-----------------------------------------------------------------------------

\* A subscriber is stored as it was handed to the insert or not at all, and with
\* nothing of another one, however late its message arrives; what the message
\* does not carry is missing.
StoredIsInserted ==
  \A i \in Id : table[i] # NoRow =>
    /\ asked[i] # NoRow
    /\ table[i] = [asked[i] EXCEPT !.notifyTo = Null, !.dialect = Null]

\* A retrieval returns what the service stored at one moment of the call, a list
\* all that it stored then for the filter, or nothing; and of each subscriber the
\* EndTo and the expiry alone.
Kept(rows) == [i \in Id |-> IF rows[i] = NoRow THEN NoRow
                            ELSE [endTo |-> rows[i].endTo, notifyTo |-> Null,
                                  expires |-> rows[i].expires, filter |-> Null, dialect |-> Null]]
RetrievedIsSnapshot ==
  \A p \in Proc : (pc[p] = "answered" /\ op[p] # "insert") =>
    \/ Result(p) = Empty
    \/ \E rows \in tables[p] :
         Result(p) = Kept(IF op[p] = "retrieve" THEN Only(rows, arg[p]) ELSE Listed(rows, arg[p]))

=============================================================================
