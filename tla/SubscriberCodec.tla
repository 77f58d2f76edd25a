-------------------------- MODULE SubscriberCodec ---------------------------
(***************************************************************************)
(* The subscriber struct and the forms it takes on its way: the Subscribe  *)
(* element a client or the subscription manager service writes, the        *)
(* AddSubscriber element of the service manager, the columns of the sqlite *)
(* table, and what is read from each of them.  A field that is not set is  *)
(* NULL; an element without text is read as one that is not there.  The    *)
(* identifier travels beside all of them and is left out.                  *)
(***************************************************************************)
CONSTANTS
  Text,   \* what a field can hold
  Null,   \* a field, a text or an attribute that is not there
  Proc,   \* the threads and processes that handle subscribers
  Id,     \* subscription identifiers
  NoRow   \* no subscriber, or no element, for an identifier

Maybe == Text \cup {Null}

Subscriber == [endTo : Maybe, notifyTo : Maybe, expires : Maybe, filter : Maybe, dialect : Maybe]

\* The texts of a Subscribe element: that of NotifyTo itself, and that of the
\* Address below NotifyTo; Dialect is an attribute of Filter.
Node == [EndTo : Maybe, NotifyTo : Maybe, Address : Maybe, Expires : Maybe,
         Filter : Maybe, Dialect : Maybe]

ASSUME CodecAssumption == Null \notin Text /\ NoRow \notin Subscriber \cup Node

\* What a table holds for each identifier, and what a retrieval returns.
Row     == Subscriber \cup {NoRow}
Element == Node \cup {NoRow}
Empty   == [i \in Id |-> NoRow]

-----------------------------------------------------------------------------

\* savan_util_create_subscriber_node.  The filter is written with its dialect
\* or not at all.
DialectIfSet(s)   == [EndTo |-> s.endTo, NotifyTo |-> s.notifyTo, Address |-> Null,
                      Expires |-> s.expires, Filter |-> s.filter, Dialect |-> s.dialect]
SubscriberNode(s) ==
  LET filtered == s.filter # Null /\ s.dialect # Null
  IN  [EndTo    |-> s.endTo,
       NotifyTo |-> Null,
       Address  |-> s.notifyTo,
       Expires  |-> s.expires,
       Filter   |-> IF filtered THEN s.filter ELSE Null,
       Dialect  |-> IF filtered THEN s.dialect ELSE Null]

\* savan_service_subs_mgr_build_add_subscriber_om_payload.  The address is the
\* text of NotifyTo, and the dialect is not written.
AddSubscriberNode(s) ==
  [EndTo |-> s.endTo, NotifyTo |-> s.notifyTo, Address |-> Null,
   Expires |-> s.expires, Filter |-> s.filter, Dialect |-> Null]

\* savan_util_process_subscriber_node, into a struct with nothing set.
ReadText(n)       == [endTo |-> n.EndTo, notifyTo |-> n.NotifyTo, expires |-> n.Expires,
                      filter |-> n.Filter, dialect |-> n.Dialect]
ReadSubscriber(n) ==
  [endTo |-> n.EndTo, notifyTo |-> n.Address, expires |-> n.Expires,
   filter |-> n.Filter, dialect |-> n.Dialect]

\* The columns of the sqlite table: there is none for the dialect.
Columns(s) == [s EXCEPT !.dialect = Null]

=============================================================================
