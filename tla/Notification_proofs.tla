------------------------- MODULE Notification_proofs -------------------------
(***************************************************************************)
(* Proofs about the way from a subscription to its events, for any builds, *)
(* processes, subscribers, filters and faults.                             *)
(***************************************************************************)
EXTENDS Notification, FiniteSetTheorems, TLAPS

-----------------------------------------------------------------------------
(* The forms of a subscriber.                                               *)

\* What the types of the conversions are.
LEMMA CodecTypes ==
  /\ \A s \in Subscriber : SubscriberNode(s) \in Node /\ AddSubscriberNode(s) \in Node
                           /\ Columns(s) \in Subscriber
  /\ \A n \in Node : ReadSubscriber(n) \in Subscriber
  /\ Empty \in [Id -> Row] /\ Empty \in [Id -> Element]
BY DEF SubscriberNode, AddSubscriberNode, Columns, ReadSubscriber, Subscriber, Node, Maybe, Empty, Row,
       Element

\* A subscriber that has a filter with its dialect, or neither, comes through the
\* Subscribe element as it was.
THEOREM ElementRoundTrip ==
  ASSUME NEW s \in Subscriber, s.filter = Null <=> s.dialect = Null
  PROVE  ReadSubscriber(SubscriberNode(s)) = s
BY DEF ReadSubscriber, SubscriberNode, Subscriber

\* What the service stores of a subscriber has lost its address and its dialect.
LEMMA StoredIs ==
  ASSUME NEW s \in Subscriber
  PROVE  /\ Stored(s) = [s EXCEPT !.notifyTo = Null, !.dialect = Null]
         /\ Stored(s) \in Subscriber /\ Stored(s).notifyTo = Null /\ Stored(s).dialect = Null
<1>1. Stored(s) = [endTo |-> s.endTo, notifyTo |-> Null, expires |-> s.expires,
                   filter |-> s.filter, dialect |-> Null]
  BY DEF Stored, Columns, ReadSubscriber, AddSubscriberNode
<1>2. [s EXCEPT !.notifyTo = Null, !.dialect = Null] =
        [endTo |-> s.endTo, notifyTo |-> Null, expires |-> s.expires,
         filter |-> s.filter, dialect |-> Null]
  <2> DEFINE q == [s EXCEPT !.notifyTo = Null]
  <2>1. q = [endTo |-> s.endTo, notifyTo |-> Null, expires |-> s.expires,
             filter |-> s.filter, dialect |-> s.dialect]
    BY DEF Subscriber
  <2> HIDE DEF q
  <2>2. [q EXCEPT !.dialect = Null] =
          [endTo |-> s.endTo, notifyTo |-> Null, expires |-> s.expires,
           filter |-> s.filter, dialect |-> Null]
    BY <2>1
  <2> QED
    BY <2>2 DEF q
<1>3. Stored(s) \in Subscriber
  BY <1>1 DEF Subscriber, Maybe
<1> QED
  BY <1>1, <1>2, <1>3

\* Rows as the service holds them.
Bare(rs) == \A i \in Id : rs[i] # NoRow => rs[i].notifyTo = Null /\ rs[i].dialect = Null

\* ... and what comes of them on their way back.
LEMMA KeptIs ==
  ASSUME NEW rs \in [Id -> Row], Bare(rs)
  PROVE  /\ Elements(rs) \in [Id -> Element]
         /\ Subscribers(Elements(rs)) = Kept(rs)
<1>1. ASSUME NEW i \in Id, rs[i] # NoRow
      PROVE  /\ SubscriberNode(rs[i]) \in Node /\ SubscriberNode(rs[i]) # NoRow
             /\ ReadSubscriber(SubscriberNode(rs[i])) =
                  [endTo |-> rs[i].endTo, notifyTo |-> Null, expires |-> rs[i].expires,
                   filter |-> Null, dialect |-> Null]
  <2>1. rs[i] \in Subscriber
    BY <1>1 DEF Row
  <2>2. SubscriberNode(rs[i]) \in Node
    BY <2>1, CodecTypes
  <2>3. rs[i].notifyTo = Null /\ rs[i].dialect = Null
    BY <1>1 DEF Bare
  <2> QED
    BY <2>2, <2>3, CodecAssumption DEF ReadSubscriber, SubscriberNode
<1>2. Elements(rs) \in [Id -> Element]
  BY <1>1 DEF Elements, Element
<1>3. ASSUME NEW i \in Id PROVE Subscribers(Elements(rs))[i] = Kept(rs)[i]
  BY <1>1 DEF Subscribers, Elements, Kept
<1> QED
  BY <1>2, <1>3 DEF Subscribers, Kept

\* A selection of a table is a table.
LEMMA Selections ==
  ASSUME NEW rs \in [Id -> Row], Bare(rs), NEW i, NEW t
  PROVE  /\ Only(rs, i) \in [Id -> Row] /\ Bare(Only(rs, i))
         /\ Listed(rs, t) \in [Id -> Row] /\ Bare(Listed(rs, t))
BY DEF Only, Listed, Bare, Row

-----------------------------------------------------------------------------
(* The service and its callers.                                             *)

Retrieval == {"retrieve", "retrieveAll"}

Select(o, a, rs) == IF o = "retrieve" THEN Only(rs, a) ELSE Listed(rs, a)

CallInv(p) ==
  /\ pc[p] = "idle" => answer[p] = Empty
  /\ pc[p] # "idle" => op[p] # "none"
  /\ op[p] = "insert" => arg[p] \in Id /\ asked[arg[p]] # NoRow
  /\ pc[p] # "idle" /\ op[p] \in Retrieval => table \in tables[p]
  /\ pc[p] = "sent" => answer[p] = Empty
  /\ \A rs \in tables[p] : Bare(rs)
  /\ pc[p] = "answered" /\ op[p] \in Retrieval =>
       answer[p] = Empty \/ \E rs \in tables[p] : answer[p] = Elements(Select(op[p], arg[p], rs))

\* StoredIsInserted, in the words of the code.
StoredAsRead ==
  \A i \in Id : table[i] # NoRow => asked[i] # NoRow /\ table[i] = Stored(asked[i])

SvcInv ==
  /\ SvcTypeOK
  /\ StoredAsRead
  /\ \A i \in late : asked[i] # NoRow
  /\ \A p \in Proc : CallInv(p)

LEMMA SvcInit_Inv == SvcInit => SvcInv
BY CodecTypes DEF SvcInit, SvcInv, CallInv, SvcTypeOK, StoredAsRead, Op, Maybe, Empty, Row

\* An identifier of the sqlite manager is taken.
AskLocal ==
  /\ \E i \in Id, s \in Inserted : asked[i] = NoRow /\ asked' = [asked EXCEPT ![i] = s]
  /\ UNCHANGED <<table, late, calls, tables>>

LEMMA TableBare ==
  ASSUME SvcInv
  PROVE  StoredIsInserted /\ Bare(table)
<1> SUFFICES ASSUME NEW i \in Id, table[i] # NoRow
             PROVE  /\ asked[i] # NoRow
                    /\ table[i] = [asked[i] EXCEPT !.notifyTo = Null, !.dialect = Null]
                    /\ table[i].notifyTo = Null /\ table[i].dialect = Null
  BY DEF Bare, StoredIsInserted
<1>1. asked[i] # NoRow /\ asked[i] \in Subscriber /\ table[i] = Stored(asked[i])
  BY DEF SvcInv, SvcTypeOK, StoredAsRead, Row
<1> QED
  BY <1>1, StoredIs

\* A subscriber is stored.
LEMMA WithRowIs ==
  ASSUME SvcInv, NEW i \in Id, asked[i] # NoRow
  PROVE  /\ WithRow(i, asked[i]) \in [Id -> Row]
         /\ Bare(WithRow(i, asked[i]))
         /\ \A j \in Id : WithRow(i, asked[i])[j] # NoRow =>
              asked[j] # NoRow /\ WithRow(i, asked[i])[j] = Stored(asked[j])
<1>1. asked[i] \in Subscriber /\ table \in [Id -> Row] /\ Bare(table)
  BY TableBare DEF SvcInv, SvcTypeOK, Row
<1>2. /\ Stored(asked[i]) \in Subscriber /\ Stored(asked[i]).notifyTo = Null
      /\ Stored(asked[i]).dialect = Null
  BY <1>1, StoredIs
<1> QED
  BY <1>1, <1>2 DEF WithRow, Bare, Row, SvcInv, StoredAsRead

LEMMA ResultIs ==
  ASSUME SvcInv, NEW p \in Proc
  PROVE  /\ Result(p) \in [Id -> Row]
         /\ op[p] \in Retrieval => \A i \in Id : Result(p)[i] # NoRow => Result(p)[i].notifyTo = Null
         /\ pc[p] = "answered" /\ op[p] \in Retrieval =>
              Result(p) = Empty \/ \E rs \in tables[p] : Result(p) = Kept(Select(op[p], arg[p], rs))
<1>1. answer[p] \in [Id -> Element] /\ tables[p] \subseteq [Id -> Row]
  BY DEF SvcInv, SvcTypeOK
<1>2. Result(p) \in [Id -> Row]
  BY <1>1, CodecTypes DEF Result, Subscribers, Element, Row
<1>3. answer[p] = Empty => Result(p) = Empty
  BY DEF Result, Subscribers, Empty
<1>4. pc[p] = "answered" /\ op[p] \in Retrieval =>
        Result(p) = Empty \/ \E rs \in tables[p] : Result(p) = Kept(Select(op[p], arg[p], rs))
  <2> SUFFICES ASSUME pc[p] = "answered", op[p] \in Retrieval, answer[p] # Empty
               PROVE  \E rs \in tables[p] : Result(p) = Kept(Select(op[p], arg[p], rs))
    BY <1>3
  <2>1. PICK rs \in tables[p] : answer[p] = Elements(Select(op[p], arg[p], rs))
    BY DEF SvcInv, CallInv
  <2>2. rs \in [Id -> Row] /\ Bare(rs)
    BY <1>1 DEF SvcInv, CallInv
  <2>3. Select(op[p], arg[p], rs) \in [Id -> Row] /\ Bare(Select(op[p], arg[p], rs))
    BY <2>2, Selections DEF Select
  <2> QED
    BY <2>1, <2>3, KeptIs DEF Result
<1>5. ASSUME op[p] \in Retrieval, NEW i \in Id, Result(p)[i] # NoRow PROVE Result(p)[i].notifyTo = Null
  <2>1. pc[p] = "answered"
    <3>1. pc[p] \in {"idle", "sent", "answered"} /\ Empty[i] = NoRow
      BY DEF SvcInv, SvcTypeOK, Empty
    <3> QED
      BY <1>3, <1>5, <3>1 DEF SvcInv, CallInv
  <2>2. Result(p) = Empty \/ \E rs \in tables[p] : Result(p) = Kept(Select(op[p], arg[p], rs))
    BY <1>4, <1>5, <2>1
  <2> QED
    BY <1>5, <2>2 DEF Empty, Kept
<1> QED
  BY <1>2, <1>4, <1>5

\* What the service does about the tables a caller may be answered from.
LEMMA WatchKeeps ==
  ASSUME SvcInv, NEW new \in [Id -> Row], Bare(new), Watch(new)
  PROVE  /\ tables' \in [Proc -> SUBSET [Id -> Row]]
         /\ \A p \in Proc : /\ tables[p] \subseteq tables'[p]
                            /\ \A rs \in tables'[p] : Bare(rs)
                            /\ tables[p] # {} => new \in tables'[p]
BY DEF Watch, SvcInv, SvcTypeOK, CallInv

\* A request is sent.
LEMMA SendKeeps ==
  ASSUME SvcInv, NEW p \in Proc, NEW o \in Op \ {"none"}, NEW a \in Id \cup Maybe,
         o = "insert" => a \in Id /\ asked'[a] # NoRow,
         asked' \in [Id -> Row], \A i \in Id : asked[i] # NoRow => asked'[i] = asked[i],
         Send(p, o, a)
  PROVE  SvcInv'
<1> USE DEF SvcInv, SvcTypeOK, CallInv
<1>1. SvcTypeOK'
  BY DEF Send
<1>2. StoredAsRead' /\ (\A i \in late : asked[i] # NoRow)'
  BY DEF Send, StoredAsRead
<1>3. ASSUME NEW q \in Proc PROVE CallInv(q)'
  <2>1. CASE q = p
    BY <2>1, TableBare DEF Send, Retrieval, Op
  <2>2. CASE q # p
    BY <2>2 DEF Send, Retrieval
  <2> QED
    BY <2>1, <2>2
<1> QED
  BY <1>1, <1>2, <1>3

\* A call ends, whatever its end.
LEMMA ReturnKeeps ==
  ASSUME SvcInv, NEW p \in Proc, pc[p] # "idle", Return(p),
         late' = late \/ (op[p] = "insert" /\ late' = late \cup {arg[p]})
  PROVE  SvcInv'
<1> USE DEF SvcInv, SvcTypeOK, CallInv
<1>1. SvcTypeOK'
  BY CodecTypes DEF Return, Op, Maybe
<1>2. StoredAsRead' /\ (\A i \in late : asked[i] # NoRow)'
  BY DEF Return, StoredAsRead
<1>3. ASSUME NEW q \in Proc PROVE CallInv(q)'
  <2>1. CASE q = p
    BY <2>1 DEF Return, Retrieval
  <2>2. CASE q # p
    BY <2>2 DEF Return, Retrieval
  <2> QED
    BY <2>1, <2>2
<1> QED
  BY <1>1, <1>2, <1>3

\* The table changes.
LEMMA StoreKeeps ==
  ASSUME SvcInv, NEW new \in [Id -> Row], Bare(new), table' = new, Watch(table'),
         \A j \in Id : new[j] # NoRow => asked[j] # NoRow /\ new[j] = Stored(asked[j]),
         late' \subseteq late, asked' = asked, op' = op, arg' = arg, answer' = answer,
         pc' = pc \/ \E p \in Proc : /\ pc[p] = "sent" /\ op[p] = "insert"
                                   /\ pc' = [pc EXCEPT ![p] = "answered"]
  PROVE  SvcInv'
<1> USE DEF SvcInv, SvcTypeOK, CallInv
<1>1. /\ tables' \in [Proc -> SUBSET [Id -> Row]]
      /\ \A p \in Proc : /\ tables[p] \subseteq tables'[p]
                         /\ \A rs \in tables'[p] : Bare(rs)
                         /\ tables[p] # {} => new \in tables'[p]
  BY WatchKeeps
<1>2. SvcTypeOK'
  BY <1>1
<1>3. StoredAsRead' /\ (\A i \in late : asked[i] # NoRow)'
  BY DEF StoredAsRead
<1>4. ASSUME NEW q \in Proc PROVE CallInv(q)'
  BY <1>1 DEF Retrieval
<1> QED
  BY <1>2, <1>3, <1>4

\* What becomes of the variables of ServiceSubsMgr in any step of Notification.
SvcMove ==
  \/ AskLocal
  \/ \E p \in Proc :
       \/ \E i \in Id : SendRetrieve(p, i) \/ \E s \in Inserted : SendInsert(p, i, s)
       \/ \E t \in Maybe : SendRetrieveAll(p, t)
       \/ Answered(p) \/ GiveUp(p) \/ Crash(p) \/ AddSubscriber(p) \/ Ask(p)
  \/ \E i \in Id : LateAddSubscriber(i) \/ RemoveSubscriber(i)
  \/ UNCHANGED svcVars

LEMMA SvcStep ==
  ASSUME SvcInv, SvcMove
  PROVE  SvcInv'
<1> USE DEF SvcInv, SvcTypeOK
<1>1. CASE AskLocal
  <2>1. PICK i \in Id, s \in Inserted : asked[i] = NoRow /\ asked' = [asked EXCEPT ![i] = s]
    BY <1>1 DEF AskLocal
  <2>2. s \in Subscriber /\ s # NoRow
    BY ServiceAssumption, CodecAssumption
  <2>3. asked' \in [Id -> Row] /\ \A j \in Id : asked[j] # NoRow => asked'[j] = asked[j]
    BY <2>1, <2>2 DEF Row
  <2> QED
    BY <1>1, <2>3 DEF AskLocal, calls, CallInv, StoredAsRead
<1>2. ASSUME NEW p \in Proc, NEW i \in Id, SendRetrieve(p, i) PROVE SvcInv'
  BY <1>2, SendKeeps DEF SendRetrieve, Op
<1>3. ASSUME NEW p \in Proc, NEW i \in Id, NEW s \in Inserted, SendInsert(p, i, s) PROVE SvcInv'
  <2>1. s \in Subscriber /\ s # NoRow
    BY ServiceAssumption, CodecAssumption
  <2>2. /\ asked' \in [Id -> Row] /\ asked'[i] # NoRow
        /\ \A j \in Id : asked[j] # NoRow => asked'[j] = asked[j]
    BY <1>3, <2>1 DEF SendInsert, Row
  <2> QED
    BY <1>3, <2>2, SendKeeps DEF SendInsert, Op
<1>4. ASSUME NEW p \in Proc, NEW t \in Maybe, SendRetrieveAll(p, t) PROVE SvcInv'
  BY <1>4, SendKeeps DEF SendRetrieveAll, Op
<1>5. ASSUME NEW p \in Proc, Answered(p) \/ GiveUp(p) \/ Crash(p) PROVE SvcInv'
  BY <1>5, ReturnKeeps DEF Answered, GiveUp, Crash, Abandon
<1>6. ASSUME NEW p \in Proc, AddSubscriber(p) PROVE SvcInv'
  <2>1. arg[p] \in Id /\ asked[arg[p]] # NoRow
    BY <1>6 DEF AddSubscriber, CallInv
  <2>2. CASE table' = WithRow(arg[p], asked[arg[p]])
    BY <1>6, <2>1, <2>2, WithRowIs, StoreKeeps DEF AddSubscriber
  <2>3. CASE table' = table
    BY <1>6, <2>3, TableBare, StoreKeeps DEF AddSubscriber, StoredAsRead
  <2> QED
    BY <1>6, <2>2, <2>3 DEF AddSubscriber
<1>7. ASSUME NEW p \in Proc, Ask(p) PROVE SvcInv'
  <2> USE <1>7 DEF Ask
  <2>1. table \in tables[p] /\ table \in [Id -> Row] /\ Bare(table)
    BY TableBare DEF CallInv, Retrieval
  <2>2. Selected(p, table) = Select(op[p], arg[p], table)
    BY DEF Selected, Select
  <2>3. Elements(Selected(p, table)) \in [Id -> Element]
    BY <2>1, <2>2, Selections, KeptIs DEF Select
  <2>4. SvcTypeOK'
    BY <2>3
  <2>5. StoredAsRead' /\ (\A i \in late : asked[i] # NoRow)'
    BY DEF StoredAsRead
  <2>6. ASSUME NEW q \in Proc PROVE CallInv(q)'
    <3>1. CASE q = p
      BY <2>1, <2>2, <3>1 DEF CallInv, Retrieval
    <3>2. CASE q # p
      BY <3>2 DEF CallInv, Retrieval
    <3> QED
      BY <3>1, <3>2
  <2> QED
    BY <2>4, <2>5, <2>6
<1>8. ASSUME NEW i \in Id, LateAddSubscriber(i) PROVE SvcInv'
  BY <1>8, WithRowIs, StoreKeeps DEF LateAddSubscriber, calls
<1>9. ASSUME NEW i \in Id, RemoveSubscriber(i) PROVE SvcInv'
  <2>1. [table EXCEPT ![i] = NoRow] \in [Id -> Row] /\ Bare([table EXCEPT ![i] = NoRow])
    BY TableBare DEF Bare, Row
  <2> QED
    BY <1>9, <2>1, StoreKeeps DEF RemoveSubscriber, calls, StoredAsRead
<1>10. CASE UNCHANGED svcVars
  BY <1>10 DEF svcVars, calls, CallInv, StoredAsRead
<1> QED
  BY <1>1, <1>2, <1>3, <1>4, <1>5, <1>6, <1>7, <1>8, <1>9, <1>10 DEF SvcMove

\* What was handed to an insert stays.
LEMMA AskedStays ==
  ASSUME SvcInv, SvcMove
  PROVE  \A i \in Id : asked[i] # NoRow => asked'[i] = asked[i]
<1> USE DEF SvcInv, SvcTypeOK
<1>1. CASE AskLocal
  BY <1>1 DEF AskLocal
<1>2. ASSUME NEW p \in Proc, NEW i \in Id, NEW s \in Inserted, SendInsert(p, i, s)
      PROVE  \A j \in Id : asked[j] # NoRow => asked'[j] = asked[j]
  BY <1>2 DEF SendInsert
<1>3. CASE UNCHANGED asked
  BY <1>3
<1> QED
  BY <1>1, <1>2, <1>3
  DEF SvcMove, SendRetrieve, SendRetrieveAll, Answered, GiveUp, Crash, Abandon, Return, AddSubscriber,
      Ask, LateAddSubscriber, RemoveSubscriber, svcVars

-----------------------------------------------------------------------------
(* The event source and its publishers.                                     *)

EventTypeOK ==
  /\ PubTypeOK
  /\ local     \in [Id -> Row]
  /\ about     \in [Proc -> Maybe]
  /\ listed    \in [Proc -> BOOLEAN]
  /\ confirmed \subseteq Id
  /\ withdrawn \subseteq Id
  /\ due       \in [Proc -> SUBSET Id]
  /\ barred    \in [Proc -> SUBSET Id]

\* The table of the sqlite manager is what was confirmed and not withdrawn.
LocalInv ==
  /\ \A i \in confirmed : asked[i] # NoRow
  /\ withdrawn \subseteq confirmed
  /\ build.manager = "sqlite" =>
       \A i \in Id : /\ local[i] # NoRow <=> i \in confirmed \ withdrawn
                     /\ local[i] # NoRow => local[i] = Columns(asked[i])

\* Where a publish is.
PlaceInv(p) ==
  /\ at[p] \in {"idle", "retrieve"} =>
       /\ rows[p] = Empty /\ pending[p] = {} /\ ~listed[p] /\ payload[p] = "message"
       /\ \A i \in Id : got[p][i] = Nothing
  /\ at[p] = "idle" => due[p] = {} /\ barred[p] = {}
  /\ \A i \in pending[p] : rows[p][i] # NoRow
  /\ at[p] = "send" => current[p] \in Id /\ rows[p][current[p]] # NoRow
  /\ payload[p] \in {"message", "loose"} \/ (payload[p] = "client" /\ at[p] = "detach")

\* The list a publish works off: that of the sqlite manager is of those who were
\* not withdrawn when the event came, and lacks none who has not been since.
ListInv(p) ==
  /\ barred[p] \subseteq withdrawn /\ due[p] \subseteq confirmed
  /\ \A i \in due[p] : asked[i] # NoRow /\ about[p] \in {Null, asked[i].filter}
  /\ build.manager = "sqlite" =>
       /\ \A i \in Id : rows[p][i] # NoRow =>
            /\ asked[i] # NoRow /\ rows[p][i] = Columns(asked[i])
            /\ i \notin barred[p] /\ about[p] \in {Null, asked[i].filter}
       /\ listed[p] => \A i \in due[p] \ withdrawn : rows[p][i] # NoRow
  /\ build.manager # "sqlite" => \A i \in Id : rows[p][i] # NoRow => rows[p][i].notifyTo = Null

\* An event that was sent was let through ...
Stray(p) ==
  /\ \A i \in Id : got[p][i].what = "event" =>
       /\ asked[i] # NoRow /\ got[p][i].to = asked[i].notifyTo
       /\ i \notin barred[p] /\ about[p] \in {Null, asked[i].filter}
       /\ build.filtering /\ build.publisher = "default" => asked[i].filter \in Passes
  /\ (build.manager = "sqlite" /\ build.publisher = "default" /\ build.filtering /\ at[p] = "send") =>
       rows[p][current[p]].filter \in Passes

Served(p, i) == got[p][i].what \in {"event", "failed"} /\ got[p][i].to = asked[i].notifyTo

\* ... and each subscriber that is done with and lets the event through has got it,
\* or is about to.
Done(p) ==
  (build.manager = "sqlite" /\ build.publisher = "default") =>
    \A i \in Id : (rows[p][i] # NoRow /\ i \notin pending[p] /\ Lets(asked[i])) =>
      Served(p, i) \/ (at[p] = "send" /\ current[p] = i)

EventInv(p) == PlaceInv(p) /\ ListInv(p) /\ Stray(p) /\ Done(p)

IInv ==
  /\ SvcInv
  /\ EventTypeOK
  /\ LocalInv
  /\ \A p \in Proc : EventInv(p)

LEMMA ColumnsIs ==
  ASSUME NEW s \in Subscriber
  PROVE  /\ Columns(s) \in Subscriber /\ Columns(s).dialect = Null
         /\ Columns(s).filter = s.filter /\ Columns(s).notifyTo = s.notifyTo
BY DEF Columns, Subscriber, Maybe

LEMMA InitInv == Init => IInv
<1> SUFFICES ASSUME Init PROVE IInv
  OBVIOUS
<1> USE DEF Init, PubInit
<1>1. SvcInv
  BY SvcInit_Inv
<1>2. EventTypeOK
  BY CodecTypes DEF EventTypeOK, PubTypeOK, Payload, Sent, Nothing, Maybe
<1>3. LocalInv
  BY DEF LocalInv, Empty
<1>4. ASSUME NEW p \in Proc PROVE EventInv(p)
  BY DEF EventInv, PlaceInv, ListInv, Stray, Done, Empty, Nothing
<1> QED
  BY <1>1, <1>2, <1>3, <1>4 DEF IInv

\* What a process knows of a publish.
Own(p) == <<at[p], rows[p], pending[p], current[p], payload[p], got[p],
            about[p], listed[p], due[p], barred[p]>>

\* A publish that makes no step is not disturbed by what the others do.
LEMMA CalmStays ==
  ASSUME IInv, NEW p \in Proc, EventInv(p), UNCHANGED <<Own(p), build>>,
         \A i \in Id : asked[i] # NoRow => asked'[i] = asked[i],
         confirmed \subseteq confirmed', withdrawn \subseteq withdrawn'
  PROVE  EventInv(p)'
<1> /\ at'[p] = at[p] /\ rows'[p] = rows[p] /\ pending'[p] = pending[p] /\ current'[p] = current[p]
    /\ payload'[p] = payload[p] /\ got'[p] = got[p] /\ about'[p] = about[p] /\ listed'[p] = listed[p]
    /\ due'[p] = due[p] /\ barred'[p] = barred[p] /\ build' = build
  BY DEF Own
<1> pending[p] \subseteq Id /\ due[p] \subseteq Id
  BY DEF IInv, EventTypeOK, PubTypeOK
<1> USE DEF EventInv
<1>1. PlaceInv(p)'
  BY DEF PlaceInv
<1>2. ListInv(p)'
  BY DEF ListInv
<1>3. Stray(p)'
  BY DEF Stray
<1>4. Done(p)'
  BY DEF Done, Lets, Served, ListInv
<1> QED
  BY <1>1, <1>2, <1>3, <1>4

-----------------------------------------------------------------------------
(* The steps.                                                               *)

\* A publisher gets its list, of which every entry is as ListInv has it.
LEMMA ListTaken ==
  ASSUME IInv, NEW p \in Proc, NEW list \in [Id -> Row], TakeList(p, list),
         UNCHANGED <<build, about, due, barred, withdrawn>>, confirmed \subseteq confirmed',
         listed' \in [Proc -> BOOLEAN],
         \A i \in Id : asked[i] # NoRow => asked'[i] = asked[i],
         build.manager = "sqlite" =>
           \A i \in Id : list[i] # NoRow =>
             /\ asked[i] # NoRow /\ list[i] = Columns(asked[i])
             /\ i \notin withdrawn /\ about[p] \in {Null, asked[i].filter},
         build.manager = "sqlite" /\ listed'[p] =>
           \A i \in due[p] \ withdrawn : list[i] # NoRow,
         build.manager # "sqlite" => \A i \in Id : list[i] # NoRow => list[i].notifyTo = Null
  PROVE  EventInv(p)'
<1> USE DEF IInv, EventInv, EventTypeOK, PubTypeOK
<1>1. /\ at[p] = "retrieve" /\ at'[p] = "next" /\ rows'[p] = list
      /\ pending'[p] = {i \in Id : list[i] # NoRow}
      /\ current'[p] = current[p] /\ payload'[p] = payload[p] /\ got'[p] = got[p]
      /\ about'[p] = about[p] /\ due'[p] = due[p] /\ barred'[p] = barred[p]
      /\ build' = build /\ withdrawn' = withdrawn
  BY DEF TakeList
<1>2. PlaceInv(p)'
  BY <1>1 DEF PlaceInv
<1>3. ListInv(p)'
  <2>1. /\ barred[p] \subseteq withdrawn /\ due[p] \subseteq confirmed /\ due[p] \subseteq Id
        /\ \A i \in due[p] : asked[i] # NoRow /\ about[p] \in {Null, asked[i].filter}
    BY DEF ListInv
  <2>2. barred'[p] \subseteq withdrawn' /\ due'[p] \subseteq confirmed'
    BY <1>1, <2>1
  <2>3. \A i \in due'[p] : asked'[i] # NoRow /\ about'[p] \in {Null, asked'[i].filter}
    BY <1>1, <2>1
  <2>4. build'.manager = "sqlite" =>
          \A i \in Id : rows'[p][i] # NoRow =>
            /\ asked'[i] # NoRow /\ rows'[p][i] = Columns(asked'[i])
            /\ i \notin barred'[p] /\ about'[p] \in {Null, asked'[i].filter}
    BY <1>1, <2>1
  <2>5. build'.manager = "sqlite" /\ listed'[p] =>
          \A i \in due'[p] \ withdrawn' : rows'[p][i] # NoRow
    BY <1>1
  <2>6. build'.manager # "sqlite" => \A i \in Id : rows'[p][i] # NoRow => rows'[p][i].notifyTo = Null
    BY <1>1
  <2> QED
    BY <2>2, <2>3, <2>4, <2>5, <2>6 DEF ListInv
<1>4. Stray(p)'
  BY <1>1 DEF Stray, PlaceInv, Nothing
<1>5. Done(p)'
  BY <1>1 DEF Done
<1> QED
  BY <1>2, <1>3, <1>4, <1>5

\* An event comes.
LEMMA PublishBegun ==
  ASSUME IInv, NEW p \in Proc, NEW t \in Topic, Publish(p, t)
  PROVE  EventInv(p)'
<1> USE DEF IInv, EventInv, EventTypeOK, PubTypeOK
<1>1. /\ at[p] = "idle" /\ at'[p] = "retrieve" /\ rows'[p] = rows[p] /\ pending'[p] = pending[p]
      /\ payload'[p] = payload[p] /\ got'[p] = got[p] /\ listed'[p] = listed[p]
      /\ about'[p] = t /\ barred'[p] = withdrawn
      /\ due'[p] = {i \in confirmed \ withdrawn : t \in {Null, asked[i].filter}}
      /\ build' = build /\ withdrawn' = withdrawn /\ confirmed' = confirmed /\ asked' = asked
  BY DEF Publish, Begin, svcVars, histories
<1>2. PlaceInv(p)'
  BY <1>1 DEF PlaceInv
<1>3. ListInv(p)'
  BY <1>1 DEF ListInv, LocalInv, PlaceInv, Empty
<1>4. Stray(p)'
  BY <1>1 DEF Stray, PlaceInv, Nothing
<1>5. Done(p)'
  BY <1>1 DEF Done, PlaceInv, Empty
<1> QED
  BY <1>2, <1>3, <1>4, <1>5

\* A publish is over, or dies.
LEMMA EventForgotten ==
  ASSUME IInv, NEW p \in Proc, ForgetEvent(p)
  PROVE  EventInv(p)'
<1> USE DEF IInv, EventInv, EventTypeOK, PubTypeOK
<1>1. /\ at'[p] = "idle" /\ rows'[p] = Empty /\ pending'[p] = {} /\ payload'[p] = "message"
      /\ got'[p] = [i \in Id |-> Nothing] /\ ~listed'[p] /\ due'[p] = {} /\ barred'[p] = {}
  BY DEF ForgetEvent, Forget
<1> QED
  BY <1>1 DEF PlaceInv, ListInv, Stray, Done, Empty, Nothing

\* A publisher visits, sends, takes the node out and frees.
LEMMA DeliverStep ==
  ASSUME IInv, NEW p \in Proc, Deliver(p)
  PROVE  EventInv(p)'
<1> USE DEF IInv, EventInv
<1>1. /\ about'[p] = about[p] /\ listed'[p] = listed[p] /\ due'[p] = due[p] /\ barred'[p] = barred[p]
      /\ build' = build /\ withdrawn' = withdrawn /\ confirmed' = confirmed /\ asked' = asked
  BY DEF Deliver, svcVars, evtVars, histories
<1>2. /\ at \in [Proc -> {"idle", "retrieve", "next", "send", "detach", "free"}]
      /\ pending \in [Proc -> SUBSET Id] /\ current \in [Proc -> Id \cup {Null}]
      /\ payload \in [Proc -> Payload] /\ got \in [Proc -> [Id -> Sent]]
      /\ build \in Build /\ asked \in [Id -> Row]
  BY PublisherAssumption DEF EventTypeOK, PubTypeOK, SvcInv, SvcTypeOK
<1>3. rows'[p] = rows[p]
  BY DEF Deliver, PubStep, VisitNext, Visit, FireAndForget, EsbSend, Detach, FreeClient
<1>4. ListInv(p)'
  BY <1>1, <1>3 DEF ListInv
<1>5. ASSUME NEW i \in pending[p], NEW label \in {"send", "detach", "free"}, Visit(p, i, label),
             label = "send" => Unfiltered(rows[p][i]) \/ (Filterable(rows[p][i]) /\ Apply(rows[p][i])),
             label # "send" => /\ ~Unfiltered(rows[p][i])
                               /\ ~(Filterable(rows[p][i]) /\ Apply(rows[p][i]))
      PROVE  EventInv(p)'
  <2>1. /\ at[p] = "next" /\ at'[p] = label /\ current'[p] = i /\ pending'[p] = pending[p] \ {i}
        /\ payload'[p] = payload[p] /\ got'[p] = got[p] /\ i \in Id
    BY <1>2, <1>5 DEF Visit
  <2>2. rows[p][i] # NoRow
    BY DEF PlaceInv
  <2>3. PlaceInv(p)'
    BY <1>3, <2>1, <2>2 DEF PlaceInv
  <2>4. build.manager = "sqlite" =>
          /\ asked[i] \in Subscriber /\ rows[p][i].dialect = Null
          /\ rows[p][i].filter = asked[i].filter
    BY <1>2, <2>1, <2>2, ColumnsIs DEF ListInv, Row
  <2>5. Synapse # Null /\ Null \notin Passes
    BY PublisherAssumption, CodecAssumption
  <2>6. Stray(p)'
    BY <1>1, <1>3, <1>5, <2>1, <2>4, <2>5 DEF Stray, Unfiltered, Filterable, Apply
  <2>7. ASSUME build.manager = "sqlite", build.publisher = "default", Lets(asked[i])
        PROVE  label = "send"
    BY <1>5, <2>4, <2>5, <2>7 DEF Lets, Unfiltered, Filterable, Apply
  <2>8. Done(p)'
    BY <1>1, <1>3, <2>1, <2>7 DEF Done, Lets, Served
  <2> QED
    BY <1>4, <2>3, <2>6, <2>8
<1>6. CASE VisitNext(p)
  BY <1>5, <1>6 DEF VisitNext
<1>7. ASSUME NEW w \in Sent, at[p] = "send", at'[p] = "detach", pending'[p] = pending[p],
             current'[p] = current[p],
             payload'[p] \in {payload[p], "client"},
             got' = [got EXCEPT ![p][current[p]] = w],
             w.to = rows[p][current[p]].notifyTo,
             w.to = Null => w.what # "event",
             build.publisher = "default" => w.what \in {"event", "failed"}
      PROVE  EventInv(p)'
  <2> DEFINE c == current[p]
  <2>1. c \in Id /\ rows[p][c] # NoRow
    BY <1>7 DEF PlaceInv
  <2>2. got'[p][c] = w /\ \A i \in Id \ {c} : got'[p][i] = got[p][i]
    BY <1>2, <1>7, <2>1
  <2>3. PlaceInv(p)'
    BY <1>3, <1>7 DEF PlaceInv
  <2>4. build.manager = "sqlite" =>
          /\ asked[c] # NoRow /\ rows[p][c].filter = asked[c].filter
          /\ rows[p][c].notifyTo = asked[c].notifyTo
          /\ c \notin barred[p] /\ about[p] \in {Null, asked[c].filter}
    BY <1>2, <2>1, ColumnsIs DEF ListInv, Row
  <2>5. build.manager # "sqlite" => w.what # "event"
    BY <1>7, <2>1 DEF ListInv
  <2>6. Stray(p)'
    BY <1>1, <1>3, <1>7, <2>1, <2>2, <2>4, <2>5 DEF Stray
  <2>7. Done(p)'
    BY <1>1, <1>3, <1>7, <2>1, <2>2, <2>4 DEF Done, Lets, Served
  <2> QED
    BY <1>4, <2>3, <2>6, <2>7
<1>8. rows[p] \in [Id -> Row]
  BY DEF EventTypeOK, PubTypeOK
<1>9. at[p] = "send" => rows[p][current[p]].notifyTo \in Maybe
  BY <1>8 DEF PlaceInv, Row, Subscriber
<1>10. CASE FireAndForget(p)
  <2>1. PICK w \in {"event", "failed"} :
          /\ w = "event" => rows[p][current[p]].notifyTo # Null
          /\ got' = [got EXCEPT ![p][current[p]] = [what |-> w, to |-> rows[p][current[p]].notifyTo]]
    BY <1>10 DEF FireAndForget
  <2> QED
    BY <1>2, <1>7, <1>9, <1>10, <2>1 DEF FireAndForget, Sent
<1>11. CASE EsbSend(p)
  <2> DEFINE to == rows[p][current[p]].notifyTo
             what == IF payload[p] = "message" THEN "event" ELSE "empty"
             w == [what |-> IF to = Null THEN "failed" ELSE what, to |-> to]
  <2>1. at[p] = "send" /\ build.publisher = "esb" /\ got' = [got EXCEPT ![p][current[p]] = w]
    BY <1>11 DEF EsbSend
  <2>2. w \in Sent /\ w.to = to /\ (w.to = Null => w.what # "event")
    BY <1>9, <2>1 DEF Sent
  <2>3. at'[p] = "detach" /\ pending'[p] = pending[p] /\ current'[p] = current[p] /\ payload'[p] = payload[p]
    BY <1>2, <1>11 DEF EsbSend
  <2> HIDE DEF w
  <2> QED
    BY <1>7, <2>1, <2>2, <2>3
<1>12. CASE Detach(p) \/ FreeClient(p)
  <2>1. /\ at[p] \in {"detach", "free"} /\ at'[p] \in {"next", "free"}
        /\ pending'[p] = pending[p] /\ got'[p] = got[p] /\ current'[p] = current[p]
        /\ payload'[p] \in {"message", "loose"}
    BY <1>2, <1>12 DEF Detach, FreeClient, PlaceInv
  <2>2. PlaceInv(p)'
    BY <1>3, <2>1 DEF PlaceInv
  <2>3. Stray(p)' /\ Done(p)'
    BY <1>1, <1>3, <2>1 DEF Stray, Done, Lets, Served
  <2> QED
    BY <1>4, <2>2, <2>3
<1> QED
  BY <1>6, <1>10, <1>11, <1>12 DEF Deliver, PubStep

\* A step leaves the service as ServiceSubsMgr has it.
LEMMA NextMoves ==
  ASSUME IInv, [Next]_vars
  PROVE  SvcMove
<1>1. \A p \in Proc : about[p] \in Maybe
  BY DEF IInv, EventTypeOK
<1>2. ASSUME NEW p \in Proc, NEW i \in Id, NEW s \in Inserted, InsertLocal(p, i, s) PROVE SvcMove
  BY <1>2 DEF InsertLocal, SvcMove, AskLocal
<1>3. ASSUME NEW p \in Proc, CallInsert(p) \/ CallRetrieve(p) \/ CallRetrieveAll(p) PROVE SvcMove
  BY <1>1, <1>3 DEF CallInsert, CallRetrieve, CallRetrieveAll, SvcMove
<1>4. ASSUME NEW p \in Proc, ReturnFromService(p) \/ AddSubscriber(p) \/ Ask(p) PROVE SvcMove
  BY <1>4 DEF ReturnFromService, SvcMove
<1>5. ASSUME NEW p \in Proc, Die(p) PROVE SvcMove
  BY <1>5 DEF Die, SvcMove
<1>6. CASE Serve
  BY <1>6 DEF Serve, SvcMove
<1>7. CASE UNCHANGED svcVars
  BY <1>7 DEF SvcMove
<1>8. CASE UNCHANGED vars
  BY <1>7, <1>8 DEF vars
<1>9. ASSUME NEW p \in Proc,
             \/ \E i \in Id : RemoveLocal(p, i)
             \/ \E t \in Topic : Publish(p, t)
             \/ RetrieveLocal(p) \/ Deliver(p) \/ End(p)
      PROVE  SvcMove
  BY <1>7, <1>9 DEF RemoveLocal, Publish, RetrieveLocal, Deliver, End
<1>10. ASSUME NEW p \in Proc, Work(p) PROVE SvcMove
  BY <1>3, <1>4, <1>9, <1>10 DEF Work
<1> QED
  BY <1>2, <1>3, <1>5, <1>6, <1>8, <1>9, <1>10 DEF Next

\* What is left to show of a step of p.
LEMMA OwnStep ==
  ASSUME IInv, SvcMove, NEW p \in Proc, EventTypeOK', LocalInv', EventInv(p)',
         build' = build, confirmed \subseteq confirmed', withdrawn \subseteq withdrawn',
         \A q \in Proc \ {p} : UNCHANGED Own(q)
  PROVE  IInv'
<1>1. SvcInv'
  BY SvcStep DEF IInv
<1>2. \A i \in Id : asked[i] # NoRow => asked'[i] = asked[i]
  BY AskedStays DEF IInv
<1>3. ASSUME NEW q \in Proc \ {p} PROVE EventInv(q)'
  BY <1>2, CalmStays DEF IInv
<1> QED
  BY <1>1, <1>3 DEF IInv

\* A step that is no publish's.
LEMMA CalmStep ==
  ASSUME IInv, SvcMove, UNCHANGED <<build, pubVars, evtVars>>,
         local' \in [Id -> Row], confirmed' \subseteq Id, withdrawn' \subseteq Id,
         LocalInv', confirmed \subseteq confirmed', withdrawn \subseteq withdrawn'
  PROVE  IInv'
<1>1. SvcInv'
  BY SvcStep DEF IInv
<1>2. \A i \in Id : asked[i] # NoRow => asked'[i] = asked[i]
  BY AskedStays DEF IInv
<1>3. EventTypeOK'
  BY DEF IInv, EventTypeOK, PubTypeOK, pubVars, evtVars
<1>4. ASSUME NEW q \in Proc PROVE EventInv(q)'
  <2>1. UNCHANGED Own(q)
    BY DEF Own, pubVars, evtVars
  <2> QED
    BY <1>2, <2>1, CalmStays DEF IInv
<1> QED
  BY <1>1, <1>3, <1>4 DEF IInv

LEMMA LocalStays ==
  ASSUME IInv, SvcMove, UNCHANGED <<build, local, histories>>
  PROVE  LocalInv'
<1>1. \A i \in Id : asked[i] # NoRow => asked'[i] = asked[i]
  BY AskedStays DEF IInv
<1>2. confirmed \subseteq Id
  BY DEF IInv, EventTypeOK
<1> QED
  BY <1>1, <1>2 DEF IInv, LocalInv, histories

\* A Subscribe with the sqlite manager.
LEMMA InsertLocalStep ==
  ASSUME IInv, SvcMove, NEW p \in Proc, NEW i \in Id, NEW s \in Inserted, InsertLocal(p, i, s)
  PROVE  IInv'
<1>1. s \in Subscriber /\ s # NoRow /\ Columns(s) \in Subscriber /\ Columns(s) # NoRow
  BY ServiceAssumption, CodecAssumption, ColumnsIs
<1>2. /\ asked \in [Id -> Row] /\ local \in [Id -> Row] /\ confirmed \subseteq Id /\ withdrawn \subseteq Id
      /\ LocalInv
  BY DEF IInv, EventTypeOK, SvcInv, SvcTypeOK
<1>3. /\ asked[i] = NoRow /\ asked'[i] = s /\ \A j \in Id \ {i} : asked'[j] = asked[j]
      /\ UNCHANGED <<build, pubVars, evtVars, withdrawn>>
  BY <1>2 DEF InsertLocal
<1>4. i \notin confirmed
  BY <1>2, <1>3 DEF LocalInv
<1>5. CASE local' = [local EXCEPT ![i] = Columns(s)] /\ confirmed' = confirmed \cup {i}
  <2>1. local' \in [Id -> Row] /\ local'[i] = Columns(s) /\ \A j \in Id \ {i} : local'[j] = local[j]
    BY <1>1, <1>2, <1>5 DEF Row
  <2>2. LocalInv'
    BY <1>1, <1>2, <1>3, <1>4, <1>5, <2>1 DEF LocalInv
  <2> QED
    BY <1>2, <1>3, <1>5, <2>1, <2>2, CalmStep
<1>6. CASE UNCHANGED <<local, confirmed>>
  <2>1. LocalInv'
    BY <1>1, <1>2, <1>3, <1>4, <1>6 DEF LocalInv
  <2> QED
    BY <1>2, <1>3, <1>6, <2>1, CalmStep
<1> QED
  BY <1>5, <1>6 DEF InsertLocal

\* An Unsubscribe with the sqlite manager.
LEMMA RemoveLocalStep ==
  ASSUME IInv, SvcMove, NEW p \in Proc, NEW i \in Id, RemoveLocal(p, i)
  PROVE  IInv'
<1>1. /\ local \in [Id -> Row] /\ confirmed \subseteq Id /\ withdrawn \subseteq Id /\ LocalInv
  BY DEF IInv, EventTypeOK
<1>2. /\ i \in confirmed /\ local' = [local EXCEPT ![i] = NoRow] /\ withdrawn' = withdrawn \cup {i}
      /\ UNCHANGED <<build, pubVars, evtVars, confirmed, asked>>
  BY DEF RemoveLocal, svcVars
<1>3. local' \in [Id -> Row] /\ local'[i] = NoRow /\ \A j \in Id \ {i} : local'[j] = local[j]
  BY <1>1, <1>2 DEF Row
<1>4. LocalInv'
  BY <1>1, <1>2, <1>3 DEF LocalInv
<1> QED
  BY <1>1, <1>2, <1>3, <1>4, CalmStep

\* A publisher with the sqlite manager gets its list.
LEMMA RetrieveLocalStep ==
  ASSUME IInv, SvcMove, NEW p \in Proc, RetrieveLocal(p)
  PROVE  IInv'
<1>1. /\ EventTypeOK /\ LocalInv /\ asked \in [Id -> Row] /\ local \in [Id -> Row] /\ confirmed \subseteq Id
  BY DEF IInv, EventTypeOK, SvcInv, SvcTypeOK
<1>2. /\ build.manager = "sqlite" /\ UNCHANGED <<svcVars, build, local, about, due, barred, histories>>
      /\ UNCHANGED <<asked, confirmed, withdrawn>>
  BY DEF RetrieveLocal, svcVars, histories
<1>3. PICK list \in {SelectList(about[p]), Empty} :
        /\ TakeList(p, list)
        /\ \/ list = SelectList(about[p]) /\ listed' = [listed EXCEPT ![p] = TRUE]
           \/ list = Empty /\ listed' = listed
  <2>1. CASE TakeList(p, SelectList(about[p])) /\ listed' = [listed EXCEPT ![p] = TRUE]
    BY <2>1
  <2>2. CASE TakeList(p, Empty) /\ listed' = listed
    BY <2>2
  <2> QED
    BY <2>1, <2>2 DEF RetrieveLocal
<1>4. list \in [Id -> Row]
  BY <1>1, <1>3, CodecTypes DEF SelectList, Row
<1>5. \A i \in Id : list[i] # NoRow =>
        /\ asked[i] # NoRow /\ list[i] = Columns(asked[i])
        /\ i \notin withdrawn /\ about[p] \in {Null, asked[i].filter}
  <2> SUFFICES ASSUME NEW i \in Id, list[i] # NoRow
               PROVE  /\ asked[i] # NoRow /\ list[i] = Columns(asked[i])
                      /\ i \notin withdrawn /\ about[p] \in {Null, asked[i].filter}
    OBVIOUS
  <2>1. list[i] = local[i] /\ local[i] # NoRow /\ (about[p] = Null \/ local[i].filter = about[p])
    BY <1>3 DEF SelectList, Empty
  <2>2. i \in confirmed \ withdrawn /\ local[i] = Columns(asked[i]) /\ asked[i] # NoRow
    BY <1>1, <1>2, <2>1 DEF LocalInv
  <2>3. local[i].filter = asked[i].filter
    BY <1>1, <2>2, ColumnsIs DEF Row
  <2> QED
    BY <2>1, <2>2, <2>3
<1>6. listed'[p] => \A i \in due[p] \ withdrawn : list[i] # NoRow
  <2> SUFFICES ASSUME listed'[p], NEW i \in due[p] \ withdrawn PROVE list[i] # NoRow
    OBVIOUS
  <2>1. at[p] = "retrieve" /\ ~listed[p]
    BY <1>3 DEF TakeList, IInv, EventInv, PlaceInv
  <2>2. list = SelectList(about[p])
    BY <1>3, <2>1
  <2>3. i \in Id /\ asked[i] # NoRow /\ about[p] \in {Null, asked[i].filter}
    BY <1>1 DEF IInv, EventInv, ListInv, EventTypeOK
  <2>4. local[i] # NoRow /\ local[i] = Columns(asked[i])
    <3>1. i \in confirmed
      BY <2>3 DEF IInv, EventInv, ListInv
    <3> QED
      BY <1>1, <1>2, <2>3, <3>1 DEF LocalInv
  <2>5. local[i].filter = asked[i].filter
    BY <1>1, <2>3, <2>4, ColumnsIs DEF Row
  <2> QED
    BY <2>2, <2>3, <2>4, <2>5 DEF SelectList
<1>7. listed' \in [Proc -> BOOLEAN]
  BY <1>1, <1>3 DEF EventTypeOK
<1>8. EventInv(p)'
  BY <1>2, <1>3, <1>4, <1>5, <1>6, <1>7, ListTaken
<1>9. EventTypeOK'
  BY <1>1, <1>2, <1>3, <1>4, <1>7 DEF EventTypeOK, PubTypeOK, TakeList, histories
<1>10. LocalInv'
  BY <1>2, LocalStays
<1>11. \A q \in Proc \ {p} : UNCHANGED Own(q)
  BY <1>1, <1>2, <1>3 DEF Own, TakeList, EventTypeOK, PubTypeOK
<1> QED
  BY <1>2, <1>8, <1>9, <1>10, <1>11, OwnStep

\* Where the manager is the sqlite manager, nobody calls the service.
Unasked == build.manager = "sqlite" => \A p \in Proc : pc[p] = "idle"

LEMMA UnaskedStays ==
  ASSUME IInv, Unasked, [Next]_vars
  PROVE  Unasked'
<1>0. pc \in [Proc -> {"idle", "sent", "answered"}]
  BY DEF IInv, SvcInv, SvcTypeOK
<1> SUFFICES ASSUME build'.manager = "sqlite", NEW p \in Proc
             PROVE  pc'[p] = "idle"
  BY DEF Unasked
<1>1. build' = build /\ \A q \in Proc : pc[q] = "idle"
  <2>1. ASSUME NEW q \in Proc, Work(q) PROVE build' = build
    BY <2>1 DEF Work, RetrieveLocal, CallRetrieveAll, ReturnFromService, Deliver, End, ForgetEvent
  <2>2. build' = build
    BY <2>1 DEF Next, vars, InsertLocal, RemoveLocal, CallInsert, CallRetrieve, Publish, Die, ForgetEvent,
                Serve
  <2> QED
    BY <2>2 DEF Unasked
<1> USE <1>1
<1>2. CASE UNCHANGED pc
  BY <1>2
<1>3. ASSUME NEW q \in Proc, Work(q) PROVE UNCHANGED pc
  BY <1>3 DEF Work, RetrieveLocal, CallRetrieveAll, ReturnFromService, Deliver, End, svcVars, calls,
              Answered, GiveUp, Abandon, AddSubscriber, Ask
<1>4. ASSUME NEW q \in Proc, Die(q) PROVE UNCHANGED pc
  BY <1>4 DEF Die, Crash, Abandon, svcVars, calls
<1>5. CASE Serve
  BY <1>5 DEF Serve, LateAddSubscriber, RemoveSubscriber, calls
<1> QED
  BY <1>2, <1>3, <1>4, <1>5
  DEF Next, vars, svcVars, calls, InsertLocal, RemoveLocal, CallInsert, CallRetrieve, Publish

\* A call of the service ends.
LEMMA ReturnStep ==
  ASSUME IInv, Unasked, SvcMove, NEW p \in Proc, ReturnFromService(p)
  PROVE  IInv'
<1>1. /\ EventTypeOK /\ LocalInv /\ pc[p] # "idle" /\ build.manager # "sqlite" /\ confirmed \subseteq Id
      /\ UNCHANGED <<build, local, about, due, barred, withdrawn, asked>>
  BY DEF IInv, EventTypeOK, ReturnFromService, Answered, GiveUp, Abandon, Return, Unasked
<1>2. PICK list \in {Result(p), Empty} : TakeResult(p, list)
  BY Zenon DEF ReturnFromService
<1>3. list \in [Id -> Row] /\ (op[p] \in Retrieval => \A i \in Id : list[i] # NoRow => list[i].notifyTo = Null)
  BY <1>2, ResultIs, CodecTypes DEF IInv, Empty
<1>4. CASE op[p] = "insert" /\ confirmed' = confirmed \cup {arg[p]} /\ UNCHANGED <<pubVars, listed>>
  <2>1. arg[p] \in Id /\ asked[arg[p]] # NoRow
    BY <1>4 DEF IInv, SvcInv, CallInv
  <2>2. LocalInv'
    BY <1>1, <1>4, <2>1 DEF LocalInv
  <2> QED
    BY <1>1, <1>4, <2>1, <2>2, CalmStep DEF evtVars, EventTypeOK
<1>5. CASE op[p] = "retrieve" /\ UNCHANGED <<confirmed, pubVars, listed>>
  <2>1. LocalInv'
    BY <1>1, <1>5, LocalStays DEF histories
  <2> QED
    BY <1>1, <1>5, <2>1, CalmStep DEF evtVars, EventTypeOK
<1>6. CASE /\ op[p] = "retrieveAll" /\ TakeList(p, list)
           /\ listed' = [listed EXCEPT ![p] = list # Empty] /\ UNCHANGED confirmed
  <2>1. listed' \in [Proc -> BOOLEAN]
    BY <1>1, <1>6 DEF EventTypeOK
  <2>2. EventInv(p)'
    BY <1>1, <1>3, <1>6, <2>1, ListTaken DEF Retrieval
  <2>3. EventTypeOK'
    BY <1>1, <1>3, <1>6, <2>1 DEF EventTypeOK, PubTypeOK, TakeList
  <2>4. LocalInv'
    BY <1>1, <1>6, LocalStays DEF histories
  <2>5. \A q \in Proc \ {p} : UNCHANGED Own(q)
    BY <1>1, <1>6 DEF Own, TakeList, EventTypeOK, PubTypeOK
  <2> QED
    BY <1>1, <1>6, <2>2, <2>3, <2>4, <2>5, OwnStep
<1> QED
  BY <1>2, <1>4, <1>5, <1>6 DEF TakeResult

LEMMA PublishStep ==
  ASSUME IInv, SvcMove, NEW p \in Proc, NEW t \in Topic, Publish(p, t)
  PROVE  IInv'
<1>1. EventTypeOK /\ UNCHANGED <<build, local, histories>> /\ t \in Maybe
  BY ServiceAssumption DEF IInv, Publish
<1>2. EventInv(p)'
  BY PublishBegun
<1>3. EventTypeOK'
  BY <1>1 DEF Publish, Begin, EventTypeOK, PubTypeOK, histories
<1>4. LocalInv'
  BY <1>1, LocalStays
<1>5. \A q \in Proc \ {p} : UNCHANGED Own(q)
  BY <1>1 DEF Own, Publish, Begin, EventTypeOK, PubTypeOK
<1> QED
  BY <1>1, <1>2, <1>3, <1>4, <1>5, OwnStep DEF histories

LEMMA ForgetStep ==
  ASSUME IInv, SvcMove, NEW p \in Proc, ForgetEvent(p)
  PROVE  IInv'
<1>1. EventTypeOK /\ UNCHANGED <<build, local, histories>>
  BY DEF IInv, ForgetEvent
<1>2. EventInv(p)'
  BY EventForgotten
<1>3. EventTypeOK'
  BY <1>1, CodecTypes DEF ForgetEvent, Forget, EventTypeOK, PubTypeOK, histories, Payload, Sent, Nothing, Maybe
<1>4. LocalInv'
  BY <1>1, LocalStays
<1>5. \A q \in Proc \ {p} : UNCHANGED Own(q)
  BY <1>1 DEF Own, ForgetEvent, Forget, EventTypeOK, PubTypeOK
<1> QED
  BY <1>1, <1>2, <1>3, <1>4, <1>5, OwnStep DEF histories

LEMMA DeliverTypes ==
  ASSUME IInv, NEW p \in Proc, PubStep(p), UNCHANGED build
  PROVE  PubTypeOK' /\ \A q \in Proc \ {p} : UNCHANGED <<at[q], rows[q], pending[q], current[q], payload[q], got[q]>>
<1> PubTypeOK
  BY DEF IInv, EventTypeOK
<1> USE DEF PubTypeOK
<1>1. ASSUME NEW i \in Id, NEW to \in Maybe, NEW w \in {"event", "empty", "failed"},
             got' = [got EXCEPT ![p][i] = [what |-> w, to |-> to]]
      PROVE  got' \in [Proc -> [Id -> Sent]] /\ \A q \in Proc \ {p} : got'[q] = got[q]
  <2>1. [what |-> w, to |-> to] \in Sent
    BY DEF Sent
  <2> QED
    BY <1>1, <2>1
<1>2. at[p] = "send" => current[p] \in Id /\ rows[p][current[p]].notifyTo \in Maybe
  BY DEF IInv, EventInv, PlaceInv, Row, Subscriber
<1>3. CASE VisitNext(p)
  <2>1. \E i \in Id, label \in {"send", "detach", "free"} : Visit(p, i, label)
    BY <1>3 DEF VisitNext
  <2>2. PICK i \in Id, label \in {"send", "detach", "free"} : Visit(p, i, label)
    BY <2>1
  <2> QED
    BY <2>2 DEF Visit
<1>4. CASE FireAndForget(p)
  <2>0. PICK w \in {"event", "failed"} :
          got' = [got EXCEPT ![p][current[p]] = [what |-> w, to |-> rows[p][current[p]].notifyTo]]
    BY <1>4 DEF FireAndForget
  <2>1. got' \in [Proc -> [Id -> Sent]] /\ \A q \in Proc \ {p} : got'[q] = got[q]
    BY <1>1, <1>2, <1>4, <2>0 DEF FireAndForget
  <2> QED
    BY <1>4, <2>1 DEF FireAndForget, Payload
<1>5. CASE EsbSend(p)
  <2>1. got' \in [Proc -> [Id -> Sent]] /\ \A q \in Proc \ {p} : got'[q] = got[q]
    BY <1>1, <1>2, <1>5 DEF EsbSend
  <2> QED
    BY <1>5, <2>1 DEF EsbSend
<1>6. CASE Detach(p)
  BY <1>6 DEF Detach, Payload
<1>7. CASE FreeClient(p)
  BY <1>7 DEF FreeClient, Payload
<1> QED
  BY <1>3, <1>4, <1>5, <1>6, <1>7 DEF PubStep

LEMMA DeliversStep ==
  ASSUME IInv, SvcMove, NEW p \in Proc, Deliver(p)
  PROVE  IInv'
<1>1. EventTypeOK /\ PubStep(p) /\ UNCHANGED <<build, local, evtVars, histories>>
  BY DEF IInv, Deliver
<1>2. EventInv(p)'
  BY DeliverStep
<1>3. EventTypeOK' /\ \A q \in Proc \ {p} : UNCHANGED Own(q)
  BY <1>1, DeliverTypes DEF EventTypeOK, Own, evtVars, histories
<1>4. LocalInv'
  BY <1>1, LocalStays
<1> QED
  BY <1>1, <1>2, <1>3, <1>4, OwnStep DEF histories

\* A step of the service or of a caller before its answer.
LEMMA QuietStep ==
  ASSUME IInv, SvcMove, UNCHANGED <<build, pubVars, local, evtVars, histories>>
  PROVE  IInv'
<1>1. LocalInv'
  BY LocalStays
<1>2. local \in [Id -> Row] /\ confirmed \subseteq Id /\ withdrawn \subseteq Id
  BY DEF IInv, EventTypeOK
<1> QED
  BY <1>1, <1>2, CalmStep DEF histories

LEMMA NextInv ==
  ASSUME IInv, Unasked, [Next]_vars
  PROVE  IInv'
<1>1. SvcMove
  BY NextMoves
<1>2. ASSUME NEW p \in Proc, NEW i \in Id, NEW s \in Inserted, InsertLocal(p, i, s) PROVE IInv'
  BY <1>1, <1>2, InsertLocalStep
<1>3. ASSUME NEW p \in Proc, NEW i \in Id, RemoveLocal(p, i) PROVE IInv'
  BY <1>1, <1>3, RemoveLocalStep
<1>4. ASSUME NEW p \in Proc, CallInsert(p) \/ CallRetrieve(p) \/ CallRetrieveAll(p) PROVE IInv'
  BY <1>1, <1>4, QuietStep DEF CallInsert, CallRetrieve, CallRetrieveAll
<1>5. ASSUME NEW p \in Proc, NEW t \in Topic, Publish(p, t) PROVE IInv'
  BY <1>1, <1>5, PublishStep
<1>6. ASSUME NEW p \in Proc, Work(p) PROVE IInv'
  <2>1. CASE RetrieveLocal(p)
    BY <1>1, <2>1, RetrieveLocalStep
  <2>2. CASE ReturnFromService(p)
    BY <1>1, <2>2, ReturnStep
  <2>3. CASE Deliver(p)
    BY <1>1, <2>3, DeliversStep
  <2>4. CASE End(p)
    BY <1>1, <2>4, ForgetStep DEF End
  <2>5. CASE (AddSubscriber(p) \/ Ask(p)) /\ UNCHANGED <<build, pubVars, local, evtVars, histories>>
    BY <1>1, <2>5, QuietStep
  <2> QED
    BY <1>4, <1>6, <2>1, <2>2, <2>3, <2>4, <2>5 DEF Work
<1>7. ASSUME NEW p \in Proc, Die(p) PROVE IInv'
  BY <1>1, <1>7, ForgetStep DEF Die
<1>8. CASE Serve
  BY <1>1, <1>8, QuietStep DEF Serve
<1>9. CASE UNCHANGED vars
  BY <1>1, <1>9, QuietStep DEF vars
<1> QED
  BY <1>2, <1>3, <1>4, <1>5, <1>6, <1>7, <1>8, <1>9 DEF Next

THEOREM Invariance == Spec => []IInv
<1>1. Init => IInv /\ Unasked
  BY InitInv DEF Init, SvcInit, Unasked
<1>2. IInv /\ Unasked /\ [Next]_vars => (IInv /\ Unasked)'
  BY NextInv, UnaskedStays
<1> QED
  BY <1>1, <1>2, PTL DEF Spec

-----------------------------------------------------------------------------
(* What follows.                                                            *)

\* Every variable stays in its type, for any builds, processes and subscribers.
THEOREM TypeCorrect == Spec => []TypeOK
<1>1. IInv => TypeOK
  BY DEF IInv, SvcInv, EventTypeOK, TypeOK
<1> QED
  BY <1>1, Invariance, PTL

\* The service stores a subscriber as it was handed to the insert, less what the
\* message does not carry, however late its message arrives.
THEOREM StoredAsInserted == Spec => []StoredIsInserted
<1>1. IInv => StoredIsInserted
  BY TableBare DEF IInv
<1> QED
  BY <1>1, Invariance, PTL

\* A retrieval over the service returns what was stored at one moment of the
\* call, or nothing.
THEOREM RetrievalIsSnapshot == Spec => []RetrievedIsSnapshot
<1>1. IInv => RetrievedIsSnapshot
  <2> SUFFICES ASSUME IInv, NEW p \in Proc, pc[p] = "answered", op[p] # "insert"
               PROVE  \/ Result(p) = Empty
                      \/ \E rs \in tables[p] :
                           Result(p) = Kept(IF op[p] = "retrieve" THEN Only(rs, arg[p]) ELSE Listed(rs, arg[p]))
    BY DEF RetrievedIsSnapshot
  <2>1. op[p] \in Retrieval
    BY DEF IInv, SvcInv, SvcTypeOK, CallInv, Op, Retrieval
  <2> QED
    BY <2>1, ResultIs DEF IInv, Select
<1> QED
  BY <1>1, Invariance, PTL

\* The node that all subscribers share is never freed with one of the clients.
THEOREM PayloadStaysAlive == Spec => []PayloadAlive
<1>1. IInv => PayloadAlive
  BY DEF IInv, EventInv, PlaceInv, PayloadAlive
<1> QED
  BY <1>1, Invariance, PTL

\* No event is sent to one who did not ask for it, or no longer does.
THEOREM NoEventStrays == Spec => []NoStrayEvent
<1>1. IInv => NoStrayEvent
  BY DEF IInv, EventInv, Stray, NoStrayEvent
<1> QED
  BY <1>1, Invariance, PTL

\* A publish that has its list goes to everyone it is due to.
THEOREM EventsReachTheirSinks == Spec => []EventReachesDataSink
<1>1. IInv => EventReachesDataSink
  <2> SUFFICES ASSUME IInv, NEW p \in Proc, build.manager = "sqlite", build.publisher = "default",
                      listed[p], Over(p), NEW i \in due[p] \ withdrawn, Lets(asked[i])
               PROVE  Served(p, i)
    BY DEF EventReachesDataSink, Served
  <2>1. i \in Id /\ rows[p][i] # NoRow
    BY DEF IInv, EventTypeOK, EventInv, ListInv
  <2>2. at[p] = "next" /\ pending[p] = {}
    BY DEF Over
  <2> QED
    BY <2>1, <2>2 DEF IInv, EventInv, Done
<1> QED
  BY <1>1, Invariance, PTL

-----------------------------------------------------------------------------
(* A publish takes a number of steps that is known when it begins.          *)

\* Only a worker publishes, and its one call of the service is for its list.
CallPlace ==
  \A p \in Proc :
    /\ at[p] # "idle" => p \in Worker
    /\ p \in Worker /\ pc[p] # "idle" => op[p] = "retrieveAll" /\ at[p] = "retrieve"

\* What the steps of a process, and those of the service, leave alone.
LEMMA OthersAreApart ==
  ASSUME IInv, NEW p \in Proc, NEW q \in Proc \ {p},
         \/ \E i \in Id : (\E s \in Inserted : InsertLocal(p, i, s)) \/ RemoveLocal(p, i)
         \/ CallInsert(p) \/ CallRetrieve(p)
         \/ \E t \in Topic : Publish(p, t)
         \/ Work(p) \/ Die(p)
  PROVE  at'[q] = at[q] /\ pc'[q] = pc[q] /\ op'[q] = op[q] /\ pending'[q] = pending[q]
<1> /\ pc \in [Proc -> {"idle", "sent", "answered"}] /\ op \in [Proc -> Op] /\ PubTypeOK
  BY DEF IInv, SvcInv, SvcTypeOK, EventTypeOK
<1> USE DEF PubTypeOK, svcVars, calls, pubVars
<1>1. ASSUME Return(p) PROVE pc'[q] = pc[q] /\ op'[q] = op[q]
  BY <1>1 DEF Return
<1>2. ASSUME NEW list, TakeResult(p, list) PROVE at'[q] = at[q] /\ pending'[q] = pending[q]
  BY <1>2 DEF TakeResult, TakeList
<1>3. CASE \E i \in Id : (\E s \in Inserted : InsertLocal(p, i, s)) \/ RemoveLocal(p, i)
  BY <1>3 DEF InsertLocal, RemoveLocal
<1>4. CASE CallInsert(p) \/ CallRetrieve(p) \/ CallRetrieveAll(p)
  BY <1>4 DEF CallInsert, CallRetrieve, CallRetrieveAll, SendInsert, SendRetrieve, SendRetrieveAll, Send
<1>5. ASSUME NEW t \in Topic, Publish(p, t)
      PROVE  at'[q] = at[q] /\ pc'[q] = pc[q] /\ op'[q] = op[q] /\ pending'[q] = pending[q]
  BY <1>5 DEF Publish, Begin
<1>6. CASE RetrieveLocal(p)
  BY <1>6 DEF RetrieveLocal, TakeList
<1>7. CASE ReturnFromService(p)
  BY <1>1, <1>2, <1>7 DEF ReturnFromService, Answered, GiveUp, Abandon
<1>8. CASE Deliver(p)
  BY <1>8, DeliverTypes DEF Deliver
<1>9. CASE End(p)
  BY <1>9 DEF End, ForgetEvent, Forget
<1>10. CASE (AddSubscriber(p) \/ Ask(p)) /\ UNCHANGED <<build, pubVars, local, evtVars, histories>>
  BY <1>10 DEF AddSubscriber, Ask
<1>11. CASE Die(p)
  BY <1>1, <1>11 DEF Die, Crash, Abandon, ForgetEvent, Forget
<1> QED
  BY <1>3, <1>4, <1>5, <1>6, <1>7, <1>8, <1>9, <1>10, <1>11 DEF Work

LEMMA CallPlaceStays ==
  ASSUME IInv, Unasked, CallPlace, [Next]_vars
  PROVE  CallPlace'
<1> /\ pc \in [Proc -> {"idle", "sent", "answered"}] /\ op \in [Proc -> Op] /\ PubTypeOK
  BY DEF IInv, SvcInv, SvcTypeOK, EventTypeOK
<1> USE DEF PubTypeOK, svcVars, calls, pubVars
<1> DEFINE Placed(p) ==
      /\ at[p] # "idle" => p \in Worker
      /\ p \in Worker /\ pc[p] # "idle" => op[p] = "retrieveAll" /\ at[p] = "retrieve"
<1>1. CASE Serve \/ UNCHANGED vars
  BY <1>1 DEF Serve, LateAddSubscriber, RemoveSubscriber, vars, CallPlace
<1>2. ASSUME NEW p \in Proc,
             \/ \E i \in Id : (\E s \in Inserted : InsertLocal(p, i, s)) \/ RemoveLocal(p, i)
             \/ CallInsert(p) \/ CallRetrieve(p)
             \/ \E t \in Topic : Publish(p, t)
             \/ Work(p) \/ Die(p)
      PROVE  CallPlace'
  <2>1. ASSUME NEW q \in Proc \ {p} PROVE Placed(q)'
    BY <1>2, <2>1, OthersAreApart DEF CallPlace
  <2>2. Placed(p)'
    <3>0. Placed(p)
      BY DEF CallPlace
    <3>1. CASE \E i \in Id : (\E s \in Inserted : InsertLocal(p, i, s)) \/ RemoveLocal(p, i)
      BY <3>0, <3>1 DEF InsertLocal, RemoveLocal
    <3>2. CASE CallInsert(p) \/ CallRetrieve(p)
      BY <3>0, <3>2 DEF CallInsert, CallRetrieve, SendInsert, SendRetrieve, Send, Free
    <3>3. CASE CallRetrieveAll(p)
      BY <3>0, <3>3 DEF CallRetrieveAll, SendRetrieveAll, Send
    <3>4. ASSUME NEW t \in Topic, Publish(p, t) PROVE Placed(p)'
      BY <3>0, <3>4 DEF Publish, Begin
    <3>5. CASE RetrieveLocal(p)
      <4>1. pc[p] = "idle"
        BY <3>5 DEF RetrieveLocal, Unasked
      <4> QED
        BY <3>0, <3>5, <4>1 DEF RetrieveLocal, TakeList
    <3>6. CASE ReturnFromService(p)
      <4>1. pc'[p] = "idle"
        BY <3>6 DEF ReturnFromService, Answered, GiveUp, Abandon, Return
      <4>2. at'[p] # "idle" => at[p] # "idle"
        BY <3>6 DEF ReturnFromService, TakeResult, TakeList
      <4> QED
        BY <3>0, <4>1, <4>2
    <3>7. CASE Deliver(p)
      <4>1. at[p] \notin {"idle", "retrieve"} /\ UNCHANGED <<pc, op>>
        BY <3>7 DEF Deliver, PubStep, VisitNext, Visit, FireAndForget, EsbSend, Detach, FreeClient
      <4> QED
        BY <3>0, <4>1
    <3>8. CASE End(p)
      BY <3>0, <3>8 DEF End, Over, ForgetEvent, Forget
    <3>9. CASE (AddSubscriber(p) \/ Ask(p)) /\ UNCHANGED <<build, pubVars, local, evtVars, histories>>
      BY <3>0, <3>9 DEF AddSubscriber, Ask
    <3>10. CASE Die(p)
      <4>1. pc'[p] = "idle"
        BY <3>10 DEF Die, Crash, Abandon, Return
      <4> QED
        BY <3>10, <4>1 DEF Die, ForgetEvent, Forget
    <3> QED
      BY <1>2, <3>1, <3>2, <3>3, <3>4, <3>5, <3>6, <3>7, <3>8, <3>9, <3>10 DEF Work
  <2> QED
    BY <2>1, <2>2 DEF CallPlace
<1> QED
  BY <1>1, <1>2 DEF Next

LEMMA OneLess ==
  ASSUME NEW S, IsFiniteSet(S), NEW x \in S
  PROVE  Cardinality(S) \in Nat /\ Cardinality(S \ {x}) = Cardinality(S) - 1
BY FS_RemoveElement, FS_CardinalityType

\* What is left is a number, as there are finitely many subscribers.
LEMMA LeftIsNat ==
  ASSUME IInv, IsFiniteSet(Id), NEW p \in Proc
  PROVE  /\ Left(p) \in Nat
         /\ CallLeft(p) \in {1, 2, 3}
         /\ at[p] # "idle" => Left(p) # 0
         /\ IsFiniteSet(pending[p]) /\ Cardinality(pending[p]) \in Nat
         /\ Cardinality(Id) \in Nat
<1>1. /\ at[p] \in {"idle", "retrieve", "next", "send", "detach", "free"}
      /\ pending[p] \in SUBSET Id
  BY DEF IInv, EventTypeOK, PubTypeOK
<1>2. /\ IsFiniteSet(pending[p]) /\ Cardinality(pending[p]) \in Nat
      /\ Cardinality(Id) \in Nat
  BY <1>1, FS_Subset, FS_CardinalityType
<1>3. CallLeft(p) \in {1, 2, 3}
  BY DEF CallLeft
<1> QED
  BY <1>1, <1>2, <1>3 DEF Left

\* A list is taken.
LEMMA TakeCounts ==
  ASSUME IInv, IsFiniteSet(Id), NEW p \in Proc, NEW list, TakeList(p, list)
  PROVE  Left(p)' < Left(p)
<1>1. /\ at[p] = "retrieve" /\ at'[p] = "next"
      /\ pending'[p] \in SUBSET Id
  BY DEF TakeList, IInv, EventTypeOK, PubTypeOK
<1>2. Cardinality(pending'[p]) \in Nat /\ Cardinality(pending'[p]) <= Cardinality(Id)
  BY <1>1, FS_Subset, FS_CardinalityType
<1>3. Left(p)' = 4 * Cardinality(pending'[p]) + 1
  BY <1>1 DEF Left
<1>4. Left(p) = 4 * Cardinality(Id) + 1 + CallLeft(p)
  BY <1>1 DEF Left
<1> QED
  BY <1>2, <1>3, <1>4, LeftIsNat

\* One step on the way through the list.
LEMMA DeliverCounts ==
  ASSUME IInv, IsFiniteSet(Id), NEW p \in Proc, PubStep(p)
  PROVE  Left(p)' < Left(p)
<1> PubTypeOK
  BY DEF IInv, EventTypeOK
<1>1. CASE VisitNext(p)
  <2>1. \E i \in Id, label \in {"send", "detach", "free"} : Visit(p, i, label)
    BY <1>1 DEF VisitNext, PubTypeOK
  <2>2. PICK i \in Id, label \in {"send", "detach", "free"} : Visit(p, i, label)
    BY <2>1
  <2>3. at[p] = "next" /\ i \in pending[p] /\ at'[p] = label /\ pending'[p] = pending[p] \ {i}
    BY <2>2 DEF Visit, PubTypeOK
  <2>4. /\ Cardinality(pending[p]) \in Nat
        /\ Cardinality(pending[p] \ {i}) = Cardinality(pending[p]) - 1
    BY <2>3, LeftIsNat, OneLess
  <2>5. Left(p) = 4 * Cardinality(pending[p]) + 1
    BY <2>3 DEF Left
  <2>6. \/ Left(p)' = 4 * Cardinality(pending[p] \ {i}) + 2
        \/ Left(p)' = 4 * Cardinality(pending[p] \ {i}) + 3
        \/ Left(p)' = 4 * Cardinality(pending[p] \ {i}) + 4
    BY <2>3 DEF Left
  <2> QED
    BY <2>4, <2>5, <2>6
<1>2. CASE FireAndForget(p) \/ EsbSend(p)
  <2>1. at[p] = "send" /\ at'[p] = "detach" /\ pending'[p] = pending[p]
    BY <1>2 DEF FireAndForget, EsbSend, PubTypeOK
  <2> QED
    BY <2>1, LeftIsNat DEF Left
<1>3. CASE Detach(p)
  <2>1. at[p] = "detach" /\ at'[p] \in {"free", "next"} /\ pending'[p] = pending[p]
    BY <1>3 DEF Detach, PubTypeOK
  <2> QED
    BY <2>1, LeftIsNat DEF Left
<1>4. CASE FreeClient(p)
  <2>1. at[p] = "free" /\ at'[p] = "next" /\ pending'[p] = pending[p]
    BY <1>4 DEF FreeClient, PubTypeOK
  <2> QED
    BY <2>1, LeftIsNat DEF Left
<1> QED
  BY <1>1, <1>2, <1>3, <1>4 DEF PubStep

\* A publish that returns, or whose process dies, has nothing left.
LEMMA ForgetLeaves ==
  ASSUME IInv, NEW p \in Proc, ForgetEvent(p)
  PROVE  Left(p)' = 0
<1>1. at'[p] = "idle"
  BY DEF ForgetEvent, Forget, IInv, EventTypeOK, PubTypeOK
<1> QED
  BY <1>1 DEF Left

\* One step of a publish.
LEMMA WorkCounts ==
  ASSUME IInv, CallPlace, IsFiniteSet(Id), NEW p \in Proc, at[p] # "idle", Work(p)
  PROVE  Left(p)' < Left(p)
<1> /\ pc \in [Proc -> {"idle", "sent", "answered"}] /\ PubTypeOK
  BY DEF IInv, SvcInv, SvcTypeOK, EventTypeOK
<1>1. CASE RetrieveLocal(p)
  BY <1>1, TakeCounts DEF RetrieveLocal
<1>2. CASE CallRetrieveAll(p)
  <2>1. at[p] = "retrieve" /\ at'[p] = "retrieve" /\ pc[p] = "idle" /\ pc'[p] = "sent"
    BY <1>2 DEF CallRetrieveAll, SendRetrieveAll, Send, pubVars
  <2> QED
    BY <2>1, LeftIsNat DEF Left, CallLeft
<1>3. CASE ReturnFromService(p)
  <2>1. pc[p] # "idle"
    BY <1>3 DEF ReturnFromService, Answered, GiveUp, Abandon
  <2>2. op[p] = "retrieveAll"
    BY <2>1 DEF CallPlace
  <2> QED
    BY <1>3, <2>2, TakeCounts DEF ReturnFromService, TakeResult
<1>4. CASE Deliver(p)
  BY <1>4, DeliverCounts DEF Deliver
<1>5. CASE End(p)
  BY <1>5, ForgetLeaves, LeftIsNat DEF End
<1>6. CASE (AddSubscriber(p) \/ Ask(p)) /\ UNCHANGED <<build, pubVars, local, evtVars, histories>>
  <2>1. pc[p] = "sent" /\ pc'[p] = "answered" /\ at'[p] = at[p]
    BY <1>6 DEF AddSubscriber, Ask, pubVars
  <2>2. at[p] = "retrieve"
    BY <2>1 DEF CallPlace
  <2> QED
    BY <2>1, <2>2, LeftIsNat DEF Left, CallLeft
<1> QED
  BY <1>1, <1>2, <1>3, <1>4, <1>5, <1>6 DEF Work

\* For any builds, processes and faults and any finite number of subscribers, a
\* publish takes a number of steps that is known when it begins, whatever the
\* service and the other processes do.  With the fairness of FairSpec it ends.
THEOREM PublishesBounded == IsFiniteSet(Id) /\ Spec => PublishesAreBounded
<1> SUFFICES ASSUME IsFiniteSet(Id) PROVE Spec => PublishesAreBounded
  OBVIOUS
<1> DEFINE Bounded(p) == IF Work(p) THEN Left(p)' < Left(p) ELSE Left(p)' <= Left(p)
<1>1. IInv /\ CallPlace /\ [Next]_vars => [\A p \in Proc : at[p] # "idle" => Bounded(p)]_vars
  <2> SUFFICES ASSUME IInv, CallPlace, Next, NEW p \in Proc, at[p] # "idle", ~Work(p)
               PROVE  Left(p)' <= Left(p)
    BY WorkCounts
  <2>1. Left(p) \in Nat
    BY LeftIsNat
  <2>2. ASSUME at'[p] = at[p], pc'[p] = pc[p], pending'[p] = pending[p] PROVE Left(p)' <= Left(p)
    <3>1. Left(p)' = Left(p)
      BY <2>2 DEF Left, CallLeft
    <3> QED
      BY <2>1, <3>1
  <2>3. CASE Die(p)
    <3>1. Left(p)' = 0
      BY <2>3, ForgetLeaves DEF Die
    <3> QED
      BY <2>1, <3>1
  <2>4. CASE Serve
    BY <2>2, <2>4 DEF Serve, LateAddSubscriber, RemoveSubscriber, calls, pubVars
  <2>5. p \in Worker
    BY DEF CallPlace
  <2>6. CASE \E i \in Id : (\E s \in Inserted : InsertLocal(p, i, s)) \/ RemoveLocal(p, i)
    BY <2>5, <2>6 DEF InsertLocal, RemoveLocal, Free
  <2>7. CASE CallInsert(p) \/ CallRetrieve(p)
    BY <2>5, <2>7 DEF CallInsert, CallRetrieve, Free
  <2>8. ASSUME NEW t \in Topic, Publish(p, t) PROVE FALSE
    BY <2>8 DEF Publish, Begin
  <2>9. ASSUME NEW q \in Proc \ {p},
               \/ \E i \in Id : (\E s \in Inserted : InsertLocal(q, i, s)) \/ RemoveLocal(q, i)
               \/ CallInsert(q) \/ CallRetrieve(q)
               \/ \E t \in Topic : Publish(q, t)
               \/ Work(q) \/ Die(q)
        PROVE  Left(p)' <= Left(p)
    BY <2>2, <2>9, OthersAreApart
  <2> QED
    BY <2>3, <2>4, <2>6, <2>7, <2>8, <2>9 DEF Next
<1>2. Init => CallPlace
  BY DEF Init, SvcInit, PubInit, CallPlace
<1>3. Init => Unasked
  BY DEF Init, SvcInit, Unasked
<1>4. IInv /\ Unasked /\ CallPlace /\ [Next]_vars => Unasked' /\ CallPlace'
  BY UnaskedStays, CallPlaceStays
<1> QED
  BY <1>1, <1>2, <1>3, <1>4, Invariance, PTL DEF Spec, PublishesAreBounded

=============================================================================
