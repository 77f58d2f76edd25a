---------------------------- MODULE Notification -----------------------------
(***************************************************************************)
(* From a subscription to the events: an event source with its publisher,  *)
(* and one of the two subscription managers that can be shared, as the     *)
(* build has it.  The sqlite manager has a table of its own, on which a    *)
(* call is atomic (SqliteSubsMgr); the service manager asks the            *)
(* subscription manager service (ServiceSubsMgr).                          *)
(***************************************************************************)
EXTENDS Naturals, ServiceSubsMgr, Publisher

CONSTANT Worker  \* bound: the processes that publish; the others take subscriptions

ASSUME NotificationAssumption == Worker \subseteq Proc

VARIABLES
  local,      \* the table of the sqlite manager
  about,      \* the topic of the event that is published
  \* Kept for the properties only.
  confirmed,  \* the identifiers whose insert was a success
  withdrawn,  \* those whose removal was
  listed,     \* the publish has a list
  due,        \* confirmed and not withdrawn when the event came
  barred      \* withdrawn when the event came

evtVars   == <<about, listed, due, barred>>
histories == <<confirmed, withdrawn>>
vars      == <<svcVars, build, pubVars, local, evtVars, histories>>

TypeOK ==
  /\ SvcTypeOK
  /\ PubTypeOK
  /\ local     \in [Id -> Row]
  /\ about     \in [Proc -> Maybe]
  /\ listed    \in [Proc -> BOOLEAN]
  /\ confirmed \subseteq Id
  /\ withdrawn \subseteq Id
  /\ due       \in [Proc -> SUBSET Id]
  /\ barred    \in [Proc -> SUBSET Id]

Init ==
  /\ SvcInit
  /\ PubInit
  /\ local     = Empty
  /\ about     = [p \in Proc |-> Null]
  /\ listed    = [p \in Proc |-> FALSE]
  /\ confirmed = {}
  /\ withdrawn = {}
  /\ due       = [p \in Proc |-> {}]
  /\ barred    = [p \in Proc |-> {}]

-----------------------------------------------------------------------------
(* The sqlite manager.                                                      *)

Free(p) == p \notin Worker /\ pc[p] = "idle"

InsertLocal(p, i, s) ==
  /\ build.manager = "sqlite"
  /\ Free(p)
  /\ asked[i] = NoRow
  /\ asked' = [asked EXCEPT ![i] = s]
  /\ \/ local' = [local EXCEPT ![i] = Columns(s)] /\ confirmed' = confirmed \cup {i}
     \/ "insert" \in Faults /\ UNCHANGED <<local, confirmed>>
  /\ UNCHANGED <<table, late, calls, tables, build, pubVars, evtVars, withdrawn>>

RemoveLocal(p, i) ==
  /\ build.manager = "sqlite"
  /\ Free(p)
  /\ i \in confirmed
  /\ local' = [local EXCEPT ![i] = NoRow]
  /\ withdrawn' = withdrawn \cup {i}
  /\ UNCHANGED <<svcVars, build, pubVars, evtVars, confirmed>>

\* Without a filter, all of them.
SelectAll(t) == local
SelectList(t) ==
  [i \in Id |-> IF local[i] # NoRow /\ (t = Null \/ local[i].filter = t) THEN local[i] ELSE NoRow]

RetrieveLocal(p) ==
  /\ build.manager = "sqlite"
  /\ \/ TakeList(p, SelectList(about[p])) /\ listed' = [listed EXCEPT ![p] = TRUE]
     \/ "retrieve" \in Faults /\ TakeList(p, Empty) /\ UNCHANGED listed
  /\ UNCHANGED <<svcVars, build, local, about, due, barred, histories>>

-----------------------------------------------------------------------------
(* The service manager, called from the same places.  Its update and its    *)
(* removal are a success and do nothing, which is no step here.             *)

CallInsert(p) ==
  /\ build.manager = "service" /\ Free(p)
  /\ \E i \in Id, s \in Inserted : SendInsert(p, i, s)
  /\ UNCHANGED <<build, pubVars, local, evtVars, histories>>

CallRetrieve(p) ==
  /\ build.manager = "service" /\ Free(p)
  /\ \E i \in Id : SendRetrieve(p, i)
  /\ UNCHANGED <<build, pubVars, local, evtVars, histories>>

CallRetrieveAll(p) ==
  /\ build.manager = "service" /\ at[p] = "retrieve"
  /\ SendRetrieveAll(p, about[p])
  /\ UNCHANGED <<build, pubVars, local, evtVars, histories>>

\* The end of a call: an insert is a success in any case, and a publisher goes
\* on with the list.
TakeResult(p, list) ==
  \/ /\ op[p] = "insert"
     /\ confirmed' = confirmed \cup {arg[p]}
     /\ UNCHANGED <<pubVars, listed>>
  \/ op[p] = "retrieve" /\ UNCHANGED <<confirmed, pubVars, listed>>
  \/ /\ op[p] = "retrieveAll"
     /\ TakeList(p, list)
     /\ listed' = [listed EXCEPT ![p] = list # Empty]
     /\ UNCHANGED confirmed

ReturnFromService(p) ==
  /\ \/ Answered(p) /\ TakeResult(p, Result(p))
     \/ GiveUp(p) /\ TakeResult(p, Empty)
  /\ UNCHANGED <<build, local, about, due, barred, withdrawn>>

Serve ==
  /\ \E i \in Id : LateAddSubscriber(i) \/ RemoveSubscriber(i)
  /\ UNCHANGED <<build, pubVars, local, evtVars, histories>>

-----------------------------------------------------------------------------

\* An event comes.  The default publisher takes its topic from the message; the
\* esb publisher takes none.
Publish(p, t) ==
  /\ p \in Worker
  /\ build.publisher = "esb" => t = Null
  /\ Begin(p)
  /\ about'  = [about EXCEPT ![p] = t]
  /\ due'    = [due EXCEPT ![p] = {i \in confirmed \ withdrawn : t \in {Null, asked[i].filter}}]
  /\ barred' = [barred EXCEPT ![p] = withdrawn]
  /\ UNCHANGED <<svcVars, build, local, listed, histories>>

Deliver(p) == PubStep(p) /\ UNCHANGED <<svcVars, build, local, evtVars, histories>>

ForgetEvent(p) ==
  /\ Forget(p)
  /\ about'  = [about EXCEPT ![p] = Null]
  /\ listed' = [listed EXCEPT ![p] = FALSE]
  /\ due'    = [due EXCEPT ![p] = {}]
  /\ barred' = [barred EXCEPT ![p] = {}]
  /\ UNCHANGED <<build, local, histories>>

End(p) == Over(p) /\ ForgetEvent(p) /\ UNCHANGED svcVars

\* A process dies in a call or in a publish.
Die(p) ==
  /\ "crash" \in Faults
  /\ Crash(p) \/ (pc[p] = "idle" /\ at[p] # "idle" /\ UNCHANGED svcVars)
  /\ ForgetEvent(p)

Work(p) ==
  \/ RetrieveLocal(p) \/ CallRetrieveAll(p) \/ ReturnFromService(p) \/ Deliver(p) \/ End(p)
  \/ (AddSubscriber(p) \/ Ask(p)) /\ UNCHANGED <<build, pubVars, local, evtVars, histories>>

Next ==
  \/ \E p \in Proc :
       \/ \E i \in Id : (\E s \in Inserted : InsertLocal(p, i, s)) \/ RemoveLocal(p, i)
       \/ CallInsert(p) \/ CallRetrieve(p)
       \/ \E t \in Topic : Publish(p, t)
       \/ Work(p)
       \/ Die(p)
  \/ Serve

Spec == Init /\ [][Next]_vars

\* A thread of the event source goes on, and so does the service; what a message
\* waits for ends with a timeout of the client library at the latest.
FairSpec == Spec /\ \A p \in Proc : WF_vars(Work(p))

-----------------------------------------------------------------------------

\* What the build promises to send for a subscriber, as it asked.
Lets(s) == ~build.filtering \/ (build.filtermod /\ s.filter \in Passes)

\* With the sqlite manager and the default publisher, a publish that has got its
\* list has gone to the data sink of every subscriber whose Subscribe was a
\* success before the event came, if it asked for the topic and its filter lets
\* the event through, and if it was not removed; to the address that subscriber
\* gave, with the event and not with a node that was left empty by another one.
EventReachesDataSink ==
  \A p \in Proc :
    (build.manager = "sqlite" /\ build.publisher = "default" /\ listed[p] /\ Over(p)) =>
      \A i \in due[p] \ withdrawn : Lets(asked[i]) =>
        got[p][i].what \in {"event", "failed"} /\ got[p][i].to = asked[i].notifyTo

\* An event is only sent to the address a subscriber gave, if it had not been
\* removed when the event came, for a topic it asked for and, where filters are
\* applied, through its filter.
NoStrayEvent ==
  \A p \in Proc, i \in Id : got[p][i].what = "event" =>
    /\ asked[i] # NoRow
    /\ got[p][i].to = asked[i].notifyTo
    /\ i \notin barred[p]
    /\ about[p] \in {Null, asked[i].filter}
    /\ build.filtering /\ build.publisher = "default" => asked[i].filter \in Passes

\* Every publish comes to its end, whatever becomes of the data sinks and of
\* the messages to the service.
EveryPublishEnds == \A p \in Proc : (at[p] # "idle") ~> (at[p] = "idle")

\* The steps a publish has still to take, at most: the call of its manager, up to
\* four for each subscriber of its list, and its end.
CallLeft(p) == CASE pc[p] = "idle" -> 3 [] pc[p] = "sent" -> 2 [] OTHER -> 1

Left(p) ==
  CASE at[p] = "retrieve" -> 4 * Cardinality(Id) + 1 + CallLeft(p)
    [] at[p] = "next"     -> 4 * Cardinality(pending[p]) + 1
    [] at[p] = "free"     -> 4 * Cardinality(pending[p]) + 2
    [] at[p] = "detach"   -> 4 * Cardinality(pending[p]) + 3
    [] at[p] = "send"     -> 4 * Cardinality(pending[p]) + 4
    [] OTHER              -> 0

\* Each step of a publish counts down, and nothing another process or the service
\* does adds to what is left: it visits each subscriber once and returns, though
\* subscribers come and go and calls, sends and filters fail in between.
PublishesAreBounded ==
  [][\A p \in Proc : at[p] # "idle" =>
       IF Work(p) THEN Left(p)' < Left(p) ELSE Left(p)' <= Left(p)]_vars

\* src/README:123 of the publisher: "emits it to the registered subscriber's data
\* sink(listener service here) provided by subscriber".
EveryDataSinkNotified ==
  \A p \in Proc : (listed[p] /\ Over(p)) =>
    \A i \in due[p] \ withdrawn : got[p][i].to = asked[i].notifyTo

=============================================================================
