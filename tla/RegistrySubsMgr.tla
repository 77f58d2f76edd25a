--------------------------- MODULE RegistrySubsMgr ---------------------------
(***************************************************************************)
(* The registry subscription manager.  A subscriber is a resource of a     *)
(* remote registry at /<filter>/system.subscriptions/<id>; the resource    *)
(* TopicIndex names, for each identifier, the collection it is in.  Every  *)
(* get, put and delete is a request of its own, and changing the index is  *)
(* a get, a change of the copy and a put of the whole of it, with nothing  *)
(* that keeps two managers apart.                                          *)
(*                                                                         *)
(* The client of the registry keeps the records it has fetched, so a get   *)
(* may be answered with an older one.  Which ones it keeps, and for how    *)
(* long, is its own affair: here it is any the record has been since the   *)
(* process came up or last wrote it itself.                                *)
(*                                                                         *)
(* One topic stands for all: subscriptions of different topics share       *)
(* nothing but the index.                                                  *)
(***************************************************************************)
EXTENDS Naturals, FiniteSets

CONSTANTS
  Proc,      \* server threads and processes, each with its manager
  Writer,    \* those of them that insert, update or remove
  Id,        \* subscription identifiers
  NoId,      \* no identifier
  Value,     \* what a resource holds besides its identifier
  NoRow,     \* no resource at the path
  OneByOne,  \* while there is no index, only one process at a time starts
  Faults     \* the requests that may fail, and "crash"

ASSUME RegistryAssumption ==
  /\ Writer \subseteq Proc
  /\ NoRow \notin Value /\ NoId \notin Id
  /\ OneByOne \in BOOLEAN
  /\ Faults \subseteq {"startGet", "get", "put", "delete", "crash"}

VARIABLES
  hasIndex,   \* the resource TopicIndex exists
  index,      \* its properties: for each id the kind of path it names
  resource,   \* the subscriber resources
  pc,         \* where each process is
  op,         \* the call it is in
  id,         \* its subscription identifier, NoId when it is about all or a topic
  val,        \* the subscriber it writes, NoRow when it writes none
  filtered,   \* whether the subscriber it inserts has a wse:Filter
  copy,       \* the copy of the index it has
  left,       \* the entries of the copy a retrieval has still to follow
  indexCopies,  \* what the process's client may take for the index
  rowCopies,    \* and for each subscriber, if it has one
  got,        \* the subscribers a retrieval has found
  \* Kept for the properties only.
  used,       \* identifiers an insert was called with
  added,      \* identifiers whose insert was a success
  plain,      \* those of them inserted without a filter
  withdrawn,  \* identifiers a removal was called with
  removed,    \* identifiers whose removal was a success
  failed,     \* a put of the process's call, or a get of its retrieval, failed
  witnessed   \* the rows each identifier had since the process last wrote it, or came up

registry  == <<hasIndex, index, resource>>
call      == <<pc, op, id, val, filtered, copy, left, got>>
cached    == <<indexCopies, rowCopies>>
histories == <<used, added, plain, withdrawn, removed, failed>>
vars      == <<registry, call, cached, histories, witnessed>>

WriteOp == {"insert", "update", "remove"}
ReadOp  == {"retrieve", "retrieveAll", "retrieveTopic"}
Row     == Value \cup {NoRow}
NoRows  == [i \in Id |-> NoRow]

\* A property of the index: a collection of the topic, or "/", which is all
\* that is left of the path when there is no filter.
Entry     == {"none", "topic", "root"}
NoEntries == [i \in Id |-> "none"]

PC == {"down", "start", "idle", "index", "subscriber", "put", "delete",
       "reindex", "putIndex", "list", "topic"}

TypeOK ==
  /\ hasIndex  \in BOOLEAN
  /\ index     \in [Id -> Entry]
  /\ resource  \in [Id -> Row]
  /\ pc        \in [Proc -> PC]
  /\ op        \in [Proc -> WriteOp \cup ReadOp \cup {"none"}]
  /\ id        \in [Proc -> Id \cup {NoId}]
  /\ val       \in [Proc -> Row]
  /\ filtered  \in [Proc -> BOOLEAN]
  /\ copy      \in [Proc -> [Id -> Entry]]
  /\ left      \in [Proc -> SUBSET Id]
  /\ got       \in [Proc -> [Id -> Row]]
  /\ indexCopies \in [Proc -> SUBSET [Id -> Entry]]
  /\ rowCopies   \in [Proc -> [Id -> SUBSET Value]]
  /\ used      \in SUBSET Id
  /\ added     \in SUBSET used
  /\ plain     \in SUBSET added
  /\ withdrawn \in SUBSET added
  /\ removed   \in SUBSET withdrawn
  /\ failed    \in [Proc -> BOOLEAN]
  /\ witnessed \in [Proc -> [Id -> SUBSET Row]]

\* The subscriptions the manager has: in the index, and at the path it names.
Table == [i \in Id |-> IF index[i] = "topic" THEN resource[i] ELSE NoRow]

Init ==
  /\ hasIndex  = FALSE
  /\ index     = NoEntries
  /\ resource  = NoRows
  /\ pc        = [p \in Proc |-> "down"]
  /\ op        = [p \in Proc |-> "none"]
  /\ id        = [p \in Proc |-> NoId]
  /\ val       = [p \in Proc |-> NoRow]
  /\ filtered  = [p \in Proc |-> TRUE]
  /\ copy      = [p \in Proc |-> NoEntries]
  /\ left      = [p \in Proc |-> {}]
  /\ got       = [p \in Proc |-> NoRows]
  /\ indexCopies = [p \in Proc |-> {}]
  /\ rowCopies   = [p \in Proc |-> [i \in Id |-> {}]]
  /\ used      = {}
  /\ added     = {}
  /\ plain     = {}
  /\ withdrawn = {}
  /\ removed   = {}
  /\ failed    = [p \in Proc |-> FALSE]
  /\ witnessed = [p \in Proc |-> [i \in Id |-> {}]]

-----------------------------------------------------------------------------
(* init_resource, when a process creates its manager.                       *)

\* The client is new and asks the registry.  No answer is taken for no index.
StartGet(p) ==
  /\ pc[p] = "down"
  /\ OneByOne => hasIndex \/ \A q \in Proc : pc[q] # "start"
  /\ \/ hasIndex /\ pc' = [pc EXCEPT ![p] = "idle"]
     \/ /\ ~hasIndex \/ "startGet" \in Faults
        /\ pc' = [pc EXCEPT ![p] = "start"]
  /\ UNCHANGED <<registry, op, id, val, filtered, copy, left, got, histories>>

StartPut(p) ==
  /\ pc[p] = "start"
  /\ \/ hasIndex' = TRUE /\ index' = NoEntries
     \/ "put" \in Faults /\ UNCHANGED <<hasIndex, index>>
  /\ pc' = [pc EXCEPT ![p] = "idle"]
  /\ UNCHANGED <<resource, op, id, val, filtered, copy, left, got, histories>>

-----------------------------------------------------------------------------
(* A call and its end.                                                      *)

\* The first request of a call.
Unstored(o) == CASE o = "insert"        -> "reindex"
                 [] o = "retrieveTopic" -> "topic"
                 [] OTHER               -> "index"
First(o) == CASE o = "insert"        -> "put"
              [] o = "retrieveTopic" -> "topic"
              [] OTHER               -> "index"

\* An identifier is inserted once, and is known to others when its insert is
\* through.
Call(p, o, i, v, f) ==
  /\ pc[p] = "idle"
  /\ o \in WriteOp => p \in Writer
  /\ o = "insert" => i \notin used
  /\ o \in {"update", "remove", "retrieve"} => i \in added
  /\ pc'        = [pc EXCEPT ![p] = First(o)]
  /\ op'        = [op EXCEPT ![p] = o]
  /\ id'        = [id EXCEPT ![p] = i]
  /\ val'       = [val EXCEPT ![p] = v]
  /\ filtered'  = [filtered EXCEPT ![p] = f]
  /\ got'       = [got EXCEPT ![p] = NoRows]
  /\ failed'    = [failed EXCEPT ![p] = FALSE]
  /\ used'      = IF o = "insert" THEN used \cup {i} ELSE used
  /\ withdrawn' = IF o = "remove" THEN withdrawn \cup {i} ELSE withdrawn
  /\ UNCHANGED <<registry, copy, left, added, plain, removed>>

\* The call goes on with the copy c of the index and the entries l to follow.
GotoWith(p, label, c, l) ==
  /\ pc'   = [pc EXCEPT ![p] = label]
  /\ copy' = [copy EXCEPT ![p] = c]
  /\ left' = [left EXCEPT ![p] = l]
  /\ UNCHANGED <<op, id, val, filtered, added, plain, removed>>

Goto(p, label) == GotoWith(p, label, copy[p], left[p])

Return(p, s) ==
  /\ pc'      = [pc EXCEPT ![p] = "idle"]
  /\ op'      = [op EXCEPT ![p] = "none"]
  /\ id'      = [id EXCEPT ![p] = NoId]
  /\ val'     = [val EXCEPT ![p] = NoRow]
  /\ filtered' = [filtered EXCEPT ![p] = TRUE]
  /\ copy'    = [copy EXCEPT ![p] = NoEntries]
  /\ left'    = [left EXCEPT ![p] = {}]
  /\ added'   = IF op[p] = "insert" /\ s = "SUCCESS" THEN added \cup {id[p]} ELSE added
  /\ plain'   = IF op[p] = "insert" /\ s = "SUCCESS" /\ ~filtered[p]
                THEN plain \cup {id[p]} ELSE plain
  /\ removed' = IF op[p] = "remove" /\ s = "SUCCESS" THEN removed \cup {id[p]} ELSE removed

\* A request fails, and the call with it.
GiveUp(p) == Return(p, "FAILURE")

-----------------------------------------------------------------------------
(* Requests on the index.                                                   *)

\* The first look into the index.  An identifier that is not in it ends the
\* call: an update and a removal fail, a retrieval finds nothing.
GetIndex(p) ==
  /\ pc[p] = "index"
  /\ \/ \E c \in indexCopies[p] :
          \/ /\ op[p] = "retrieveAll"
             /\ GotoWith(p, "list", c, {i \in Id : c[i] # "none"})
          \/ /\ op[p] = "remove" /\ c[id[p]] # "none"
             /\ GotoWith(p, "delete", c, {})
          \/ /\ op[p] \in {"update", "retrieve"} /\ c[id[p]] # "none"
             /\ GotoWith(p, "subscriber", c, {})
          \/ /\ op[p] = "retrieve" /\ c[id[p]] = "none"
             /\ GotoWith(p, "list", c, {})
          \/ /\ op[p] \in {"update", "remove"} /\ c[id[p]] = "none"
             /\ Return(p, "FAILURE")
     \/ /\ ~hasIndex \/ "get" \in Faults
        /\ GiveUp(p)
  /\ UNCHANGED <<registry, got, used, withdrawn, failed>>

\* The look into the index before it is changed.
GetIndexAgain(p) ==
  /\ pc[p] = "reindex"
  /\ \/ \E c \in indexCopies[p] : GotoWith(p, "putIndex", c, {})
     \/ /\ ~hasIndex \/ "get" \in Faults
        /\ GiveUp(p)
  /\ UNCHANGED <<registry, got, used, withdrawn, failed>>

\* The copy of the index with this call's entry set or taken out.
OwnEntryOnly(c, o, i, f) ==
  [NoEntries EXCEPT ![i] = IF o = "remove" THEN "none" ELSE IF f THEN "topic" ELSE "root"]
FilterForPath(c, o, i, f) ==
  [c EXCEPT ![i] = IF o = "remove" THEN "none" ELSE IF f THEN "filter" ELSE "root"]
NewIndex(c, o, i, f) ==
  [c EXCEPT ![i] = IF o = "remove" THEN "none" ELSE IF f THEN "topic" ELSE "root"]

\* The index is put back whole; whether that worked is not looked at.
PutIndex(p) ==
  /\ pc[p] = "putIndex"
  /\ \/ /\ index' = NewIndex(copy[p], op[p], id[p], filtered[p])
        /\ hasIndex' = TRUE
        /\ UNCHANGED failed
     \/ /\ "put" \in Faults
        /\ failed' = [failed EXCEPT ![p] = TRUE]
        /\ UNCHANGED <<index, hasIndex>>
  /\ Return(p, "SUCCESS")
  /\ UNCHANGED <<resource, got, used, withdrawn>>

-----------------------------------------------------------------------------
(* Requests on a subscriber.                                                *)

\* insert_subscriber begins, and update_subscriber ends, with a put that is
\* not looked at.  Without a filter the path is "/", where no retrieval looks.
PutSubscriber(p) ==
  /\ pc[p] = "put"
  /\ \/ /\ resource' = IF filtered[p] THEN [resource EXCEPT ![id[p]] = val[p]] ELSE resource
        /\ UNCHANGED failed
     \/ /\ "put" \in Faults
        /\ failed' = [failed EXCEPT ![p] = TRUE]
        /\ UNCHANGED resource
  /\ \/ op[p] = "insert" /\ Goto(p, "reindex")
     \/ op[p] = "update" /\ Return(p, "SUCCESS")
  /\ UNCHANGED <<hasIndex, index, got, used, withdrawn>>

\* What a get may find at the path the entry names: nothing below "/".
Found(p, i) == rowCopies[p][i] \cup {resource[i]}
At(p, i)    == IF copy[p][i] = "topic" THEN Found(p, i) ELSE {NoRow}

\* update_subscriber and retrieve_subscriber.
GetSubscriber(p) ==
  /\ pc[p] = "subscriber"
  /\ \/ \E row \in At(p, id[p]) :
          \/ /\ op[p] = "retrieve"
             /\ got' = [got EXCEPT ![p][id[p]] = row]
             /\ Goto(p, "list")
          \/ /\ op[p] = "update"
             /\ IF row = NoRow THEN Return(p, "FAILURE") ELSE Goto(p, "put")
             /\ UNCHANGED got
     \/ /\ "get" \in Faults
        /\ GiveUp(p)
        /\ UNCHANGED got
  /\ UNCHANGED <<registry, used, withdrawn, failed>>

\* remove_subscriber: the delete may fail, before or after it took effect, and a
\* delete of what is not there may be taken either way.
Deleted(p) ==
  IF copy[p][id[p]] = "topic" THEN [resource EXCEPT ![id[p]] = NoRow] ELSE resource

DeleteUnchecked(p) ==
  /\ pc[p] = "delete"
  /\ \/ resource' = Deleted(p)
     \/ "delete" \in Faults /\ UNCHANGED resource
  /\ Goto(p, "reindex")
  /\ UNCHANGED <<hasIndex, index, got, used, withdrawn, failed>>
DeleteSubscriber(p) ==
  /\ pc[p] = "delete"
  /\ \/ /\ resource' = Deleted(p)
        /\ Goto(p, "reindex")
     \/ /\ Deleted(p) = resource \/ "delete" \in Faults
        /\ resource' \in {resource, Deleted(p)}
        /\ GiveUp(p)
  /\ UNCHANGED <<hasIndex, index, got, used, withdrawn, failed>>

-----------------------------------------------------------------------------
(* The retrievals: one get for each entry, and their end.                   *)

\* retrieve_all_subscribers without a filter: the entries of the copy.  A subscriber
\* that cannot be had is passed over.
StopAtGap(l, i, row) == IF row = NoRow THEN {} ELSE l \ {i}
Rest(l, i, row) == l \ {i}

GetListed(p, i) ==
  /\ pc[p] = "list"
  /\ i \in left[p]
  /\ \/ /\ \E row \in At(p, i) :
             /\ got' = [got EXCEPT ![p][i] = row]
             /\ left' = [left EXCEPT ![p] = Rest(@, i, row)]
        /\ UNCHANGED failed
     \/ /\ "get" \in Faults
        /\ left' = [left EXCEPT ![p] = @ \ {i}]
        /\ failed' = [failed EXCEPT ![p] = TRUE]
        /\ UNCHANGED got
  /\ UNCHANGED <<registry, pc, op, id, val, filtered, copy, used, added, plain,
                 withdrawn, removed>>

\* With a filter: the entries of the collection, all in one answer; which they are
\* nothing here depends on.
GetTopic(p) ==
  /\ pc[p] = "topic"
  /\ \/ Return(p, "SUCCESS")
     \/ "get" \in Faults /\ GiveUp(p)
  /\ UNCHANGED <<registry, got, used, withdrawn, failed>>

\* A retrieval returns what it has found.
EndRetrieval(p) ==
  /\ pc[p] = "list"
  /\ left[p] = {}
  /\ Return(p, "SUCCESS")
  /\ got'    = [got EXCEPT ![p] = NoRows]
  /\ failed' = [failed EXCEPT ![p] = FALSE]
  /\ UNCHANGED <<registry, used, withdrawn>>

-----------------------------------------------------------------------------

\* A process dies between two requests; what it has put is there.
Crash(p) ==
  /\ "crash" \in Faults
  /\ pc[p] # "down"
  /\ pc'       = [pc EXCEPT ![p] = "down"]
  /\ op'       = [op EXCEPT ![p] = "none"]
  /\ id'       = [id EXCEPT ![p] = NoId]
  /\ val'      = [val EXCEPT ![p] = NoRow]
  /\ filtered' = [filtered EXCEPT ![p] = TRUE]
  /\ copy'     = [copy EXCEPT ![p] = NoEntries]
  /\ left'     = [left EXCEPT ![p] = {}]
  /\ got'      = [got EXCEPT ![p] = NoRows]
  /\ failed'   = [failed EXCEPT ![p] = FALSE]
  /\ UNCHANGED <<registry, used, added, plain, withdrawn, removed>>

Begin(p) ==
  \/ \E i \in Id, v \in Value, f \in BOOLEAN : Call(p, "insert", i, v, f)
  \/ \E i \in Id, v \in Value : Call(p, "update", i, v, TRUE)
  \/ \E i \in Id, o \in {"remove", "retrieve"} : Call(p, o, i, NoRow, TRUE)
  \/ \E o \in {"retrieveAll", "retrieveTopic"} : Call(p, o, NoId, NoRow, TRUE)

Request(p) ==
  \/ StartGet(p) \/ StartPut(p)
  \/ GetIndex(p) \/ GetIndexAgain(p) \/ PutIndex(p)
  \/ PutSubscriber(p) \/ GetSubscriber(p) \/ DeleteSubscriber(p)
  \/ (\E i \in Id : GetListed(p, i)) \/ GetTopic(p) \/ EndRetrieval(p)

\* What a process writes its client knows; what others write is one more record
\* that it may have or not.
WritesIndex(p) == pc[p] \in {"start", "putIndex"} /\ index' # index
WritesRow(p)   == \/ pc[p] = "put" /\ ~failed'[p]
                  \/ pc[p] = "delete" /\ pc'[p] = "reindex"
WritesEntry(p) == pc[p] = "putIndex" /\ ~failed'[p]

Copies(p) ==
  /\ indexCopies' = [q \in Proc |->
       IF pc'[q] = "down" THEN {}
       ELSE IF q = p /\ WritesIndex(p) THEN {index'}
       ELSE indexCopies[q] \cup IF hasIndex' THEN {index'} ELSE {}]
  /\ rowCopies' = [q \in Proc |-> [i \in Id |->
       IF pc'[q] = "down" THEN {}
       ELSE ({resource'[i]} \cup IF q = p /\ i = id[p] /\ WritesRow(p) THEN {} ELSE rowCopies[q][i])
            \ {NoRow}]]

\* The rows the subscriptions have had since then.
Witness(p) ==
  witnessed' = [q \in Proc |-> [i \in Id |->
    IF pc'[q] = "down" THEN {}
    ELSE {Table'[i]} \cup
         IF q = p /\ i = id[p] /\ (WritesRow(p) \/ WritesEntry(p)) THEN {} ELSE witnessed[q][i]]]

Next == \E p \in Proc : (Begin(p) \/ Request(p) \/ Crash(p)) /\ Copies(p) /\ Witness(p)

Spec == Init /\ [][Next]_vars

-----------------------------------------------------------------------------
(* What must hold.                                                          *)

\* An entry of the index for a subscription with a filter leads to its
\* subscriber, unless its removal has been asked for, also if the index is put
\* back from an old copy: insert_subscriber puts the subscriber before the entry.
EntryLeadsToSubscriber ==
  \A i \in Id : index[i] = "topic" => resource[i] # NoRow \/ i \in withdrawn

\* savan_subs_mgr.h:185 "@return all subscribers for the event source": a
\* subscription whose insert was a success is in the index and at the path it
\* names until its removal is asked for, so that a retrieval that asks the registry
\* finds it: the index the writer puts back has all the entries it has put before.
AddedIsListed == \A i \in added \ (plain \cup withdrawn) : Table[i] # NoRow

\* A subscription whose removal was a success is neither listed nor stored any
\* more, whichever way the subscribers are retrieved.
RemovedIsGone == \A i \in removed : Table[i] = NoRow /\ resource[i] = NoRow

\* Though a retrieval takes a request for the index and one for each subscriber,
\* and each may be answered with an older record than the next, every row it
\* returns, or does not find, is one that the subscription has had since the
\* process came up or last changed it itself, if none of the requests failed:
\* no row of before its own update, and no gap where there was never one.
RetrievedIsNoOlder ==
  \A p \in Proc :
    pc[p] = "list" /\ left[p] = {} /\ ~failed[p] =>
      \A i \in Id : op[p] = "retrieveAll" \/ i = id[p] => got[p][i] \in witnessed[p][i]

=============================================================================
