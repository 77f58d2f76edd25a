# Savan/C in TLA+

Apache Savan/C is a WS-Eventing implementation for Axis2/C: clients subscribe to an event
source, renew and cancel their subscriptions with SOAP messages, and the event source
sends its events to all who are subscribed. This directory holds TLA+ modules of the event
source, of the stores it can be built with, of its publishers and of the client library,
the TLC configurations that check them on small instances, and proofs of their main
properties for every instance, checked by TLAPS.

Paths below are relative to the repository; its C files are in `src/` (so
`msgreceivers/savan_msg_recv.c` is `src/msgreceivers/savan_msg_recv.c`) and its headers in
`include/`.

## The system

| component | state | operations | talks to | modelled in |
|---|---|---|---|---|
| in-handler (`handlers/savan_in_handler.c`) | none of its own | one `invoke` per message, before the message receiver | subscription processor, subscription manager | `EventSource` |
| subscription processor (`core/savan_sub_processor.c`) | the identifier and the subscriber struct it leaves in the message context | subscribe, unsubscribe, renew, get_status, validation | subscription manager | `EventSource` |
| message receiver (`msgreceivers/savan_msg_recv.c`) | none of its own | one answer per message; an event goes to the publisher | subscription manager, publisher | `EventSource` |
| subscription manager interface (`subs_mgrs/common/subs_mgr.c`) | the manager object, a property of the configuration context | insert, update, remove, retrieve, retrieve_all, insert_topic; wrappers that take the identifier from the message | one implementation, chosen at link time | `EventSource`, `SubscriptionStore`; its creation in part |
| sqlite manager (`subs_mgrs/sqlite/subs_mgr.c`), the default | the table `subscriber` in a file | as above, a connection for each call | sqlite 3.5.0 (vendored), other processes through the file | `SqliteSubsMgr`, `Notification` |
| sqlite library (`subs_mgrs/sqlite/sqlite3.c`) | the file, its rollback journal, locks and page caches | the pager: lock, recovery, read, write, commit, rollback | the operating system | `SqlitePager`, `AtomicFile`; the rest of it not |
| registry manager (`subs_mgrs/registry/subs_mgr.c`) | resources of a remote registry and the index `TopicIndex` | as above | a registry over HTTP | `RegistrySubsMgr` |
| service manager (`subs_mgrs/service/subs_mgr.c`) | none | as above; update and remove do nothing | the service below, by SOAP | `ServiceSubsMgr`, `Notification` |
| subscription manager service (`subs_mgrs/service/subs_mgr_svc`) | a sqlite manager of its own | AddSubscriber, RemoveSubscriber, GetSubscriber, GetSubscriberList | event sources, by SOAP | `ServiceSubsMgr` |
| in-memory manager (`subs_mgrs/inmemory`) | - | a stub: `create` returns NULL | - | not |
| default publisher (`publishers/default`), esb publisher (`publishers/esb`) | the list of subscribers being worked off, the payload node | publish | subscription manager, filter, data sinks | `Publisher`, `Notification`, `EventSource` |
| XPath filter (`filters/xpath`) | none | apply | libxslt | its verdict, in `Publisher` |
| subscriber (`subscribers`), utilities (`util`) | the struct; conversions from and to XML | getters, setters, conversions | - | `SubscriberCodec`, in part |
| client (`client/savan_client.c`) | the options and the header list of a service client | subscribe, renew, unsubscribe, get_status | the event source | `SavanClient` |
| out-handler, module | none | the wsa action of an answer; registration | Axis2/C | not |

A message is handled by one thread of the Axis2/C server (or by one process of an Apache
httpd with several): in-handler, then message receiver, then the answer. Subscribe writes
the store in the in-handler and answers from the struct; Unsubscribe, Renew and GetStatus
read the store again in the message receiver. Nothing is locked between two calls of the
manager, so **the store is the only thing the workers share and every call of it is a
point where they interleave.** Under the sqlite manager a call itself consists of several
steps that interleave with those of other threads and processes through the lock of the
database file.

What is hard here, and what the properties are about:

* a handler acts on a row it read before, and others act in between (a Renew against a
  Renew, a Renew against an Unsubscribe, a publisher against both);
* the status of a store operation is dropped in several places, and NULL stands for "no
  such row" as well as for "the read failed";
* the process may die between the insert and the answer, between the creation of the file
  and that of the table, within a transaction;
* `SQLITE_BUSY` is treated differently in each call: given up at once, or repeated 512
  times while a lock is kept that others wait for;
* a subscriber passes through a struct, an element, a table and another element, and each
  of them knows other fields in other places;
* all subscribers are sent the same payload node, which belongs to one service client
  after the other and would be freed with any of them;
* a request of the client library leaves things behind in the service client it shares
  with the application: a header, an action, a message still on its way.

`PROJECT.json` lists each hazard at its line, with the properties that cover it.

## The modules

### `EventSource`: the messages and the store

One worker of `Worker` is one thread of a server. Its `pc` says which store call of its
message comes next:

| message | actions, in order | code |
|---|---|---|
| Subscribe | `Subscribe` (identifier, validation, insert), `HandleSubRequest` (answer from the struct) | `savan_sub_processor_subscribe`, `savan_msg_recv_handle_sub_request` |
| Unsubscribe | `Unsubscribe` (read), `RemoveSubscriber` (status dropped), `HandleUnsubRequest` (read again: answer or fault) | `savan_sub_processor_unsubscribe`, `savan_subs_mgr_remove_subscriber_with_msg_ctx`, `savan_msg_recv_handle_unsub_request` |
| Renew | `RenewSubscription` (read), `UpdateSubscriber` (write the whole struct), `HandleRenewRequest` (read again and report) | `savan_sub_processor_renew_subscription`, `savan_subs_mgr_get_subscriber_from_renew_msg`, `savan_msg_recv_handle_renew_request` |
| GetStatus | `HandleGetStatusRequest` (the in-handler reads nothing) | `savan_msg_recv_handle_get_status_request` |
| any other | `HandleEvent` (the list, once), `PublishToSubscriber` for each, `EndPublish` | `savan_msg_recv_handle_event`, `savan_default_publisher_publish` |

`Crash` ends the server: the store stays, the messages in flight are gone. `Faulty` names
the store operations that may fail in an instance. A row is its `expires` column: no
property tells the other columns apart, and the server itself never looks at the value. A
subscriber's place in the list of the publisher is left open, so any order of visits is
covered.

The variables from `issued` on are history: what clients were told and what workers did.
No guard reads them but two that stand for the world outside: a client only sends an
identifier it was given (or one the server never gave out), and an identifier is generated
once.

### `SubscriptionStore`: what a manager promises

The table of operations in `include/savan_subs_mgr.h` as a specification: a call takes
effect at one moment between its start and its return, or it fails and changes nothing.
`EventSource` uses the store in that way. `TruthfulRemove` is FALSE for the manager that
is modelled: a removal may report a success that did not happen, which is why
`EventSource` lets a removal fail unnoticed.

### `SqliteSubsMgr`: the default manager

One process of `Proc` is one thread or process with its own connection (the lock rules are
those between processes; between threads of one process they come to the same, save that a
reader may join a sibling under the PENDING of a third process). A call is a
`statement`, then for a writer `commit` and `write`, for a reader `fetch` once for each
row. Which of the locks SHARED, RESERVED, PENDING and EXCLUSIVE a statement needs
(`CanRead`, `CanReserve`, `CanExclude`) and what it keeps when it returns `SQLITE_BUSY` (a
statement keeps nothing, a COMMIT keeps PENDING) is what `unixLock` and
`pager_wait_on_lock` of `sqlite3.c` do; that a commit is one step on the table is what
`SqlitePager` shows. What is the manager's own is modelled line by line: insert and update
give up at the first `SQLITE_BUSY` (`Step`, `StepCommit`), remove and the two retrievals
repeat (`Retry`, the code's `busy_handler`), remove drops the result of its COMMIT
(`Commit`), `BEGIN READ_ONLY` is no statement sqlite knows and fails unnoticed (`Select`
runs by itself), and `create_db` takes any existing file for a finished database
(`CheckFile`, `OpenFile`, `CreateTable`). `Store` is the refinement mapping to
`SubscriptionStore`: `db` is its table, and the rows a select has delivered so far become
its result when it ends.

### `SqlitePager` and `AtomicFile`: what the default manager rests on

The manager takes each of its transactions for one step on a file, whichever thread or
process dies and whenever the power fails. In the vendored sqlite that is the work of the
pager, and `AtomicFile` is that promise: pages that change all at once at a commit, a
transaction that reads one state of them, a loss of power that takes back the last commit
at most. `SqlitePager` is how it is done:

| part of `sqlite3.c` | actions |
|---|---|
| `unixLock`, `findLockInfo` | `CanRead`, `CanReserve`, `CanPend`, `CanExclude`: what the kernel refuses because of another process, and what the `lockInfo` refuses because of a thread of the same one |
| `pagerSharedLock`, `hasHotJournal`, `pager_unlock` | `GetShared`, `CheckJournal`, `CheckReserved`, `LockToRecover`, `GiveUp`, `OpenHotJournal`: a lock, then two looks at the journal of a writer that may be gone, then EXCLUSIVE for the recovery |
| `pager_playback`, `pager_end_transaction` | `PlayBack` page by page, `EndPlayback` |
| the change counter | `Validate`: a cache kept from an earlier lock is used again if the counter in the file has not moved |
| `sqlite3PagerBegin`, `pager_write` | `Reserve`, `OpenJournal`, `Modify`: the original goes to the journal before the page changes |
| `sqlite3PagerCommitPhaseOne`, `syncJournal` | `IncrChangeCounter`, `SyncRecords`, `CountRecords`, `LockToWrite`, `WritePage`, `SyncFile` |
| `sqlite3PagerCommitPhaseTwo` | `Commit`: the journal is deleted |
| `sqlite3PagerRollback`, a write that fails | `RollbackCache`, `RollbackFile` |

`file` and `journal` are what processes see; `disk` and `jdisk` are the contents the disk
may hold after a loss of power: a write adds one, a sync leaves one. `Process` says which
process each connection is in. The locks of the kernel belong to a process, and its
threads share a `lockInfo` for the file, so a thread meets its `Siblings` and the
connections of others (`Foreign`) by different rules: it gets SHARED beside a sibling that
has it although a third process holds PENDING, and it takes any lock of a sibling above
SHARED for RESERVED (`Owned`). A process that dies (`Crash`) takes all its threads with it
and leaves the journal; `PowerLoss` chooses among what the disk may hold. The page
contents are values, the first page its change counter. The mapping to `AtomicFile` is
named: `Db` is the file as it would be once the journal that is there is played back,
`Remains` what a loss of power would leave of it, `View` what a transaction has read.

Three things this version of sqlite does are outside what is checked:

* A connection that keeps more than the first page in its cache would, in a recovery,
  bring back the first page in a cache whose other pages are old; the change counter would
  then find it current. Savan opens a connection for each call, and what that one keeps
  between two locks is the first page. `Kept` names the pages a connection may keep, and
  the proofs say where it matters (`OnlyHeadKept`).
* A recovery does not sync the file before it deletes the journal. A loss of power soon
  after it may leave a torn file. `PowerLoss` has the guard `~unsynced` for it: it is a
  bound of the model.
* `hasHotJournal` deletes the journal of an empty file without a lock. A database that has
  its pages is modelled.

The directory is not synced after the deletion of the journal, which is why a loss of
power may take back the last commit.

Threads of one process are a case of their own. A thread that fails to get EXCLUSIVE for a
recovery, because a sibling reads, leaves PENDING in the `lockInfo` until `pager_unlock`
(`LockToRecover`, then `GiveUp`); a sibling that asks `unixCheckReservedLock` in between
takes the hot journal for one in use and reads a file that is not played back. The comment
at `sqlite3.c:22151` sees that danger for RESERVED, which the recovery therefore skips;
PENDING has the same effect. It takes two threads that are the first to use the file after
a crash. What they read is then wrong (`pager_threads`), and if one of them goes on to
write, the RESERVED lock it gets misleads other processes too, until `OpenJournal` finds
the journal there and it has to stop. Nothing of it is written, so the file itself changes
by whole commits only, for threads as for processes: `CommitIsAtomic`, which `pager`
checks for processes and `CommitsAreAtomic` proves for both.

### `RegistrySubsMgr`: the manager of a remote registry

A subscriber is a resource at `/<filter>/system.subscriptions/<id>` of a registry that is
reached over HTTP; the resource `TopicIndex` has a property for each identifier, with the
collection it is in. Each `remote_registry_get`, `put` and `delete` is an action of its
own, and a process of `Proc` is one server thread or process with its manager:

| call | requests, in order |
|---|---|
| creation (`init_resource`) | `StartGet`; without an answer `StartPut` of an empty index, not looked at |
| insert | `PutSubscriber` (not looked at), `GetIndexAgain`, `PutIndex` (not looked at) |
| update | `GetIndex`, `GetSubscriber`, `PutSubscriber` (not looked at) |
| remove | `GetIndex`, `DeleteSubscriber`, `GetIndexAgain`, `PutIndex` (not looked at) |
| retrieve | `GetIndex`, `GetSubscriber`, `EndRetrieval` |
| retrieve_all, no filter | `GetIndex`, `GetListed` once for each entry of the copy, `EndRetrieval` |
| retrieve_all, with a filter | `GetTopic`: the collection in one answer, without the index |

Changing the index is a get and a put of the whole of it, with nothing that keeps two
processes apart. `Faults` names the requests that may fail and the crash of a process
between two requests; a request itself takes effect at once or not at all, except a
delete, of which the caller may not know whether it did. An insert without a filter
(`filtered`) makes the path `"/"`, as `axutil_strcat` ends at the first NULL: an entry
`"root"`. What the registry makes of a get at a path that does not exist (a NULL path in
update included) is external: it has no answer.

The client of the registry keeps the records it has fetched (`registry/subs_mgr.c:41-46`),
so a get may be answered by the registry or with an older record. The cache is not in the
repository: `indexCopies` and `rowCopies` are what a process may be given for the index
and for each subscriber, which is anything the record has been since the process came up
or last wrote it itself, and a get takes any of them, an older one after a newer one
included. A client is assumed to know what it wrote itself and what it deleted, and to
come up with an empty cache (`StartGet` asks the registry); what other processes write it
may learn at any time or never. Without the first of these a process could put back an
index without the entry it has just added, and nothing would hold. `GetTopic` only ends
the call: the rows of a collection come in one answer and nothing depends on them.

The histories `added`, `plain`, `withdrawn` and `removed` are what the callers were told,
and `witnessed` is the rows a subscription has had since the process wrote it or came up;
no guard reads them, but for `Call`, where an identifier is known to others once its
insert is through. `RetrievedIsNoOlder` compares a finished retrieval with `witnessed`: it
returns no row of before an update of its own process, and misses nobody who was there all
the time. That a retrieval returns what was there during it, the cache does not allow.

### `SubscriberCodec`: the forms of a subscriber

The struct with the five fields that are stored or sent, the Subscribe element, the
AddSubscriber element of the service manager, the columns of the sqlite table, and what is
read from each: `SubscriberNode`, `AddSubscriberNode`, `ReadSubscriber`, `Columns`. They
agree with each other less than one would think: an element is written with filter and
dialect or with neither, the service manager writes the address where nobody reads it (as
the text of NotifyTo, `subs_mgrs/service/subs_mgr.c:537`, which is read from the Address
below it, `util/savan_util.c:505`), and the sqlite table has no column for the dialect.

### `ServiceSubsMgr`: a store behind messages

A process of `Proc` calls the service with one message: `SendInsert`, `SendRetrieve`,
`SendRetrieveAll`, then `AddSubscriber` or `Ask` at the service, then `Answered`, or
`GiveUp` when no answer comes. An insert is a success in any case, a retrieval without an
answer finds nothing. The message of a caller that has given up or has died may still
arrive (`late`, `LateAddSubscriber`). Update and remove of the manager send nothing and
are no step; `RemoveSubscriber` is one of the service's own operations, which no event
source uses but another client may. `asked` and `tables` are history: what was handed to
each insert, and the tables the service had since a retrieval was called.

### `Publisher` and `Notification`: from a subscription to its events

`Publisher` is the loop of both publishers: `TakeList`, then for each subscriber
`VisitNext` (send, skip or neither, by build, filter, dialect and filter module),
`FireAndForget` or `EsbSend`, `Detach`, `FreeClient`. `payload` says whose the one payload
node is: a client that is freed frees what its envelope still holds. The order of the list
is left open.

`Notification` puts an event source together with a manager and a publisher, as `build`
has them: with the sqlite manager (a table of its own, a call of which is one step, as
`SqliteSubsMgr` shows) or with the service manager. Subscriptions come, are withdrawn, and
are published to by processes of which each may fail or die at any point. `due` and
`barred` are history: who was confirmed, and who withdrawn, when the event came.

### `SavanClient`: requests over one service client

The application has one service client with one header list and one action option, and a
`savan_client` for each subscription. A call sends (`Send`: Identifier header, action,
message) and returns (`SubscribeReturns`, `ExpiryReturns`, `UnsubscribeReturns`,
`FaultReturns`) or gets no answer (`Fails`). A Subscribe that cannot make its message
returns before it has set the action back (`SubscribeFails`, `savan_client.c:132-138`).
`SendEvent` is a message of the application's own, for which the sample subscriber sets
its own action and removes the headers. `Clears` names the calls before which the
application removes the headers.

Each request has a connection, and `work` is how far the event source has come with it:
the same handlers as in `EventSource`, a step for each call of the store. The answer
reaches the caller if it still waits on that connection; when it has given up, the request
goes on beside the later ones or is lost with what was still to be done for it. `Faults`
says what can fail, and how is what the stores do:

| step | what can go wrong |
|---|---|
| any read | a failed select is taken for a missing row, also after the update of a Renew was stored (`savan_msg_recv.c:418-423`): a fault for a Renew that has succeeded |
| insert | a fault without a row, or a row that the store drops, as the service manager does with a lost message |
| removal | the row stays: a fault if the second look finds it (`savan_msg_recv.c:349-355`), which with the service manager it always does |
| update | a fault, or a success that changes nothing, as the service manager answers |

An update of a missing row writes nothing, as in the sqlite manager; the registry manager,
which puts the whole resource, could bring the row back, and is not behind this module.

The histories: `expected` is the expiry a call returned last together with what Renews
have written since without a RenewResponse to a caller, `wrote` and `unseen` what the
Renew that is waited for and the others write during a call, `ended` the subscriptions
whose Unsubscribe was a success, less those it left there (`spared`), `aborted` that a
Subscribe has left its action behind. `savan_client_unsubscribe` takes every reply for a
success, so `UnsubscribeEnds` cannot hold for a removal that failed; that there is no
other exception is what it says, and `NothingSpared` proves when there is none at all.

## The runs

| run | what it asks | bounds |
|---|---|---|
| `event_source_safety` | types; confirmed rows are stored, stored rows are confirmed; an UnsubscribeResponse is the truth; removed rows stay removed; a RenewResponse means an update; events reach all, and none that has gone | 2 workers, 2 identifiers, 1 expiry besides `*`, crashes; inserts, updates and removals may fail, reads do not |
| `event_source_liveness` | the expiry last reported is the stored one; every message is answered, within a known number of steps of its worker | 2 workers, 1 identifier, 2 expiries, every Renew asks for one, every call may fail |
| `event_source_unsubscribed` | the same promise of UnsubscribeResponse when reads may fail too: violated | 2 workers, 1 identifier |
| `sqlite` | types; no writer commits under a reader; the manager implements `SubscriptionStore`; every call returns, within a number of its own steps that is known at its start | 3 processes, 1 identifier, 2 values, 1 repetition, crashes and failing chmods |
| `sqlite_remove_status` | AXIS2_SUCCESS of remove means the row is gone: violated | 2 processes, nothing fails and nobody crashes |
| `pager` | types; a journal has one user; a connection reads what is committed; the file as recovered changes by whole commits; the pager implements `AtomicFile` | 3 connections, each in its own process, 2 pages, 2 values, 2 commits; crashes, losses of power, failing writes |
| `pager_threads` | a connection reads what is committed, with two threads of a process that dies: violated | 2 connections, 2 pages, 2 values, 1 commit, crashes |
| `registry_safety` | types; an entry of the index leads to its subscriber; what was inserted is listed, what was removed is gone; a retrieval returns nothing older than its process last wrote, though gets are answered from cached records | a writer and a reader, 2 identifiers, 2 values, started one by one; any older record may be cached; gets and deletes may fail, either may crash |
| `registry_two_writers` | what was inserted is listed, with two writers: violated | 2 processes, 2 identifiers, 1 value, nothing fails |
| `notification` | types; what the service stores is what was inserted; a retrieval from it returns one moment; the payload node is never freed too early; an event reaches everyone it is due to and nobody else; every publish ends, within a known number of its steps | 2 processes, 2 subscribers of 3 kinds (a filter that lets the event through, one that does not, none), 6 builds; messages, inserts and retrievals fail, processes die |
| `service_notify` | the event is emitted to the subscriber's data sink, with the service manager: violated | 2 processes, 2 subscribers, nothing fails |
| `client` | types; an Unsubscribe that succeeded and did not fail to remove ends the subscription for good; a request names the caller's subscription; the reported expiry is the stored one, or one a Renew without an answer has written; an event is not taken for a request | 2 subscriptions, 2 identifiers, 1 expiry besides `*`, 2 headers, 2 connections; every call of the store and the Subscribe message may fail |

Why these bounds are enough to meet the interesting cases: two workers are all it takes
for each race of `EventSource`, since every race is between one handler's read and its
write and one other handler; two identifiers let a publisher's list hold a subscriber that
is removed and one that is not. Three processes at the file are a writer, a reader it
waits for, and a third that comes while PENDING is kept; two values let an update be seen
half way, and that a retrieval of several rows is one moment of the table is proved for
any number of them (`ReadsStable`, `SqliteImplementsStore`). The registry's writer and
reader, with two identifiers and two values, are what it takes for a retrieval to follow
an old copy of the index while an entry comes, changes and goes. Three connections at the
pager are a writer that dies, a reader with a cache from before, and one that finds the
journal; one of the two pages has the change counter, and two commits let a cache be one
behind. Two threads of one process and one commit are enough for a writer, its death, and
two recoveries that get in each other's way. In `notification` one process subscribes and
unsubscribes while the other publishes, with two subscribers so that one's client, status
or empty node could reach the other. Two subscriptions of one service client are what it
takes for the header of one to be read for the other, and two connections for a request
whose caller has given up to be overtaken, between its read and its write, by a later
call. One repetition stands for 512 of them: the code treats the last one differently and
all others alike, and the proofs are for any number. Identifiers bound the number of
subscriptions a run can make: they are never used twice, as the UUIDs of the code. Where a
cfg names a symmetry set, its members are interchangeable; the runs that check liveness
(`event_source_liveness`, `sqlite`, `notification`) use none.

**Fairness.** `EventSource!Fairness`: a worker that has a message in hand goes on with it,
as the thread that carries it does; nothing is assumed of arrivals, of crashes or of which
outcome a call has. `SqliteSubsMgr!Fairness`: a process within a call takes its steps, a
repetition of a busy statement being one. Only weak fairness of a process as a whole is
assumed, never of a lock becoming free. `Notification!FairSpec`: a process in a publish
goes on, the service answers or does not, and a call of it ends, if by nothing else by the
timeout of the client library's HTTP transport; nothing is assumed of which of them
happens, so that `EveryPublishEnds` holds for data sinks and a service that never work.
`RegistrySubsMgr`, `SqlitePager` and `SavanClient` state no liveness: their calls are a
fixed number of requests or of steps, or are repeated by the callers that are modelled
elsewhere. Deadlock is checked in every run.

### What the violated runs show

* `event_source_unsubscribed`: the message receiver looks "whether the subscriber has been
  removed from the store" (`savan_msg_recv.c:334`), but the answer to that look is NULL
  also when the select failed. A removal that failed, whose status is dropped, and a look
  that fails as well make an UnsubscribeResponse for a subscription that is still there.
* `sqlite_remove_status`: a COMMIT that finds a reader at every repetition fails, the
  result is dropped, the close rolls back, the caller gets AXIS2_SUCCESS. Here one
  repetition stands for the 512 of the code (51 seconds in all): a reader, or a sequence
  of connections each of which got its SHARED lock before PENDING was taken, has to hold
  on that long.
* `pager_threads`: `unixCheckReservedLock` is to return zero if the file "is unlocked or
  holds only SHARED locks" (`sqlite3.c:15519`), and a hot journal is to be rolled back
  "immediately" (`sqlite3.c:22117`). A process dies while it writes the file. Of the next
  two threads, both get SHARED and find the journal; the first asks for EXCLUSIVE, which
  the second's SHARED denies, and has PENDING until it unlocks; the second asks for the
  RESERVED lock, is told that there is one, and reads one page from after and one from
  before the commit.
* `registry_two_writers`: two inserts, each gets the index, each puts its copy with its
  own entry; the second put takes the first entry out. Both subscriptions are confirmed
  and stored, one of them is in no list again.
* `service_notify`: README:123 says an event is emitted to the data sink the subscriber
  provided. The service manager writes the address as the text of NotifyTo, the service
  reads it from the Address below NotifyTo: it stores none, and the publish sends nothing
  to any of the subscribers it has retrieved.

### What else the models say of the code

Where no text of the repository promises the opposite there is no run, but a reader should
know:

* A Renew without `wse:Expires` reads the row and writes it back: another Renew that was
  stored and confirmed in between is undone. `AnsweredExpiryHolds` is checked and proved
  for Renews that carry an expiry (`ExplicitRenewals`).
* A Renew may report the expiry of another Renew of the same subscription, as it reads the
  row again for its answer.
* A build with filtering sends nothing to a subscriber without a filter: the missing
  filter is taken for a filter module that could not be retrieved
  (`publishers/default/publisher.c:305`).
* The sqlite table has no dialect, so a subscriber of the Synapse dialect, whose event is
  meant to be sent as it is, is given to the XPath filter.
* The esb publisher detaches the payload from the one message it sends to all, so all
  subscribers but the first are sent an empty body (`publishers/esb/publisher.c:247`).
  What `axiom_node_detach` makes of a NULL node then is the library's and is taken for
  nothing.
* With the service manager an Unsubscribe always ends in a fault, since the row is still
  there at the second look, a Renew reports the old expiry, and a list without a topic is
  always empty.
* A registry subscription without a filter is stored at `"/"`, where no retrieval finds
  it.
* A Subscribe whose answer does not come leaves a subscription nobody can name.
* `savan_client_unsubscribe` returns AXIS2_SUCCESS for a fault as well
  (`savan_client.c:300-308`), also when the subscription is still there because its
  removal failed; with the service manager that is every Unsubscribe. Its header promises
  AXIS2_FAILURE for what is no success (`include/savan_client.h:80`).
* A Renew whose update was stored and whose second read fails is answered with a fault,
  and the client returns NULL: the subscription has an expiry its owner was not told.
* A Subscribe that cannot make its node leaves SAVAN_ACTIONS_SUB in the options it shares
  with the application (`savan_client.c:132-138`); every other return sets the action
  back.
* The sample subscriber does not remove the headers before a Renew, so the Renew of a
  second subscription over the same service client is one of the first.
* With the cache of its client, a process of the registry manager may not find what
  another process has inserted, and may list what another has removed.

## The proofs

All are for any set of workers, processes, identifiers and values, any number of
repetitions and any combination of faults, from the assumptions named in the modules
(`EventSourceAssumption`, `SqliteAssumption`, `RegistryAssumption`, `PagerAssumption`,
`CodecAssumption`, ...), which only say that the markers `None`, `NoRow`, `NoId`,
`NoContent` and `Never` are none of the data, that the subscribers, topics and filters of
an instance are ones there can be, and which requests can fail at all.

`EventSource_proofs`: `TypeCorrect`; then `IdInv`, which ties every identifier that is
stored, held or told to `issued` and keeps two Subscribe messages from holding the same
one. The step lemma `Kept` says which rows a step can add or take away, and gives
`RemovedStaysRemoved` (the property `NoResurrection`) at once. The others are inductive
only with more: `AckInv` adds that the identifier of a Subscribe waiting for its answer is
stored, `RenewInv` that a Renew between update and answer whose row is there has renewed
it, `EventInv` that what is owed is still in the publisher's list, `GoneInv` that an
identifier whose removal was seen has no row, `PromiseInv` that an expiry reported is the
stored one or has been asked to change. `UnsubscribedGone` and `NoEventAfterGone` assume
`ReliableReads` (retrieve is not in `Faulty`) and `AnsweredExpiryStored` assumes
`ExplicitRenewals` (no Renew without an expiry): the violated runs show that neither can
be dropped.

`SqliteSubsMgr_proofs`: `TypeCorrect`; `LockInv`, the discipline of the file lock (one
writer, no reader beside EXCLUSIVE, each `pc` with the lock it needs); `DataInv`, from
which `ReadsStable`; and `SqliteImplementsStore`, the refinement: each action maps to a
step of `SubscriptionStore` or a stutter. The step that needs the invariants is the end of
a select, where the rows collected one by one must be the rows of the table at that
moment, and the commit of an insert, where the key that was checked two steps ago must
still be free.

`RegistrySubsMgr_proofs`: `CallInv` (types, which requests belong to which call, what is
known of the identifier of a call) gives `TypeCorrect`; `StepKinds` sorts the steps into
the few that touch the registry and the quiet ones. `EntryInv` says that the index, every
copy about to be put back and every entry about to be added lead to a subscriber, and
gives `EntriesLead` for any number of writers: what two writers lose is entries, never
subscribers behind entries. It needs puts that do not fail. `GoneInv` gives
`RemovedStaysGone` with one writer (`OneWriter`), whatever fails; it needs that no writer
has a cached record of a subscriber it has removed. `ListedInv` adds that the writer has
no index cached but the one that is there, and that an index is put at most once when it
is missing; it gives `AddedStaysListed` with one writer, starts one by one and no failing
put or start. `RowsInv` says of each process that whatever its client may answer, a row or
an index without an entry, is among what it has witnessed, and with `Reading`, the same of
the copy and the rows a retrieval has so far, gives `RetrievedIsRecent`.
`registry_two_writers` shows that `OneWriter` cannot be dropped.

`SqlitePager_proofs` is in three layers, each with what it takes and no more.

* `BaseInv` (types; `LockInv`, the lock at each place in the code and which locks go
  together; `Holds`, what there is to work on at each place) is inductive as it stands,
  for any threads and processes and whatever is kept in a cache: `TypeCorrect` and
  `JournalHasOneUser` have no hypothesis. A journal is looked for and its owner is looked
  for in two steps, but whoever plays it back has EXCLUSIVE, which no owner of a journal
  lets him have.
* `DataInv` adds `Owns(p)`, what a connection that uses the journal knows of it and of the
  file, and `Sees(p)`, that what it has cached is what is in the file, since nobody writes
  the file while it has a lock. `DiskInv` says which contents the disk may hold between
  the syncs. Both need `OnlyHeadKept`: with `Kept` all pages, TLC finds `CacheIsCurrent`
  and `CommitIsAtomic` violated, as a recovery puts back the counter in a cache whose
  other pages are old. `CommitsAreAtomic` follows: the file as recovered (`Db`) does not
  change while the pages are written one by one, the journal being counted and synced by
  then, and becomes the writer's cache when the journal is deleted.
* `CleanInv` says that there is nothing to play back where the file is read. It needs
  `ThreadsAreApart`: each process has one connection, or no process dies, in which case a
  journal always has a user who is alive (`JournalHasOwner`). `ReadsAreCommitted` and
  `PagerImplementsAtomicFile`, in which each action maps to a step of `AtomicFile` or a
  stutter, are from this layer; `pager_threads` shows that the hypothesis cannot be
  dropped.

`SavanClient_proofs`: `CallInv` (types, and what the caller has sent by what it has in
hand), from which `TypeCorrect`, `RequestIsOwn` and `EventStaysEvent`; `WorkInv`, a
request past its first step names an identifier, and a Renew holds a row to write;
`IdInv`, identifiers in use were given; `GoneInv`, what an Unsubscribe has removed or
found missing is not there when it is answered; `ExpiryInv`, what an answer says still
holds when it is returned, but for Renews of which the history knows. `UnsubscribedIsGone`
assumes `UnsubscribeClears`, that the application removes the headers before an
Unsubscribe: without it a success may be that of another subscription. `NothingSpared`
assumes `RemovalsWork` (neither removals nor reads fail), and makes of it that every
success of an Unsubscribe is in `ended`. The other theorems hold for any faults.

`Notification_proofs`: the lemmas about the forms of a subscriber (`StoredIs`, `KeptIs`,
`Selections`, `ColumnsIs`) say what is left of one after each conversion;
`ElementRoundTrip` says when nothing is lost. `SvcInv` adds to the types that every table
a retrieval may be answered from is one the service had since the call, and gives
`StoredAsInserted` and `RetrievalIsSnapshot`. `EventInv` is what a publish in progress
knows: `PlaceInv` (whose the payload is at each place), `ListInv` (its list holds who was
not withdrawn when the event came, and lacks nobody who is due and still subscribed),
`Stray` (what was sent was let through) and `Done` (who is done with has got it). It is
one invariant, `Invariance`, from which `PayloadStaysAlive`, `NoEventStrays` and
`EventsReachTheirSinks` follow for every build, and with it that a process that is not in
a publish never disturbs one (`CalmStays`).

That a message is answered, a call returns and a publish ends (`EveryMessageAnswered`,
`EveryCallReturns`, `EveryPublishEnds`) has two halves. One is that the steps are bounded:
`MessagesBounded`, `CallsBounded` and `PublishesBounded` prove that each step of a message,
a call or a publish lowers a natural number, `Left`, which is known when it starts, and
that nothing another worker, process or the service does raises it. The hypothesis is
`IsFiniteSet(Id)`; the number of repetitions, the workers and processes, the builds and
the faults are arbitrary. The proofs rest on the type invariants, on `LockInv` (which
`pc` goes with which operation, so that a repetition is counted where it should be) and,
for a publish, on `CallPlace`: only a process that publishes is anywhere in the loop, and
the one call of the service it has open is that for its list. The other half, that a next
step can always be taken and is taken, is about ENABLED and fairness, which are beyond the
prover: TLC checks it on the small instances. Every other property of a passing run is
proved.

## Not modelled

* **The vendored sqlite beyond its pager.** `sqlite3.c` alone has 71,355 lines, and its
  header lies in the tree twice: almost nine tenths of the repository's lines. The
  tokenizer, code generator, virtual machine, B-tree, functions and the other ports are a
  library that Savan uses through `sqlite3_exec` with a handful of statements. What Savan
  depends on is that a transaction is atomic across its threads and processes and survives
  a crash, and that part (locks, journal, recovery, cache) is modelled. The modules
  therefore cover a small share of all lines, and about half of Savan's own.
* Within the pager: the empty file, a cache that spills within a transaction, statement
  and master journals, exclusive mode, a loss of power between a recovery and the next
  sync, and kernels whose locks belong to a thread
  (`threadsOverrideEachOthersLocks` = 0).
* The SOAP and XML layers beyond the kind of a message and the fields above; memory
  management and what fails only without memory, but for `SubscribeFails`; logging; the
  parameters in `axis2.xml`.
* The evaluation of a filter by libxslt: `Passes` names the filters that let the event
  through.
* The creation of the manager on first use (`savan_subs_mgr_get_subs_mgr`), where two
  workers may each make one. A manager of sqlite or of the service holds a name only; that
  of the registry writes an index as it starts, which is the start of a process in
  `RegistrySubsMgr`.
* `insert_topic` and the topic lists of the managers and of the service: static or
  uncalled functions, or a table nobody creates; the in-memory stub.
* The out-handler, the module's registration, samples, tests, build files and load
  scripts. They keep no state.
* In the client, an answer without the elements it should have, the subscription URL (read
  before it is ever set in a client that has not subscribed), and the pointer `old_action`
  after the options have been given another string, which is the library's.

Expiry is not enforced anywhere in the code (a subscription lasts until it is cancelled),
so there is no clock in the model.

## Plan

Done: the event source with its abstract store (`EventSource`, `SubscriptionStore`), the
sqlite manager and the pager below it (`SqliteSubsMgr`, `SqlitePager`, `AtomicFile`), the
registry manager, the conversions, the service manager with its service, both publishers
and their composition, the client library; their runs and their proofs.

What is left, should the code grow that way: `EventSource` over `SubscriptionStore` as
modules that share variables, so that the refinements compose in one formula; the first
use of the manager and `create_db` together, once something is promised of a start that
fails half way; the empty file of the pager.
