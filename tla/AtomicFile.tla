----------------------------- MODULE AtomicFile ------------------------------
(***************************************************************************)
(* What the pager of sqlite promises to the statements that run above it:  *)
(* the pages of a database file as one value.  A transaction reads pages   *)
(* of one committed state, changes them for itself, and its changes appear *)
(* to the others all at once or never, whoever crashes.  A loss of power   *)
(* may take back the last commit, but never half of one.                   *)
(***************************************************************************)
CONSTANTS
  Proc,       \* connections
  Page,       \* the pages of the file
  Content,    \* what a page can hold
  NoContent   \* a page that a transaction has not read

VARIABLES
  data,  \* the committed pages
  kept,  \* the states of the file a loss of power may leave
  view   \* the pages each transaction has read or changed

vars == <<data, kept, view>>

Nothing == [pg \in Page |-> NoContent]
Over(table, pages) == [pg \in Page |-> IF pages[pg] = NoContent THEN table[pg] ELSE pages[pg]]

\* The transaction has changed nothing.
Clean(p) == \A pg \in Page : view[p][pg] \in {NoContent, data[pg]}

Init ==
  /\ data \in [Page -> Content]
  /\ kept = {data}
  /\ view = [p \in Proc |-> Nothing]

Read(p) ==
  /\ \E pages \in SUBSET Page :
       view' = [view EXCEPT ![p] =
                  [pg \in Page |-> IF pg \in pages /\ @[pg] = NoContent THEN data[pg] ELSE @[pg]]]
  /\ UNCHANGED <<data, kept>>

\* There is one writer at a time.
Change(p) ==
  /\ \A q \in Proc \ {p} : Clean(q)
  /\ \E pg \in Page, c \in Content :
       /\ view[p][pg] # NoContent
       /\ view' = [view EXCEPT ![p][pg] = c]
  /\ UNCHANGED <<data, kept>>

\* Nobody is in the middle of a transaction when the pages change.
Commit(p) ==
  /\ \A q \in Proc \ {p} : view[q] = Nothing
  /\ data' = Over(data, view[p])
  /\ kept' = {data, data'}
  /\ UNCHANGED view

\* What has been committed will survive.
Settle == kept' = {data} /\ UNCHANGED <<data, view>>

\* The end of a transaction, of a call that rolls it back, or of a process with
\* all its transactions.
End(ended) ==
  /\ view' = [p \in Proc |-> IF p \in ended THEN Nothing ELSE view[p]]
  /\ UNCHANGED <<data, kept>>

\* A transaction rolled back goes on reading.
Rollback(p) ==
  /\ view' = [view EXCEPT ![p] = [pg \in Page |-> IF @[pg] = NoContent THEN NoContent ELSE data[pg]]]
  /\ UNCHANGED <<data, kept>>

PowerLoss ==
  /\ data' \in kept
  /\ kept' = {data'}
  /\ view' = [p \in Proc |-> Nothing]

Next ==
  \/ \E p \in Proc : Read(p) \/ Change(p) \/ Commit(p) \/ Rollback(p)
  \/ \E ended \in SUBSET Proc : End(ended)
  \/ Settle
  \/ PowerLoss

Spec == Init /\ [][Next]_vars

=============================================================================
