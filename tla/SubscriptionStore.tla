-------------------------- MODULE SubscriptionStore --------------------------
(***************************************************************************)
(* What a subscription manager promises to the rest of Savan, as the       *)
(* savan_subs_mgr_ops table has it: a call takes effect at one moment      *)
(* between its start and its return, or it fails and changes nothing.      *)
(* EventSource uses the store in this way, one action for one call.        *)
(*                                                                         *)
(* TruthfulRemove says whether AXIS2_SUCCESS of remove_subscriber implies  *)
(* that the row is gone.                                                   *)
(***************************************************************************)
CONSTANTS
  Proc,           \* server threads and processes that call the manager
  Id,             \* subscription identifiers
  Value,          \* what a row holds besides its identifier
  NoRow,          \* no row for the identifier, none of the values
  TruthfulRemove  \* a Boolean

VARIABLES
  rows,    \* the table
  op,      \* the call each process is in, "none" when it is in none
  id,      \* its subscription identifier
  val,     \* the row it writes, NoRow when it writes none
  status,  \* what the last call returned
  result   \* the rows the last retrieval returned

vars == <<rows, op, id, val, status, result>>

WriteOp == {"insert", "update", "remove"}
ReadOp  == {"retrieve", "retrieveAll"}
Row     == Value \cup {NoRow}
NoRows  == [i \in Id |-> NoRow]

Init ==
  /\ rows   = NoRows
  /\ op     = [p \in Proc |-> "none"]
  /\ id     \in [Proc -> Id]
  /\ val    = [p \in Proc |-> NoRow]
  /\ status = [p \in Proc |-> "none"]
  /\ result = [p \in Proc |-> NoRows]

Call(p, o, i, v) ==
  /\ op[p] = "none"
  /\ op'     = [op EXCEPT ![p] = o]
  /\ id'     = [id EXCEPT ![p] = i]
  /\ val'    = [val EXCEPT ![p] = v]
  /\ status' = [status EXCEPT ![p] = "none"]
  /\ result' = [result EXCEPT ![p] = NoRows]
  /\ UNCHANGED rows

Return(p, s) ==
  /\ op[p] # "none"
  /\ op'     = [op EXCEPT ![p] = "none"]
  /\ val'    = [val EXCEPT ![p] = NoRow]
  /\ status' = [status EXCEPT ![p] = s]
  /\ UNCHANGED id

\* The table after a write: an identifier is inserted once, an update of a row
\* that is not there changes nothing.
Written(table, o, i, v) ==
  [table EXCEPT ![i] = IF o = "insert" THEN v
                       ELSE IF o = "update" /\ @ # NoRow THEN v
                       ELSE NoRow]

Write(p) ==
  /\ op[p] \in WriteOp
  /\ op[p] = "insert" => rows[id[p]] = NoRow
  /\ rows' = Written(rows, op[p], id[p], val[p])
  /\ Return(p, "SUCCESS")
  /\ UNCHANGED result

\* What a retrieval finds in a table.
Found(table, o, i) == [j \in Id |-> IF o = "retrieveAll" \/ j = i THEN table[j] ELSE NoRow]

Read(p) ==
  /\ op[p] \in ReadOp
  /\ result' = [result EXCEPT ![p] = Found(rows, op[p], id[p])]
  /\ Return(p, "SUCCESS")
  /\ UNCHANGED rows

Fail(p) ==
  /\ Return(p, "FAILURE")
  /\ UNCHANGED <<rows, result>>

\* A removal that did not happen and is reported as done.
Pretend(p) ==
  /\ ~TruthfulRemove
  /\ op[p] = "remove"
  /\ Return(p, "SUCCESS")
  /\ UNCHANGED <<rows, result>>

\* The process dies within the call, or between two calls.
Crash(p) ==
  /\ op'     = [op EXCEPT ![p] = "none"]
  /\ status' = [status EXCEPT ![p] = "none"]
  /\ val'    = [val EXCEPT ![p] = NoRow]
  /\ result' = [result EXCEPT ![p] = NoRows]
  /\ UNCHANGED <<rows, id>>

Next == \E p \in Proc :
  \/ \E i \in Id : \/ \E o \in {"insert", "update"}, v \in Value : Call(p, o, i, v)
                  \/ \E o \in {"remove"} \cup ReadOp : Call(p, o, i, NoRow)
  \/ Write(p) \/ Read(p) \/ Fail(p) \/ Pretend(p) \/ Crash(p)

Spec == Init /\ [][Next]_vars

=============================================================================
