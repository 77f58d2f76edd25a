------------------------------ MODULE Publisher ------------------------------
(***************************************************************************)
(* The publishers: savan_publisher_publish goes through a list of the      *)
(* subscribers, one after the other, and gives each the same payload node. *)
(* The default publisher sends it with a service client made for each      *)
(* subscriber, so the node is moved into the envelope of that client and   *)
(* has to be taken out again before the client is freed; the esb publisher *)
(* sends the message itself, and takes the node out of that.               *)
(*                                                                         *)
(* The status of one subscriber only reaches the log and is left out.      *)
(***************************************************************************)
EXTENDS SubscriberCodec

CONSTANTS
  Synapse,  \* the filter dialect that is left to the Synapse ESB
  Passes,   \* the filters that let the event of this instance through
  Builds    \* how Savan may have been built and configured

Build == [manager   : {"sqlite", "service"},
          publisher : {"default", "esb"},
          filtering : BOOLEAN,   \* SAVAN_FILTERING is defined
          filtermod : BOOLEAN]   \* a filter module could be created

ASSUME PublisherAssumption == Builds \subseteq Build /\ Passes \subseteq Text /\ Synapse \in Text

VARIABLES
  build,    \* the build, which never changes
  at,       \* where each publish is
  rows,     \* the list of subscribers it works off
  pending,  \* those it has still to visit
  current,  \* the one it is at
  payload,  \* whose the payload node is
  got       \* what it has sent for each subscriber, and to which address

pubVars == <<at, rows, pending, current, payload, got>>

\* "message": the message that is published; "client": the envelope of a service
\* client; "loose": nobody; "freed": the node is gone.
Payload == {"message", "client", "loose", "freed"}

Sent    == [what : {"nothing", "event", "empty", "failed"}, to : Maybe]
Nothing == [what |-> "nothing", to |-> Null]

PubTypeOK ==
  /\ build   \in Builds
  /\ at      \in [Proc -> {"idle", "retrieve", "next", "send", "detach", "free"}]
  /\ rows    \in [Proc -> [Id -> Row]]
  /\ pending \in [Proc -> SUBSET Id]
  /\ current \in [Proc -> Id \cup {Null}]
  /\ payload \in [Proc -> Payload]
  /\ got     \in [Proc -> [Id -> Sent]]

PubInit ==
  /\ build   \in Builds
  /\ at      = [p \in Proc |-> "idle"]
  /\ rows    = [p \in Proc |-> Empty]
  /\ pending = [p \in Proc |-> {}]
  /\ current = [p \in Proc |-> Null]
  /\ payload = [p \in Proc |-> "message"]
  /\ got     = [p \in Proc |-> [i \in Id |-> Nothing]]

-----------------------------------------------------------------------------

Begin(p) ==
  /\ at[p] = "idle"
  /\ at' = [at EXCEPT ![p] = "retrieve"]
  /\ UNCHANGED <<rows, pending, current, payload, got>>

\* The list of the subscription manager; no list is worked off like an empty one.
TakeList(p, list) ==
  /\ at[p] = "retrieve"
  /\ at'      = [at EXCEPT ![p] = "next"]
  /\ rows'    = [rows EXCEPT ![p] = list]
  /\ pending' = [pending EXCEPT ![p] = {i \in Id : list[i] # NoRow}]
  /\ UNCHANGED <<current, payload, got>>

\* savan_xpath_filter_mod_apply.
ApplyAny(s) == TRUE
Apply(s) == s.filter \in Passes

\* What becomes of the event for a subscriber.  With filtering, one who has no
\* filter is taken for a filter module that could not be retrieved.
Unfiltered(s) == build.publisher = "esb" \/ ~build.filtering \/ s.dialect = Synapse
Filterable(s) == build.filtermod /\ s.filter # Null

VisitAgain(p, i, label) ==
  /\ at[p] = "next"
  /\ i \in pending[p]
  /\ at'      = [at EXCEPT ![p] = label]
  /\ current' = [current EXCEPT ![p] = i]
  /\ UNCHANGED <<rows, pending, payload, got>>
Visit(p, i, label) ==
  /\ at[p] = "next"
  /\ i \in pending[p]
  /\ at'      = [at EXCEPT ![p] = label]
  /\ current' = [current EXCEPT ![p] = i]
  /\ pending' = [pending EXCEPT ![p] = @ \ {i}]
  /\ UNCHANGED <<rows, payload, got>>

\* The list is in no order a caller could rely on.
VisitNext(p) ==
  \E i \in pending[p] :
    LET s == rows[p][i] IN
    \/ /\ Unfiltered(s) \/ (Filterable(s) /\ Apply(s))
       /\ Visit(p, i, "send")
    \/ /\ ~Unfiltered(s) /\ Filterable(s) /\ ~Apply(s)
       /\ Visit(p, i, "detach")
    \/ /\ ~Unfiltered(s) /\ ~Filterable(s)
       /\ Visit(p, i, "free")

\* axis2_svc_client_fire_and_forget: the node is now a child of the body the
\* client has built.  Without an address there is nobody to send it to, and
\* what came of it is not looked at.
FireOrStop(p) ==
  /\ at[p] = "send" /\ build.publisher = "default"
  /\ at'      = [at EXCEPT ![p] = "detach"]
  /\ payload' = [payload EXCEPT ![p] = "client"]
  /\ \E w \in {"event", "failed"} :
       /\ got'     = [got EXCEPT ![p][current[p]] = [what |-> w, to |-> rows[p][current[p]].notifyTo]]
       /\ pending' = [pending EXCEPT ![p] = IF w = "event" THEN @ ELSE {}]
  /\ UNCHANGED <<rows, current>>
FireAndForget(p) ==
  /\ at[p] = "send" /\ build.publisher = "default"
  /\ at'      = [at EXCEPT ![p] = "detach"]
  /\ payload' = [payload EXCEPT ![p] = "client"]
  /\ LET to == rows[p][current[p]].notifyTo
         what == IF to = Null THEN {"failed"} ELSE {"event", "failed"}
     IN  \E w \in what : got' = [got EXCEPT ![p][current[p]] = [what |-> w, to |-> to]]
  /\ UNCHANGED <<rows, pending, current>>

\* esb_send_on_out_only: the message as it is by now.
EsbSend(p) ==
  /\ at[p] = "send" /\ build.publisher = "esb"
  /\ at'  = [at EXCEPT ![p] = "detach"]
  /\ LET to   == rows[p][current[p]].notifyTo
         what == IF payload[p] = "message" THEN "event" ELSE "empty"
     IN  got' = [got EXCEPT ![p][current[p]] =
                   [what |-> IF to = Null THEN "failed" ELSE what, to |-> to]]
  /\ UNCHANGED <<rows, pending, current, payload>>

\* axiom_node_detach.
LeaveAttached(p) ==
  /\ at[p] = "detach"
  /\ at' = [at EXCEPT ![p] = IF build.publisher = "default" THEN "free" ELSE "next"]
  /\ UNCHANGED <<rows, pending, current, payload, got>>
Detach(p) ==
  /\ at[p] = "detach"
  /\ at'      = [at EXCEPT ![p] = IF build.publisher = "default" THEN "free" ELSE "next"]
  /\ payload' = [payload EXCEPT ![p] = "loose"]
  /\ UNCHANGED <<rows, pending, current, got>>

\* axis2_svc_client_free, with the envelope and what is still in it.
FreeClient(p) ==
  /\ at[p] = "free"
  /\ at'      = [at EXCEPT ![p] = "next"]
  /\ payload' = [payload EXCEPT ![p] = IF @ = "client" THEN "freed" ELSE @]
  /\ UNCHANGED <<rows, pending, current, got>>

\* The publish returns, or its process dies.
Forget(p) ==
  /\ at'      = [at EXCEPT ![p] = "idle"]
  /\ rows'    = [rows EXCEPT ![p] = Empty]
  /\ pending' = [pending EXCEPT ![p] = {}]
  /\ payload' = [payload EXCEPT ![p] = "message"]
  /\ current' = [current EXCEPT ![p] = Null]
  /\ got'     = [got EXCEPT ![p] = [i \in Id |-> Nothing]]

Over(p) == at[p] = "next" /\ pending[p] = {}

PubStep(p) ==
  \/ VisitNext(p) \/ FireAndForget(p) \/ EsbSend(p) \/ Detach(p) \/ FreeClient(p)

-----------------------------------------------------------------------------

\* The node is there whenever it is filtered or sent, though every client that
\* is freed frees what its envelope holds.
PayloadAlive == \A p \in Proc : at[p] # "idle" => payload[p] # "freed"

=============================================================================
