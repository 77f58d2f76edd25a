--------------------------- MODULE MCNotification ---------------------------
(* Notification on small instances.                                        *)
EXTENDS Notification

CONSTANTS p1, p2, i1, i2, addr, topic1, topic2, xpath

\* One whose filter lets the event through, one whose filter does not, and one
\* without a filter.
Filtered == [endTo |-> addr, notifyTo |-> addr, expires |-> Null, filter |-> topic1, dialect |-> xpath]
Other    == [endTo |-> Null, notifyTo |-> addr, expires |-> Null, filter |-> topic2, dialect |-> xpath]
Plain    == [endTo |-> Null, notifyTo |-> addr, expires |-> Null, filter |-> Null, dialect |-> Null]

MCInserted == {Filtered, Other, Plain}
MCTopic    == {topic1, Null}

\* The builds that differ.
MCServiceBuild ==
  {[manager |-> "service", publisher |-> "default", filtering |-> FALSE, filtermod |-> FALSE]}
MCBuilds ==
  {[manager |-> "sqlite", publisher |-> "default", filtering |-> f, filtermod |-> g] :
      f \in BOOLEAN, g \in BOOLEAN}
    \cup {[manager |-> "sqlite", publisher |-> "esb", filtering |-> FALSE, filtermod |-> FALSE]}
    \cup MCServiceBuild

=============================================================================
