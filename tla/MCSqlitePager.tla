---------------------------- MODULE MCSqlitePager ----------------------------
(* SqlitePager on small instances.                                         *)
EXTENDS SqlitePager, TLC

CONSTANTS p1, p2, p3, page1, page2, v1, v2

\* Connections are interchangeable, and so are the contents of pages.
Symmetry == Permutations(Proc) \cup Permutations(Value)

\* A process for each connection, or one process for all.
Processes == [p \in Proc |-> p]
OneServer == [p \in Proc |-> "server"]

=============================================================================
