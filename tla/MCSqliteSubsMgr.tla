--------------------------- MODULE MCSqliteSubsMgr ---------------------------
(* SqliteSubsMgr on small instances.                                       *)
EXTENDS SqliteSubsMgr

CONSTANTS p1, p2, p3, i1, v1, v2

=============================================================================
