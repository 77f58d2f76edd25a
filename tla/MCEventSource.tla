---------------------------- MODULE MCEventSource ----------------------------
(* EventSource on small instances.                                         *)
EXTENDS EventSource, TLC

CONSTANTS w1, w2, i1, i2, e1, e2

\* Workers and identifiers are interchangeable: no definition names one of
\* them.
Symmetry == Permutations(Worker) \cup Permutations(Id)

=============================================================================
