-------------------------- MODULE MCRegistrySubsMgr --------------------------
(* RegistrySubsMgr on small instances.                                     *)
EXTENDS RegistrySubsMgr, TLC

CONSTANTS p1, p2, i1, i2, v1, v2

\* Identifiers and values are interchangeable: no definition names one of them.
Symmetry == Permutations(Id) \cup Permutations(Value)

=============================================================================
