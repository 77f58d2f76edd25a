---------------------------- MODULE MCSavanClient ----------------------------
(* The instance of SavanClient that is model-checked.                        *)
EXTENDS SavanClient, TLC

Symmetry ==
  Permutations(Client) \cup Permutations(Id) \cup Permutations(Expiry)
    \cup Permutations(Connection)
=============================================================================
