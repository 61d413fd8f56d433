--------------------------- MODULE MCAccountStore ---------------------------
(* Instances of AccountStore for TLC. *)
EXTENDS AccountStore, TLC

Symmetry == Permutations(Sessions) \cup Permutations(Users)
=============================================================================
