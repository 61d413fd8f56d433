---------------------- MODULE MCAccountStoreReconnect ----------------------
(* Instances of AccountStoreReconnect for TLC. *)
EXTENDS AccountStoreReconnect, TLC

Symmetry == Permutations(Sessions) \cup Permutations(Users)
=============================================================================
