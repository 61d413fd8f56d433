------------------------------ MODULE MCMarket ------------------------------
(* Instances of Market for TLC. *)
EXTENDS Market, TLC

CONSTANTS seller, buyer, rich

\* A copy costs 20 coins, of which one is tax: buyer can pay for one, rich for two.
MCStartCoins == [u \in Users |-> IF u = buyer THEN 20 ELSE IF u = rich THEN 40 ELSE 0]
MCStartRows == [u \in Users |-> IF u = seller THEN <<2>> ELSE <<>>]

Symmetry == Permutations(Handlers)
=============================================================================
