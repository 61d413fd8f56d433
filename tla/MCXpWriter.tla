----------------------------- MODULE MCXpWriter -----------------------------
(* Instances of XpWriter for TLC: three levels, at 0, 2 and 3 XP. *)
EXTENDS XpWriter, TLC

MCXpFor == 2 :> 2 @@ 3 :> 3
=============================================================================
