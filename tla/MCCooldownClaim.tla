--------------------------- MODULE MCCooldownClaim ---------------------------
\* Two keys whose absent rows are in one gap.  Sessions are alike, and so are keys.
EXTENDS CooldownClaim, TLC

MCNear == [k \in Keys |-> Keys]
MCSymmetry == Permutations(Sessions) \cup Permutations(Keys)
=============================================================================
