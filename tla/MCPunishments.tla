---------------------------- MODULE MCPunishments ----------------------------
\* Two moderators, who are alike, and a member.
EXTENDS Punishments, TLC

MCSymmetry == Permutations(Mods)
=============================================================================
