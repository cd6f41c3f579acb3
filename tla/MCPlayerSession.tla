--------------------------- MODULE MCPlayerSession ---------------------------
(* Three consecutive ids and a batch window of one: a live copy, its twin   *)
(* and an id that is in one window but not the other.  Two characters, the  *)
(* unknown name and two forms, interchangeable; two stat packets, enough    *)
(* for one to be held and one to follow it.                                 *)
EXTENDS PlayerSession, TLC

MCSymmetry == Permutations(Characters) \cup Permutations(Forms)

MCIds == 1..3
MCSameBatch == 1
MCMaxStats == 2
MCValues == 1..MCMaxStats
MCStatSets == {{"hp"}, {"hp0", "mana"}}
=============================================================================
