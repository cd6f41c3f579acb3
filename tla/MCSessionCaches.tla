--------------------------- MODULE MCSessionCaches ---------------------------
(* Two spawns, two names and two kinds: namesakes, seen or not, and chains  *)
(* of renames.  Two serials and none, one worn slot and a bag: a worn item  *)
(* is moved, displaced, and moved back.  One fact, two values of experience *)
(* and two levels; an inventory that repeats a key, another, and the empty  *)
(* one.                                                                     *)
EXTENDS SessionCaches, TLC

(* No definition tells one id from another, or one name from another.      *)
SpawnsAreAlike == Permutations(SpawnIds) \cup Permutations(SpawnNames)

Held(serial, place) == [serial |-> serial, place |-> place, charges |-> 1]

MCItemSets ==
  {<<>>, <<Held(1, "head")>>, <<Held(0, "bag"), Held(1, "bag"), Held(1, "head"), Held(0, "head")>>}
=============================================================================
