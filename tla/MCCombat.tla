------------------------------ MODULE MCCombat ------------------------------
(* Two ids besides the unknown one, so that the player, a twin and another *)
(* caster can be told apart; two spells, which supersede each other or meet *)
(* in one slot; one slot, which a list shows, shows twice, or leaves empty; *)
(* two casts and buffs at a time, so that one effect can be known twice,    *)
(* with its slot and without, and a cast can find an unattributed one.      *)
EXTENDS Combat, TLC

IdSymmetry == Permutations(Ids)

Entry(spell) == [slot |-> 1, spell |-> spell, ticks |-> 5]
MCBuffLists == {<<>>, <<Entry(1)>>, <<Entry(1), Entry(2), Entry(0)>>}
=============================================================================
