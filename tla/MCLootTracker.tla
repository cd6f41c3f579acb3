---------------------------- MODULE MCLootTracker ----------------------------
(* Representative packets: item 1 narrated twice with its link and once     *)
(* without, item 2 once; item 1 confirmed with a server sequence, the same  *)
(* sequence resent later, without one, and a confirmation of unknown item.  *)
(* A window shows item 1 with its id and again without; one zone besides    *)
(* the unknown one.  A coin pile has the sequence of a confirmation.  Four  *)
(* halves are two complete pairs, or a pair and what disturbs it; two       *)
(* boundaries can fall anywhere between them.                               *)
EXTENDS LootTracker

Told(item, linked, stamp) == [item |-> item, linked |-> linked, stamp |-> stamp]
Confirmed(id, sequence, stamp) == [id |-> id, sequence |-> sequence, stamp |-> stamp]

MCItems == {1, 2}
MCNarrations == {Told(1, TRUE, 1), Told(1, TRUE, 2), Told(1, FALSE, 1), Told(2, TRUE, 1)}
MCTransactions ==
  {Confirmed(1, 1, 1), Confirmed(1, 1, 2), Confirmed(1, 0, 1), Confirmed(2, 0, 1),
   Confirmed(0, 0, 1)}
MCCoinPiles ==
  {[copper |-> TRUE, sequence |-> 1, stamp |-> 1], [copper |-> FALSE, sequence |-> 0, stamp |-> 1]}
MCWindows == {<<[item |-> 1, id |-> 1], [item |-> 1, id |-> 0]>>}
=============================================================================
