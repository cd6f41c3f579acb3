---------------------------- MODULE SelfIdentity ----------------------------
(***************************************************************************)
(* What self-identification promises its host, apart from how it is done.  *)
(*                                                                         *)
(* `ids` is the set of spawn ids regarded as the local player; `anchor` is *)
(* the id adopted by a name match (0 while there is none).  Evidence that  *)
(* does not rest on the name may only add ids while nothing is anchored;   *)
(* once anchored, every id regarded as the player was issued in the same   *)
(* batch as the anchor, and the anchor moves only to another batch.        *)
(***************************************************************************)
EXTENDS Integers

CONSTANTS Ids,        \* the spawn ids the server can issue (never 0)
          SameBatch   \* how far apart two ids of one batch can be

VARIABLES anchor, ids

idVars == <<anchor, ids>>

SameBatchIds(a, b) == a - b <= SameBatch /\ b - a <= SameBatch

AtMostOne(S) == \A x, y \in S : x = y

Init == anchor = 0 /\ ids = {}

(* Everything is forgotten: zone change, re-entry, death.                  *)
Forget == anchor' = 0 /\ ids' = {}

(* A name match on an id of another batch, or the first name match.        *)
Adopt(x) ==
  /\ anchor = 0 \/ ~SameBatchIds(x, anchor)
  /\ anchor' = x
  /\ ids' = {x}

(* A second id of the anchor's batch; it replaces any twin known before.   *)
LearnTwin(y) ==
  /\ anchor # 0
  /\ y # anchor
  /\ SameBatchIds(y, anchor)
  /\ ids' = {anchor, y}
  /\ UNCHANGED anchor

(* The player's own position report names an id before any name match did; *)
(* it can supersede at most one id reported before.                        *)
Locate(x) ==
  /\ anchor = 0
  /\ \E S \in SUBSET ids : AtMostOne(ids \ S) /\ ids' = S \cup {x}
  /\ UNCHANGED anchor

(* The one guess taken from a stat packet: next to a located id, or with   *)
(* nothing known at all.                                                   *)
Guess(x) ==
  /\ anchor = 0
  /\ AtMostOne(ids)
  /\ \A y \in ids : SameBatchIds(x, y)
  /\ ids' = ids \cup {x}
  /\ UNCHANGED anchor

Next ==
  \/ Forget
  \/ \E x \in Ids : Adopt(x) \/ LearnTwin(x) \/ Locate(x) \/ Guess(x)

Spec == Init /\ [][Next]_idVars
=============================================================================
