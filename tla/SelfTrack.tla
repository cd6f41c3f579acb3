------------------------------ MODULE SelfTrack ------------------------------
(***************************************************************************)
(* The EQL self tracker (seq-backend-eql/src/self_track.rs): which spawn   *)
(* ids are the local player.  The server announces the player twice per    *)
(* zone, a live copy that moves and a static twin a few ids away that the  *)
(* stat packets are keyed to, and the packets arrive in any order.         *)
(*                                                                         *)
(* The tracker is one record; each method of the source is an operator     *)
(* from the tracker (and the packet) to the next tracker, plus, where the  *)
(* method answers something, an operator for the answer.  SelfTracker makes *)
(* a state machine of them; PlayerSession composes them as the session does.*)
(* An Option is the set of its values: {} is None.                         *)
(***************************************************************************)
EXTENDS Integers

CONSTANTS Ids,        \* spawn ids the server issues; 0 on the wire is "no id"
          SameBatch,  \* SAME_BATCH: ids of one batch are at most this far apart
          Values      \* the absolute cur/max snapshots a stat packet can carry

ASSUME IdsAssumption == Ids \subseteq Nat \ {0}
ASSUME SameBatchAssumption == SameBatch \in Nat

Ids0  == Ids \cup {0}
Stats == {"hp", "hp0", "mana", "end"}

(* A decoded OP_StatSync: which stats are present and their snapshot; "hp0" *)
(* is hit points with a zero maximum.  A narrow packet carries hit points   *)
(* only.                                                                    *)
StatSync ==
  {s \in [spawn_id : Ids0, wide : BOOLEAN, has : SUBSET Stats, value : Values] :
      /\ ~({"hp", "hp0"} \subseteq s.has)
      /\ s.wide \/ s.has \subseteq {"hp", "hp0"}}

(* SelfStat, with the id it is held for while it is pending.               *)
Held == [id : Ids0, has : SUBSET Stats, value : Values]

Tracker ==
  [self_id : Ids0, alt_id : Ids0, provisional_id : Ids0, retired : Ids0,
   guessed : BOOLEAN, pending : SUBSET Held]

Default ==
  [self_id |-> 0, alt_id |-> 0, provisional_id |-> 0, retired |-> 0,
   guessed |-> FALSE, pending |-> {}]

-----------------------------------------------------------------------------
(* Queries                                                                 *)

Near(a, b) == a - b <= SameBatch /\ b - a <= SameBatch

IsSelf(t, id) == id # 0 /\ id \in {t.self_id, t.alt_id, t.provisional_id}

SelfIds(t) == {t.self_id, t.alt_id, t.provisional_id} \ {0}

(* A slip: the window around the adopted id is forgotten.                  *)
IsTwinCandidateAnywhere(t, id) == t.self_id # 0 /\ id # 0

IsTwinCandidate(t, id) == t.self_id # 0 /\ id # 0 /\ Near(id, t.self_id)

-----------------------------------------------------------------------------
(* The position report of the player's own client.                         *)

(* A slip: a new position report retracts the guess and re-arms it.        *)
AdoptProvisionalRearming(t, id) ==
  IF id = t.provisional_id THEN t
  ELSE [t EXCEPT !.provisional_id = id,
                 !.alt_id = 0,
                 !.guessed = FALSE,
                 !.retired = IF t.provisional_id # 0 THEN t.provisional_id ELSE @]

AdoptProvisional(t, id) ==
  IF id = t.provisional_id THEN t
  ELSE [t EXCEPT !.provisional_id = id,
                 !.retired = IF t.provisional_id # 0 THEN t.provisional_id ELSE @]

ObserveSelfPos(t, id) ==
  IF id = 0 THEN t
  ELSE IF t.self_id = 0 THEN AdoptProvisional(t, id)
  ELSE IF id # t.self_id /\ IsTwinCandidate(t, id) THEN [t EXCEPT !.alt_id = id]
  ELSE t

TakeRetired(t) == [t EXCEPT !.retired = 0]

-----------------------------------------------------------------------------
(* OP_ZoneEntry records.  "" is the empty name.                            *)

NamesMatch(player, name, id) == id # 0 /\ player # "" /\ name = player

SpawnRouting(t, player, name, id) ==
  IF ~NamesMatch(player, name, id) THEN "NotSelf"
  ELSE IF t.self_id = 0 \/ ~Near(id, t.self_id) THEN "AdoptSelf"
  ELSE "SelfTwin"

(* A slip: an adoption forgets to drop what is held for the old id.        *)
AdoptKeepingPending(t, id) ==
  [t EXCEPT !.self_id = id,
            !.alt_id = 0,
            !.provisional_id = 0,
            !.retired = IF t.provisional_id \notin {0, id} THEN t.provisional_id ELSE @]

Adopt(t, id) ==
  [t EXCEPT !.self_id = id,
            !.alt_id = 0,
            !.provisional_id = 0,
            !.retired = IF t.provisional_id \notin {0, id} THEN t.provisional_id ELSE @,
            !.pending = {p \in @ : p.id = id}]

LearnTwin(t, id) == IF id = t.self_id THEN t ELSE [t EXCEPT !.alt_id = id]

ObserveSpawn(t, player, name, id) ==
  CASE SpawnRouting(t, player, name, id) = "NotSelf"   -> t
    [] SpawnRouting(t, player, name, id) = "AdoptSelf" -> Adopt(t, id)
    [] SpawnRouting(t, player, name, id) = "SelfTwin"  -> LearnTwin(t, id)

-----------------------------------------------------------------------------
(* Stat packets.                                                           *)

(* Without a name match the first wide mana/endurance packet is taken for  *)
(* the player's: once per session, or next to the position-report id.      *)
GuessQualifies(t, s) ==
  /\ t.self_id = 0 /\ t.alt_id = 0
  /\ s.wide /\ s.has \cap {"mana", "end"} # {}
  /\ s.spawn_id # 0
  /\ IF t.provisional_id # 0 THEN Near(s.spawn_id, t.provisional_id)
                             ELSE ~t.guessed

StatIsSelf(t, s) == IsSelf(t, s.spawn_id) \/ GuessQualifies(t, s)

Guess(t, s) ==
  [t EXCEPT !.alt_id = s.spawn_id, !.guessed = @ \/ t.provisional_id = 0]

(* A wide packet for a plausible twin is held; the newest replaces.        *)
Hold(t, s) ==
  IF s.wide /\ IsTwinCandidate(t, s.spawn_id) /\ s.has # {}
  THEN [t EXCEPT !.pending = {[id |-> s.spawn_id, has |-> s.has, value |-> s.value]}]
  ELSE t

ObserveStatSync(t, s) ==
  IF IsSelf(t, s.spawn_id) THEN t
  ELSE IF GuessQualifies(t, s) THEN Guess(t, s)
  ELSE Hold(t, s)

PendingVitals(t) == {p \in t.pending : IsSelf(t, p.id)}

TakePending(t) == [t EXCEPT !.pending = @ \ PendingVitals(t)]

-----------------------------------------------------------------------------
(* Invariants of a tracker, as predicates of the record.                   *)

(* Whatever is held is keyed to an id of the adopted id's batch, not to    *)
(* the adopted id itself, and carries at least one stat.                   *)
HeldIsPlausibleTwin(t) ==
  \A p \in t.pending :
    /\ IsTwinCandidate(t, p.id)
    /\ p.id # t.self_id
    /\ p.has # {}

(* A spent guess is still in place while there is no name match.           *)
GuessHeld(t) == t.guessed /\ t.self_id = 0 => t.alt_id # 0

(* Once a name matched, nothing provisional is left and the twin is near.  *)
AnchorHeld(t) ==
  t.self_id # 0 =>
    /\ t.provisional_id = 0
    /\ t.alt_id # t.self_id
    /\ t.alt_id # 0 => Near(t.alt_id, t.self_id)

TrackerInv(t) ==
  /\ t \in Tracker
  /\ \A p, q \in t.pending : p = q
  /\ HeldIsPlausibleTwin(t)
  /\ GuessHeld(t)
  /\ AnchorHeld(t)
=============================================================================
