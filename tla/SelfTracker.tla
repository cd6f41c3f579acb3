----------------------------- MODULE SelfTracker -----------------------------
(***************************************************************************)
(* The self tracker as a state machine of its own, under a host that may   *)
(* call any of its methods at any time with any packet: the public type of *)
(* seq-backend-eql/src/self_track.rs.                                      *)
(***************************************************************************)
EXTENDS SelfTrack

VARIABLES
  tracker,
  strangers  \* history: ids answered for as the player's since the last
             \* reset with nothing that tied them to the player

trackerVars == <<tracker, strangers>>

TrackerInit == tracker = Default /\ strangers = {}

Reset == tracker' = Default /\ strangers' = {}

SelfPos(id) == tracker' = ObserveSelfPos(tracker, id) /\ UNCHANGED strangers

Spawn(player, name, id) ==
  tracker' = ObserveSpawn(tracker, player, name, id) /\ UNCHANGED strangers

(* No position report and no earlier answer speaks for the id.             *)
OutOfTheBlue(t, s) ==
  StatIsSelf(t, s) /\ ~IsSelf(t, s.spawn_id) /\ t.provisional_id = 0

StatReport(s) ==
  /\ tracker' = ObserveStatSync(tracker, s)
  /\ strangers' = strangers \cup {id \in {s.spawn_id} : OutOfTheBlue(tracker, s)}

DrainPending == tracker' = TakePending(tracker) /\ UNCHANGED strangers

DrainRetired == tracker' = TakeRetired(tracker) /\ UNCHANGED strangers

(* Only whether the names agree and whether they are empty matters.        *)
SpawnNames == {"", "me", "other"}

TrackerNext ==
  \/ Reset
  \/ \E id \in Ids0 : SelfPos(id)
  \/ \E player, name \in SpawnNames, id \in Ids0 : Spawn(player, name, id)
  \/ \E s \in StatSync : StatReport(s)
  \/ DrainPending
  \/ DrainRetired

TrackerSpec == TrackerInit /\ [][TrackerNext]_trackerVars

-----------------------------------------------------------------------------
(* Properties                                                              *)

(* Every field is an id, a flag, or at most one held packet; a stranger    *)
(* has an id.                                                              *)
TypeOK ==
  /\ tracker \in Tracker
  /\ \A p, q \in tracker.pending : p = q
  /\ strangers \subseteq Ids

(* Held vitals can only ever belong to the twin of the adopted id: they    *)
(* were seen after the adoption, lie in its batch and are not keyed to the *)
(* adopted id itself (self_track.rs:203-206, 284-288).  In particular the  *)
(* match on the new id at line 237 never keeps anything.                   *)
PendingIsPlausibleTwin == HeldIsPlausibleTwin(tracker)

(* The stat channel's guess is one-shot: from one reset to the next at most *)
(* one id is taken for the player on the strength of its stats alone,      *)
(* whatever position reports, records and drains come in between, and      *)
(* until a name matches it is not given up for another one                 *)
(* (self_track.rs:122-125, 257-273).                                       *)
GuessIsSpentOnce ==
  /\ \A a, b \in strangers : a = b
  /\ tracker.self_id = 0 => strangers \subseteq {tracker.alt_id}

(* An id adopted by name match excludes everything guessed before it: all  *)
(* ids still regarded as the player's are of its batch, and no provisional *)
(* id survives (self_track.rs:116-118, 227-236).                           *)
ResolvedIdsShareBatch == AnchorHeld(tracker)

Promise == INSTANCE SelfIdentity WITH anchor <- tracker.self_id, ids <- SelfIds(tracker)

(* The tracker implements the abstract promise of SelfIdentity: evidence   *)
(* without a name only before a name match, the anchor moved only to       *)
(* another batch (self_track.rs:163-246).                                  *)
ImplementsSelfIdentity == Promise!Spec
=============================================================================
