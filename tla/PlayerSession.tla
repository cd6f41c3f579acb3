---------------------------- MODULE PlayerSession ----------------------------
(***************************************************************************)
(* Who the player is, as a session sees it (seq-session/src/lib.rs): the   *)
(* self tracker composed with the session's own player name, player id,    *)
(* identity and entity index, and with the lifecycle resets.  One packet   *)
(* is one step; `out` collects the events it publishes and is empty        *)
(* between packets.                                                        *)
(*                                                                         *)
(* Each handler of the source is an operator from a session to the session *)
(* after it, so that a packet that decodes to several events, or an event  *)
(* that first resets, composes handlers in the order the source does.      *)
(* Events and fields no property tells apart (positions, the vitals of a   *)
(* profile, and the routing of animation and SpawnHp events, which changes *)
(* nothing) are left out.  An Option is the set of its values.             *)
(***************************************************************************)
EXTENDS SelfTrack, Sequences

CONSTANTS Characters, \* character names; "" is the name not yet known
          Forms,      \* what an identity shows besides name and id (level, race...)
          StatSets,   \* the combinations of stats a stat packet carries
          MaxStats    \* bound: stat packets between two boundaries

ASSUME CharactersAssumption == "" \notin Characters
ASSUME MaxStatsAssumption == MaxStats \in Nat /\ Values = 1 .. MaxStats
ASSUME StatSetsAssumption == StatSets \subseteq SUBSET Stats /\ {} \notin StatSets

VARIABLES
  session,   \* the Session
  wire,      \* the world: which name the server gave each id it now uses
  seen,      \* history: stat packets so far; a packet's snapshot is its number
  began,     \* history: `seen` at the last reset
  fresh,     \* history: `seen` at the last reset or death of the player
  asPlayer,  \* history: snapshots published as the player's since then
  asEntity,  \* history: snapshots published as another entity's since then
  host       \* a host's view of the identity, from the published events alone

history == <<seen, began, fresh, asPlayer, asEntity, host>>
vars == <<session, wire, history>>

Names == Characters \cup {""}

Backends == {"eql", "live"}

Identity ==
  [spawn_id : SUBSET Ids0, name : Names, form : Forms]

NewSession(backend) ==
  [backend |-> backend, player_name |-> "", player_id |-> {}, identity |-> {},
   entities |-> {}, tracker |-> Default, self_stats |-> {}, out |-> <<>>]

Emit(s, events) == [s EXCEPT !.out = @ \o events]

Ev(kind) == [kind |-> kind]

-----------------------------------------------------------------------------
(* Lifecycle resets                                                        *)

WithSpawnId(identity, id) == {[i EXCEPT !.spawn_id = id] : i \in identity}

(* A slip: the entity index outlives the reset.                            *)
ResetKeepingEntities(s) ==
  [s EXCEPT !.player_id = {},
            !.identity = WithSpawnId(@, {}),
            !.tracker = Default,
            !.self_stats = {}]

(* reset_correlations: the name and the identity survive, without its id.  *)
ResetCorrelations(s) ==
  [s EXCEPT !.entities = {},
            !.player_id = {},
            !.identity = WithSpawnId(@, {}),
            !.tracker = Default,
            !.self_stats = {}]

ResetFor(s) == Emit(ResetCorrelations(s), <<Ev("SessionReset")>>)

OnEnterWorld(s, name) ==
  LET r == ResetFor(s)
  IN  Emit([r EXCEPT !.identity = IF s.player_name # name THEN {} ELSE @,
                     !.player_name = name],
           <<[kind |-> "EnterWorld", name |-> name]>>)

OnProfile(s, name, form) ==
  LET me == [spawn_id |-> {}, name |-> name, form |-> form]
  IN  Emit([ResetFor(s) EXCEPT !.player_name = name, !.identity = {me}],
           <<[kind |-> "PlayerIdentityUpdated", identity |-> me]>>)

(* A slip: the tracker outlives the player's death.                        *)
ClearPlayerIdOnly(s) ==
  [s EXCEPT !.player_id = {}, !.identity = WithSpawnId(@, {})]

(* A slip: only the adopted id is forgotten, and its twin stays.           *)
ClearAdoptedOnly(s) ==
  [s EXCEPT !.player_id = {}, !.identity = WithSpawnId(@, {}), !.tracker.self_id = 0]

(* clear_player_id, on the player's own death: a severing, not a reset.    *)
ClearPlayerId(s) ==
  [s EXCEPT !.player_id = {}, !.identity = WithSpawnId(@, {}), !.tracker = Default]

-----------------------------------------------------------------------------
(* Vitals                                                                  *)

(* A snapshot becomes a player event when something in it is shown: hit    *)
(* points with a zero maximum are not.                                     *)
PlayerVitals(held) ==
  IF held.has \subseteq {"hp0"} THEN <<>>
  ELSE <<[kind |-> "PlayerVitalsUpdated", id |-> held.id, value |-> held.value]>>

PublishVitals(s, held) ==
  Emit([s EXCEPT !.self_stats = @ \cup {held.value}], PlayerVitals(held))

TakePendingPlayerVitals(s) ==
  LET t == [s EXCEPT !.tracker = TakePending(s.tracker)]
  IN  IF PendingVitals(s.tracker) = {} THEN t
      ELSE PublishVitals(t, CHOOSE p \in PendingVitals(s.tracker) : TRUE)

(* A slip: an unconfirmed player id is published as another entity's.      *)
OnStatSyncUnlisted(s, p) ==
  LET t == [s EXCEPT !.tracker = ObserveStatSync(s.tracker, p)]
  IN  IF StatIsSelf(s.tracker, p)
      THEN PublishVitals(t, [id |-> p.spawn_id, has |-> p.has, value |-> p.value])
      ELSE IF "hp" \in p.has
      THEN Emit(t, <<[kind |-> "SpawnHealthUpdated", id |-> p.spawn_id, value |-> p.value]>>)
      ELSE t

OnStatSync(s, p) ==
  LET t == [s EXCEPT !.tracker = ObserveStatSync(s.tracker, p)]
  IN  IF StatIsSelf(s.tracker, p)
      THEN PublishVitals(t, [id |-> p.spawn_id, has |-> p.has, value |-> p.value])
      ELSE IF "hp" \in p.has /\ p.spawn_id \in s.entities
      THEN Emit(t, <<[kind |-> "SpawnHealthUpdated", id |-> p.spawn_id, value |-> p.value]>>)
      ELSE t

-----------------------------------------------------------------------------
(* Spawns                                                                  *)

IsPlayerId(s, id) ==
  id \in s.player_id \/ (s.backend = "eql" /\ IsSelf(s.tracker, id))

ClassifySpawn(s, name, id) ==
  IF s.backend = "eql" THEN SpawnRouting(s.tracker, s.player_name, name, id)
  ELSE IF s.player_name # "" /\ name = s.player_name THEN "AdoptSelf"
  ELSE "NotSelf"

ObserveSpawnIn(s, name, id) ==
  IF s.backend = "eql"
  THEN [s EXCEPT !.tracker = ObserveSpawn(@, s.player_name, name, id)] ELSE s

(* The player's own record; an OP_LoadoutSwap leaves the identity event to *)
(* the LoadoutSwap event that follows in the same packet.                  *)
AdoptPlayer(s, id, name, form, opcode) ==
  LET me == [spawn_id |-> {id}, name |-> name, form |-> form]
      announced == IF opcode = "OP_LoadoutSwap" THEN <<>>
                   ELSE <<[kind |-> "PlayerIdentityUpdated", identity |-> me]>>
  IN  Emit([s EXCEPT !.player_id = {id}, !.identity = {me}],
           announced \o <<[kind |-> "PlayerMoved", spawn_id |-> {id}]>>)

OnSpawnAdded(s, id, name, form, opcode) ==
  LET routing == ClassifySpawn(s, name, id)
      t == ObserveSpawnIn(s, name, id)
  IN  CASE routing = "NotSelf" ->
             Emit([t EXCEPT !.entities = @ \cup {id}], <<[kind |-> "SpawnAdded", id |-> id]>>)
        [] routing = "AdoptSelf" ->
             TakePendingPlayerVitals(AdoptPlayer(t, id, name, form, opcode))
        [] routing = "SelfTwin" ->
             TakePendingPlayerVitals(t)

OnSpawnRemoved(s, id) ==
  Emit([s EXCEPT !.entities = @ \ {id}], <<[kind |-> "SpawnRemoved", id |-> id]>>)

OnSpawnKilled(s, id) ==
  IF IsPlayerId(s, id) THEN Emit(ClearPlayerId(s), <<Ev("PlayerDied")>>)
  ELSE Emit(s, <<[kind |-> "SpawnDied", id |-> id]>>)

(* update_player_loadout: an identity is created if there was none.        *)
OnLoadoutSwap(s, id, form) ==
  IF IsPlayerId(s, id)
  THEN LET old == IF s.identity = {} THEN [spawn_id |-> {}, name |-> s.player_name, form |-> form]
                  ELSE CHOOSE i \in s.identity : TRUE
           me == [old EXCEPT !.spawn_id = s.player_id, !.form = form]
       IN  Emit([s EXCEPT !.identity = {me}],
                <<[kind |-> "PlayerIdentityUpdated", identity |-> me]>>)
  ELSE Emit(s, <<[kind |-> "SpawnIdentityUpdated", id |-> id]>>)

OnSpawnIllusion(s, id, form) ==
  IF IsPlayerId(s, id)
  THEN Emit([s EXCEPT !.identity = {[i EXCEPT !.form = form] : i \in @}],
            <<[kind |-> "PlayerAppearanceUpdated", form |-> form]>>)
  ELSE Emit(s, <<[kind |-> "SpawnIllusion", id |-> id]>>)

(* A new level is part of what the identity shows.                         *)
OnLevelUpdate(s, form) ==
  LET levelled == {[i EXCEPT !.form = form] : i \in s.identity}
  IN  IF levelled = s.identity THEN s
      ELSE Emit([s EXCEPT !.identity = levelled],
                <<[kind |-> "PlayerIdentityUpdated", identity |-> CHOOSE i \in levelled : TRUE]>>)

(* A slip: the position report's id is the player's, whatever the tracker  *)
(* makes of it.                                                            *)
OnSelfPosUnresolved(s, id) ==
  LET t == IF s.backend = "eql" THEN [s EXCEPT !.tracker = ObserveSelfPos(@, id)] ELSE s
      u == [t EXCEPT !.player_id = {id} \ {0}, !.identity = WithSpawnId(@, {id} \ {0})]
  IN  Emit(u, <<[kind |-> "PlayerMoved", spawn_id |-> {id} \ {0}]>>)

(* The client's own position report (client to server).                    *)
OnSelfPos(s, id) ==
  LET t == IF s.backend = "eql" THEN [s EXCEPT !.tracker = ObserveSelfPos(@, id)] ELSE s
      resolved == IF s.backend = "eql" THEN {t.tracker.self_id} \ {0} ELSE {id} \ {0}
      u == [t EXCEPT !.player_id = resolved,
                     !.identity = IF s.backend = "eql" THEN @ ELSE WithSpawnId(@, resolved)]
  IN  Emit(u, <<[kind |-> "PlayerMoved", spawn_id |-> resolved]>>)

-----------------------------------------------------------------------------
(* The history, and a host that follows the identity through the events.   *)
(* `s` below is the session a packet leaves behind, with what it published. *)

Published(s, kind) ==
  {s.out[i].value : i \in {j \in DOMAIN s.out : s.out[j].kind = kind}}

HostApply(h, e) ==
  CASE e.kind = "PlayerIdentityUpdated"        -> {e.identity}
    [] e.kind = "PlayerMoved"                  -> WithSpawnId(h, e.spawn_id)
    [] e.kind = "PlayerAppearanceUpdated"      -> {[i EXCEPT !.form = e.form] : i \in h}
    [] e.kind \in {"SessionReset", "PlayerDied"} -> WithSpawnId(h, {})
    [] e.kind = "EnterWorld"                   -> {i \in h : i.name = e.name}
    [] OTHER                                   -> h

(* The host after all of them, in their order.                             *)
HostAfter(h, events) ==
  LET after[n \in 0 .. Len(events)] ==
        IF n = 0 THEN h ELSE HostApply(after[n - 1], events[n])
  IN  after[Len(events)]

Deliver(s) ==
  /\ session' = [s EXCEPT !.out = <<>>]
  /\ host' = HostAfter(host, s.out)

(* Inside a session: what was published is added to the history.           *)
Record(s) ==
  /\ Deliver(s)
  /\ asPlayer' = asPlayer \cup Published(s, "PlayerVitalsUpdated")
  /\ asEntity' = asEntity \cup Published(s, "SpawnHealthUpdated")
  /\ UNCHANGED <<began, fresh>>

(* The player's life is over: nothing seen in it may be published later.   *)
Severed ==
  /\ fresh' = seen
  /\ asPlayer' = {} /\ asEntity' = {}
  /\ UNCHANGED seen

(* A reset: nothing seen before it may be handed out after it, either.     *)
Boundary == Severed /\ began' = seen

-----------------------------------------------------------------------------
(* Packets.  What the world is assumed to do: between two boundaries an id *)
(* has one name, and a client reports the id of its own character.         *)

NewWorld == wire' = [id \in Ids |-> {}]

Announce(id, name) ==
  /\ wire[id] \subseteq {name}
  /\ wire' = [wire EXCEPT ![id] = {name}]

EnterWorld(name) ==
  /\ Deliver(OnEnterWorld(session, name))
  /\ NewWorld /\ Boundary

PlayerProfile(name, form) ==
  /\ Deliver(OnProfile(session, name, form))
  /\ NewWorld /\ Boundary

(* Only Live and Test confirm a zone transition on the wire.               *)
ZoneTransition ==
  /\ session.backend = "live"
  /\ Deliver(ResetFor(session))
  /\ NewWorld /\ Boundary

(* A host's flush publishes the reset marker...                            *)
FlushReset ==
  /\ Deliver(ResetFor(session))
  /\ UNCHANGED wire
  /\ Boundary

(* ...except at shutdown and at the end of a replay, where the host knows. *)
FlushEnd ==
  /\ session' = ResetCorrelations(session)
  /\ host' = WithSpawnId(host, {})
  /\ UNCHANGED wire
  /\ Boundary

ZoneEntry(id, name, form) ==
  /\ Announce(id, name)
  /\ Record(OnSpawnAdded(session, id, name, form, "OP_ZoneEntry"))
  /\ UNCHANGED seen

(* A slip: the swap's event is published before its spawn record.          *)
LoadoutSwapFirst(id, name, form) ==
  /\ session.backend = "eql"
  /\ Announce(id, name)
  /\ Record(OnSpawnAdded(OnLoadoutSwap(session, id, form), id, name, form, "OP_LoadoutSwap"))
  /\ UNCHANGED seen

(* OP_LoadoutSwap (EQL): the embedded record, then the swap itself.        *)
LoadoutSwap(id, name, form) ==
  /\ session.backend = "eql"
  /\ Announce(id, name)
  /\ Record(OnLoadoutSwap(OnSpawnAdded(session, id, name, form, "OP_LoadoutSwap"), id, form))
  /\ UNCHANGED seen

DeleteSpawn(id) ==
  /\ Record(OnSpawnRemoved(session, id))
  /\ UNCHANGED <<wire, seen>>

(* The player's own death ends what may be published, another's does not;  *)
(* what the host has yet to drain stays.                                   *)
Death(id) ==
  /\ UNCHANGED wire
  /\ IF IsPlayerId(session, id)
     THEN Deliver(OnSpawnKilled(session, id)) /\ Severed /\ UNCHANGED began
     ELSE Record(OnSpawnKilled(session, id)) /\ UNCHANGED seen

Illusion(id, form) ==
  /\ Record(OnSpawnIllusion(session, id, form))
  /\ UNCHANGED <<wire, seen>>

LevelUpdate(form) ==
  /\ Record(OnLevelUpdate(session, form))
  /\ UNCHANGED <<wire, seen>>

SelfPosition(id) ==
  /\ IF session.player_name = "" \/ id = 0 THEN UNCHANGED wire
                                          ELSE Announce(id, session.player_name)
  /\ Record(OnSelfPos(session, id))
  /\ UNCHANGED seen

(* EQL's stat channel; its snapshot is numbered in arrival order.          *)
Stat(id, wide, has) ==
  /\ session.backend = "eql"
  /\ seen < MaxStats
  /\ wide \/ has \subseteq {"hp", "hp0"}
  /\ seen' = seen + 1
  /\ Record(OnStatSync(session, [spawn_id |-> id, wide |-> wide, has |-> has, value |-> seen']))
  /\ UNCHANGED wire

TakeSelfStats ==
  /\ session' = [session EXCEPT !.self_stats = {}]
  /\ UNCHANGED <<wire, history>>

Init ==
  /\ \E b \in Backends : session = NewSession(b)
  /\ wire = [id \in Ids |-> {}]
  /\ seen = 0 /\ began = 0 /\ fresh = 0 /\ asPlayer = {} /\ asEntity = {}
  /\ host = {}

Next ==
  \/ \E name \in Characters : EnterWorld(name)
  \/ \E name \in Characters, form \in Forms : PlayerProfile(name, form)
  \/ ZoneTransition
  \/ FlushReset
  \/ FlushEnd
  \/ \E id \in Ids, name \in Characters, form \in Forms : ZoneEntry(id, name, form)
  \/ \E id \in Ids, name \in Characters, form \in Forms : LoadoutSwap(id, name, form)
  \/ \E id \in Ids : DeleteSpawn(id)
  \/ \E id \in Ids : Death(id)
  \/ \E id \in Ids, form \in Forms : Illusion(id, form)
  \/ \E form \in Forms : LevelUpdate(form)
  \/ \E id \in Ids0 : SelfPosition(id)
  \/ \E id \in Ids, wide \in BOOLEAN, has \in StatSets : Stat(id, wide, has)
  \/ TakeSelfStats

Spec == Init /\ [][Next]_vars

-----------------------------------------------------------------------------
(* Properties                                                              *)

(* Three copies of "who am I" never drift apart, whatever the order of     *)
(* profile, spawn, position and death packets: the session's player id is  *)
(* the tracker's adopted id (EQL), and a known identity carries that id    *)
(* and the current character's name (lib.rs:594-597, 651-664, 780-791,     *)
(* 942-949, 2145-2150).                                                    *)
IdentityAgrees ==
  /\ session.backend = "eql" => session.player_id = {session.tracker.self_id} \ {0}
  /\ \A i \in session.identity :
        i.spawn_id = session.player_id /\ i.name = session.player_name

(* The published events suffice: a host that only follows them ends every  *)
(* packet with the identity the session has, also across the loadout swap  *)
(* whose spawn record is not announced (lib.rs:794-796).                   *)
HostFollowsIdentity == host = session.identity

(* Once the character is known the player's id is never at the same time   *)
(* listed as another entity (lib.rs:766-778, 969-973).                     *)
PlayerIsNotListed ==
  session.player_name # "" => session.player_id \cap session.entities = {}

(* No stat snapshot is published both as another entity's health and as    *)
(* the player's own (self_track.rs:251-256).                               *)
SnapshotHasOneOwner == asPlayer \cap asEntity = {}

(* Vitals seen before a reset or before the player's death are not held    *)
(* past it and never published as the player's after it.  What the host    *)
(* drains (take_self_stats) is bounded by the reset alone: the player's    *)
(* death leaves undrained what was the player's before it                  *)
(* (self_track.rs:132-138, lib.rs:866-870, 907-911, 942-949, 2152-2158).   *)
VitalsStayInSession ==
  /\ \A v \in asPlayer : v > fresh
  /\ \A p \in session.tracker.pending : p.value > fresh
  /\ \A v \in session.self_stats : v > began

(* Whatever the session makes of a packet (a record and the drain after it, *)
(* a swap with its record, a boundary), who it takes for the player moves  *)
(* by at most one step of what SelfIdentity promises (lib.rs:650, 821, 867, *)
(* 909, 947, 2157; self_track.rs:163-246).                                 *)
Known == INSTANCE SelfIdentity WITH
  anchor <- session.tracker.self_id,
  ids <- SelfIds(session.tracker)

SessionKeepsThePromise == Known!Spec

(* docs/architecture.md:209-210: wide vitals received before the twin      *)
(* record "are held and emitted once the tracker confirms ownership".      *)
(* Between packets no held vitals belong to a confirmed id.                *)
HeldVitalsAreEmitted == PendingVitals(session.tracker) = {}
=============================================================================
