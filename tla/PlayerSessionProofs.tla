------------------------- MODULE PlayerSessionProofs -------------------------
(***************************************************************************)
(* Who the player is, for any characters, ids, batch window and packets:   *)
(* the session's copies agree, the player is not listed as an entity, a    *)
(* host that follows the events has the session's identity, and a snapshot *)
(* of vitals has one owner and does not outlive its session.  Each of the  *)
(* three invariants (Inv, HostInv, VitalInv) has a lemma per handler.      *)
(* And about the tracker by itself, under calls in any order: what each    *)
(* operation preserves, and that the tracker refines SelfIdentity; last,   *)
(* that both hold of the tracker inside a session, packet by packet.       *)
(***************************************************************************)
EXTENDS PlayerSession, SelfTracker, SequenceTheorems, WellFoundedInduction, TLAPS

-----------------------------------------------------------------------------
(* The inductive invariant, of a session and of the names on the wire      *)

(* The fields of which nothing is said hold whatever they hold.            *)
IsTracker(t) ==
  t \in [self_id : Ids0, alt_id : {t.alt_id}, provisional_id : {t.provisional_id},
         retired : {t.retired}, guessed : {t.guessed}, pending : {t.pending}]

IsSession(s) ==
  /\ s \in [backend : Backends, player_name : Names, player_id : SUBSET Ids,
            identity : SUBSET Identity, entities : SUBSET Ids, tracker : {s.tracker},
            self_stats : {s.self_stats}, out : {s.out}]
  /\ IsTracker(s.tracker)

Agrees(s) ==
  /\ s.backend = "eql" => s.player_id = {s.tracker.self_id} \ {0}
  /\ \A i \in s.identity : i.spawn_id = s.player_id /\ i.name = s.player_name

(* Once the character is known, what is listed was announced under another *)
(* name, and the player's id under the character's.                        *)
ToldApart(s, names) ==
  s.player_name # "" =>
    /\ \A id \in s.entities : \E n \in Characters \ {s.player_name} : names[id] = {n}
    /\ \A id \in s.player_id : names[id] = {s.player_name}

Sound(s) == IsSession(s) /\ Agrees(s)

Inv ==
  /\ wire \in [Ids -> SUBSET Characters]
  /\ Sound(session)
  /\ ToldApart(session, wire)

(* Between two sessions: the same player, the same entities.               *)
SameSelves(s, u) ==
  u.player_name = s.player_name /\ u.player_id = s.player_id /\ u.entities = s.entities

-----------------------------------------------------------------------------
(* The tracker                                                             *)

LEMMA ZeroIsNoId == 0 \notin Ids /\ 0 \in Ids0
BY IdsAssumption DEF Ids0

LEMMA DefaultTracker == IsTracker(Default) /\ Default.self_id = 0
BY DEF IsTracker, Default, Ids0

(* Only a record of the player's name changes the adopted id.              *)
LEMMA TrackerKeepsSelf ==
  ASSUME NEW t, IsTracker(t)
  PROVE  /\ \A id \in Ids0 : /\ IsTracker(ObserveSelfPos(t, id))
                             /\ ObserveSelfPos(t, id).self_id = t.self_id
         /\ \A p : /\ IsTracker(ObserveStatSync(t, p))
                   /\ ObserveStatSync(t, p).self_id = t.self_id
         /\ IsTracker(TakePending(t)) /\ TakePending(t).self_id = t.self_id
<1>1. ASSUME NEW id \in Ids0
      PROVE  IsTracker(ObserveSelfPos(t, id)) /\ ObserveSelfPos(t, id).self_id = t.self_id
  BY DEF IsTracker, ObserveSelfPos, AdoptProvisional
<1>2. ASSUME NEW p
      PROVE  IsTracker(ObserveStatSync(t, p)) /\ ObserveStatSync(t, p).self_id = t.self_id
  BY DEF IsTracker, ObserveStatSync, Guess, Hold
<1>3. IsTracker(TakePending(t)) /\ TakePending(t).self_id = t.self_id
  BY DEF IsTracker, TakePending
<1> QED BY <1>1, <1>2, <1>3

LEMMA TrackerSpawn ==
  ASSUME NEW t, IsTracker(t), NEW player \in Names, NEW name \in Characters,
         NEW id \in Ids
  PROVE  /\ IsTracker(ObserveSpawn(t, player, name, id))
         /\ name # player => /\ SpawnRouting(t, player, name, id) = "NotSelf"
                             /\ ObserveSpawn(t, player, name, id).self_id = t.self_id
         /\ name = player =>
              \/ /\ SpawnRouting(t, player, name, id) = "AdoptSelf"
                 /\ ObserveSpawn(t, player, name, id).self_id = id
              \/ /\ SpawnRouting(t, player, name, id) = "SelfTwin"
                 /\ ObserveSpawn(t, player, name, id).self_id = t.self_id
<1> USE ZeroIsNoId, CharactersAssumption DEF IsTracker, SpawnRouting, NamesMatch, ObserveSpawn
<1>1. CASE name # player
  BY <1>1
<1>2. CASE name = player
  <2>1. IsTracker(Adopt(t, id)) /\ Adopt(t, id).self_id = id
    BY DEF Adopt, Ids0
  <2>2. IsTracker(LearnTwin(t, id)) /\ LearnTwin(t, id).self_id = t.self_id
    BY DEF LearnTwin
  <2>3. CASE t.self_id = 0 \/ ~Near(id, t.self_id)
    BY <1>2, <2>1, <2>3
  <2>4. CASE ~(t.self_id = 0 \/ ~Near(id, t.self_id))
    BY <1>2, <2>2, <2>4
  <2> QED BY <2>3, <2>4
<1> QED BY <1>1, <1>2

-----------------------------------------------------------------------------
(* Handlers                                                                *)

(* What an Emit adds to is not the session's state.                        *)
LEMMA EmitSound ==
  ASSUME NEW s, Sound(s), NEW events
  PROVE  Sound(Emit(s, events)) /\ SameSelves(s, Emit(s, events))
BY DEF Sound, IsSession, Agrees, Emit, SameSelves

LEMMA EmptiedSound ==
  ASSUME NEW s, Sound(s), NEW stats
  PROVE  /\ Sound([s EXCEPT !.out = << >>]) /\ SameSelves(s, [s EXCEPT !.out = << >>])
         /\ Sound([s EXCEPT !.self_stats = stats])
         /\ SameSelves(s, [s EXCEPT !.self_stats = stats])
BY DEF Sound, IsSession, Agrees, SameSelves

LEMMA PublishSound ==
  ASSUME NEW s, Sound(s), NEW held
  PROVE  Sound(PublishVitals(s, held)) /\ SameSelves(s, PublishVitals(s, held))
<1> DEFINE u == [s EXCEPT !.self_stats = @ \cup {held.value}]
<1>1. Sound(u) /\ SameSelves(s, u)
  BY EmptiedSound
<1>2. PublishVitals(s, held) = Emit(u, PlayerVitals(held))
  BY DEF PublishVitals
<1> HIDE DEF u
<1> QED BY <1>1, <1>2, EmitSound DEF SameSelves

LEMMA WithTracker ==
  ASSUME NEW s, Sound(s), NEW t, IsTracker(t), t.self_id = s.tracker.self_id
  PROVE  /\ Sound([s EXCEPT !.tracker = t])
         /\ SameSelves(s, [s EXCEPT !.tracker = t])
         /\ [s EXCEPT !.tracker = t].backend = s.backend
BY DEF Sound, IsSession, Agrees, SameSelves

LEMMA PendingSound ==
  ASSUME NEW s, Sound(s)
  PROVE  Sound(TakePendingPlayerVitals(s)) /\ SameSelves(s, TakePendingPlayerVitals(s))
<1> DEFINE t == [s EXCEPT !.tracker = TakePending(s.tracker)]
<1>1. Sound(t) /\ SameSelves(s, t)
  BY TrackerKeepsSelf, WithTracker DEF Sound, IsSession
<1> HIDE DEF t
<1>2. \A held : Sound(PublishVitals(t, held)) /\ SameSelves(t, PublishVitals(t, held))
  BY <1>1, PublishSound
<1>3. \/ TakePendingPlayerVitals(s) = t
      \/ \E held : TakePendingPlayerVitals(s) = PublishVitals(t, held)
  BY DEF TakePendingPlayerVitals, t
<1> QED BY <1>1, <1>2, <1>3 DEF SameSelves

LEMMA ResetSound ==
  ASSUME NEW s, Sound(s)
  PROVE  LET u == ResetCorrelations(s)
         IN  /\ Sound(u) /\ u.player_id = {} /\ u.entities = {}
             /\ u.player_name = s.player_name /\ u.tracker = Default
<1> DEFINE u == ResetCorrelations(s)
<1>1. \A i \in s.identity : [i EXCEPT !.spawn_id = {}] \in Identity
                            /\ [i EXCEPT !.spawn_id = {}].name = i.name
  BY DEF Sound, IsSession, Identity
<1>2. /\ u.identity \subseteq Identity
      /\ \A i \in u.identity : i.spawn_id = {} /\ i.name = s.player_name
  BY <1>1 DEF Sound, IsSession, Agrees, ResetCorrelations, WithSpawnId, Identity
<1>3. /\ u.player_id = {} /\ u.entities = {} /\ u.player_name = s.player_name
      /\ u.tracker = Default /\ u.backend = s.backend
  BY DEF Sound, IsSession, ResetCorrelations
<1> DEFINE identity == WithSpawnId(s.identity, {})
<1>4. IsSession(u)
  <2>1. identity \subseteq Identity
    BY <1>2 DEF Sound, IsSession, ResetCorrelations
  <2>2. u = [s EXCEPT !.entities = {}, !.player_id = {}, !.identity = identity,
                      !.tracker = Default, !.self_stats = {}]
    BY DEF ResetCorrelations
  <2> HIDE DEF identity, u
  <2> QED BY <2>1, <2>2, DefaultTracker DEF Sound, IsSession
<1>5. Agrees(u)
  BY <1>2, <1>3, DefaultTracker DEF Agrees
<1> QED BY <1>3, <1>4, <1>5 DEF Sound

LEMMA ResetForSound ==
  ASSUME NEW s, Sound(s)
  PROVE  LET u == ResetFor(s)
         IN  /\ Sound(u) /\ u.player_id = {} /\ u.entities = {}
             /\ u.player_name = s.player_name
BY ResetSound, EmitSound DEF ResetFor, SameSelves

LEMMA EnterWorldSound ==
  ASSUME NEW s, Sound(s), NEW name \in Characters
  PROVE  LET u == OnEnterWorld(s, name)
         IN  Sound(u) /\ u.player_id = {} /\ u.entities = {}
<1> DEFINE r == ResetFor(s)
           v == [r EXCEPT !.identity = IF s.player_name # name THEN {} ELSE @,
                          !.player_name = name]
<1>1. Sound(r) /\ r.player_id = {} /\ r.entities = {} /\ r.player_name = s.player_name
  BY ResetForSound
<1> HIDE DEF r
<1>2. Sound(v) /\ v.player_id = {} /\ v.entities = {}
  BY <1>1 DEF Sound, IsSession, Agrees, Names
<1>3. OnEnterWorld(s, name) = Emit(v, <<[kind |-> "EnterWorld", name |-> name]>>)
  BY DEF OnEnterWorld, r
<1> HIDE DEF v
<1> QED BY <1>2, <1>3, EmitSound DEF SameSelves

LEMMA ProfileSound ==
  ASSUME NEW s, Sound(s), NEW name \in Characters, NEW form \in Forms
  PROVE  LET u == OnProfile(s, name, form)
         IN  Sound(u) /\ u.player_id = {} /\ u.entities = {}
<1> DEFINE r  == ResetFor(s)
           me == [spawn_id |-> {}, name |-> name, form |-> form]
           v  == [r EXCEPT !.player_name = name, !.identity = {me}]
<1>1. Sound(r) /\ r.player_id = {} /\ r.entities = {}
  BY ResetForSound
<1> HIDE DEF r
<1>2. me \in Identity
  BY DEF Identity, Names
<1>3. Sound(v) /\ v.player_id = {} /\ v.entities = {}
  <2>1. me.spawn_id = {} /\ me.name = name /\ name \in Names
    BY DEF Names
  <2> HIDE DEF me
  <2> QED BY <1>1, <1>2, <2>1 DEF Sound, IsSession, Agrees
<1>4. OnProfile(s, name, form)
        = Emit(v, <<[kind |-> "PlayerIdentityUpdated", identity |-> me]>>)
  BY DEF OnProfile, r
<1> HIDE DEF v, me
<1> QED BY <1>3, <1>4, EmitSound DEF SameSelves

(* A record is the player's exactly if it has the player's name; then it   *)
(* is adopted, or (EQL) the twin of the id that was.                       *)
LEMMA SpawnRouted ==
  ASSUME NEW s, Sound(s), NEW id \in Ids, NEW name \in Characters
  PROVE  LET routing == ClassifySpawn(s, name, id)
             t       == ObserveSpawnIn(s, name, id)
         IN  /\ routing \in IF name = s.player_name THEN {"AdoptSelf", "SelfTwin"}
                            ELSE {"NotSelf"}
             /\ s.backend = "eql" =>
                  /\ routing = "AdoptSelf" => t.tracker.self_id = id
                  /\ routing # "AdoptSelf" => t.tracker.self_id = s.tracker.self_id
                  /\ IsTracker(t.tracker) /\ t = [s EXCEPT !.tracker = t.tracker]
             /\ s.backend # "eql" => t = s /\ routing # "SelfTwin"
             /\ routing # "AdoptSelf" => Sound(t) /\ SameSelves(s, t)
             /\ t.out = s.out /\ t.identity = s.identity
<1> DEFINE routing == ClassifySpawn(s, name, id)
           t       == ObserveSpawnIn(s, name, id)
<1>t. IsTracker(s.tracker) /\ s.player_name \in Names /\ name # ""
  BY CharactersAssumption DEF Sound, IsSession
<1>1. /\ routing \in IF name = s.player_name THEN {"AdoptSelf", "SelfTwin"} ELSE {"NotSelf"}
      /\ s.backend = "eql" =>
           /\ routing = "AdoptSelf" => t.tracker.self_id = id
           /\ routing # "AdoptSelf" => t.tracker.self_id = s.tracker.self_id
           /\ IsTracker(t.tracker) /\ t = [s EXCEPT !.tracker = t.tracker]
      /\ s.backend # "eql" => t = s /\ routing # "SelfTwin"
  <2>1. CASE s.backend = "eql"
    <3> DEFINE r == SpawnRouting(s.tracker, s.player_name, name, id)
               o == ObserveSpawn(s.tracker, s.player_name, name, id)
    <3>1. routing = r /\ t = [s EXCEPT !.tracker = o]
      BY <2>1 DEF ClassifySpawn, ObserveSpawnIn
    <3>2. /\ IsTracker(o)
          /\ r \in IF name = s.player_name THEN {"AdoptSelf", "SelfTwin"} ELSE {"NotSelf"}
          /\ r = "AdoptSelf" => o.self_id = id
          /\ r # "AdoptSelf" => o.self_id = s.tracker.self_id
      <4> DEFINE tr == s.tracker
                 pn == s.player_name
      <4>1. IsTracker(tr) /\ pn \in Names
        BY <1>t
      <4> HIDE DEF tr, pn
      <4>2. /\ IsTracker(ObserveSpawn(tr, pn, name, id))
            /\ name # pn => /\ SpawnRouting(tr, pn, name, id) = "NotSelf"
                            /\ ObserveSpawn(tr, pn, name, id).self_id = tr.self_id
            /\ name = pn =>
                 \/ /\ SpawnRouting(tr, pn, name, id) = "AdoptSelf"
                    /\ ObserveSpawn(tr, pn, name, id).self_id = id
                 \/ /\ SpawnRouting(tr, pn, name, id) = "SelfTwin"
                    /\ ObserveSpawn(tr, pn, name, id).self_id = tr.self_id
        BY <4>1, TrackerSpawn
      <4>3. CASE name = pn
        BY <4>2, <4>3 DEF tr, pn
      <4>4. CASE name # pn
        BY <4>2, <4>4 DEF tr, pn
      <4> QED BY <4>3, <4>4
    <3> HIDE DEF t, routing, r, o
    <3>3. t.tracker = o
      BY <3>1 DEF Sound, IsSession
    <3>4. t = [s EXCEPT !.tracker = t.tracker]
      BY <3>1, <3>3, Zenon
    <3> QED BY <2>1, <3>1, <3>2, <3>3, <3>4, Zenon
  <2>2. CASE s.backend # "eql"
    BY <1>t, <2>2 DEF ClassifySpawn, ObserveSpawnIn
  <2> QED BY <2>1, <2>2
<1> HIDE DEF routing, t
<1>2. routing # "AdoptSelf" => Sound(t) /\ SameSelves(s, t)
  <2>1. CASE s.backend = "eql"
    BY <1>1, <2>1, WithTracker
  <2>2. CASE s.backend # "eql"
    BY <1>1, <2>2 DEF SameSelves
  <2> QED BY <2>1, <2>2
<1>3. t.out = s.out /\ t.identity = s.identity
  BY <1>1 DEF Sound, IsSession
<1> QED BY <1>1, <1>2, <1>3 DEF routing, t

(* The session that adopted a record as the player's.                      *)
Me(id, name, form) == [spawn_id |-> {id}, name |-> name, form |-> form]

Adopted(s, id, name, form) ==
  [ObserveSpawnIn(s, name, id) EXCEPT !.player_id = {id}, !.identity = {Me(id, name, form)}]

LEMMA AdoptedSound ==
  ASSUME NEW s, Sound(s), NEW id \in Ids, NEW name \in Characters, NEW form \in Forms,
         ClassifySpawn(s, name, id) = "AdoptSelf"
  PROVE  LET v == Adopted(s, id, name, form)
         IN  /\ Sound(v) /\ v.player_name = s.player_name /\ v.player_id = {id}
             /\ v.entities = s.entities /\ v.out = s.out
             /\ v.identity = {Me(id, name, form)}
             /\ v.tracker = ObserveSpawnIn(s, name, id).tracker
<1> DEFINE me == Me(id, name, form)
           t  == ObserveSpawnIn(s, name, id)
           v  == [t EXCEPT !.player_id = {id}, !.identity = {me}]
<1>1. me \in Identity /\ me.spawn_id = {id} /\ me.name = name
  BY DEF Identity, Names, Ids0, Me
<1>2. name = s.player_name
  BY SpawnRouted
<1>3. CASE s.backend = "eql"
  <2>1. t.tracker.self_id = id /\ IsTracker(t.tracker) /\ t = [s EXCEPT !.tracker = t.tracker]
    BY <1>3, SpawnRouted
  <2> HIDE DEF t, me
  <2>2. IsSession(t) /\ t.player_name = s.player_name /\ t.entities = s.entities
        /\ t.backend = "eql" /\ t.tracker.self_id = id /\ t.out = s.out
    BY <1>3, <2>1 DEF Sound, IsSession
  <2>3. /\ Sound(v) /\ v.player_name = s.player_name /\ v.player_id = {id}
        /\ v.entities = s.entities /\ v.out = s.out /\ v.identity = {me}
        /\ v.tracker = t.tracker
    BY <1>1, <1>2, <2>2, ZeroIsNoId DEF Sound, IsSession, Agrees
  <2> QED BY <2>3 DEF t, me, Adopted
<1>4. CASE s.backend # "eql"
  <2>1. t = s
    BY <1>4, SpawnRouted
  <2> HIDE DEF t, me
  <2>2. /\ Sound(v) /\ v.player_name = s.player_name /\ v.player_id = {id}
        /\ v.entities = s.entities /\ v.out = s.out /\ v.identity = {me}
        /\ v.tracker = t.tracker
    BY <1>1, <1>2, <1>4, <2>1 DEF Sound, IsSession, Agrees
  <2> QED BY <2>2 DEF t, me, Adopted
<1> QED BY <1>3, <1>4

LEMMA SpawnAddedSound ==
  ASSUME NEW s, Sound(s), NEW id \in Ids, NEW name \in Characters, NEW form \in Forms,
         NEW opcode
  PROVE  LET u == OnSpawnAdded(s, id, name, form, opcode)
         IN  /\ Sound(u) /\ u.player_name = s.player_name
             /\ IF name = s.player_name
                THEN u.entities = s.entities /\ u.player_id \in {s.player_id, {id}}
                ELSE u.entities = s.entities \cup {id} /\ u.player_id = s.player_id
<1> DEFINE u       == OnSpawnAdded(s, id, name, form, opcode)
           routing == ClassifySpawn(s, name, id)
           t       == ObserveSpawnIn(s, name, id)
<1>1. /\ routing \in IF name = s.player_name THEN {"AdoptSelf", "SelfTwin"} ELSE {"NotSelf"}
      /\ routing # "AdoptSelf" => Sound(t) /\ SameSelves(s, t)
  BY SpawnRouted
<1>2. CASE routing = "NotSelf"
  <2> DEFINE v == [t EXCEPT !.entities = @ \cup {id}]
  <2>1. Sound(v) /\ v.player_name = s.player_name /\ v.player_id = s.player_id
        /\ v.entities = s.entities \cup {id}
    BY <1>1, <1>2 DEF Sound, IsSession, Agrees, SameSelves
  <2>2. u = Emit(v, <<[kind |-> "SpawnAdded", id |-> id]>>)
    BY <1>2 DEF OnSpawnAdded
  <2> HIDE DEF v, u, routing, t
  <2> QED BY <1>1, <1>2, <2>1, <2>2, EmitSound DEF SameSelves, u
<1>3. CASE routing = "SelfTwin"
  <2>1. u = TakePendingPlayerVitals(t)
    BY <1>3 DEF OnSpawnAdded
  <2> HIDE DEF u, routing, t
  <2> QED BY <1>1, <1>3, <2>1, PendingSound DEF SameSelves, u
<1>4. CASE routing = "AdoptSelf"
  <2> DEFINE me     == Me(id, name, form)
             v      == Adopted(s, id, name, form)
             events == (IF opcode = "OP_LoadoutSwap" THEN << >>
                        ELSE <<[kind |-> "PlayerIdentityUpdated", identity |-> me]>>)
                         \o <<[kind |-> "PlayerMoved", spawn_id |-> {id}]>>
  <2>1. Sound(v) /\ v.player_name = s.player_name /\ v.player_id = {id}
        /\ v.entities = s.entities
    BY <1>4, AdoptedSound
  <2>2. u = TakePendingPlayerVitals(Emit(v, events))
    BY <1>4 DEF OnSpawnAdded, AdoptPlayer, Adopted, Me
  <2> HIDE DEF v, u, events, routing, t
  <2>3. Sound(Emit(v, events)) /\ SameSelves(v, Emit(v, events))
    BY <2>1, EmitSound
  <2> QED BY <1>1, <1>4, <2>1, <2>2, <2>3, PendingSound DEF SameSelves, u
<1> QED BY <1>1, <1>2, <1>3, <1>4

LEMMA RemovedSound ==
  ASSUME NEW s, Sound(s), NEW id
  PROVE  LET u == OnSpawnRemoved(s, id)
         IN  /\ Sound(u) /\ u.player_name = s.player_name /\ u.player_id = s.player_id
             /\ u.entities \subseteq s.entities
<1> DEFINE v == [s EXCEPT !.entities = @ \ {id}]
<1>1. /\ Sound(v) /\ v.player_name = s.player_name /\ v.player_id = s.player_id
      /\ v.entities \subseteq s.entities
  BY DEF Sound, IsSession, Agrees
<1>2. OnSpawnRemoved(s, id) = Emit(v, <<[kind |-> "SpawnRemoved", id |-> id]>>)
  BY DEF OnSpawnRemoved
<1> HIDE DEF v
<1> QED BY <1>1, <1>2, EmitSound DEF SameSelves

(* An identity that is shown differently, or under another id: what        *)
(* remains of Sound is about the id.                                       *)
LEMMA WithIdentity ==
  ASSUME NEW s, Sound(s), NEW identity \in SUBSET Identity,
         \A i \in identity : i.spawn_id = s.player_id /\ i.name = s.player_name
  PROVE  /\ Sound([s EXCEPT !.identity = identity])
         /\ SameSelves(s, [s EXCEPT !.identity = identity])
BY DEF Sound, IsSession, Agrees, SameSelves

LEMMA KilledSound ==
  ASSUME NEW s, Sound(s), NEW id
  PROVE  LET u == OnSpawnKilled(s, id)
         IN  /\ Sound(u) /\ u.player_name = s.player_name /\ u.entities = s.entities
             /\ u.player_id \subseteq s.player_id
<1> DEFINE identity == WithSpawnId(s.identity, {})
           v        == ClearPlayerId(s)
<1>1. \A i \in identity : i \in Identity /\ i.spawn_id = {} /\ i.name = s.player_name
  BY DEF Sound, IsSession, Agrees, WithSpawnId, Identity
<1>2. v = [s EXCEPT !.player_id = {}, !.identity = identity, !.tracker = Default]
  BY DEF ClearPlayerId
<1> HIDE DEF identity, v
<1>3. /\ Sound(v) /\ v.player_name = s.player_name /\ v.entities = s.entities
      /\ v.player_id = {}
  BY <1>1, <1>2, DefaultTracker DEF Sound, IsSession, Agrees
<1>4. \E events : OnSpawnKilled(s, id) \in {Emit(v, events), Emit(s, events)}
  BY DEF OnSpawnKilled, v
<1> QED BY <1>3, <1>4, EmitSound DEF SameSelves

LEMMA SwapSound ==
  ASSUME NEW s, Sound(s), NEW id, NEW form \in Forms
  PROVE  Sound(OnLoadoutSwap(s, id, form)) /\ SameSelves(s, OnLoadoutSwap(s, id, form))
<1> DEFINE old == IF s.identity = {}
                  THEN [spawn_id |-> {}, name |-> s.player_name, form |-> form]
                  ELSE CHOOSE i \in s.identity : TRUE
           me  == [old EXCEPT !.spawn_id = s.player_id, !.form = form]
           v   == [s EXCEPT !.identity = {me}]
<1>1. old \in Identity /\ old.name = s.player_name
  BY DEF Sound, IsSession, Agrees, Identity
<1> HIDE DEF old
<1>2. me \in Identity /\ me.spawn_id = s.player_id /\ me.name = s.player_name
  BY <1>1 DEF Sound, IsSession, Identity, Ids0
<1> HIDE DEF me
<1>3. Sound(v) /\ SameSelves(s, v)
  BY <1>2, WithIdentity
<1>4. \E events : OnLoadoutSwap(s, id, form) \in {Emit(v, events), Emit(s, events)}
  BY DEF OnLoadoutSwap, old, me
<1> HIDE DEF v
<1> QED BY <1>3, <1>4, EmitSound DEF SameSelves

LEMMA FormSound ==
  ASSUME NEW s, Sound(s), NEW form \in Forms
  PROVE  LET v == [s EXCEPT !.identity = {[i EXCEPT !.form = form] : i \in s.identity}]
         IN  Sound(v) /\ SameSelves(s, v)
<1> DEFINE identity == {[i EXCEPT !.form = form] : i \in s.identity}
<1>1. /\ identity \in SUBSET Identity
      /\ \A i \in identity : i.spawn_id = s.player_id /\ i.name = s.player_name
  BY DEF Sound, IsSession, Agrees, Identity
<1> HIDE DEF identity
<1>2. /\ Sound([s EXCEPT !.identity = identity])
      /\ SameSelves(s, [s EXCEPT !.identity = identity])
  BY <1>1, WithIdentity
<1> QED BY <1>2 DEF identity

LEMMA ShownSound ==
  ASSUME NEW s, Sound(s), NEW form \in Forms
  PROVE  /\ \A id : /\ Sound(OnSpawnIllusion(s, id, form))
                    /\ SameSelves(s, OnSpawnIllusion(s, id, form))
         /\ Sound(OnLevelUpdate(s, form)) /\ SameSelves(s, OnLevelUpdate(s, form))
<1> DEFINE v == [s EXCEPT !.identity = {[i EXCEPT !.form = form] : i \in s.identity}]
<1>1. Sound(v) /\ SameSelves(s, v) /\ SameSelves(s, s)
  BY FormSound DEF SameSelves
<1>2. ASSUME NEW u, u \in {v, s} \/ \E events : u \in {Emit(v, events), Emit(s, events)}
      PROVE  Sound(u) /\ SameSelves(s, u)
  <2> HIDE DEF v
  <2> QED BY <1>1, <1>2, EmitSound DEF SameSelves
<1>3. ASSUME NEW id
      PROVE  \E events : OnSpawnIllusion(s, id, form) \in {Emit(v, events), Emit(s, events)}
  BY DEF OnSpawnIllusion
<1>4. OnLevelUpdate(s, form) = s \/ \E events : OnLevelUpdate(s, form) = Emit(v, events)
  BY DEF OnLevelUpdate
<1> HIDE DEF v
<1> QED BY <1>2, <1>3, <1>4

LEMMA StatSound ==
  ASSUME NEW s, Sound(s), NEW p
  PROVE  Sound(OnStatSync(s, p)) /\ SameSelves(s, OnStatSync(s, p))
<1> DEFINE t == [s EXCEPT !.tracker = ObserveStatSync(s.tracker, p)]
<1>1. Sound(t) /\ SameSelves(s, t)
  <2> DEFINE o == ObserveStatSync(s.tracker, p)
  <2>1. IsTracker(s.tracker)
    BY DEF Sound, IsSession
  <2>2. IsTracker(o) /\ o.self_id = s.tracker.self_id
    BY <2>1, TrackerKeepsSelf
  <2> HIDE DEF o
  <2>3. Sound([s EXCEPT !.tracker = o]) /\ SameSelves(s, [s EXCEPT !.tracker = o])
    BY <2>2, WithTracker
  <2> QED BY <2>3 DEF o
<1>2. \/ OnStatSync(s, p) = t
      \/ \E events : OnStatSync(s, p) = Emit(t, events)
      \/ \E held : OnStatSync(s, p) = PublishVitals(t, held)
  BY DEF OnStatSync
<1> HIDE DEF t
<1> QED BY <1>1, <1>2, EmitSound, PublishSound DEF SameSelves

(* EQL's tracker resolves the report to the id the session has; Live and   *)
(* Test take it as it is.                                                  *)
LEMMA SelfPosSound ==
  ASSUME NEW s, Sound(s), NEW id \in Ids0
  PROVE  LET u == OnSelfPos(s, id)
         IN  /\ Sound(u) /\ u.player_name = s.player_name /\ u.entities = s.entities
             /\ u.player_id \in {s.player_id, {id} \ {0}}
<1> DEFINE u == OnSelfPos(s, id)
<1>1. CASE s.backend = "eql"
  <2> DEFINE t == [s EXCEPT !.tracker = ObserveSelfPos(@, id)]
             v == [t EXCEPT !.player_id = {t.tracker.self_id} \ {0}, !.identity = @]
  <2>1. t = [s EXCEPT !.tracker = ObserveSelfPos(s.tracker, id)]
    BY DEF Sound, IsSession
  <2>2. Sound(t) /\ SameSelves(s, t) /\ t.backend = "eql"
    BY <1>1, <2>1, TrackerKeepsSelf, WithTracker DEF Sound, IsSession
  <2>3. \E events : u = Emit(v, events)
    BY <1>1 DEF OnSelfPos
  <2> HIDE DEF t, u
  <2>4. Sound(v) /\ SameSelves(t, v)
    BY <2>2 DEF Sound, IsSession, Agrees, SameSelves
  <2> HIDE DEF v
  <2> QED BY <2>2, <2>3, <2>4, EmitSound DEF SameSelves, u
<1>2. CASE s.backend # "eql"
  <2> DEFINE resolved == {id} \ {0}
             identity == WithSpawnId(s.identity, resolved)
             v        == [s EXCEPT !.player_id = resolved, !.identity = identity]
  <2>1. \E events : u = Emit(v, events)
    BY <1>2 DEF OnSelfPos, Sound, IsSession
  <2>2. resolved \subseteq Ids
    BY DEF Ids0
  <2> HIDE DEF resolved, u
  <2>3. \A i \in identity : /\ i \in Identity /\ i.spawn_id = resolved
                            /\ i.name = s.player_name
    BY <2>2 DEF Sound, IsSession, Agrees, WithSpawnId, Identity, Ids0
  <2> HIDE DEF identity
  <2>4. /\ Sound(v) /\ v.player_name = s.player_name /\ v.entities = s.entities
        /\ v.player_id = resolved
    BY <1>2, <2>2, <2>3 DEF Sound, IsSession, Agrees
  <2> HIDE DEF v
  <2> QED BY <2>1, <2>4, EmitSound DEF SameSelves, u, resolved
<1> QED BY <1>1, <1>2

-----------------------------------------------------------------------------
(* Names                                                                   *)

LEMMA SameApart ==
  ASSUME NEW s, NEW u, NEW names, ToldApart(s, names), SameSelves(s, u)
  PROVE  ToldApart(u, names)
BY DEF ToldApart, SameSelves

(* The player's id gone, or entities gone, leave the rest apart.           *)
LEMMA FewerApart ==
  ASSUME NEW s, NEW u, NEW names, ToldApart(s, names), u.player_name = s.player_name,
         u.player_id \subseteq s.player_id, u.entities \subseteq s.entities
  PROVE  ToldApart(u, names)
BY DEF ToldApart

LEMMA NobodyApart ==
  ASSUME NEW u, u.player_id = {}, u.entities = {}, NEW names
  PROVE  ToldApart(u, names)
BY DEF ToldApart

(* An id that is announced keeps the name it has, if it has one.           *)
LEMMA AnnouncedApart ==
  ASSUME NEW s, Sound(s), NEW names \in [Ids -> SUBSET Characters], ToldApart(s, names),
         NEW id \in Ids, NEW name \in Characters, names[id] \subseteq {name}
  PROVE  /\ [names EXCEPT ![id] = {name}] \in [Ids -> SUBSET Characters]
         /\ ToldApart(s, [names EXCEPT ![id] = {name}])
<1>1. ASSUME NEW other \in Ids, NEW n, names[other] = {n}
      PROVE  [names EXCEPT ![id] = {name}][other] = {n}
  BY <1>1
<1>2. s.entities \subseteq Ids /\ s.player_id \subseteq Ids
  BY DEF Sound, IsSession
<1> QED BY <1>1, <1>2 DEF ToldApart

LEMMA Delivered ==
  ASSUME NEW u, Sound(u), Deliver(u)
  PROVE  Sound(session') /\ SameSelves(u, session')
BY EmptiedSound DEF Deliver

(* The player's own record and another's, after its name is on the wire.   *)
LEMMA SpawnAddedApart ==
  ASSUME NEW s, Sound(s), NEW names, ToldApart(s, names),
         NEW id \in Ids, NEW name \in Characters, names[id] = {name},
         NEW form \in Forms, NEW opcode
  PROVE  ToldApart(OnSpawnAdded(s, id, name, form, opcode), names)
<1> DEFINE u == OnSpawnAdded(s, id, name, form, opcode)
<1>1. /\ u.player_name = s.player_name
      /\ IF name = s.player_name
         THEN u.entities = s.entities /\ u.player_id \in {s.player_id, {id}}
         ELSE u.entities = s.entities \cup {id} /\ u.player_id = s.player_id
  BY SpawnAddedSound
<1> HIDE DEF u
<1>2. ToldApart(u, names)
  <2>1. CASE name = s.player_name
    BY <1>1, <2>1 DEF ToldApart
  <2>2. CASE name # s.player_name
    BY <1>1, <2>2 DEF ToldApart
  <2> QED BY <2>1, <2>2
<1> QED BY <1>2 DEF u

-----------------------------------------------------------------------------
(* Packets                                                                 *)

LEMMA BoundaryInv ==
  ASSUME Inv, NEW u, Sound(u), u.player_id = {}, u.entities = {}, Deliver(u),
         wire' \in [Ids -> SUBSET Characters]
  PROVE  Inv'
BY Delivered, NobodyApart DEF Inv, SameSelves

(* A packet after which the player and the entities are the same, or fewer. *)
LEMMA QuietInv ==
  ASSUME Inv, NEW u, Sound(u), u.player_name = session.player_name,
         u.player_id \subseteq session.player_id, u.entities \subseteq session.entities,
         Deliver(u), UNCHANGED wire
  PROVE  Inv'
<1>1. Sound(session') /\ SameSelves(u, session')
  BY Delivered
<1>2. ToldApart(u, wire)
  BY FewerApart DEF Inv
<1>3. ToldApart(session', wire)
  BY <1>1, <1>2, SameApart
<1> QED BY <1>1, <1>3 DEF Inv

LEMMA RecordsInv ==
  ASSUME Inv, NEW id \in Ids, NEW name \in Characters, NEW form \in Forms,
         ZoneEntry(id, name, form) \/ LoadoutSwap(id, name, form)
  PROVE  Inv'
<1> DEFINE u == OnSpawnAdded(session, id, name, form, "OP_ZoneEntry")
           v == OnSpawnAdded(session, id, name, form, "OP_LoadoutSwap")
<1>1. wire' = [wire EXCEPT ![id] = {name}] /\ wire[id] \subseteq {name}
  BY DEF ZoneEntry, LoadoutSwap, Announce
<1>2. wire' \in [Ids -> SUBSET Characters] /\ ToldApart(session, wire') /\ wire'[id] = {name}
  BY <1>1, AnnouncedApart DEF Inv
<1>3. /\ Sound(u) /\ ToldApart(u, wire')
      /\ Sound(v) /\ ToldApart(v, wire')
  BY <1>2, SpawnAddedSound, SpawnAddedApart DEF Inv
<1>4. CASE ZoneEntry(id, name, form)
  <2>1. Deliver(u)
    BY <1>4 DEF ZoneEntry, Record
  <2> HIDE DEF u
  <2> QED BY <1>2, <1>3, <2>1, Delivered, SameApart DEF Inv
<1>5. CASE LoadoutSwap(id, name, form)
  <2> DEFINE w == OnLoadoutSwap(v, id, form)
  <2>1. Deliver(w)
    BY <1>5 DEF LoadoutSwap, Record
  <2> HIDE DEF v
  <2>2. Sound(w) /\ SameSelves(v, w)
    BY <1>3, SwapSound
  <2> HIDE DEF w
  <2>3. ToldApart(w, wire')
    BY <1>3, <2>2, SameApart
  <2> QED BY <1>2, <2>1, <2>2, <2>3, Delivered, SameApart DEF Inv
<1> QED BY <1>4, <1>5

LEMMA SelfPositionInv ==
  ASSUME Inv, NEW id \in Ids0, SelfPosition(id)
  PROVE  Inv'
<1> DEFINE u == OnSelfPos(session, id)
<1>1. /\ Sound(u) /\ u.player_name = session.player_name
      /\ u.entities = session.entities /\ u.player_id \in {session.player_id, {id} \ {0}}
  BY SelfPosSound DEF Inv
<1>2. Deliver(u)
  BY DEF SelfPosition, Record
<1> HIDE DEF u
<1>3. wire' \in [Ids -> SUBSET Characters] /\ ToldApart(u, wire')
  <2>1. CASE session.player_name = "" \/ id = 0
    <3>1. wire' = wire
      BY <2>1 DEF SelfPosition
    <3> QED BY <1>1, <2>1, <3>1 DEF Inv, ToldApart
  <2>2. CASE ~(session.player_name = "" \/ id = 0)
    <3>1. session.player_name \in Characters /\ id \in Ids
      BY <2>2 DEF Inv, Sound, IsSession, Names, Ids0
    <3>2. /\ wire' = [wire EXCEPT ![id] = {session.player_name}]
          /\ wire[id] \subseteq {session.player_name}
      BY <2>2 DEF SelfPosition, Announce
    <3>3. /\ wire' \in [Ids -> SUBSET Characters] /\ ToldApart(session, wire')
          /\ wire'[id] = {session.player_name}
      BY <3>1, <3>2, AnnouncedApart DEF Inv
    <3> QED BY <1>1, <3>3 DEF ToldApart
  <2> QED BY <2>1, <2>2
<1> QED BY <1>1, <1>2, <1>3, Delivered, SameApart DEF Inv

LEMMA InitInv == Init => Inv
<1> SUFFICES ASSUME Init PROVE Inv
  OBVIOUS
<1>1. PICK b \in Backends : session = NewSession(b)
  BY DEF Init
<1>2. Sound(session) /\ session.player_id = {} /\ session.entities = {}
  BY <1>1, DefaultTracker DEF NewSession, Sound, IsSession, Agrees, Names
<1> QED BY <1>2, NobodyApart DEF Init, Inv

LEMMA NextInv == Inv /\ [Next]_vars => Inv'
<1> SUFFICES ASSUME Inv, [Next]_vars PROVE Inv'
  OBVIOUS
<1>s. Sound(session) /\ wire \in [Ids -> SUBSET Characters]
  BY DEF Inv
<1>w. NewWorld => wire' \in [Ids -> SUBSET Characters]
  BY DEF NewWorld
<1>1. ASSUME NEW name \in Characters, EnterWorld(name) PROVE Inv'
  BY <1>1, <1>s, <1>w, EnterWorldSound, BoundaryInv DEF EnterWorld
<1>2. ASSUME NEW name \in Characters, NEW form \in Forms, PlayerProfile(name, form) PROVE Inv'
  BY <1>2, <1>s, <1>w, ProfileSound, BoundaryInv DEF PlayerProfile
<1>3. CASE ZoneTransition
  BY <1>3, <1>s, <1>w, ResetForSound, BoundaryInv DEF ZoneTransition
<1>4. CASE FlushReset
  BY <1>4, <1>s, ResetForSound, BoundaryInv DEF FlushReset
<1>5. CASE FlushEnd
  BY <1>5, <1>s, ResetSound, NobodyApart DEF FlushEnd, Inv
<1>6. ASSUME NEW id \in Ids, NEW name \in Characters, NEW form \in Forms,
             ZoneEntry(id, name, form) \/ LoadoutSwap(id, name, form)
      PROVE  Inv'
  BY <1>6, RecordsInv
<1>7. ASSUME NEW id \in Ids, DeleteSpawn(id) PROVE Inv'
  <2>1. Deliver(OnSpawnRemoved(session, id)) /\ UNCHANGED wire
    BY <1>7 DEF DeleteSpawn, Record
  <2> QED BY <1>s, <2>1, RemovedSound, QuietInv
<1>8. ASSUME NEW id \in Ids, Death(id) PROVE Inv'
  <2>1. Deliver(OnSpawnKilled(session, id)) /\ UNCHANGED wire
    BY <1>8 DEF Death, Record
  <2> QED BY <1>s, <2>1, KilledSound, QuietInv
<1>9. ASSUME NEW id \in Ids, NEW form \in Forms, Illusion(id, form) PROVE Inv'
  <2>1. Deliver(OnSpawnIllusion(session, id, form)) /\ UNCHANGED wire
    BY <1>9 DEF Illusion, Record
  <2> QED BY <1>s, <2>1, ShownSound, QuietInv DEF SameSelves
<1>10. ASSUME NEW form \in Forms, LevelUpdate(form) PROVE Inv'
  <2>1. Deliver(OnLevelUpdate(session, form)) /\ UNCHANGED wire
    BY <1>10 DEF LevelUpdate, Record
  <2> QED BY <1>s, <2>1, ShownSound, QuietInv DEF SameSelves
<1>11. ASSUME NEW id \in Ids0, SelfPosition(id) PROVE Inv'
  BY <1>11, SelfPositionInv
<1>12. ASSUME NEW id \in Ids, NEW wide \in BOOLEAN, NEW has \in StatSets, Stat(id, wide, has)
       PROVE  Inv'
  <2> DEFINE p == [spawn_id |-> id, wide |-> wide, has |-> has, value |-> seen']
  <2>1. Deliver(OnStatSync(session, p)) /\ UNCHANGED wire
    BY <1>12 DEF Stat, Record
  <2> HIDE DEF p
  <2> QED BY <1>s, <2>1, StatSound, QuietInv DEF SameSelves
<1>13. CASE TakeSelfStats
  BY <1>13, <1>s, EmptiedSound, SameApart DEF TakeSelfStats, Inv
<1>14. CASE UNCHANGED vars
  BY <1>14 DEF vars, Inv
<1> QED
  BY <1>1, <1>2, <1>3, <1>4, <1>5, <1>6, <1>7, <1>8, <1>9, <1>10, <1>11, <1>12, <1>13, <1>14
  DEF Next

(* What is known of the session at all times: its types, its copies of who *)
(* the player is, and who is listed under which name.                      *)
THEOREM InvCorrect == Spec => []Inv
BY InitInv, NextInv, PTL DEF Spec

-----------------------------------------------------------------------------
(* What a host makes of the events of a packet                             *)

(* A set with zero, and with the successor of each number in it, has them  *)
(* all: a least number missing would have a predecessor.                   *)
LEMMA Induction ==
  ASSUME NEW S, 0 \in S, \A n \in Nat : n \in S => n + 1 \in S
  PROVE  Nat \subseteq S
<1> DEFINE Less == {p \in Nat \X Nat : p[1] < p[2]}
           Missing == Nat \ S
<1>1. IsWellFoundedOn(Less, Nat)
  BY NatLessThanWellFounded DEF OpToRel
<1>2. SUFFICES ASSUME Missing # {} PROVE FALSE
  OBVIOUS
<1>3. PICK n \in Missing : \A m \in Missing : ~(<<m, n>> \in Less)
  <2> HIDE DEF Less
  <2> QED BY <1>1, <1>2, WFMin
<1>4. n \in Nat /\ n # 0 /\ n - 1 \in Nat /\ (n - 1) + 1 = n
  OBVIOUS
<1>5. <<n - 1, n>> \in Less
  BY <1>4
<1>6. n - 1 \in S
  <2> HIDE DEF Less
  <2> QED BY <1>3, <1>4, <1>5
<1> QED BY <1>3, <1>4, <1>6

(* The states of a host along the first L events.                          *)
HostRun(f, h, events, L) ==
  f[0] = h /\ \A n \in 1 .. L : f[n] = HostApply(f[n - 1], events[n])

LEMMA RunExists ==
  ASSUME NEW h, NEW events, NEW L \in Nat
  PROVE  \E f : f = [n \in 0 .. L |-> f[n]] /\ HostRun(f, h, events, L)
<1> DEFINE S == {n \in Nat : \E f : f = [k \in 0 .. n |-> f[k]] /\ HostRun(f, h, events, n)}
<1>1. 0 \in S
  <2> DEFINE f == [k \in 0 .. 0 |-> h]
  <2>1. f = [k \in 0 .. 0 |-> f[k]] /\ HostRun(f, h, events, 0)
    BY DEF HostRun
  <2> QED BY <2>1
<1>2. ASSUME NEW n \in Nat, n \in S PROVE n + 1 \in S
  <2>1. PICK f : f = [k \in 0 .. n |-> f[k]] /\ HostRun(f, h, events, n)
    BY <1>2
  <2> DEFINE g == [k \in 0 .. n + 1 |-> IF k = n + 1 THEN HostApply(f[n], events[n + 1])
                                        ELSE f[k]]
  <2>2. g[n + 1] = HostApply(f[n], events[n + 1]) /\ \A k \in 0 .. n : g[k] = f[k]
    OBVIOUS
  <2>3. g = [k \in 0 .. n + 1 |-> g[k]]
    OBVIOUS
  <2> HIDE DEF g
  <2>4. ASSUME NEW k \in 1 .. n + 1 PROVE g[k] = HostApply(g[k - 1], events[k])
    <3>1. CASE k = n + 1
      <4>1. k - 1 = n /\ n \in 0 .. n
        BY <3>1
      <4> QED BY <2>2, <3>1, <4>1
    <3>2. CASE k # n + 1
      <4>1. k \in 1 .. n /\ k \in 0 .. n /\ k - 1 \in 0 .. n
        BY <3>2
      <4> QED BY <2>1, <2>2, <4>1 DEF HostRun
    <3> QED BY <3>1, <3>2
  <2>5. g[0] = h
    BY <2>1, <2>2 DEF HostRun
  <2>6. HostRun(g, h, events, n + 1)
    BY <2>4, <2>5 DEF HostRun
  <2> QED BY <2>3, <2>6
<1>3. L \in S
  <2> HIDE DEF S
  <2> QED BY <1>1, <1>2, Induction
<1> QED BY <1>3

LEMMA HostAfterRun ==
  ASSUME NEW h, NEW events, Len(events) \in Nat
  PROVE  \E f : HostRun(f, h, events, Len(events)) /\ HostAfter(h, events) = f[Len(events)]
<1> DEFINE L == Len(events)
           after == CHOOSE f : f = [n \in 0 .. L |->
                      IF n = 0 THEN h ELSE HostApply(f[n - 1], events[n])]
<1>1. PICK f : f = [n \in 0 .. L |-> f[n]] /\ HostRun(f, h, events, L)
  BY RunExists
<1>2. HostAfter(h, events) = after[L]
  BY DEF HostAfter
<1>3. \A n \in 0 .. L : n = 0 \/ n \in 1 .. L
  OBVIOUS
<1>4. f = [n \in 0 .. L |-> IF n = 0 THEN h ELSE HostApply(f[n - 1], events[n])]
  BY <1>1, <1>3 DEF HostRun
<1>5. after = [n \in 0 .. L |-> IF n = 0 THEN h ELSE HostApply(after[n - 1], events[n])]
  BY <1>4
<1> HIDE DEF after
<1>6. HostRun(after, h, events, L)
  BY <1>5 DEF HostRun
<1> QED BY <1>2, <1>6

(* Along the same events two runs are the same.                            *)
LEMMA RunsAgree ==
  ASSUME NEW L \in Nat, NEW h, NEW x, NEW y, NEW f, NEW g,
         HostRun(f, h, x, L), HostRun(g, h, y, L), \A n \in 1 .. L : x[n] = y[n]
  PROVE  f[L] = g[L]
<1> DEFINE S == {n \in Nat : n <= L => f[n] = g[n]}
<1>1. 0 \in S
  BY DEF HostRun
<1>2. ASSUME NEW n \in Nat, n \in S PROVE n + 1 \in S
  <2> SUFFICES ASSUME n + 1 <= L PROVE f[n + 1] = g[n + 1]
    OBVIOUS
  <2>1. n + 1 \in 1 .. L /\ (n + 1) - 1 = n /\ n <= L
    OBVIOUS
  <2> QED BY <1>2, <2>1 DEF HostRun
<1>3. L \in S
  <2> HIDE DEF S
  <2> QED BY <1>1, <1>2, Induction
<1> QED BY <1>3

IsSequence(o) == \E E : o \in Seq(E)

LEMMA Appended ==
  ASSUME NEW o, IsSequence(o), NEW e
  PROVE  /\ IsSequence(o \o <<e>>) /\ Len(o) \in Nat /\ Len(o \o <<e>>) = Len(o) + 1
         /\ DOMAIN o = 1 .. Len(o) /\ DOMAIN (o \o <<e>>) = 1 .. Len(o) + 1
         /\ \A n \in 1 .. Len(o) : (o \o <<e>>)[n] = o[n]
         /\ (o \o <<e>>)[Len(o) + 1] = e
<1>1. PICK E : o \in Seq(E)
  BY DEF IsSequence
<1> DEFINE F == E \cup {e}
<1>2. o \in Seq(F) /\ <<e>> \in Seq(F)
  BY <1>1
<1> HIDE DEF F
<1>3. o \o <<e>> \in Seq(F)
  BY <1>2
<1> QED BY <1>2, <1>3 DEF IsSequence

LEMMA AfterNone == ASSUME NEW h PROVE HostAfter(h, <<>>) = h
<1>1. Len(<<>>) = 0
  OBVIOUS
<1>2. PICK f : HostRun(f, h, <<>>, 0) /\ HostAfter(h, <<>>) = f[0]
  BY <1>1, HostAfterRun
<1> QED BY <1>2 DEF HostRun

LEMMA AfterMore ==
  ASSUME NEW h, NEW o, IsSequence(o), NEW e
  PROVE  HostAfter(h, o \o <<e>>) = HostApply(HostAfter(h, o), e)
<1> DEFINE L == Len(o)
           x == o \o <<e>>
<1>1. L \in Nat /\ Len(x) = L + 1 /\ (\A n \in 1 .. L : x[n] = o[n]) /\ x[L + 1] = e
  BY Appended
<1>2. PICK f : HostRun(f, h, o, L) /\ HostAfter(h, o) = f[L]
  BY <1>1, HostAfterRun
<1> HIDE DEF x
<1>3. PICK g : HostRun(g, h, x, L + 1) /\ HostAfter(h, x) = g[L + 1]
  BY <1>1, HostAfterRun
<1> HIDE DEF L
<1>4. HostRun(g, h, x, L)
  <2>1. 1 .. L \subseteq 1 .. L + 1
    BY <1>1
  <2> QED BY <1>3, <2>1 DEF HostRun
<1>5. g[L] = f[L]
  BY <1>1, <1>2, <1>4, RunsAgree
<1>6. g[L + 1] = HostApply(g[L], e)
  <2>1. L + 1 \in 1 .. L + 1 /\ (L + 1) - 1 = L
    BY <1>1
  <2> QED BY <1>1, <1>3, <2>1 DEF HostRun
<1> QED BY <1>2, <1>3, <1>5, <1>6 DEF x

-----------------------------------------------------------------------------
(* A host follows the identity                                             *)

(* A host that was at h when the packet came has, after what s published   *)
(* so far, the identity of s.                                              *)
Follows(h, s) == IsSequence(s.out) /\ HostAfter(h, s.out) = s.identity

(* An identity is an Option: one at most.                                  *)
Single(s) == \A i, j \in s.identity : i = j

HostInv == session.out = <<>> /\ Single(session) /\ HostFollowsIdentity

LEMMA Between == ASSUME HostInv PROVE Follows(host, session) /\ Single(session)
<1>1. IsSequence(<<>>)
  <2>1. <<>> \in Seq({})
    OBVIOUS
  <2> QED BY <2>1 DEF IsSequence
<1> QED BY <1>1, AfterNone DEF HostInv, Follows, HostFollowsIdentity

LEMMA DeliveredHost ==
  ASSUME NEW u, Sound(u), Follows(host, u), Single(u), Deliver(u)
  PROVE  HostInv'
<1>1. session'.out = <<>> /\ session'.identity = u.identity
  BY DEF Deliver, Sound, IsSession
<1>2. host' = u.identity
  BY DEF Deliver, Follows
<1> QED BY <1>1, <1>2 DEF HostInv, Single, HostFollowsIdentity

(* One more event, which takes the host to the identity of v.              *)
LEMMA EmitFollows ==
  ASSUME NEW h, NEW v, Sound(v), IsSequence(v.out), NEW e,
         HostApply(HostAfter(h, v.out), e) = v.identity
  PROVE  Follows(h, Emit(v, <<e>>)) /\ Emit(v, <<e>>).identity = v.identity
<1>1. Emit(v, <<e>>).out = v.out \o <<e>> /\ Emit(v, <<e>>).identity = v.identity
  BY DEF Emit, Sound, IsSession
<1>2. IsSequence(v.out \o <<e>>)
  BY Appended
<1>3. HostAfter(h, v.out \o <<e>>) = v.identity
  BY AfterMore
<1> QED BY <1>1, <1>2, <1>3 DEF Follows

(* Events about anything but the player's identity.                        *)
Quiet(e) ==
  e.kind \in {"SpawnAdded", "SpawnRemoved", "SpawnDied", "SpawnIdentityUpdated",
              "SpawnIllusion", "SpawnHealthUpdated", "PlayerVitalsUpdated"}

LEMMA QuietFollows ==
  ASSUME NEW h, NEW v, Sound(v), Follows(h, v), Single(v), NEW e, Quiet(e)
  PROVE  Follows(h, Emit(v, <<e>>)) /\ Single(Emit(v, <<e>>))
<1>1. HostApply(HostAfter(h, v.out), e) = v.identity
  BY DEF Quiet, HostApply, Follows
<1> QED BY <1>1, EmitFollows DEF Follows, Single

LEMMA NothingFollows ==
  ASSUME NEW h, NEW v, Sound(v), Follows(h, v), Single(v)
  PROVE  Follows(h, Emit(v, <<>>)) /\ Single(Emit(v, <<>>))
<1>1. PICK E : v.out \in Seq(E)
  BY DEF Follows, IsSequence
<1>2. v.out \o <<>> = v.out
  BY <1>1
<1>3. Emit(v, <<>>).out = v.out \o <<>> /\ Emit(v, <<>>).identity = v.identity
  BY DEF Emit, Sound, IsSession
<1> QED BY <1>2, <1>3 DEF Follows, Single

LEMMA VitalsFollow ==
  ASSUME NEW h, NEW v, Sound(v), Follows(h, v), Single(v), NEW held
  PROVE  Follows(h, PublishVitals(v, held)) /\ Single(PublishVitals(v, held))
<1> DEFINE u == [v EXCEPT !.self_stats = @ \cup {held.value}]
           e == [kind |-> "PlayerVitalsUpdated", id |-> held.id, value |-> held.value]
<1>1. Sound(u) /\ Follows(h, u) /\ Single(u)
  BY EmptiedSound DEF Follows, Single, Sound, IsSession
<1>2. PublishVitals(v, held) \in {Emit(u, <<>>), Emit(u, <<e>>)}
  BY DEF PublishVitals, PlayerVitals
<1>3. Quiet(e)
  BY DEF Quiet
<1> HIDE DEF u, e
<1> QED BY <1>1, <1>2, <1>3, QuietFollows, NothingFollows

LEMMA PendingFollows ==
  ASSUME NEW h, NEW v, Sound(v), Follows(h, v), Single(v)
  PROVE  Follows(h, TakePendingPlayerVitals(v)) /\ Single(TakePendingPlayerVitals(v))
<1> DEFINE t == [v EXCEPT !.tracker = TakePending(v.tracker)]
<1>1. Sound(t)
  BY TrackerKeepsSelf, WithTracker DEF Sound, IsSession
<1>2. Follows(h, t) /\ Single(t)
  BY DEF Follows, Single, Sound, IsSession
<1>3. \/ TakePendingPlayerVitals(v) = t
      \/ \E held : TakePendingPlayerVitals(v) = PublishVitals(t, held)
  BY DEF TakePendingPlayerVitals
<1> HIDE DEF t
<1> QED BY <1>1, <1>2, <1>3, VitalsFollow

LEMMA ResetFollows ==
  ASSUME NEW h, NEW s, Sound(s), Follows(h, s), Single(s)
  PROVE  Follows(h, ResetFor(s)) /\ Single(ResetFor(s))
<1> DEFINE v == ResetCorrelations(s)
           e == Ev("SessionReset")
<1>1. Sound(v)
  BY ResetSound
<1>2. v.out = s.out /\ v.identity = WithSpawnId(s.identity, {})
  BY DEF ResetCorrelations, Sound, IsSession
<1>3. HostApply(HostAfter(h, v.out), e) = v.identity
  BY <1>2 DEF HostApply, Ev, Follows
<1>4. Single(v)
  BY <1>2 DEF Single, WithSpawnId
<1>5. ResetFor(s) = Emit(v, <<e>>)
  BY DEF ResetFor
<1> HIDE DEF v, e
<1> QED BY <1>1, <1>2, <1>3, <1>4, <1>5, EmitFollows DEF Follows, Single

LEMMA EnterWorldFollows ==
  ASSUME NEW h, NEW s, Sound(s), Follows(h, s), Single(s), NEW name \in Characters
  PROVE  Follows(h, OnEnterWorld(s, name)) /\ Single(OnEnterWorld(s, name))
<1> DEFINE r == ResetFor(s)
           kept == IF s.player_name # name THEN {} ELSE r.identity
           v == [r EXCEPT !.identity = kept, !.player_name = name]
           e == [kind |-> "EnterWorld", name |-> name]
<1>1. /\ Sound(r) /\ r.player_id = {} /\ r.player_name = s.player_name
      /\ Follows(h, r) /\ Single(r)
  BY ResetForSound, ResetFollows
<1>2. OnEnterWorld(s, name) = Emit(v, <<e>>)
  BY <1>1 DEF OnEnterWorld, Sound, IsSession
<1> HIDE DEF r
<1>3. Sound(v) /\ v.out = r.out /\ v.identity = kept
  BY <1>1 DEF Sound, IsSession, Agrees, Names
<1>4. {i \in r.identity : i.name = name} = kept
  BY <1>1 DEF Sound, Agrees
<1>5. HostApply(HostAfter(h, v.out), e) = v.identity
  BY <1>1, <1>3, <1>4 DEF HostApply, Follows
<1> HIDE DEF v, e
<1>6. Single(v)
  BY <1>1, <1>3 DEF Single
<1> QED BY <1>1, <1>2, <1>3, <1>5, <1>6, EmitFollows DEF Follows, Single

LEMMA ProfileFollows ==
  ASSUME NEW h, NEW s, Sound(s), Follows(h, s), Single(s),
         NEW name \in Characters, NEW form \in Forms
  PROVE  Follows(h, OnProfile(s, name, form)) /\ Single(OnProfile(s, name, form))
<1> DEFINE r  == ResetFor(s)
           me == [spawn_id |-> {}, name |-> name, form |-> form]
           v  == [r EXCEPT !.player_name = name, !.identity = {me}]
           e  == [kind |-> "PlayerIdentityUpdated", identity |-> me]
<1>1. Sound(r) /\ r.player_id = {} /\ Follows(h, r)
  BY ResetForSound, ResetFollows
<1>2. OnProfile(s, name, form) = Emit(v, <<e>>)
  BY DEF OnProfile
<1> HIDE DEF r
<1>3. /\ me \in Identity /\ me.spawn_id = {} /\ me.name = name /\ name \in Names
      /\ e.kind = "PlayerIdentityUpdated" /\ e.identity = me
  BY DEF Identity, Names
<1> HIDE DEF me, e
<1>4. Sound(v) /\ v.out = r.out /\ v.identity = {me}
  BY <1>1, <1>3 DEF Sound, IsSession, Agrees
<1>5. HostApply(HostAfter(h, v.out), e) = v.identity
  BY <1>3, <1>4 DEF HostApply
<1> HIDE DEF v
<1>6. Single(v)
  BY <1>4 DEF Single
<1>7. IsSequence(v.out)
  BY <1>1, <1>4 DEF Follows
<1>8. Follows(h, Emit(v, <<e>>)) /\ Emit(v, <<e>>).identity = v.identity
  BY <1>4, <1>5, <1>7, EmitFollows
<1> QED BY <1>2, <1>6, <1>8 DEF Single

LEMMA RemovedFollows ==
  ASSUME NEW h, NEW s, Sound(s), Follows(h, s), Single(s), NEW id
  PROVE  Follows(h, OnSpawnRemoved(s, id)) /\ Single(OnSpawnRemoved(s, id))
<1> DEFINE v == [s EXCEPT !.entities = @ \ {id}]
           e == [kind |-> "SpawnRemoved", id |-> id]
<1>1. Sound(v) /\ Follows(h, v) /\ Single(v)
  BY DEF Sound, IsSession, Agrees, Follows, Single
<1>2. OnSpawnRemoved(s, id) = Emit(v, <<e>>)
  BY DEF OnSpawnRemoved
<1>3. Quiet(e)
  BY DEF Quiet
<1> HIDE DEF v, e
<1> QED BY <1>1, <1>2, <1>3, QuietFollows

LEMMA KilledFollows ==
  ASSUME NEW h, NEW s, Sound(s), Follows(h, s), Single(s), NEW id
  PROVE  Follows(h, OnSpawnKilled(s, id)) /\ Single(OnSpawnKilled(s, id))
<1>1. CASE IsPlayerId(s, id)
  <2> DEFINE v == ClearPlayerId(s)
             e == Ev("PlayerDied")
  <2>1. OnSpawnKilled(s, id) = Emit(v, <<e>>)
    BY <1>1 DEF OnSpawnKilled
  <2>2. v.out = s.out /\ v.identity = WithSpawnId(s.identity, {})
    BY DEF ClearPlayerId, Sound, IsSession
  <2>3. Sound(v)
    <3> DEFINE identity == WithSpawnId(s.identity, {})
    <3>1. \A i \in identity : i \in Identity /\ i.spawn_id = {} /\ i.name = s.player_name
      BY DEF Sound, IsSession, Agrees, WithSpawnId, Identity
    <3>2. v = [s EXCEPT !.player_id = {}, !.identity = identity, !.tracker = Default]
      BY DEF ClearPlayerId
    <3> HIDE DEF identity, v
    <3> QED BY <3>1, <3>2, DefaultTracker DEF Sound, IsSession, Agrees
  <2>4. HostApply(HostAfter(h, v.out), e) = v.identity
    BY <2>2 DEF HostApply, Ev, Follows
  <2>5. Single(v)
    BY <2>2 DEF Single, WithSpawnId
  <2> HIDE DEF v, e
  <2> QED BY <2>1, <2>2, <2>3, <2>4, <2>5, EmitFollows DEF Follows, Single
<1>2. CASE ~IsPlayerId(s, id)
  <2> DEFINE e == [kind |-> "SpawnDied", id |-> id]
  <2>1. OnSpawnKilled(s, id) = Emit(s, <<e>>)
    BY <1>2 DEF OnSpawnKilled
  <2>2. Quiet(e)
    BY DEF Quiet
  <2> HIDE DEF e
  <2> QED BY <2>1, <2>2, QuietFollows
<1> QED BY <1>1, <1>2

(* The player's swap announces the identity whole, whatever the host had.  *)
LEMMA SwapFollows ==
  ASSUME NEW h, NEW s, Sound(s), IsSequence(s.out), NEW id, NEW form \in Forms,
         IsPlayerId(s, id) \/ (Follows(h, s) /\ Single(s))
  PROVE  Follows(h, OnLoadoutSwap(s, id, form)) /\ Single(OnLoadoutSwap(s, id, form))
<1>1. CASE IsPlayerId(s, id)
  <2> DEFINE old == IF s.identity = {}
                    THEN [spawn_id |-> {}, name |-> s.player_name, form |-> form]
                    ELSE CHOOSE i \in s.identity : TRUE
             me  == [old EXCEPT !.spawn_id = s.player_id, !.form = form]
             v   == [s EXCEPT !.identity = {me}]
             e   == [kind |-> "PlayerIdentityUpdated", identity |-> me]
  <2>1. OnLoadoutSwap(s, id, form) = Emit(v, <<e>>)
    BY <1>1 DEF OnLoadoutSwap
  <2>2. old \in Identity /\ old.name = s.player_name
    BY DEF Sound, IsSession, Agrees, Identity
  <2> HIDE DEF old
  <2>3. me \in Identity /\ me.spawn_id = s.player_id /\ me.name = s.player_name
    BY <2>2 DEF Sound, IsSession, Identity, Ids0
  <2> HIDE DEF me
  <2>4. Sound(v)
    BY <2>3, WithIdentity
  <2>5. v.out = s.out /\ v.identity = {me}
    BY DEF Sound, IsSession
  <2>6. HostApply(HostAfter(h, v.out), e) = v.identity
    BY <2>5 DEF HostApply
  <2>7. Single(v)
    BY <2>5 DEF Single
  <2> HIDE DEF v, e
  <2> QED BY <2>1, <2>4, <2>5, <2>6, <2>7, EmitFollows DEF Follows, Single
<1>2. CASE ~IsPlayerId(s, id)
  <2> DEFINE e == [kind |-> "SpawnIdentityUpdated", id |-> id]
  <2>1. OnLoadoutSwap(s, id, form) = Emit(s, <<e>>)
    BY <1>2 DEF OnLoadoutSwap
  <2>2. Quiet(e)
    BY DEF Quiet
  <2> HIDE DEF e
  <2> QED BY <1>2, <2>1, <2>2, QuietFollows
<1> QED BY <1>1, <1>2

LEMMA IllusionFollows ==
  ASSUME NEW h, NEW s, Sound(s), Follows(h, s), Single(s), NEW id, NEW form \in Forms
  PROVE  Follows(h, OnSpawnIllusion(s, id, form)) /\ Single(OnSpawnIllusion(s, id, form))
<1>1. CASE IsPlayerId(s, id)
  <2> DEFINE identity == {[i EXCEPT !.form = form] : i \in s.identity}
             v == [s EXCEPT !.identity = identity]
             e == [kind |-> "PlayerAppearanceUpdated", form |-> form]
  <2>1. OnSpawnIllusion(s, id, form) = Emit(v, <<e>>)
    BY <1>1 DEF OnSpawnIllusion, Sound, IsSession
  <2>2. v.out = s.out /\ v.identity = identity
    BY DEF Sound, IsSession
  <2>3. Sound(v)
    BY FormSound
  <2>4. HostApply(HostAfter(h, v.out), e) = v.identity
    BY <2>2 DEF HostApply, Follows
  <2>5. Single(v)
    BY <2>2 DEF Single
  <2> HIDE DEF v, e, identity
  <2> QED BY <2>1, <2>2, <2>3, <2>4, <2>5, EmitFollows DEF Follows, Single
<1>2. CASE ~IsPlayerId(s, id)
  <2> DEFINE e == [kind |-> "SpawnIllusion", id |-> id]
  <2>1. OnSpawnIllusion(s, id, form) = Emit(s, <<e>>)
    BY <1>2 DEF OnSpawnIllusion
  <2>2. Quiet(e)
    BY DEF Quiet
  <2> HIDE DEF e
  <2> QED BY <2>1, <2>2, QuietFollows
<1> QED BY <1>1, <1>2

LEMMA LevelFollows ==
  ASSUME NEW h, NEW s, Sound(s), Follows(h, s), Single(s), NEW form \in Forms
  PROVE  Follows(h, OnLevelUpdate(s, form)) /\ Single(OnLevelUpdate(s, form))
<1> DEFINE levelled == {[i EXCEPT !.form = form] : i \in s.identity}
           v == [s EXCEPT !.identity = levelled]
           me == CHOOSE i \in levelled : TRUE
           e == [kind |-> "PlayerIdentityUpdated", identity |-> me]
<1>1. CASE levelled = s.identity
  BY <1>1 DEF OnLevelUpdate
<1>2. CASE levelled # s.identity
  <2>1. OnLevelUpdate(s, form) = Emit(v, <<e>>)
    BY <1>2 DEF OnLevelUpdate
  <2>2. v.out = s.out /\ v.identity = levelled
    BY DEF Sound, IsSession
  <2>3. Sound(v)
    BY FormSound
  <2>4. \A i, j \in levelled : i = j
    BY DEF Single
  <2>5. levelled # {}
    BY <1>2
  <2> HIDE DEF levelled
  <2>6. levelled = {me}
    BY <2>4, <2>5
  <2>7. e.kind = "PlayerIdentityUpdated" /\ e.identity = me
    OBVIOUS
  <2> HIDE DEF me, e
  <2>8. HostApply(HostAfter(h, v.out), e) = v.identity
    BY <2>2, <2>6, <2>7 DEF HostApply
  <2>9. Single(v)
    BY <2>2, <2>4 DEF Single
  <2> HIDE DEF v
  <2> QED BY <2>1, <2>2, <2>3, <2>8, <2>9, EmitFollows DEF Follows, Single
<1> QED BY <1>1, <1>2

LEMMA StatFollows ==
  ASSUME NEW h, NEW s, Sound(s), Follows(h, s), Single(s), NEW p
  PROVE  Follows(h, OnStatSync(s, p)) /\ Single(OnStatSync(s, p))
<1> DEFINE t == [s EXCEPT !.tracker = ObserveStatSync(s.tracker, p)]
           e == [kind |-> "SpawnHealthUpdated", id |-> p.spawn_id, value |-> p.value]
<1>1. Sound(t)
  BY TrackerKeepsSelf, WithTracker DEF Sound, IsSession
<1>2. Follows(h, t) /\ Single(t)
  BY DEF Follows, Single, Sound, IsSession
<1>3. \/ OnStatSync(s, p) = t
      \/ OnStatSync(s, p) = Emit(t, <<e>>)
      \/ \E held : OnStatSync(s, p) = PublishVitals(t, held)
  BY DEF OnStatSync
<1>4. Quiet(e)
  BY DEF Quiet
<1> HIDE DEF t, e
<1> QED BY <1>1, <1>2, <1>3, <1>4, VitalsFollow, QuietFollows

LEMMA StillSequence ==
  ASSUME NEW o, IsSequence(o)
  PROVE  o \o <<>> = o /\ \A a, b : o \o (<<a>> \o <<b>>) = (o \o <<a>>) \o <<b>>
<1>1. PICK E : o \in Seq(E)
  BY DEF IsSequence
<1>2. ASSUME NEW a, NEW b PROVE o \o (<<a>> \o <<b>>) = (o \o <<a>>) \o <<b>>
  <2> DEFINE F == E \cup {a, b}
  <2>1. o \in Seq(F) /\ <<a>> \in Seq(F) /\ <<b>> \in Seq(F)
    BY <1>1
  <2> HIDE DEF F
  <2> QED BY <2>1, ConcatAssociative
<1> QED BY <1>1, <1>2

(* What the drain of held vitals publishes, if anything.                   *)
VitalsEvent(held) ==
  [kind |-> "PlayerVitalsUpdated", id |-> held.id, value |-> held.value]

LEMMA PendingOut ==
  ASSUME NEW v, Sound(v), IsSequence(v.out)
  PROVE  LET u == TakePendingPlayerVitals(v)
         IN  /\ u.tracker = TakePending(v.tracker)
             /\ \/ u.out = v.out
                \/ \E held \in PendingVitals(v.tracker) :
                     u.out = v.out \o <<VitalsEvent(held)>>
<1> DEFINE t == [v EXCEPT !.tracker = TakePending(v.tracker)]
           u == TakePendingPlayerVitals(v)
<1>1. Sound(t)
  BY TrackerKeepsSelf, WithTracker DEF Sound, IsSession
<1>2. t.out = v.out /\ t.tracker = TakePending(v.tracker)
  BY DEF Sound, IsSession
<1>3. \/ u = t
      \/ \E held \in PendingVitals(v.tracker) : u = PublishVitals(t, held)
  BY DEF TakePendingPlayerVitals
<1> HIDE DEF t, u
<1>4. ASSUME NEW held
      PROVE  /\ PublishVitals(t, held).tracker = t.tracker
             /\ PublishVitals(t, held).out \in {t.out, t.out \o <<VitalsEvent(held)>>}
  <2> DEFINE w == [t EXCEPT !.self_stats = @ \cup {held.value}]
  <2>1. Sound(w) /\ w.out = t.out /\ w.tracker = t.tracker
    BY <1>1, EmptiedSound DEF Sound, IsSession
  <2>2. PublishVitals(t, held) \in {Emit(w, <<>>), Emit(w, <<VitalsEvent(held)>>)}
    BY DEF PublishVitals, PlayerVitals, VitalsEvent
  <2> HIDE DEF w
  <2>3. \A events : Emit(w, events).tracker = w.tracker
                    /\ Emit(w, events).out = w.out \o events
    BY <2>1 DEF Emit, Sound, IsSession
  <2>4. t.out \o <<>> = t.out
    BY <1>2, StillSequence
  <2> QED BY <2>1, <2>2, <2>3, <2>4
<1>5. /\ u.tracker = TakePending(v.tracker)
      /\ u.out = v.out \/ \E held \in PendingVitals(v.tracker) : u.out = v.out \o <<VitalsEvent(held)>>
  BY <1>2, <1>3, <1>4
<1> QED BY <1>5 DEF u

(* The events that announce an adoption.                                   *)
IdentityEvent(id, name, form) ==
  [kind |-> "PlayerIdentityUpdated", identity |-> Me(id, name, form)]
MovedEvent(id) == [kind |-> "PlayerMoved", spawn_id |-> {id}]

Announced(id, name, form, opcode) ==
  (IF opcode = "OP_LoadoutSwap" THEN <<>> ELSE <<IdentityEvent(id, name, form)>>)
    \o <<MovedEvent(id)>>

(* A record: the host follows, unless it adopts the player in a swap, of   *)
(* which the swap's own event is still to tell.                            *)
LEMMA SpawnAddedFollows ==
  ASSUME NEW h, NEW s, Sound(s), Follows(h, s), Single(s),
         NEW id \in Ids, NEW name \in Characters, NEW form \in Forms, NEW opcode
  PROVE  LET u == OnSpawnAdded(s, id, name, form, opcode)
         IN  /\ IsSequence(u.out)
             /\ \/ Follows(h, u) /\ Single(u)
                \/ opcode = "OP_LoadoutSwap" /\ IsPlayerId(u, id)
<1> DEFINE u       == OnSpawnAdded(s, id, name, form, opcode)
           routing == ClassifySpawn(s, name, id)
           t       == ObserveSpawnIn(s, name, id)
<1>1. /\ routing \in {"AdoptSelf", "SelfTwin", "NotSelf"}
      /\ routing # "AdoptSelf" => Sound(t) /\ Follows(h, t) /\ Single(t)
  BY SpawnRouted DEF Follows, Single
<1>2. CASE routing = "NotSelf"
  <2> DEFINE v == [t EXCEPT !.entities = @ \cup {id}]
             e == [kind |-> "SpawnAdded", id |-> id]
  <2>1. Sound(v) /\ Follows(h, v) /\ Single(v)
    BY <1>1, <1>2 DEF Sound, IsSession, Agrees, Follows, Single
  <2>2. u = Emit(v, <<e>>)
    BY <1>2 DEF OnSpawnAdded
  <2>3. Quiet(e)
    BY DEF Quiet
  <2> HIDE DEF v, e, u, t
  <2>4. Follows(h, u) /\ Single(u)
    BY <2>1, <2>2, <2>3, QuietFollows
  <2> QED BY <2>4 DEF u, Follows
<1>3. CASE routing = "SelfTwin"
  <2>1. u = TakePendingPlayerVitals(t)
    BY <1>3 DEF OnSpawnAdded
  <2> HIDE DEF u, t, routing
  <2>2. Follows(h, u) /\ Single(u)
    BY <1>1, <1>3, <2>1, PendingFollows
  <2> QED BY <2>2 DEF u, Follows
<1>4. CASE routing = "AdoptSelf"
  <2> DEFINE v      == Adopted(s, id, name, form)
             events == Announced(id, name, form, opcode)
             w      == Emit(v, events)
             first  == IdentityEvent(id, name, form)
             moved  == MovedEvent(id)
  <2>1. /\ Sound(v) /\ v.player_id = {id} /\ v.out = s.out
        /\ v.identity = {Me(id, name, form)}
    BY <1>4, AdoptedSound
  <2>2. u = TakePendingPlayerVitals(w)
    BY <1>4 DEF OnSpawnAdded, AdoptPlayer, Adopted, Announced, Me, IdentityEvent, MovedEvent
  <2> HIDE DEF u, t, routing, v
  <2>3. Sound(w) /\ w.player_id = {id} /\ w.out = v.out \o events /\ w.identity = v.identity
    <3>1. Sound(w) /\ SameSelves(v, w)
      BY <2>1, EmitSound
    <3>2. w.out = v.out \o events /\ w.identity = v.identity
      BY <2>1 DEF Emit, Sound, IsSession
    <3> QED BY <2>1, <3>1, <3>2 DEF SameSelves
  <2> HIDE DEF w, events
  <2>4. IsSequence(v.out)
    BY <2>1 DEF Follows
  <2>a. events = (IF opcode = "OP_LoadoutSwap" THEN <<>> ELSE <<first>>) \o <<moved>>
    BY DEF events, Announced
  <2>b. /\ HostApply(HostAfter(h, v.out), first) = v.identity
        /\ HostApply(v.identity, moved) = v.identity
    <3>1. WithSpawnId({Me(id, name, form)}, {id}) = {Me(id, name, form)}
      BY DEF WithSpawnId, Me
    <3> QED BY <2>1, <3>1 DEF HostApply, IdentityEvent, MovedEvent
  <2> HIDE DEF first, moved
  <2>5. CASE opcode = "OP_LoadoutSwap"
    <3>1. v.out \o events = v.out \o <<moved>>
      <4>1. events = <<>> \o <<moved>>
        BY <2>a, <2>5
      <4>2. <<>> \o <<moved>> = <<moved>>
        OBVIOUS
      <4> QED BY <4>1, <4>2
    <3>2. IsSequence(w.out)
      BY <2>3, <2>4, <3>1, Appended
    <3>3. IsSequence(u.out)
      <4>1. \/ u.out = w.out
            \/ \E held \in PendingVitals(w.tracker) :
                 u.out = w.out \o <<VitalsEvent(held)>>
        BY <2>2, <2>3, <3>2, PendingOut
      <4>2. ASSUME NEW e PROVE IsSequence(w.out \o <<e>>)
        BY <3>2, Appended
      <4> QED BY <3>2, <4>1, <4>2
    <3>4. u.player_id = {id}
      BY <2>2, <2>3, PendingSound DEF SameSelves
    <3> QED BY <2>5, <3>3, <3>4 DEF u, IsPlayerId
  <2>6. CASE opcode # "OP_LoadoutSwap"
    <3>1. v.out \o events = (v.out \o <<first>>) \o <<moved>>
      <4>1. events = <<first>> \o <<moved>>
        BY <2>a, <2>6
      <4> QED BY <2>4, <4>1, StillSequence
    <3>4. IsSequence(v.out \o <<first>>) /\ HostAfter(h, v.out \o <<first>>) = v.identity
      BY <2>4, <2>b, Appended, AfterMore
    <3>5. /\ IsSequence((v.out \o <<first>>) \o <<moved>>)
          /\ HostAfter(h, (v.out \o <<first>>) \o <<moved>>) = v.identity
      BY <2>b, <3>4, Appended, AfterMore
    <3>6. Follows(h, w)
      BY <2>3, <3>1, <3>5 DEF Follows
    <3>7. Single(w)
      BY <2>1, <2>3 DEF Single
    <3>8. Follows(h, u) /\ Single(u)
      BY <2>2, <2>3, <3>6, <3>7, PendingFollows
    <3> QED BY <3>8 DEF u, Follows
  <2> QED BY <2>5, <2>6
<1> QED BY <1>1, <1>2, <1>3, <1>4

LEMMA SelfPosFollows ==
  ASSUME NEW h, NEW s, Sound(s), Follows(h, s), Single(s), NEW id \in Ids0
  PROVE  Follows(h, OnSelfPos(s, id)) /\ Single(OnSelfPos(s, id))
<1> DEFINE u == OnSelfPos(s, id)
<1>1. CASE s.backend = "eql"
  <2> DEFINE t == [s EXCEPT !.tracker = ObserveSelfPos(@, id)]
             resolved == {t.tracker.self_id} \ {0}
             v == [t EXCEPT !.player_id = resolved, !.identity = @]
             e == [kind |-> "PlayerMoved", spawn_id |-> resolved]
  <2>1. t = [s EXCEPT !.tracker = ObserveSelfPos(s.tracker, id)]
    BY DEF Sound, IsSession
  <2>2. Sound(t) /\ SameSelves(s, t) /\ t.backend = "eql"
    BY <1>1, <2>1, TrackerKeepsSelf, WithTracker DEF Sound, IsSession
  <2>3. t.out = s.out /\ t.identity = s.identity
    BY <2>1 DEF Sound, IsSession
  <2>4. u = Emit(v, <<e>>)
    BY <1>1 DEF OnSelfPos
  <2>5. e.kind = "PlayerMoved" /\ e.spawn_id = resolved
    OBVIOUS
  <2> HIDE DEF t, u, e
  <2>6. Sound(v) /\ v.out = s.out /\ v.identity = s.identity
    BY <2>2, <2>3 DEF Sound, IsSession, Agrees
  <2>7. \A i \in s.identity : i \in Identity /\ i.spawn_id = resolved
    BY <2>2, <2>3 DEF Sound, IsSession, Agrees
  <2> HIDE DEF v, resolved
  <2>8. WithSpawnId(s.identity, resolved) = s.identity
    <3>1. \A i \in s.identity : [i EXCEPT !.spawn_id = resolved] = i
      BY <2>7 DEF Identity
    <3> QED BY <3>1 DEF WithSpawnId
  <2>9. HostApply(HostAfter(h, v.out), e) = v.identity
    BY <2>5, <2>6, <2>8 DEF HostApply, Follows
  <2>10. Single(v)
    BY <2>6 DEF Single
  <2> QED BY <2>4, <2>6, <2>9, <2>10, EmitFollows DEF Follows, Single, u
<1>2. CASE s.backend # "eql"
  <2> DEFINE resolved == {id} \ {0}
             identity == WithSpawnId(s.identity, resolved)
             v        == [s EXCEPT !.player_id = resolved, !.identity = identity]
             e        == [kind |-> "PlayerMoved", spawn_id |-> resolved]
  <2>1. u = Emit(v, <<e>>)
    BY <1>2 DEF OnSelfPos, Sound, IsSession
  <2>2. resolved \subseteq Ids
    BY DEF Ids0
  <2>3. e.kind = "PlayerMoved" /\ e.spawn_id = resolved
    OBVIOUS
  <2> HIDE DEF resolved, u, e
  <2>4. \A i \in identity : /\ i \in Identity /\ i.spawn_id = resolved
                            /\ i.name = s.player_name
    BY <2>2 DEF Sound, IsSession, Agrees, WithSpawnId, Identity, Ids0
  <2>5. \A i, j \in identity : i = j
    BY DEF Single, WithSpawnId
  <2>6. HostApply(HostAfter(h, s.out), e) = identity
    BY <2>3 DEF HostApply, Follows
  <2> HIDE DEF identity
  <2>7. Sound(v) /\ v.out = s.out /\ v.identity = identity
    BY <1>2, <2>2, <2>4 DEF Sound, IsSession, Agrees
  <2> HIDE DEF v
  <2>8. Single(v)
    BY <2>5, <2>7 DEF Single
  <2> QED BY <2>1, <2>6, <2>7, <2>8, EmitFollows DEF Follows, Single, u
<1> QED BY <1>1, <1>2

LEMMA RecordsHost ==
  ASSUME Inv, HostInv, NEW id \in Ids, NEW name \in Characters, NEW form \in Forms,
         ZoneEntry(id, name, form) \/ LoadoutSwap(id, name, form)
  PROVE  HostInv'
<1>1. Sound(session) /\ Follows(host, session) /\ Single(session)
  BY Between DEF Inv
<1>2. CASE ZoneEntry(id, name, form)
  <2> DEFINE u == OnSpawnAdded(session, id, name, form, "OP_ZoneEntry")
  <2>1. Sound(u) /\ Follows(host, u) /\ Single(u)
    BY <1>1, SpawnAddedSound, SpawnAddedFollows
  <2>2. Deliver(u)
    BY <1>2 DEF ZoneEntry, Record
  <2> HIDE DEF u
  <2> QED BY <2>1, <2>2, DeliveredHost
<1>3. CASE LoadoutSwap(id, name, form)
  <2> DEFINE v == OnSpawnAdded(session, id, name, form, "OP_LoadoutSwap")
             w == OnLoadoutSwap(v, id, form)
  <2>1. Deliver(w)
    BY <1>3 DEF LoadoutSwap, Record
  <2>2. /\ Sound(v) /\ IsSequence(v.out)
        /\ IsPlayerId(v, id) \/ (Follows(host, v) /\ Single(v))
    BY <1>1, SpawnAddedSound, SpawnAddedFollows
  <2> HIDE DEF v
  <2>3. Sound(w) /\ Follows(host, w) /\ Single(w)
    BY <2>2, SwapSound, SwapFollows
  <2> HIDE DEF w
  <2> QED BY <2>1, <2>3, DeliveredHost
<1> QED BY <1>2, <1>3

LEMMA NextHost == Inv /\ HostInv /\ [Next]_vars => HostInv'
<1> SUFFICES ASSUME Inv, HostInv, [Next]_vars PROVE HostInv'
  OBVIOUS
<1>s. Sound(session) /\ Follows(host, session) /\ Single(session)
  BY Between DEF Inv
<1>1. ASSUME NEW name \in Characters, EnterWorld(name) PROVE HostInv'
  BY <1>1, <1>s, EnterWorldSound, EnterWorldFollows, DeliveredHost DEF EnterWorld
<1>2. ASSUME NEW name \in Characters, NEW form \in Forms, PlayerProfile(name, form)
      PROVE  HostInv'
  BY <1>2, <1>s, ProfileSound, ProfileFollows, DeliveredHost DEF PlayerProfile
<1>3. CASE ZoneTransition \/ FlushReset
  <2>1. Deliver(ResetFor(session))
    BY <1>3 DEF ZoneTransition, FlushReset
  <2> QED BY <1>s, <2>1, ResetForSound, ResetFollows, DeliveredHost
<1>4. CASE FlushEnd
  <2>1. /\ session'.out = session.out
        /\ session'.identity = WithSpawnId(session.identity, {})
        /\ host' = WithSpawnId(host, {})
    BY <1>4, <1>s DEF FlushEnd, ResetCorrelations, Sound, IsSession
  <2> QED BY <2>1 DEF HostInv, HostFollowsIdentity, Single, WithSpawnId
<1>5. ASSUME NEW id \in Ids, NEW name \in Characters, NEW form \in Forms,
             ZoneEntry(id, name, form) \/ LoadoutSwap(id, name, form)
      PROVE  HostInv'
  BY <1>5, RecordsHost
<1>6. ASSUME NEW id \in Ids, DeleteSpawn(id) PROVE HostInv'
  <2>1. Deliver(OnSpawnRemoved(session, id))
    BY <1>6 DEF DeleteSpawn, Record
  <2> QED BY <1>s, <2>1, RemovedSound, RemovedFollows, DeliveredHost
<1>7. ASSUME NEW id \in Ids, Death(id) PROVE HostInv'
  <2>1. Deliver(OnSpawnKilled(session, id))
    BY <1>7 DEF Death, Record
  <2> QED BY <1>s, <2>1, KilledSound, KilledFollows, DeliveredHost
<1>8. ASSUME NEW id \in Ids, NEW form \in Forms, Illusion(id, form) PROVE HostInv'
  <2>1. Deliver(OnSpawnIllusion(session, id, form))
    BY <1>8 DEF Illusion, Record
  <2> QED BY <1>s, <2>1, ShownSound, IllusionFollows, DeliveredHost
<1>9. ASSUME NEW form \in Forms, LevelUpdate(form) PROVE HostInv'
  <2>1. Deliver(OnLevelUpdate(session, form))
    BY <1>9 DEF LevelUpdate, Record
  <2> QED BY <1>s, <2>1, ShownSound, LevelFollows, DeliveredHost
<1>10. ASSUME NEW id \in Ids0, SelfPosition(id) PROVE HostInv'
  <2>1. Deliver(OnSelfPos(session, id))
    BY <1>10 DEF SelfPosition, Record
  <2> QED BY <1>s, <2>1, SelfPosSound, SelfPosFollows, DeliveredHost
<1>11. ASSUME NEW id \in Ids, NEW wide \in BOOLEAN, NEW has \in StatSets, Stat(id, wide, has)
       PROVE  HostInv'
  <2> DEFINE p == [spawn_id |-> id, wide |-> wide, has |-> has, value |-> seen']
  <2>1. Deliver(OnStatSync(session, p))
    BY <1>11 DEF Stat, Record
  <2> HIDE DEF p
  <2> QED BY <1>s, <2>1, StatSound, StatFollows, DeliveredHost
<1>12. CASE TakeSelfStats
  <2>1. session'.out = session.out /\ session'.identity = session.identity /\ host' = host
    BY <1>12, <1>s DEF TakeSelfStats, history, Sound, IsSession
  <2> QED BY <2>1 DEF HostInv, HostFollowsIdentity, Single
<1>13. CASE UNCHANGED vars
  BY <1>13 DEF vars, history, HostInv, HostFollowsIdentity, Single
<1> QED
  BY <1>1, <1>2, <1>3, <1>4, <1>5, <1>6, <1>7, <1>8, <1>9, <1>10, <1>11, <1>12, <1>13
  DEF Next

LEMMA InitHost == Init => HostInv
<1> SUFFICES ASSUME Init PROVE HostInv
  OBVIOUS
<1>1. PICK b \in Backends : session = NewSession(b)
  BY DEF Init
<1>2. session.out = <<>> /\ session.identity = {} /\ host = {}
  BY <1>1 DEF Init, NewSession
<1> QED BY <1>2 DEF HostInv, HostFollowsIdentity, Single

LEMMA HostAlways == Spec => []HostInv
<1>1. Spec => []Inv
  BY InvCorrect
<1> QED BY <1>1, InitHost, NextHost, PTL DEF Spec

-----------------------------------------------------------------------------
(* Vitals: the tracker                                                     *)

(* The tracker holds vitals only once a record matched; then the adopted   *)
(* id and its twin are ids that the player's name was announced for.  A    *)
(* guess may be wrong, but it is gone by then.                             *)
Trusted(t, player, names) ==
  /\ t.alt_id \in Ids0
  /\ t.pending # {} => t.self_id # 0
  /\ t.self_id # 0 =>
       /\ player # "" /\ t.provisional_id = 0
       /\ names[t.self_id] = {player}
       /\ t.alt_id # 0 => names[t.alt_id] = {player}

(* A snapshot of another's: its id has another name.                       *)
Foreign(id) == id \in Ids /\ \E n \in Characters \ {session.player_name} : wire[id] = {n}

(* Snapshots are numbered as they come; what is held, or was published     *)
(* since the last reset or death, came after it, and what is held and was  *)
(* published as another entity's is another's.                             *)
VitalInv ==
  /\ seen \in Nat /\ fresh \in Nat /\ fresh <= seen
  /\ Trusted(session.tracker, session.player_name, wire)
  /\ \A p \in session.tracker.pending :
       /\ p.value \in fresh + 1 .. seen
       /\ p.value \in asEntity => Foreign(p.id)
  /\ asPlayer \cup asEntity \subseteq fresh + 1 .. seen
  /\ SnapshotHasOneOwner

LEMMA DefaultTrusted ==
  ASSUME NEW player, NEW names
  PROVE  Trusted(Default, player, names) /\ Default.pending = {}
  BY DEF Trusted, Default, Ids0

LEMMA SpawnTrusted ==
  ASSUME NEW t, IsTracker(t), NEW player, NEW names, Trusted(t, player, names),
         NEW name \in Characters, NEW id \in Ids, names[id] = {name}
  PROVE  LET o == ObserveSpawn(t, player, name, id)
         IN  Trusted(o, player, names) /\ o.pending \subseteq t.pending
<1> DEFINE o == ObserveSpawn(t, player, name, id)
<1>1. CASE SpawnRouting(t, player, name, id) = "NotSelf"
  BY <1>1 DEF ObserveSpawn
<1>2. CASE SpawnRouting(t, player, name, id) = "AdoptSelf"
  <2>1. name = player /\ player # ""
    BY <1>2 DEF SpawnRouting, NamesMatch
  <2>2. o = Adopt(t, id)
    BY <1>2 DEF ObserveSpawn
  <2>3. /\ o.self_id = id /\ o.alt_id = 0 /\ o.provisional_id = 0
        /\ o.pending = {q \in t.pending : q.id = id}
    BY <2>2 DEF Adopt, IsTracker
  <2> HIDE DEF o
  <2>4. id # 0
    BY ZeroIsNoId
  <2>5. Trusted(o, player, names) /\ o.pending \subseteq t.pending
    BY <2>1, <2>3, <2>4, ZeroIsNoId DEF Trusted
  <2> QED BY <2>5 DEF o
<1>3. CASE SpawnRouting(t, player, name, id) = "SelfTwin"
  <2>1. name = player /\ player # "" /\ t.self_id # 0
    BY <1>3 DEF SpawnRouting, NamesMatch
  <2>2. o = LearnTwin(t, id)
    BY <1>3 DEF ObserveSpawn
  <2>3. CASE id = t.self_id
    BY <2>2, <2>3 DEF LearnTwin
  <2>4. CASE id # t.self_id
    <3>1. /\ o.self_id = t.self_id /\ o.alt_id = id /\ o.provisional_id = t.provisional_id
          /\ o.pending = t.pending
      BY <2>2, <2>4 DEF LearnTwin, IsTracker
    <3> HIDE DEF o
    <3>2. Trusted(o, player, names) /\ o.pending \subseteq t.pending
      BY <2>1, <3>1 DEF Trusted, Ids0
    <3> QED BY <3>2 DEF o
  <2> QED BY <2>3, <2>4
<1> QED BY <1>1, <1>2, <1>3 DEF SpawnRouting

(* A client reports the id of its own character.                           *)
Reported(id, player, names) == id # 0 /\ player # "" => names[id] = {player}

LEMMA PosTrusted ==
  ASSUME NEW t, IsTracker(t), NEW player, NEW names, Trusted(t, player, names),
         NEW id \in Ids0, Reported(id, player, names)
  PROVE  Trusted(ObserveSelfPos(t, id), player, names)
         /\ ObserveSelfPos(t, id).pending = t.pending
<1> DEFINE o == ObserveSelfPos(t, id)
<1>1. CASE id = 0
  BY <1>1 DEF ObserveSelfPos
<1>2. CASE id # 0 /\ t.self_id = 0
  <2>1. o.self_id = 0 /\ o.alt_id = t.alt_id /\ o.pending = t.pending
    BY <1>2 DEF ObserveSelfPos, AdoptProvisional, IsTracker
  <2> HIDE DEF o
  <2>2. Trusted(o, player, names) /\ o.pending = t.pending
    BY <1>2, <2>1 DEF Trusted
  <2> QED BY <2>2 DEF o
<1>3. CASE id # 0 /\ t.self_id # 0
  <2>1. o = t \/ o = [t EXCEPT !.alt_id = id]
    BY <1>3 DEF ObserveSelfPos
  <2>2. CASE o = [t EXCEPT !.alt_id = id]
    <3>1. /\ o.self_id = t.self_id /\ o.alt_id = id /\ o.provisional_id = t.provisional_id
          /\ o.pending = t.pending
      BY <2>2 DEF IsTracker
    <3> HIDE DEF o
    <3>2. Trusted(o, player, names) /\ o.pending = t.pending
      BY <1>3, <3>1 DEF Trusted, Reported
    <3> QED BY <3>2 DEF o
  <2> QED BY <2>1, <2>2
<1> QED BY <1>1, <1>2, <1>3

(* Vitals that are the player's, when drained, are of the player's ids.    *)
LEMMA DrainTrusted ==
  ASSUME NEW t, IsTracker(t), NEW player, NEW names, Trusted(t, player, names)
  PROVE  /\ Trusted(TakePending(t), player, names)
         /\ TakePending(t).pending \subseteq t.pending
         /\ \A p \in PendingVitals(t) : p \in t.pending /\ names[p.id] = {player}
<1>1. TakePending(t) = [t EXCEPT !.pending = t.pending \ PendingVitals(t)]
  BY DEF TakePending, IsTracker
<1>2. /\ TakePending(t).self_id = t.self_id /\ TakePending(t).alt_id = t.alt_id
      /\ TakePending(t).provisional_id = t.provisional_id
      /\ TakePending(t).pending = t.pending \ PendingVitals(t)
  BY <1>1 DEF IsTracker
<1>3. \A p \in PendingVitals(t) : p \in t.pending /\ names[p.id] = {player}
  BY DEF PendingVitals, IsSelf, Trusted
<1> QED BY <1>2, <1>3 DEF Trusted

(* Other names on the wire, but none taken back.                           *)
Keeps(names, more) ==
  \A id \in Ids, n \in Characters : names[id] = {n} => more[id] = {n}

LEMMA StillTrusted ==
  ASSUME NEW t, IsTracker(t), NEW player \in Names, NEW names, NEW more,
         Trusted(t, player, names), Keeps(names, more)
  PROVE  Trusted(t, player, more)
  BY DEF Trusted, Ids0, Names, Keeps, IsTracker

(* Values of what is held, for ids that now have the player's name.        *)
HeldForPlayer(P, t, player, names) ==
  \A v \in P : \E p \in t.pending : v = p.value /\ names[p.id] = {player}

-----------------------------------------------------------------------------
(* Vitals: what a packet publishes                                         *)

Values0(o, kind) == {o[i].value : i \in {j \in DOMAIN o : o[j].kind = kind}}

(* Of vitals, the events publish at most those in P as the player's and    *)
(* those in E as another's.                                                *)
Tells(o, P, E) ==
  /\ IsSequence(o)
  /\ Values0(o, "PlayerVitalsUpdated") \subseteq P
  /\ Values0(o, "SpawnHealthUpdated") \subseteq E

LEMMA MoreValues ==
  ASSUME NEW o, IsSequence(o), NEW e, NEW kind, NEW v \in Values0(o \o <<e>>, kind)
  PROVE  v \in Values0(o, kind) \/ (e.kind = kind /\ v = e.value)
<1> DEFINE x == o \o <<e>>
           L == Len(o)
<1>1. /\ L \in Nat /\ DOMAIN o = 1 .. L /\ DOMAIN x = 1 .. L + 1
      /\ (\A n \in 1 .. L : x[n] = o[n]) /\ x[L + 1] = e
  BY Appended
<1>2. PICK i \in DOMAIN x : x[i].kind = kind /\ v = x[i].value
  BY DEF Values0
<1> HIDE DEF x, L
<1>3. i \in 1 .. L \/ i = L + 1
  BY <1>1, <1>2
<1>4. CASE i \in 1 .. L
  <2>1. i \in DOMAIN o /\ o[i].kind = kind /\ v = o[i].value
    BY <1>1, <1>2, <1>4
  <2> QED BY <2>1 DEF Values0
<1>5. CASE i = L + 1
  BY <1>1, <1>2, <1>5
<1> QED BY <1>3, <1>4, <1>5

LEMMA TellsNothing == Tells(<<>>, {}, {})
<1>1. <<>> \in Seq({}) /\ DOMAIN <<>> = {}
  OBVIOUS
<1> QED BY <1>1 DEF Tells, Values0, IsSequence

LEMMA TellsMore ==
  ASSUME NEW o, NEW P, NEW E, Tells(o, P, E), NEW e,
         e.kind = "PlayerVitalsUpdated" => e.value \in P,
         e.kind = "SpawnHealthUpdated" => e.value \in E
  PROVE  Tells(o \o <<e>>, P, E)
<1>1. IsSequence(o \o <<e>>)
  BY Appended DEF Tells
<1>2. ASSUME NEW v \in Values0(o \o <<e>>, "PlayerVitalsUpdated") PROVE v \in P
  BY MoreValues DEF Tells
<1>3. ASSUME NEW v \in Values0(o \o <<e>>, "SpawnHealthUpdated") PROVE v \in E
  BY MoreValues DEF Tells
<1> QED BY <1>1, <1>2, <1>3 DEF Tells

LEMMA TellsTheSame ==
  ASSUME NEW v, Sound(v), NEW P, NEW E, Tells(v.out, P, E)
  PROVE  /\ \A e : (e.kind \notin {"PlayerVitalsUpdated", "SpawnHealthUpdated"})
                     => Tells(Emit(v, <<e>>).out, P, E)
         /\ Tells(Emit(v, <<>>).out, P, E)
         /\ \A events : Emit(v, events).tracker = v.tracker
                         /\ Emit(v, events).out = v.out \o events
<1>1. ASSUME NEW events
      PROVE  Emit(v, events).tracker = v.tracker /\ Emit(v, events).out = v.out \o events
  BY DEF Emit, Sound, IsSession
<1>2. v.out \o <<>> = v.out
  BY StillSequence DEF Tells
<1>3. ASSUME NEW e, e.kind \notin {"PlayerVitalsUpdated", "SpawnHealthUpdated"}
      PROVE  Tells(v.out \o <<e>>, P, E)
  BY <1>3, TellsMore
<1> QED BY <1>1, <1>2, <1>3

LEMMA AnnouncedTells ==
  ASSUME NEW o, NEW P, NEW E, Tells(o, P, E), NEW id, NEW name, NEW form, NEW opcode
  PROVE  Tells(o \o Announced(id, name, form, opcode), P, E)
<1> DEFINE first == IdentityEvent(id, name, form)
           moved == MovedEvent(id)
           events == Announced(id, name, form, opcode)
<1>1. events = (IF opcode = "OP_LoadoutSwap" THEN <<>> ELSE <<first>>) \o <<moved>>
  BY DEF Announced
<1>2. /\ first.kind \notin {"PlayerVitalsUpdated", "SpawnHealthUpdated"}
      /\ moved.kind \notin {"PlayerVitalsUpdated", "SpawnHealthUpdated"}
  BY DEF IdentityEvent, MovedEvent
<1> HIDE DEF first, moved, events
<1>3. CASE opcode = "OP_LoadoutSwap"
  <2>1. events = <<>> \o <<moved>>
    BY <1>1, <1>3
  <2>2. <<>> \o <<moved>> = <<moved>>
    OBVIOUS
  <2>3. Tells(o \o <<moved>>, P, E)
    BY <1>2, TellsMore
  <2> QED BY <2>1, <2>2, <2>3 DEF events
<1>4. CASE opcode # "OP_LoadoutSwap"
  <2>1. events = <<first>> \o <<moved>>
    BY <1>1, <1>4
  <2>2. o \o events = (o \o <<first>>) \o <<moved>>
    BY <2>1, StillSequence DEF Tells
  <2>3. Tells(o \o <<first>>, P, E)
    BY <1>2, TellsMore
  <2>4. Tells((o \o <<first>>) \o <<moved>>, P, E)
    BY <1>2, <2>3, TellsMore
  <2> QED BY <2>2, <2>4 DEF events
<1> QED BY <1>3, <1>4

LEMMA DrainTells ==
  ASSUME NEW v, Sound(v), NEW P, NEW E, Tells(v.out, P, E),
         \A p \in PendingVitals(v.tracker) : p.value \in P
  PROVE  Tells(TakePendingPlayerVitals(v).out, P, E)
<1> DEFINE u == TakePendingPlayerVitals(v)
<1>1. \/ u.out = v.out
      \/ \E held \in PendingVitals(v.tracker) : u.out = v.out \o <<VitalsEvent(held)>>
  BY PendingOut DEF Tells
<1>2. ASSUME NEW held \in PendingVitals(v.tracker)
      PROVE  Tells(v.out \o <<VitalsEvent(held)>>, P, E)
  <2>1. VitalsEvent(held).kind = "PlayerVitalsUpdated" /\ VitalsEvent(held).value \in P
    BY DEF VitalsEvent
  <2> QED BY <2>1, TellsMore
<1> HIDE DEF u
<1>3. Tells(u.out, P, E)
  BY <1>1, <1>2
<1> QED BY <1>3 DEF u

(* A record publishes vitals that were held, of ids the tracker knows to   *)
(* be the player's.                                                        *)
LEMMA SpawnAddedTells ==
  ASSUME NEW s, Sound(s), Tells(s.out, {}, {}), NEW id \in Ids, NEW name \in Characters,
         NEW form \in Forms, NEW opcode
  PROVE  LET u == OnSpawnAdded(s, id, name, form, opcode)
             o == ObserveSpawnIn(s, name, id).tracker
         IN  /\ Tells(u.out, {p.value : p \in PendingVitals(o)}, {})
             /\ u.tracker \in {o, TakePending(o)}
<1> DEFINE u       == OnSpawnAdded(s, id, name, form, opcode)
           routing == ClassifySpawn(s, name, id)
           t       == ObserveSpawnIn(s, name, id)
           P       == {p.value : p \in PendingVitals(t.tracker)}
<1>1. /\ routing \in {"AdoptSelf", "SelfTwin", "NotSelf"}
      /\ routing # "AdoptSelf" => Sound(t)
      /\ t.out = s.out
  BY SpawnRouted
<1>2. Tells(t.out, P, {})
  BY <1>1 DEF Tells
<1>3. \A p \in PendingVitals(t.tracker) : p.value \in P
  OBVIOUS
<1> HIDE DEF P
<1>4. CASE routing = "NotSelf"
  <2> DEFINE v == [t EXCEPT !.entities = @ \cup {id}]
             e == [kind |-> "SpawnAdded", id |-> id]
  <2>1. Sound(v) /\ v.out = t.out /\ v.tracker = t.tracker
    BY <1>1, <1>4 DEF Sound, IsSession, Agrees
  <2>2. u = Emit(v, <<e>>)
    BY <1>4 DEF OnSpawnAdded
  <2>3. e.kind \notin {"PlayerVitalsUpdated", "SpawnHealthUpdated"}
    OBVIOUS
  <2> HIDE DEF v, e, u, t
  <2>4. Tells(u.out, P, {}) /\ u.tracker = t.tracker
    BY <1>2, <2>1, <2>2, <2>3, TellsTheSame
  <2> QED BY <2>4 DEF u, t, P
<1>5. CASE routing = "SelfTwin"
  <2>1. u = TakePendingPlayerVitals(t)
    BY <1>5 DEF OnSpawnAdded
  <2> HIDE DEF u, t, routing
  <2>2. Sound(t) /\ IsSequence(t.out)
    BY <1>1, <1>2, <1>5 DEF Tells
  <2>3. Tells(u.out, P, {})
    BY <1>2, <1>3, <2>1, <2>2, DrainTells
  <2>4. u.tracker = TakePending(t.tracker)
    BY <2>1, <2>2, PendingOut
  <2> QED BY <2>3, <2>4 DEF u, t, P
<1>6. CASE routing = "AdoptSelf"
  <2> DEFINE v      == Adopted(s, id, name, form)
             events == Announced(id, name, form, opcode)
             w      == Emit(v, events)
  <2>1. Sound(v) /\ v.out = s.out /\ v.tracker = t.tracker
    BY <1>6, AdoptedSound
  <2>2. u = TakePendingPlayerVitals(w)
    BY <1>6
    DEF OnSpawnAdded, AdoptPlayer, Adopted, Announced, Me, IdentityEvent, MovedEvent
  <2> HIDE DEF u, t, routing, v
  <2>3. Sound(w)
    BY <2>1, EmitSound
  <2>4. w.tracker = t.tracker /\ w.out = v.out \o events
    BY <2>1 DEF Emit, Sound, IsSession
  <2>5. Tells(v.out, P, {})
    BY <1>1, <1>2, <2>1
  <2>6. Tells(v.out \o events, P, {})
    BY <2>5, AnnouncedTells
  <2> HIDE DEF w, events
  <2>7. Tells(w.out, P, {})
    BY <2>4, <2>6
  <2>8. Tells(u.out, P, {})
    BY <1>3, <2>2, <2>3, <2>4, <2>7, DrainTells
  <2>9. u.tracker = TakePending(t.tracker)
    BY <2>2, <2>3, <2>4, <2>7, PendingOut DEF Tells
  <2> QED BY <2>8, <2>9 DEF u, t, P
<1> QED BY <1>1, <1>4, <1>5, <1>6

(* An event that is not about vitals, whatever becomes of the identity.    *)
LEMMA QuietTells ==
  ASSUME NEW s, Sound(s), NEW P, NEW E, Tells(s.out, P, E),
         NEW e, e.kind \notin {"PlayerVitalsUpdated", "SpawnHealthUpdated"}
  PROVE  /\ Tells(Emit(s, <<e>>).out, P, E) /\ Emit(s, <<e>>).tracker = s.tracker
         /\ \A identity :
              /\ Tells(Emit([s EXCEPT !.identity = identity], <<e>>).out, P, E)
              /\ Emit([s EXCEPT !.identity = identity], <<e>>).tracker = s.tracker
<1>1. Tells(s.out \o <<e>>, P, E)
  BY TellsMore
<1> QED BY <1>1 DEF Emit, Sound, IsSession

LEMMA IllusionTells ==
  ASSUME NEW s, Sound(s), NEW P, NEW E, Tells(s.out, P, E), NEW id, NEW form
  PROVE  /\ Tells(OnSpawnIllusion(s, id, form).out, P, E)
         /\ OnSpawnIllusion(s, id, form).tracker = s.tracker
<1>1. CASE IsPlayerId(s, id)
  <2> DEFINE identity == {[i EXCEPT !.form = form] : i \in s.identity}
             e == [kind |-> "PlayerAppearanceUpdated", form |-> form]
  <2>1. OnSpawnIllusion(s, id, form) = Emit([s EXCEPT !.identity = identity], <<e>>)
    BY <1>1 DEF OnSpawnIllusion, Sound, IsSession
  <2>2. e.kind \notin {"PlayerVitalsUpdated", "SpawnHealthUpdated"}
    OBVIOUS
  <2> HIDE DEF identity, e
  <2> QED BY QuietTells, <2>1, <2>2
<1>2. CASE ~IsPlayerId(s, id)
  BY QuietTells, <1>2 DEF OnSpawnIllusion
<1> QED BY <1>1, <1>2

(* The other packets that publish no vitals.                               *)
LEMMA OthersTell ==
  ASSUME NEW s, Sound(s), NEW P, NEW E, Tells(s.out, P, E), NEW id, NEW form
  PROVE  /\ /\ Tells(OnLoadoutSwap(s, id, form).out, P, E)
            /\ OnLoadoutSwap(s, id, form).tracker = s.tracker
         /\ /\ Tells(OnSpawnRemoved(s, id).out, P, E)
            /\ OnSpawnRemoved(s, id).tracker = s.tracker
         /\ /\ Tells(OnLevelUpdate(s, form).out, P, E)
            /\ OnLevelUpdate(s, form).tracker = s.tracker
         /\ ~IsPlayerId(s, id) =>
              /\ Tells(OnSpawnKilled(s, id).out, P, E)
              /\ OnSpawnKilled(s, id).tracker = s.tracker
<1>1. Tells(OnLoadoutSwap(s, id, form).out, P, E) /\ OnLoadoutSwap(s, id, form).tracker = s.tracker
  <2>1. CASE IsPlayerId(s, id)
    <3>1. PICK me : OnLoadoutSwap(s, id, form)
                      = Emit([s EXCEPT !.identity = {me}],
                             <<[kind |-> "PlayerIdentityUpdated", identity |-> me]>>)
      BY <2>1 DEF OnLoadoutSwap
    <3> DEFINE e == [kind |-> "PlayerIdentityUpdated", identity |-> me]
    <3>2. e.kind \notin {"PlayerVitalsUpdated", "SpawnHealthUpdated"}
      OBVIOUS
    <3> HIDE DEF e
    <3> QED BY QuietTells, <3>1, <3>2 DEF e
  <2>2. CASE ~IsPlayerId(s, id)
    BY QuietTells, <2>2 DEF OnLoadoutSwap
  <2> QED BY <2>1, <2>2
<1>2. Tells(OnSpawnRemoved(s, id).out, P, E) /\ OnSpawnRemoved(s, id).tracker = s.tracker
  <2> DEFINE v == [s EXCEPT !.entities = @ \ {id}]
             e == [kind |-> "SpawnRemoved", id |-> id]
  <2>1. Sound(v) /\ v.out = s.out /\ v.tracker = s.tracker
    BY DEF Sound, IsSession, Agrees
  <2>2. OnSpawnRemoved(s, id) = Emit(v, <<e>>)
    BY DEF OnSpawnRemoved
  <2>3. e.kind \notin {"PlayerVitalsUpdated", "SpawnHealthUpdated"}
    OBVIOUS
  <2> HIDE DEF v, e
  <2>4. Emit(v, <<e>>).out = s.out \o <<e>> /\ Emit(v, <<e>>).tracker = s.tracker
    BY <2>1 DEF Emit, Sound, IsSession
  <2>5. Tells(s.out \o <<e>>, P, E)
    BY <2>3, TellsMore
  <2> QED BY <2>2, <2>4, <2>5
<1>3. Tells(OnLevelUpdate(s, form).out, P, E) /\ OnLevelUpdate(s, form).tracker = s.tracker
  <2> DEFINE levelled == {[i EXCEPT !.form = form] : i \in s.identity}
             me == CHOOSE i \in levelled : TRUE
             e == [kind |-> "PlayerIdentityUpdated", identity |-> me]
  <2>1. \/ OnLevelUpdate(s, form) = s
        \/ OnLevelUpdate(s, form) = Emit([s EXCEPT !.identity = levelled], <<e>>)
    BY DEF OnLevelUpdate
  <2>2. e.kind \notin {"PlayerVitalsUpdated", "SpawnHealthUpdated"}
    OBVIOUS
  <2> HIDE DEF levelled, me, e
  <2>3. CASE OnLevelUpdate(s, form) = s
    BY <2>3
  <2>4. CASE OnLevelUpdate(s, form) = Emit([s EXCEPT !.identity = levelled], <<e>>)
    BY QuietTells, <2>2, <2>4
  <2> QED BY <2>1, <2>3, <2>4
<1>4. ~IsPlayerId(s, id) => /\ Tells(OnSpawnKilled(s, id).out, P, E)
                           /\ OnSpawnKilled(s, id).tracker = s.tracker
  BY QuietTells DEF OnSpawnKilled
<1> QED BY <1>1, <1>2, <1>3, <1>4

LEMMA SelfPosTells ==
  ASSUME NEW s, Sound(s), NEW P, NEW E, Tells(s.out, P, E), NEW id
  PROVE  /\ Tells(OnSelfPos(s, id).out, P, E)
         /\ OnSelfPos(s, id).tracker
              = IF s.backend = "eql" THEN ObserveSelfPos(s.tracker, id) ELSE s.tracker
<1> DEFINE t == IF s.backend = "eql" THEN [s EXCEPT !.tracker = ObserveSelfPos(@, id)] ELSE s
           o == IF s.backend = "eql" THEN ObserveSelfPos(s.tracker, id) ELSE s.tracker
<1>1. /\ t = [s EXCEPT !.tracker = o]
  BY DEF Sound, IsSession
<1>2. PICK resolved, identity :
        OnSelfPos(s, id) = Emit([t EXCEPT !.player_id = resolved, !.identity = identity],
                                <<[kind |-> "PlayerMoved", spawn_id |-> resolved]>>)
  <2> DEFINE resolved == IF s.backend = "eql" THEN {t.tracker.self_id} \ {0} ELSE {id} \ {0}
             identity == IF s.backend = "eql" THEN t.identity ELSE WithSpawnId(t.identity, resolved)
  <2>1. OnSelfPos(s, id) = Emit([t EXCEPT !.player_id = resolved, !.identity = identity],
                                <<[kind |-> "PlayerMoved", spawn_id |-> resolved]>>)
    BY <1>1 DEF OnSelfPos, Sound, IsSession
  <2> QED BY <2>1
<1> DEFINE v == [t EXCEPT !.player_id = resolved, !.identity = identity]
           e == [kind |-> "PlayerMoved", spawn_id |-> resolved]
           u == OnSelfPos(s, id)
<1>3. e.kind \notin {"PlayerVitalsUpdated", "SpawnHealthUpdated"}
  OBVIOUS
<1> HIDE DEF e, u, o, t
<1>4. u.out = s.out \o <<e>> /\ u.tracker = o
  BY <1>1, <1>2 DEF Emit, Sound, IsSession, u, e
<1>5. Tells(u.out, P, E) /\ u.tracker = o
  BY <1>3, <1>4, TellsMore
<1> QED BY <1>5 DEF u, o

-----------------------------------------------------------------------------
(* Vitals: the packets                                                     *)

(* A reset, or a death, leaves nothing held, and nothing published.        *)
LEMMA BoundaryVitals ==
  ASSUME VitalInv, Severed, session'.tracker = Default
  PROVE  VitalInv'
<1>1. Trusted(session'.tracker, session'.player_name, wire') /\ session'.tracker.pending = {}
  BY DefaultTrusted
<1>2. seen' \in Nat /\ fresh' \in Nat /\ fresh' <= seen'
  BY DEF VitalInv, Severed
<1>3. asPlayer' = {} /\ asEntity' = {}
  BY DEF Severed
<1> QED BY <1>1, <1>2, <1>3 DEF VitalInv, SnapshotHasOneOwner

(* Inside a session what is published as the player's was held, for an id  *)
(* that now has the player's name.                                         *)
LEMMA VitalStep ==
  ASSUME VitalInv, NEW u, Sound(u), Record(u), UNCHANGED seen,
         u.player_name = session.player_name,
         NEW P, Tells(u.out, P, {}),
         HeldForPlayer(P, session.tracker, session.player_name, wire'),
         u.tracker.pending \subseteq session.tracker.pending,
         Trusted(u.tracker, u.player_name, wire'),
         Keeps(wire, wire')
  PROVE  VitalInv'
<1>1. session'.tracker = u.tracker /\ session'.player_name = session.player_name
  BY DEF Record, Deliver, Sound, IsSession
<1>2. fresh' = fresh /\ seen' = seen
  BY DEF Record
<1>3. asEntity' = asEntity /\ asPlayer' \subseteq asPlayer \cup P
  BY DEF Record, Published, Tells, Values0
<1>4. ASSUME NEW id, Foreign(id) PROVE Foreign(id)'
  BY <1>1, <1>4 DEF Foreign, Keeps
<1>5. ASSUME NEW v \in P PROVE v \in fresh + 1 .. seen /\ v \notin asEntity
  <2>1. PICK p \in session.tracker.pending : v = p.value /\ wire'[p.id] = {session.player_name}
    BY DEF HeldForPlayer
  <2>2. v \in fresh + 1 .. seen /\ (v \in asEntity => Foreign(p.id))
    BY <2>1 DEF VitalInv
  <2>3. ~Foreign(p.id)
    <3> SUFFICES ASSUME Foreign(p.id) PROVE FALSE
      OBVIOUS
    <3>1. PICK n \in Characters \ {session.player_name} : wire[p.id] = {n}
      BY DEF Foreign
    <3>2. wire'[p.id] = {n}
      BY <3>1 DEF Foreign, Keeps
    <3> QED BY <2>1, <3>1, <3>2
  <2> QED BY <2>2, <2>3
<1>6. ASSUME NEW p \in session'.tracker.pending
      PROVE  p.value \in fresh' + 1 .. seen' /\ (p.value \in asEntity' => Foreign(p.id)')
  <2>1. p \in session.tracker.pending
    BY <1>1
  <2>2. p.value \in fresh + 1 .. seen /\ (p.value \in asEntity => Foreign(p.id))
    BY <2>1 DEF VitalInv
  <2> QED BY <1>2, <1>3, <1>4, <2>2
<1>7. asPlayer' \cup asEntity' \subseteq fresh' + 1 .. seen'
  BY <1>2, <1>3, <1>5 DEF VitalInv
<1>8. SnapshotHasOneOwner'
  BY <1>3, <1>5 DEF VitalInv, SnapshotHasOneOwner
<1>9. Trusted(session'.tracker, session'.player_name, wire')
  BY <1>1
<1>10. seen' \in Nat /\ fresh' \in Nat /\ fresh' <= seen'
  BY <1>2 DEF VitalInv
<1> QED BY <1>6, <1>7, <1>8, <1>9, <1>10 DEF VitalInv

(* A packet that publishes no vitals and leaves the tracker alone.         *)
LEMMA NoVitals ==
  ASSUME VitalInv, NEW u, Sound(u), Record(u), UNCHANGED <<wire, seen>>,
         u.player_name = session.player_name, Tells(u.out, {}, {}),
         u.tracker = session.tracker
  PROVE  VitalInv'
<1>1. Trusted(u.tracker, u.player_name, wire')
  BY DEF VitalInv
<1>2. Keeps(wire, wire') /\ HeldForPlayer({}, session.tracker, session.player_name, wire')
  BY DEF Keeps, HeldForPlayer
<1> QED BY <1>1, <1>2, VitalStep

(* A spawn record: what it drains was held for ids of the player's name.   *)
LEMMA RecordsVitals ==
  ASSUME Inv, HostInv, VitalInv, NEW id \in Ids, NEW name \in Characters,
         NEW form \in Forms, ZoneEntry(id, name, form) \/ LoadoutSwap(id, name, form)
  PROVE  VitalInv'
<1> DEFINE o == ObserveSpawnIn(session, name, id).tracker
           P == {p.value : p \in PendingVitals(o)}
<1>1. /\ Sound(session) /\ IsTracker(session.tracker)
      /\ session.player_name \in Names /\ wire \in [Ids -> SUBSET Characters]
  BY DEF Inv, Sound, IsSession
<1>2. Tells(session.out, {}, {})
  BY TellsNothing DEF HostInv
<1>3. wire' = [wire EXCEPT ![id] = {name}] /\ wire[id] \subseteq {name} /\ UNCHANGED seen
  BY DEF ZoneEntry, LoadoutSwap, Announce
<1>4. wire'[id] = {name} /\ Keeps(wire, wire')
  BY <1>1, <1>3 DEF Keeps
<1>5. Trusted(session.tracker, session.player_name, wire')
  <2>1. Trusted(session.tracker, session.player_name, wire)
    BY DEF VitalInv
  <2> QED BY <1>1, <1>4, <2>1, StillTrusted
<1>6. /\ IsTracker(o) /\ Trusted(o, session.player_name, wire')
      /\ o.pending \subseteq session.tracker.pending
  <2>1. o \in {session.tracker, ObserveSpawn(session.tracker, session.player_name, name, id)}
    BY <1>1 DEF ObserveSpawnIn, Sound, IsSession
  <2>2. /\ IsTracker(ObserveSpawn(session.tracker, session.player_name, name, id))
        /\ Trusted(ObserveSpawn(session.tracker, session.player_name, name, id),
                   session.player_name, wire')
        /\ ObserveSpawn(session.tracker, session.player_name, name, id).pending
             \subseteq session.tracker.pending
    BY <1>1, <1>4, <1>5, TrackerSpawn, SpawnTrusted
  <2> HIDE DEF o
  <2> QED BY <1>1, <1>5, <2>1, <2>2
<1> HIDE DEF o
<1>7. /\ Trusted(TakePending(o), session.player_name, wire')
      /\ TakePending(o).pending \subseteq session.tracker.pending
      /\ \A p \in PendingVitals(o) : p \in session.tracker.pending
                                      /\ wire'[p.id] = {session.player_name}
  BY <1>6, DrainTrusted
<1>8. HeldForPlayer(P, session.tracker, session.player_name, wire')
  BY <1>7 DEF HeldForPlayer
<1> HIDE DEF P
<1>9. ASSUME NEW u, Sound(u), Record(u), u.player_name = session.player_name,
             Tells(u.out, P, {}), u.tracker \in {o, TakePending(o)}
      PROVE  VitalInv'
  <2>1. /\ Trusted(u.tracker, u.player_name, wire')
        /\ u.tracker.pending \subseteq session.tracker.pending
    BY <1>6, <1>7, <1>9
  <2>2. UNCHANGED seen
    BY <1>3
  <2> QED BY ONLY VitalInv, <1>4, <1>8, <1>9, <2>1, <2>2, VitalStep
<1>10. ASSUME NEW opcode
       PROVE  LET u == OnSpawnAdded(session, id, name, form, opcode)
              IN  /\ Sound(u) /\ u.player_name = session.player_name
                  /\ Tells(u.out, P, {}) /\ u.tracker \in {o, TakePending(o)}
  <2> DEFINE u == OnSpawnAdded(session, id, name, form, opcode)
  <2>1. Sound(u) /\ u.player_name = session.player_name
    BY <1>1, SpawnAddedSound
  <2>2. Tells(u.out, P, {}) /\ u.tracker \in {o, TakePending(o)}
    BY <1>1, <1>2, SpawnAddedTells DEF P, o
  <2> QED BY <2>1, <2>2
<1>11. CASE ZoneEntry(id, name, form)
  <2> DEFINE u == OnSpawnAdded(session, id, name, form, "OP_ZoneEntry")
  <2>1. Record(u)
    BY <1>11 DEF ZoneEntry
  <2>2. /\ Sound(u) /\ u.player_name = session.player_name
        /\ Tells(u.out, P, {}) /\ u.tracker \in {o, TakePending(o)}
    BY <1>10
  <2> HIDE DEF u
  <2> QED BY <1>9, <2>1, <2>2
<1>12. CASE LoadoutSwap(id, name, form)
  <2> DEFINE v == OnSpawnAdded(session, id, name, form, "OP_LoadoutSwap")
             w == OnLoadoutSwap(v, id, form)
  <2>1. Record(w)
    BY <1>12 DEF LoadoutSwap
  <2>2. /\ Sound(v) /\ v.player_name = session.player_name
        /\ Tells(v.out, P, {}) /\ v.tracker \in {o, TakePending(o)}
    BY <1>10
  <2> HIDE DEF v
  <2>3. /\ Sound(w) /\ w.player_name = session.player_name
        /\ Tells(w.out, P, {}) /\ w.tracker \in {o, TakePending(o)}
    BY <2>2, SwapSound, OthersTell DEF SameSelves
  <2> HIDE DEF w
  <2> QED BY <1>9, <2>1, <2>3
<1> QED BY <1>11, <1>12

(* The client's report: the id it names has the player's name.             *)
LEMMA SelfPositionVitals ==
  ASSUME Inv, HostInv, VitalInv, NEW id \in Ids0, SelfPosition(id)
  PROVE  VitalInv'
<1> DEFINE u == OnSelfPos(session, id)
           o == ObserveSelfPos(session.tracker, id)
<1> HIDE DEF u
<1>1. /\ Sound(session) /\ IsTracker(session.tracker)
      /\ session.player_name \in Names /\ wire \in [Ids -> SUBSET Characters]
  BY DEF Inv, Sound, IsSession
<1>2. Tells(session.out, {}, {})
  BY TellsNothing DEF HostInv
<1>3. Record(u) /\ UNCHANGED seen
  BY DEF SelfPosition, u
<1>4. /\ Tells(u.out, {}, {})
      /\ u.tracker \in {o, session.tracker}
  BY <1>1, <1>2, SelfPosTells DEF u
<1>5. Sound(u) /\ u.player_name = session.player_name
  BY <1>1, SelfPosSound DEF u
<1>6. Reported(id, session.player_name, wire') /\ Keeps(wire, wire')
  <2>1. CASE session.player_name = "" \/ id = 0
    BY <2>1 DEF SelfPosition, Keeps, Reported
  <2>2. CASE ~(session.player_name = "" \/ id = 0)
    <3>1. id \in Ids
      BY <2>2 DEF Ids0
    <3>2. /\ wire' = [wire EXCEPT ![id] = {session.player_name}]
          /\ wire[id] \subseteq {session.player_name}
      BY <2>2 DEF SelfPosition, Announce
    <3> QED BY <1>1, <3>1, <3>2 DEF Keeps, Reported
  <2> QED BY <2>1, <2>2
<1>7. Trusted(session.tracker, session.player_name, wire')
  <2>1. Trusted(session.tracker, session.player_name, wire)
    BY DEF VitalInv
  <2> QED BY <1>1, <1>6, <2>1, StillTrusted
<1>8. Trusted(o, session.player_name, wire') /\ o.pending = session.tracker.pending
  BY <1>1, <1>6, <1>7, PosTrusted DEF o
<1> HIDE DEF o
<1>9. /\ Trusted(u.tracker, u.player_name, wire')
      /\ u.tracker.pending \subseteq session.tracker.pending
  <2>1. CASE u.tracker = o
    BY <1>5, <1>8, <2>1
  <2>2. CASE u.tracker = session.tracker
    BY <1>5, <1>7, <2>2
  <2> QED BY <1>4, <2>1, <2>2
<1>10. HeldForPlayer({}, session.tracker, session.player_name, wire')
  BY DEF HeldForPlayer
<1> QED BY ONLY VitalInv, <1>3, <1>4, <1>5, <1>6, <1>9, <1>10, VitalStep

(* A stat packet: it is published as the player's, or held by a tracker    *)
(* that knows the player.                                                  *)
LEMMA StatTrusted ==
  ASSUME NEW t, IsTracker(t), NEW player, NEW names, Trusted(t, player, names),
         NEW p, p.spawn_id \in Ids
  PROVE  /\ Trusted(ObserveStatSync(t, p), player, names)
         /\ \/ ObserveStatSync(t, p).pending = t.pending
            \/ /\ t.self_id # 0 /\ ~StatIsSelf(t, p)
               /\ \A q \in ObserveStatSync(t, p).pending : q.id = p.spawn_id /\ q.value = p.value
<1> DEFINE o == ObserveStatSync(t, p)
<1>1. CASE IsSelf(t, p.spawn_id)
  BY <1>1 DEF ObserveStatSync
<1>2. CASE ~IsSelf(t, p.spawn_id) /\ GuessQualifies(t, p)
  <2>1. o = Guess(t, p) /\ t.self_id = 0
    BY <1>2 DEF ObserveStatSync, GuessQualifies
  <2>2. o.self_id = 0 /\ o.alt_id = p.spawn_id /\ o.pending = t.pending
    BY <2>1 DEF Guess, IsTracker
  <2> HIDE DEF o
  <2>3. Trusted(o, player, names) /\ o.pending = t.pending
    BY <2>1, <2>2 DEF Trusted, Ids0
  <2> QED BY <2>3 DEF o
<1>3. CASE ~IsSelf(t, p.spawn_id) /\ ~GuessQualifies(t, p)
  <2>1. o = Hold(t, p) /\ ~StatIsSelf(t, p)
    BY <1>3 DEF ObserveStatSync, StatIsSelf
  <2>2. CASE o = t
    BY <2>2
  <2>3. CASE o # t
    <3> DEFINE held == [id |-> p.spawn_id, has |-> p.has, value |-> p.value]
    <3>1. o = [t EXCEPT !.pending = {held}] /\ t.self_id # 0
      BY <2>1, <2>3 DEF Hold, IsTwinCandidate
    <3>2. held.id = p.spawn_id /\ held.value = p.value
      OBVIOUS
    <3> HIDE DEF o, held
    <3>3. /\ o.self_id = t.self_id /\ o.alt_id = t.alt_id
          /\ o.provisional_id = t.provisional_id /\ o.pending = {held}
      BY <3>1 DEF IsTracker
    <3>4. Trusted(o, player, names)
      BY <3>1, <3>3 DEF Trusted
    <3>5. \A q \in o.pending : q.id = p.spawn_id /\ q.value = p.value
      BY <3>2, <3>3
    <3> QED BY <2>1, <3>1, <3>4, <3>5 DEF o
  <2> QED BY <2>2, <2>3
<1> QED BY <1>1, <1>2, <1>3

LEMMA PublishTells ==
  ASSUME NEW t, Sound(t), NEW P, NEW E, Tells(t.out, P, E), NEW held, held.value \in P
  PROVE  /\ Tells(PublishVitals(t, held).out, P, E)
         /\ PublishVitals(t, held).tracker = t.tracker
<1> DEFINE w == [t EXCEPT !.self_stats = @ \cup {held.value}]
           e == VitalsEvent(held)
<1>1. Sound(w) /\ w.out = t.out /\ w.tracker = t.tracker
  BY EmptiedSound DEF Sound, IsSession
<1>2. PublishVitals(t, held) \in {Emit(w, <<>>), Emit(w, <<e>>)}
  BY DEF PublishVitals, PlayerVitals, VitalsEvent
<1>3. e.kind = "PlayerVitalsUpdated" /\ e.value \in P
  BY DEF VitalsEvent
<1> HIDE DEF w, e
<1>4. \A events : Emit(w, events).tracker = w.tracker /\ Emit(w, events).out = w.out \o events
  BY <1>1 DEF Emit, Sound, IsSession
<1>5. Tells(t.out \o <<e>>, P, E)
  BY <1>3, TellsMore
<1>6. t.out \o <<>> = t.out
  BY StillSequence DEF Tells
<1> QED BY <1>1, <1>2, <1>4, <1>5, <1>6

LEMMA StatTells ==
  ASSUME NEW s, Sound(s), Tells(s.out, {}, {}), NEW p
  PROVE  LET u == OnStatSync(s, p)
         IN  /\ u.tracker = ObserveStatSync(s.tracker, p)
             /\ \/ Tells(u.out, {}, {})
                \/ Tells(u.out, {p.value}, {}) /\ StatIsSelf(s.tracker, p)
                \/ Tells(u.out, {}, {p.value}) /\ p.spawn_id \in s.entities
<1> DEFINE o == ObserveStatSync(s.tracker, p)
           t == [s EXCEPT !.tracker = o]
           u == OnStatSync(s, p)
           e == [kind |-> "SpawnHealthUpdated", id |-> p.spawn_id, value |-> p.value]
           held == [id |-> p.spawn_id, has |-> p.has, value |-> p.value]
<1>1. Sound(t) /\ t.out = s.out /\ t.tracker = o
  <2>1. IsTracker(s.tracker)
    BY DEF Sound, IsSession
  <2>2. IsTracker(o) /\ o.self_id = s.tracker.self_id
    BY <2>1, TrackerKeepsSelf
  <2> HIDE DEF o
  <2> QED BY <2>2, WithTracker DEF Sound, IsSession
<1>2. \/ u = t
      \/ u = PublishVitals(t, held) /\ StatIsSelf(s.tracker, p)
      \/ u = Emit(t, <<e>>) /\ p.spawn_id \in s.entities
  BY DEF OnStatSync
<1>3. held.value = p.value /\ e.kind = "SpawnHealthUpdated" /\ e.value = p.value
  OBVIOUS
<1> HIDE DEF o, t, u, e, held
<1>4. /\ Tells(t.out, {}, {}) /\ Tells(t.out, {p.value}, {}) /\ Tells(t.out, {}, {p.value})
  BY <1>1 DEF Tells
<1>5. CASE u = t
  BY <1>1, <1>4, <1>5 DEF u, o
<1>6. CASE u = PublishVitals(t, held) /\ StatIsSelf(s.tracker, p)
  <2>1. Tells(u.out, {p.value}, {}) /\ u.tracker = t.tracker
    BY <1>1, <1>3, <1>4, <1>6, PublishTells
  <2> QED BY <1>1, <1>6, <2>1 DEF u, o
<1>7. CASE u = Emit(t, <<e>>) /\ p.spawn_id \in s.entities
  <2>1. u.out = t.out \o <<e>> /\ u.tracker = t.tracker
    BY <1>1, <1>7 DEF Emit, Sound, IsSession
  <2>2. Tells(t.out \o <<e>>, {}, {p.value})
    BY <1>3, <1>4, TellsMore
  <2> QED BY <1>1, <1>7, <2>1, <2>2 DEF u, o
<1> QED BY <1>2, <1>5, <1>6, <1>7

(* Its snapshot is new; if another's health showed it, it is not held as   *)
(* the player's, for that entity has another name.                         *)
LEMMA StatVitals ==
  ASSUME Inv, HostInv, VitalInv, NEW id \in Ids, NEW wide \in BOOLEAN, NEW has \in StatSets,
         Stat(id, wide, has)
  PROVE  VitalInv'
<1> DEFINE p == [spawn_id |-> id, wide |-> wide, has |-> has, value |-> seen']
           u == OnStatSync(session, p)
<1>1. p.spawn_id = id /\ p.value = seen'
  OBVIOUS
<1>2. Record(u) /\ wire' = wire /\ seen' = seen + 1
  BY DEF Stat
<1> HIDE DEF p
<1>3. /\ Sound(session) /\ IsTracker(session.tracker)
      /\ Trusted(session.tracker, session.player_name, wire)
      /\ Tells(session.out, {}, {})
  BY TellsNothing DEF Inv, HostInv, VitalInv, Sound, IsSession
<1>4. /\ u.tracker = ObserveStatSync(session.tracker, p)
      /\ \/ Tells(u.out, {}, {})
         \/ Tells(u.out, {p.value}, {}) /\ StatIsSelf(session.tracker, p)
         \/ Tells(u.out, {}, {p.value}) /\ p.spawn_id \in session.entities
  BY <1>3, StatTells
<1>5. Sound(u) /\ u.player_name = session.player_name
  BY <1>3, StatSound DEF SameSelves
<1> HIDE DEF u
<1>6. /\ Trusted(u.tracker, u.player_name, wire)
      /\ \/ u.tracker.pending = session.tracker.pending
         \/ /\ session.tracker.self_id # 0 /\ ~StatIsSelf(session.tracker, p)
            /\ \A q \in u.tracker.pending : q.id = id /\ q.value = seen'
  BY <1>1, <1>3, <1>4, <1>5, StatTrusted
<1>7. /\ session'.tracker = u.tracker /\ session'.player_name = session.player_name
      /\ fresh' = fresh
  BY <1>2, <1>5 DEF Record, Deliver, Sound, IsSession
<1>8. \/ asPlayer' \subseteq asPlayer /\ asEntity' \subseteq asEntity
      \/ /\ asPlayer' \subseteq asPlayer \cup {seen'} /\ asEntity' \subseteq asEntity
         /\ StatIsSelf(session.tracker, p)
      \/ /\ asPlayer' \subseteq asPlayer /\ asEntity' \subseteq asEntity \cup {seen'}
         /\ id \in session.entities
  BY <1>1, <1>2, <1>4 DEF Record, Published, Tells, Values0
<1>9. seen \in Nat /\ fresh \in Nat /\ fresh <= seen
  BY DEF VitalInv
<1>10. /\ asPlayer \cup asEntity \subseteq fresh + 1 .. seen
       /\ asPlayer \cap asEntity = {}
  BY DEF VitalInv, SnapshotHasOneOwner
<1>11. ASSUME NEW q, Foreign(q) PROVE Foreign(q)'
  BY <1>2, <1>7, <1>11 DEF Foreign
<1>12. session.tracker.self_id # 0 /\ id \in session.entities => Foreign(id)
  BY <1>3 DEF Trusted, Inv, ToldApart, Foreign
<1>13. seen' \in fresh' + 1 .. seen' /\ seen' \notin fresh + 1 .. seen
  BY <1>2, <1>7, <1>9
<1>14. fresh + 1 .. seen \subseteq fresh' + 1 .. seen'
  BY <1>2, <1>7, <1>9
<1>15. ASSUME NEW q \in session'.tracker.pending
       PROVE  q.value \in fresh' + 1 .. seen' /\ (q.value \in asEntity' => Foreign(q.id)')
  <2>1. CASE u.tracker.pending = session.tracker.pending
    <3>1. q.value \in fresh + 1 .. seen /\ (q.value \in asEntity => Foreign(q.id))
      BY <1>7, <2>1 DEF VitalInv
    <3>2. q.value \in asEntity' => q.value \in asEntity
      BY <1>8, <1>13, <3>1
    <3> QED BY <1>11, <1>14, <3>1, <3>2
  <2>2. CASE u.tracker.pending # session.tracker.pending
    <3>1. /\ session.tracker.self_id # 0 /\ ~StatIsSelf(session.tracker, p)
          /\ q.id = id /\ q.value = seen'
      BY <1>6, <1>7, <2>2
    <3>2. seen' \in asEntity' => id \in session.entities
      BY <1>8, <1>10, <1>13
    <3> QED BY <1>11, <1>12, <1>13, <3>1, <3>2
  <2> QED BY <2>1, <2>2
<1>16. asPlayer' \cup asEntity' \subseteq fresh' + 1 .. seen' /\ asPlayer' \cap asEntity' = {}
  BY <1>8, <1>10, <1>13, <1>14
<1>17. Trusted(session'.tracker, session'.player_name, wire')
  BY <1>2, <1>5, <1>6, <1>7
<1>18. seen' \in Nat /\ fresh' \in Nat /\ fresh' <= seen'
  BY <1>2, <1>7, <1>9
<1> QED BY <1>15, <1>16, <1>17, <1>18 DEF VitalInv, SnapshotHasOneOwner

(* A reset, or the player's own death, makes a new tracker.                *)
LEMMA NewTracker ==
  ASSUME NEW s, Sound(s)
  PROVE  /\ ResetCorrelations(s).tracker = Default
         /\ ResetFor(s).tracker = Default
         /\ \A name \in Characters : OnEnterWorld(s, name).tracker = Default
         /\ \A name \in Characters, form \in Forms : OnProfile(s, name, form).tracker = Default
         /\ \A id : IsPlayerId(s, id) => OnSpawnKilled(s, id).tracker = Default
<1> DEFINE r == ResetFor(s)
<1>1. ResetCorrelations(s).tracker = Default
  BY DEF ResetCorrelations, Sound, IsSession
<1>2. Sound(r)
  BY ResetForSound
<1>3. r.tracker = Default
  BY <1>1, ResetSound DEF ResetFor, Emit, Sound, IsSession
<1>4. ASSUME NEW id, IsPlayerId(s, id) PROVE OnSpawnKilled(s, id).tracker = Default
  BY <1>4 DEF OnSpawnKilled, ClearPlayerId, Emit, Sound, IsSession
<1>5. ASSUME NEW name, NEW identity, NEW events
      PROVE  Emit([r EXCEPT !.player_name = name, !.identity = identity], events).tracker = Default
  <2> HIDE DEF r
  <2> QED BY <1>2, <1>3 DEF Emit, Sound, IsSession
<1>6. ASSUME NEW name, NEW identity, NEW events
      PROVE  Emit([r EXCEPT !.identity = identity, !.player_name = name], events).tracker = Default
  <2> HIDE DEF r
  <2> QED BY <1>2, <1>3 DEF Emit, Sound, IsSession
<1>7. ASSUME NEW name \in Characters PROVE OnEnterWorld(s, name).tracker = Default
  <2> DEFINE identity == IF s.player_name # name THEN {} ELSE r.identity
  <2>1. OnEnterWorld(s, name)
          = Emit([r EXCEPT !.identity = identity, !.player_name = name],
                 <<[kind |-> "EnterWorld", name |-> name]>>)
    <3> HIDE DEF r
    <3> QED BY <1>2 DEF OnEnterWorld, r, Sound, IsSession
  <2> DEFINE events == <<[kind |-> "EnterWorld", name |-> name]>>
             u == Emit([r EXCEPT !.identity = identity, !.player_name = name], events)
  <2> HIDE DEF r, identity, events
  <2>2. u.tracker = Default
    BY <1>6
  <2> QED BY <2>1, <2>2 DEF events
<1>8. ASSUME NEW name \in Characters, NEW form \in Forms PROVE OnProfile(s, name, form).tracker = Default
  BY <1>5 DEF OnProfile
<1> HIDE DEF r
<1> QED BY <1>1, <1>3, <1>4, <1>7, <1>8 DEF r

LEMMA NextVital == Inv /\ HostInv /\ VitalInv /\ [Next]_vars => VitalInv'
<1> SUFFICES ASSUME Inv, HostInv, VitalInv, [Next]_vars PROVE VitalInv'
  OBVIOUS
<1>s. Sound(session) /\ Tells(session.out, {}, {})
  BY TellsNothing DEF Inv, HostInv
<1>b. ASSUME NEW u, Sound(u), u.tracker = Default, Deliver(u), Severed PROVE VitalInv'
  <2>1. session'.tracker = Default
    BY <1>b DEF Deliver, Sound, IsSession
  <2> QED BY <1>b, <2>1, BoundaryVitals
<1>1. ASSUME NEW name \in Characters, EnterWorld(name) PROVE VitalInv'
  BY <1>1, <1>s, <1>b, EnterWorldSound, NewTracker DEF EnterWorld, Boundary
<1>2. ASSUME NEW name \in Characters, NEW form \in Forms, PlayerProfile(name, form)
      PROVE  VitalInv'
  BY <1>2, <1>s, <1>b, ProfileSound, NewTracker DEF PlayerProfile, Boundary
<1>3. CASE ZoneTransition
  BY <1>3, <1>s, <1>b, ResetForSound, NewTracker DEF ZoneTransition, Boundary
<1>4. CASE FlushReset
  BY <1>4, <1>s, <1>b, ResetForSound, NewTracker DEF FlushReset, Boundary
<1>5. CASE FlushEnd
  BY <1>5, <1>s, NewTracker, BoundaryVitals DEF FlushEnd, Boundary
<1>6. ASSUME NEW id \in Ids, NEW name \in Characters, NEW form \in Forms,
             ZoneEntry(id, name, form) \/ LoadoutSwap(id, name, form)
      PROVE  VitalInv'
  BY <1>6, RecordsVitals
<1>7. ASSUME NEW id \in Ids, DeleteSpawn(id) PROVE VitalInv'
  <2>1. Record(OnSpawnRemoved(session, id)) /\ UNCHANGED <<wire, seen>>
    BY <1>7 DEF DeleteSpawn
  <2> QED BY <1>s, <2>1, RemovedSound, OthersTell, NoVitals
<1>8. ASSUME NEW id \in Ids, Death(id) PROVE VitalInv'
  <2>1. CASE IsPlayerId(session, id)
    BY <1>8, <1>s, <1>b, <2>1, KilledSound, NewTracker DEF Death
  <2>2. CASE ~IsPlayerId(session, id)
    <3>1. Record(OnSpawnKilled(session, id)) /\ UNCHANGED <<wire, seen>>
      BY <1>8, <2>2 DEF Death
    <3> QED BY <1>s, <2>2, <3>1, KilledSound, OthersTell, NoVitals
  <2> QED BY <2>1, <2>2
<1>9. ASSUME NEW id \in Ids, NEW form \in Forms, Illusion(id, form) PROVE VitalInv'
  <2>1. Record(OnSpawnIllusion(session, id, form)) /\ UNCHANGED <<wire, seen>>
    BY <1>9 DEF Illusion
  <2> DEFINE u == OnSpawnIllusion(session, id, form)
  <2>2. Sound(u) /\ u.player_name = session.player_name
    BY <1>s, ShownSound DEF SameSelves
  <2>3. Tells(u.out, {}, {}) /\ u.tracker = session.tracker
    BY <1>s, IllusionTells
  <2> HIDE DEF u
  <2> QED BY <2>1, <2>2, <2>3, NoVitals DEF u
<1>10. ASSUME NEW form \in Forms, LevelUpdate(form) PROVE VitalInv'
  <2>1. Record(OnLevelUpdate(session, form)) /\ UNCHANGED <<wire, seen>>
    BY <1>10 DEF LevelUpdate
  <2> QED BY <1>s, <2>1, ShownSound, OthersTell, NoVitals DEF SameSelves
<1>11. ASSUME NEW id \in Ids0, SelfPosition(id) PROVE VitalInv'
  BY <1>11, SelfPositionVitals
<1>12. ASSUME NEW id \in Ids, NEW wide \in BOOLEAN, NEW has \in StatSets, Stat(id, wide, has)
       PROVE  VitalInv'
  BY <1>12, StatVitals
<1>13. CASE TakeSelfStats
  <2>1. /\ session'.tracker = session.tracker /\ session'.player_name = session.player_name
        /\ UNCHANGED <<wire, seen, fresh, asPlayer, asEntity>>
    BY <1>13, <1>s DEF TakeSelfStats, history, Sound, IsSession
  <2> QED BY <2>1 DEF VitalInv, Foreign, SnapshotHasOneOwner
<1>14. CASE UNCHANGED vars
  BY <1>14 DEF vars, history, VitalInv, Foreign, SnapshotHasOneOwner
<1> QED
  BY <1>1, <1>2, <1>3, <1>4, <1>5, <1>6, <1>7, <1>8, <1>9, <1>10, <1>11, <1>12, <1>13, <1>14
  DEF Next

LEMMA InitVital == Init => VitalInv
<1> SUFFICES ASSUME Init PROVE VitalInv
  OBVIOUS
<1>1. session.tracker = Default
  <2>1. PICK b \in Backends : session = NewSession(b)
    BY DEF Init
  <2> QED BY <2>1 DEF NewSession
<1>2. Trusted(session.tracker, session.player_name, wire) /\ session.tracker.pending = {}
  BY <1>1, DefaultTrusted
<1> QED BY <1>2 DEF Init, VitalInv, SnapshotHasOneOwner

LEMMA VitalAlways == Spec => []VitalInv
<1>1. Spec => []Inv /\ []HostInv
  BY InvCorrect, HostAlways
<1> QED BY <1>1, InitVital, NextVital, PTL DEF Spec

-----------------------------------------------------------------------------
(* Vitals: what is handed out                                              *)

(* What the host has yet to drain was seen since the last reset.           *)
HandedOut ==
  /\ began \in Nat /\ began <= fresh
  /\ session.self_stats \subseteq began + 1 .. seen

HeldValues(t) == {p.value : p \in t.pending}

LEMMA PublishHands ==
  ASSUME NEW s, Sound(s), NEW held
  PROVE  PublishVitals(s, held).self_stats = s.self_stats \cup {held.value}
<1> DEFINE stats == s.self_stats \cup {held.value}
           u == [s EXCEPT !.self_stats = stats]
<1>1. Sound(u) /\ u.self_stats = stats
  BY EmptiedSound DEF Sound, IsSession
<1>2. PublishVitals(s, held) = Emit(u, PlayerVitals(held))
  BY DEF PublishVitals
<1> HIDE DEF u, stats
<1>3. Emit(u, PlayerVitals(held)).self_stats = u.self_stats
  BY <1>1 DEF Emit, Sound, IsSession
<1> QED BY <1>1, <1>2, <1>3 DEF stats

LEMMA DrainHands ==
  ASSUME NEW v, Sound(v)
  PROVE  TakePendingPlayerVitals(v).self_stats \subseteq v.self_stats \cup HeldValues(v.tracker)
<1> DEFINE t == [v EXCEPT !.tracker = TakePending(v.tracker)]
           u == TakePendingPlayerVitals(v)
<1>1. Sound(t) /\ t.self_stats = v.self_stats
  BY TrackerKeepsSelf, WithTracker DEF Sound, IsSession
<1>2. \/ u = t
      \/ \E held \in PendingVitals(v.tracker) : u = PublishVitals(t, held)
  BY DEF TakePendingPlayerVitals
<1>3. \A held \in PendingVitals(v.tracker) : held.value \in HeldValues(v.tracker)
  BY DEF PendingVitals, HeldValues
<1> HIDE DEF t, u
<1>4. \A held : PublishVitals(t, held).self_stats = t.self_stats \cup {held.value}
  BY <1>1, PublishHands
<1>5. u.self_stats \subseteq v.self_stats \cup HeldValues(v.tracker)
  BY <1>1, <1>2, <1>3, <1>4
<1> QED BY <1>5 DEF u

(* A record hands out, if anything, what was held.                         *)
LEMMA SpawnAddedHands ==
  ASSUME NEW s, Sound(s), NEW id \in Ids, NEW name \in Characters, NEW form \in Forms,
         NEW opcode
  PROVE  OnSpawnAdded(s, id, name, form, opcode).self_stats
           \subseteq s.self_stats \cup HeldValues(s.tracker)
<1> DEFINE u       == OnSpawnAdded(s, id, name, form, opcode)
           routing == ClassifySpawn(s, name, id)
           t       == ObserveSpawnIn(s, name, id)
<1>1. /\ routing \in {"AdoptSelf", "SelfTwin", "NotSelf"}
      /\ routing # "AdoptSelf" => Sound(t)
  BY SpawnRouted
<1>2. t.self_stats = s.self_stats
  BY DEF ObserveSpawnIn, Sound, IsSession
<1>3. t.tracker.pending \subseteq s.tracker.pending
  <2>1. t.tracker \in {s.tracker, ObserveSpawn(s.tracker, s.player_name, name, id)}
    BY DEF ObserveSpawnIn, Sound, IsSession
  <2>2. ObserveSpawn(s.tracker, s.player_name, name, id).pending \subseteq s.tracker.pending
    <3> DEFINE tr == s.tracker
               pn == s.player_name
    <3>1. IsTracker(tr)
      BY DEF Sound, IsSession
    <3> HIDE DEF tr, pn
    <3>2. Adopt(tr, id).pending \subseteq tr.pending /\ LearnTwin(tr, id).pending = tr.pending
      BY <3>1 DEF Adopt, LearnTwin, IsTracker
    <3>3. ObserveSpawn(tr, pn, name, id) \in {tr, Adopt(tr, id), LearnTwin(tr, id)}
      BY DEF ObserveSpawn, SpawnRouting
    <3>4. ObserveSpawn(tr, pn, name, id).pending \subseteq tr.pending
      BY <3>2, <3>3
    <3> QED BY <3>4 DEF tr, pn
  <2> HIDE DEF t
  <2> QED BY <2>1, <2>2
<1>4. HeldValues(t.tracker) \subseteq HeldValues(s.tracker)
  BY <1>3 DEF HeldValues
<1>5. CASE routing = "NotSelf"
  <2> DEFINE v == [t EXCEPT !.entities = @ \cup {id}]
             e == [kind |-> "SpawnAdded", id |-> id]
  <2>1. Sound(v) /\ v.self_stats = t.self_stats
    BY <1>1, <1>5 DEF Sound, IsSession, Agrees
  <2>2. u = Emit(v, <<e>>)
    BY <1>5 DEF OnSpawnAdded
  <2> HIDE DEF v, e, u, t
  <2>3. u.self_stats = s.self_stats
    BY <1>2, <2>1, <2>2 DEF Emit, Sound, IsSession
  <2> QED BY <2>3 DEF u
<1>6. CASE routing = "SelfTwin"
  <2>1. u = TakePendingPlayerVitals(t)
    BY <1>6 DEF OnSpawnAdded
  <2> HIDE DEF u, t, routing
  <2>2. u.self_stats \subseteq t.self_stats \cup HeldValues(t.tracker)
    BY <1>1, <1>6, <2>1, DrainHands
  <2>3. u.self_stats \subseteq s.self_stats \cup HeldValues(s.tracker)
    BY <1>2, <1>4, <2>2
  <2> QED BY <2>3 DEF u
<1>7. CASE routing = "AdoptSelf"
  <2> DEFINE v      == Adopted(s, id, name, form)
             events == Announced(id, name, form, opcode)
             w      == Emit(v, events)
  <2>1. Sound(v) /\ v.tracker = t.tracker
    BY <1>7, AdoptedSound
  <2>2. u = TakePendingPlayerVitals(w)
    BY <1>7
    DEF OnSpawnAdded, AdoptPlayer, Adopted, Announced, Me, IdentityEvent, MovedEvent
  <2>3. v.self_stats = s.self_stats
    BY DEF Adopted, ObserveSpawnIn, Sound, IsSession
  <2> HIDE DEF u, t, routing, v
  <2>4. Sound(w) /\ w.tracker = t.tracker /\ w.self_stats = s.self_stats
    BY <2>1, <2>3, EmitSound DEF Emit, Sound, IsSession
  <2> HIDE DEF w, events
  <2>5. u.self_stats \subseteq w.self_stats \cup HeldValues(w.tracker)
    BY <2>2, <2>4, DrainHands
  <2>6. u.self_stats \subseteq s.self_stats \cup HeldValues(s.tracker)
    BY <1>4, <2>4, <2>5
  <2> QED BY <2>6 DEF u
<1> QED BY <1>1, <1>5, <1>6, <1>7

LEMMA EmitHands ==
  ASSUME NEW s, Sound(s), NEW events
  PROVE  /\ Emit(s, events).self_stats = s.self_stats
         /\ \A identity : Emit([s EXCEPT !.identity = identity], events).self_stats = s.self_stats
BY DEF Emit, Sound, IsSession

(* The other packets hand out nothing, the player's death included.        *)
LEMMA OthersHand ==
  ASSUME NEW s, Sound(s), NEW id, NEW form
  PROVE  /\ OnLoadoutSwap(s, id, form).self_stats = s.self_stats
         /\ OnSpawnRemoved(s, id).self_stats = s.self_stats
         /\ OnSpawnKilled(s, id).self_stats = s.self_stats
         /\ OnSpawnIllusion(s, id, form).self_stats = s.self_stats
         /\ OnLevelUpdate(s, form).self_stats = s.self_stats
         /\ OnSelfPos(s, id).self_stats = s.self_stats
<1>1. OnLoadoutSwap(s, id, form).self_stats = s.self_stats
  BY EmitHands DEF OnLoadoutSwap
<1>2. OnSpawnRemoved(s, id).self_stats = s.self_stats
  BY DEF OnSpawnRemoved, Emit, Sound, IsSession
<1>3. OnSpawnKilled(s, id).self_stats = s.self_stats
  BY DEF OnSpawnKilled, ClearPlayerId, Emit, Sound, IsSession
<1>4. OnSpawnIllusion(s, id, form).self_stats = s.self_stats
  <2> DEFINE identity == {[i EXCEPT !.form = form] : i \in s.identity}
  <2>1. \/ OnSpawnIllusion(s, id, form) = Emit([s EXCEPT !.identity = identity],
                  <<[kind |-> "PlayerAppearanceUpdated", form |-> form]>>)
        \/ OnSpawnIllusion(s, id, form) = Emit(s, <<[kind |-> "SpawnIllusion", id |-> id]>>)
    BY DEF OnSpawnIllusion, Sound, IsSession
  <2> HIDE DEF identity
  <2> QED BY <2>1, EmitHands
<1>5. OnLevelUpdate(s, form).self_stats = s.self_stats
  BY EmitHands DEF OnLevelUpdate
<1>6. OnSelfPos(s, id).self_stats = s.self_stats
  BY DEF OnSelfPos, Emit, Sound, IsSession
<1> QED BY <1>1, <1>2, <1>3, <1>4, <1>5, <1>6

(* A reset leaves nothing to drain.                                        *)
LEMMA ResetHands ==
  ASSUME NEW s, Sound(s)
  PROVE  /\ ResetCorrelations(s).self_stats = {}
         /\ ResetFor(s).self_stats = {}
         /\ \A name \in Characters : OnEnterWorld(s, name).self_stats = {}
         /\ \A name \in Characters, form \in Forms : OnProfile(s, name, form).self_stats = {}
<1> DEFINE r == ResetFor(s)
<1>1. ResetCorrelations(s).self_stats = {}
  BY DEF ResetCorrelations, Sound, IsSession
<1>2. Sound(r) /\ r.self_stats = {}
  BY <1>1, ResetSound, ResetForSound, EmitHands DEF ResetFor
<1>3. ASSUME NEW name, NEW identity, NEW events
      PROVE  Emit([r EXCEPT !.player_name = name, !.identity = identity], events).self_stats = {}
  <2> HIDE DEF r
  <2> QED BY <1>2 DEF Emit, Sound, IsSession
<1>4. ASSUME NEW name \in Characters PROVE OnEnterWorld(s, name).self_stats = {}
  <2> DEFINE v == [r EXCEPT !.identity = IF s.player_name # name THEN {} ELSE @,
                            !.player_name = name]
  <2>1. OnEnterWorld(s, name) = Emit(v, <<[kind |-> "EnterWorld", name |-> name]>>)
    BY DEF OnEnterWorld
  <2> HIDE DEF r
  <2>2. v.self_stats = {} /\ v.out = r.out /\ Emit(v, <<[kind |-> "EnterWorld", name |-> name]>>).self_stats = v.self_stats
    BY <1>2 DEF Emit, Sound, IsSession
  <2> QED BY <2>1, <2>2
<1>5. ASSUME NEW name \in Characters, NEW form \in Forms PROVE OnProfile(s, name, form).self_stats = {}
  BY <1>3 DEF OnProfile
<1> HIDE DEF r
<1> QED BY <1>1, <1>2, <1>4, <1>5 DEF r

LEMMA HandedStep ==
  ASSUME VitalInv, HandedOut, NEW u, Sound(u), Record(u), UNCHANGED seen,
         u.self_stats \subseteq session.self_stats \cup HeldValues(session.tracker)
  PROVE  HandedOut'
<1>1. session'.self_stats = u.self_stats /\ began' = began /\ fresh' = fresh
  BY DEF Record, Deliver, Sound, IsSession
<1>2. HeldValues(session.tracker) \subseteq fresh + 1 .. seen
  BY DEF HeldValues, VitalInv
<1>3. fresh + 1 .. seen \subseteq began + 1 .. seen
  BY DEF HandedOut, VitalInv
<1> QED BY <1>1, <1>2, <1>3 DEF HandedOut

LEMMA StatHands ==
  ASSUME Sound(session), VitalInv, HandedOut, NEW id \in Ids, NEW wide \in BOOLEAN,
         NEW has \in StatSets, Stat(id, wide, has)
  PROVE  HandedOut'
<1> DEFINE p == [spawn_id |-> id, wide |-> wide, has |-> has, value |-> seen']
           u == OnStatSync(session, p)
           t == [session EXCEPT !.tracker = ObserveStatSync(session.tracker, p)]
<1>1. Record(u) /\ seen' = seen + 1
  BY DEF Stat
<1>2. p.value = seen'
  OBVIOUS
<1> HIDE DEF p
<1>3. Sound(u)
  BY StatSound
<1>4. Sound(t) /\ t.self_stats = session.self_stats
  BY TrackerKeepsSelf, WithTracker DEF Sound, IsSession
<1>5. \/ \E held : held.value = p.value /\ u = PublishVitals(t, held)
      \/ \E events : u = Emit(t, events)
      \/ u = t
  BY DEF OnStatSync
<1> HIDE DEF t, u
<1>6. u.self_stats \subseteq session.self_stats \cup {seen'}
  BY <1>2, <1>4, <1>5, PublishHands, EmitHands
<1>7. session'.self_stats = u.self_stats /\ began' = began /\ fresh' = fresh
  BY <1>1, <1>3 DEF Record, Deliver, Sound, IsSession
<1> QED BY <1>1, <1>6, <1>7 DEF HandedOut, VitalInv

LEMMA NextHanded == Inv /\ VitalInv /\ HandedOut /\ [Next]_vars => HandedOut'
<1> SUFFICES ASSUME Inv, VitalInv, HandedOut, [Next]_vars PROVE HandedOut'
  OBVIOUS
<1>s. Sound(session)
  BY DEF Inv
<1>b. ASSUME Boundary, session'.self_stats = {} PROVE HandedOut'
  BY <1>b DEF Boundary, Severed, VitalInv, HandedOut
<1>d. ASSUME NEW u, Sound(u), Deliver(u) PROVE session'.self_stats = u.self_stats
  BY <1>d DEF Deliver, Sound, IsSession
<1>1. ASSUME NEW name \in Characters, EnterWorld(name) PROVE HandedOut'
  BY <1>1, <1>s, <1>b, <1>d, EnterWorldSound, ResetHands DEF EnterWorld
<1>2. ASSUME NEW name \in Characters, NEW form \in Forms, PlayerProfile(name, form)
      PROVE  HandedOut'
  BY <1>2, <1>s, <1>b, <1>d, ProfileSound, ResetHands DEF PlayerProfile
<1>3. CASE ZoneTransition \/ FlushReset
  BY <1>3, <1>s, <1>b, <1>d, ResetForSound, ResetHands DEF ZoneTransition, FlushReset
<1>4. CASE FlushEnd
  BY <1>4, <1>s, <1>b, ResetHands DEF FlushEnd
<1>5. ASSUME NEW id \in Ids, NEW name \in Characters, NEW form \in Forms, NEW opcode
      PROVE  LET u == OnSpawnAdded(session, id, name, form, opcode)
             IN  Sound(u) /\ u.self_stats \subseteq session.self_stats \cup HeldValues(session.tracker)
  BY <1>s, SpawnAddedSound, SpawnAddedHands
<1>6. ASSUME NEW id \in Ids, NEW name \in Characters, NEW form \in Forms, ZoneEntry(id, name, form)
      PROVE  HandedOut'
  BY <1>5, <1>6, HandedStep DEF ZoneEntry
<1>7. ASSUME NEW id \in Ids, NEW name \in Characters, NEW form \in Forms, LoadoutSwap(id, name, form)
      PROVE  HandedOut'
  <2> DEFINE v == OnSpawnAdded(session, id, name, form, "OP_LoadoutSwap")
             w == OnLoadoutSwap(v, id, form)
  <2>1. Sound(v) /\ v.self_stats \subseteq session.self_stats \cup HeldValues(session.tracker)
    BY <1>5
  <2>2. Record(w) /\ UNCHANGED seen
    BY <1>7 DEF LoadoutSwap
  <2> HIDE DEF v
  <2>3. Sound(w) /\ w.self_stats = v.self_stats
    BY <2>1, SwapSound, OthersHand
  <2> HIDE DEF w
  <2> QED BY <2>1, <2>2, <2>3, HandedStep
<1>8. ASSUME NEW id \in Ids, DeleteSpawn(id) PROVE HandedOut'
  <2>1. Record(OnSpawnRemoved(session, id)) /\ UNCHANGED seen
    BY <1>8 DEF DeleteSpawn
  <2> QED BY <1>s, <2>1, RemovedSound, OthersHand, HandedStep
<1>9. ASSUME NEW id \in Ids, Death(id) PROVE HandedOut'
  <2> DEFINE u == OnSpawnKilled(session, id)
  <2>1. Sound(u) /\ u.self_stats = session.self_stats
    BY <1>s, KilledSound, OthersHand
  <2>2. \/ Record(u) /\ UNCHANGED seen
        \/ Deliver(u) /\ Severed /\ UNCHANGED began
    BY <1>9 DEF Death
  <2> HIDE DEF u
  <2>3. CASE Record(u) /\ UNCHANGED seen
    BY <2>1, <2>3, HandedStep
  <2>4. CASE Deliver(u) /\ Severed /\ UNCHANGED began
    <3>1. session'.self_stats = session.self_stats
      BY <1>d, <2>1, <2>4
    <3> QED BY <2>4, <3>1 DEF HandedOut, VitalInv, Severed
  <2> QED BY <2>2, <2>3, <2>4
<1>10. ASSUME NEW id \in Ids, NEW form \in Forms, Illusion(id, form) PROVE HandedOut'
  <2>1. Record(OnSpawnIllusion(session, id, form)) /\ UNCHANGED seen
    BY <1>10 DEF Illusion
  <2> QED BY <1>s, <2>1, ShownSound, OthersHand, HandedStep
<1>11. ASSUME NEW form \in Forms, LevelUpdate(form) PROVE HandedOut'
  <2>1. Record(OnLevelUpdate(session, form)) /\ UNCHANGED seen
    BY <1>11 DEF LevelUpdate
  <2> QED BY <1>s, <2>1, ShownSound, OthersHand, HandedStep
<1>12. ASSUME NEW id \in Ids0, SelfPosition(id) PROVE HandedOut'
  <2>1. Record(OnSelfPos(session, id)) /\ UNCHANGED seen
    BY <1>12 DEF SelfPosition
  <2> QED BY <1>s, <2>1, SelfPosSound, OthersHand, HandedStep
<1>13. ASSUME NEW id \in Ids, NEW wide \in BOOLEAN, NEW has \in StatSets, Stat(id, wide, has)
       PROVE  HandedOut'
  BY <1>13, <1>s, StatHands
<1>14. CASE TakeSelfStats
  <2>1. session'.self_stats = {} /\ UNCHANGED <<seen, began, fresh>>
    BY <1>14, <1>s DEF TakeSelfStats, history, Sound, IsSession
  <2> QED BY <2>1 DEF HandedOut
<1>15. CASE UNCHANGED vars
  BY <1>15 DEF vars, history, HandedOut
<1> QED
  BY <1>1, <1>2, <1>3, <1>4, <1>6, <1>7, <1>8, <1>9, <1>10, <1>11, <1>12, <1>13, <1>14, <1>15
  DEF Next

LEMMA HandedAlways == Spec => []HandedOut
<1>1. Init => HandedOut
  <2> SUFFICES ASSUME Init PROVE HandedOut
    OBVIOUS
  <2>1. PICK b \in Backends : session = NewSession(b)
    BY DEF Init
  <2>2. session.self_stats = {}
    BY <2>1 DEF NewSession
  <2> QED BY <2>2 DEF Init, HandedOut
<1> QED BY <1>1, NextHanded, InvCorrect, VitalAlways, PTL DEF Spec

-----------------------------------------------------------------------------
(* Theorems                                                                *)

(* For any characters, ids and packets in any order, the player id, the    *)
(* identity record and the tracker's adopted id agree after every packet   *)
(* (lib.rs:594-597, 651-664, 780-791, 942-949, 2145-2150).                 *)
THEOREM IdentityCorrect == Spec => []IdentityAgrees
<1>1. Inv => IdentityAgrees
  BY DEF Inv, Sound, Agrees, IdentityAgrees
<1> QED BY <1>1, InvCorrect, PTL

(* For any ids and names on the wire, the player is never listed as one of *)
(* the entities once the character is known (lib.rs:766-778, 969-973).     *)
THEOREM ListingCorrect == Spec => []PlayerIsNotListed
<1>1. Inv => PlayerIsNotListed
  BY DEF Inv, ToldApart, PlayerIsNotListed
<1> QED BY <1>1, InvCorrect, PTL

(* A host that only follows the published events has, after every packet,  *)
(* the identity the session has (lib.rs:794-796).                          *)
THEOREM HostHasTheIdentity == Spec => []HostFollowsIdentity
<1>1. HostInv => HostFollowsIdentity
  BY DEF HostInv
<1> QED BY <1>1, HostAlways, PTL

(* For any ids, stats and packets in any order, a snapshot of vitals is    *)
(* not shown both as the player's and as another entity's: what is held    *)
(* for a twin that is then confirmed was never another's                   *)
(* (self_track.rs:251-256).                                                *)
THEOREM OneOwner == Spec => []SnapshotHasOneOwner
<1>1. VitalInv => SnapshotHasOneOwner
  BY DEF VitalInv
<1> QED BY <1>1, VitalAlways, PTL

(* For any ids and any order of packets and drains: what is held, and what *)
(* is shown as the player's, was seen since the last reset or death of the *)
(* player, and what the host is handed since the last reset; a death does  *)
(* not take back what waits to be drained (self_track.rs:132-138,          *)
(* lib.rs:942-949, 2152-2158).                                             *)
THEOREM VitalsOfTheSession == Spec => []VitalsStayInSession
<1>1. VitalInv /\ HandedOut => VitalsStayInSession
  <2> SUFFICES ASSUME VitalInv, HandedOut PROVE VitalsStayInSession
    OBVIOUS
  <2>1. \A v \in fresh + 1 .. seen : v > fresh
    BY DEF VitalInv
  <2>2. \A v \in began + 1 .. seen : v > began
    BY DEF HandedOut, VitalInv
  <2> QED BY <2>1, <2>2 DEF VitalInv, HandedOut, VitalsStayInSession
<1> QED BY <1>1, VitalAlways, HandedAlways, PTL

-----------------------------------------------------------------------------
(* The operations                                                          *)

(* The default tracker satisfies the invariant.                            *)
LEMMA DefaultInv == TrackerInv(Default)
BY DEF TrackerInv, Default, Tracker, Ids0, Held, HeldIsPlausibleTwin, GuessHeld, AnchorHeld

(* observe_self_pos preserves the tracker's invariant.                     *)
LEMMA SelfPosInv ==
  ASSUME NEW t, TrackerInv(t), NEW id \in Ids0
  PROVE  TrackerInv(ObserveSelfPos(t, id))
<1> USE IdsAssumption, SameBatchAssumption DEF TrackerInv, Tracker, Ids0
<1>1. CASE id = 0
  BY <1>1 DEF ObserveSelfPos
<1>2. CASE id # 0 /\ t.self_id = 0
  BY <1>2 DEF ObserveSelfPos, AdoptProvisional, HeldIsPlausibleTwin, GuessHeld,
              AnchorHeld, IsTwinCandidate
<1>3. CASE id # 0 /\ t.self_id # 0
  BY <1>3 DEF ObserveSelfPos, HeldIsPlausibleTwin, GuessHeld, AnchorHeld, IsTwinCandidate, Near
<1> QED BY <1>1, <1>2, <1>3

(* An adoption by name match preserves the invariant, and leaves nothing   *)
(* held: what was held lies in the old batch and the new id does not.      *)
LEMMA AdoptInv ==
  ASSUME NEW t, TrackerInv(t), NEW id \in Ids,
         t.self_id = 0 \/ ~Near(id, t.self_id)
  PROVE  TrackerInv(Adopt(t, id)) /\ Adopt(t, id).pending = {}
<1> USE IdsAssumption, SameBatchAssumption DEF TrackerInv, Tracker, Ids0
<1>1. \A p \in t.pending : p.id # id
  BY DEF HeldIsPlausibleTwin, IsTwinCandidate
<1>2. Adopt(t, id).pending = {}
  BY <1>1 DEF Adopt
<1>3. Adopt(t, id) \in Tracker
  BY <1>2 DEF Adopt
<1> QED
  BY <1>2, <1>3 DEF Adopt, HeldIsPlausibleTwin, GuessHeld, AnchorHeld

(* observe_spawn preserves the invariant whatever the two names are.       *)
LEMMA SpawnInv ==
  ASSUME NEW t, TrackerInv(t), NEW player, NEW name, NEW id \in Ids0
  PROVE  TrackerInv(ObserveSpawn(t, player, name, id))
<1> USE IdsAssumption, SameBatchAssumption DEF Ids0
<1>1. CASE SpawnRouting(t, player, name, id) = "NotSelf"
  BY <1>1 DEF ObserveSpawn
<1>2. CASE SpawnRouting(t, player, name, id) = "AdoptSelf"
  <2>1. id \in Ids /\ (t.self_id = 0 \/ ~Near(id, t.self_id))
    BY <1>2 DEF SpawnRouting, NamesMatch
  <2>2. ObserveSpawn(t, player, name, id) = Adopt(t, id)
    BY <1>2 DEF ObserveSpawn
  <2> QED BY <2>1, <2>2, AdoptInv
<1>3. CASE SpawnRouting(t, player, name, id) = "SelfTwin"
  <2>1. id # 0 /\ t.self_id # 0 /\ Near(id, t.self_id)
    BY <1>3 DEF SpawnRouting, NamesMatch
  <2>2. ObserveSpawn(t, player, name, id) = LearnTwin(t, id)
    BY <1>3 DEF ObserveSpawn
  <2>3. TrackerInv(LearnTwin(t, id))
    BY <2>1 DEF LearnTwin, TrackerInv, Tracker, HeldIsPlausibleTwin, GuessHeld,
                AnchorHeld, IsTwinCandidate, Near
  <2> QED BY <2>2, <2>3
<1> QED BY <1>1, <1>2, <1>3 DEF SpawnRouting

(* What the tracker keeps of a stat packet.                                *)
IsStat(s) == s.spawn_id \in Ids0 /\ s.has \in SUBSET Stats /\ s.value \in Values

(* observe_stat_sync preserves the invariant.                              *)
LEMMA StatInv ==
  ASSUME NEW t, TrackerInv(t), NEW s, IsStat(s)
  PROVE  TrackerInv(ObserveStatSync(t, s))
<1> USE IdsAssumption, SameBatchAssumption DEF Ids0
<1>0. s.spawn_id \in Ids0 /\ s.has \in SUBSET Stats /\ s.value \in Values
  BY DEF IsStat
<1>1. CASE IsSelf(t, s.spawn_id)
  BY <1>1 DEF ObserveStatSync
<1>2. CASE ~IsSelf(t, s.spawn_id) /\ GuessQualifies(t, s)
  <2>1. ObserveStatSync(t, s) = Guess(t, s)
    BY <1>2 DEF ObserveStatSync
  <2>2. TrackerInv(Guess(t, s))
    BY <1>0, <1>2 DEF Guess, GuessQualifies, TrackerInv, Tracker, HeldIsPlausibleTwin,
                      GuessHeld, AnchorHeld, IsTwinCandidate
  <2> QED BY <2>1, <2>2
<1>3. CASE ~IsSelf(t, s.spawn_id) /\ ~GuessQualifies(t, s)
  <2>1. ObserveStatSync(t, s) = Hold(t, s)
    BY <1>3 DEF ObserveStatSync
  <2>2. CASE s.wide /\ IsTwinCandidate(t, s.spawn_id) /\ s.has # {}
    <3> DEFINE held == [id |-> s.spawn_id, has |-> s.has, value |-> s.value]
    <3>1. held \in Held
      BY <1>0 DEF Held
    <3>2. Hold(t, s) = [t EXCEPT !.pending = {held}]
      BY <2>2 DEF Hold
    <3>3. held.id # t.self_id
      BY <1>3, <2>2 DEF IsSelf, IsTwinCandidate
    <3>4. Hold(t, s) \in Tracker
      BY <3>1, <3>2 DEF TrackerInv, Tracker
    <3> QED
      BY <3>1, <3>2, <3>3, <3>4, <2>1, <2>2
      DEF TrackerInv, Tracker, HeldIsPlausibleTwin, GuessHeld, AnchorHeld, IsTwinCandidate
  <2>3. CASE ~(s.wide /\ IsTwinCandidate(t, s.spawn_id) /\ s.has # {})
    BY <2>1, <2>3 DEF Hold
  <2> QED BY <2>1, <2>2, <2>3
<1> QED BY <1>1, <1>2, <1>3

(* Draining the held vitals, or the retired id, preserves the invariant.   *)
LEMMA DrainInv ==
  ASSUME NEW t, TrackerInv(t)
  PROVE  TrackerInv(TakePending(t)) /\ TrackerInv(TakeRetired(t))
BY DEF TakePending, TakeRetired, PendingVitals, TrackerInv, Tracker, Ids0, Held,
       HeldIsPlausibleTwin, GuessHeld, AnchorHeld, IsTwinCandidate

-----------------------------------------------------------------------------
(* The invariant                                                           *)

(* Every reachable tracker satisfies the inductive invariant.              *)
THEOREM TrackerInvariant == TrackerSpec => []TrackerInv(tracker)
<1>1. TrackerInit => TrackerInv(tracker)
  BY DefaultInv DEF TrackerInit
<1>2. TrackerInv(tracker) /\ [TrackerNext]_trackerVars => TrackerInv(tracker)'
  <2> SUFFICES ASSUME TrackerInv(tracker), [TrackerNext]_trackerVars
               PROVE  TrackerInv(tracker')
    OBVIOUS
  <2>1. CASE Reset
    BY <2>1, DefaultInv DEF Reset
  <2>2. ASSUME NEW id \in Ids0, SelfPos(id) PROVE TrackerInv(tracker')
    BY <2>2, SelfPosInv DEF SelfPos
  <2>3. ASSUME NEW player \in SpawnNames, NEW name \in SpawnNames, NEW id \in Ids0,
               Spawn(player, name, id)
        PROVE  TrackerInv(tracker')
    BY <2>3, SpawnInv DEF Spawn
  <2>4. ASSUME NEW s \in StatSync, StatReport(s) PROVE TrackerInv(tracker')
    BY <2>4, StatInv DEF StatReport, StatSync, IsStat
  <2>5. CASE DrainPending
    BY <2>5, DrainInv DEF DrainPending
  <2>6. CASE DrainRetired
    BY <2>6, DrainInv DEF DrainRetired
  <2>7. CASE UNCHANGED trackerVars
    BY <2>7 DEF trackerVars
  <2> QED
    BY <2>1, <2>2, <2>3, <2>4, <2>5, <2>6, <2>7 DEF TrackerNext
<1> QED BY <1>1, <1>2, PTL DEF TrackerSpec

(* The ids taken for the player on their stats alone; with no name matched *)
(* the tracker still has them, and then no other can qualify.              *)
StrangersKept ==
  /\ strangers \subseteq Ids
  /\ GuessIsSpentOnce

LEMMA SpawnKeepsStrangers ==
  ASSUME TrackerInv(tracker), StrangersKept, NEW player, NEW name, NEW id \in Ids0,
         Spawn(player, name, id)
  PROVE  StrangersKept'
<1>1. tracker' = ObserveSpawn(tracker, player, name, id) /\ strangers' = strangers
  BY DEF Spawn
<1>2. tracker'.self_id = 0 => tracker' = tracker
  <2>1. CASE SpawnRouting(tracker, player, name, id) = "NotSelf"
    BY <1>1, <2>1 DEF ObserveSpawn
  <2>2. CASE SpawnRouting(tracker, player, name, id) = "AdoptSelf"
    BY <1>1, <2>2 DEF ObserveSpawn, Adopt, SpawnRouting, NamesMatch, TrackerInv, Tracker
  <2>3. CASE SpawnRouting(tracker, player, name, id) = "SelfTwin"
    BY <1>1, <2>3 DEF ObserveSpawn, LearnTwin, SpawnRouting, TrackerInv, Tracker
  <2> QED BY <2>1, <2>2, <2>3 DEF SpawnRouting
<1> QED BY <1>1, <1>2 DEF StrangersKept, GuessIsSpentOnce

LEMMA StatKeepsStrangers ==
  ASSUME TrackerInv(tracker), StrangersKept, NEW s, s.spawn_id \in Ids0, StatReport(s)
  PROVE  StrangersKept'
<1>1. /\ tracker' = ObserveStatSync(tracker, s)
      /\ strangers' = strangers \cup {id \in {s.spawn_id} : OutOfTheBlue(tracker, s)}
  BY DEF StatReport
<1>2. CASE OutOfTheBlue(tracker, s)
  <2>1. /\ ~IsSelf(tracker, s.spawn_id) /\ GuessQualifies(tracker, s)
    BY <1>2 DEF OutOfTheBlue, StatIsSelf
  <2>2. tracker.self_id = 0 /\ tracker.alt_id = 0 /\ s.spawn_id \in Ids
    BY <2>1 DEF GuessQualifies, Ids0
  <2>3. strangers = {}
    BY <2>2, IdsAssumption DEF StrangersKept, GuessIsSpentOnce
  <2>4. strangers' = {s.spawn_id}
    BY <1>1, <1>2, <2>3
  <2>5. tracker' = Guess(tracker, s)
    BY <1>1, <2>1 DEF ObserveStatSync
  <2>6. tracker'.alt_id = s.spawn_id
    BY <2>5 DEF Guess, TrackerInv, Tracker
  <2> QED BY <2>2, <2>4, <2>6 DEF StrangersKept, GuessIsSpentOnce
<1>3. CASE ~OutOfTheBlue(tracker, s)
  <2>1. strangers' = strangers
    BY <1>1, <1>3
  <2>2. CASE ~IsSelf(tracker, s.spawn_id) /\ GuessQualifies(tracker, s)
    <3>1. tracker' = Guess(tracker, s) /\ tracker.alt_id = 0 /\ tracker.self_id = 0
      BY <1>1, <2>2 DEF ObserveStatSync, GuessQualifies
    <3>2. strangers = {}
      BY <3>1, IdsAssumption DEF StrangersKept, GuessIsSpentOnce
    <3> QED BY <2>1, <3>2 DEF StrangersKept, GuessIsSpentOnce
  <2>3. CASE ~(~IsSelf(tracker, s.spawn_id) /\ GuessQualifies(tracker, s))
    <3>1. tracker'.self_id = tracker.self_id /\ tracker'.alt_id = tracker.alt_id
      BY <1>1, <2>3 DEF ObserveStatSync, Hold, TrackerInv, Tracker
    <3> QED BY <2>1, <3>1 DEF StrangersKept, GuessIsSpentOnce
  <2> QED BY <2>2, <2>3
<1> QED BY <1>2, <1>3

LEMMA StrangersInvariant == TrackerSpec => []StrangersKept
<1>1. TrackerInit => StrangersKept
  BY DEF TrackerInit, StrangersKept, GuessIsSpentOnce
<1>2. TrackerInv(tracker) /\ StrangersKept /\ [TrackerNext]_trackerVars => StrangersKept'
  <2> SUFFICES ASSUME TrackerInv(tracker), StrangersKept, [TrackerNext]_trackerVars
               PROVE  StrangersKept'
    OBVIOUS
  <2>k. ASSUME tracker'.self_id = tracker.self_id, tracker'.alt_id = tracker.alt_id,
               strangers' = strangers
        PROVE  StrangersKept'
    BY <2>k DEF StrangersKept, GuessIsSpentOnce
  <2>1. CASE Reset
    BY <2>1 DEF Reset, StrangersKept, GuessIsSpentOnce
  <2>2. ASSUME NEW id \in Ids0, SelfPos(id) PROVE StrangersKept'
    <3>1. tracker'.self_id = tracker.self_id /\ strangers' = strangers
      BY <2>2 DEF SelfPos, ObserveSelfPos, AdoptProvisional, TrackerInv, Tracker
    <3>2. tracker.self_id = 0 => tracker'.alt_id = tracker.alt_id
      BY <2>2 DEF SelfPos, ObserveSelfPos, AdoptProvisional, TrackerInv, Tracker
    <3> QED BY <3>1, <3>2 DEF StrangersKept, GuessIsSpentOnce
  <2>3. ASSUME NEW player \in SpawnNames, NEW name \in SpawnNames, NEW id \in Ids0,
               Spawn(player, name, id)
        PROVE  StrangersKept'
    BY <2>3, SpawnKeepsStrangers
  <2>4. ASSUME NEW s \in StatSync, StatReport(s) PROVE StrangersKept'
    BY <2>4, StatKeepsStrangers DEF StatSync
  <2>5. CASE DrainPending
    BY <2>5, <2>k DEF DrainPending, TakePending, TrackerInv, Tracker
  <2>6. CASE DrainRetired
    BY <2>6, <2>k DEF DrainRetired, TakeRetired, TrackerInv, Tracker
  <2>7. CASE UNCHANGED trackerVars
    BY <2>7, <2>k DEF trackerVars
  <2> QED
    BY <2>1, <2>2, <2>3, <2>4, <2>5, <2>6, <2>7 DEF TrackerNext
<1> QED BY <1>1, <1>2, TrackerInvariant, PTL DEF TrackerSpec

(* Type correctness, of the tracker and of the history.                    *)
THEOREM TypeCorrect == TrackerSpec => []TypeOK
<1>1. TrackerInv(tracker) /\ StrangersKept => TypeOK
  BY DEF TrackerInv, StrangersKept, TypeOK
<1> QED BY <1>1, TrackerInvariant, StrangersInvariant, PTL

(* Held vitals belong to a plausible twin, for any window and id set.      *)
THEOREM PendingCorrect == TrackerSpec => []PendingIsPlausibleTwin
<1>1. TrackerInv(tracker) => PendingIsPlausibleTwin
  BY DEF TrackerInv, PendingIsPlausibleTwin
<1> QED BY <1>1, TrackerInvariant, PTL

(* For any ids and window and any order of calls, from one reset to the    *)
(* next at most one id is taken for the player on its stats alone, and it  *)
(* is not exchanged before a name matches (self_track.rs:122-125,          *)
(* 257-273).                                                               *)
THEOREM GuessCorrect == TrackerSpec => []GuessIsSpentOnce
<1>1. StrangersKept => GuessIsSpentOnce
  BY DEF StrangersKept
<1> QED BY <1>1, StrangersInvariant, PTL

(* After a name match every id of the player's is of one batch.            *)
THEOREM AnchorCorrect == TrackerSpec => []ResolvedIdsShareBatch
<1>1. TrackerInv(tracker) => ResolvedIdsShareBatch
  BY DEF TrackerInv, ResolvedIdsShareBatch
<1> QED BY <1>1, TrackerInvariant, PTL

-----------------------------------------------------------------------------
(* Each operation is a step, or a stutter, of the abstract specification.  *)

(* What SelfIdentity's next-state relation says of a tracker t and the     *)
(* tracker u after it.                                                     *)
Adopts(t, u, x) ==
  /\ t.self_id = 0 \/ ~Near(x, t.self_id)
  /\ u.self_id = x
  /\ SelfIds(u) = {x}

LearnsTwin(t, u, x) ==
  /\ t.self_id # 0 /\ x # t.self_id /\ Near(x, t.self_id)
  /\ SelfIds(u) = {t.self_id, x}
  /\ u.self_id = t.self_id

Locates(t, u, x) ==
  /\ t.self_id = 0
  /\ \E S \in SUBSET SelfIds(t) :
       (\A y, z \in SelfIds(t) \ S : y = z) /\ SelfIds(u) = S \cup {x}
  /\ u.self_id = t.self_id

Guesses(t, u, x) ==
  /\ t.self_id = 0
  /\ \A y, z \in SelfIds(t) : y = z
  /\ \A y \in SelfIds(t) : Near(x, y)
  /\ SelfIds(u) = SelfIds(t) \cup {x}
  /\ u.self_id = t.self_id

IdentityStep(t, u) ==
  \/ u.self_id = t.self_id /\ SelfIds(u) = SelfIds(t)
  \/ u.self_id = 0 /\ SelfIds(u) = {}
  \/ \E x \in Ids : Adopts(t, u, x) \/ LearnsTwin(t, u, x) \/ Locates(t, u, x) \/ Guesses(t, u, x)

LEMMA NoIdChange ==
  ASSUME NEW t, NEW u, u.self_id = t.self_id, SelfIds(u) = SelfIds(t)
  PROVE  IdentityStep(t, u)
BY DEF IdentityStep

LEMMA DefaultStep == ASSUME NEW t PROVE IdentityStep(t, Default)
BY DEF Default, SelfIds, IdentityStep

LEMMA SelfPosStep ==
  ASSUME NEW t, TrackerInv(t), NEW u, NEW id \in Ids0, u = ObserveSelfPos(t, id)
  PROVE  IdentityStep(t, u)
<1> USE IdsAssumption, SameBatchAssumption DEF TrackerInv, Tracker, Ids0
<1>1. CASE id = 0
  BY <1>1, NoIdChange DEF ObserveSelfPos
<1>2. CASE id # 0 /\ t.self_id = 0 /\ id = t.provisional_id
  BY <1>2, NoIdChange DEF ObserveSelfPos, AdoptProvisional
<1>3. CASE id # 0 /\ t.self_id = 0 /\ id # t.provisional_id
  <2> DEFINE kept == {t.alt_id} \ {0}
  <2>1. u.self_id = 0 /\ u.alt_id = t.alt_id /\ u.provisional_id = id
    BY <1>3 DEF ObserveSelfPos, AdoptProvisional
  <2>2. SelfIds(u) = kept \cup {id}
    BY <1>3, <2>1 DEF SelfIds
  <2>3. kept \in SUBSET SelfIds(t)
    BY DEF SelfIds
  <2>4. \A y, z \in SelfIds(t) \ kept : y = z
    BY <1>3 DEF SelfIds
  <2>5. Locates(t, u, id)
    BY <1>3, <2>1, <2>2, <2>3, <2>4 DEF Locates
  <2> QED
    BY <1>3, <2>5 DEF IdentityStep
<1>4. CASE id # 0 /\ t.self_id # 0 /\ id # t.self_id /\ IsTwinCandidate(t, id)
  <2>1. u = [t EXCEPT !.alt_id = id]
    BY <1>4 DEF ObserveSelfPos
  <2>2. SelfIds(u) = {t.self_id, id}
    BY <1>4, <2>1 DEF SelfIds, AnchorHeld
  <2>3. LearnsTwin(t, u, id)
    BY <1>4, <2>1, <2>2 DEF LearnsTwin, IsTwinCandidate, Near
  <2> QED
    BY <1>4, <2>3 DEF IdentityStep
<1>5. CASE id # 0 /\ t.self_id # 0
           /\ ~(id # t.self_id /\ IsTwinCandidate(t, id))
  BY <1>5, NoIdChange DEF ObserveSelfPos
<1> QED BY <1>1, <1>2, <1>3, <1>4, <1>5

LEMMA SpawnStep ==
  ASSUME NEW t, TrackerInv(t), NEW u, NEW player, NEW name, NEW id \in Ids0,
         u = ObserveSpawn(t, player, name, id)
  PROVE  IdentityStep(t, u)
<1> USE IdsAssumption, SameBatchAssumption DEF TrackerInv, Tracker, Ids0
<1>1. CASE SpawnRouting(t, player, name, id) = "NotSelf"
  BY <1>1, NoIdChange DEF ObserveSpawn
<1>2. CASE SpawnRouting(t, player, name, id) = "AdoptSelf"
  <2>1. id \in Ids /\ (t.self_id = 0 \/ ~Near(id, t.self_id))
    BY <1>2 DEF SpawnRouting, NamesMatch
  <2>2. u = Adopt(t, id)
    BY <1>2 DEF ObserveSpawn
  <2>3. u.self_id = id /\ SelfIds(u) = {id}
    BY <2>1, <2>2 DEF Adopt, SelfIds
  <2>4. Adopts(t, u, id)
    BY <2>1, <2>3 DEF Adopts, Near
  <2> QED
    BY <2>1, <2>4 DEF IdentityStep
<1>3. CASE SpawnRouting(t, player, name, id) = "SelfTwin" /\ id = t.self_id
  BY <1>3, NoIdChange DEF ObserveSpawn, LearnTwin
<1>4. CASE SpawnRouting(t, player, name, id) = "SelfTwin" /\ id # t.self_id
  <2>1. id \in Ids /\ t.self_id # 0 /\ Near(id, t.self_id)
    BY <1>4 DEF SpawnRouting, NamesMatch
  <2>2. u = [t EXCEPT !.alt_id = id]
    BY <1>4 DEF ObserveSpawn, LearnTwin
  <2>3. SelfIds(u) = {t.self_id, id}
    BY <2>1, <2>2 DEF SelfIds, AnchorHeld
  <2>4. LearnsTwin(t, u, id)
    BY <1>4, <2>1, <2>2, <2>3 DEF LearnsTwin, Near
  <2> QED
    BY <2>1, <2>4 DEF IdentityStep
<1> QED BY <1>1, <1>2, <1>3, <1>4 DEF SpawnRouting

LEMMA StatStep ==
  ASSUME NEW t, TrackerInv(t), NEW u, NEW s, IsStat(s), u = ObserveStatSync(t, s)
  PROVE  IdentityStep(t, u)
<1> USE IdsAssumption, SameBatchAssumption DEF TrackerInv, Tracker, Ids0
<1>0. s.spawn_id \in Ids0
  BY DEF IsStat
<1>1. CASE IsSelf(t, s.spawn_id)
  BY <1>1, NoIdChange DEF ObserveStatSync
<1>2. CASE ~IsSelf(t, s.spawn_id) /\ GuessQualifies(t, s)
  <2>1. u = Guess(t, s)
    BY <1>2 DEF ObserveStatSync
  <2>2. t.self_id = 0 /\ t.alt_id = 0 /\ s.spawn_id \in Ids
    BY <1>0, <1>2 DEF GuessQualifies
  <2>3. /\ u.self_id = 0
        /\ SelfIds(u) = SelfIds(t) \cup {s.spawn_id}
    BY <2>1, <2>2 DEF Guess, SelfIds
  <2>4. \A y \in SelfIds(t) : y = t.provisional_id /\ Near(s.spawn_id, y)
    BY <1>2, <2>2 DEF SelfIds, GuessQualifies
  <2>5. Guesses(t, u, s.spawn_id)
    BY <2>2, <2>3, <2>4 DEF Guesses, Near
  <2> QED
    BY <2>2, <2>5 DEF IdentityStep
<1>3. CASE ~IsSelf(t, s.spawn_id) /\ ~GuessQualifies(t, s)
  <2>1. u = Hold(t, s)
    BY <1>3 DEF ObserveStatSync
  <2>2. u.self_id = t.self_id /\ SelfIds(u) = SelfIds(t)
    BY <2>1 DEF Hold, SelfIds
  <2> QED BY <2>2, NoIdChange
<1> QED BY <1>1, <1>2, <1>3

LEMMA DrainStep ==
  ASSUME NEW t, TrackerInv(t), NEW u, u = TakePending(t) \/ u = TakeRetired(t)
  PROVE  IdentityStep(t, u)
<1>1. u.self_id = t.self_id /\ SelfIds(u) = SelfIds(t)
  BY DEF TrackerInv, Tracker, TakePending, TakeRetired, SelfIds
<1> QED BY <1>1, NoIdChange

(* The relation is that of SelfIdentity, for the tracker by itself...      *)
LEMMA TrackerStep == IdentityStep(tracker, tracker') => [Promise!Next]_(Promise!idVars)
BY DEF IdentityStep, Adopts, LearnsTwin, Locates, Guesses, Near, Promise!Next, Promise!idVars,
       Promise!Forget, Promise!Adopt, Promise!LearnTwin, Promise!Locate, Promise!Guess,
       Promise!SameBatchIds, Promise!AtMostOne

(* ...and for the session's.                                               *)
LEMMA SessionStep ==
  IdentityStep(session.tracker, session'.tracker) => [Known!Next]_(Known!idVars)
BY DEF IdentityStep, Adopts, LearnsTwin, Locates, Guesses, Near, Known!Next, Known!idVars,
       Known!Forget, Known!Adopt, Known!LearnTwin, Known!Locate, Known!Guess,
       Known!SameBatchIds, Known!AtMostOne

(* The tracker implements the abstract promise, for every constant.        *)
THEOREM Refinement == TrackerSpec => ImplementsSelfIdentity
<1>1. TrackerInit => Promise!Init
  BY DEF TrackerInit, Default, SelfIds, Promise!Init
<1>2. TrackerInv(tracker) /\ [TrackerNext]_trackerVars => [Promise!Next]_(Promise!idVars)
  <2> SUFFICES ASSUME TrackerInv(tracker), [TrackerNext]_trackerVars
               PROVE  IdentityStep(tracker, tracker')
    BY TrackerStep
  <2>1. CASE Reset
    BY <2>1, DefaultStep DEF Reset
  <2>2. ASSUME NEW id \in Ids0, SelfPos(id) PROVE IdentityStep(tracker, tracker')
    BY <2>2, SelfPosStep DEF SelfPos
  <2>3. ASSUME NEW player \in SpawnNames, NEW name \in SpawnNames, NEW id \in Ids0,
               Spawn(player, name, id)
        PROVE  IdentityStep(tracker, tracker')
    BY <2>3, SpawnStep DEF Spawn
  <2>4. ASSUME NEW s \in StatSync, StatReport(s) PROVE IdentityStep(tracker, tracker')
    BY <2>4, StatStep DEF StatReport, StatSync, IsStat
  <2>5. CASE DrainPending
    BY <2>5, DrainStep DEF DrainPending
  <2>6. CASE DrainRetired
    BY <2>6, DrainStep DEF DrainRetired
  <2>7. CASE UNCHANGED trackerVars
    BY <2>7, NoIdChange DEF trackerVars
  <2> QED
    BY <2>1, <2>2, <2>3, <2>4, <2>5, <2>6, <2>7 DEF TrackerNext
<1> QED
  BY <1>1, <1>2, TrackerInvariant, PTL DEF TrackerSpec, ImplementsSelfIdentity, Promise!Spec

-----------------------------------------------------------------------------
(* The tracker in the session                                              *)

(* What one packet can be for the tracker.                                 *)
Calls(t, u) ==
  \/ u = t
  \/ u = Default
  \/ u = TakePending(t)
  \/ \E id \in Ids0 : u = ObserveSelfPos(t, id)
  \/ \E player \in Names, name \in Characters, id \in Ids :
       u \in {ObserveSpawn(t, player, name, id), TakePending(ObserveSpawn(t, player, name, id))}
  \/ \E p : IsStat(p) /\ u = ObserveStatSync(t, p)

(* Each keeps the tracker's invariant and is one step of the promise, the  *)
(* drain after an adoption included.                                       *)
LEMMA CallKeeps ==
  ASSUME NEW t, TrackerInv(t), NEW u, Calls(t, u)
  PROVE  TrackerInv(u) /\ IdentityStep(t, u)
<1>1. CASE u = t
  BY <1>1, NoIdChange
<1>2. CASE u = Default
  BY <1>2, DefaultInv, DefaultStep
<1>d. CASE u = TakePending(t)
  BY <1>d, DrainInv, DrainStep
<1>3. ASSUME NEW id \in Ids0, u = ObserveSelfPos(t, id) PROVE TrackerInv(u) /\ IdentityStep(t, u)
  BY <1>3, SelfPosInv, SelfPosStep
<1>4. ASSUME NEW player \in Names, NEW name \in Characters, NEW id \in Ids,
             u \in {ObserveSpawn(t, player, name, id), TakePending(ObserveSpawn(t, player, name, id))}
      PROVE  TrackerInv(u) /\ IdentityStep(t, u)
  <2> DEFINE v == ObserveSpawn(t, player, name, id)
  <2>1. TrackerInv(v) /\ IdentityStep(t, v)
    BY SpawnInv, SpawnStep DEF Ids0
  <2> HIDE DEF v
  <2>2. TrackerInv(TakePending(v))
    BY <2>1, DrainInv
  <2>3. TakePending(v).self_id = v.self_id /\ SelfIds(TakePending(v)) = SelfIds(v)
    BY <2>1 DEF TrackerInv, Tracker, TakePending, SelfIds
  <2>4. IdentityStep(t, TakePending(v))
    BY <2>1, <2>3 DEF IdentityStep, Adopts, LearnsTwin, Locates, Guesses
  <2> QED BY <1>4, <2>1, <2>2, <2>4 DEF v
<1>5. ASSUME NEW p, IsStat(p), u = ObserveStatSync(t, p) PROVE TrackerInv(u) /\ IdentityStep(t, u)
  BY <1>5, StatInv, StatStep
<1> QED BY <1>1, <1>2, <1>d, <1>3, <1>4, <1>5 DEF Calls

(* What a packet leaves behind has the tracker the next one finds.         *)
LEMMA RecordedTracker ==
  ASSUME NEW u, Sound(u), Record(u) \/ Deliver(u)
  PROVE  session'.tracker = u.tracker
BY DEF Record, Deliver, Sound, IsSession

LEMMA PacketCalls ==
  ASSUME Inv, HostInv, VitalInv, [Next]_vars
  PROVE  Calls(session.tracker, session'.tracker)
<1>s. Sound(session) /\ Tells(session.out, {}, {}) /\ seen \in Nat /\ session.player_name \in Names
  BY TellsNothing DEF Inv, HostInv, VitalInv, Sound, IsSession
<1>k. ASSUME session'.tracker = session.tracker \/ session'.tracker = Default
      PROVE  Calls(session.tracker, session'.tracker)
  BY <1>k DEF Calls
<1>r. ASSUME NEW u, Sound(u), u.tracker = session.tracker, Record(u)
      PROVE  Calls(session.tracker, session'.tracker)
  BY <1>r, <1>k, RecordedTracker
<1>1. ASSUME NEW name \in Characters, EnterWorld(name)
      PROVE  Calls(session.tracker, session'.tracker)
  BY <1>1, <1>s, <1>k, EnterWorldSound, NewTracker, RecordedTracker DEF EnterWorld
<1>2. ASSUME NEW name \in Characters, NEW form \in Forms, PlayerProfile(name, form)
      PROVE  Calls(session.tracker, session'.tracker)
  BY <1>2, <1>s, <1>k, ProfileSound, NewTracker, RecordedTracker DEF PlayerProfile
<1>3. CASE ZoneTransition \/ FlushReset
  BY <1>3, <1>s, <1>k, ResetForSound, NewTracker, RecordedTracker DEF ZoneTransition, FlushReset
<1>4. CASE FlushEnd
  BY <1>4, <1>s, <1>k, NewTracker DEF FlushEnd
<1>5. ASSUME NEW id \in Ids, NEW name \in Characters, NEW form \in Forms, NEW opcode
      PROVE  LET u == OnSpawnAdded(session, id, name, form, opcode)
             IN  Sound(u) /\ Calls(session.tracker, u.tracker)
  <2> DEFINE u == OnSpawnAdded(session, id, name, form, opcode)
             o == ObserveSpawnIn(session, name, id).tracker
             v == ObserveSpawn(session.tracker, session.player_name, name, id)
  <2>1. Sound(u)
    BY <1>s, SpawnAddedSound
  <2>2. u.tracker \in {o, TakePending(o)}
    BY <1>s, SpawnAddedTells
  <2>3. CASE session.backend = "eql"
    <3>1. o = v
      BY <1>s, <2>3 DEF ObserveSpawnIn, Sound, IsSession
    <3> HIDE DEF u, o
    <3> QED BY <1>s, <2>1, <2>2, <3>1 DEF Calls, u
  <2>4. CASE session.backend # "eql"
    <3>1. ObserveSpawnIn(session, name, id) = session
      BY <2>4 DEF ObserveSpawnIn
    <3> HIDE DEF u
    <3> QED BY <2>1, <2>2, <3>1 DEF Calls, u
  <2> QED BY <2>3, <2>4
<1>6. ASSUME NEW id \in Ids, NEW name \in Characters, NEW form \in Forms, ZoneEntry(id, name, form)
      PROVE  Calls(session.tracker, session'.tracker)
  BY <1>5, <1>6, RecordedTracker DEF ZoneEntry
<1>7. ASSUME NEW id \in Ids, NEW name \in Characters, NEW form \in Forms, LoadoutSwap(id, name, form)
      PROVE  Calls(session.tracker, session'.tracker)
  <2> DEFINE u == OnSpawnAdded(session, id, name, form, "OP_LoadoutSwap")
             w == OnLoadoutSwap(u, id, form)
             P == {p.value : p \in PendingVitals(ObserveSpawnIn(session, name, id).tracker)}
  <2>1. Sound(u) /\ Calls(session.tracker, u.tracker)
    BY <1>5
  <2>2. Tells(u.out, P, {})
    BY <1>s, SpawnAddedTells
  <2>3. Record(w)
    BY <1>7 DEF LoadoutSwap
  <2> HIDE DEF u, P
  <2>4. Sound(w)
    BY <2>1, SwapSound
  <2>5. Tells(w.out, P, {}) /\ w.tracker = u.tracker
    BY <2>1, <2>2, OthersTell
  <2> HIDE DEF w
  <2> QED BY <2>1, <2>3, <2>4, <2>5, RecordedTracker
<1>8. ASSUME NEW id \in Ids, DeleteSpawn(id) PROVE Calls(session.tracker, session'.tracker)
  <2>1. Record(OnSpawnRemoved(session, id))
    BY <1>8 DEF DeleteSpawn
  <2>2. Sound(OnSpawnRemoved(session, id))
    BY <1>s, RemovedSound
  <2>3. /\ Tells(OnSpawnRemoved(session, id).out, {}, {})
        /\ OnSpawnRemoved(session, id).tracker = session.tracker
    BY <1>s, OthersTell
  <2> QED BY <1>r, <2>1, <2>2, <2>3
<1>9. ASSUME NEW id \in Ids, Death(id) PROVE Calls(session.tracker, session'.tracker)
  <2> DEFINE u == OnSpawnKilled(session, id)
  <2>1. Sound(u)
    BY <1>s, KilledSound
  <2>2. u.tracker = session.tracker \/ u.tracker = Default
    <3>1. CASE IsPlayerId(session, id)
      BY <1>s, <3>1, NewTracker
    <3>2. CASE ~IsPlayerId(session, id)
      BY <1>s, <3>2, OthersTell
    <3> QED BY <3>1, <3>2
  <2>3. Record(u) \/ Deliver(u)
    BY <1>9 DEF Death
  <2> HIDE DEF u
  <2> QED BY <1>k, <2>1, <2>2, <2>3, RecordedTracker
<1>10. ASSUME NEW id \in Ids, NEW form \in Forms, Illusion(id, form)
       PROVE  Calls(session.tracker, session'.tracker)
  <2> DEFINE u == OnSpawnIllusion(session, id, form)
  <2>1. Sound(u)
    BY <1>s, ShownSound
  <2>2. Tells(u.out, {}, {}) /\ u.tracker = session.tracker
    BY <1>s, IllusionTells
  <2>3. Record(u)
    BY <1>10 DEF Illusion
  <2> HIDE DEF u
  <2> QED BY <1>r, <2>1, <2>2, <2>3
<1>11. ASSUME NEW form \in Forms, LevelUpdate(form) PROVE Calls(session.tracker, session'.tracker)
  <2> DEFINE u == OnLevelUpdate(session, form)
  <2>1. Sound(u)
    BY <1>s, ShownSound
  <2>2. Tells(u.out, {}, {}) /\ u.tracker = session.tracker
    BY <1>s, OthersTell
  <2>3. Record(u)
    BY <1>11 DEF LevelUpdate
  <2> HIDE DEF u
  <2> QED BY <1>r, <2>1, <2>2, <2>3
<1>12. ASSUME NEW id \in Ids0, SelfPosition(id) PROVE Calls(session.tracker, session'.tracker)
  <2> DEFINE u == OnSelfPos(session, id)
  <2>1. Sound(u) /\ Record(u)
    BY <1>12, <1>s, SelfPosSound DEF SelfPosition
  <2>2. u.tracker \in {session.tracker, ObserveSelfPos(session.tracker, id)}
    BY <1>s, SelfPosTells
  <2> HIDE DEF u
  <2> QED BY <2>1, <2>2, RecordedTracker DEF Calls
<1>13. ASSUME NEW id \in Ids, NEW wide \in BOOLEAN, NEW has \in StatSets, Stat(id, wide, has)
       PROVE  Calls(session.tracker, session'.tracker)
  <2> DEFINE p == [spawn_id |-> id, wide |-> wide, has |-> has, value |-> seen']
             u == OnStatSync(session, p)
  <2>1. Record(u) /\ seen' = seen + 1 /\ seen < MaxStats
    BY <1>13 DEF Stat
  <2>2. IsStat(p)
    BY <1>s, <2>1, StatSetsAssumption, MaxStatsAssumption DEF IsStat, Ids0
  <2> HIDE DEF p
  <2>3. Sound(u) /\ u.tracker = ObserveStatSync(session.tracker, p)
    BY <1>s, StatSound, StatTells
  <2> HIDE DEF u
  <2> QED BY <2>1, <2>2, <2>3, RecordedTracker DEF Calls
<1>14. CASE TakeSelfStats \/ UNCHANGED vars
  BY <1>14, <1>s, <1>k DEF TakeSelfStats, vars, Sound, IsSession
<1> QED
  BY <1>1, <1>2, <1>3, <1>4, <1>6, <1>7, <1>8, <1>9, <1>10, <1>11, <1>12, <1>13, <1>14 DEF Next

LEMMA FirstTracker == Init => session.tracker = Default
<1> SUFFICES ASSUME Init PROVE session.tracker = Default
  OBVIOUS
<1>1. PICK b \in Backends : session = NewSession(b)
  BY DEF Init
<1> QED BY <1>1 DEF NewSession

(* Inside a session too, whatever its packets and their order, the tracker *)
(* keeps its invariant: what is held is a plausible twin's, a spent guess  *)
(* has its id until a name matches, and the player's ids share a batch.    *)
THEOREM TrackerInSession == Spec => []TrackerInv(session.tracker)
<1>1. Init => TrackerInv(session.tracker)
  BY FirstTracker, DefaultInv
<1>2. Inv /\ HostInv /\ VitalInv /\ TrackerInv(session.tracker) /\ [Next]_vars
        => TrackerInv(session.tracker)'
  BY PacketCalls, CallKeeps
<1> QED BY <1>1, <1>2, InvCorrect, HostAlways, VitalAlways, PTL DEF Spec

(* The session keeps the promise of SelfIdentity, packet by packet, for    *)
(* any ids, batch window, characters and order of packets (lib.rs:650,     *)
(* 821, 867, 909, 947, 2157; self_track.rs:163-246).                       *)
THEOREM PromiseInSession == Spec => SessionKeepsThePromise
<1>1. Init => Known!Init
  BY FirstTracker DEF Default, SelfIds, Known!Init
<1>2. Inv /\ HostInv /\ VitalInv /\ TrackerInv(session.tracker) /\ [Next]_vars
        => [Known!Next]_(Known!idVars)
  BY PacketCalls, CallKeeps, SessionStep
<1> QED
  BY <1>1, <1>2, InvCorrect, HostAlways, VitalAlways, TrackerInSession, PTL
  DEF Spec, SessionKeepsThePromise, Known!Spec
=============================================================================
