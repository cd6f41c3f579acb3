------------------------------- MODULE Combat -------------------------------
(***************************************************************************)
(* Pending casts and active buffs (CombatState, seq-session/src/lib.rs):   *)
(* what a session correlates from cast requests, begin-cast broadcasts,    *)
(* damage, interruption messages and buff packets, and what it publishes   *)
(* of it.  `host` is the view of a host that applies the published events  *)
(* in order.                                                               *)
(*                                                                         *)
(* 0 is "no id": a cast whose caster, and a buff whose owner, is not known *)
(* yet.  Who the player is comes from PlayerSession; here it may change to *)
(* anything at any time.  Cast times, spell slots and the name of a buff's *)
(* caster are carried along like the target and the ticks, and left out;   *)
(* so are packets with an invalid spell id, which change nothing.  An      *)
(* Option is the set of its values.                                        *)
(***************************************************************************)
EXTENDS Integers, FiniteSets, Sequences, SequencesExt

CONSTANTS Ids,        \* spawn ids
          Spells,     \* valid spell ids; 0 stands for the invalid ones
          Slots,      \* buff slots
          Ticks,      \* remaining durations
          BuffLists,  \* buff list packets: sequences of [slot, spell, ticks]
          MaxEntries  \* bound: casts and buffs at a time

ASSUME IdsAssumption == 0 \notin Ids
ASSUME SpellsAssumption == Spells \subseteq Nat \ {0}
ASSUME SlotsAssumption == Slots \subseteq Nat
ASSUME BuffListsAssumption ==
  BuffLists \subseteq Seq([slot : Slots, spell : Spells \cup {0}, ticks : Ticks])
ASSUME MaxEntriesAssumption == MaxEntries \in Nat

VARIABLES
  backend,  \* EQL sends buff lists, Live and Test single buffs
  player,   \* player_id, and the other ids the tracker takes for the player
  casts,    \* CombatState.casts
  buffs,    \* CombatState.buffs
  host,     \* history: what a host shows
  told      \* history: for each owner the effects told since they last faded

vars == <<backend, player, casts, buffs, host, told>>

Ids0 == Ids \cup {0}

(* The target of a cast.  `by` and `spell`, the player's id and the spell  *)
(* in the request that named it, are history.                              *)
Aim == [target : Ids, by : Ids0, spell : Spells]
Cast == [spell : Spells, aim : SUBSET Aim]

Keys == ({"slot"} \X Slots) \cup ({"spell"} \X Spells)
Places == Ids0 \X Keys
Buff == [spell : Spells, ticks : SUBSET Ticks, slot : SUBSET Slots]

Owner(place) == place[1]

(* f without the arguments in S, and f overlaid with g.                    *)
Without(f, S) == [x \in DOMAIN f \ S |-> f[x]]
Override(f, g) == [x \in DOMAIN f \cup DOMAIN g |-> IF x \in DOMAIN g THEN g[x] ELSE f[x]]
At(x, v) == [y \in {x} |-> v]

Room == Cardinality(DOMAIN casts) + Cardinality(DOMAIN buffs) < MaxEntries

-----------------------------------------------------------------------------
(* Events, and a host that follows them                                    *)

Started(caster, cast) == [kind |-> "Started", caster |-> caster, cast |-> cast]
Interrupted(caster)   == [kind |-> "Interrupted", caster |-> caster]
Acted(source, spell)  == [kind |-> "Acted", source |-> source, spell |-> spell]
BuffEvent(kind, owner, buff) == [kind |-> kind, owner |-> owner, buff |-> buff]

(* Where a host keeps a buff: under its owner and slot, or, while the slot *)
(* is not known, its spell.                                                *)
PlaceOf(e) ==
  <<e.owner, IF e.buff.slot = {} THEN <<"spell", e.buff.spell>>
             ELSE <<"slot", CHOOSE n \in e.buff.slot : TRUE>>>>

(* `effect` is the spell as it was when the buff was added.                *)
HostApply(h, e) ==
  CASE e.kind = "Started"     -> [h EXCEPT !.casts = Override(@, At(e.caster, e.cast))]
    [] e.kind = "Interrupted" -> [h EXCEPT !.casts = Without(@, {e.caster})]
    [] e.kind = "Acted"       -> [h EXCEPT !.casts =
         Without(@, {c \in DOMAIN @ : c = e.source /\ @[c].spell = e.spell})]
    [] e.kind = "Added"       ->
         [h EXCEPT !.buffs = Override(@, At(PlaceOf(e), e.buff)),
                   !.effect = Override(@, At(PlaceOf(e), e.buff.spell))]
    [] e.kind = "Updated"     ->
         [h EXCEPT !.buffs = Override(@, At(PlaceOf(e), e.buff))]
    [] e.kind = "Removed"     ->
         [h EXCEPT !.buffs = Without(@, {PlaceOf(e)}),
                   !.effect = Without(@, {PlaceOf(e)})]

(* The host after all of them, in their order.                             *)
HostAfter(h, events) ==
  LET after[n \in 0 .. Len(events)] ==
        IF n = 0 THEN h ELSE HostApply(after[n - 1], events[n])
  IN  after[Len(events)]

Publish(events) == host' = HostAfter(host, events)

-----------------------------------------------------------------------------
(* Casts                                                                   *)

Or(option, other) == IF option # {} THEN option ELSE other

Pending(caster, spell) == caster \in DOMAIN casts /\ casts[caster].spell = spell

(* start_cast on the casts `before`: the same spell is merged with what is *)
(* pending, another one supersedes it.                                     *)
StartCast(before, caster, spell, aim) ==
  LET same == caster \in DOMAIN before /\ before[caster].spell = spell
      cast == [spell |-> spell,
               aim |-> IF same THEN Or(aim, before[caster].aim) ELSE aim]
      superseded == IF caster \in DOMAIN before /\ ~same THEN <<Interrupted(caster)>> ELSE <<>>
  IN  /\ casts' = Override(before, At(caster, cast))
      /\ Publish(superseded \o <<Started(caster, cast)>>)
      /\ UNCHANGED <<backend, player, buffs, told>>

(* The client's own request, whatever id the player is known by.           *)
SpellCastRequest(spell, target) ==
  /\ Room
  /\ StartCast(casts, player.id, spell,
               IF target = 0 THEN {}
               ELSE {[target |-> target, by |-> player.id, spell |-> spell]})

(* A slip: a request is taken over, and its target, for any spell.         *)
SpawnCastAnySpell(caster, spell) ==
  LET steals == caster # 0 /\ caster \notin DOMAIN casts /\ 0 \in DOMAIN casts
      before == IF steals THEN Without(casts, {0}) ELSE casts
      previous == IF steals THEN 0 ELSE caster
  IN  /\ Room
      /\ StartCast(before, caster, spell,
                   IF previous \in DOMAIN casts THEN casts[previous].aim ELSE {})

(* The server's broadcast that someone begins to cast.  A request nobody   *)
(* was known to have made is taken to be this one.                         *)
SpawnCast(caster, spell) ==
  LET steals == caster # 0 /\ caster \notin DOMAIN casts /\ Pending(0, spell)
      before == IF steals THEN Without(casts, {0}) ELSE casts
  IN  /\ Room
      /\ StartCast(before, caster, spell,
                   IF steals THEN casts[0].aim
                   ELSE IF Pending(caster, spell) THEN casts[caster].aim ELSE {})

(* A slip: the first cast of the spell is taken, whoever's it is.          *)
FinishedByAnyone(source, spell) == {c \in DOMAIN casts : casts[c].spell = spell}

(* finish_matching_cast: what an action of `source` completes, silently.   *)
Finished(source, spell) ==
  IF Pending(source, spell) THEN {source}
  ELSE IF source = player.id /\ Pending(0, spell) THEN {0}
  ELSE {}

(* Damage or a spell action.  The client's own have no source on the wire. *)
Act(wire, spell, fromClient) ==
  LET source == IF wire = 0 /\ fromClient THEN player.id ELSE wire
  IN  /\ casts' = Without(casts, Finished(source, spell))
      /\ Publish(<<Acted(source, spell)>>)
      /\ UNCHANGED <<backend, player, buffs, told>>

(* A server message that the player's casting was interrupted.             *)
Interrupt ==
  LET ended == {player.id, 0} \cap DOMAIN casts
  IN  /\ casts' = Without(casts, ended)
      /\ Publish(SetToSeq({Interrupted(c) : c \in ended}))
      /\ UNCHANGED <<backend, player, buffs, told>>

-----------------------------------------------------------------------------
(* Buffs                                                                   *)

BuffOwner(wire) == IF wire = 0 \/ wire \in player.aliases \cup {player.id} THEN player.id ELSE wire

BuffEvents(kind, places, from) ==
  SetToSeq({BuffEvent(kind, Owner(p), from[p]) : p \in places})

(* What a buff list says: the last valid entry of each slot.               *)
Incoming(owner, list) ==
  LET valid == {i \in DOMAIN list : list[i].spell # 0}
      last(n) == CHOOSE i \in valid : list[i].slot = n
                   /\ \A j \in valid : list[j].slot = n => j <= i
  IN  [p \in {<<owner, <<"slot", list[i].slot>>>> : i \in valid} |->
        LET e == list[last(p[2][2])]
        IN  [spell |-> e.spell, ticks |-> {e.ticks}, slot |-> {e.slot}]]

(* apply_buff_snapshot, in parts: what leaves, what comes, what changes.   *)
Leaving(owner, incoming) ==
  {p \in DOMAIN buffs : Owner(p) = owner
     /\ (p \notin DOMAIN incoming \/ incoming[p].spell # buffs[p].spell)}
Coming(owner, incoming) ==
  DOMAIN incoming \ (DOMAIN buffs \ Leaving(owner, incoming))
Changing(owner, incoming) ==
  {p \in DOMAIN incoming \ Coming(owner, incoming) : incoming[p] # buffs[p]}

(* A slip: additions are published before removals.                        *)
SnapshotEventsAddingFirst(owner, incoming) ==
  BuffEvents("Added", Coming(owner, incoming), incoming)
    \o BuffEvents("Updated", Changing(owner, incoming), incoming)
    \o BuffEvents("Removed", Leaving(owner, incoming), buffs)

SnapshotEvents(owner, incoming) ==
  BuffEvents("Removed", Leaving(owner, incoming), buffs)
    \o BuffEvents("Added", Coming(owner, incoming), incoming)
    \o BuffEvents("Updated", Changing(owner, incoming), incoming)

(* EQL's list of all the buffs of one spawn.                               *)
BuffList(wire, list) ==
  LET owner == BuffOwner(wire)
      incoming == Incoming(owner, list)
  IN  /\ backend = "eql"
      /\ buffs' = Override(Without(buffs, Leaving(owner, incoming)), incoming)
      /\ Cardinality(DOMAIN casts) + Cardinality(DOMAIN buffs') <= MaxEntries
      /\ Publish(SnapshotEvents(owner, incoming))
      /\ told' = [told EXCEPT ![owner] = {incoming[p].spell : p \in DOMAIN incoming}]
      /\ UNCHANGED <<backend, player, casts>>

(* The places of an owner that show a spell; the map's first is the lowest *)
(* slot, and only without any the spell's own place.                       *)
Showing(owner, spell) ==
  {p \in DOMAIN buffs : Owner(p) = owner /\ buffs[p].spell = spell}

FirstPlace(places) ==
  LET slotted == {p \in places : p[2][1] = "slot"}
  IN  IF slotted = {} THEN CHOOSE p \in places : TRUE
      ELSE CHOOSE p \in slotted : \A q \in slotted : p[2][2] <= q[2][2]

(* A slip: only the first place that shows the spell is cleared.           *)
FadingFirst(owner, spell) ==
  LET shown == Showing(owner, spell)
  IN  IF shown = {} THEN {} ELSE {FirstPlace(shown)}

Fading(owner, spell) == Showing(owner, spell)

(* Live's and Test's fade: everything of the owner that shows the spell.   *)
BuffFade(wire, spell) ==
  LET owner == BuffOwner(wire)
  IN  /\ backend = "live"
      /\ buffs' = Without(buffs, Fading(owner, spell))
      /\ Publish(BuffEvents("Removed", Fading(owner, spell), buffs))
      /\ told' = [told EXCEPT ![owner] = @ \ {spell}]
      /\ UNCHANGED <<backend, player, casts>>

(* What is known of the slot stays known; of the duration it does not.     *)
NewBuff(place, spell, slot, ticks) ==
  [spell |-> spell, ticks |-> ticks,
   slot |-> IF slot = {} /\ place \in DOMAIN buffs THEN buffs[place].slot ELSE slot]

(* Live's and Test's other two forms.  The first has a slot or not and no  *)
(* duration, the second a duration and no slot; a slot given takes the     *)
(* place, else the spell's place is looked for.                            *)
BuffWire(wire, spell, slot, ticks) ==
  LET owner == BuffOwner(wire)
      shown == Showing(owner, spell)
      place == IF slot # {} THEN <<owner, <<"slot", CHOOSE n \in slot : TRUE>>>>
               ELSE IF shown # {} THEN FirstPlace(shown)
               ELSE <<owner, <<"spell", spell>>>>
      known == place \in DOMAIN buffs
      buff == NewBuff(place, spell, slot, ticks)
  IN  /\ backend = "live"
      /\ slot = {} \/ ticks = {}
      /\ known \/ Room
      /\ buffs' = Override(buffs, At(place, buff))
      /\ Publish(IF ~known THEN <<BuffEvent("Added", owner, buff)>>
                 ELSE IF buffs[place] # buff THEN <<BuffEvent("Updated", owner, buff)>>
                 ELSE <<>>)
      /\ told' = [told EXCEPT ![owner] = @ \cup {spell}]
      /\ UNCHANGED <<backend, player, casts>>

-----------------------------------------------------------------------------
(* The player is identified, or dies; only EQL's has other ids.            *)
Identify(id, aliases) ==
  /\ backend = "live" => aliases = {}
  /\ player' = [id |-> id, aliases |-> aliases]
  /\ UNCHANGED <<backend, casts, buffs, host, told>>

(* reset_combat, at every lifecycle boundary and flush.                    *)
Reset ==
  /\ casts' = <<>> /\ buffs' = <<>>
  /\ Publish(SetToSeq({Interrupted(c) : c \in DOMAIN casts})
               \o BuffEvents("Removed", DOMAIN buffs, buffs))
  /\ player' = [id |-> 0, aliases |-> {}]
  /\ told' = [o \in Ids0 |-> {}]
  /\ UNCHANGED backend

Init ==
  /\ backend \in {"eql", "live"}
  /\ player = [id |-> 0, aliases |-> {}]
  /\ casts = <<>> /\ buffs = <<>>
  /\ host = [casts |-> <<>>, buffs |-> <<>>, effect |-> <<>>]
  /\ told = [o \in Ids0 |-> {}]

Next ==
  \/ \E spell \in Spells, target \in Ids0 : SpellCastRequest(spell, target)
  \/ \E caster \in Ids0, spell \in Spells : SpawnCast(caster, spell)
  \/ \E wire \in Ids0, spell \in Spells, fromClient \in BOOLEAN : Act(wire, spell, fromClient)
  \/ Interrupt
  \/ \E wire \in Ids0, list \in BuffLists : BuffList(wire, list)
  \/ \E wire \in Ids0, spell \in Spells : BuffFade(wire, spell)
  \/ \E wire \in Ids0, spell \in Spells, slot \in {{}} \cup {{n} : n \in Slots},
        ticks \in {{}} \cup {{t} : t \in Ticks} : BuffWire(wire, spell, slot, ticks)
  \/ \E id \in Ids0, aliases \in SUBSET Ids : Identify(id, aliases)
  \/ Reset

Spec == Init /\ [][Next]_vars

-----------------------------------------------------------------------------
(* Properties                                                              *)

(* The published events suffice for the buffs: a host that applies them in *)
(* order and keeps them by owner and slot shows what the session has, also *)
(* when a list puts another effect in the same slot, and across resets     *)
(* (SESSION_API.md:78-82; lib.rs:1472-1508, 1523-1571, 2132-2143).         *)
HostFollowsBuffs == host.buffs = buffs

(* ... and for the casts of every known caster, however a cast ends:       *)
(* superseded, interrupted, reset, or silently completed by an action.  Of *)
(* a request made before the player was known the host shows at least what *)
(* the session has (lib.rs:1385-1444, 2133-2136).                          *)
HostFollowsCasts ==
  /\ \A id \in Ids : id \in DOMAIN host.casts <=> id \in DOMAIN casts
  /\ \A c \in DOMAIN casts : c \in DOMAIN host.casts /\ host.casts[c] = casts[c]

(* A cast is shown aimed at what the player's request of that very spell   *)
(* named, and only at the caster's own request, or at one made while the   *)
(* player was not yet known (lib.rs:1303-1327, 1385-1396).                 *)
TargetsAreTheAskers ==
  \A c \in DOMAIN casts : \A a \in casts[c].aim :
    a.spell = casts[c].spell /\ a.by \in {c, 0}

(* No effect is shown that has faded, or that a list no longer names,      *)
(* though the server told it once with its slot and once without           *)
(* (lib.rs:1480-1492, 1523-1536).                                          *)
FadedIsGone ==
  \A p \in DOMAIN buffs : buffs[p].spell \in told[Owner(p)]

(* seq-events/src/lib.rs:1114-1117: a buff is added when "a spell effect   *)
(* became active in a previously empty owner/slot entry", and updated when *)
(* the entry "changed duration or caster attribution".  So an entry shows  *)
(* the effect it was added with.                                           *)
UpdatesKeepTheEffect ==
  \A p \in DOMAIN buffs : host.effect[p] = buffs[p].spell
=============================================================================
