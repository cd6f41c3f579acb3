--------------------------- MODULE SessionEvents ---------------------------
(***************************************************************************)
(* What a session makes of the events its backend decoded: the stages of   *)
(* apply_session_semantics, each from one event to the events that take    *)
(* its place.  What a stage remembers between packets is left to the       *)
(* modules of those stages; here a stage that depends on it may take any   *)
(* of its branches, and is the set of the sequences it may produce.        *)
(*                                                                         *)
(* ctx: the backend, the opcode name and the direction of the packet.      *)
(***************************************************************************)
EXTENDS FiniteSets, Naturals, Sequences

CONSTANTS
    MaxPending,  \* casts, buffs or effects one packet closes, at most
    LootIds      \* names of loot halves that wait for the other half

ASSUME PendingAssumption == MaxPending \in Nat
ASSUME LootIdsAssumption == IsFiniteSet(LootIds) /\ LootIds \subseteq Nat

\* up to n copies of a kind
UpTo(n, kind) == {[i \in 1 .. m |-> kind] : m \in 0 .. n}
Maybe(kind) == UpTo(1, kind)

\* every way to follow one of these sequences with one of those
Then(alts, more) == {a \o b : a \in alts, b \in more}

\* every way to put one sequence of each choice after the other
Joined(choices) ==
    LET joined[n \in 0 .. Len(choices)] ==
            IF n = 0 THEN {<< >>} ELSE Then(joined[n - 1], choices[n])
    IN  joined[Len(choices)]

(***************************************************************************)
(* apply_player_semantics                                                  *)
(***************************************************************************)
\* The player's own record, the phantom twin of it, or another spawn.
SpawnRoutes(ctx) ==
    LET other == {<<"SpawnAdded">>}
        phantom == IF ctx.backend = "eql"
                   THEN {<< >>, <<"PendingVitals">>} ELSE {}
        identity == IF ctx.op = "OP_LoadoutSwap" THEN {<< >>}
                    ELSE {<<"PlayerIdentityUpdated">>}
        pending == IF ctx.backend = "eql" THEN Maybe("PendingVitals")
                   ELSE {<< >>}
        player == Then(identity, Then(Maybe("PlayerMoved"),
                       Then(Maybe("PlayerVitalsUpdated"), pending)))
    IN  other \cup phantom \cup player

\* PendingVitals and SelfVitals are PlayerVitalsUpdated with a SelfStat put
\* aside for the host; SelfStat is one without.
StatRoutes(ctx) ==
    {<< >>, <<"SpawnHealthUpdated">>}
    \cup IF ctx.backend = "eql" THEN {<<"SelfVitals">>, <<"SelfStat">>}
         ELSE {}

PlayerStage(ctx, k) ==
    CASE k = "PlayerProfile" ->
           {<<"PlayerProfile", "PlayerIdentityUpdated",
              "PlayerVitalsUpdated">>}
      [] k = "SpawnAdded" -> SpawnRoutes(ctx)
      [] k = "SelfPos" -> {IF ctx.dir = "S2C" THEN <<"SpawnMoved">>
                           ELSE <<"PlayerMoved">>}
      [] k = "SpawnHp" -> {<<"PlayerVitalsUpdated">>,
                           <<"SpawnHealthUpdated">>}
      [] k = "StatSync" -> StatRoutes(ctx)
      [] k = "ManaUpdate" -> {<<"PlayerVitalsUpdated">>}
      [] k = "SpawnKilled" -> {<<"PlayerDied">>, <<"SpawnDied">>}
      [] k = "LoadoutSwap" -> {<<"PlayerIdentityUpdated">>,
                               <<"SpawnIdentityUpdated">>}
      [] k \in {"SpawnAnimation", "SpawnIllusion"} ->
           {<<k>>, <<"PlayerAppearanceUpdated">>}
      [] OTHER -> {<<k>>}

(***************************************************************************)
(* apply_progression_semantics and apply_item_update                       *)
(***************************************************************************)
ItemUpdates ==
    {<< >>} \cup Then({<<"InventoryItemUpdated">>},
                      UpTo(2, "EquipmentSlotUpdated"))

Additions(k) ==
    CASE k = "PlayerProfile" ->
           {<<"MoneyBalanceUpdated", "SkillsSnapshot",
              "AlternateAdvancementSnapshot">>}
      [] k = "ItemSet" -> {<< >>, <<"InventorySnapshot",
                                   "EquipmentSnapshot">>}
      [] k = "ItemLearned" -> ItemUpdates
      [] k = "Money" -> Maybe("MoneyBalanceUpdated")
      [] k = "SkillUpdate" -> Maybe("SkillValueUpdated")
      [] k = "Exp" -> Maybe("ExperienceUpdated")
      [] k = "LevelUpdate" -> Then(Maybe("PlayerIdentityUpdated"),
                                   Maybe("ExperienceUpdated"))
      [] k = "AaExp" -> Maybe("AlternateAdvancementUpdated")
      [] k = "AaTable" -> Maybe("AlternateAbilityDefined")
      [] OTHER -> {<< >>}

ProgressionStage(k) == Then({<<k>>}, Additions(k))

(***************************************************************************)
(* apply_combat_semantics                                                  *)
(***************************************************************************)
CastEvents ==
    {<< >>} \cup Then(Maybe("SpellCastInterrupted"), {<<"SpellCastStarted">>})

BuffDiff ==
    Then(UpTo(MaxPending, "BuffRemoved"),
         Then({<< >>, <<"BuffUpdated">>}, UpTo(MaxPending, "BuffAdded")))

Effects(ctx, k) ==
    CASE k = "Combat" -> {<<"CombatDamage">>}
      [] k = "SpellAction" -> Maybe("SpellActionResolved")
      [] k \in {"SpellCastRequest", "SpawnCast"} -> CastEvents
      [] k = "SimpleMessage" /\ ctx.dir = "S2C" ->
           UpTo(2, "SpellCastInterrupted")
      [] k = "BuffList" -> BuffDiff
      [] k = "BuffWire" -> UpTo(MaxPending, "BuffRemoved")
                           \cup {<<"BuffUpdated">>, <<"BuffAdded">>}
      [] OTHER -> {<< >>}

CombatStage(ctx, k) == Then({<<k>>}, Effects(ctx, k))

(***************************************************************************)
(* apply_communication_semantics                                           *)
(***************************************************************************)
Tellings(ctx, k) ==
    CASE k = "Chat" -> {IF ctx.dir = "C2S" THEN << >> ELSE <<"ChatMessage">>}
      [] k \in {"SimpleMessage", "FormattedMessage", "SpecialMessage"} ->
           {<<"ChatMessage">>}
      [] k = "LootMessage" -> Maybe("ChatMessage")
      [] k \in {"GroupRosterWire", "GroupDisband"} ->
           {<<"GroupRosterUpdated">>}
      [] k = "GroupFollow" -> Maybe("GroupRosterUpdated")
      [] k = "GuildRosterWire" -> {<<"GuildRosterUpdated">>}
      [] k = "GuildMemberStatus" -> Maybe("GuildRosterUpdated")
      [] k = "GuildMotd" -> {<<"GuildMotdUpdated">>}
      [] k = "GuildRankName" -> {<<"GuildRankNamesUpdated">>}
      [] k \in {"DynamicZoneInfo", "DynamicZoneSwitch"} ->
           {<<"DynamicZoneUpdated">>}
      [] OTHER -> {<< >>}

CommunicationStage(ctx, k) == Then({<<k>>}, Tellings(ctx, k))

\* The stages in their order.
Semantics(ctx, kinds) ==
    LET Player(s) == Joined([i \in DOMAIN s |-> PlayerStage(ctx, s[i])])
        Progression(s) == Joined([i \in DOMAIN s |-> ProgressionStage(s[i])])
        Combat(s) == Joined([i \in DOMAIN s |-> CombatStage(ctx, s[i])])
        Communication(s) ==
            Joined([i \in DOMAIN s |-> CommunicationStage(ctx, s[i])])
        progressed == UNION {Progression(s) : s \in Player(kinds)}
    IN  UNION {Communication(t) : t \in UNION {Combat(s) : s \in progressed}}

(***************************************************************************)
(* The correlators behind the last stage.  A session state s has           *)
(*   out         the events so far, each with its kind and its name;       *)
(*   open        loot halves that wait for the other half;                 *)
(*   loot_rows, self_stats  what the host has still to drain.              *)
(***************************************************************************)
IsRowOf(row) == row.source # "Window"

\* The names of the entries at these places, in order.
NamesAt(entries, places) ==
    LET names[n \in 0 .. Len(entries)] ==
            IF n = 0 THEN << >>
            ELSE IF n \in places THEN Append(names[n - 1], entries[n].id)
            ELSE names[n - 1]
    IN  names[Len(entries)]

ToldRows(rows) == NamesAt(rows, {i \in DOMAIN rows : IsRowOf(rows[i])})

\* finish_loot_rows: every row is kept, and all but window rows are told.
FinishLootRows(s, rows) ==
    LET told == ToldRows(rows)
    IN  [s EXCEPT !.loot_rows = @ \o rows,
                  !.out = @ \o [i \in DOMAIN told |->
                                  [kind |-> "LootAcquired", id |-> told[i]]]]

\* One row for each, the oldest first.
Rows(ids, source, complete) ==
    [i \in 1 .. Cardinality(ids) |->
       [source |-> source, complete |-> complete,
        id |-> CHOOSE id \in ids :
                 Cardinality({older \in ids : older < id}) = i - 1]]

\* A narration or a confirmation: it is ignored (another message, or seen
\* before), waits, or pairs with the half it belongs to.  A pile of coin is
\* complete by itself.
PairLoot(s, k) ==
    LET rows == {s.loot_rows[i].id : i \in DOMAIN s.loot_rows}
        free == LootIds \ (s.open \cup rows)
        Closing(id, source) ==
            FinishLootRows([s EXCEPT !.open = @ \ {id}],
                           Rows({id}, source, TRUE))
    IN  {s} \cup {[s EXCEPT !.open = @ \cup {id}] : id \in free}
        \cup {Closing(id, "Message") : id \in s.open}
        \cup (IF k = "LootTransaction"
              THEN {Closing(id, "Coin") : id \in free} ELSE {})

CloseLoot(s) ==
    FinishLootRows([s EXCEPT !.open = {}], Rows(s.open, "Message", FALSE))

\* A loot window: rows for the items not seen in it before, and a snapshot
\* when it differs from the one before.
Opened(s, n, snapshot) ==
    [s EXCEPT !.loot_rows = @ \o [i \in 1 .. n |-> [source |-> "Window",
                                                   complete |-> TRUE, id |-> 0]],
              !.out = @ \o [i \in DOMAIN snapshot |->
                              [kind |-> snapshot[i], id |-> Len(@) + i]]]

OpenWindow(s) ==
    {Opened(s, n, snapshot) :
       n \in 0 .. 2, snapshot \in Maybe("CorpseLootSnapshot")}

\* The event is told, and the correlators look at it.
ToldAs(k) == IF k \in {"PendingVitals", "SelfVitals"}
             THEN "PlayerVitalsUpdated" ELSE k
Tell(s, k) ==
    [s EXCEPT !.out = IF k = "SelfStat" THEN @
                      ELSE Append(@, [kind |-> ToldAs(k), id |-> Len(@) + 1]),
              !.self_stats =
                  @ + IF k \in {"PendingVitals", "SelfVitals", "SelfStat"}
                      THEN 1 ELSE 0]

ObserveEvent(ctx, s, k) ==
    LET told == Tell(s, k)
        eql == ctx.backend = "eql"
    IN  CASE eql /\ k \in {"LootMessage", "LootTransaction"} -> PairLoot(told, k)
          [] eql /\ k = "LootDrops" -> OpenWindow(told)
          [] eql /\ k = "ZoneChanged" -> {CloseLoot(told)}
          [] OTHER -> {told}

\* an event, looked at in any of these states
Observe(ctx, states, k) == UNION {ObserveEvent(ctx, t, k) : t \in states}

\* reset_correlations: what is closed, and in which order.
Closings ==
    Then(UpTo(MaxPending, "SpellCastInterrupted"),
    Then(UpTo(MaxPending, "BuffRemoved"),
    Then(Maybe("GroupRosterUpdated"),
    Then(Maybe("GuildRosterUpdated"), Maybe("DynamicZoneUpdated")))))

TellAll(s, kinds) ==
    LET told[n \in 0 .. Len(kinds)] ==
            IF n = 0 THEN s ELSE Tell(told[n - 1], kinds[n])
    IN  told[Len(kinds)]

ResetCorrelations(ctx, s) ==
    {LET told == TellAll(s, closed)
     IN  IF ctx.backend = "eql"
         THEN CloseLoot([told EXCEPT !.self_stats = 0]) ELSE told
       : closed \in Closings}

Resets(ctx, k) ==
    \/ k \in {"EnterWorld", "PlayerProfile"}
    \/ k = "ZoneTransition" /\ ctx.backend # "eql" /\ ctx.dir = "S2C"

(***************************************************************************)
(* apply_session_semantics, for the kinds a backend decoded from a packet. *)
(* An event that resets is alone in its packet.                            *)
(***************************************************************************)
ObserveAll(ctx, states, kinds) ==
    LET after[n \in 0 .. Len(kinds)] ==
            IF n = 0 THEN states ELSE Observe(ctx, after[n - 1], kinds[n])
    IN  after[Len(kinds)]

ApplySessionSemantics(ctx, s, kinds) ==
    LET resets == \E i \in DOMAIN kinds : Resets(ctx, kinds[i])
        before == IF resets
                  THEN {Tell(r, "SessionReset") : r \in ResetCorrelations(ctx, s)}
                  ELSE {s}
    IN  UNION {ObserveAll(ctx, before, events) : events \in Semantics(ctx, kinds)}

\* A bug: the marker goes out before what it closes.
FlushMarkerFirst(ctx, s, reason) ==
    IF reason \in {"ZoneTransition", "Reset"}
    THEN ResetCorrelations(ctx, Tell(s, "SessionReset"))
    ELSE ResetCorrelations(ctx, s)

\* Session::flush
FlushSession(ctx, s, reason) ==
    {IF reason \in {"ZoneTransition", "Reset"} THEN Tell(r, "SessionReset")
     ELSE r : r \in ResetCorrelations(ctx, s)}
=============================================================================
