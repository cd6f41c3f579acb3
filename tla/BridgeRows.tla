---------------------------- MODULE BridgeRows ----------------------------
(***************************************************************************)
(* How the C++ bridge lays events out for its host: every kind of event    *)
(* has a vector of rows in the batch, an event becomes a reference (kind,  *)
(* index) and a row, and an optional field becomes a flag and a value.     *)
(***************************************************************************)
EXTENDS EventVocabulary

(***************************************************************************)
(* The flags of the row structures.  A structure that is not named here    *)
(* has none.                                                               *)
(***************************************************************************)
SpawnStructs ==
    [PlayerIdentity |-> {"spawn_id"}, PlayerMoved |-> {"spawn_id"},
     PlayerVitals |-> {"health", "health.maximum", "mana", "mana.maximum",
                       "endurance", "endurance.maximum"},
     PlayerDied |-> {"killer_id"}, SpawnDied |-> {"killer_id"},
     PlayerAppearance |-> {"race", "gender", "animation"},
     SpawnInfo |-> {"max_hp", "pos", "velocity.x", "velocity.y",
                    "velocity.z", "delta_heading", "animation",
                    "equipment_models"}]

\* EventItemTemplate, as a part of the rows that carry items
ItemFlags == {"item.icon", "item.stack_count", "item.weight_tenths",
              "item.flags", "item.corruption"}

MovementStructs ==
    LET moving == {"velocity.x", "velocity.y", "velocity.z",
                   "delta_heading", "animation"}
    IN  [DoorInfo |-> {"zone_point_id"}, SpawnMoved |-> moving,
         SpawnRenamed |-> {"id"}, SelfPos |-> moving]

WorldStructs ==
    [ZoneTransition |-> {"zone_id", "instance_id"},
     Items |-> ItemFlags,
     InventoryItemUpdated |-> ItemFlags \cup {"previous_location"},
     EquipmentSlotUpdated |-> ItemFlags \cup {"item"},
     GroundItem |-> {"heading"},
     ZonePointInfo |-> {"trigger_id", "actor_definition",
                        "destination_zone_id", "destination_instance_id"},
     CombatDamage |-> {"source_id", "target_id", "spell_id"},
     SpellActionResolved |-> {"source_id", "target_id", "caster_level"}]

CastStructs ==
    [SpellCastStarted |-> {"caster_id", "target_id", "cast_time_ms", "slot"},
     SpellCastInterrupted |-> {"caster_id", "target_id"},
     AlternateAdvancementSnapshot |-> {"spent_points", "assigned_points"},
     ExperienceProgress |-> {"level", "previous_level"},
     LootAcquisition |-> {"item_id", "corpse_id", "sequence"}]

BuffStructs ==
    [ChatMessage |-> {"format_id"},
     ActiveBuff |-> {"owner_id", "remaining_ticks", "slot", "caster_id",
                     "caster_name"},
     BuffRemoved |-> {"owner_id", "slot"},
     GroupRosterState |-> {"group_id", "member.level"},
     DynamicZoneSwitch |-> {"zone_id", "instance_id", "kind", "position"},
     DynamicZoneState |-> {"zone_id", "instance_id", "kind", "position",
                           "max_players"}]

Flags ==
    Merged(<<SpawnStructs, MovementStructs, WorldStructs, CastStructs,
             BuffStructs, [Plain |-> {}]>>)

(***************************************************************************)
(* translate_event: the structure each arm fills.                          *)
(***************************************************************************)
Plain(kinds) == [k \in kinds |-> "Plain"]

PlayerRows ==
    Merged(<<[PlayerIdentityUpdated |-> "PlayerIdentity",
              PlayerMoved |-> "PlayerMoved", PlayerVitalsUpdated |-> "PlayerVitals",
              PlayerDied |-> "PlayerDied", SpawnDied |-> "SpawnDied",
              PlayerAppearanceUpdated |-> "PlayerAppearance",
              SpawnAdded |-> "SpawnInfo", SpawnMoved |-> "SpawnMoved",
              SpawnRenamed |-> "SpawnRenamed"],
             Plain({"SessionReset", "SpawnHealthUpdated", "SpawnIdentityUpdated",
                    "SpawnRemoved", "SpawnKilled"})>>)

SpawnRows ==
    Merged(<<[SelfPos |-> "SelfPos", ZoneTransition |-> "ZoneTransition"],
             Plain({"SpawnHp", "StatSync", "SpawnAnimation", "SpawnIllusion",
                    "GuildsInZone", "TimeOfDay", "ZoneChanged",
                    "ZoneEnvironmentChanged", "PlayerProfile"})>>)

ItemRows ==
    Merged(<<[ItemSet |-> "Items", ItemLearned |-> "Items",
              InventorySnapshot |-> "Items", EquipmentSnapshot |-> "Items",
              InventoryItemUpdated |-> "InventoryItemUpdated",
              EquipmentSlotUpdated |-> "EquipmentSlotUpdated"],
             Plain({"Stance", "Invocation", "InspectAnswer", "GuildRoster",
                    "GuildRosterUpdated", "GuildRosterWire", "GuildMemberStatus",
                    "ZoneServerInfo"})>>)

WorldRows ==
    Merged(<<[Doors |-> "DoorInfo", GroundItem |-> "GroundItem",
              ZonePoints |-> "ZonePointInfo", CombatDamage |-> "CombatDamage"],
             Plain({"GuildMotd", "GuildMotdUpdated", "GuildRankName",
                    "GuildRankNamesUpdated", "LoadoutSwap", "GroundItemRemoved",
                    "CorpseLocated", "Combat"})>>)

CastRows ==
    Merged(<<[SpellActionResolved |-> "SpellActionResolved",
              SpellCastStarted |-> "SpellCastStarted",
              SpellCastInterrupted |-> "SpellCastInterrupted",
              ExperienceUpdated |-> "ExperienceProgress"],
             Plain({"SpellAction", "SpellCastRequest", "SpawnCast", "Targeted",
                    "Considered", "AaTable", "AlternateAbilityDefined", "Exp"})>>)

ProgressRows ==
    Merged(<<[AlternateAdvancementSnapshot |-> "AlternateAdvancementSnapshot"],
             Plain({"AaExp", "AlternateAdvancementUpdated", "Stamina",
                    "ManaUpdate", "SkillUpdate", "SkillsSnapshot",
                    "SkillValueUpdated", "LootTransaction", "LootDrops",
                    "CorpseLootSnapshot"})>>)

ChatRows ==
    Merged(<<[LootAcquired |-> "LootAcquisition", ChatMessage |-> "ChatMessage"],
             Plain({"Money", "MoneyBalanceUpdated", "SimpleMessage",
                    "FormattedMessage", "SpecialMessage", "LootMessage", "Chat"})>>)

BuffRows ==
    Merged(<<[BuffAdded |-> "ActiveBuff", BuffUpdated |-> "ActiveBuff",
              BuffRemoved |-> "BuffRemoved",
              GroupRosterUpdated |-> "GroupRosterState"],
             Plain({"UcsRecord", "BuffList", "BuffWire", "GroupFollow",
                    "GroupDisband", "GroupRosterWire", "DynamicZoneInfo"})>>)

ZoneRows ==
    Merged(<<[DynamicZoneSwitch |-> "DynamicZoneSwitch",
              DynamicZoneUpdated |-> "DynamicZoneState"],
             Plain({"LevelUpdate", "EnterWorld"})>>)

RowStruct ==
    Merged(<<PlayerRows, SpawnRows, ItemRows, WorldRows, CastRows,
             ProgressRows, ChatRows, BuffRows, ZoneRows>>)

\* The vector an arm pushes to: the kind's own, but for two pairs.
Vector(kind) ==
    CASE kind \in {"Stance", "Invocation"} -> "Named"
      [] kind \in {"Targeted", "Considered"} -> "SpawnId"
      [] OTHER -> kind

(***************************************************************************)
(* The batch.  id stands for the fields that are always there, and rows    *)
(* has the vectors that are not empty.                                     *)
(***************************************************************************)
EmptyBatch(generation, disposition) ==
    [generation |-> generation, disposition |-> disposition,
     events |-> << >>, rows |-> << >>, self_stats |-> 0,
     loot_rows |-> << >>]

\* A bug: the flag is taken from the value.
RowFlagsNonzero(e) ==
    [id |-> e.id,
     cells |-> [f \in Flags[RowStruct[e.kind]] |->
                 [has |-> f \in DOMAIN e.opts /\ e.opts[f] = "value",
                  value |-> IF f \in DOMAIN e.opts THEN e.opts[f]
                            ELSE "zero"]]]

Row(e) ==
    [id |-> e.id,
     cells |-> [f \in Flags[RowStruct[e.kind]] |->
                 [has |-> f \in DOMAIN e.opts /\ e.opts[f] # "none",
                  value |-> IF f \in DOMAIN e.opts /\ e.opts[f] # "none"
                            THEN e.opts[f] ELSE "zero"]]]

PushRow(batch, e) ==
    LET v == Vector(e.kind)
        before == IF v \in DOMAIN batch.rows THEN batch.rows[v] ELSE << >>
    IN  [batch EXCEPT !.rows = [w \in DOMAIN @ \cup {v} |->
                                  IF w = v THEN Append(before, Row(e))
                                  ELSE @[w]],
                      !.events = Append(@, [kind |-> e.kind,
                                            payload_index |-> Len(before)])]

TranslateEvents(generation, disposition, events) ==
    LET batch[n \in 0 .. Len(events)] ==
            IF n = 0 THEN EmptyBatch(generation, disposition)
            ELSE PushRow(batch[n - 1], events[n])
    IN  batch[Len(events)]

(***************************************************************************)
(* The host's side of the contract: it reads the row a reference names, in *)
(* the vector the interface documents for the kind (SESSION_API.md:24-28), *)
(* and takes a field for absent exactly when its flag is false.            *)
(***************************************************************************)
HostVector(kind) ==
    CASE kind \in {"Stance", "Invocation"} -> "Named"
      [] kind \in {"Targeted", "Considered"} -> "SpawnId"
      [] OTHER -> kind

HostReads(batch, i) ==
    LET ref == batch.events[i]
        row == batch.rows[HostVector(ref.kind)][ref.payload_index + 1]
    IN  [kind |-> ref.kind, id |-> row.id,
         opts |-> [o \in Optional[ref.kind] |->
                     IF row.cells[o].has THEN row.cells[o].value
                     ELSE "none"]]

HostEvents(batch) == [i \in DOMAIN batch.events |-> HostReads(batch, i)]
=============================================================================
