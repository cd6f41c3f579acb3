-------------------------- MODULE EventVocabulary --------------------------
(***************************************************************************)
(* The neutral events of seq-events: every kind, with the fields of it     *)
(* that may be absent.  A field that is always there carries data and is   *)
(* left out; what a reader of an event can get wrong is presence, and a    *)
(* present zero is not the same as an absent field.                        *)
(*                                                                         *)
(* An optional part of a part is named after both ("item.icon"), and is    *)
(* absent whenever the part it belongs to is.                              *)
(***************************************************************************)
EXTENDS Tables

(***************************************************************************)
(* Optional fields of the structures that events share                     *)
(***************************************************************************)
Velocity == {"velocity.x", "velocity.y", "velocity.z"}
PlayerVitals == {"health", "health.maximum", "mana", "mana.maximum",
                 "endurance", "endurance.maximum"}
PlayerIdentity == {"spawn_id"}
PlayerAppearance == {"race", "gender", "animation"}
SpawnInfo == Velocity \cup {"max_hp", "pos", "delta_heading", "animation",
                            "equipment_models"}
ActiveBuff == {"owner_id", "remaining_ticks", "slot", "caster_id",
               "caster_name"}
LootAcquisition == {"item_id", "corpse_id", "sequence"}
ItemTemplate == {"item.icon", "item.stack_count", "item.weight_tenths",
                 "item.flags", "item.corruption"}
ExperienceProgress == {"level", "previous_level"}
AlternateAdvancement == {"spent_points", "assigned_points"}
ChatMessage == {"format_id"}
GroupMember == {"member.level"}
GroupRosterState == GroupMember \cup {"group_id"}
DynamicZoneState == {"zone_id", "instance_id", "kind", "position",
                     "max_players"}
DoorInfo == {"zone_point_id"}
GroundItemInfo == {"heading"}
ZonePointInfo == {"trigger_id", "actor_definition", "destination_zone_id",
                  "destination_instance_id"}

(***************************************************************************)
(* The kinds, family by family                                             *)
(***************************************************************************)
PlayerKinds ==
    [SessionReset |-> {}, PlayerIdentityUpdated |-> PlayerIdentity,
     PlayerMoved |-> {"spawn_id"}, PlayerVitalsUpdated |-> PlayerVitals,
     SpawnHealthUpdated |-> {}, PlayerDied |-> {"killer_id"},
     SpawnDied |-> {"killer_id"}, SpawnIdentityUpdated |-> {},
     PlayerAppearanceUpdated |-> PlayerAppearance]

SpawnKinds ==
    [SpawnAdded |-> SpawnInfo,
     SpawnMoved |-> Velocity \cup {"delta_heading", "animation"},
     SpawnRemoved |-> {}, SpawnRenamed |-> {"id"}, SpawnKilled |-> {},
     SpawnHp |-> {}, StatSync |-> {},
     SelfPos |-> Velocity \cup {"delta_heading", "animation"},
     SpawnAnimation |-> {}, SpawnIllusion |-> {}]

ZoneKinds ==
    [GuildsInZone |-> {}, TimeOfDay |-> {},
     ZoneTransition |-> {"zone_id", "instance_id"}, ZoneChanged |-> {},
     ZoneEnvironmentChanged |-> {}, PlayerProfile |-> {}, Stance |-> {},
     Invocation |-> {}, InspectAnswer |-> {}, GuildRoster |-> {},
     GuildRosterWire |-> {}, GuildRosterUpdated |-> {},
     GuildMemberStatus |-> {}, ZoneServerInfo |-> {}]

ItemKinds ==
    [ItemSet |-> ItemTemplate, ItemLearned |-> ItemTemplate,
     InventorySnapshot |-> ItemTemplate,
     InventoryItemUpdated |-> ItemTemplate \cup {"previous_location"},
     EquipmentSnapshot |-> ItemTemplate,
     EquipmentSlotUpdated |-> ItemTemplate \cup {"item"}]

GuildKinds ==
    [GuildMotd |-> {}, GuildMotdUpdated |-> {}, GuildRankName |-> {},
     GuildRankNamesUpdated |-> {}, LoadoutSwap |-> {}]

WorldKinds ==
    [Doors |-> DoorInfo, GroundItemRemoved |-> {},
     GroundItem |-> GroundItemInfo, CorpseLocated |-> {},
     ZonePoints |-> ZonePointInfo]

CombatKinds ==
    [Combat |-> {}, CombatDamage |-> {"source_id", "target_id", "spell_id"},
     SpellAction |-> {},
     SpellActionResolved |-> {"source_id", "target_id", "caster_level"},
     SpellCastRequest |-> {}, SpawnCast |-> {},
     SpellCastStarted |-> {"caster_id", "target_id", "cast_time_ms", "slot"},
     SpellCastInterrupted |-> {"caster_id", "target_id"},
     Targeted |-> {}, Considered |-> {}]

ProgressKinds ==
    [AaTable |-> {}, AlternateAbilityDefined |-> {}, Exp |-> {},
     ExperienceUpdated |-> ExperienceProgress, AaExp |-> {},
     AlternateAdvancementUpdated |-> {},
     AlternateAdvancementSnapshot |-> AlternateAdvancement, Stamina |-> {},
     ManaUpdate |-> {}, SkillUpdate |-> {}, SkillsSnapshot |-> {},
     SkillValueUpdated |-> {}]

LootKinds ==
    [LootTransaction |-> {}, LootDrops |-> {}, CorpseLootSnapshot |-> {},
     LootAcquired |-> LootAcquisition, Money |-> {},
     MoneyBalanceUpdated |-> {}]

ChatKinds ==
    [SimpleMessage |-> {}, FormattedMessage |-> {}, SpecialMessage |-> {},
     LootMessage |-> {}, Chat |-> {}, ChatMessage |-> ChatMessage,
     UcsRecord |-> {}]

BuffKinds ==
    [BuffList |-> {}, BuffWire |-> {}, BuffAdded |-> ActiveBuff,
     BuffUpdated |-> ActiveBuff, BuffRemoved |-> {"owner_id", "slot"}]

GroupKinds ==
    [GroupFollow |-> {}, GroupDisband |-> {}, GroupRosterWire |-> {},
     GroupRosterUpdated |-> GroupRosterState, DynamicZoneInfo |-> {},
     DynamicZoneSwitch |-> {"zone_id", "instance_id", "kind", "position"},
     DynamicZoneUpdated |-> DynamicZoneState, LevelUpdate |-> {},
     EnterWorld |-> {}]

\* Event: the optional fields of every kind.
Optional ==
    Merged(<<PlayerKinds, SpawnKinds, ZoneKinds, ItemKinds, GuildKinds,
             WorldKinds, CombatKinds, ProgressKinds, LootKinds, ChatKinds,
             BuffKinds, GroupKinds>>)

Kinds == DOMAIN Optional

\* The part an optional part belongs to, when that is optional too.
Parent(kind) ==
    CASE kind = "PlayerVitalsUpdated" ->
           [o \in {"health.maximum", "mana.maximum", "endurance.maximum"} |->
               CASE o = "health.maximum" -> "health"
                 [] o = "mana.maximum" -> "mana"
                 [] OTHER -> "endurance"]
      [] kind = "EquipmentSlotUpdated" -> [o \in ItemTemplate |-> "item"]
      [] OTHER -> << >>

(***************************************************************************)
(* An event: its kind, and what each optional field holds: nothing, a      *)
(* zero (or an empty string), or some other value.                         *)
(***************************************************************************)
Contents == {"none", "zero", "value"}

WellFormed(e) ==
    /\ e.kind \in Kinds
    /\ e.opts \in [Optional[e.kind] -> Contents]
    /\ \A o \in DOMAIN Parent(e.kind) :
          e.opts[Parent(e.kind)[o]] = "none" => e.opts[o] = "none"
=============================================================================
