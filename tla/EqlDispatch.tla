---------------------------- MODULE EqlDispatch ----------------------------
(***************************************************************************)
(* EqlBackend::decode: the direction an opcode is taken in, the handler it *)
(* goes to, and what that handler makes of a payload.  OP_ClickObject      *)
(* checks the direction in its handler, and the message opcodes before any *)
(* handler: both are written here as opcodes of one direction.             *)
(***************************************************************************)
EXTENDS Payloads

(***************************************************************************)
(* Parsers of this crate that are more than a length check                 *)
(***************************************************************************)
EqlParseSpawn == Walked
EqlParseNpcMove == [sizes |-> {"stock"}, errors |-> {"broken"}]
EqlParseStatSync == [sizes |-> {"stock", "other"}, errors |-> {"broken"}]
EqlParseGuildsInZone == Walked
EqlParseChannelMessage == Walked
EqlParseSpecialMessage == Walked
EqlParseGroupMemberList == AtLeast
EqlParseLootDrops == Walked
EqlParseLootTransaction == AtLeast
EqlParseBuffList == WalkedToTheEnd
\* A length between the forms is an error; the compact form is the second.
EqlParseBuff == [sizes |-> {"stock", "other", "long"}, errors |-> {"broken"}]
EqlParseNewZone == [Walked EXCEPT !.errors = {"broken", "odd"}]
\* The walk inside a profile may stop anywhere: what it has not reached
\* stays at its default, and the packet is decoded all the same.
EqlParseProfile == AtLeast
EqlParseZoneServerInfo == [Exact EXCEPT !.errors = {"odd"}]
EqlParseGuildRoster == WalkedToTheEnd
EqlParseItemPacket == [sizes |-> {"stock", "long"}, errors |-> {}]
EqlParseLoadoutSwap == Walked
EqlParseGroundSpawn == Walked
EqlParseExpandedGuildInfo == Unchecked
\* Half the declared structure is read, and is enough.
EqlReadSpawnAppearance == [sizes |-> {"stock", "other", "long"}, errors |-> {}]

(***************************************************************************)
(* The handlers, in the order of the source                                *)
(***************************************************************************)
EqlSpawnHandlers ==
    [OP_ZoneEntry |-> Gives(EqlParseSpawn, <<"SpawnAdded">>),
     OP_MobUpdate |-> Gives(Exact, <<"SpawnMoved">>),
     OP_NpcMoveUpdate |-> Gives(EqlParseNpcMove, <<"SpawnMoved">>),
     OP_RemoveSpawn |-> Gives(Exact, <<"SpawnRemoved">>),
     OP_DeleteSpawn |-> Gives(Exact, <<"SpawnRemoved">>),
     OP_SpawnRename |->
         Refusing(Gives(Exact, <<"SpawnRenamed">>), {"odd"}),
     OP_Death |-> Gives(Exact, <<"SpawnKilled">>),
     OP_HPUpdate |->
         QuietOn(Gives(EqlParseStatSync, <<"StatSync">>), {"idle"})]

EqlPositionHandlers ==
    [OP_GuildsInZoneList |->
         QuietOn(Gives(EqlParseGuildsInZone, <<"GuildsInZone">>), {"idle"}),
     OP_NewGuildInZone |-> Gives(Walked, <<"GuildsInZone">>),
     OP_ClientUpdate |-> Gives(Exact, <<"SelfPos">>),
     OP_TargetMouse |-> Gives(Exact, <<"Targeted">>),
     OP_Consider |-> Gives(Exact, <<"Considered">>)]

EqlMessageHandlers ==
    [OP_CommonMessage |->
         Echoing(QuietOn(Gives(EqlParseChannelMessage, <<"Chat">>),
                         {"idle"}), {"sound"}),
     OP_SimpleMessage |-> Gives(Exact, <<"SimpleMessage">>),
     OP_FormattedMessage |-> Gives(AtLeast, <<"FormattedMessage">>),
     OP_SpecialMesg |-> Gives(EqlParseSpecialMessage, <<"SpecialMessage">>),
     OP_GroupFollow |-> Gives(AtLeast, <<"GroupFollow">>),
     OP_GroupDisband |-> Gives(AtLeast, <<"GroupDisband">>),
     OP_GroupDisband2 |-> Gives(AtLeast, <<"GroupDisband">>),
     OP_GroupMemberList |->
         QuietOn(Gives(EqlParseGroupMemberList, <<"GroupRosterWire">>),
                 {"idle"}),
     OP_DzInfo |-> Gives(Exact, <<"DynamicZoneInfo">>),
     OP_DzSwitchInfo |-> Gives(TwoLengths, <<"DynamicZoneSwitch">>),
     OP_LootMessage |-> Gives(AtLeast, <<"LootMessage">>)]

EqlProgressHandlers ==
    [OP_LevelUpdate |-> Gives(AtLeast, <<"LevelUpdate">>),
     OP_ExpUpdate |-> Gives(Exact, <<"Exp">>),
     OP_AAExpUpdate |-> Gives(AtLeast, <<"AaExp">>),
     OP_MoneyUpdate |-> Gives(AtLeast, <<"Money">>),
     OP_Stamina |-> Gives(Exact, <<"Stamina">>),
     OP_ManaChange |-> Gives(Exact, <<"ManaUpdate">>),
     OP_SkillUpdate |-> Gives(Exact, <<"SkillUpdate">>),
     OP_LootDrops |-> Gives(EqlParseLootDrops, <<"LootDrops">>),
     OP_LootTransaction |->
         QuietOn(Gives(EqlParseLootTransaction, <<"LootTransaction">>),
                 {"idle"}),
     OP_SendAATable |-> Gives(AtLeast, <<"AaTable">>)]

EqlCombatHandlers ==
    [OP_BuffList |-> Gives(EqlParseBuffList, <<"BuffList">>),
     OP_BuffList2 |-> Gives(EqlParseBuffList, <<"BuffList">>),
     OP_BuffList3 |-> Gives(EqlParseBuffList, <<"BuffList">>),
     OP_Action2 |-> Gives(Exact, <<"Combat">>),
     OP_Action |-> Gives(TwoLengths, <<"SpellAction">>),
     OP_CastSpell |-> Gives(Exact, <<"SpellCastRequest">>),
     OP_Buff |-> Gives(EqlParseBuff, <<"BuffWire">>),
     OP_BeginCast |-> Gives(AtLeast, <<"SpawnCast">>)]

EqlLifecycleHandlers ==
    [OP_NewZone |->
         Gives(EqlParseNewZone, <<"ZoneChanged", "ZoneEnvironmentChanged">>),
     OP_ZoneChange |-> Gives(Exact, <<"ZoneTransition">>),
     OP_EnterWorld |-> Refusing(Gives(Exact, <<"EnterWorld">>), {"odd"}),
     OP_PlayerProfile |-> Gives(EqlParseProfile, <<"PlayerProfile">>),
     OP_SpawnDoor |-> Refusing(Gives(Exact, <<"Doors">>), {"odd"})]

EqlNamedHandlers ==
    [OP_InspectAnswer |-> Gives(AtLeast, <<"InspectAnswer">>),
     OP_GuildMOTD |-> Gives(AtLeast, <<"GuildMotd">>),
     OP_ZoneServerInfo |->
         Gives(EqlParseZoneServerInfo, <<"ZoneServerInfo">>),
     OP_ItemPacket |->
         Refusing(Gives(EqlParseItemPacket, <<"ItemSet">>), {"idle"})]

EqlGuildHandlers ==
    [OP_GuildMemberList |->
         Gives(EqlParseGuildRoster, <<"GuildRoster", "GuildRosterWire">>),
     OP_ExpandedGuildInfo |->
         QuietOn(Gives(EqlParseExpandedGuildInfo, <<"GuildRankName">>),
                 {"short", "broken", "idle"}),
     OP_Stance |-> Gives(AtLeast, <<"Stance">>),
     OP_Invocation |-> Gives(AtLeast, <<"Invocation">>),
     OP_TimeOfDay |-> Refusing(Gives(Exact, <<"TimeOfDay">>), {"odd"}),
     OP_SpawnAppearance |->
         QuietOn(Gives(EqlReadSpawnAppearance, <<"SpawnAnimation">>), {"idle"}),
     OP_SpawnAppearance2 |->
         QuietOn(Gives(EqlReadSpawnAppearance, <<"SpawnAnimation">>), {"idle"}),
     OP_ClickObject |-> Gives(Exact, <<"GroundItemRemoved">>),
     OP_LoadoutSwap |->
         WithExtra(Gives(EqlParseLoadoutSwap, <<"SpawnAdded", "LoadoutSwap">>),
                   <<"ItemSet">>)]

EqlPlaceHandlers ==
    [OP_Illusion |-> Gives(Exact, <<"SpawnIllusion">>),
     OP_GroundSpawn |->
         Refusing(Gives(EqlParseGroundSpawn, <<"GroundItem">>), {"odd"}),
     OP_CorpseLocResponse |->
         Refusing(Gives(Exact, <<"CorpseLocated">>), {"odd"}),
     OP_SendZonePoints |-> Refusing(Gives(Exact, <<"ZonePoints">>), {"odd"})]

EqlHandlers ==
    Merged(<<EqlSpawnHandlers, EqlPositionHandlers, EqlMessageHandlers,
             EqlProgressHandlers, EqlCombatHandlers, EqlLifecycleHandlers,
             EqlNamedHandlers, EqlGuildHandlers, EqlPlaceHandlers>>)

(***************************************************************************)
(* Directions                                                              *)
(***************************************************************************)
EqlServerOnly ==
    {"OP_ZoneEntry", "OP_MobUpdate", "OP_NpcMoveUpdate", "OP_SpawnRename",
     "OP_NewZone", "OP_PlayerProfile", "OP_TimeOfDay", "OP_ZoneServerInfo",
     "OP_BeginCast", "OP_Buff", "OP_GroundSpawn", "OP_SpawnDoor",
     "OP_CorpseLocResponse", "OP_SendZonePoints", "OP_GroupMemberList",
     "OP_DzInfo", "OP_DzSwitchInfo", "OP_ClickObject", "OP_SimpleMessage",
     "OP_FormattedMessage", "OP_SpecialMesg", "OP_LootMessage"}

EqlClientOnly == {"OP_ZoneChange", "OP_CastSpell", "OP_EnterWorld"}

\* Decoded for nothing: the breadcrumb trail and the group status push.
EqlInert == {"OP_SelfPos", "OP_GroupUpdate"}

EqlDecode(op, dir, p) ==
    IF \/ op \in EqlInert
       \/ op \in EqlServerOnly /\ dir # "S2C"
       \/ op \in EqlClientOnly /\ dir # "C2S"
    THEN Ignored
    ELSE IF op \notin DOMAIN EqlHandlers THEN Unhandled
    ELSE Handle(EqlHandlers[op], dir, p)

\* The optional fields this backend leaves out of what it decodes, and
\* those it always fills.
EqlLeavesOut ==
    [SpawnAdded |-> {"velocity.x", "velocity.y", "velocity.z",
                     "delta_heading", "animation", "equipment_models"},
     ItemSet |-> {"item.stack_count", "item.weight_tenths", "item.flags",
                  "item.corruption"},
     ZoneTransition |-> {"zone_id", "instance_id"},
     GroundItem |-> {"heading"}, ZonePoints |-> {"actor_definition"}]

EqlFillsIn ==
    [SpawnAdded |-> {"max_hp", "pos"}, ItemSet |-> {"item.icon"},
     ZonePoints |-> {"trigger_id", "destination_zone_id",
                     "destination_instance_id"}]
=============================================================================
