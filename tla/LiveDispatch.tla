---------------------------- MODULE LiveDispatch ----------------------------
(***************************************************************************)
(* LiveBackend::decode, which the Test backend shares: the same opcode     *)
(* names, zone points excepted, and the parsers of seq-decode.             *)
(***************************************************************************)
EXTENDS Payloads

(***************************************************************************)
(* Parsers of seq-decode that are more than a length check                 *)
(***************************************************************************)
LiveParseSpawn == Walked
LiveParseNpcMove == [Exact EXCEPT !.errors = {"broken"}]
LiveParseChannelMessage == Walked
LiveParseBuff == [sizes |-> {"stock", "other", "long"}, errors |-> {"broken"}]
LiveParseNewZone == [Walked EXCEPT !.errors = {"broken", "odd"}]
LiveParseZoneServerInfo == [Exact EXCEPT !.errors = {"odd"}]
LiveParseProfile == Walked
LiveParseItemPacket == Walked
LiveParseGroundSpawn == Walked
LiveParseGuildsInZone == Walked
\* The walk over the members ends where it fails, with what it has so far.
LiveParseGuildRoster == AtLeast
LiveParseExpandedGuildInfo == Unchecked
LiveParseSpecialMessage == Walked
LiveParseTimeOfDay == [Exact EXCEPT !.errors = {"odd"}]
LiveParseGroupMemberList == AtLeast

(***************************************************************************)
(* The handlers, in the order of the source                                *)
(***************************************************************************)
LiveSpawnHandlers ==
    [OP_ZoneEntry |-> Gives(LiveParseSpawn, <<"SpawnAdded">>),
     OP_MobUpdate |-> Gives(Exact, <<"SpawnMoved">>),
     OP_NpcMoveUpdate |-> Gives(LiveParseNpcMove, <<"SpawnMoved">>),
     OP_RemoveSpawn |-> Gives(Exact, <<"SpawnRemoved">>),
     OP_DeleteSpawn |-> Gives(Exact, <<"SpawnRemoved">>),
     OP_SpawnRename |-> Refusing(Gives(Exact, <<"SpawnRenamed">>), {"odd"}),
     OP_HPUpdate |-> Gives(Exact, <<"SpawnHp">>),
     OP_ClientUpdate |-> Gives(Exact, <<"SelfPos">>)]

LiveCombatHandlers ==
    [OP_TargetMouse |-> Gives(Exact, <<"Targeted">>),
     OP_Consider |-> Gives(Exact, <<"Considered">>),
     OP_CommonMessage |->
         Echoing(QuietOn(Gives(LiveParseChannelMessage, <<"Chat">>),
                         {"idle"}), {"sound"}),
     OP_Action2 |-> Gives(Exact, <<"Combat">>),
     OP_Action |-> Gives(TwoLengths, <<"SpellAction">>),
     OP_BeginCast |-> Gives(Exact, <<"SpawnCast">>),
     OP_CastSpell |-> Gives(Exact, <<"SpellCastRequest">>),
     OP_Buff |-> Gives(LiveParseBuff, <<"BuffWire">>),
     OP_Death |-> Gives(Exact, <<"SpawnKilled">>)]

LiveLifecycleHandlers ==
    [OP_NewZone |->
         Gives(LiveParseNewZone, <<"ZoneChanged", "ZoneEnvironmentChanged">>),
     OP_ZoneChange |-> Gives(Exact, <<"ZoneTransition">>),
     OP_ZoneServerInfo |->
         Gives(LiveParseZoneServerInfo, <<"ZoneServerInfo">>),
     OP_EnterWorld |-> Refusing(Gives(Exact, <<"EnterWorld">>), {"odd"}),
     OP_PlayerProfile |-> Gives(LiveParseProfile, <<"PlayerProfile">>),
     OP_SpawnDoor |-> Refusing(Gives(Exact, <<"Doors">>), {"odd"})]

LiveItemHandlers ==
    [OP_ItemPacket |-> Gives(LiveParseItemPacket, <<"ItemLearned">>),
     OP_Stamina |-> Gives(Exact, <<"Stamina">>),
     OP_ManaChange |-> Gives(Exact, <<"ManaUpdate">>),
     OP_SkillUpdate |-> Gives(Exact, <<"SkillUpdate">>),
     OP_Illusion |-> Gives(Exact, <<"SpawnIllusion">>),
     OP_GroundSpawn |->
         Refusing(Gives(LiveParseGroundSpawn, <<"GroundItem">>), {"odd"}),
     OP_CorpseLocResponse |->
         Refusing(Gives(Exact, <<"CorpseLocated">>), {"odd"})]

\* Test: at least one fixed record, each with a printable actor name.
LiveZonePoints ==
    [OP_SendZonePoints |-> Refusing(Gives(Exact, <<"ZonePoints">>), {"odd"})]

TestZonePoints ==
    [OP_SendZonePoints |->
         Refusing(Gives(Exact, <<"ZonePoints">>), {"odd", "broken", "idle"})]

LiveGuildHandlers ==
    [OP_ClickObject |-> Gives(Exact, <<"GroundItemRemoved">>),
     OP_SpawnAppearance |-> QuietOn(Gives(Exact, << >>), Bodies),
     OP_GuildsInZoneList |->
         QuietOn(Gives(LiveParseGuildsInZone, <<"GuildsInZone">>), {"idle"}),
     OP_NewGuildInZone |-> Gives(Walked, <<"GuildsInZone">>),
     OP_GuildMemberList |->
         Gives(LiveParseGuildRoster, <<"GuildRoster", "GuildRosterWire">>),
     OP_GuildMemberUpdate |-> Gives(Exact, <<"GuildMemberStatus">>),
     OP_GuildMOTD |-> Gives(AtLeast, <<"GuildMotd">>),
     OP_ExpandedGuildInfo |->
         QuietOn(Gives(LiveParseExpandedGuildInfo, <<"GuildRankName">>),
                 {"short", "broken", "idle"})]

LiveMessageHandlers ==
    [OP_SimpleMessage |-> Gives(Exact, <<"SimpleMessage">>),
     OP_FormattedMessage |-> Gives(AtLeast, <<"FormattedMessage">>),
     OP_SpecialMesg |-> Gives(LiveParseSpecialMessage, <<"SpecialMessage">>),
     OP_ExpUpdate |-> Gives(Exact, <<"Exp">>),
     OP_AAExpUpdate |-> Gives(Exact, <<"AaExp">>),
     OP_TimeOfDay |-> Gives(LiveParseTimeOfDay, <<"TimeOfDay">>),
     OP_GroupFollow |-> Gives(AtLeast, <<"GroupFollow">>),
     OP_GroupDisband |-> Gives(Exact, <<"GroupDisband">>),
     OP_GroupDisband2 |-> Gives(Exact, <<"GroupDisband">>),
     OP_GroupMemberList |->
         QuietOn(Gives(LiveParseGroupMemberList, <<"GroupRosterWire">>),
                 {"idle"}),
     OP_DzInfo |-> Gives(Exact, <<"DynamicZoneInfo">>),
     OP_DzSwitchInfo |-> Gives(TwoLengths, <<"DynamicZoneSwitch">>)]

LiveHandlers(backend) ==
    Merged(<<LiveSpawnHandlers, LiveCombatHandlers, LiveLifecycleHandlers,
             LiveItemHandlers, LiveGuildHandlers, LiveMessageHandlers,
             IF backend = "test" THEN TestZonePoints ELSE LiveZonePoints>>)

(***************************************************************************)
(* Directions                                                              *)
(***************************************************************************)
LiveServerOnly ==
    {"OP_ZoneEntry", "OP_NpcMoveUpdate", "OP_SpawnRename", "OP_NewZone",
     "OP_PlayerProfile", "OP_BeginCast", "OP_Buff", "OP_GroundSpawn",
     "OP_SpawnDoor", "OP_CorpseLocResponse", "OP_SendZonePoints",
     "OP_GuildMemberUpdate", "OP_TimeOfDay", "OP_ZoneServerInfo",
     "OP_GroupMemberList", "OP_DzInfo", "OP_DzSwitchInfo", "OP_ClickObject"}

LiveClientOnly == {"OP_CastSpell", "OP_EnterWorld"}

LiveDecode(backend, op, dir, p) ==
    IF \/ op \in LiveServerOnly /\ dir # "S2C"
       \/ op \in LiveClientOnly /\ dir # "C2S"
    THEN Ignored
    ELSE IF op \notin DOMAIN LiveHandlers(backend) THEN Unhandled
    ELSE Handle(LiveHandlers(backend)[op], dir, p)

\* The optional fields these backends leave out, and those they fill in.
LiveLeavesOut(backend) ==
    [SpawnAdded |-> {"max_hp"}, ItemLearned |-> {"item.icon"},
     ZonePoints |-> IF backend = "test"
                    THEN {"trigger_id", "destination_zone_id",
                          "destination_instance_id"}
                    ELSE {"actor_definition"}]

LiveFillsIn(backend) ==
    [SpawnAdded |-> {"pos", "velocity.x", "velocity.y", "velocity.z",
                     "delta_heading", "animation", "equipment_models"},
     ItemLearned |-> {"item.stack_count", "item.weight_tenths",
                      "item.flags", "item.corruption"},
     ZoneTransition |-> {"zone_id", "instance_id"},
     GroundItem |-> {"heading"},
     ZonePoints |-> IF backend = "test" THEN {"actor_definition"}
                    ELSE {"trigger_id", "destination_zone_id",
                          "destination_instance_id"}]
=============================================================================
