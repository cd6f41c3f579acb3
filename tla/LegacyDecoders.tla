--------------------------- MODULE LegacyDecoders ---------------------------
(***************************************************************************)
(* The opcode-specific functions of the bridge, which a host calls in the  *)
(* shadow of a session to compare the two.  Each runs one parser of the    *)
(* backend it is built for and answers ok, or a row that says it is not;   *)
(* a function whose packet that backend does not have always says not ok,  *)
(* and is left out here, as are those of opcodes no session handles and    *)
(* the two for one record of a packet of doors or zone points.  None of    *)
(* them knows the direction of the packet.                                 *)
(***************************************************************************)
EXTENDS EqlDispatch, LiveDispatch

ByBackend(backend, eql, live) == IF backend = "eql" THEN eql ELSE live

(***************************************************************************)
(* The parser behind each function, in the order of the source             *)
(***************************************************************************)
LegacyPositions(backend) ==
    [OP_MobUpdate |-> Exact, OP_DeleteSpawn |-> Exact,
     OP_RemoveSpawn |-> Exact,
     OP_HPUpdate |-> ByBackend(backend, EqlParseStatSync, Exact)]

LegacyEqlOnly ==
    [OP_BeginCast |-> AtLeast, OP_Stance |-> AtLeast,
     OP_Invocation |-> AtLeast, OP_SendAATable |-> AtLeast,
     OP_LoadoutSwap |-> EqlParseLoadoutSwap,
     OP_LootTransaction |-> [EqlParseLootTransaction EXCEPT !.errors = {"idle"}],
     OP_MoneyUpdate |-> AtLeast, OP_LootDrops |-> EqlParseLootDrops,
     OP_LootMessage |-> AtLeast, OP_BuffList |-> EqlParseBuffList]

LegacyLiveOnly ==
    [OP_ExpandedGuildInfo |-> LiveParseExpandedGuildInfo,
     OP_GuildMemberUpdate |-> Exact]

LegacyGuilds(backend) ==
    [OP_GuildsInZoneList |->
         ByBackend(backend, EqlParseGuildsInZone, LiveParseGuildsInZone),
     OP_NewGuildInZone |-> Walked, OP_GuildMOTD |-> AtLeast,
     OP_GuildMemberList |->
         ByBackend(backend, EqlParseGuildRoster, LiveParseGuildRoster)]

LegacyVitals ==
    [OP_SpawnAppearance |-> Exact, OP_ExpUpdate |-> Exact,
     OP_LevelUpdate |-> Exact, OP_SkillUpdate |-> Exact,
     OP_ManaChange |-> Exact, OP_Stamina |-> Exact]

LegacySpawns(backend) ==
    [OP_Consider |-> Exact, OP_SpawnRename |-> Exact,
     OP_TargetMouse |-> Exact, OP_Death |-> Exact, OP_ClickObject |-> Exact,
     OP_Illusion |-> Exact, OP_Action2 |-> Exact,
     OP_Buff |-> ByBackend(backend, EqlParseBuff, LiveParseBuff),
     OP_ZoneEntry |-> ByBackend(backend, EqlParseSpawn, LiveParseSpawn)]

\* The stock structure, which is not the packet EQL sends under this opcode.
LegacyParseZoneChange(backend) ==
    ByBackend(backend, [Exact EXCEPT !.sizes = {"other"}], Exact)

\* A bug: the second layout of OP_Action has no function.
LegacyZonesStock(backend) ==
    [OP_ZoneChange |-> LegacyParseZoneChange(backend), OP_DzInfo |-> Exact,
     OP_DzSwitchInfo |-> Exact, OP_Action |-> Exact]

\* There are two functions for the two layouts of OP_Action.
LegacyZones(backend) ==
    [OP_ZoneChange |-> LegacyParseZoneChange(backend),
     OP_DzInfo |-> Exact, OP_DzSwitchInfo |-> Exact, OP_Action |-> TwoLengths,
     OP_GroupDisband |-> ByBackend(backend, AtLeast, Exact),
     OP_GroupFollow |-> AtLeast,
     OP_GroupMemberList |->
         ByBackend(backend, EqlParseGroupMemberList, LiveParseGroupMemberList),
     OP_CorpseLocResponse |-> Exact,
     OP_GroundSpawn |->
         ByBackend(backend, EqlParseGroundSpawn, LiveParseGroundSpawn)]

LegacyMessages(backend) ==
    [OP_SimpleMessage |-> Exact, OP_FormattedMessage |-> AtLeast,
     OP_SpecialMesg |->
         ByBackend(backend, EqlParseSpecialMessage, LiveParseSpecialMessage),
     OP_CommonMessage |->
         ByBackend(backend, EqlParseChannelMessage, LiveParseChannelMessage)]

LegacyProfile(backend) ==
    [OP_PlayerProfile |->
         ByBackend(backend, EqlParseProfile, LiveParseProfile),
     OP_NewZone |-> ByBackend(backend, EqlParseNewZone, LiveParseNewZone),
     OP_ClientUpdate |-> Exact,
     OP_NpcMoveUpdate |->
         ByBackend(backend, EqlParseNpcMove, LiveParseNpcMove)]

Legacy(backend) ==
    Merged(<<LegacyPositions(backend),
             ByBackend(backend, LegacyEqlOnly, LegacyLiveOnly),
             LegacyGuilds(backend), LegacyVitals, LegacySpawns(backend),
             LegacyZones(backend), LegacyMessages(backend),
             LegacyProfile(backend)>>)

LegacyOk(backend, op, p) == Accepts(Legacy(backend)[op], p)

(***************************************************************************)
(* The lengths only one of the two takes.  The session: the short quit     *)
(* form of a dynamic zone, an EQL level container whose head is the stock  *)
(* structure, an EQL appearance of any length with the fields read from    *)
(* it, and the EQL zone request.  A function: the stock zone change, which *)
(* is not what EQL sends.                                                  *)
(***************************************************************************)
SessionTakesMore(backend) ==
    {<<"OP_DzSwitchInfo", "other">>}
    \cup (IF backend = "eql"
          THEN {<<"OP_LevelUpdate", "long">>, <<"OP_SpawnAppearance", "other">>,
                <<"OP_SpawnAppearance", "long">>, <<"OP_ZoneChange", "stock">>}
          ELSE {})

FunctionTakesMore(backend) ==
    IF backend = "eql" THEN {<<"OP_ZoneChange", "other">>} ELSE {}
=============================================================================
