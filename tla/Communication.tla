---------------------------- MODULE Communication ----------------------------
(***************************************************************************)
(* What a session accumulates about groups, guilds and dynamic zones from  *)
(* partial packets (CommunicationState, seq-session/src/lib.rs), and what  *)
(* it publishes of it.  Every handler publishes the whole new state or     *)
(* nothing; `host` is the state of a host that keeps the last one it was   *)
(* given.                                                                  *)
(*                                                                         *)
(* "" is an empty slot and the unknown name.  A guild member's status is   *)
(* the number of the packet it was learned from.  Member levels, ranks,    *)
(* messages, chat and the contents of the two dynamic-zone halves are told *)
(* apart by no property and left out.                                      *)
(***************************************************************************)
EXTENDS Integers, FiniteSets, Sequences, SequencesExt

CONSTANTS MaxPeers,   \* MAX_GROUP_PEERS: the slots besides the player's own
          Names,      \* character names
          Rosters,    \* group roster packets: sequences of names
          Members,    \* guild roster packets: sets of names
          Groups,     \* group ids; 0 is none
          Guilds,     \* guild ids; 0 is none
          MaxStatus   \* bound: guild packets that carry a status

ASSUME MaxPeersAssumption == MaxPeers \in Nat
ASSUME NamesAssumption == "" \notin Names
ASSUME RostersAssumption == Rosters \subseteq Seq(Names \cup {""})
ASSUME MembersAssumption == Members \subseteq SUBSET Names
ASSUME IdsAssumption == Groups \cup Guilds \subseteq Nat \ {0}
ASSUME MaxStatusAssumption == MaxStatus \in Nat

VARIABLES
  player,    \* Session.player_name
  group,     \* group_id, group_slots, group_complete
  guild,     \* guild_id, guild_members, guild_complete, guild_status
  dz,        \* dynamic_zone: the correlated state and the halves seen
  host,      \* history: what a host holds of the above
  told       \* history: what the packets said, apart from how it is kept

vars == <<player, group, guild, dz, host, told>>

Slots    == 1 .. MaxPeers
Statuses == 1 .. MaxStatus

NoGroup == [id |-> 0, slots |-> [i \in Slots |-> ""], complete |-> FALSE]
NoGuild == [id |-> 0, members |-> <<>>, complete |-> FALSE, status |-> <<>>]
NoZone  == [state |-> "none", complete |-> FALSE, saw_info |-> FALSE, saw_switch |-> FALSE]

(* What is said of a group: the peers, and whether more of them than fit   *)
(* were ever said.  Of a guild: everyone mentioned, and how many packets   *)
(* with a status were sent.                                                *)
NothingTold(count) ==
  [peers |-> {}, crowded |-> FALSE, mentioned |-> {}, count |-> count]

Peers(g) == {g.slots[i] : i \in Slots} \ {""}

(* f overlaid with g.                                                      *)
Override(f, g) ==
  [n \in DOMAIN f \cup DOMAIN g |-> IF n \in DOMAIN g THEN g[n] ELSE f[n]]

At(names, n) == [name \in names |-> n]

-----------------------------------------------------------------------------
(* Group                                                                   *)

(* A slip: a name already held is added once more.                         *)
AddMemberAgain(g, name) ==
  LET free == {i \in Slots : g.slots[i] = ""}
  IN  IF name \in {"", player} \/ free = {} THEN g
      ELSE [g EXCEPT !.slots[CHOOSE i \in free : \A j \in free : i <= j] = name]

(* add_group_member: into the first free slot, if there is one.            *)
AddMember(g, name) ==
  LET free == {i \in Slots : g.slots[i] = ""}
  IN  IF name \in {"", player} \/ name \in Peers(g) \/ free = {} THEN g
      ELSE [g EXCEPT !.slots[CHOOSE i \in free : \A j \in free : i <= j] = name]

(* One after the other: later names find the slots that earlier ones left. *)
AddMembers(g, names) ==
  LET after[n \in 0 .. Len(names)] ==
        IF n = 0 THEN g ELSE AddMember(after[n - 1], names[n])
  IN  after[Len(names)]

RemoveOthers(g, names) ==
  [g EXCEPT !.slots = [i \in Slots |-> IF @[i] \in names THEN @[i] ELSE ""]]

(* A slip: a complete roster rebuilds the slots.                           *)
ApplyRosterAfresh(g, id, names, complete) ==
  LET kept == IF complete THEN RemoveOthers(g, {}) ELSE g
  IN  [AddMembers(kept, names) EXCEPT
         !.id = id, !.complete = complete /\ player # ""]

(* apply_group_roster: a complete roster first removes who is not in it.   *)
ApplyRoster(g, id, names, complete) ==
  LET kept == IF complete THEN RemoveOthers(g, ToSet(names)) ELSE g
  IN  [AddMembers(kept, names) EXCEPT
         !.id = id, !.complete = complete /\ player # ""]

PublishGroup(h, g) == [h EXCEPT !.group_id = g.id, !.peers = Peers(g)]

SayPeers(peers, crowded) ==
  [told EXCEPT !.peers = peers, !.crowded = crowded \/ Cardinality(peers) > MaxPeers]

GroupRoster(id, names, complete) ==
  LET said == ToSet(names) \ {"", player}
  IN  /\ group' = ApplyRoster(group, id, names, complete)
      /\ host' = PublishGroup(host, group')
      /\ told' = IF complete THEN SayPeers(said, FALSE)
                 ELSE SayPeers(told.peers \cup said, told.crowded)
      /\ UNCHANGED <<player, guild, dz>>

(* Only a change is published.                                             *)
GroupFollow(name) ==
  /\ group' = AddMember(group, name)
  /\ host' = IF group' = group THEN host ELSE PublishGroup(host, group')
  /\ told' = SayPeers(told.peers \cup ({name} \ {"", player}), told.crowded)
  /\ UNCHANGED <<player, guild, dz>>

(* The player's own disband dissolves the group, and claims to know it.    *)
GroupDisband(name) ==
  /\ group' = IF name = player THEN [NoGroup EXCEPT !.complete = TRUE]
              ELSE [group EXCEPT !.slots =
                      [i \in Slots |-> IF @[i] = name THEN "" ELSE @[i]]]
  /\ host' = PublishGroup(host, group')
  /\ told' = IF name = player THEN SayPeers({}, FALSE)
             ELSE SayPeers(told.peers \ {name}, told.crowded)
  /\ UNCHANGED <<player, guild, dz>>

-----------------------------------------------------------------------------
(* Guild                                                                   *)

PublishGuild(h, g) == [h EXCEPT !.members = g.members]

(* A roster, all of the guild or a part.  Whatever it says, a status delta *)
(* received before still overlays it.                                      *)
GuildRoster(id, names, complete) ==
  LET n      == told.count + 1
      listed == At(names, n)
      before == IF guild.id # id \/ complete THEN <<>> ELSE guild.members
      merged == Override(before, listed)
      mentioned == IF complete THEN names
                   ELSE names \cup (IF guild.id = id THEN told.mentioned ELSE {})
  IN  /\ told.count < MaxStatus
      /\ guild' = [guild EXCEPT
           !.id = id,
           !.members = [name \in DOMAIN merged |->
              IF name \in DOMAIN guild.status THEN guild.status[name] ELSE merged[name]],
           !.complete = complete \/ (guild.id = id /\ @)]
      /\ host' = PublishGuild(host, guild')
      /\ told' = [told EXCEPT !.count = n, !.mentioned = mentioned]
      /\ UNCHANGED <<player, group, dz>>

(* A slip: who is unknown does not make the roster incomplete.             *)
GuildMemberStatusIgnored(name) ==
  LET n == told.count + 1
      known == name \in DOMAIN guild.members
  IN  /\ told.count < MaxStatus
      /\ guild' = [guild EXCEPT
           !.status = Override(@, At({name}, n)),
           !.members = IF known THEN Override(@, At({name}, n)) ELSE @]
      /\ host' = IF known THEN PublishGuild(host, guild') ELSE host
      /\ told' = [told EXCEPT !.count = n, !.mentioned = @ \cup {name}]
      /\ UNCHANGED <<player, group, dz>>

(* A status delta; of someone not listed, it retracts completeness, and    *)
(* says so to nobody.                                                      *)
GuildMemberStatus(name) ==
  LET n == told.count + 1
      known == name \in DOMAIN guild.members
  IN  /\ told.count < MaxStatus
      /\ guild' = [guild EXCEPT
           !.status = Override(@, At({name}, n)),
           !.members = IF known THEN Override(@, At({name}, n)) ELSE @,
           !.complete = @ /\ known]
      /\ host' = IF known THEN PublishGuild(host, guild') ELSE host
      /\ told' = [told EXCEPT !.count = n, !.mentioned = @ \cup {name}]
      /\ UNCHANGED <<player, group, dz>>

(* A rank name of another guild changes the guild, but not its members.    *)
GuildRankName(id) ==
  /\ guild' = [guild EXCEPT !.id = IF id # 0 THEN id ELSE @]
  /\ UNCHANGED <<player, group, dz, host, told>>

-----------------------------------------------------------------------------
(* Dynamic zone                                                            *)

PublishZone(h, z) == [h EXCEPT !.dz = IF z.state = "active" THEN "active" ELSE "inactive"]

(* Either packet can announce the quit, which is complete at once.         *)
Quit == [state |-> "inactive", complete |-> TRUE, saw_info |-> TRUE, saw_switch |-> TRUE]

DynamicZoneInfo(active) ==
  /\ dz' = IF active THEN [dz EXCEPT !.state = "active", !.saw_info = TRUE,
                                     !.complete = dz.saw_switch]
           ELSE Quit
  /\ host' = PublishZone(host, dz')
  /\ UNCHANGED <<player, group, guild, told>>

DynamicZoneSwitch(active) ==
  /\ dz' = IF active THEN [dz EXCEPT !.state = "active", !.saw_switch = TRUE,
                                     !.complete = dz.saw_info]
           ELSE Quit
  /\ host' = PublishZone(host, dz')
  /\ UNCHANGED <<player, group, guild, told>>

-----------------------------------------------------------------------------
(* Resets                                                                  *)

(* A slip: a group nobody gave an id is not withdrawn.                     *)
WithdrawnById ==
  [group_id |-> 0,
   peers    |-> IF group.id # 0 THEN {} ELSE host.peers,
   members  |-> IF guild.id # 0 \/ guild.members # <<>> THEN <<>> ELSE host.members,
   dz       |-> IF dz.state = "active" THEN "inactive" ELSE host.dz]

(* What reset_communication withdraws: whatever there is to withdraw.      *)
Withdrawn ==
  LET grouped == group.id # 0 \/ Peers(group) # {}
  IN  [group_id |-> IF grouped THEN 0 ELSE host.group_id,
       peers    |-> IF grouped THEN {} ELSE host.peers,
       members  |-> IF guild.id # 0 \/ guild.members # <<>> THEN <<>> ELSE host.members,
       dz       |-> IF dz.state = "active" THEN "inactive" ELSE host.dz]

(* A lifecycle boundary, and the player's name after it.                   *)
Reset(name) ==
  /\ player' = name
  /\ group' = NoGroup /\ guild' = NoGuild /\ dz' = NoZone
  /\ host' = Withdrawn
  /\ told' = NothingTold(told.count)

EnterWorld(name) == Reset(name)

Flush == Reset(player)

Init ==
  /\ player = ""
  /\ group = NoGroup /\ guild = NoGuild /\ dz = NoZone
  /\ host = [group_id |-> 0, peers |-> {}, members |-> <<>>, dz |-> "inactive"]
  /\ told = NothingTold(0)

Next ==
  \/ \E id \in Groups \cup {0}, names \in Rosters, complete \in BOOLEAN :
        GroupRoster(id, names, complete)
  \/ \E name \in Names : GroupFollow(name)
  \/ \E name \in Names \cup {""} : GroupDisband(name)
  \/ \E id \in Guilds, names \in Members, complete \in BOOLEAN : GuildRoster(id, names, complete)
  \/ \E name \in Names : GuildMemberStatus(name)
  \/ \E id \in Guilds \cup {0} : GuildRankName(id)
  \/ \E active \in BOOLEAN : DynamicZoneInfo(active)
  \/ \E active \in BOOLEAN : DynamicZoneSwitch(active)
  \/ \E name \in Names : EnterWorld(name)
  \/ Flush

Spec == Init /\ [][Next]_vars

-----------------------------------------------------------------------------
(* Properties                                                              *)

(* The five slots hold exactly the peers that rosters, follows and         *)
(* disbands leave, each once and never the player, as long as no more were *)
(* told than fit; a slot never holds anyone who was not told               *)
(* (lib.rs:1932-1990).                                                     *)
PeersAreTold ==
  /\ Peers(group) \subseteq told.peers \ {player}
  /\ told.crowded \/ Peers(group) = told.peers
  /\ \A i, j \in Slots : group.slots[i] = group.slots[j] => i = j \/ group.slots[i] = ""

(* A peer who stays keeps the slot (lib.rs:1943-1955; the contract of      *)
(* seq-events: "one stable peer slot").                                    *)
SlotsAreStable ==
  [][\A i \in Slots :
        group.slots[i] # "" /\ group.slots[i] \in Peers(group') =>
          group'.slots[i] = group.slots[i]]_vars

(* A guild roster that claims to be complete lists everyone mentioned      *)
(* since the last full roster of that guild (lib.rs:1787-1856).            *)
GuildCompleteListsMentioned ==
  guild.complete => told.mentioned \subseteq DOMAIN guild.members

(* A host that keeps the last state it was given has the session's peers,  *)
(* guild members and dynamic zone after every packet, resets included      *)
(* (lib.rs:2170-2206): what is not published has not changed.              *)
HostFollows ==
  /\ host.group_id = group.id /\ host.peers = Peers(group)
  /\ host.members = guild.members
  /\ host.dz = IF dz.state = "active" THEN "active" ELSE "inactive"
=============================================================================
