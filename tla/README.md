# TLA+ verification of showeq-decoder-rs

These modules specify the decoder from the opcode to its host: the session layer
that turns single decoded packets into a coherent story about one player, the
EQL trackers under it, the opcode-catalog registry it reads, the backends'
dispatch of an opcode to a parser and to events, the bridge that lays events
out for a C++ host, and the traces that record and replay all of it. What is
left to the repository's unit tests is where in a packet a value stands, and
which value it is.

`S:` below is `seq-session/src/lib.rs`, `T:` `seq-backend-eql/src/self_track.rs`,
`L:` `seq-backend-eql/src/loot_track.rs`, `P:` `seq-protocol-data/src/lib.rs`,
`R:` `seq-trace/src/lib.rs`, `M:` `seq-trace/src/main.rs`,
`B:` `seq-bridge/src/lib.rs`.

## 1. The system

A host (a daemon, a GUI, the C++ program behind `seq-bridge`) feeds application
packets, in capture order, to `Session::decode_at` and applies the events it
gets back, in order. A session is synchronous, owns all of its state and is
used by one thread; there are no callbacks, timers or tasks. Two things are
shared: the `ProtocolRegistry` between threads, and the trace and golden files
between hosts and tools.

So the hard behaviours are: packets that come in an unhelpful order, twice or
never (captures start in the middle of a game and lose packets); identities
that become known late and change; lifecycle boundaries (re-entry, profile,
zone transition, explicit flush, end of replay, the player's death) between two
packets that belong together; several correlated copies of one fact; published
event streams from which a host must be able to keep a correct view, also
through the rows and flags of the bridge; overlapping reloads of catalog files
that change and may be malformed, in the middle of a packet or of a recording;
and tools that are killed between creating a file and writing it.

| Component | State | Operations | Interacts with | What makes it correct | Modelled in |
|---|---|---|---|---|---|
| EQL self tracker (`T`) | adopted id, twin id, provisional id, retired id, one packet of held vitals, whether the stat guess is spent | position report, spawn record, stat packet, two drains, reset | called by the session | never takes a stranger for the player once the name was matched; held vitals only of a plausible twin; the guess goes to one id between two resets | `SelfIdentity`, `SelfTrack`, `SelfTracker` |
| Session: player and lifecycle (`S:474-949`, `2145-2168`) | player name, player id, identity record, entity ids, tracker, undrained self stats | every player packet, resets, flushes, `take_self_stats` | tracker, host | its copies of the identity agree; a host that follows the events shows the same; no vitals are published across a boundary or a death, or have two owners | `PlayerSession` |
| EQL loot tracker (`L`, `S:2449-2553`) | zone, looter, unpaired narrations and confirmations, learned item ids, four sets of recognised packets | narration, confirmation, coin pile, window, zone, looter, flush, reset | fed by the session, drained by the host | pairing is complete, in order, once, inside one visit; repeats are not counted | `LootTracker` |
| Session: groups, guilds, dynamic zones (`S:1591-2231`) | peer slots, group id, completeness; roster, statuses; the two halves of a zone | rosters, follows, disbands, deltas, halves, reset | host | peers keep their slots and are all told; "complete" is only said when it is so; what was published is withdrawn | `Communication` |
| Session: casts and buffs (`S:1191-1580`, `2132-2143`) | pending cast per caster, buffs per owner and place | cast request, begin-cast, damage or action, interruption, buff list, single buff, reset | player identity, host | a host that applies the events has the session's view; a target is the asker's; a fade clears every entry | `Combat` |
| Session: entity index (`S:218-277`, `969-989`) | names by id, ids by name, kinds | additions, removals, renames, clear | host | the three maps mirror each other; a rename, which carries no id, is given to the right spawn | `EntityIndex`, `SessionCaches` |
| Session: progression (`S:206-216`, `991-1189`, `2319-2432`) | items, worn slots, experience, level, purse, skills, AA | item sets and single items, experience, levels, absolute values, profile, reset | player identity, host | only changes are published, and they are enough for a host; a worn slot names an item that is there | `Progression`, `SessionCaches` |
| Session: UCS channels (`S:410-468`, `2096-2130`, `2274-2317`, `ucs_chat.rs`) | the connection's mask, once learned; known channel names | UCS payload, reset | host; the chat connection outlives resets | a line is never shown under another channel's name; a learned name is displaced by nothing but another word in the clear | `UcsChannels` |
| Opcode catalogs and registry (`P`) | one catalog and generation per backend | parse, validate, snapshot, reload, replace | sessions and traces, from several threads | a failed reload changes nothing; what is in use is what a file said; every batch names the generation that decoded it; a reload takes effect | `CatalogService`, `ProtocolRegistry` |
| Traces (`R`, `M`) | header, packets; the trace and golden files | build, push, finish; validate, replay, check; scrub | registry, session, files | a trace replays to what the host saw, as far as it is intact; a check that passes finds a scrub that changed an answer | `Traces`; header check on a shared registry in `ProtocolRegistry` |
| Backends: EQL (`backend.rs`, `lib.rs`), Live/Test | none (EQL keeps its trackers in the session) | dispatch by opcode and direction to about 60 parsers | session | the events of one packet come in an order the session can apply; malformed, ignored and unhandled are told apart | `Payloads`, `EqlDispatch`, `LiveDispatch` |
| Session: stages of a packet (`S:534-572`, `apply_*_semantics`) | that of the components above | six stages and the lifecycle reset, in order, for every event | all components of the session | order of a reset, what it closes and its cause; no wire event reaches a host | `SessionEvents` |
| `seq-decode` and the parsers of the backends | none | bytes to records | backends | which lengths and contents are taken | as length and content classes in the dispatch modules; offsets and values not modelled |
| `seq-events` | none | types | all | which fields may be absent; its comments state the contracts quoted in section 5 | `EventVocabulary` |
| `seq-structs-*` | none | generated layouts | parsers | - | not modelled: generated |
| `seq-bridge` (`B`) | a `Session` and a registry handle | decode, decode_ucs, flush, reload; flattening; opcode-specific functions | session, registry, C++ host | flattening loses and invents nothing; drains go with their events; the generation is one of the call | `Bridge`, `BridgeRows`, `LegacyDecoders` |
| `tools/` | - | development scripts | - | - | not modelled: outside the program |

`PROJECT.json` lists the hazards of this code one by one, each at its line,
with the properties that would catch it or the reason there is none yet.

## 2. Modules and how they correspond to the code

All modules follow the same conventions. An `Option` is the set of its values
(`{}` or `{x}`). An action is one packet, or one call of the host: it composes
everything the code does for it, a boundary's reset included. Variables marked
*history* in a module record what was published or seen so that a property can
relate it to the state; no guard of a modelled handler reads them. Names such as
`AdoptKeepingPending`, at the places where they differ from the definition above
or below them by one dropped or swapped step, are deliberately wrong variants:
they are used by no action, and each shows that one property would notice such
a bug (section 4).

Where the code loops and a theorem is about what the loop leaves, the loop is a
recursive function over the index (`AddMembers`, `ValidateStream`, `ReadChat`,
`HostAfter`, `TellAll`, `ObserveAll`, `TranslateEvents`).

**SelfIdentity** is the abstract promise of self-identification: which ids may
count as the player, and with what evidence that set may change: `Adopt` (a name
match), `LearnTwin` (an id of its batch), `Locate` and `Guess` (a position report
and a stat packet, only while no name was matched) and `Forget`.

**SelfTrack** holds the tracker's operations as operators from a tracker to a
tracker (`ObserveSelfPos`, `ObserveSpawn`, `ObserveStatSync`, `TakePending`,
`TakeRetired`), shared by two modules: **SelfTracker** (`TrackerSpec`), where
they are called in any order with any arguments, as the public API permits
(`strangers` remembers which ids were taken on their stats alone), and
**PlayerSession**, where the session calls them. `Near` is `abs_diff <= SAME_BATCH`; `Held.has` is
the set of stats a packet carries, with `hp0` for a health maximum of zero,
which `player_vitals` drops.

**PlayerSession** composes the tracker with the session's own player name, id,
identity record, entity ids and undrained self stats. Handlers are operators
from a session to a session (`OnEnterWorld`, `OnProfile`, `OnSpawnAdded`,
`OnStatSync`, `OnSpawnKilled`, `OnLoadoutSwap`, ...) that append to `out`;
`Deliver` runs them on one packet and lets the host apply `out`. A loadout swap
is one packet with two events, as in `backend.rs:1139`. Both the EQL form of
each handler (with a tracker) and the Live/Test form are there: the backend is
chosen in `Init`. The environment is `wire`, the name the server gave each id:
between two boundaries an id keeps its name, a profile or entry names a
character, and the client's own position reports carry an id of the player's
character; nothing else is assumed of what arrives or when. `Known` is
`SelfIdentity` as the session keeps it, with `anchor` the tracker's `self_id` and
`ids` its `SelfIds`; one packet may call the tracker twice (a record, then the
drain of what was held). What was seen before the player's death is cut off by
`Severed` from what may be published; a reset (`Boundary`) also empties what the host
has yet to drain, which a death leaves, as `clear_player_id` does.

**LootTracker** has one action per loot event and per boundary. A queue is the
set of its halves, each with the number under which it was accepted, so "first
match" is "least number". Rows are a history variable, with the halves they
were made of and the visit (zone, looter, stay) each half was seen in. An
item's name stands for one item id. A coin pile is recognised by its server
sequence, if it has one, in the same set as the confirmations. `EnterWorld` and
`PlayerProfile` first flush and reset, then name the looter, as the order in
`apply_session_semantics` and `observe_event` has it; `set_zone` flushes always
and resets only when the zone differs. Draining the completed rows
(`take_loot_rows`) leaves the history as it is.

**Communication** has the group's slots (`vec![None; 5]`), the guild's roster
with the status overlay, and the two halves of a dynamic zone. `host` is the
host's copy, updated only by published events. `EnterWorld` covers the
profile's reset too (both reset and name the player), `Flush` the zone
transition and the explicit flushes. Levels, ranks, messages of the day, chat,
and rosters with guild id 0 are left out.

**Combat** has `casts` keyed by caster id (0: not known), `buffs` keyed by owner
and place (`Slot` or `Spell`, as `BuffKey`), and the host's copy of both.
`Identify` lets the player's id, and the other ids that count as the player,
become anything at any time: more than `PlayerSession` allows, so what holds
here holds there. `backend` fixes whether buffs come as lists (EQL) or one by
one (Live and Test), because the two forms are never mixed on one session.
Packets with an invalid spell id change nothing and are left out, except as an
entry of a list. Cast times, spell slots and caster names travel like the
target and the duration do, and are left out.

**EntityIndex** has the index's three maps beside `world`, what the server has
under each id. A spawn can be in the world without being indexed (the capture
started later, or the record was the player's own); a removal is always seen.
`Rename` reads the kind before it removes the id, as the code does. Corpse
positions, whose axes are swapped by kind, change no state.

**Progression** has the cache of absolute values and the host's copy of it.
Purse, skills, AA bar and AA definitions are handled alike (`Learn`: store, and
publish if it differs), so they are one function `facts`; items and experience
are not. An item's `charges` stand for all its other fields, its serial 0 for
an empty one, in which case its place is its key (one item id). `feed` fixes
whether whole inventories come (EQL) or single items (Live and Test): a whole
inventory equal to the cached one replaces the worn slots without publishing
them, so on a session that mixed both forms a host could show other worn items
than the session has. No backend mixes them. Of the identity record only
the level is here.

**SessionCaches** composes the two: any packet of either, and the resets, which
clear both. A re-entry, a profile or a zone transition also empties the world.

**CatalogService** is what a session may expect of the registry: for each backend
a history of catalogs, of which the last is in use (`Install`), and readers that
`Ask` about a packet and are given an `Answer`: what one catalog of the history
says, of one that was in use at some moment since the reader asked. There are no
files, locks or threads in it.

**ProtocolRegistry** splits a reload where another thread can come in: reading
the file (`ReadCatalog`), then parsing and replacing under the write lock
(`Replace`); and a decode in the snapshot (`TakeSnapshot`), the lookup and the
batch (`Decode`). A file is a sequence of rows for each stream; `ValidateRow`
rejects a duplicate name or id as `validate_stream` does, after the rows
before it were accepted. What is held inside one lock is one step. A content
hash is the catalog itself. The embedded catalog parses (`EmbeddedAssumption`:
`ProtocolRegistry::embedded` panics otherwise). The saturation of the generation at 2^64 - 1 is out
of the bounds. `FairSpec` adds that a reloader's thread gets the write lock
(section 3). `Service` maps it to `CatalogService`: the history is what the
installed files say (`HistoryOf`), and a session in the middle of a decode is a
reader that asks, since the generation of its snapshot (`Asker`). A read of a file, a
rejected file and an edit are stutters; `Replace` of a sound file is `Install`.

**EventVocabulary** has every kind of event and the fields of it that may be
absent; a field that is always there carries data and is left out. An optional
field is `none`, a present `zero`, or a `value`, because a reader can mistake
the first two for each other.

**Tables** puts together the large `match` expressions, which the modules below
write family by family, as functions from an opcode or a kind to its arm
(`Merged`). No opcode or kind is in two families.

**BridgeRows** is the layout: which kinds have which vector (`Vector`), which
flags a row structure has (`Flags`), how an event becomes a reference and a row
(`PushRow`), and what a host reads back (`HostEvents`), in the vectors that
`seq-bridge/SESSION_API.md:24-28` documents (`HostVector`). The two say the same of
vectors because the code is right about them: an arm that pushed to another vector
would change `Vector`, which is read from the code, and not `HostVector`.

**Payloads** abstracts a payload to a length class (`Sizes`) and to what is wrong
or special about its contents (`Bodies`). A length is `other` if it is the
second one that a parser knows, or the one of another parser that is called with
the same packet. A parser is the lengths it takes and
the contents it refuses; a handler adds what it refuses itself, what it finds
nothing to report in, and the events it gives. **EqlDispatch** and
**LiveDispatch** say this for every opcode of the two `decode` functions, with
the directions they are taken in and the optional fields each backend never or
always fills.

**SessionEvents** has the stages of `apply_session_semantics`, each from one
event to the sequences of events that may take its place. What a stage decides
from its memory is a choice here and is determined in the module of the stage
(`PlayerSession`, `Communication`, `Combat`, `Progression`, `LootTracker`); what
is exact here is the order of the stages and of what each publishes, the
correlation outputs that wait to be drained, and the reset.

**LegacyDecoders** is the parser behind each of the bridge's opcode-specific
functions, which a host runs in the shadow of a session. They are not always the
session's parsers: EQL's zone change is 484 bytes to the session and 100 to the function, an
appearance at least 12 bytes to the one and exactly 24 to the other
(`SessionTakesMore`, `FunctionTakesMore`).

**Bridge** composes these six. A call begins (the generation is taken, or for a
flush the session is flushed), and returns (decoding, or for a flush taking the
generation; then translating and draining); `Reload` by another thread comes in
between. `Rejected` is an enumerator the bridge does not know. `HostTakes`
ends a call. `emitted` is what the session returned, kept to be compared with
what the host reads.

**UcsChannels** works on the bytes of names. `Field` is where a record's name
seems to begin when a NUL stands in its header, `UcsChatMessage` learns the mask
from General's line, `ResolveUcsChannel` chooses between a learned name, the
repaired name and the readable run, as `resolve_ucs_channel` does. `Reconnect`
changes the mask, which nobody tells the session. Names are of printable
ASCII (`ChannelsAssumption`). What a payload has in the clear (`clear`) is any set of
words, because `parse_ucs_channels` takes whatever stands after "joined " or
"channel ", or before a parenthesis, anywhere in the decoded payload, chat texts
included; `heard` remembers them. The decryption
around a payload (`eqstream`) needs no key or state and is left out.

**Traces** has the host that records while another thread may reload its
registry at any point: `Push` compares the trace's catalog with the one in use and
records the packet, `DecodeAt` takes a snapshot of its own. `Close` writes the
trace, at a reload or at any other time; the session goes on, and `Open` begins the
next trace with a new session or in the middle of this one, both of which a host
may do. A host may die anywhere. What a session answers is any function of all it
took before and of the packet (the constant `Events`), so letters of one packet may
decide the answer to a later one. `Scrub` saves whatever `scrub_ascii_range` left,
also when it refused a range half way. A recording keeps, besides the trace, what
the host's session was given and answered for each packet (`saw`), and where a replay
parts from it (`stray`): a scrubbed packet, one decoded after a reload that fell
between push and `decode_at`, one before which the builder refused another that the
session took, the first of a trace that was opened in the middle of a session. The
tools, each with a registry of its own, load and validate, then replay into a golden
(`Create` truncates, `Write` fills) or `Check` against it, killed at any point.

A fact about the code that the model made plain: the branch of `observe_spawn`
that keeps held vitals when they belong to the id being adopted (`T:237`) never
keeps any, because a packet is only held for an id close to the adopted one,
and such an id is not adopted afresh.

## 3. Runs, bounds, and why they are enough

| Run | Bounds | What it shows |
|---|---|---|
| `self_tracker` | five ids in a row and a batch window of one, two values | `PendingIsPlausibleTwin`, `GuessIsSpentOnce`; and `ImplementsSelfIdentity`, the refinement of `SelfIdentity` |
| `player_session` | three ids in a row and a window of one, two characters and two forms (symmetric), 2 stat packets between boundaries | `IdentityAgrees`, `HostFollowsIdentity`, `PlayerIsNotListed`, `SnapshotHasOneOwner`, `VitalsStayInSession`; and `SessionKeepsThePromise`, the refinement of `SelfIdentity` packet by packet |
| `loot` | 4 halves, 2 boundaries; representative packets: linked and unlinked narrations, with and without a sequence or an id, resent | `NothingPairable`, `EachHalfOnce`, `RowsKeepTheirVisit`, `CountedOnce`, `PairsInOrder` |
| `communication` | 2 slots, 3 names one of which is the player, full, repeating and partial rosters, 2 guilds, 2 statuses | `PeersAreTold`, `SlotsAreStable`, `GuildCompleteListsMentioned`, `HostFollows` |
| `combat` | 2 ids besides "unknown" (symmetric), 2 spells, 1 slot, 2 casts and buffs at a time | `HostFollowsBuffs`, `HostFollowsCasts`, `TargetsAreTheAskers`, `FadedIsGone` |
| `session_caches` | 2 spawns, 2 names (both symmetric), 2 kinds; 2 serials and none, one worn slot and one bag; one skill, 2 values of experience, 2 levels | `IndexAgrees`, `IndexIsTrue`, `HostFollowsSpawns`, `WornUntilMoved`, `HostFollowsProgress` |
| `registry` | 2 reloading threads, 2 edits, 4 generations, one backend, one session of 2 batches; files that are sound, malformed, or duplicate a name or an id in the second stream | `ActiveIsWhatItsFileSaid`, `OlderFileOnlyAfterOverlap`; `ImplementsCatalogService`, the refinement of `CatalogService`; and under `FairSpec` `ReloadsTakeEffect` |
| `bridge` | 3 backends, every opcode in both directions with every length class and every content its handler looks at; one closed correlation per packet, 2 loot halves, 2 generations | `HostReadsWhatTheSessionEmitted`, `RowsLeaveWithTheirEvents`, `ResetAnnouncedBeforeItsCause`, `BatchNamesAGenerationOfItsCall`, `ShadowAgrees` |
| `ucs` | 4 channels (the crib, a long name, one too short to be matched, one that passes for a whole name without its first letter), 4 masks (the masked letter is unprintable, another letter, or beyond ASCII; one mask taken for another gives a wrong letter), 2 connections, 4 headers; words in the clear that are channels, a channel in lowercase in a line of its own chat, and a word with another's ending | `NeverAnotherChannel`, `LearnedNamesStay` |
| `traces` | 2 catalogs that disagree, 2 packets a session, 2 times, 2 traces, 1 reload, 2 tools (symmetric); a session that answers with a name and whether it was announced before | `ReplayIsWhatTheHostSaw`, `CheckedGoldenIsWhatTheHostSaw` |

Types are not in the table: the inductive invariants of section 6 begin with them,
for the tracker, the player's session, the loot tracker, the registry and the
traces, and the properties of the other modules fail on a value of another type.

Every bound is a CONSTANT that appears in a guard, or a set packets are drawn
from. They are chosen so that each interesting case happens: consecutive ids with a
window of one are near each other, at the edge of the window or beyond it; two forms let a level change and an
identity replacement be told apart; four halves are two complete pairs, or a
pair and what crosses it; two slots overflow with three names while the player
is unknown; two buffs let one effect be known by slot and by spell; two
reloaders and two edits let a slow reload of an old file land on a newer one.
Two spawns with two names are namesakes, strangers, or renamed into each other;
two serials with one worn slot let an item be displaced, moved away and put
back. One fact stands for all, which are independent of each other.
Two generations put a reload before, inside or after a call; two
loot halves are one pair, or two open halves that a boundary closes. Two
traces let a golden of one be checked against the other, two tools a check
run while a golden is written; one reload falls between two traces, two packets,
or the push of one and its `decode_at`. Two packets of one name, where the second
is answered by what the first announced, let a scrub of the first change the
second's answer.
The players' names, spawn names, forms and ids that are only compared for equality are model
values with symmetry. Under it only invariants are checked; in
`traces` one property of single steps, which treats the tools alike; and in
`player_session` the refinement, which speaks of ids alone, and these are numbers. `MCX.tla` says
what its constants stand for.

`registry` may stop (edits, generations and batches run out), and so may
`traces` (a host that has recorded its last trace, or died before it wrote one,
leaves nothing for a tool to load); their configurations say so. In all other
runs deadlock is checked.

**Fairness.** The library is passive: it acts only when a host calls it. The one
place where a call waits for another is the registry's lock, which readers hold
only to copy an `Arc`. Their locks are not modelled; that a waiting writer gets its
turn among them is taken from `std::sync::RwLock`. So the one fairness stated is
weak fairness of `Replace(r)`, the write of a reloader that has already read its
file: its thread runs and gets the lock. Nothing is assumed of sessions, of hosts, of edits or of
anybody beginning a reload; a session may stop for ever in the middle of a
packet. Under it `ReloadsTakeEffect` says that a file that was read comes into
use unless it is edited again or another reload overlaps. Elsewhere nothing must
"eventually" happen that the code itself could bring about: what must be complete
at the end (a pending half, a withdrawn group) is stated as safety at the
boundary.

## 4. Properties

Each property is stated in a comment above its definition, with the code it is
about. The ones that would be argued about in a review:

- `IdentityAgrees`, `HostFollowsIdentity`: three copies of "who am I" (the
  session's id, the identity record, the tracker) agree after every packet, in
  any order of profile, spawn, position, death, swap and level packets, and a
  host that only follows the events has the same record.
- `GuessIsSpentOnce`: between two resets at most one id is taken for the player on
  its stats alone, and until a name matches it is not given up for another one. A
  position report that names someone else takes its id away and must not re-arm
  the guess; a reset does, by design.
- `SnapshotHasOneOwner`, `VitalsStayInSession`: a stat snapshot is shown as the
  player's or as another entity's, never both; never as the player's, nor held to
  be, after the reset or death that follows it; and not handed out by
  `take_self_stats` after a reset. (After a death it is: what was the player's
  before stays until the host drains it.)
- `SessionKeepsThePromise`: a packet may reset, adopt, learn a twin and drain
  what was held, from several handlers; seen from outside, who the player is
  moves by at most one step that `SelfIdentity` allows. A reset that forgets
  half of the tracker would break it.
- `EachHalfOnce`, `RowsKeepTheirVisit`, `CountedOnce`, `PairsInOrder`: the
  accounting of loot.
- `GuildCompleteListsMentioned`: a roster that is called complete lists every
  member a delta mentioned. (The host is not told when a delta of an unknown
  member takes completeness away: only the session's own flag is covered.)
- `HostFollows`, `HostFollowsBuffs`, `HostFollowsCasts`: the published stream is
  enough to keep the session's view, across resets.
- `TargetsAreTheAskers`: the target of a cast is one the caster asked for, for
  that spell, also for a request made before the player's id was known.
- `IndexIsTrue`: as long as no spawn was renamed while another in the zone had
  its name, every indexed spawn has the name and kind the server gave it, even
  though spawns may never have been seen. (With a namesake that was not seen,
  the only indexed spawn of that name takes the rename: the code cannot know.)
- `WornUntilMoved`, `HostFollowsProgress`: a worn slot names an item that says it is
  there, and is not cleared while that item says so, under any order of single-item
  records (a swap's second record must not take off what its first put on); and a
  stream of changes is enough for a host.
- `ImplementsCatalogService`: under overlapping reloads, edits and bad files, a
  batch is what one catalog says that was in use between the packet and its
  answer, under that catalog's generation. Looking anything up twice would break
  it. `OlderFileOnlyAfterOverlap` states exactly when an older file can
  replace a newer one, which the code permits only if two reloads overlap.
- `ReloadsTakeEffect`: the registry's liveness. A lock held for the length of a
  packet would break it.
- `HostReadsWhatTheSessionEmitted`, `RowsLeaveWithTheirEvents`: a host that
  reads by the documented layout gets the session's events, presence of every
  optional field included; and the drained rows tell the same acquisitions in
  the same order as the events of their own batch, so a host may keep either.
- `ResetAnnouncedBeforeItsCause`: over all opcodes and stages, what a reset
  closes comes first, then the marker, then its cause, and no wire event leaks.
- `BatchNamesAGenerationOfItsCall`: a decode takes its generation first, a flush
  last; both name one that was in use during the call, and a host never sees
  generations go back.
- `ShadowAgrees`: the bridge's opcode-specific functions and the session accept
  the same payloads, but for the lengths `SessionTakesMore` and `FunctionTakesMore`
  name and single refused values.
- `NeverAnotherChannel`, `LearnedNamesStay`: masked names under garbling,
  resets and reconnections. The first is said of channels that a listener can
  tell apart by what is in the clear (`ToldApart`): fewer than five last letters
  in common, and neither name ending in the rest of the other. (Of Raid and
  BigRaid, Raid's line says "aid", which is found at the end of a learned
  BigRaid.) The second needs `OneOfAKind`, fewer than four last letters in common:
  a wrong first letter, from a mask that is out of date, before four shared
  letters is a name of five, and counts as the learned one. It ends with a word in
  the clear that has four last letters in common: after a chat text with "joined
  general", General's lines are published as "general". Guesses from the
  records never displace it. Across a reconnection it says that the name stays, not
  what is published on the new connection.
- `ReplayIsWhatTheHostSaw`: a trace on disk has one answer of the host's session for
  each of its packets, and a replay under any accepted catalog agrees with them up
  to the first `stray` packet, whatever was reloaded, closed or scrubbed when. Not
  further: a later answer may depend on what was scrubbed.
- `CheckedGoldenIsWhatTheHostSaw`: that is why a scrub is to be followed by a check
  (`docs/application-packet-traces.md:82-84`). If it passes against the golden of an
  untouched recording, the scrubbed trace is answered in full as the host saw the
  recording, so no scrub that changed an answer, its own packet's or a later one's,
  passes; neither does the golden of a trace that was answered otherwise, nor half a
  golden.

For every property `PROJECT.json` names a mutant: a plausible bug in one
definition (a dropped guard, a missing reset, a swapped order) under which TLC
finds the property violated with the same constants.

## 5. Where code and documentation disagree

Each of these runs checks one property that quotes a document, and TLC shows a
behaviour of the code that violates it.

| Run | Statement | What the code does |
|---|---|---|
| `held_vitals` | `docs/architecture.md:209-210`: held vitals are "emitted once the tracker confirms ownership" | if the client's position report confirms it, nothing emits them until a later spawn record |
| `buff_update` | `seq-events/src/lib.rs:1114-1117`: an update changes "duration or caster attribution" | a slotted packet with another spell in the slot is an update; the old effect is never removed |

Also seen while reading, without a run: after the player's own disband the empty
group counts as complete and a follow keeps the flag (`S:1766`), where
`seq-bridge/SESSION_API.md:105-107` says that follows merge "without inventing a
complete snapshot"; an explicit quit of a dynamic zone sets both flags for good,
so one half of the next zone is published as complete (`S:2044`), where
`seq-events/src/lib.rs:587-588` says "once both the info and switch halves have
arrived"; a loadout swap changes the identity's level and not the progression's,
which later experience is published with (`S:1092`), where
`seq-events/src/lib.rs:418-419` says "the level it belongs to when the ordered
session knows it"; `B:4475` says that EQL's guild wire diverges and has no parser,
where the EQL backend (`backend.rs:1058`) calls it byte-identical and parses it;
UCS channels whose last five letters agree are taken for one another, and with
the mask of an earlier connection the first letter of a name not yet learned is
wrong, and may be learned so; `docs/application-packet-traces.md:14-16`
and `41-42` tie a trace to the catalog its header names, but `replay` compares the
hash once, so a reload on a registry it shares with another thread changes the
catalog of the remaining packets (the command line shares its registry with
nobody); `SESSION_API.md:19` documents a
`SessionProtocolRegistry::reload` the bridge does not have; a guild status older
than a roster is overlaid on it; a rank name of another guild changes the guild
id and leaves the old members until its roster comes; `GuildRankName` and the
message of the day are not withdrawn at a reset; a group disband with an empty
name, while the player's name is not known, is the player's own; twin ids are
resolved for buffs (`buff_owner`) but not for casts; the player's death does not
end the player's pending cast; a slotted re-send of a buff drops its known
duration; the session never drains `take_retired_provisional`, so a host is
not told which provisional id was wrong; `flush` at shutdown or at the end of a
replay emits no `SessionReset`.

## 6. What is proved

TLAPS checks these for every value of the constants, under the ASSUMEs of the
modules (which TLC evaluates in the runs). `PROJECT.json` lists the theorems.
Every safety property of section 3 is among them, the two abstract
specifications included; the one liveness property is not.

**The self tracker** (`PlayerSessionProofs`). The inductive invariant
`TrackerInv` collects what the properties need of each other: types, what is held
belongs to a twin of the adopted id, after a name match there is no provisional
id and the twin is in the batch, and a spent guess, with no adopted id, still
has its twin. That held vitals belong to a plausible twin is not inductive alone: it
rests on nothing being held before a name is matched. `GuessIsSpentOnce` is, with the
types (`StrangersKept`): with no name matched, the id that was taken on its stats is
the twin still, and while there is a twin no other id can qualify. Each operation
has a lemma; `TypeCorrect`, `PendingCorrect`,
`GuessCorrect` and `AnchorCorrect` lift them to `TrackerSpec`. `Refinement` proves
that the tracker implements `SelfIdentity`, one lemma per operation, under
`anchor <- tracker.self_id` and `ids <-` the ids that count as the player.
The lemmas are about a tracker before and after (`IdentityStep`), so that they
serve the session as well: `PacketCalls` says that any packet is, for the tracker in
the session, nothing, a reset, one observation, or a spawn record with the drain
after it, from which `TrackerInSession` (the invariant holds there too)
and `PromiseInSession` (the session implements `SelfIdentity`) follow.

**Who the player is** (`PlayerSessionProofs`). `IdentityCorrect` and
`ListingCorrect` are about the session's own state: one lemma per handler shows
that a `Sound` session (its types, and the agreement of its copies) stays so,
whatever it publishes. That
the player is not listed is not inductive; `ToldApart` is the strengthening:
every listed id was announced under another character's name, and the player's
id under the character's own, so that a spawn record or a position report can
never name one id for both. It rests on what the environment promises, an id
keeping its name between two boundaries, which every boundary starts afresh.
`HostHasTheIdentity` follows what each handler appends to `out`: `Follows(h, s)`
says that a host which was at `h` when the packet came is, after what was
published so far, where the session is; every handler keeps it. `OneOwner` and
`VitalsOfTheSession` rest on `VitalInv`: the snapshots that are held or were
published came after the reset or death, and what is held while it was published as
another entity's is of an id with another name (`Foreign`); since a tracker
holds nothing before a name was matched (`Trusted`), such a snapshot is never
drained as the player's.

**The loot tracker** (`LootTrackerProofs`). `LootInv` is `TypeOK`, that no two
pending halves could be paired, and that pending halves and rows are of the
visit they say (`PendingIsOfThisVisit` is the strengthening: without it a later
pairing could close a row under another visit). It yields `TypeCorrect`,
`PairingComplete` and `RowsCorrect`. The conservation theorem,
`NothingLostOrDoubled`, is about every half ever accepted: `Accounted` says
that the accepted numbers are partitioned among pending halves and rows, and
two lemmas, `Accept` and `Settle`, show that this is kept by accepting a half
and by closing any part of what is pending; each action is one or both.
`RepetitionRecognised` needs `SeenInv`: whatever was accepted with a sequence, or
from a window, since the last reset is still in the set that recognises it, and
what is older is of an earlier span. `FirstComeFirstServed` needs `OrderInv`: what
is pending for an item came after the halves of that item's pairs, each kind
compared with its own. The oldest half exists because the naturals are
well-founded.

**Index and progression** (`SessionCachesProofs`). `RemoveAgrees`, `AddAgrees`
and `RenameIsAdd` say what each operation of the index does and that its maps
keep mirroring each other. `IndexInv` puts that together with the host's list and
the truth of the index: a rename looks its spawn up by name, so that it hits the
right one rests on the mirror, and on every indexed spawn so far being true.
`MapsAgree`, `HostAgrees` and `RenamesAreRight` are the three parts.
`WornSlotsAreRight` and `HostHasTheProgress` rest on `ProgressInv`, whose
strengthening is `WornFollowsInventory`: on EQL the worn slots are those of the
inventory kept, so that the session may be silent about an inventory it has
already. Lemmas carry the steps of each half to the composition.

**Groups, guilds, dynamic zones** (`CommunicationProofs`). `PeersInv` adds to
`PeersAreTold` the types, that a finite number of peers was told, and that the
player is not one of them. A roster is applied name by name: the lemma about one
name is carried along the recursive function, for the slots held so far
and the peers told so far, and gives `PeersInSlots` and, for each step, `StableSlots`.
`CompleteGuildLists` and `HostHasTheState` are inductive with the types.

**Chat channels** (`CommunicationProofs`). Of a record, whatever its framing, the
printable run ends in the clear letters of its channel's name, and the rest is
an end of them (`Heard`). So a line is published under a name that is `Close` to
its channel's, if under a channel's name at all: five last letters agree, or the
clear letters of one end the other (`UcsInv`). `NeverUnderAnotherName` follows,
because no two channels are `Close` of which one is in `ToldApart`;
`LearnedNamesAreKept` is carried along a payload record by record: nothing guessed
from a record is taken for a learned name and is not it, so that only a word in the
clear can be. Both hold for any masks and any words in the clear, and do not depend
on how bytes are combined with a mask.

**Casts and buffs** (`CombatProofs`). `CombatInv` is the two agreements with the
host, that each buff stands at the place its slot or spell names, and that the
tables are finite, without which their removals could not be put in
an order. A packet publishes a sequence that puts a set in some order; lemmas say
what a host makes of any order of removals, of additions and updates in
their places, and of interruptions. `HostHasTheBuffs` and `HostHasTheCasts` follow
for lists of any length and for any change of who the player is.
`AimedAtOwnTargets` and `FadedEffectsGo` are about single casts and entries.

**The registry** (`ProtocolRegistryProofs`). `BatchesCorrect` rests on the
active catalog being the newest generation's, on what a reloader carries being
parsed from the file it says, and on a decoding session's snapshot being some
generation's; the list of generations only grows. `OverlapCorrect` needs two
facts of versions: nothing in use or on its way is newer than the disk
(`NothingIsNewer`), and where no reloads overlapped since the last edit, as soon
as the file on disk is on its way or in use, everything on its way is that file
(`AllCarryTheFile`). In these two `Parse` is left unexpanded, so they hold for any
parser. `SoundFilesParse` is about the parser: by induction over the rows, the
table so far is exactly what the mapped rows before say (`Faithful`, with
`OneMoreRow`), so a file parses if and only if it is sound, whatever the order of
its rows; hence `CatalogsAreWhatFilesSay`, with `AllParsed`, that only files that
parse are carried or installed. `RegistryIsACatalogService` is the refinement,
one lemma for each action that is not a stutter. It needs that what is installed
did parse, and that a session's snapshot is some generation's catalog, to say that
an answer from the snapshot is the answer of that generation. `AnswersStayInOrder`
adds the order of the answers: the generations that a session's batches name never
go back (`OrderInv`: what it answered so far is no newer than the snapshot the next
answer is made from).

**Traces** (`TracesProofs`), for any function `Events`. The answer to a packet depends
on the packets up to it and no others (`ReplayPrefix`); while nothing is stray, the
session took what the trace holds, and nothing else (`HostInv`); so what the host's
session answered is what a replay answers, as far as the recording on disk
(`FileInv`), in a tool (`ToolInv`) or behind the golden (`GoldenInv`) is intact.
`ScrubKeepsFields` is about the bytes of a scrub, refused or not; `StrayMore` that
marking more as stray claims less. `ReplayCorrect` and `CheckCorrect` follow; the
second is about single steps: two batches that match are equal, and those of an
untouched recording are all the host's.

**The bridge** (`BridgeProofs`). `BridgeStaysSound` is the inductive invariant
`BridgeInv`: the generation the host last saw, the one at the beginning of the
call and the active one are in order (`CountsInv`), no row or own-vitals entry is
left behind except in the middle of a flush (`KeptInv`), what a call under way
carries (`PendingInv`), what a returned one says (`ReturnedInv`), and the shape of
what was emitted (`Shaped`). The argument goes along the path of a packet:
- every handler of every opcode of the three backends is `Proper`: it gives no
  event of the session's own, and one that may reset is alone in its packet;
- each stage keeps an event and adds only kinds of its own, so a packet without
  a reset is told as `Calm` kinds, and an event that resets stays first of what it
  becomes, followed only by the player's snapshot;
- the correlators only append (`Grows`), and rows and events of a session tell
  the same acquisitions (`Balanced`), through pairing, windows, closing and the
  reset; hence a call leaves events that are `Calm`, or that `Announce` a reset in
  the documented order;
- `translate_events` gives every event a reference into the vector of its kind,
  and pushing more rows moves none (`Holding`, `Referred`); each kind's row
  structure has a flag for each of its optional fields (`RowsFit`), so
  a host reads back the event (`RoundTrip`).

`HostReadsEvents`, `RowsLeave`, `ResetIsAnnounced` and `BatchNamesGeneration` are its
consequences, for any loot that waits and any `MaxPending`.
`ShadowsAgreeWithTheSession` compares the opcode-specific functions with the parsers
family by family: for any direction, length and content, what the dispatch decodes
the function accepts too, apart from the lengths `SessionTakesMore` names, and what
the function accepts the dispatch calls malformed only for a refused value or a
length that `FunctionTakesMore` names. That
the batch a host was given last has the disposition of its call's packet is
`AnsweredInv`.

**Along recursive functions.** The library's induction takes an operator for a
parameter, which no installed prover instantiates. The proofs state induction
about a set instead (`Induction`: a set with zero and with the successor of each
of its numbers has them all, from the well-foundedness of the naturals), and
show with it that a recursive function satisfies its equation (`RunExists`,
`Iteration`); then a property is carried along the loop as membership in a set.

Only model-checked: `ReloadsTakeEffect`, which is liveness under fairness and out
of the prover's reach. `BatchesNameTheirGeneration` and `ResolvedIdsShareBatch`
are proved, and in no run: what a host can see of them is in the two refinements,
which are. The two properties of section 5 are false. No module has
RECURSIVE operators.

## 7. Not modelled

Where in a packet a value stands and what it is (`seq-decode`, the parsers of the
backends): one unit test file each. Generated structures: no behaviour.
JSON and hexadecimal shape, format versions. The bridge's size overrides and its
door stride, which change lengths that are one class here; its wrappers of the
two trackers only forward to them and are the trackers' modules. `tools/`: not
part of the program. Inside the modelled components, data that no property
distinguishes: positions, icons, quantities, names of corpses and casters, levels
and ranks in rosters, chat text. Integer widths play no part in the modelled
state, except `abs_diff` (no wrap-around) and the generation's saturating
counter.

Behaviours that were met, are modelled or in the code as described, and that no
property covers because the code has no promise to hold them against: the newest
wide packet inside the window replaces the held vitals even if it is a
neighbour's (`T:287`); the player's id stays after a removal, and may be reused
(`S:969`); coin piles without a server sequence are told apart by capture time
alone (`L:385`); the sets of recognised packets grow until the next boundary
(`L:254`); a status older than a roster is overlaid on it (`S:1821`); a rank name
of another guild (`S:1868`); buffs without an owner when the owner becomes known
(`S:1574`); a packet the builder refused, which the host's session has seen all
the same (`R:244`); a roster walk that ends early, with what it has
(`guild_roster.rs:117`); pairs shifted by one after a lost half (`L:549`).

## 8. Plan

1. Session core: `SelfTrack`, `PlayerSession`. *Done.*
2. Accounting and correlation: `LootTracker`, `Communication`, `Combat`. *Done.*
3. The shared registry: `ProtocolRegistry`, with its liveness. *Done.*
4. The session's caches: `EntityIndex`, `Progression`, `SessionCaches`. *Done.*
5. Dispatch, stages, layout and bridge: `Payloads`, `EqlDispatch`, `LiveDispatch`,
   `SessionEvents`, `EventVocabulary`, `BridgeRows`, `LegacyDecoders`, `Bridge`. *Done.*
6. UCS channels and traces: `UcsChannels`, `Traces`. *Done.*
7. Proofs of the tracker and its refinement, the loot tracker, the session's
   identity and vitals, its index and progression, groups and guilds, casts and
   buffs, chat channels, the registry, traces, and the bridge. *Done.*
8. The registry as a `CatalogService`, and its refinement; `SelfIdentity` inside a
   session; the shadow functions opcode by opcode. *Done.*
9. Later: the composition of the session's components on one packet stream
   (they meet in `SessionEvents` as choices), so that `Combat`'s identity changes
   are `PlayerSession`'s, and that the index's and the progression's invariants
   hold of the stages so composed.

## 9. Running

```
tlc -workers 2 -config MCPlayerSession.cfg MCPlayerSession.tla
tlapm PlayerSessionProofs.tla
```
