------------------------------- MODULE Bridge -------------------------------
(***************************************************************************)
(* SessionResource, the object a C++ host holds: it hands a packet, a UCS  *)
(* payload or a flush to the session, translates the events to rows, and   *)
(* drains the EQL correlation outputs into the same batch.                 *)
(*                                                                         *)
(* The registry is shared: another thread may activate a catalog between   *)
(* two steps of a call.  A decode takes its generation first, then         *)
(* decodes; a flush takes it last, after the session has closed its        *)
(* correlations.                                                           *)
(***************************************************************************)
EXTENDS BridgeRows, LegacyDecoders, SessionEvents

CONSTANTS
    Backends,       \* the backends the bridge is built for, one at a time
    MaxGeneration   \* how often the catalog is replaced, at most

ASSUME BackendsAssumption == Backends \subseteq {"eql", "live", "test"}
ASSUME GenerationAssumption == MaxGeneration \in Nat

VARIABLES
    backend,     \* the backend this bridge is built for
    active,      \* ProtocolRegistry: the generation of its active catalog
    open,        \* LootTracker: the halves that wait
    loot_rows,   \* EqlSession.loot_rows: rows to drain
    self_stats,  \* EqlSession.self_stats: how many to drain
    call,        \* the call in progress, or the one that returned batch
    emitted,     \* what the session returned in that call
    batch,       \* the batch the host has been given, or NoBatch
    newest       \* the newest generation the host has seen

session == <<open, loot_rows, self_stats>>
vars == <<backend, active, session, call, emitted, batch, newest>>

NoCall == [method |-> "none"]
NoBatch == [disposition |-> "none"]

Ops == DOMAIN EqlHandlers \cup DOMAIN LiveHandlers("live") \cup EqlInert
Unnamed == "an id the catalog does not name"
FlushReasons == {"Shutdown", "ZoneTransition", "ReplayEnd", "Reset"}

(***************************************************************************)
(* Payloads worth telling apart: a second layout where there is one, the   *)
(* part that only some packets have, and the contents some handler of the  *)
(* opcode looks at.                                                        *)
(***************************************************************************)
TwoLayouts == {"OP_Action", "OP_DzSwitchInfo", "OP_HPUpdate", "OP_Buff"}
SomeHaveMore == {"OP_LoadoutSwap", "OP_CommonMessage"}

LooksAt(handlers, op) ==
    IF op \notin DOMAIN handlers THEN {}
    ELSE LET h == handlers[op]
         IN  h.parser.errors \cup h.refuses \cup (h.quiet \cap Bodies)

Shapes(op) ==
    LET known == LooksAt(EqlHandlers, op) \cup LooksAt(LiveHandlers("test"), op)
                 \cup (IF op \in SomeHaveMore THEN {"extra"} ELSE {})
    IN  {p \in Payload : /\ p.body \in {"sound"} \cup known
                         /\ p.size = "other" => op \in TwoLayouts
                         /\ p.size = "short" => p.body = "sound"}

Decode(op, dir, p) ==
    IF backend = "eql" THEN EqlDecode(op, dir, p)
    ELSE LiveDecode(backend, op, dir, p)

(***************************************************************************)
(* What the optional fields of a batch hold: all alike, or one of them     *)
(* alone, as far as the backend has a say in it.                           *)
(***************************************************************************)
Template(kind) ==
    IF kind \notin DOMAIN ItemKinds THEN kind
    ELSE IF backend = "eql" THEN "ItemSet" ELSE "ItemLearned"

FieldsOf(table, kind) ==
    IF Template(kind) \in DOMAIN table THEN table[Template(kind)] ELSE {}

LeftOut(kind) == FieldsOf(IF backend = "eql" THEN EqlLeavesOut
                          ELSE LiveLeavesOut(backend), kind)
FilledIn(kind) == FieldsOf(IF backend = "eql" THEN EqlFillsIn
                           ELSE LiveFillsIn(backend), kind)

Fills(kinds) ==
    [all: Contents, but: {"nothing"}]
    \cup [all: {"none"}, but: UNION {Optional[k] : k \in kinds}]

Holds(kind, fill, o) ==
    IF o \in LeftOut(kind) THEN "none"
    ELSE IF o = fill.but \/ (o \in FilledIn(kind) /\ fill.all = "none")
    THEN "value" ELSE fill.all

Fields(kind, fill) ==
    [o \in Optional[kind] |->
       IF /\ o \in DOMAIN Parent(kind)
          /\ Holds(kind, fill, Parent(kind)[o]) = "none"
       THEN "none" ELSE Holds(kind, fill, o)]

Filled(events, fill) ==
    [i \in DOMAIN events |->
       [kind |-> events[i].kind, id |-> events[i].id,
        opts |-> Fields(events[i].kind, fill)]]

KindsOf(events) == {events[i].kind : i \in DOMAIN events}

(***************************************************************************)
(* The session, as the bridge sees it                                      *)
(***************************************************************************)
Session == [out |-> << >>, open |-> open, loot_rows |-> loot_rows,
            self_stats |-> self_stats]

Context == [backend |-> backend, op |-> call.op, dir |-> call.dir]

\* Session::decode_at after the catalog lookup: a disposition and the state.
DecodeAt(op, dir, p) ==
    LET outcome == IF op \in Ops THEN Decode(op, dir, p)
                   ELSE Outcome("Unmapped", << >>)
    IN  {[disposition |-> outcome.disposition, session |-> s] :
           s \in IF outcome.disposition = "Decoded"
                 THEN ApplySessionSemantics(Context, Session, outcome.kinds)
                 ELSE {Session}}

\* Session::decode_ucs: two events for every record.
UcsEvents(n) ==
    [i \in 1 .. 2 * n |-> [kind |-> IF i % 2 = 1 THEN "UcsRecord"
                                    ELSE "ChatMessage",
                           id |-> i]]

DecodeUcs(dir, ucs) ==
    LET ours == IF ucs.records = 0 THEN "Ignored" ELSE "Decoded"
        disposition ==
            IF dir # "S2C" THEN "Ignored" ELSE IF ucs.short THEN "Malformed"
            ELSE IF backend = "eql" THEN ours ELSE "Unhandled"
    IN  [disposition |-> disposition,
         session |-> [Session EXCEPT !.out = IF disposition = "Decoded"
                                             THEN UcsEvents(ucs.records)
                                             ELSE << >>]]

SessionBecomes(s) ==
    /\ open' = s.open
    /\ loot_rows' = s.loot_rows
    /\ self_stats' = s.self_stats

(***************************************************************************)
(* drain_correlations, at the end of every call but a malformed one        *)
(***************************************************************************)
Drained(b, s) ==
    IF backend = "eql"
    THEN [b EXCEPT !.self_stats = s.self_stats, !.loot_rows = s.loot_rows]
    ELSE b

DrainCorrelations(s) ==
    /\ open' = s.open
    /\ loot_rows' = IF backend = "eql" THEN << >> ELSE s.loot_rows
    /\ self_stats' = IF backend = "eql" THEN 0 ELSE s.self_stats

Return(generation, disposition, events, s) ==
    \E fill \in Fills(KindsOf(events)) :
        /\ emitted' = Filled(events, fill)
        /\ batch' = Drained(TranslateEvents(generation, disposition,
                                            Filled(events, fill)), s)
        /\ DrainCorrelations(s)

(***************************************************************************)
(* decode                                                                  *)
(***************************************************************************)
DecodeBegins(op, dir, p) ==
    /\ call = NoCall
    /\ call' = [method |-> "decode", op |-> op, dir |-> dir, payload |-> p,
                generation |-> active, began |-> active]
    /\ UNCHANGED <<backend, active, session, emitted, batch, newest>>

DecodeReturns ==
    /\ call.method = "decode" /\ batch = NoBatch
    /\ \E d \in DecodeAt(call.op, call.dir, call.payload) :
          Return(call.generation, d.disposition, d.session.out, d.session)
    /\ UNCHANGED <<backend, active, call, newest>>

(***************************************************************************)
(* decode_ucs                                                              *)
(***************************************************************************)
UcsBegins(dir, ucs) ==
    /\ call = NoCall
    /\ call' = [method |-> "decode_ucs", dir |-> dir, ucs |-> ucs,
                generation |-> active, began |-> active]
    /\ UNCHANGED <<backend, active, session, emitted, batch, newest>>

UcsReturns ==
    /\ call.method = "decode_ucs" /\ batch = NoBatch
    /\ LET d == DecodeUcs(call.dir, call.ucs)
       IN  Return(call.generation, d.disposition, d.session.out, d.session)
    /\ UNCHANGED <<backend, active, call, newest>>

(***************************************************************************)
(* flush                                                                   *)
(***************************************************************************)
FlushBegins(reason) ==
    /\ call = NoCall
    /\ \E s \in FlushSession([backend |-> backend], Session, reason) :
          /\ SessionBecomes(s)
          /\ call' = [method |-> "flush", reason |-> reason,
                      events |-> s.out, began |-> active]
    /\ UNCHANGED <<backend, active, emitted, batch, newest>>

\* A bug: the correlation outputs wait for the next call.
FlushReturnsUndrained ==
    /\ call.method = "flush" /\ batch = NoBatch
    /\ \E fill \in Fills(KindsOf(call.events)) :
          /\ emitted' = Filled(call.events, fill)
          /\ batch' = TranslateEvents(active, "Decoded", emitted')
    /\ UNCHANGED <<backend, active, session, call, newest>>

\* A bug: the generation is the one remembered from the last batch.
FlushReturnsRemembered ==
    /\ call.method = "flush" /\ batch = NoBatch
    /\ Return(newest, IF call.events = << >> THEN "Ignored" ELSE "Decoded",
              call.events, Session)
    /\ UNCHANGED <<backend, active, call, newest>>

FlushReturns ==
    /\ call.method = "flush" /\ batch = NoBatch
    /\ Return(active, IF call.events = << >> THEN "Ignored" ELSE "Decoded",
              call.events, Session)
    /\ UNCHANGED <<backend, active, call, newest>>

(***************************************************************************)
(* Any of the three, with an enumerator this bridge does not know          *)
(***************************************************************************)
Rejected(method) ==
    /\ call = NoCall
    /\ call' = [method |-> method, began |-> active, unknown |-> TRUE]
    /\ emitted' = << >>
    /\ batch' = TranslateEvents(active, "Malformed", << >>)
    /\ UNCHANGED <<backend, active, session, newest>>

(***************************************************************************)
(* The host has read the batch, and another thread replaces the catalog.   *)
(***************************************************************************)
HostTakes ==
    /\ batch # NoBatch
    /\ newest' = batch.generation
    /\ call' = NoCall /\ emitted' = << >> /\ batch' = NoBatch
    /\ UNCHANGED <<backend, active, session>>

Reload ==
    /\ active < MaxGeneration
    /\ active' = active + 1
    /\ UNCHANGED <<backend, session, call, emitted, batch, newest>>

Init ==
    /\ backend \in Backends
    /\ active = 1
    /\ open = {} /\ loot_rows = << >> /\ self_stats = 0
    /\ call = NoCall /\ emitted = << >> /\ batch = NoBatch
    /\ newest = 0

Next ==
    \/ \E op \in Ops \cup {Unnamed}, dir \in Directions :
          \E p \in Shapes(op) : DecodeBegins(op, dir, p)
    \/ DecodeReturns
    \/ \E dir \in Directions, ucs \in [short: BOOLEAN, records: 0 .. 2] :
          UcsBegins(dir, ucs)
    \/ UcsReturns
    \/ \E reason \in FlushReasons : FlushBegins(reason)
    \/ FlushReturns
    \/ \E method \in {"decode", "decode_ucs", "flush"} : Rejected(method)
    \/ HostTakes
    \/ Reload

Spec == Init /\ [][Next]_vars

-----------------------------------------------------------------------------
Returned == batch # NoBatch

(***************************************************************************)
(* What a host reads by the documented layout (the vector of the kind, at  *)
(* the index of the reference, a field absent when its flag is false) is   *)
(* what the session emitted, event for event: no row is overwritten,       *)
(* reordered or read from another kind's vector, a present zero stays      *)
(* present, and an absent field stays absent.                              *)
(***************************************************************************)
HostReadsWhatTheSessionEmitted ==
    Returned => HostEvents(batch) = emitted /\ \A i \in DOMAIN emitted :
                                                  WellFormed(emitted[i])

(***************************************************************************)
(* The compatibility rows and the semantic events of one batch tell the    *)
(* same acquisitions in the same order, so a host that keeps either path   *)
(* records each of them once; and nothing of a call is left for a later    *)
(* batch.  SESSION_API.md: a host chooses one persistence path.            *)
(***************************************************************************)
RowsLeaveWithTheirEvents ==
    /\ Returned =>
         ToldRows(batch.loot_rows)
         = NamesAt(emitted, {i \in DOMAIN emitted :
                               emitted[i].kind = "LootAcquired"})
    /\ call = NoCall => loot_rows = << >> /\ self_stats = 0

(***************************************************************************)
(* A batch keeps the lifecycle order of SESSION_API.md: the reset marker   *)
(* comes before the event that caused it and after everything the reset    *)
(* closed, there is one at most, and the wire events the session           *)
(* translates never reach the host.                                        *)
(***************************************************************************)
WireKinds == {"SelfPos", "StatSync", "SpawnHp", "SpawnKilled", "LoadoutSwap"}
ClosingKinds == {"SpellCastInterrupted", "BuffRemoved", "GroupRosterUpdated",
                 "GuildRosterUpdated", "DynamicZoneUpdated", "LootAcquired"}

ResetAnnouncedBeforeItsCause ==
    LET kinds == [i \in DOMAIN emitted |-> emitted[i].kind]
        resets == {i \in DOMAIN kinds : kinds[i] = "SessionReset"}
    IN  /\ Cardinality(resets) <= 1
        /\ KindsOf(emitted) \cap WireKinds = {}
        /\ \A i \in resets : \A j \in DOMAIN kinds \ {i} :
              j < i <=> kinds[j] \in ClosingKinds
        /\ \A j \in DOMAIN kinds :
              \/ kinds[j] \in {"EnterWorld", "PlayerProfile"}
              \/ kinds[j] = "ZoneTransition" /\ backend # "eql"
                 /\ call.dir = "S2C"
              => j > 1 /\ kinds[j - 1] = "SessionReset"

(***************************************************************************)
(* The generation a batch names was the active one at some moment of its   *)
(* call, and the host never sees generations go back, though decode takes  *)
(* it first and flush last while another thread replaces the catalog.      *)
(***************************************************************************)
BatchNamesAGenerationOfItsCall ==
    Returned => /\ batch.generation \in call.began .. active
                /\ newest <= batch.generation

(***************************************************************************)
(* The shadow comparison of the opcode-specific functions: what the        *)
(* session decodes they accept too, but for the lengths that are named;    *)
(* and what they accept the session calls malformed for a refused value,   *)
(* or for the one length that only a function takes.                       *)
(***************************************************************************)
ShadowAgrees ==
    Returned /\ "op" \in DOMAIN call /\ call.op \in DOMAIN Legacy(backend)
    => LET ok == LegacyOk(backend, call.op, call.payload)
       IN  /\ batch.disposition = "Decoded" =>
                \/ ok
                \/ <<call.op, call.payload.size>> \in SessionTakesMore(backend)
           /\ ok /\ batch.disposition = "Malformed" =>
                \/ call.payload.body = "odd"
                \/ <<call.op, call.payload.size>> \in FunctionTakesMore(backend)
=============================================================================
