-------------------------------- MODULE Traces --------------------------------
(***************************************************************************)
(* Application-packet traces (seq-trace; application-packet-traces.md): a  *)
(* host records what it passes to a session, someone scrubs the file, and  *)
(* the tools replay it into a golden and check it against one.             *)
(*                                                                         *)
(* The host and the person who scrubs are external; of them the document   *)
(* says that a packet is pushed before it is decoded, that a trace is      *)
(* closed at a reload and a new one started, and that it is renamed into   *)
(* place when complete.  The golden is not: the tool truncates the file    *)
(* and writes, and may be killed in between.  Tools run side by side, each *)
(* on a registry of its own.                                               *)
(*                                                                         *)
(* A byte is a letter, a NUL or binary.  What a session answers to a       *)
(* packet is any function, Events, of all it took before and of the packet *)
(* under the name its catalog gives the opcode.  Format, version, flush,   *)
(* generation and JSON shape are not told apart.                           *)
(***************************************************************************)
EXTENDS Integers, Sequences, FiniteSets, SequencesExt

CONSTANTS Catalogs,    \* opcode tables; one stands for its semantic hash
          Opcodes, Payloads, Times,
          Letters,     \* printable bytes
          Tools,       \* tool processes
          MaxPackets, MaxTraces, MaxReloads,  \* bounds
          Events(_, _) \* what is answered, after these packets, to this one

Scrubbed == "x"
Nul      == "nul"
Binary   == "binary"

ASSUME LettersAssumption == Scrubbed \in Letters /\ {Nul, Binary} \cap Letters = {}
ASSUME PayloadsAssumption == Payloads \subseteq Seq(Letters \cup {Nul, Binary})
ASSUME TimesAssumption == Times \subseteq Int

VARIABLES
  registry,  \* the host's: the catalog in use, and how often it was reloaded
  session,   \* the host's session: the packets it took, by name
  builder,   \* TraceBuilder: <<>> or <<a recording>>
  passing,   \* <<>> or <<the packet between push and decode_at>>
  file,      \* the trace on disk: <<>> or <<a recording>>
  golden,    \* the golden on disk: absent, cut short, or whole
  tool,      \* each tool: its place in the command, what it has loaded, and
             \* whether the check it ran last has passed
  opened     \* history: traces opened

hostVars == <<registry, session, builder, passing, opened>>
vars     == <<hostVars, file, golden, tool>>

-----------------------------------------------------------------------------
(* Decoding                                                                *)

Name(catalog, opcode) == IF opcode \in DOMAIN catalog THEN catalog[opcode] ELSE "unmapped"

(* A packet as a session takes it.                                         *)
Taken(catalog, packet) ==
  [name |-> Name(catalog, packet.opcode),
   payload |-> packet.payload, timestamp |-> packet.timestamp]

(* decode_at, by a session that took the packets seen.                     *)
Answer(catalog, seen, packet) ==
  LET taken == Taken(catalog, packet)
  IN  [name |-> taken.name,
       events |-> IF taken.name = "unmapped" THEN <<>> ELSE Events(seen, taken)]

Before(catalog, packets, i) == [j \in 1 .. i - 1 |-> Taken(catalog, packets[j])]

(* replay: every packet in order, through one new session.                 *)
Replay(trace, catalog) ==
  [i \in DOMAIN trace.packets |->
     Answer(catalog, Before(catalog, trace.packets, i), trace.packets[i])]

Ordered(packets) ==
  \A i \in 2 .. Len(packets) : packets[i - 1].timestamp <= packets[i].timestamp

(* validate and validate_for_registry                                      *)
Valid(trace, catalog) == Ordered(trace.packets) /\ trace.catalog_hash = catalog

GoldenOf(trace, catalog) ==
  [catalog_hash |-> trace.catalog_hash, batches |-> Replay(trace, catalog)]

(* A slip: first_mismatch without the comparison of the arrays' lengths.   *)
MatchesSoFar(expected, actual) ==
  /\ expected.catalog_hash = actual.catalog_hash
  /\ \A i \in DOMAIN expected.batches \cap DOMAIN actual.batches :
       expected.batches[i] = actual.batches[i]

Matches(expected, actual) ==
  /\ expected.catalog_hash = actual.catalog_hash
  /\ Len(expected.batches) = Len(actual.batches)
  /\ \A i \in DOMAIN expected.batches : expected.batches[i] = actual.batches[i]

-----------------------------------------------------------------------------
(* The host                                                                *)

(* A recording is a trace with its history: for each of its packets the    *)
(* payload the host's session was given and what it answered, and the      *)
(* positions from which on a replay is no longer in the session's place.   *)
NewRecording(trace, stray) == [trace |-> trace, saw |-> <<>>, stray |-> stray]

(* TraceBuilder::for_registry, with a new session, or in the middle of one *)
(* whose last trace was closed at a reload.                                *)
Open ==
  /\ builder = <<>>
  /\ opened < MaxTraces
  /\ session' \in {<<>>, session}
  /\ builder' = <<NewRecording([catalog_hash |-> registry.catalog, packets |-> <<>>],
                               IF session' = <<>> THEN {} ELSE {1})>>
  /\ opened' = opened + 1
  /\ UNCHANGED <<registry, passing, file, golden, tool>>

(* The host finds the trace's catalog in use and calls push, which refuses *)
(* a packet that is older than the last.                                   *)
Push(opcode, payload, t) ==
  LET recording == builder[1]
      packets   == recording.trace.packets
      packet    == [opcode |-> opcode, payload |-> payload, timestamp |-> t]
      late      == packets # <<>> /\ t < Last(packets).timestamp
  IN  /\ builder # <<>> /\ passing = <<>>
      /\ recording.trace.catalog_hash = registry.catalog
      /\ Len(session) < MaxPackets
      /\ builder' = IF late
                    THEN <<[recording EXCEPT !.stray = @ \cup {Len(packets) + 1}]>>
                    ELSE <<[recording EXCEPT !.trace.packets = Append(@, packet)]>>
      /\ passing' = <<[packet |-> packet, kept |-> ~late]>>
      /\ UNCHANGED <<registry, session, opened, file, golden, tool>>

(* decode_at takes its own snapshot, a refused packet's too.               *)
DecodeAt ==
  LET recording == builder[1]
      packet    == passing[1].packet
      catalog   == registry.catalog
      given     == [payload |-> packet.payload, answer |-> Answer(catalog, session, packet)]
      n         == Len(recording.trace.packets)
  IN  /\ passing # <<>>
      /\ session' = Append(session, Taken(catalog, packet))
      /\ builder' =
           IF ~passing[1].kept THEN builder
           ELSE <<[recording EXCEPT
                     !.saw = Append(@, given),
                     !.stray = IF catalog = recording.trace.catalog_hash THEN @ ELSE @ \cup {n}]>>
      /\ passing' = <<>>
      /\ UNCHANGED <<registry, opened, file, golden, tool>>

(* Another thread reloads the catalog.                                     *)
Reload(catalog) ==
  /\ registry.reloads < MaxReloads
  /\ registry' = [catalog |-> catalog, reloads |-> registry.reloads + 1]
  /\ UNCHANGED <<session, builder, passing, opened, file, golden, tool>>

(* A slip: the hash is filled in at the end.                               *)
CloseStampingHash ==
  /\ builder # <<>> /\ passing = <<>>
  /\ file' = [builder EXCEPT ![1].trace.catalog_hash = registry.catalog]
  /\ builder' = <<>>
  /\ UNCHANGED <<registry, session, passing, opened, golden, tool>>

(* finish and write_trace; the file is renamed into place.  The session    *)
(* goes on.                                                                *)
Close ==
  /\ builder # <<>> /\ passing = <<>>
  /\ file' = builder
  /\ builder' = <<>>
  /\ UNCHANGED <<registry, session, passing, opened, golden, tool>>

(* The host is killed: the temporary file is never renamed.                *)
HostDies ==
  /\ builder # <<>>
  /\ builder' = <<>> /\ passing' = <<>> /\ session' = <<>>
  /\ UNCHANGED <<registry, opened, file, golden, tool>>

-----------------------------------------------------------------------------
(* scrub_ascii_range: letters before a binary byte are already replaced    *)
(* when it is found; the caller has an error and nothing is put back.      *)
ScrubAsciiRange(payload, first, last) ==
  LET binary == {i \in first .. last : payload[i] = Binary}
  IN  [i \in DOMAIN payload |->
         IF /\ i \in first .. last /\ payload[i] # Nul
            /\ \A j \in binary : i < j
         THEN Scrubbed ELSE payload[i]]

(* The person who scrubs saves the file, whether the error was heeded or   *)
(* not.                                                                    *)
Scrub(i, first, last) ==
  LET packets == file[1].trace.packets
      payload == ScrubAsciiRange(packets[i].payload, first, last)
  IN  /\ file # <<>>
      /\ i \in DOMAIN packets
      /\ 1 <= first /\ first <= last /\ last <= Len(packets[i].payload)
      /\ payload # packets[i].payload
      /\ file' = <<[file[1] EXCEPT !.trace.packets[i].payload = payload,
                                   !.stray = @ \cup {i}]>>
      /\ UNCHANGED <<hostVars, golden, tool>>

-----------------------------------------------------------------------------
(* The tools                                                               *)

At(t, place)    == tool[t].at = place
Idle(passed)    == [at |-> "idle", passed |-> passed]
Exit(t, passed) == tool' = [tool EXCEPT ![t] = Idle(passed)]

(* load_trace, validate_for_registry and replay, on the catalogs of        *)
(* --catalog-dir or the embedded ones.  validate stops here.               *)
Load(t, command, catalog) ==
  /\ At(t, "idle") /\ file # <<>>
  /\ IF ~Valid(file[1].trace, catalog) THEN Exit(t, FALSE)
     ELSE tool' = [tool EXCEPT ![t] =
            [at |-> command, passed |-> FALSE, from |-> file[1],
             golden |-> GoldenOf(file[1].trace, catalog)]]
  /\ UNCHANGED <<hostVars, file, golden>>

(* replay_command: File::create.                                           *)
Create(t) ==
  /\ At(t, "replay")
  /\ golden' = [state |-> "cut"]
  /\ tool' = [tool EXCEPT ![t].at = "writing"]
  /\ UNCHANGED <<hostVars, file>>

(* write_golden.                                                           *)
Write(t) ==
  /\ At(t, "writing")
  /\ golden' = [state |-> "whole", content |-> tool[t].golden, from |-> tool[t].from]
  /\ Exit(t, FALSE)
  /\ UNCHANGED <<hostVars, file>>

(* check_command: load_golden takes a complete document only.              *)
Check(t) ==
  /\ At(t, "check")
  /\ Exit(t, golden.state = "whole" /\ Matches(golden.content, tool[t].golden))
  /\ UNCHANGED <<hostVars, file, golden>>

ToolDies(t) ==
  /\ ~At(t, "idle")
  /\ Exit(t, FALSE)
  /\ UNCHANGED <<hostVars, file, golden>>

-----------------------------------------------------------------------------
Init ==
  /\ registry \in [catalog : Catalogs, reloads : {0}]
  /\ session = <<>> /\ builder = <<>> /\ passing = <<>> /\ opened = 0
  /\ file = <<>>
  /\ golden = [state |-> "absent"]
  /\ tool = [t \in Tools |-> Idle(FALSE)]

Next ==
  \/ Open \/ DecodeAt \/ Close \/ HostDies
  \/ \E o \in Opcodes, p \in Payloads, t \in Times : Push(o, p, t)
  \/ \E c \in Catalogs : Reload(c)
  \/ \E i \in 1 .. MaxPackets, first, last \in 1 .. 3 : Scrub(i, first, last)
  \/ \E t \in Tools, command \in {"replay", "check"}, c \in Catalogs : Load(t, command, c)
  \/ \E t \in Tools : Create(t) \/ Write(t) \/ Check(t) \/ ToolDies(t)

Spec == Init /\ [][Next]_vars

-----------------------------------------------------------------------------
(* Properties                                                              *)

(* No packet up to the i-th was scrubbed, decoded under another catalog    *)
(* than the header's, or preceded by one the session took and the trace    *)
(* has not.                                                                *)
Intact(recording, i) == (1 .. i) \cap recording.stray = {}

(* The batches are what the host's session answered, as far as that.       *)
AsTheHostSaw(batches, recording) ==
  \A i \in DOMAIN recording.saw :
    Intact(recording, i) => batches[i] = recording.saw[i].answer

SameFields(a, b) ==
  /\ DOMAIN a = DOMAIN b
  /\ \A k \in DOMAIN a : a[k] = b[k] \/ {a[k], b[k]} \subseteq Letters

(* A trace on disk has one answer of the host's session for each of its    *)
(* packets, and, under every catalog a replay accepts, is answered alike   *)
(* up to the first packet that was scrubbed, was decoded after a reload    *)
(* that fell between push and decode_at, or follows one that the session   *)
(* had taken and the trace has not (one that arrived with an earlier time, *)
(* or before a trace that was opened in the middle of a session): not      *)
(* further, as a later answer may depend on it.  A scrub, refused half way *)
(* or not, leaves lengths, NULs and binary bytes as they were.             *)
ReplayIsWhatTheHostSaw ==
  file # <<>> =>
    LET recording == file[1]
        packets   == recording.trace.packets
    IN  /\ DOMAIN recording.saw = DOMAIN packets
        /\ \A c \in Catalogs :
             Valid(recording.trace, c) => AsTheHostSaw(Replay(recording.trace, c), recording)
        /\ \A i \in DOMAIN packets : SameFields(packets[i].payload, recording.saw[i].payload)

(* A check that passes has compared one batch for every packet of the      *)
(* trace it read, and those that were written agree with what the host saw *)
(* as far as the trace is intact.  Against the golden of an untouched      *)
(* recording it says that the trace, scrubbed since, is answered in full   *)
(* as the host saw that one: a scrub that changed any answer, its own      *)
(* packet's or a later one's, does not pass, and neither does the golden   *)
(* of a trace that was answered otherwise, or one that is being written    *)
(* (main.rs:85-98, and 82-84 of the document).                             *)
CheckedGoldenIsWhatTheHostSaw ==
  [][\A t \in Tools :
       tool[t].at = "check" /\ tool'[t].passed =>
         LET read    == tool[t].from
             batches == golden.content.batches
         IN  /\ DOMAIN batches = DOMAIN read.trace.packets
             /\ AsTheHostSaw(batches, read)
             /\ golden.from.stray = {} =>
                  Replay(read.trace, read.trace.catalog_hash)
                    = [i \in DOMAIN golden.from.saw |-> golden.from.saw[i].answer]]_vars
=============================================================================
