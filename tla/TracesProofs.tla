----------------------------- MODULE TracesProofs -----------------------------
(***************************************************************************)
(* As far as a recorded trace is intact it replays to what the host's      *)
(* session answered, and a check that passes says so: for any catalogs,    *)
(* packets, sessions (any Events), tools and reloads.                      *)
(***************************************************************************)
EXTENDS Traces, SequenceTheorems, TLAPS

-----------------------------------------------------------------------------
(* The inductive invariant                                                 *)

Bytes      == Seq(Letters \cup {Nul, Binary})
Packets    == [opcode : Opcodes, payload : Bytes, timestamp : Times]
TraceFiles == [catalog_hash : Catalogs, packets : Seq(Packets)]
AnyName    == {Name(c, o) : c \in Catalogs, o \in Opcodes}
Takens     == [name : AnyName, payload : Bytes, timestamp : Times]
Answers    == {Answer(c, seen, p) : c \in Catalogs, seen \in Seq(Takens), p \in Packets}
Givens     == [payload : Bytes, answer : Answers]
Recordings == [trace : TraceFiles, saw : Seq(Givens), stray : SUBSET Nat]
Passing    == [packet : Packets, kept : BOOLEAN]
Commands   == {"replay", "check", "writing"}

ReplayOf(trace) == Replay(trace, trace.catalog_hash)

(* What the session answered is where the trace has it.                    *)
Recorded(recording) ==
  /\ recording \in Recordings
  /\ DOMAIN recording.saw \subseteq DOMAIN recording.trace.packets
  /\ AsTheHostSaw(ReplayOf(recording.trace), recording)
  /\ \A i \in DOMAIN recording.saw :
       SameFields(recording.trace.packets[i].payload, recording.saw[i].payload)

Complete(recording) ==
  /\ Recorded(recording)
  /\ DOMAIN recording.saw = DOMAIN recording.trace.packets

(* The trace has the packet between push and decode_at, unless it was      *)
(* refused, and no other that the session has not; while it is intact the  *)
(* session took what the trace holds, and nothing else.                    *)
InStep(recording, taken, between) ==
  LET packets == recording.trace.packets
      n       == Len(recording.saw)
  IN  /\ between = <<>> => Len(packets) = n
      /\ between # <<>> /\ between[1].kept =>
           Len(packets) = n + 1 /\ packets[n + 1] = between[1].packet
      /\ between # <<>> /\ ~between[1].kept => Len(packets) = n /\ n + 1 \in recording.stray
      /\ Intact(recording, n + 1) =>
           taken = Before(recording.trace.catalog_hash, packets, n + 1)

HostInv ==
  /\ session \in Seq(Takens)
  /\ passing # <<>> =>
       builder # <<>> /\ passing = <<passing[1]>> /\ passing[1] \in Passing
  /\ builder # <<>> =>
       builder = <<builder[1]>> /\ Recorded(builder[1]) /\ InStep(builder[1], session, passing)

FileInv == file # <<>> => file = <<file[1]>> /\ Complete(file[1])

(* A tool on its way has its answer from the trace it read, and so has the *)
(* golden from the trace it was made of.                                   *)
Loaded(state) ==
  /\ state.at \in Commands /\ state.passed = FALSE
  /\ Complete(state.from)
  /\ state.golden = GoldenOf(state.from.trace, state.from.trace.catalog_hash)

ToolInv ==
  /\ tool = [t \in Tools |-> tool[t]]
  /\ \A t \in Tools : tool[t].at # "idle" => Loaded(tool[t])

GoldenInv ==
  golden.state = "whole" =>
    /\ Complete(golden.from)
    /\ golden.content = GoldenOf(golden.from.trace, golden.from.trace.catalog_hash)

RegistryInv == registry \in [catalog : Catalogs, reloads : Nat]

Inv == RegistryInv /\ HostInv /\ FileInv /\ ToolInv /\ GoldenInv

-----------------------------------------------------------------------------
(* Replays                                                                 *)

(* The answer to a packet depends on it and on those before it.            *)
LEMMA ReplayPrefix ==
  ASSUME NEW a, NEW b, NEW c, NEW i \in Nat \ {0},
         i \in DOMAIN a.packets, i \in DOMAIN b.packets,
         \A j \in 1 .. i : a.packets[j] = b.packets[j]
  PROVE  Replay(a, c)[i] = Replay(b, c)[i]
<1>1. Before(c, a.packets, i) = Before(c, b.packets, i)
  BY DEF Before
<1>2. a.packets[i] = b.packets[i]
  OBVIOUS
<1> QED BY <1>1, <1>2 DEF Replay

LEMMA TakenType ==
  ASSUME NEW c \in Catalogs, NEW p \in Packets
  PROVE  Taken(c, p) \in Takens
BY DEF Taken, Takens, Packets, AnyName

LEMMA BeforeType ==
  ASSUME NEW c \in Catalogs, NEW packets \in Seq(Packets),
         NEW i \in Nat \ {0}, i <= Len(packets) + 1
  PROVE  Before(c, packets, i) \in Seq(Takens) /\ Len(Before(c, packets, i)) = i - 1
<1>1. \A j \in 1 .. i - 1 : packets[j] \in Packets
  OBVIOUS
<1>2. \A j \in 1 .. i - 1 : Taken(c, packets[j]) \in Takens
  BY <1>1, TakenType
<1>3. i - 1 \in Nat
  OBVIOUS
<1> QED BY <1>2, <1>3 DEF Before

LEMMA BeforeNext ==
  ASSUME NEW c \in Catalogs, NEW packets \in Seq(Packets),
         NEW i \in Nat \ {0}, i <= Len(packets)
  PROVE  Before(c, packets, i + 1) = Append(Before(c, packets, i), Taken(c, packets[i]))
<1> DEFINE one == Before(c, packets, i)
           two == Before(c, packets, i + 1)
           new == Taken(c, packets[i])
<1>1. one \in Seq(Takens) /\ Len(one) = i - 1 /\ two \in Seq(Takens) /\ Len(two) = i
  <2>1. i <= Len(packets) + 1 /\ i + 1 <= Len(packets) + 1 /\ i + 1 \in Nat \ {0} /\ (i + 1) - 1 = i
    OBVIOUS
  <2> QED BY <2>1, BeforeType
<1>2. new \in Takens
  <2>1. packets[i] \in Packets
    OBVIOUS
  <2> QED BY <2>1, TakenType
<1>3. \A j \in 1 .. i - 1 : two[j] = one[j]
  BY DEF Before
<1>4. two[i] = new
  BY DEF Before
<1> HIDE DEF one, two, new
<1>5. Append(one, new) \in Seq(Takens) /\ Len(Append(one, new)) = i
  BY <1>1, <1>2
<1>6. \A j \in 1 .. i : two[j] = Append(one, new)[j]
  BY <1>1, <1>2, <1>3, <1>4
<1> QED BY <1>1, <1>5, <1>6, SeqEqual DEF one, two, new

LEMMA ReplayType ==
  ASSUME NEW trace \in TraceFiles
  PROVE  ReplayOf(trace) \in Seq(Answers) /\ DOMAIN ReplayOf(trace) = DOMAIN trace.packets
<1> DEFINE c       == trace.catalog_hash
           packets == trace.packets
           F(i)    == Answer(c, Before(c, packets, i), packets[i])
<1>1. c \in Catalogs /\ packets \in Seq(Packets)
  BY DEF TraceFiles
<1>2. ASSUME NEW i \in 1 .. Len(packets) PROVE F(i) \in Answers
  <2>1. packets[i] \in Packets
    BY <1>1
  <2>2. i \in Nat \ {0} /\ i <= Len(packets) + 1
    BY <1>1
  <2>3. Before(c, packets, i) \in Seq(Takens)
    <3> HIDE DEF c, packets
    <3> QED BY <1>1, <2>2, BeforeType
  <2> QED BY <1>1, <2>1, <2>3 DEF Answers
<1>3. ReplayOf(trace) = [i \in 1 .. Len(packets) |-> F(i)]
  BY <1>1 DEF ReplayOf, Replay
<1> HIDE DEF F, packets, c
<1>4. ReplayOf(trace) \in Seq(Answers)
  BY <1>1, <1>2, <1>3
<1>5. DOMAIN ReplayOf(trace) = DOMAIN packets
  BY <1>1, <1>3
<1> QED BY <1>4, <1>5 DEF packets

(* A scrub, refused or not, replaces letters by letters.                   *)
LEMMA ScrubKeepsFields ==
  ASSUME NEW payload \in Bytes, NEW first \in Nat \ {0}, NEW last \in Nat, last <= Len(payload)
  PROVE  LET new == ScrubAsciiRange(payload, first, last)
         IN  new \in Bytes /\ SameFields(new, payload)
<1> DEFINE new    == ScrubAsciiRange(payload, first, last)
           binary == {i \in first .. last : payload[i] = Binary}
<1>1. new = [i \in DOMAIN payload |->
               IF /\ i \in first .. last /\ payload[i] # Nul
                  /\ \A j \in binary : i < j
               THEN Scrubbed ELSE payload[i]]
  BY DEF ScrubAsciiRange
<1>2. \A i \in DOMAIN payload : payload[i] \in Letters \cup {Nul, Binary}
  BY DEF Bytes
<1>3. ASSUME NEW i \in DOMAIN payload
      PROVE  new[i] = payload[i] \/ {new[i], payload[i]} \subseteq Letters
  <2>1. CASE i \in first .. last /\ payload[i] # Nul /\ \A j \in binary : i < j
    <3>1. i \notin binary
      BY <2>1
    <3>2. payload[i] \in Letters
      BY <1>2, <2>1, <3>1
    <3> QED BY <1>1, <2>1, <3>2, LettersAssumption
  <2>2. CASE ~(i \in first .. last /\ payload[i] # Nul /\ \A j \in binary : i < j)
    BY <1>1, <2>2
  <2> QED BY <2>1, <2>2
<1>4. new = [i \in 1 .. Len(payload) |-> new[i]] /\ Len(payload) \in Nat
  BY <1>1 DEF Bytes
<1>5. \A i \in 1 .. Len(payload) : new[i] \in Letters \cup {Nul, Binary}
  BY <1>2, <1>3 DEF Bytes
<1> HIDE DEF new
<1>6. new \in Bytes
  BY <1>4, <1>5 DEF Bytes
<1>7. SameFields(new, payload)
  <2>1. DOMAIN new = DOMAIN payload
    BY <1>4 DEF Bytes
  <2> QED BY <1>3, <2>1 DEF SameFields
<1> QED BY <1>6, <1>7 DEF new

(* With more marked as no longer intact, less is claimed.                  *)
LEMMA StrayMore ==
  ASSUME NEW recording, Recorded(recording), NEW i \in Nat
  PROVE  LET more == [recording EXCEPT !.stray = @ \cup {i}]
         IN  /\ Recorded(more)
             /\ more.trace = recording.trace /\ more.saw = recording.saw
             /\ more.stray = recording.stray \cup {i}
<1> DEFINE more == [recording EXCEPT !.stray = @ \cup {i}]
<1>1. /\ more \in Recordings
      /\ more.trace = recording.trace /\ more.saw = recording.saw
      /\ more.stray = recording.stray \cup {i}
  BY DEF Recorded, Recordings
<1> HIDE DEF more
<1>2. AsTheHostSaw(ReplayOf(more.trace), more)
  BY <1>1 DEF Recorded, AsTheHostSaw, Intact
<1>3. Recorded(more)
  BY <1>1, <1>2 DEF Recorded
<1> QED BY <1>1, <1>3 DEF more

-----------------------------------------------------------------------------
(* The steps                                                               *)

LEMMA InitInv == Init => Inv
<1> SUFFICES ASSUME Init PROVE Inv
  OBVIOUS
<1>1. HostInv
  BY DEF Init, HostInv
<1>2. ToolInv
  BY DEF Init, ToolInv, Idle
<1> QED BY <1>1, <1>2 DEF Init, Inv, RegistryInv, FileInv, GoldenInv

LEMMA OpenInv == ASSUME Inv, Open PROVE Inv'
<1> DEFINE trace == [catalog_hash |-> registry.catalog, packets |-> << >>]
           stray == IF session' = << >> THEN {} ELSE {1}
           new   == NewRecording(trace, stray)
<1>1. builder' = <<new>> /\ passing' = passing /\ passing = << >> /\ session' \in {<< >>, session}
  BY DEF Open, Inv, HostInv
<1>2. new.trace = trace /\ new.saw = << >> /\ new.stray = stray /\ new \in Recordings
  <2>1. trace \in TraceFiles
    BY DEF Inv, RegistryInv, TraceFiles
  <2> QED BY <2>1 DEF NewRecording, Recordings
<1>3. trace.packets = << >>
  OBVIOUS
<1>4. Intact(new, 1) => session' = << >>
  BY <1>2 DEF Intact
<1> HIDE DEF new, trace, stray
<1>5. Recorded(new)
  BY <1>2 DEF Recorded, AsTheHostSaw
<1>6. Before(trace.catalog_hash, trace.packets, 1) = << >>
  BY DEF Before
<1>7. InStep(new, session', passing')
  BY <1>1, <1>2, <1>3, <1>4, <1>6 DEF InStep
<1>8. session' \in Seq(Takens)
  <2>1. session \in Seq(Takens) /\ << >> \in Seq(Takens)
    BY DEF Inv, HostInv
  <2> QED BY <1>1, <2>1
<1>9. HostInv'
  BY <1>1, <1>5, <1>7, <1>8 DEF HostInv
<1> QED BY <1>9 DEF Inv, Open, RegistryInv, FileInv, ToolInv, GoldenInv

LEMMA PushInv ==
  ASSUME Inv, NEW o \in Opcodes, NEW p \in Payloads, NEW t \in Times, Push(o, p, t)
  PROVE  Inv'
<1> DEFINE recording == builder[1]
           packets   == recording.trace.packets
           n         == Len(packets)
           packet    == [opcode |-> o, payload |-> p, timestamp |-> t]
           late      == packets # << >> /\ t < Last(packets).timestamp
           marked    == [recording EXCEPT !.stray = @ \cup {n + 1}]
           longer    == [recording EXCEPT !.trace.packets = Append(@, packet)]
<1>1. /\ builder = <<recording>> /\ passing = << >> /\ session' = session
      /\ Recorded(recording) /\ InStep(recording, session, passing)
      /\ builder' = IF late THEN <<marked>> ELSE <<longer>>
      /\ passing' = <<[packet |-> packet, kept |-> ~late]>>
  BY DEF Push, Inv, HostInv
<1>2. packet \in Packets
  BY PayloadsAssumption DEF Packets, Bytes
<1>3. /\ packets \in Seq(Packets) /\ n \in Nat /\ Len(recording.saw) = n
      /\ recording.trace \in TraceFiles /\ recording.saw \in Seq(Givens)
      /\ recording.stray \subseteq Nat
  BY <1>1 DEF Recorded, Recordings, TraceFiles, InStep
<1>4. session' \in Seq(Takens)
  BY <1>1 DEF Inv, HostInv
<1>5. passing' = <<passing'[1]>> /\ passing'[1] \in Passing
      /\ passing'[1].packet = packet /\ passing'[1].kept = ~late
  <2>1. (~late) \in BOOLEAN
    OBVIOUS
  <2> HIDE DEF packet, late
  <2> QED BY <1>1, <1>2, <2>1 DEF Passing
<1>6. ASSUME NEW new, builder' = <<new>>, Recorded(new), InStep(new, session', passing')
      PROVE  Inv'
  <2>1. HostInv'
    BY <1>4, <1>5, <1>6 DEF HostInv
  <2> QED BY <2>1 DEF Inv, Push, RegistryInv, FileInv, ToolInv, GoldenInv
<1>7. CASE late
  <2>1. builder' = <<marked>> /\ ~passing'[1].kept
    BY <1>1, <1>5, <1>7
  <2>2. /\ Recorded(marked) /\ marked.trace = recording.trace
        /\ marked.saw = recording.saw /\ marked.stray = recording.stray \cup {n + 1}
    <3>1. n + 1 \in Nat
      BY <1>3
    <3> HIDE DEF recording, n
    <3> QED BY <1>1, <3>1, StrayMore
  <2> HIDE DEF marked
  <2>3. ~Intact(marked, n + 1)
    <3>1. n + 1 \in 1 .. n + 1
      BY <1>3
    <3>2. n + 1 \in marked.stray
      BY <2>2
    <3> HIDE DEF n
    <3> QED BY <3>1, <3>2 DEF Intact
  <2>4. InStep(marked, session', passing')
    BY <1>3, <1>5, <2>1, <2>2, <2>3 DEF InStep
  <2> QED BY <1>6, <2>1, <2>2, <2>4
<1>8. CASE ~late
  <2> DEFINE more == Append(packets, packet)
  <2>1. builder' = <<longer>> /\ passing'[1].kept
    BY <1>1, <1>5, <1>8
  <2>2. more \in Seq(Packets) /\ Len(more) = n + 1 /\ more[n + 1] = packet
        /\ \A j \in 1 .. n : more[j] = packets[j]
    <3> HIDE DEF packet, packets
    <3> QED BY <1>2, <1>3
  <2>3. /\ longer.trace = [recording.trace EXCEPT !.packets = more]
        /\ longer.saw = recording.saw /\ longer.stray = recording.stray
        /\ longer \in Recordings
    <3> HIDE DEF more
    <3>1. [recording.trace EXCEPT !.packets = more] \in TraceFiles
      BY <1>3, <2>2 DEF TraceFiles
    <3>2. longer = [recording EXCEPT !.trace.packets = more]
      BY DEF more
    <3> QED BY <1>1, <3>1, <3>2 DEF Recorded, Recordings
  <2>4. longer.trace.packets = more /\ longer.trace.catalog_hash = recording.trace.catalog_hash
    <3> HIDE DEF more, longer
    <3> QED BY <1>3, <2>3 DEF TraceFiles
  <2> HIDE DEF longer, more, packet, late
  <2>5. \A i \in 1 .. n : ReplayOf(longer.trace)[i] = ReplayOf(recording.trace)[i]
    <3> SUFFICES ASSUME NEW i \in 1 .. n
                 PROVE  ReplayOf(longer.trace)[i] = ReplayOf(recording.trace)[i]
      OBVIOUS
    <3>1. /\ i \in Nat \ {0} /\ i \in DOMAIN longer.trace.packets
          /\ i \in DOMAIN recording.trace.packets
          /\ \A j \in 1 .. i : longer.trace.packets[j] = recording.trace.packets[j]
      BY <1>3, <2>2, <2>4
    <3> HIDE DEF packets, n, recording
    <3> QED BY <2>4, <3>1, ReplayPrefix DEF ReplayOf
  <2>6. Recorded(longer)
    <3> DEFINE same == /\ AsTheHostSaw(ReplayOf(recording.trace), recording)
                       /\ \A i \in DOMAIN recording.saw :
                            SameFields(packets[i].payload, recording.saw[i].payload)
    <3>d. same /\ DOMAIN recording.saw = 1 .. n
      BY <1>1, <1>3 DEF Recorded
    <3> HIDE DEF recording, packets, n
    <3>1. AsTheHostSaw(ReplayOf(longer.trace), longer)
      BY <2>3, <2>5, <3>d DEF AsTheHostSaw, Intact
    <3>2. \A i \in DOMAIN longer.saw :
            SameFields(longer.trace.packets[i].payload, longer.saw[i].payload)
      BY <2>2, <2>3, <2>4, <3>d
    <3>3. DOMAIN longer.saw \subseteq DOMAIN longer.trace.packets
      BY <1>3, <2>2, <2>3, <2>4
    <3> QED BY <2>3, <3>1, <3>2, <3>3 DEF Recorded
  <2>7. Before(longer.trace.catalog_hash, more, n + 1)
          = Before(recording.trace.catalog_hash, packets, n + 1)
    BY <1>3, <2>2, <2>4 DEF Before
  <2>8. Intact(longer, n + 1) =>
          session' = Before(longer.trace.catalog_hash, longer.trace.packets, n + 1)
    BY <1>1, <1>3, <2>3, <2>4, <2>7 DEF InStep, Intact
  <2>9. InStep(longer, session', passing')
    <3>1. Len(longer.saw) = n /\ Len(longer.trace.packets) = n + 1
          /\ longer.trace.packets[n + 1] = passing'[1].packet
      BY <1>3, <1>5, <2>2, <2>3, <2>4
    <3>2. passing' # << >>
      BY <1>1
    <3> HIDE DEF n
    <3> QED BY <2>1, <2>8, <3>1, <3>2 DEF InStep
  <2> QED BY <1>6, <2>1, <2>6, <2>9
<1> QED BY <1>7, <1>8

(* Only a packet that is decoded under the header's catalog leaves the     *)
(* recording intact.                                                       *)
LEMMA DecodeAtInv == ASSUME Inv, DecodeAt PROVE Inv'
<1> DEFINE recording == builder[1]
           packets   == recording.trace.packets
           m         == Len(recording.saw)
           packet    == passing[1].packet
           catalog   == registry.catalog
           given     == [payload |-> packet.payload,
                         answer |-> Answer(catalog, session, packet)]
           stray     == IF catalog = recording.trace.catalog_hash THEN recording.stray
                        ELSE recording.stray \cup {Len(packets)}
           new       == [recording EXCEPT !.saw = Append(@, given), !.stray = stray]
<1>1. /\ builder = <<recording>> /\ passing # << >> /\ passing[1] \in Passing
      /\ Recorded(recording) /\ InStep(recording, session, passing)
      /\ session' = Append(session, Taken(catalog, packet)) /\ passing' = << >>
      /\ builder' = IF ~passing[1].kept THEN builder ELSE <<new>>
  BY DEF DecodeAt, Inv, HostInv
<1>2. packet \in Packets /\ catalog \in Catalogs /\ session \in Seq(Takens)
  BY <1>1 DEF Passing, Inv, RegistryInv, HostInv
<1>3. Taken(catalog, packet) \in Takens /\ given \in Givens
  <2>1. Taken(catalog, packet) \in Takens
    <3> HIDE DEF catalog, packet
    <3> QED BY <1>2, TakenType
  <2>2. packet.payload \in Bytes
    BY <1>2 DEF Packets
  <2>3. Answer(catalog, session, packet) \in Answers
    BY <1>2 DEF Answers
  <2> QED BY <2>1, <2>2, <2>3 DEF Givens
<1>4. session' \in Seq(Takens)
  <2> HIDE DEF catalog, packet
  <2> QED BY <1>1, <1>2, <1>3
<1>5. /\ packets \in Seq(Packets) /\ recording.trace \in TraceFiles
      /\ recording.saw \in Seq(Givens) /\ m \in Nat /\ recording.stray \subseteq Nat
      /\ recording.trace.catalog_hash \in Catalogs
  BY <1>1 DEF Recorded, Recordings, TraceFiles
<1>6. ASSUME NEW rec, builder' = <<rec>>, Recorded(rec), InStep(rec, session', << >>)
      PROVE  Inv'
  <2>1. HostInv'
    BY <1>1, <1>4, <1>6 DEF HostInv
  <2> QED BY <2>1 DEF Inv, DecodeAt, RegistryInv, FileInv, ToolInv, GoldenInv
<1>7. CASE ~passing[1].kept
  <2>1. Len(packets) = m /\ m + 1 \in recording.stray
    BY <1>1, <1>7 DEF InStep
  <2>2. ~Intact(recording, m + 1)
    BY <1>5, <2>1 DEF Intact
  <2>3. InStep(recording, session', << >>)
    BY <2>1, <2>2 DEF InStep
  <2> QED BY <1>1, <1>6, <1>7, <2>3
<1>8. CASE passing[1].kept
  <2>1. Len(packets) = m + 1 /\ packets[m + 1] = packet
    BY <1>1, <1>8 DEF InStep
  <2>2. builder' = <<new>>
    BY <1>1, <1>8
  <2>3. /\ new.trace = recording.trace /\ new.saw = Append(recording.saw, given)
        /\ new.stray = stray
    BY <1>1 DEF Recorded, Recordings
  <2>4. stray \subseteq Nat /\ recording.stray \subseteq stray
    BY <1>5, <2>1
  <2>5. new \in Recordings
    <3> HIDE DEF given, stray
    <3>1. Append(recording.saw, given) \in Seq(Givens)
      BY <1>3, <1>5
    <3> QED BY <1>1, <2>4, <3>1 DEF Recorded, Recordings
  <2>6. /\ Len(new.saw) = m + 1 /\ new.saw[m + 1] = given
        /\ \A i \in 1 .. m : new.saw[i] = recording.saw[i]
    <3> HIDE DEF given, new
    <3> QED BY <1>3, <1>5, <2>3
  <2>7. ASSUME Intact(new, m + 1)
        PROVE  /\ catalog = recording.trace.catalog_hash
               /\ session = Before(catalog, packets, m + 1)
    <3>1. catalog = recording.trace.catalog_hash
      <4>1. m + 1 \in 1 .. m + 1
        BY <1>5
      <4>2. m + 1 \notin stray
        <5> HIDE DEF m, stray, new
        <5> QED BY <2>3, <2>7, <4>1 DEF Intact
      <4> QED BY <2>1, <4>2
    <3>2. Intact(recording, m + 1)
      BY <2>3, <2>4, <2>7 DEF Intact
    <3> QED BY <1>1, <3>1, <3>2 DEF InStep
  <2>8. ASSUME NEW i \in 1 .. m + 1, Intact(new, i)
        PROVE  ReplayOf(new.trace)[i] = new.saw[i].answer
    <3>1. CASE i \in 1 .. m
      <4>1. Intact(recording, i)
        BY <2>3, <2>4, <2>8 DEF Intact
      <4>2. ReplayOf(recording.trace)[i] = recording.saw[i].answer
        <5>1. i \in DOMAIN recording.saw
          BY <1>5, <3>1
        <5> QED BY <1>1, <4>1, <5>1 DEF Recorded, AsTheHostSaw
      <4> HIDE DEF new
      <4> QED BY <2>3, <2>6, <3>1, <4>2
    <3>2. CASE i = m + 1
      <4>1. ReplayOf(recording.trace)[m + 1]
              = Answer(recording.trace.catalog_hash,
                       Before(recording.trace.catalog_hash, packets, m + 1), packet)
        BY <1>5, <2>1 DEF ReplayOf, Replay
      <4>2. given.answer = Answer(catalog, session, packet)
        OBVIOUS
      <4>3. /\ catalog = recording.trace.catalog_hash
            /\ session = Before(catalog, packets, m + 1)
        BY <2>7, <2>8, <3>2
      <4> HIDE DEF new, given, m, packet, packets, catalog
      <4> QED BY <2>3, <2>6, <3>2, <4>1, <4>2, <4>3
    <3> HIDE DEF new, m
    <3> QED BY <1>5, <3>1, <3>2
  <2>9. SameFields(packet.payload, packet.payload)
    BY DEF SameFields
  <2>10. Recorded(new)
    <3>1. DOMAIN new.saw = 1 .. m + 1 /\ DOMAIN new.trace.packets = 1 .. m + 1
      <4>1. new.saw \in Seq(Givens)
        BY <2>5 DEF Recordings
      <4> HIDE DEF new
      <4> QED BY <1>5, <2>1, <2>3, <2>6, <4>1
    <3>2. AsTheHostSaw(ReplayOf(new.trace), new)
      <4> HIDE DEF new
      <4> QED BY <2>8, <3>1 DEF AsTheHostSaw
    <3>3. ASSUME NEW i \in 1 .. m + 1
          PROVE  SameFields(new.trace.packets[i].payload, new.saw[i].payload)
      <4>1. CASE i = m + 1
        <5>1. new.trace.packets[i].payload = packet.payload /\ new.saw[i] = given
          <6> HIDE DEF new, given, m
          <6> QED BY <2>1, <2>3, <2>6, <4>1
        <5> QED BY <2>9, <5>1
      <4>2. CASE i \in 1 .. m
        <5>1. i \in DOMAIN recording.saw
          BY <1>5, <4>2
        <5> HIDE DEF new
        <5> QED BY <1>1, <2>3, <2>6, <4>2, <5>1 DEF Recorded
      <4> HIDE DEF new, m
      <4> QED BY <1>5, <4>1, <4>2
    <3> HIDE DEF new
    <3> QED BY <2>5, <3>1, <3>2, <3>3 DEF Recorded
  <2>11. ASSUME Intact(new, (m + 1) + 1)
         PROVE  session' = Before(new.trace.catalog_hash, packets, (m + 1) + 1)
    <3>1. Intact(new, m + 1)
      BY <1>5, <2>11 DEF Intact
    <3>2. catalog = recording.trace.catalog_hash /\ session = Before(catalog, packets, m + 1)
      BY <2>7, <3>1
    <3>3. Before(catalog, packets, (m + 1) + 1)
            = Append(Before(catalog, packets, m + 1), Taken(catalog, packets[m + 1]))
      <4>1. m + 1 \in Nat \ {0} /\ m + 1 <= Len(packets)
        BY <1>5, <2>1
      <4> HIDE DEF m, packets, catalog
      <4> QED BY <1>2, <1>5, <4>1, BeforeNext
    <3> HIDE DEF new, m, packets, catalog, packet
    <3> QED BY <1>1, <2>1, <2>3, <3>2, <3>3
  <2>12. InStep(new, session', << >>)
    <3> HIDE DEF new
    <3> QED BY <2>1, <2>3, <2>6, <2>11 DEF InStep
  <2> HIDE DEF new
  <2> QED BY <1>6, <2>2, <2>10, <2>12
<1> QED BY <1>7, <1>8

(* What the host closes holds every packet that was answered.              *)
LEMMA CloseInv == ASSUME Inv, Close PROVE Inv'
<1>1. builder = <<builder[1]>> /\ Recorded(builder[1]) /\ Len(builder[1].trace.packets) = Len(builder[1].saw)
  BY DEF Close, Inv, HostInv, InStep
<1>2. Complete(builder[1])
  BY <1>1 DEF Complete, Recorded, Recordings, TraceFiles
<1>3. file' = builder /\ builder' = << >> /\ passing' = << >> /\ session' = session
  BY DEF Close
<1>4. FileInv'
  BY <1>1, <1>2, <1>3 DEF FileInv
<1>5. HostInv'
  BY <1>3 DEF Inv, HostInv
<1> QED BY <1>4, <1>5 DEF Inv, Close, RegistryInv, ToolInv, GoldenInv

LEMMA HostDiesInv == ASSUME Inv, HostDies PROVE Inv'
<1>1. HostInv'
  BY DEF HostDies, HostInv
<1> QED BY <1>1 DEF Inv, HostDies, RegistryInv, FileInv, ToolInv, GoldenInv

LEMMA ReloadInv == ASSUME Inv, NEW c \in Catalogs, Reload(c) PROVE Inv'
BY DEF Inv, Reload, RegistryInv, HostInv, FileInv, ToolInv, GoldenInv

LEMMA ScrubInv ==
  ASSUME Inv, NEW i \in 1 .. MaxPackets, NEW first \in 1 .. 3, NEW last \in 1 .. 3,
         Scrub(i, first, last)
  PROVE  Inv'
<1> DEFINE old     == file[1]
           packets == old.trace.packets
           was     == packets[i].payload
           payload == ScrubAsciiRange(was, first, last)
           new     == [old EXCEPT !.trace.packets[i].payload = payload,
                                  !.stray = @ \cup {i}]
<1>1. /\ Complete(old) /\ i \in DOMAIN packets /\ last <= Len(was) /\ file' = <<new>>
  BY DEF Scrub, Inv, FileInv
<1>2. /\ old \in Recordings /\ old.trace \in TraceFiles /\ packets \in Seq(Packets)
      /\ packets[i] \in Packets /\ was \in Bytes /\ old.stray \subseteq Nat
  <2>1. old \in Recordings /\ old.trace \in TraceFiles /\ old.stray \subseteq Nat
    BY <1>1 DEF Complete, Recorded, Recordings
  <2>2. packets \in Seq(Packets)
    BY <2>1 DEF TraceFiles
  <2>3. packets[i] \in Packets
    BY <1>1, <2>2
  <2> QED BY <2>1, <2>2, <2>3 DEF Packets
<1>3. payload \in Bytes /\ SameFields(payload, was)
  <2>1. first \in Nat \ {0} /\ last \in Nat
    OBVIOUS
  <2> HIDE DEF was
  <2> QED BY <1>1, <1>2, <2>1, ScrubKeepsFields
<1> DEFINE packet == [packets[i] EXCEPT !.payload = payload]
           more   == [packets EXCEPT ![i] = packet]
<1>4. packet \in Packets /\ packet.payload = payload
  BY <1>2, <1>3 DEF Packets
<1>5. more \in Seq(Packets) /\ DOMAIN more = DOMAIN packets /\ more[i] = packet
      /\ \A j \in DOMAIN packets \ {i} : more[j] = packets[j]
  <2> HIDE DEF packets, packet
  <2> QED BY <1>1, <1>2, <1>4
<1>6. /\ new.trace = [old.trace EXCEPT !.packets = more]
      /\ new.saw = old.saw /\ new.stray = old.stray \cup {i} /\ new \in Recordings
  <2>1. new = [old EXCEPT !.trace.packets = more, !.stray = @ \cup {i}]
    OBVIOUS
  <2> HIDE DEF more, new
  <2>2. [old.trace EXCEPT !.packets = more] \in TraceFiles
    BY <1>2, <1>5 DEF TraceFiles
  <2>3. old.stray \cup {i} \subseteq Nat
    BY <1>2
  <2> QED BY <1>2, <2>1, <2>2, <2>3 DEF Recordings
<1>7. new.trace.packets = more /\ new.trace.catalog_hash = old.trace.catalog_hash
  <2> HIDE DEF more, new
  <2> QED BY <1>2, <1>6 DEF TraceFiles
<1>8. DOMAIN old.saw = DOMAIN packets /\ DOMAIN packets = 1 .. Len(packets)
  BY <1>1, <1>2 DEF Complete
<1> HIDE DEF new, more, packet, payload
<1>9. ASSUME NEW k \in DOMAIN new.saw, Intact(new, k)
      PROVE  ReplayOf(new.trace)[k] = new.saw[k].answer
  <2>1. k \in Nat \ {0} /\ k \in DOMAIN packets /\ k \in DOMAIN more /\ k < i
    <3>1. k \in 1 .. Len(packets)
      BY <1>6, <1>8
    <3>2. i \notin 1 .. k
      BY <1>6, <1>9 DEF Intact
    <3> QED BY <1>2, <1>5, <1>8, <3>1, <3>2
  <2>2. \A j \in 1 .. k : new.trace.packets[j] = packets[j]
    BY <1>2, <1>5, <1>7, <1>8, <2>1
  <2>3. ReplayOf(new.trace)[k] = ReplayOf(old.trace)[k]
    <3>1. k \in DOMAIN new.trace.packets /\ k \in DOMAIN old.trace.packets
      BY <1>7, <2>1
    <3> HIDE DEF old
    <3> QED BY <1>7, <2>1, <2>2, <3>1, ReplayPrefix DEF ReplayOf, packets
  <2>4. Intact(old, k)
    BY <1>6, <1>9 DEF Intact
  <2> QED BY <1>1, <1>6, <2>3, <2>4 DEF Complete, Recorded, AsTheHostSaw
<1>10. ASSUME NEW k \in DOMAIN new.saw
       PROVE  SameFields(new.trace.packets[k].payload, new.saw[k].payload)
  <2>1. SameFields(packets[k].payload, old.saw[k].payload)
    BY <1>1, <1>6 DEF Complete, Recorded
  <2>2. CASE k = i
    <3>1. SameFields(was, old.saw[i].payload)
      BY <2>1, <2>2
    <3>2. new.trace.packets[k].payload = payload
      BY <1>4, <1>5, <1>7, <2>2
    <3> HIDE DEF was
    <3>3. SameFields(payload, old.saw[i].payload)
      BY <1>3, <3>1 DEF SameFields
    <3> QED BY <1>6, <2>2, <3>2, <3>3
  <2>3. CASE k # i
    <3>1. new.trace.packets[k] = packets[k]
      BY <1>5, <1>6, <1>7, <1>8, <2>3
    <3> QED BY <1>6, <2>1, <3>1
  <2> QED BY <2>2, <2>3
<1>11. Complete(new)
  <2>1. DOMAIN new.saw = DOMAIN new.trace.packets
    BY <1>5, <1>6, <1>7, <1>8
  <2>2. AsTheHostSaw(ReplayOf(new.trace), new)
    BY <1>9 DEF AsTheHostSaw
  <2> QED BY <1>6, <1>10, <2>1, <2>2 DEF Complete, Recorded
<1>12. FileInv'
  BY <1>1, <1>11 DEF FileInv
<1> QED BY <1>12 DEF Inv, Scrub, hostVars, RegistryInv, HostInv, ToolInv, GoldenInv

LEMMA LoadInv ==
  ASSUME Inv, NEW t \in Tools, NEW command \in {"replay", "check"}, NEW c \in Catalogs,
         Load(t, command, c)
  PROVE  Inv'
<1>1. Complete(file[1])
  BY DEF Load, Inv, FileInv
<1>2. ASSUME NEW state, tool' = [tool EXCEPT ![t] = state], state.at # "idle" => Loaded(state)
      PROVE  ToolInv'
  BY <1>2 DEF Inv, ToolInv
<1>3. ToolInv'
  <2>1. CASE ~Valid(file[1].trace, c)
    <3>1. tool' = [tool EXCEPT ![t] = Idle(FALSE)]
      BY <2>1 DEF Load, Exit
    <3> QED BY <1>2, <3>1 DEF Idle
  <2>2. CASE Valid(file[1].trace, c)
    <3> DEFINE state == [at |-> command, passed |-> FALSE, from |-> file[1],
                         golden |-> GoldenOf(file[1].trace, c)]
    <3>1. tool' = [tool EXCEPT ![t] = state]
      BY <2>2 DEF Load
    <3>2. Loaded(state)
      BY <1>1, <2>2 DEF Valid, Loaded, Commands
    <3> HIDE DEF state
    <3> QED BY <1>2, <3>1, <3>2
  <2> QED BY <2>1, <2>2
<1> QED BY <1>3 DEF Inv, Load, hostVars, RegistryInv, HostInv, FileInv, GoldenInv

LEMMA ToolStepsInv ==
  ASSUME Inv, NEW t \in Tools, Create(t) \/ Write(t) \/ Check(t) \/ ToolDies(t)
  PROVE  Inv'
<1>1. UNCHANGED <<hostVars, file>>
  BY DEF Create, Write, Check, ToolDies
<1>2. RegistryInv' /\ HostInv' /\ FileInv'
  BY <1>1 DEF Inv, hostVars, RegistryInv, HostInv, FileInv
<1>3. tool[t].at # "idle" => Loaded(tool[t])
  BY DEF Inv, ToolInv
<1>4. ASSUME NEW passed, Exit(t, passed) PROVE ToolInv'
  BY <1>4 DEF Inv, ToolInv, Exit, Idle
<1>5. CASE Create(t)
  <2>1. tool' = [tool EXCEPT ![t] = [tool[t] EXCEPT !.at = "writing"]]
    BY <1>5 DEF Create
  <2> DEFINE state == [tool[t] EXCEPT !.at = "writing"]
  <2>2. /\ tool[t].at = "replay" /\ Loaded(tool[t])
    BY <1>3, <1>5 DEF Create, At
  <2>3. Loaded(state)
    BY <2>1, <2>2 DEF Loaded, Commands
  <2>4. ToolInv'
    <3> HIDE DEF state
    <3> QED BY <2>1, <2>3 DEF Inv, ToolInv, state
  <2>5. GoldenInv'
    BY <1>5 DEF Create, GoldenInv
  <2> QED BY <1>2, <2>4, <2>5 DEF Inv
<1>6. CASE Write(t)
  <2>1. Loaded(tool[t])
    BY <1>3, <1>6 DEF Write, At
  <2>2. GoldenInv'
    BY <1>6, <2>1 DEF Write, GoldenInv, Loaded
  <2> QED BY <1>2, <1>4, <1>6, <2>2 DEF Inv, Write
<1>7. CASE Check(t) \/ ToolDies(t)
  <2>1. golden' = golden /\ \E passed : Exit(t, passed)
    BY <1>7 DEF Check, ToolDies
  <2> QED BY <1>2, <1>4, <2>1 DEF Inv, GoldenInv
<1> QED BY <1>5, <1>6, <1>7

LEMMA NextInv == Inv /\ [Next]_vars => Inv'
<1> SUFFICES ASSUME Inv, [Next]_vars PROVE Inv'
  OBVIOUS
<1>1. CASE UNCHANGED vars
  BY <1>1 DEF vars, hostVars, Inv, RegistryInv, HostInv, FileInv, ToolInv, GoldenInv
<1>2. CASE Next
  BY <1>2, OpenInv, DecodeAtInv, CloseInv, HostDiesInv, PushInv, ReloadInv, ScrubInv, LoadInv,
     ToolStepsInv DEF Next
<1> QED BY <1>1, <1>2

(* What is known of the recording host, the files and the tools at all     *)
(* times: sessions, traces and answers on their way belong together.       *)
THEOREM InvCorrect == Spec => []Inv
BY InitInv, NextInv, PTL DEF Spec

-----------------------------------------------------------------------------
(* Theorems                                                                *)

(* Whatever a session answers, and for any catalogs, packets, reloads and  *)
(* scrubs: as far as a trace on disk is intact, it replays to what the     *)
(* host's session answered; it has one answer for each packet, and no      *)
(* scrub has moved a field (replay, TraceBuilder and scrub_ascii_range,    *)
(* seq-trace lib.rs).                                                      *)
THEOREM ReplayCorrect == Spec => []ReplayIsWhatTheHostSaw
<1>1. Inv => ReplayIsWhatTheHostSaw
  BY DEF Inv, FileInv, Complete, Recorded, ReplayOf, Valid, ReplayIsWhatTheHostSaw
<1> QED BY <1>1, InvCorrect, PTL

(* A check that passes has compared equal batches.                         *)
LEMMA CheckStep ==
  ASSUME Inv, [Next]_vars, NEW t \in Tools, tool[t].at = "check", tool'[t].passed
  PROVE  LET read    == tool[t].from
             batches == golden.content.batches
         IN  /\ DOMAIN batches = DOMAIN read.trace.packets
             /\ AsTheHostSaw(batches, read)
             /\ golden.from.stray = {} =>
                  Replay(read.trace, read.trace.catalog_hash)
                    = [i \in DOMAIN golden.from.saw |-> golden.from.saw[i].answer]
<1> DEFINE read    == tool[t].from
           made    == golden.from
           batches == golden.content.batches
<1>1. Loaded(tool[t])
  BY DEF Inv, ToolInv
<1>2. Check(t)
  <2>1. tool'[t] # tool[t]
    BY <1>1 DEF Loaded
  <2>2. PICK u \in Tools :
          \/ \E command \in {"replay", "check"}, c \in Catalogs : Load(u, command, c)
          \/ Create(u) \/ Write(u) \/ Check(u) \/ ToolDies(u)
    BY <2>1 DEF Next, vars, Open, DecodeAt, Close, HostDies, Push, Reload, Scrub
  <2>3. u = t
    BY <2>1, <2>2 DEF Inv, ToolInv, Load, Create, Write, Check, ToolDies, Exit
  <2>4. ~ToolDies(t)
    BY DEF ToolDies, Exit, Idle, Inv, ToolInv
  <2> QED BY <2>2, <2>3, <2>4 DEF Load, Create, Write, At
<1>3. golden.state = "whole" /\ Matches(golden.content, tool[t].golden)
  BY <1>2 DEF Check, Exit, Idle, Inv, ToolInv
<1>4. /\ Complete(read) /\ tool[t].golden.batches = ReplayOf(read.trace)
      /\ Complete(made) /\ batches = ReplayOf(made.trace)
  BY <1>1, <1>3 DEF Loaded, Inv, GoldenInv, GoldenOf, ReplayOf
<1> HIDE DEF read, made, batches
<1>5. /\ ReplayOf(read.trace) \in Seq(Answers)
      /\ DOMAIN ReplayOf(read.trace) = DOMAIN read.trace.packets
      /\ batches \in Seq(Answers) /\ DOMAIN batches = DOMAIN made.trace.packets
  <2>1. read.trace \in TraceFiles /\ made.trace \in TraceFiles
    BY <1>4 DEF Complete, Recorded, Recordings
  <2> QED BY <1>4, <2>1, ReplayType
<1>6. batches = ReplayOf(read.trace)
  <2>1. Len(batches) = Len(ReplayOf(read.trace))
        /\ \A i \in DOMAIN batches : batches[i] = ReplayOf(read.trace)[i]
    BY <1>3, <1>4 DEF Matches, batches
  <2> QED BY <1>5, <2>1, SeqEqual
<1>7. AsTheHostSaw(batches, read)
  BY <1>4, <1>6 DEF Complete, Recorded
<1>8. ASSUME made.stray = {}
      PROVE  batches = [i \in DOMAIN made.saw |-> made.saw[i].answer]
  <2>1. AsTheHostSaw(batches, made) /\ DOMAIN made.saw = DOMAIN batches
    BY <1>4, <1>5 DEF Complete, Recorded
  <2>2. \A i \in DOMAIN batches : batches[i] = made.saw[i].answer
    BY <1>8, <2>1 DEF AsTheHostSaw, Intact
  <2>3. batches = [i \in DOMAIN batches |-> batches[i]]
    BY <1>5
  <2> QED BY <2>1, <2>2, <2>3
<1> QED BY <1>5, <1>6, <1>7, <1>8 DEF read, made, batches, ReplayOf

(* For any tools that run side by side and are killed at any point, and    *)
(* whatever a session answers, a check that passes compared one batch for  *)
(* each packet, as the host saw it as far as the trace is intact; against  *)
(* a golden of an untouched recording it shows that no answer changed      *)
(* (check_command and replay_command, main.rs:63-98).                      *)
THEOREM CheckCorrect == Spec => CheckedGoldenIsWhatTheHostSaw
<1>1. Inv /\ [Next]_vars =>
        [\A t \in Tools :
           tool[t].at = "check" /\ tool'[t].passed =>
             LET read    == tool[t].from
                 batches == golden.content.batches
             IN  /\ DOMAIN batches = DOMAIN read.trace.packets
                 /\ AsTheHostSaw(batches, read)
                 /\ golden.from.stray = {} =>
                      Replay(read.trace, read.trace.catalog_hash)
                        = [i \in DOMAIN golden.from.saw |-> golden.from.saw[i].answer]]_vars
  BY CheckStep
<1> QED BY <1>1, InvCorrect, PTL DEF Spec, CheckedGoldenIsWhatTheHostSaw
===============================================================================
