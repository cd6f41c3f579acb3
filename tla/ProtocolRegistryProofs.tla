------------------------ MODULE ProtocolRegistryProofs ------------------------
(***************************************************************************)
(* What a generation number means, and when an older file may be in use,   *)
(* for any number of threads, files, catalogs and reloads: of these Parse  *)
(* is left unexpanded.  Then what it makes of a file, row by row, hence    *)
(* what the catalog in use says of the file it came from.  Last, that the  *)
(* registry with its sessions is a CatalogService, and never goes back.    *)
(***************************************************************************)
EXTENDS ProtocolRegistry, WellFoundedInduction, TLAPS

-----------------------------------------------------------------------------
(* The inductive invariant                                                 *)

Versions == [file : Files, edit : Nat]
Tables   == {Parse(file).table : file \in Files}
Carried  == [busy : {TRUE}, backend : Backends, catalog : Tables, seen : Nat,
             from : Versions]
Batches  == {Batch(g, c, st, o) : g \in Nat, c \in Tables, st \in Streams, o \in Opcodes}
Entries  == [generation : Nat, catalog : Tables]
States   == [pc : {"new", "ready", "decoding", "refused"}, header : Seq(Tables),
             snapshot : Seq(Entries), batches : Seq(Batches)]

Types ==
  /\ disk \in [Backends -> Versions]
  /\ active \in [Backends -> Entries]
  /\ reload \in [Reloaders -> {Idle} \cup Carried]
  /\ session \in [Sessions -> States]
  /\ installed \in [Backends -> Seq(Versions)]
  /\ overlap \subseteq Backends

(* An entry of the registry that is, or once was, in use for a backend.    *)
IsGeneration(from, entry) ==
  /\ entry.generation \in DOMAIN from
  /\ entry.catalog = Parse(from[entry.generation].file).table

ActiveIsNewest ==
  \A b \in Backends :
    /\ Len(installed[b]) > 0
    /\ active[b].generation = Len(installed[b])
    /\ IsGeneration(installed[b], active[b])

CarriedIsRead ==
  \A r \in Reloaders :
    reload[r].busy => reload[r].catalog = Parse(reload[r].from.file).table

SnapshotsAreGenerations ==
  \A s \in Sessions :
    session[s].pc = "decoding" =>
      /\ Len(session[s].snapshot) = 1
      /\ IsGeneration(installed[SessionBackend[s]], session[s].snapshot[1])

GenerationInv ==
  /\ ActiveIsNewest
  /\ CarriedIsRead
  /\ SnapshotsAreGenerations
  /\ BatchesNameTheirGeneration

(* Whose file is the one on disk: some generation's, or some reload's.     *)
Current(b) ==
  \/ \E g \in DOMAIN installed[b] : installed[b][g] = disk[b]
  \/ \E r \in Busy(b) : reload[r].from = disk[b]

NothingIsNewer ==
  \A b \in Backends :
    /\ \A g \in DOMAIN installed[b] : installed[b][g].edit <= disk[b].edit
    /\ \A r \in Busy(b) : reload[r].from.edit <= disk[b].edit

AllCarryTheFile ==
  \A b \in Backends \ overlap :
    Current(b) => \A r \in Busy(b) : reload[r].from = disk[b]

OverlapInv == NothingIsNewer /\ AllCarryTheFile /\ OlderFileOnlyAfterOverlap

Inv == Types /\ GenerationInv /\ OverlapInv

-----------------------------------------------------------------------------
(* Types                                                                   *)

LEMMA InitTypes == Init => Types
<1> SUFFICES ASSUME Init PROVE Types
  OBVIOUS
<1>1. FirstFile \in Versions
  BY FirstAssumption DEF FirstFile, Versions
<1>2. Parse(First).table \in Tables
  BY FirstAssumption DEF Tables
<1>3. active \in [Backends -> Entries]
  BY <1>2 DEF Init, Entries
<1>4. NewSession \in States
  BY DEF NewSession, States
<1> QED BY <1>1, <1>3, <1>4 DEF Init, Types

LEMMA TypesPreserved == Types /\ SnapshotsAreGenerations /\ [Next]_vars => Types'
<1> SUFFICES ASSUME Types, SnapshotsAreGenerations, [Next]_vars PROVE Types'
  OBVIOUS
<1> USE DEF Types
<1>1. ASSUME NEW b \in Backends, NEW file \in Files, Edit(b, file) PROVE Types'
  <2>1. [file |-> file, edit |-> disk[b].edit + 1] \in Versions
    BY <1>1 DEF Versions
  <2> QED BY <1>1, <2>1 DEF Edit
<1>2. ASSUME NEW r \in Reloaders, NEW b \in Backends, NEW readable \in BOOLEAN,
             ReadCatalog(r, b, readable)
      PROVE  Types'
  <2>1. Parsed(b, disk[b]) \in Carried
    BY DEF Parsed, Carried, Tables, Versions, Entries
  <2>2. overlap' \subseteq Backends
    BY <1>2 DEF ReadCatalog, MarkOverlap
  <2> QED BY <1>2, <2>1, <2>2 DEF ReadCatalog
<1>3. ASSUME NEW r \in Reloaders, Replace(r) PROVE Types'
  <2>1. reload[r] \in Carried
    BY <1>3 DEF Replace, Idle
  <2>2. [generation |-> NextGeneration(r), catalog |-> reload[r].catalog] \in Entries
    BY <2>1 DEF NextGeneration, Entries, Carried
  <2>3. Append(installed[reload[r].backend], reload[r].from) \in Seq(Versions)
    BY <2>1 DEF Carried
  <2> QED BY <1>3, <2>1, <2>2, <2>3 DEF Replace, Carried
<1>4. ASSUME NEW s \in Sessions, Start(s) PROVE Types'
  BY <1>4 DEF Start, States
<1>5. ASSUME NEW s \in Sessions, TakeSnapshot(s) PROVE Types'
  <2>1. Snapshot(s) \in Entries
    BY BackendAssumption DEF Snapshot
  <2>2. <<Snapshot(s)>> \in Seq(Entries)
    BY <2>1
  <2> QED BY <1>5, <2>2 DEF TakeSnapshot, States
<1>6. ASSUME NEW s \in Sessions, NEW g \in 1 .. MaxGeneration, Validate(s, g) PROVE Types'
  <2> DEFINE header == Parse(installed[SessionBackend[s]][g].file).table
  <2>1. installed[SessionBackend[s]] \in Seq(Versions)
    BY BackendAssumption
  <2>2. installed[SessionBackend[s]][g] \in Versions
    BY <1>6, <2>1 DEF Validate
  <2>3. <<header>> \in Seq(Tables)
    BY <2>2 DEF Tables, Versions
  <2> DEFINE pc == IF Snapshot(s).catalog = header THEN "ready" ELSE "refused"
  <2>4. session' = [session EXCEPT ![s].pc = pc, ![s].header = <<header>>]
    BY <1>6 DEF Validate
  <2>5. pc \in {"ready", "refused"}
    OBVIOUS
  <2> HIDE DEF pc, header
  <2>6. [session[s] EXCEPT !.pc = pc, !.header = <<header>>] \in States
    BY <2>3, <2>5 DEF States
  <2>7. session' \in [Sessions -> States]
    BY <2>4, <2>6
  <2> QED BY <1>6, <2>7 DEF Validate
<1>7. ASSUME NEW s \in Sessions, NEW st \in Streams, NEW o \in Opcodes, Decode(s, st, o)
      PROVE  Types'
  <2>1. session[s].snapshot[1] \in Entries
    BY <1>7 DEF Decode, SnapshotsAreGenerations, States
  <2>2. Batch(session[s].snapshot[1].generation, session[s].snapshot[1].catalog, st, o)
          \in Batches
    BY <2>1 DEF Batches, Entries
  <2> DEFINE more == Append(session[s].batches,
                            Batch(session[s].snapshot[1].generation,
                                  session[s].snapshot[1].catalog, st, o))
  <2>3. more \in Seq(Batches)
    BY <2>2 DEF States
  <2>4. << >> \in Seq(Entries)
    OBVIOUS
  <2>5. session' = [session EXCEPT ![s].pc = "ready", ![s].snapshot = <<>>, ![s].batches = more]
    BY <1>7 DEF Decode
  <2> HIDE DEF more
  <2>6. [session[s] EXCEPT !.pc = "ready", !.snapshot = <<>>, !.batches = more] \in States
    BY <2>3, <2>4 DEF States
  <2>7. session' \in [Sessions -> States]
    BY <2>5, <2>6
  <2> QED BY <1>7, <2>7 DEF Decode
<1>8. CASE UNCHANGED vars
  BY <1>8 DEF vars
<1> QED BY <1>1, <1>2, <1>3, <1>4, <1>5, <1>6, <1>7, <1>8 DEF Next
-----------------------------------------------------------------------------
(* Generations                                                             *)

(* Every entry that was in use stays what its generation says.             *)
LEMMA GenerationsStay ==
  ASSUME NEW b \in Backends, Types, NEW entry, IsGeneration(installed[b], entry),
         \/ installed'[b] = installed[b]
         \/ \E from \in Versions : installed'[b] = Append(installed[b], from)
  PROVE  IsGeneration(installed'[b], entry)
<1>1. installed[b] \in Seq(Versions)
  BY DEF Types
<1>2. CASE installed'[b] = installed[b]
  BY <1>2 DEF IsGeneration
<1>3. ASSUME NEW from \in Versions, installed'[b] = Append(installed[b], from)
      PROVE  IsGeneration(installed'[b], entry)
  <2>1. /\ entry.generation \in DOMAIN installed'[b]
        /\ installed'[b][entry.generation] = installed[b][entry.generation]
    BY <1>1, <1>3 DEF IsGeneration
  <2> QED BY <2>1 DEF IsGeneration
<1> QED BY <1>2, <1>3

LEMMA InitGenerations == Init => GenerationInv
<1> SUFFICES ASSUME Init PROVE GenerationInv
  OBVIOUS
<1>1. ActiveIsNewest
  BY DEF Init, ActiveIsNewest, IsGeneration, FirstFile
<1>2. CarriedIsRead
  BY DEF Init, CarriedIsRead, Idle
<1>3. SnapshotsAreGenerations
  BY DEF Init, SnapshotsAreGenerations, NewSession
<1>4. BatchesNameTheirGeneration
  BY DEF Init, BatchesNameTheirGeneration, NewSession
<1> QED BY <1>1, <1>2, <1>3, <1>4 DEF GenerationInv

(* What a replacement installs is what was read from the file it names.    *)
LEMMA ReplaceKeepsNewest ==
  ASSUME Types, GenerationInv, NEW r \in Reloaders, Replace(r)
  PROVE  ActiveIsNewest'
<1>1. reload[r] \in Carried
  BY DEF Types, Replace, Idle
<1> DEFINE b == reload[r].backend
           from == reload[r].from
<1>2. b \in Backends /\ from \in Versions
  BY <1>1 DEF Carried
<1>3. installed[b] \in Seq(Versions) /\ Len(installed[b]) \in Nat
  BY <1>2 DEF Types
<1>4. /\ active'[b] = [generation |-> Len(installed[b]) + 1, catalog |-> Parse(from.file).table]
      /\ installed'[b] = Append(installed[b], from)
  BY <1>2 DEF Replace, Types, GenerationInv, ActiveIsNewest, CarriedIsRead, NextGeneration
<1>5. /\ Len(installed'[b]) = Len(installed[b]) + 1
      /\ installed'[b][Len(installed[b]) + 1] = from
      /\ Len(installed[b]) + 1 \in DOMAIN installed'[b]
  BY <1>2, <1>3, <1>4
<1>6. ASSUME NEW c \in Backends, c # b
      PROVE  active'[c] = active[c] /\ installed'[c] = installed[c]
  BY <1>6 DEF Replace, Types
<1> SUFFICES ASSUME NEW c \in Backends
             PROVE  /\ Len(installed'[c]) > 0
                    /\ active'[c].generation = Len(installed'[c])
                    /\ active'[c].generation \in DOMAIN installed'[c]
                    /\ active'[c].catalog
                         = Parse(installed'[c][active'[c].generation].file).table
  BY DEF ActiveIsNewest, IsGeneration
<1> HIDE DEF b, from
<1>7. CASE c = b
  BY <1>3, <1>4, <1>5, <1>7
<1>8. CASE c # b
  BY <1>6, <1>8 DEF GenerationInv, ActiveIsNewest, IsGeneration
<1> QED BY <1>7, <1>8

LEMMA InstalledGrows ==
  ASSUME Types, [Next]_vars, NEW b \in Backends
  PROVE  \/ installed'[b] = installed[b]
         \/ \E from \in Versions : installed'[b] = Append(installed[b], from)
<1>1. ASSUME NEW r \in Reloaders, Replace(r)
      PROVE  \/ installed'[b] = installed[b]
             \/ \E from \in Versions : installed'[b] = Append(installed[b], from)
  <2>1. reload[r] \in Carried
    BY <1>1 DEF Types, Replace, Idle
  <2>2. reload[r].from \in Versions
    BY <2>1 DEF Carried
  <2> QED BY <1>1, <2>2 DEF Replace, Types
<1>2. CASE UNCHANGED installed
  BY <1>2
<1> QED BY <1>1, <1>2
  DEF Next, Edit, ReadCatalog, Start, TakeSnapshot, Validate, Decode, vars

LEMMA OldOnesStay ==
  ASSUME Types, [Next]_vars, NEW b \in Backends, NEW entry, IsGeneration(installed[b], entry)
  PROVE  IsGeneration(installed'[b], entry)
BY InstalledGrows, GenerationsStay

LEMMA NewestPreserved == Types /\ GenerationInv /\ [Next]_vars => ActiveIsNewest'
<1> SUFFICES ASSUME Types, GenerationInv, [Next]_vars PROVE ActiveIsNewest'
  OBVIOUS
<1>1. ASSUME NEW r \in Reloaders, Replace(r) PROVE ActiveIsNewest'
  BY <1>1, ReplaceKeepsNewest
<1>2. CASE UNCHANGED <<active, installed>>
  BY <1>2 DEF GenerationInv, ActiveIsNewest, IsGeneration
<1> QED BY <1>1, <1>2
  DEF Next, Edit, ReadCatalog, Start, TakeSnapshot, Validate, Decode, vars

LEMMA CarriedPreserved == Types /\ GenerationInv /\ [Next]_vars => CarriedIsRead'
<1> SUFFICES ASSUME Types, GenerationInv, [Next]_vars,
                    NEW q \in Reloaders, reload'[q].busy
             PROVE  reload'[q].catalog = Parse(reload'[q].from.file).table
  BY DEF CarriedIsRead
<1>1. ASSUME NEW r \in Reloaders, NEW b \in Backends, NEW readable \in BOOLEAN,
             ReadCatalog(r, b, readable)
      PROVE  reload'[q].catalog = Parse(reload'[q].from.file).table
  <2>1. CASE q = r
    BY <1>1, <2>1 DEF ReadCatalog, Parsed, Types
  <2>2. CASE q # r
    BY <1>1, <2>2 DEF ReadCatalog, GenerationInv, CarriedIsRead, Types
  <2> QED BY <2>1, <2>2
<1>2. ASSUME NEW r \in Reloaders, Replace(r)
      PROVE  reload'[q].catalog = Parse(reload'[q].from.file).table
  BY <1>2 DEF Replace, Idle, GenerationInv, CarriedIsRead, Types
<1>3. CASE UNCHANGED reload
  BY <1>3 DEF GenerationInv, CarriedIsRead
<1> QED BY <1>1, <1>2, <1>3
  DEF Next, Edit, Start, TakeSnapshot, Validate, Decode, vars

(* A session is changed by its own thread only.                            *)
LEMMA OnlyItsOwnSteps ==
  ASSUME Types, [Next]_vars, NEW s \in Sessions, session'[s] # session[s]
  PROVE  \/ Start(s) \/ TakeSnapshot(s)
         \/ \E g \in 1 .. MaxGeneration : Validate(s, g)
         \/ \E st \in Streams, o \in Opcodes : Decode(s, st, o)
<1>1. session' # session
  OBVIOUS
<1>2. \E t \in Sessions :
        \/ Start(t) \/ TakeSnapshot(t)
        \/ \E g \in 1 .. MaxGeneration : Validate(t, g)
        \/ \E st \in Streams, o \in Opcodes : Decode(t, st, o)
  BY <1>1 DEF Next, Edit, ReadCatalog, Replace, vars
<1>3. PICK t \in Sessions :
        \/ Start(t) \/ TakeSnapshot(t)
        \/ \E g \in 1 .. MaxGeneration : Validate(t, g)
        \/ \E st \in Streams, o \in Opcodes : Decode(t, st, o)
  BY <1>2
<1>4. CASE t = s
  BY <1>3, <1>4
<1>5. CASE t # s
  BY <1>3, <1>5 DEF Start, TakeSnapshot, Validate, Decode, Types
<1> QED BY <1>4, <1>5

(* A snapshot is an entry in use when it is taken, and stays one that was. *)
LEMMA SnapshotsPreserved ==
  Types /\ GenerationInv /\ [Next]_vars => SnapshotsAreGenerations'
<1> SUFFICES ASSUME Types, GenerationInv, [Next]_vars,
                    NEW s \in Sessions, session'[s].pc = "decoding"
             PROVE  /\ Len(session'[s].snapshot) = 1
                    /\ IsGeneration(installed'[SessionBackend[s]], session'[s].snapshot[1])
  BY DEF SnapshotsAreGenerations
<1>b. SessionBackend[s] \in Backends
  BY BackendAssumption
<1>1. ASSUME session'[s] = session[s]
      PROVE  /\ Len(session'[s].snapshot) = 1
             /\ IsGeneration(installed'[SessionBackend[s]], session'[s].snapshot[1])
  <2>1. /\ Len(session[s].snapshot) = 1
        /\ IsGeneration(installed[SessionBackend[s]], session[s].snapshot[1])
    BY <1>1 DEF GenerationInv, SnapshotsAreGenerations
  <2>2. IsGeneration(installed'[SessionBackend[s]], session[s].snapshot[1])
    BY <1>b, <2>1, OldOnesStay
  <2> QED BY <1>1, <2>1, <2>2
<1>2. ASSUME TakeSnapshot(s)
      PROVE  /\ Len(session'[s].snapshot) = 1
             /\ IsGeneration(installed'[SessionBackend[s]], session'[s].snapshot[1])
  <2>1. session'[s].snapshot = <<active[SessionBackend[s]]>>
    BY <1>2 DEF TakeSnapshot, Snapshot, Types, States
  <2>2. IsGeneration(installed[SessionBackend[s]], active[SessionBackend[s]])
    BY <1>b DEF GenerationInv, ActiveIsNewest
  <2>3. installed' = installed
    BY <1>2 DEF TakeSnapshot
  <2> QED BY <2>1, <2>2, <2>3
<1>3. CASE session'[s] # session[s] /\ ~TakeSnapshot(s)
  <2>1. session[s] \in States
    BY DEF Types
  <2>2. \/ Start(s)
        \/ \E g \in 1 .. MaxGeneration : Validate(s, g)
        \/ \E st \in Streams, o \in Opcodes : Decode(s, st, o)
    BY <1>3, OnlyItsOwnSteps
  <2>3. session'[s].pc \in {"ready", "refused"}
    <3>1. CASE Start(s)
      BY <2>1, <3>1 DEF Start, Types, States
    <3>2. ASSUME NEW g \in 1 .. MaxGeneration, Validate(s, g)
          PROVE  session'[s].pc \in {"ready", "refused"}
      <4> DEFINE pc == IF Snapshot(s).catalog
                            = Parse(installed[SessionBackend[s]][g].file).table
                       THEN "ready" ELSE "refused"
                 header == <<Parse(installed[SessionBackend[s]][g].file).table>>
      <4>1. session' = [session EXCEPT ![s].pc = pc, ![s].header = header]
        BY <3>2 DEF Validate
      <4>2. pc \in {"ready", "refused"}
        OBVIOUS
      <4> HIDE DEF pc, header
      <4>3. session'[s].pc = pc
        BY <2>1, <4>1 DEF Types, States
      <4> QED BY <4>2, <4>3
    <3>3. ASSUME NEW st \in Streams, NEW o \in Opcodes, Decode(s, st, o)
          PROVE  session'[s].pc \in {"ready", "refused"}
      BY <2>1, <3>3 DEF Decode, Types, States
    <3> QED BY <2>2, <3>1, <3>2, <3>3
  <2> QED BY <2>3
<1> QED BY <1>1, <1>2, <1>3

(* Only the last batch can be a new one, and it is of the snapshot.        *)
LEMMA BatchesPreserved ==
  Types /\ GenerationInv /\ [Next]_vars => BatchesNameTheirGeneration'
<1> DEFINE Named(from, batch) ==
      /\ batch.generation \in DOMAIN from
      /\ batch.name = LookUp(Parse(from[batch.generation].file).table,
                             batch.stream, batch.opcode)
<1> SUFFICES ASSUME Types, GenerationInv, [Next]_vars,
                    NEW s \in Sessions, NEW i \in DOMAIN session'[s].batches
             PROVE  Named(installed'[SessionBackend[s]], session'[s].batches[i])
  BY DEF BatchesNameTheirGeneration
<1> DEFINE from == installed[SessionBackend[s]]
<1>b. SessionBackend[s] \in Backends
  BY BackendAssumption
<1>t. from \in Seq(Versions) /\ session[s] \in States
  BY <1>b DEF Types
<1>1. ASSUME i \in DOMAIN session[s].batches,
             session'[s].batches[i] = session[s].batches[i]
      PROVE  Named(installed'[SessionBackend[s]], session'[s].batches[i])
  <2>1. Named(from, session[s].batches[i])
    BY <1>1 DEF GenerationInv, BatchesNameTheirGeneration
  <2>2. \/ installed'[SessionBackend[s]] = from
        \/ \E new \in Versions : installed'[SessionBackend[s]] = Append(from, new)
    BY <1>b, InstalledGrows
  <2>3. /\ session[s].batches[i].generation \in DOMAIN installed'[SessionBackend[s]]
        /\ installed'[SessionBackend[s]][session[s].batches[i].generation]
             = from[session[s].batches[i].generation]
    <3> HIDE DEF from
    <3> QED BY <2>1, <2>2, <1>t
  <2> QED BY <1>1, <2>1, <2>3
<1>2. ASSUME NEW st \in Streams, NEW o \in Opcodes, Decode(s, st, o)
      PROVE  Named(installed'[SessionBackend[s]], session'[s].batches[i])
  <2> DEFINE entry == session[s].snapshot[1]
             new   == Batch(entry.generation, entry.catalog, st, o)
  <2>1. IsGeneration(from, entry)
    BY <1>2 DEF Decode, GenerationInv, SnapshotsAreGenerations
  <2>2. session'[s].batches = Append(session[s].batches, new) /\ installed' = installed
    BY <1>2, <1>t DEF Decode, Types, States
  <2>3. Named(from, new)
    BY <2>1 DEF IsGeneration, Batch
  <2>4. session[s].batches \in Seq(Batches)
    BY <1>t DEF States
  <2> HIDE DEF new
  <2>5. CASE i \in DOMAIN session[s].batches
    <3>1. session'[s].batches[i] = session[s].batches[i]
      BY <2>2, <2>4, <2>5
    <3> QED BY <1>1, <2>5, <3>1
  <2>6. CASE i \notin DOMAIN session[s].batches
    <3>1. session'[s].batches[i] = new
      BY <2>2, <2>4, <2>6
    <3> QED BY <2>2, <2>3, <3>1
  <2> QED BY <2>5, <2>6
<1>3. CASE session'[s].batches = session[s].batches
  BY <1>1, <1>3
<1>4. CASE session'[s].batches # session[s].batches
  <2> USE <1>t DEF Types, States
  <2>1. ~Start(s) /\ ~TakeSnapshot(s)
    BY <1>4 DEF Start, TakeSnapshot
  <2>2. ASSUME NEW g \in 1 .. MaxGeneration, Validate(s, g) PROVE FALSE
    <3> DEFINE pc == IF Snapshot(s).catalog
                          = Parse(installed[SessionBackend[s]][g].file).table
                     THEN "ready" ELSE "refused"
               header == <<Parse(installed[SessionBackend[s]][g].file).table>>
    <3>1. session' = [session EXCEPT ![s].pc = pc, ![s].header = header]
      BY <2>2 DEF Validate
    <3> HIDE DEF pc, header
    <3> QED BY <1>4, <3>1
  <2>3. session'[s] # session[s]
    BY <1>4
  <2>4. \E st \in Streams, o \in Opcodes : Decode(s, st, o)
    BY <2>1, <2>2, <2>3, OnlyItsOwnSteps
  <2> QED BY <1>2, <2>4
<1> QED BY <1>3, <1>4

LEMMA GenerationsPreserved == Types /\ GenerationInv /\ [Next]_vars => GenerationInv'
BY NewestPreserved, CarriedPreserved, SnapshotsPreserved, BatchesPreserved
DEF GenerationInv

-----------------------------------------------------------------------------
(* Overlapping reloads                                                     *)

LEMMA InitOverlap == Init => OverlapInv
<1> SUFFICES ASSUME Init PROVE OverlapInv
  OBVIOUS
<1>1. \A b \in Backends : Busy(b) = {}
  BY DEF Init, Busy, Idle
<1>2. \A b \in Backends : installed[b] = <<FirstFile>> /\ disk[b] = FirstFile
  BY DEF Init
<1> QED BY <1>1, <1>2
  DEF OverlapInv, NothingIsNewer, AllCarryTheFile, OlderFileOnlyAfterOverlap, FirstFile

(* A reload that has begun carries a file of some edit.                    *)
LEMMA BusyCarries ==
  ASSUME Types, NEW b \in Backends, NEW r \in Busy(b)
  PROVE  r \in Reloaders /\ reload[r] \in Carried
<1>1. r \in Reloaders /\ reload[r].busy
  BY DEF Busy
<1>2. reload[r] # Idle
  BY <1>1 DEF Idle
<1> QED BY <1>1, <1>2 DEF Types

(* An edit makes every file read so far an older one.                      *)
LEMMA EditOverlap ==
  ASSUME Types, OverlapInv, NEW b \in Backends, NEW file \in Files, Edit(b, file)
  PROVE  OverlapInv'
<1> DEFINE new == [file |-> file, edit |-> disk[b].edit + 1]
<1>1. /\ disk' = [disk EXCEPT ![b] = new] /\ overlap' = overlap \ {b}
      /\ installed' = installed /\ reload' = reload
  BY DEF Edit
<1>2. disk[b].edit \in Nat
  BY DEF Types, Versions
<1>3. ASSUME NEW c \in Backends
      PROVE  /\ \A g \in DOMAIN installed[c] : installed[c][g].edit \in Nat
             /\ \A r \in Busy(c) : reload[r].from.edit \in Nat
  <2>1. installed[c] \in Seq(Versions)
    BY DEF Types
  <2>2. \A g \in DOMAIN installed[c] : installed[c][g] \in Versions
    BY <2>1
  <2>3. \A r \in Busy(c) : reload[r].from \in Versions
    BY BusyCarries DEF Carried
  <2> QED BY <2>2, <2>3 DEF Versions
<1>4. \A c \in Backends : Busy(c)' = Busy(c)
  BY <1>1 DEF Busy
<1>5. ASSUME NEW c \in Backends, c # b
      PROVE  disk'[c] = disk[c] /\ (c \in overlap' <=> c \in overlap)
  BY <1>1, <1>5 DEF Types
<1>6. /\ disk'[b].edit = disk[b].edit + 1
      /\ \A g \in DOMAIN installed[b] : installed[b][g].edit < disk'[b].edit
      /\ \A r \in Busy(b) : reload[r].from.edit < disk'[b].edit
  BY <1>1, <1>2, <1>3 DEF Types, OverlapInv, NothingIsNewer
<1>7. NothingIsNewer'
  <2> SUFFICES ASSUME NEW c \in Backends
               PROVE  /\ \A g \in DOMAIN installed[c] : installed[c][g].edit <= disk'[c].edit
                      /\ \A r \in Busy(c) : reload[r].from.edit <= disk'[c].edit
    BY <1>1, <1>4 DEF NothingIsNewer
  <2>1. CASE c = b
    BY <1>2, <1>3, <1>6, <2>1
  <2>2. CASE c # b
    BY <1>5, <2>2 DEF OverlapInv, NothingIsNewer
  <2> QED BY <2>1, <2>2
<1>8. \A c \in Backends : Current(c)' => c # b /\ Current(c)
  <2> SUFFICES ASSUME NEW c \in Backends, Current(c)' PROVE c # b /\ Current(c)
    OBVIOUS
  <2>1. \/ \E g \in DOMAIN installed[c] : installed[c][g] = disk'[c]
        \/ \E r \in Busy(c) : reload[r].from = disk'[c]
    BY <1>1, <1>4 DEF Current
  <2>2. CASE c = b
    BY <1>2, <1>3, <1>6, <2>1, <2>2
  <2>3. CASE c # b
    BY <1>5, <2>1, <2>3 DEF Current
  <2> QED BY <2>2, <2>3
<1>9. AllCarryTheFile'
  BY <1>1, <1>4, <1>5, <1>8 DEF AllCarryTheFile, OverlapInv
<1>10. OlderFileOnlyAfterOverlap'
  BY <1>1, <1>5, <1>8 DEF OlderFileOnlyAfterOverlap, OverlapInv, Current
<1> QED BY <1>7, <1>9, <1>10 DEF OverlapInv

(* The file read is the one on disk; it overlaps whatever is on its way.   *)
LEMMA ReadOverlap ==
  ASSUME Types, OverlapInv, NEW r \in Reloaders, NEW b \in Backends,
         NEW readable \in BOOLEAN, ReadCatalog(r, b, readable)
  PROVE  OverlapInv'
<1>1. /\ disk' = disk /\ installed' = installed
      /\ reload' = [reload EXCEPT ![r] = Parsed(b, disk[b])]
      /\ overlap' = IF Busy(b) = {} THEN overlap ELSE overlap \cup {b}
  BY DEF ReadCatalog, MarkOverlap
<1>2. ASSUME NEW c \in Backends, NEW q \in Reloaders
      PROVE  /\ q \in Busy(c)' <=> \/ q = r /\ c = b
                                   \/ q # r /\ q \in Busy(c)
             /\ q # r => reload'[q] = reload[q]
             /\ q = r => reload'[q].from = disk[b]
  <2>1. CASE q = r
    BY <1>1, <2>1 DEF Types, Busy, Parsed
  <2>2. CASE q # r
    BY <1>1, <2>2 DEF Types, Busy
  <2> QED BY <2>1, <2>2
<1>3. r \notin Busy(b) /\ \A c \in Backends : Busy(c) \subseteq Reloaders
  BY DEF ReadCatalog, Busy
<1>4. \A c \in Backends : Busy(c)' \subseteq Reloaders
  BY DEF Busy
<1>5. disk[b].edit \in Nat
  BY DEF Types, Versions
<1>6. NothingIsNewer'
  <2> SUFFICES ASSUME NEW c \in Backends
               PROVE  \A q \in Busy(c)' : reload'[q].from.edit <= disk[c].edit
    BY <1>1 DEF NothingIsNewer, OverlapInv
  <2> QED BY <1>2, <1>4, <1>5 DEF OverlapInv, NothingIsNewer
<1>7. AllCarryTheFile'
  <2> SUFFICES ASSUME NEW c \in Backends, c \notin overlap', Current(c)',
                      NEW q \in Busy(c)'
               PROVE  reload'[q].from = disk[c]
    BY <1>1 DEF AllCarryTheFile
  <2>1. c \notin overlap /\ (c = b => Busy(b) = {}) /\ q \in Reloaders
    BY <1>1, <1>4
  <2>2. CASE c = b
    BY <1>2, <2>1, <2>2
  <2>3. CASE c # b
    <3>1. Current(c)
      BY <1>1, <1>2, <1>4, <2>3 DEF Current
    <3> QED BY <1>2, <2>1, <2>3, <3>1 DEF OverlapInv, AllCarryTheFile
  <2> QED BY <2>2, <2>3
<1>8. OlderFileOnlyAfterOverlap'
  BY <1>1 DEF OverlapInv, OlderFileOnlyAfterOverlap
<1> QED BY <1>6, <1>7, <1>8 DEF OverlapInv

(* If the file on disk was read before and no reloads overlapped, it is    *)
(* the one that is installed now.                                          *)
LEMMA ReplaceOverlap ==
  ASSUME Types, OverlapInv, NEW r \in Reloaders, Replace(r)
  PROVE  OverlapInv'
<1> DEFINE b    == reload[r].backend
           from == reload[r].from
<1>1. reload[r] \in Carried /\ b \in Backends /\ from \in Versions /\ r \in Busy(b)
  <2>1. reload[r] \in Carried
    BY DEF Types, Replace, Idle
  <2> QED BY <2>1 DEF Replace, Carried, Busy
<1>2. /\ disk' = disk /\ overlap' = overlap
      /\ reload' = [reload EXCEPT ![r] = Idle]
      /\ installed' = [installed EXCEPT ![b] = Append(@, from)]
  BY DEF Replace
<1> HIDE DEF b, from
<1>3. ASSUME NEW c \in Backends
      PROVE  /\ Busy(c)' \subseteq Busy(c)
             /\ \A q \in Busy(c)' : reload'[q] = reload[q]
  BY <1>2 DEF Types, Busy, Idle
<1>4. installed[b] \in Seq(Versions) /\ installed'[b] = Append(installed[b], from)
  BY <1>1, <1>2 DEF Types
<1>5. /\ Len(installed'[b]) = Len(installed[b]) + 1
      /\ Len(installed'[b]) \in DOMAIN installed'[b]
      /\ installed'[b][Len(installed'[b])] = from
      /\ \A g \in DOMAIN installed'[b] :
           \/ installed'[b][g] = from
           \/ g \in DOMAIN installed[b] /\ installed'[b][g] = installed[b][g]
  BY <1>1, <1>4
<1>6. ASSUME NEW c \in Backends, c # b PROVE installed'[c] = installed[c]
  BY <1>2, <1>6 DEF Types
<1>7. from.edit <= disk[b].edit
  BY <1>1 DEF OverlapInv, NothingIsNewer, from
<1>8. ASSUME NEW c \in Backends, Current(c)' PROVE Current(c)
  <2>1. CASE c = b
    <3>1. from = disk[b] => \E q \in Busy(b) : reload[q].from = disk[b]
      BY <1>1 DEF from
    <3> QED BY <1>2, <1>3, <1>5, <1>8, <2>1, <3>1 DEF Current
  <2>2. CASE c # b
    BY <1>2, <1>3, <1>6, <1>8, <2>2 DEF Current
  <2> QED BY <2>1, <2>2
<1>9. NothingIsNewer'
  <2> SUFFICES ASSUME NEW c \in Backends
               PROVE  /\ \A g \in DOMAIN installed'[c] : installed'[c][g].edit <= disk[c].edit
                      /\ \A q \in Busy(c)' : reload'[q].from.edit <= disk[c].edit
    BY <1>2 DEF NothingIsNewer
  <2>1. \A q \in Busy(c)' : reload'[q].from.edit <= disk[c].edit
    BY <1>3 DEF OverlapInv, NothingIsNewer
  <2>2. CASE c = b
    BY <1>5, <1>7, <2>1, <2>2 DEF OverlapInv, NothingIsNewer
  <2>3. CASE c # b
    BY <1>6, <2>1, <2>3 DEF OverlapInv, NothingIsNewer
  <2> QED BY <2>2, <2>3
<1>10. AllCarryTheFile'
  BY <1>2, <1>3, <1>8 DEF OverlapInv, AllCarryTheFile
<1>11. OlderFileOnlyAfterOverlap'
  <2> SUFFICES ASSUME NEW c \in Backends, c \notin overlap,
                      NEW g \in DOMAIN installed'[c], installed'[c][g] = disk[c]
               PROVE  installed'[c][Len(installed'[c])] = disk[c]
    BY <1>2 DEF OlderFileOnlyAfterOverlap
  <2>1. CASE c # b
    BY <1>6, <2>1 DEF OverlapInv, OlderFileOnlyAfterOverlap
  <2>2. CASE c = b
    <3>1. Current(b)
      BY <1>1, <1>5, <2>2 DEF Current, from
    <3>2. from = disk[b]
      BY <1>1, <2>2, <3>1 DEF OverlapInv, AllCarryTheFile, from
    <3> QED BY <1>5, <2>2, <3>2
  <2> QED BY <2>1, <2>2
<1> QED BY <1>9, <1>10, <1>11 DEF OverlapInv

LEMMA OverlapPreserved == Types /\ OverlapInv /\ [Next]_vars => OverlapInv'
<1> SUFFICES ASSUME Types, OverlapInv, [Next]_vars PROVE OverlapInv'
  OBVIOUS
<1>1. CASE UNCHANGED <<disk, reload, installed, overlap>>
  <2>1. \A b \in Backends : Busy(b)' = Busy(b)
    BY <1>1 DEF Busy
  <2> QED BY <1>1, <2>1 DEF OverlapInv, NothingIsNewer, AllCarryTheFile, Current,
                             OlderFileOnlyAfterOverlap
<1> QED BY <1>1, EditOverlap, ReadOverlap, ReplaceOverlap
  DEF Next, Start, TakeSnapshot, Validate, Decode, vars

-----------------------------------------------------------------------------
(* Theorems                                                                *)

(* What is known of the registry at all times: the types, what a           *)
(* generation number means, and which files are on their way.              *)
THEOREM InvCorrect == Spec => []Inv
<1>1. Init => Inv
  BY InitTypes, InitGenerations, InitOverlap DEF Inv
<1>2. Inv /\ [Next]_vars => Inv'
  BY TypesPreserved, GenerationsPreserved, OverlapPreserved DEF Inv, GenerationInv
<1> QED BY <1>1, <1>2, PTL DEF Spec

(* For any threads and files, the name of a batch is what the catalog      *)
(* installed under the batch's generation says (decode_at, session         *)
(* lib.rs:385; replace, lib.rs:440-473).                                   *)
THEOREM BatchesCorrect == Spec => []BatchesNameTheirGeneration
<1>1. Inv => BatchesNameTheirGeneration
  BY DEF Inv, GenerationInv
<1> QED BY <1>1, InvCorrect, PTL

(* For any threads and files, an older file is in use after the one on     *)
(* disk was installed only if two reloads overlapped since it was written  *)
(* (reload_backend_from_directory and replace, lib.rs:440-473).            *)
THEOREM OverlapCorrect == Spec => []OlderFileOnlyAfterOverlap
<1>1. Inv => OlderFileOnlyAfterOverlap
  BY DEF Inv, OverlapInv
<1> QED BY <1>1, InvCorrect, PTL

-----------------------------------------------------------------------------
(* Validation of a stream                                                  *)

(* A set with zero, and with the successor of each number in it, has them  *)
(* all: a least number missing would have a predecessor.                   *)
LEMMA Induction ==
  ASSUME NEW S, 0 \in S, \A n \in Nat : n \in S => n + 1 \in S
  PROVE  Nat \subseteq S
<1> DEFINE Less == {p \in Nat \X Nat : p[1] < p[2]}
           Missing == Nat \ S
<1>1. IsWellFoundedOn(Less, Nat)
  BY NatLessThanWellFounded DEF OpToRel
<1>2. SUFFICES ASSUME Missing # {} PROVE FALSE
  OBVIOUS
<1>3. PICK n \in Missing : \A m \in Missing : ~(<<m, n>> \in Less)
  <2> HIDE DEF Less
  <2> QED BY <1>1, <1>2, WFMin
<1>4. n \in Nat /\ n # 0 /\ n - 1 \in Nat /\ (n - 1) + 1 = n
  OBVIOUS
<1>5. <<n - 1, n>> \in Less
  BY <1>4
<1>6. n - 1 \in S
  <2> HIDE DEF Less
  <2> QED BY <1>3, <1>4, <1>5
<1> QED BY <1>3, <1>4, <1>6

Empty == [ok |-> TRUE, by_id |-> <<>>]

(* The tables after each of the first L rows.                              *)
IsRun(f, rows, L) ==
  f = [n \in 0 .. L |-> IF n = 0 THEN Empty ELSE ValidateRow(f[n - 1], rows[n])]

(* There is a run: that of each prefix is extended by the next row.        *)
LEMMA RunExists ==
  ASSUME NEW rows, NEW L \in Nat
  PROVE  \E f : IsRun(f, rows, L)
<1> DEFINE S == {n \in Nat : \E f : IsRun(f, rows, n)}
<1>1. 0 \in S
  <2> DEFINE f == [n \in 0 .. 0 |-> Empty]
  <2>1. f = [n \in 0 .. 0 |-> IF n = 0 THEN Empty ELSE ValidateRow(f[n - 1], rows[n])]
    OBVIOUS
  <2> QED BY <2>1 DEF IsRun
<1>2. ASSUME NEW n \in Nat, n \in S PROVE n + 1 \in S
  <2>1. PICK f : IsRun(f, rows, n)
    BY <1>2
  <2>2. /\ f[0] = Empty
        /\ \A k \in 1 .. n : f[k] = ValidateRow(f[k - 1], rows[k])
    BY <2>1 DEF IsRun
  <2> DEFINE last == ValidateRow(f[n], rows[n + 1])
             g == [k \in 0 .. n + 1 |-> IF k = n + 1 THEN last ELSE f[k]]
  <2>3. g[0] = Empty /\ \A k \in 0 .. n : g[k] = f[k]
    BY <2>2
  <2>4. g[n + 1] = last
    OBVIOUS
  <2>5. ASSUME NEW k \in 0 .. n + 1
        PROVE  g[k] = IF k = 0 THEN Empty ELSE ValidateRow(g[k - 1], rows[k])
    <3> HIDE DEF g
    <3>1. CASE k = 0
      BY <2>3, <3>1
    <3>2. CASE k = n + 1
      <4>1. k # 0 /\ k - 1 = n /\ n \in 0 .. n
        BY <3>2
      <4> QED BY <2>3, <2>4, <3>2, <4>1
    <3>3. CASE k # 0 /\ k # n + 1
      <4>1. k \in 1 .. n /\ k \in 0 .. n /\ k - 1 \in 0 .. n
        BY <3>3
      <4> QED BY <2>2, <2>3, <3>3, <4>1
    <3> QED BY <3>1, <3>2, <3>3
  <2>6. g = [k \in 0 .. n + 1 |-> g[k]]
    OBVIOUS
  <2> HIDE DEF g
  <2>7. g = [k \in 0 .. n + 1 |-> IF k = 0 THEN Empty ELSE ValidateRow(g[k - 1], rows[k])]
    BY <2>5, <2>6
  <2> QED BY <2>7 DEF IsRun
<1>3. Nat \subseteq S
  <2> HIDE DEF S
  <2> QED BY <1>1, <1>2, Induction
<1> QED BY <1>3

LEMMA ValidateStreamRun ==
  ASSUME NEW rows, Len(rows) \in Nat
  PROVE  \E f : IsRun(f, rows, Len(rows)) /\ ValidateStream(rows) = f[Len(rows)]
<1> DEFINE L == Len(rows)
           table == CHOOSE f : f = [n \in 0 .. L |->
                      IF n = 0 THEN Empty ELSE ValidateRow(f[n - 1], rows[n])]
<1>1. PICK f : f = [n \in 0 .. L |-> IF n = 0 THEN Empty ELSE ValidateRow(f[n - 1], rows[n])]
  BY RunExists DEF IsRun
<1>2. table = [n \in 0 .. L |-> IF n = 0 THEN Empty ELSE ValidateRow(table[n - 1], rows[n])]
  BY <1>1
<1>3. ValidateStream(rows) = table[L]
  BY DEF ValidateStream, Empty
<1> HIDE DEF table
<1> QED BY <1>2, <1>3 DEF IsRun

(* What a table says of the first n rows.                                  *)
MappedTo(rows, n) == {i \in 1 .. n : rows[i].id # Unmapped}

SoundTo(rows, n) ==
  /\ \A i \in 1 .. n : rows[i].id # Malformed /\ rows[i].name # ""
  /\ \A i, j \in MappedTo(rows, n) :
        rows[i].id = rows[j].id \/ rows[i].name = rows[j].name => i = j

IsTableOf(t, rows, n) ==
  /\ DOMAIN t.by_id = {rows[i].id : i \in MappedTo(rows, n)}
  /\ \A i \in MappedTo(rows, n) : t.by_id[rows[i].id] = rows[i].name

LEMMA SoundPrefix ==
  ASSUME NEW rows, NEW n \in Nat, SoundTo(rows, n + 1)
  PROVE  SoundTo(rows, n)
<1>1. 1 .. n \subseteq 1 .. n + 1
  OBVIOUS
<1>2. MappedTo(rows, n) \subseteq MappedTo(rows, n + 1)
  BY <1>1 DEF MappedTo
<1> QED BY <1>1, <1>2 DEF SoundTo

(* What holds of a table that came of the first n rows.                    *)
Faithful(t, rows, n) ==
  /\ t = [ok |-> t.ok, by_id |-> t.by_id] /\ t.ok \in BOOLEAN
  /\ t.ok <=> SoundTo(rows, n)
  /\ t.ok => IsTableOf(t, rows, n)

(* One more row: it is refused, left out, or put in the table.             *)
LEMMA OneMoreRow ==
  ASSUME NEW rows, NEW n \in Nat, NEW t, Faithful(t, rows, n)
  PROVE  Faithful(ValidateRow(t, rows[n + 1]), rows, n + 1)
<1> DEFINE row == rows[n + 1]
           u == ValidateRow(t, row)
           M == MappedTo(rows, n)
           N == MappedTo(rows, n + 1)
<1>1. /\ \A i \in 1 .. n + 1 : i \in 1 .. n \/ i = n + 1
      /\ n + 1 \in 1 .. n + 1 /\ n + 1 \notin 1 .. n /\ 1 .. n \subseteq 1 .. n + 1
  OBVIOUS
<1>2. Rejected = [ok |-> Rejected.ok, by_id |-> Rejected.by_id] /\ Rejected.ok = FALSE
  BY DEF Rejected
<1>3. CASE ~t.ok
  <2>1. ~SoundTo(rows, n)
    BY <1>3 DEF Faithful
  <2>2. ~SoundTo(rows, n + 1)
    BY <2>1, SoundPrefix
  <2>3. u = Rejected
    BY <1>3 DEF ValidateRow
  <2> QED BY <1>2, <2>2, <2>3 DEF Faithful
<1>4. CASE t.ok /\ (row.id = Malformed \/ row.name = "")
  <2>1. ~SoundTo(rows, n + 1)
    BY <1>1, <1>4 DEF SoundTo
  <2>2. u = Rejected
    BY <1>4 DEF ValidateRow
  <2> QED BY <1>2, <2>1, <2>2 DEF Faithful
<1>5. CASE t.ok /\ row.id # Malformed /\ row.name # "" /\ row.id = Unmapped
  <2>1. N = M
    BY <1>1, <1>5 DEF MappedTo
  <2>2. u = t
    BY <1>5 DEF ValidateRow
  <2>3. SoundTo(rows, n) => SoundTo(rows, n + 1)
    BY <1>1, <1>5, <2>1 DEF SoundTo
  <2>4. IsTableOf(t, rows, n) => IsTableOf(t, rows, n + 1)
    BY <2>1 DEF IsTableOf
  <2> QED BY <1>5, <2>2, <2>3, <2>4, SoundPrefix DEF Faithful
<1>6. CASE t.ok /\ row.id # Malformed /\ row.name # "" /\ row.id # Unmapped
  <2>1. N = M \cup {n + 1} /\ n + 1 \notin M
    BY <1>1, <1>6 DEF MappedTo
  <2>2. /\ SoundTo(rows, n)
        /\ DOMAIN t.by_id = {rows[i].id : i \in M}
        /\ \A i \in M : t.by_id[rows[i].id] = rows[i].name
    BY <1>6 DEF Faithful, IsTableOf
  <2>3. CASE \E id \in DOMAIN t.by_id : id = row.id \/ t.by_id[id] = row.name
    <3>1. PICK i \in M : rows[i].id = row.id \/ rows[i].name = row.name
      BY <2>2, <2>3
    <3>2. ~SoundTo(rows, n + 1)
      BY <2>1, <3>1 DEF SoundTo
    <3>3. u = Rejected
      BY <1>6, <2>3 DEF ValidateRow
    <3> QED BY <1>2, <3>2, <3>3 DEF Faithful
  <2>4. CASE ~\E id \in DOMAIN t.by_id : id = row.id \/ t.by_id[id] = row.name
    <3> DEFINE f == Put(t.by_id, row.id, row.name)
    <3>1. u = [t EXCEPT !.by_id = f]
      BY <1>6, <2>4 DEF ValidateRow
    <3>2. \A i \in M : rows[i].id # row.id /\ rows[i].name # row.name
      BY <2>2, <2>4
    <3>3. SoundTo(rows, n + 1)
      <4>1. \A i \in 1 .. n + 1 : rows[i].id # Malformed /\ rows[i].name # ""
        BY <1>1, <1>6, <2>2 DEF SoundTo
      <4>2. ASSUME NEW i \in N, NEW j \in N, rows[i].id = rows[j].id \/ rows[i].name = rows[j].name
            PROVE  i = j
        <5>1. CASE i \in M /\ j \in M
          BY <2>2, <4>2, <5>1 DEF SoundTo
        <5>2. CASE i = n + 1 \/ j = n + 1
          BY <2>1, <3>2, <4>2, <5>2
        <5> QED BY <2>1, <5>1, <5>2
      <4> QED BY <4>1, <4>2 DEF SoundTo
    <3>4. DOMAIN f = {rows[i].id : i \in N}
      BY <2>1, <2>2 DEF Put
    <3>5. \A i \in N : f[rows[i].id] = rows[i].name
      <4>1. f[row.id] = row.name
        BY DEF Put
      <4>2. ASSUME NEW i \in M PROVE f[rows[i].id] = rows[i].name
        BY <2>2, <3>2 DEF Put
      <4> QED BY <2>1, <4>1, <4>2
    <3> HIDE DEF f
    <3>6. t = [ok |-> t.ok, by_id |-> t.by_id]
      BY DEF Faithful
    <3>7. u = [ok |-> t.ok, by_id |-> f]
      BY <3>1, <3>6
    <3>8. u.ok = t.ok /\ u.by_id = f
      BY <3>7
    <3> HIDE DEF u
    <3>9. IsTableOf(u, rows, n + 1)
      BY <3>4, <3>5, <3>8 DEF IsTableOf
    <3>10. Faithful(u, rows, n + 1)
      BY <1>6, <3>3, <3>7, <3>8, <3>9 DEF Faithful
    <3> QED BY <3>10 DEF u
  <2> QED BY <2>3, <2>4
<1> QED BY <1>3, <1>4, <1>5, <1>6 DEF Faithful

(* validate_stream accepts exactly the sound streams, and its table has    *)
(* exactly their mapped rows (protocol-data lib.rs:203-261).               *)
LEMMA StreamsAreValidated ==
  ASSUME NEW rows, Len(rows) \in Nat
  PROVE  Faithful(ValidateStream(rows), rows, Len(rows))
<1> DEFINE L == Len(rows)
<1>1. PICK f : IsRun(f, rows, L) /\ ValidateStream(rows) = f[L]
  BY ValidateStreamRun
<1>2. f[0] = Empty /\ \A n \in 1 .. L : f[n] = ValidateRow(f[n - 1], rows[n])
  BY <1>1 DEF IsRun
<1> DEFINE S == {n \in Nat : n <= L => Faithful(f[n], rows, n)}
<1>3. 0 \in S
  <2>1. Empty.ok = TRUE /\ Empty = [ok |-> Empty.ok, by_id |-> Empty.by_id]
    BY DEF Empty
  <2>2. DOMAIN Empty.by_id = {}
    BY DEF Empty
  <2>3. MappedTo(rows, 0) = {} /\ SoundTo(rows, 0)
    BY DEF MappedTo, SoundTo
  <2>4. IsTableOf(Empty, rows, 0)
    BY <2>2, <2>3 DEF IsTableOf
  <2> QED BY <1>2, <2>1, <2>3, <2>4 DEF Faithful
<1>4. ASSUME NEW n \in Nat, n \in S PROVE n + 1 \in S
  <2> SUFFICES ASSUME n + 1 <= L PROVE Faithful(f[n + 1], rows, n + 1)
    OBVIOUS
  <2>1. n + 1 \in 1 .. L /\ (n + 1) - 1 = n /\ n <= L
    OBVIOUS
  <2>2. Faithful(f[n], rows, n)
    BY <1>4, <2>1
  <2>3. f[n + 1] = ValidateRow(f[n], rows[n + 1])
    BY <1>2, <2>1
  <2> QED BY <2>2, <2>3, OneMoreRow
<1>5. Nat \subseteq S
  <2> HIDE DEF S
  <2> QED BY <1>3, <1>4, Induction
<1> QED BY <1>1, <1>5

-----------------------------------------------------------------------------
(* Files                                                                   *)

(* The validation of one stream, in terms of all its rows.                 *)
LEMMA StreamsOfAFile ==
  ASSUME NEW file \in Files, NEW s \in Streams
  PROVE  LET t == ValidateStream(file[s])
         IN  /\ t.ok <=> IsSound(file[s])
             /\ t.ok => /\ DOMAIN t.by_id = {file[s][i].id : i \in Mapped(file[s])}
                        /\ \A i \in Mapped(file[s]) : t.by_id[file[s][i].id] = file[s][i].name
<1> DEFINE rows == file[s]
           t == ValidateStream(rows)
<1>1. Len(rows) \in Nat /\ DOMAIN rows = 1 .. Len(rows)
  BY FilesAssumption
<1> HIDE DEF rows
<1>2. Faithful(t, rows, Len(rows))
  BY <1>1, StreamsAreValidated
<1> HIDE DEF t
<1>3. MappedTo(rows, Len(rows)) = Mapped(rows)
  BY <1>1 DEF MappedTo, Mapped
<1>4. t.ok <=> IsSound(rows)
  BY <1>1, <1>2, <1>3 DEF Faithful, SoundTo, IsSound
<1>5. t.ok => /\ DOMAIN t.by_id = {rows[i].id : i \in Mapped(rows)}
              /\ \A i \in Mapped(rows) : t.by_id[rows[i].id] = rows[i].name
  BY <1>2, <1>3 DEF Faithful, IsTableOf
<1> QED BY <1>4, <1>5 DEF rows, t

(* A file parses exactly if both its streams are sound and one maps an     *)
(* opcode, whatever the order of its rows (Catalog::parse, protocol-data   *)
(* lib.rs:136-151, 203-261).                                               *)
THEOREM SoundFilesParse ==
  \A file \in Files :
    Parse(file).ok <=> /\ \A s \in Streams : IsSound(file[s])
                       /\ \E s \in Streams : Mapped(file[s]) # {}
<1> SUFFICES ASSUME NEW file \in Files
             PROVE  Parse(file).ok <=> /\ \A s \in Streams : IsSound(file[s])
                                       /\ \E s \in Streams : Mapped(file[s]) # {}
  OBVIOUS
<1> DEFINE tables == [s \in Streams |-> ValidateStream(file[s])]
<1>1. Parse(file).ok <=> /\ \A s \in Streams : tables[s].ok
                         /\ \E s \in Streams : DOMAIN tables[s].by_id # {}
  BY DEF Parse
<1>2. \A s \in Streams :
        /\ tables[s].ok <=> IsSound(file[s])
        /\ tables[s].ok => DOMAIN tables[s].by_id = {file[s][i].id : i \in Mapped(file[s])}
  BY StreamsOfAFile
<1> HIDE DEF tables
<1>3. \A s \in Streams :
        tables[s].ok => (DOMAIN tables[s].by_id # {} <=> Mapped(file[s]) # {})
  <2> SUFFICES ASSUME NEW s \in Streams, tables[s].ok
               PROVE  DOMAIN tables[s].by_id # {} <=> Mapped(file[s]) # {}
    OBVIOUS
  <2>1. DOMAIN tables[s].by_id = {file[s][i].id : i \in Mapped(file[s])}
    BY <1>2
  <2> HIDE DEF Mapped
  <2>2. {file[s][i].id : i \in Mapped(file[s])} # {} <=> Mapped(file[s]) # {}
    OBVIOUS
  <2> QED BY <2>1, <2>2
<1> QED BY <1>1, <1>2, <1>3

(* A file that parses is sound, and its tables are what it says.           *)
LEMMA ParsedIsSaid ==
  ASSUME NEW file \in Files, Parse(file).ok
  PROVE  Says(file, Parse(file).table)
<1> DEFINE tables == [s \in Streams |-> ValidateStream(file[s])]
<1>1. /\ \A s \in Streams : tables[s].ok
      /\ \E s \in Streams : DOMAIN tables[s].by_id # {}
      /\ Parse(file).table = [s \in Streams |-> tables[s].by_id]
  BY DEF Parse
<1>2. \A s \in Streams :
        /\ tables[s].ok => IsSound(file[s])
        /\ tables[s].ok =>
             /\ DOMAIN tables[s].by_id = {file[s][i].id : i \in Mapped(file[s])}
             /\ \A i \in Mapped(file[s]) : tables[s].by_id[file[s][i].id] = file[s][i].name
  BY StreamsOfAFile
<1> HIDE DEF tables
<1>3. \A s \in Streams : Parse(file).table[s] = tables[s].by_id
  BY <1>1
<1> QED BY <1>1, <1>2, <1>3 DEF Says

(* What is installed, or carried to be installed, has parsed.              *)
AllParsed ==
  /\ \A b \in Backends : \A g \in DOMAIN installed[b] : Parse(installed[b][g].file).ok
  /\ \A r \in Reloaders : reload[r].busy => Parse(reload[r].from.file).ok

LEMMA ParsedPreserved ==
  ASSUME Types, AllParsed, [Next]_vars
  PROVE  AllParsed'
<1>1. ASSUME NEW r \in Reloaders, NEW b \in Backends, NEW readable \in BOOLEAN,
             ReadCatalog(r, b, readable)
      PROVE  AllParsed'
  <2>1. /\ Parse(disk[b].file).ok /\ installed' = installed
        /\ reload' = [reload EXCEPT ![r] = Parsed(b, disk[b])]
    BY <1>1 DEF ReadCatalog
  <2>2. Parsed(b, disk[b]).from = disk[b]
    BY DEF Parsed
  <2>3. ASSUME NEW q \in Reloaders, reload'[q].busy PROVE Parse(reload'[q].from.file).ok
    <3>1. CASE q = r
      BY <2>1, <2>2, <3>1 DEF Types
    <3>2. CASE q # r
      BY <2>1, <2>3, <3>2 DEF AllParsed, Types
    <3> QED BY <3>1, <3>2
  <2> QED BY <2>1, <2>3 DEF AllParsed
<1>2. ASSUME NEW r \in Reloaders, Replace(r) PROVE AllParsed'
  <2> DEFINE b == reload[r].backend
             from == reload[r].from
  <2>1. reload[r].busy /\ reload[r] \in Carried
    BY <1>2 DEF Replace, Types, Idle
  <2>2. b \in Backends /\ Parse(from.file).ok
    BY <2>1 DEF Carried, AllParsed
  <2>3. /\ installed' = [installed EXCEPT ![b] = Append(@, from)]
        /\ reload' = [reload EXCEPT ![r] = Idle]
    BY <1>2 DEF Replace
  <2> HIDE DEF b, from
  <2>4. ASSUME NEW c \in Backends, NEW g \in DOMAIN installed'[c]
        PROVE  Parse(installed'[c][g].file).ok
    <3>1. CASE c # b
      BY <2>3, <2>4, <3>1 DEF AllParsed, Types
    <3>2. CASE c = b
      <4>1. installed'[b] = Append(installed[b], from) /\ installed[b] \in Seq(Versions)
        BY <2>2, <2>3 DEF Types
      <4>2. \/ g \in DOMAIN installed[b] /\ installed'[b][g] = installed[b][g]
            \/ installed'[b][g] = from
        BY <2>4, <3>2, <4>1
      <4> QED BY <2>2, <3>2, <4>2 DEF AllParsed
    <3> QED BY <3>1, <3>2
  <2>5. ASSUME NEW q \in Reloaders, reload'[q].busy PROVE Parse(reload'[q].from.file).ok
    BY <2>3, <2>5 DEF AllParsed, Types, Idle
  <2> QED BY <2>4, <2>5 DEF AllParsed
<1>3. CASE UNCHANGED <<installed, reload>>
  BY <1>3 DEF AllParsed
<1> QED BY <1>1, <1>2, <1>3
  DEF Next, Edit, Start, TakeSnapshot, Validate, Decode, vars

LEMMA ParsedStays == Spec => []AllParsed
<1>1. Init => AllParsed
  <2> SUFFICES ASSUME Init PROVE AllParsed
    OBVIOUS
  <2>1. \A b \in Backends : \A g \in DOMAIN installed[b] : installed[b][g].file = First
    BY DEF Init, FirstFile
  <2>2. \A r \in Reloaders : ~reload[r].busy
    BY DEF Init, Idle
  <2> QED BY <2>1, <2>2, EmbeddedAssumption DEF AllParsed
<1>2. Inv /\ AllParsed /\ [Next]_vars => AllParsed'
  BY ParsedPreserved DEF Inv
<1> QED BY <1>1, <1>2, InvCorrect, PTL DEF Spec

(* For any files, edits, readers and reloads: the catalog in use is what   *)
(* one complete and sound file said (protocol-data lib.rs:136-151,         *)
(* 203-261, 440-473).                                                      *)
THEOREM CatalogsAreWhatFilesSay == Spec => []ActiveIsWhatItsFileSaid
<1>1. Inv /\ AllParsed => ActiveIsWhatItsFileSaid
  <2> SUFFICES ASSUME Inv, AllParsed, NEW b \in Backends
               PROVE  Says(installed[b][Len(installed[b])].file, active[b].catalog)
    BY DEF ActiveIsWhatItsFileSaid
  <2> DEFINE last == Len(installed[b])
             file == installed[b][last].file
  <2>1. /\ last \in DOMAIN installed[b]
        /\ active[b].catalog = Parse(file).table
    BY DEF Inv, GenerationInv, ActiveIsNewest, IsGeneration
  <2>2. Parse(file).ok
    BY <2>1 DEF AllParsed
  <2>3. installed[b] \in Seq(Versions)
    BY DEF Inv, Types
  <2>4. file \in Files
    <3>1. installed[b][last] \in Versions
      BY <2>1, <2>3
    <3> QED BY <3>1 DEF Versions
  <2> HIDE DEF file
  <2> QED BY <2>1, <2>2, <2>4, ParsedIsSaid DEF file
<1> QED BY <1>1, ParsedStays, InvCorrect, PTL

-----------------------------------------------------------------------------
(* The registry is a CatalogService                                        *)

LEMMA HistoryFacts ==
  ASSUME NEW from \in Seq(Versions)
  PROVE  /\ HistoryOf(from) \in Seq(Tables)
         /\ Len(HistoryOf(from)) = Len(from) /\ DOMAIN HistoryOf(from) = DOMAIN from
         /\ \A g \in DOMAIN from : HistoryOf(from)[g] = Parse(from[g].file).table
<1> DEFINE n == Len(from)
           h == HistoryOf(from)
<1>1. n \in Nat /\ DOMAIN from = 1 .. n /\ \A g \in 1 .. n : from[g].file \in Files
  <2>1. n \in Nat /\ DOMAIN from = 1 .. n /\ \A g \in 1 .. n : from[g] \in Versions
    OBVIOUS
  <2> QED BY <2>1 DEF Versions
<1>2. \A g \in 1 .. n : TableOf[from[g].file] = Parse(from[g].file).table
  BY <1>1 DEF TableOf
<1>3. h = [g \in 1 .. n |-> TableOf[from[g].file]]
  BY <1>1 DEF HistoryOf
<1>4. \A g \in 1 .. n : TableOf[from[g].file] \in Tables
  BY <1>1, <1>2 DEF Tables
<1> HIDE DEF h, n
<1>5. h \in Seq(Tables) /\ DOMAIN h = 1 .. n
  BY <1>1, <1>3, <1>4
<1>6. Len(h) = n
  BY <1>1, <1>5
<1> QED BY <1>1, <1>2, <1>3, <1>5, <1>6 DEF h, n

LEMMA HistoryGrows ==
  ASSUME NEW from \in Seq(Versions), NEW v \in Versions
  PROVE  HistoryOf(Append(from, v)) = Append(HistoryOf(from), TableOf[v.file])
<1> DEFINE n == Len(from)
           more == Append(from, v)
           h == HistoryOf(from)
           a == Append(h, TableOf[v.file])
           m == HistoryOf(more)
<1>1. more \in Seq(Versions) /\ Len(more) = n + 1 /\ n \in Nat
      /\ more[n + 1] = v /\ \A g \in 1 .. n : more[g] = from[g]
  OBVIOUS
<1>2. h \in Seq(Tables) /\ Len(h) = n /\ \A g \in 1 .. n : h[g] = TableOf[from[g].file]
  BY HistoryFacts DEF HistoryOf
<1>3. TableOf[v.file] \in Tables
  BY DEF TableOf, Tables, Versions
<1>4. /\ DOMAIN a = 1 .. n + 1 /\ a[n + 1] = TableOf[v.file]
      /\ \A g \in 1 .. n : a[g] = TableOf[from[g].file]
      /\ a = [g \in DOMAIN a |-> a[g]]
  <2> HIDE DEF h, n
  <2>1. n \in Nat
    BY <1>1
  <2> QED BY <2>1, <1>2, <1>3
<1>5. m = [g \in 1 .. n + 1 |-> TableOf[more[g].file]]
  BY <1>1 DEF HistoryOf
<1> HIDE DEF h, a, m, n, more
<1>6. \A g \in 1 .. n + 1 : m[g] = a[g]
  BY <1>1, <1>4, <1>5
<1>7. m = a
  BY <1>4, <1>5, <1>6
<1> QED BY <1>7 DEF m, a, h, more

(* Both sides look up in the same way.                                     *)
LEMMA SameName ==
  ASSUME NEW catalog, NEW stream, NEW opcode
  PROVE  Service!Name(catalog, stream, opcode) = LookUp(catalog, stream, opcode)
BY DEF Service!Name, LookUp

LEMMA InitService == Init => Service!Init
<1> SUFFICES ASSUME Init PROVE Service!Init
  OBVIOUS
<1>1. \A b \in Backends : installed[b] = <<FirstFile>>
  BY DEF Init
<1>2. HistoryOf(<<FirstFile>>) = <<TableOf[First]>>
  BY DEF HistoryOf, FirstFile
<1>3. \A s \in Sessions : Asker(session[s]) = [pc |-> "new", since |-> 0, answers |-> <<>>]
  BY DEF Init, NewSession, Asker
<1> QED BY <1>1, <1>2, <1>3 DEF Service!Init

(* What a step leaves alone.                                               *)
LEMMA SameHistory ==
  ASSUME UNCHANGED installed
  PROVE  [b \in Backends |-> HistoryOf(installed[b])]'
           = [b \in Backends |-> HistoryOf(installed[b])]
OBVIOUS

LEMMA SameReaders ==
  ASSUME UNCHANGED session
  PROVE  [s \in Sessions |-> Asker(session[s])]' = [s \in Sessions |-> Asker(session[s])]
OBVIOUS

LEMMA ReplaceInstalls ==
  ASSUME Inv, AllParsed, NEW r \in Reloaders, Replace(r)
  PROVE  \E b \in Backends, catalog \in SoundTables : Service!Install(b, catalog)
<1> DEFINE b == reload[r].backend
           from == reload[r].from
           c == TableOf[from.file]
<1>1. reload[r] \in Carried /\ reload[r].busy
  BY DEF Inv, Types, Replace, Idle
<1>2. b \in Backends /\ from \in Versions /\ Parse(from.file).ok
  BY <1>1 DEF Carried, AllParsed
<1>3. c \in SoundTables
  BY <1>2 DEF SoundTables, Versions
<1>4. installed' = [installed EXCEPT ![b] = Append(@, from)] /\ session' = session
  BY DEF Replace
<1>5. installed \in [Backends -> Seq(Versions)]
  BY DEF Inv, Types
<1> HIDE DEF b, from
<1>6. /\ HistoryOf(installed'[b]) = Append(HistoryOf(installed[b]), c)
      /\ \A d \in Backends \ {b} : installed'[d] = installed[d]
  BY <1>2, <1>4, <1>5, HistoryGrows
<1>7. Service!Install(b, c)
  <2> DEFINE old == [d \in Backends |-> HistoryOf(installed[d])]
             new == [d \in Backends |-> HistoryOf(installed'[d])]
  <2> HIDE DEF c
  <2>1. \A d \in Backends \ {b} : new[d] = old[d]
    BY <1>6
  <2>2. new[b] = Append(old[b], c)
    BY <1>2, <1>6
  <2>3. new = [old EXCEPT ![b] = Append(@, c)]
    <3>1. DOMAIN new = Backends /\ DOMAIN old = Backends
      OBVIOUS
    <3>2. new = [d \in Backends |-> new[d]] /\ old = [d \in Backends |-> old[d]]
      OBVIOUS
    <3> HIDE DEF new, old
    <3> QED BY <1>2, <2>1, <2>2, <3>1, <3>2
  <2>4. [s \in Sessions |-> Asker(session[s])]' = [s \in Sessions |-> Asker(session[s])]
    BY <1>4, SameReaders
  <2> QED BY <2>3, <2>4 DEF Service!Install
<1> QED BY <1>2, <1>3, <1>7

(* A step of one session, seen from the service.                           *)
LEMMA OneReader ==
  ASSUME Types, NEW s \in Sessions, NEW state, session' = [session EXCEPT ![s] = state],
         NEW reader, reader = [t \in Sessions |-> Asker(session[t])]
  PROVE  [t \in Sessions |-> Asker(session[t])]' = [reader EXCEPT ![s] = Asker(state)]
BY DEF Types

LEMMA OpenSession ==
  ASSUME Types, NEW s \in Sessions, Start(s)
  PROVE  Service!Open(s)
<1> DEFINE R == [t \in Sessions |-> Asker(session[t])]
           state == [session[s] EXCEPT !.pc = "ready"]
<1>1. /\ session[s].pc = "new" /\ session[s] \in States
      /\ session' = [session EXCEPT ![s] = state] /\ UNCHANGED installed
  BY DEF Start, Types
<1>2. Asker(session[s]) = [pc |-> "new", since |-> 0, answers |-> session[s].batches]
  BY <1>1 DEF Asker
<1>3. Asker(state) = [pc |-> "ready", since |-> 0, answers |-> session[s].batches]
  BY <1>1 DEF Asker, States
<1>4. Asker(state) = [Asker(session[s]) EXCEPT !.pc = "ready"]
  BY <1>2, <1>3
<1> HIDE DEF state
<1>5. R' = [R EXCEPT ![s] = Asker(state)]
  BY <1>1, OneReader
<1>6. R[s] = Asker(session[s])
  OBVIOUS
<1> HIDE DEF R
<1>7. R[s].pc = "new" /\ R' = [R EXCEPT ![s].pc = "ready"]
  BY <1>2, <1>4, <1>5, <1>6
<1> QED BY <1>1, <1>7, SameHistory DEF Service!Open, Service!Become, R

LEMMA ReplaySession ==
  ASSUME Inv, NEW s \in Sessions, NEW g \in 1 .. MaxGeneration, Validate(s, g)
  PROVE  g \in DOMAIN Service!Catalog(s) /\ Service!Replay(s, g)
<1> DEFINE R == [t \in Sessions |-> Asker(session[t])]
           from == installed[SessionBackend[s]]
           header == Parse(from[g].file).table
           pc == IF Snapshot(s).catalog = header THEN "ready" ELSE "refused"
           state == [session[s] EXCEPT !.pc = pc, !.header = <<header>>]
<1>1. SessionBackend[s] \in Backends
  BY BackendAssumption
<1>2. /\ session[s].pc = "new" /\ session[s] \in States /\ g \in DOMAIN from
      /\ session' = [session EXCEPT ![s] = state] /\ UNCHANGED installed
  BY DEF Validate, Inv, Types
<1>3. from \in Seq(Versions) /\ Len(from) \in DOMAIN from
      /\ Snapshot(s).catalog = Parse(from[Len(from)].file).table
  BY <1>1 DEF Inv, Types, GenerationInv, ActiveIsNewest, IsGeneration, Snapshot
<1>4. Service!Catalog(s) = HistoryOf(from)
  BY <1>1 DEF Service!Catalog
<1>5. Asker(session[s]) = [pc |-> "new", since |-> 0, answers |-> session[s].batches]
  BY <1>2 DEF Asker
<1>6. pc \in {"ready", "refused"}
  OBVIOUS
<1>7. /\ HistoryOf(from)[g] = header
      /\ HistoryOf(from)[Len(HistoryOf(from))] = Snapshot(s).catalog
      /\ DOMAIN HistoryOf(from) = DOMAIN from
  BY <1>2, <1>3, HistoryFacts
<1>8. Service!Newest(s) = Len(HistoryOf(from))
  BY <1>4 DEF Service!Newest
<1>9. pc = IF Service!Catalog(s)[Service!Newest(s)] = Service!Catalog(s)[g]
           THEN "ready" ELSE "refused"
  BY <1>4, <1>7, <1>8
<1> HIDE DEF pc, header
<1>10. Asker(state) = [pc |-> pc, since |-> 0, answers |-> session[s].batches]
  BY <1>2, <1>6 DEF Asker, States
<1>11. Asker(state) = [Asker(session[s]) EXCEPT !.pc = pc]
  BY <1>5, <1>10
<1> HIDE DEF state
<1>12. R' = [R EXCEPT ![s] = Asker(state)]
  BY <1>2, OneReader DEF Inv
<1>13. R[s] = Asker(session[s])
  OBVIOUS
<1> HIDE DEF R
<1>14. R[s].pc = "new" /\ R' = [R EXCEPT ![s].pc = pc]
  BY <1>5, <1>11, <1>12, <1>13
<1>15. Service!Become(s, pc)
  BY <1>2, <1>14, SameHistory DEF Service!Become, R
<1> QED BY <1>2, <1>4, <1>7, <1>9, <1>15 DEF Service!Replay

(* A reader moves on: field by field, as the service says it, and with its *)
(* whole record replaced, as the session's step does it.                   *)
IsReader(r) == r = [pc |-> r.pc, since |-> r.since, answers |-> r.answers]
Replaced(R, s, r) == [R EXCEPT ![s] = r]
Moved(R, s, p, q) == [R EXCEPT ![s].pc = p, ![s].since = q]
Answered(R, s, p, q, b) ==
  [R EXCEPT ![s].pc = p, ![s].since = q, ![s].answers = Append(@, b)]

LEMMA MovedIsReplaced ==
  ASSUME NEW S, NEW T, NEW R \in [S -> T], NEW s \in S, IsReader(R[s]), NEW p, NEW q
  PROVE  Moved(R, s, p, q)
           = Replaced(R, s, [pc |-> p, since |-> q, answers |-> R[s].answers])
<1> DEFINE a == R[s].answers
<1>1. R[s] = [pc |-> R[s].pc, since |-> R[s].since, answers |-> a]
  BY DEF IsReader
<1> DEFINE r1 == [R[s] EXCEPT !.pc = p]
           r2 == [r1 EXCEPT !.since = q]
           R1 == [R EXCEPT ![s] = r1]
<1>2. r1 = [pc |-> p, since |-> R[s].since, answers |-> a]
  BY <1>1
<1>3. r2 = [pc |-> p, since |-> q, answers |-> a]
  <2> HIDE DEF r1
  <2> QED BY <1>2
<1>4. [R EXCEPT ![s].pc = p] = R1 /\ R1[s] = r1
  OBVIOUS
<1>5. Moved(R, s, p, q) = [R1 EXCEPT ![s].since = q]
  BY <1>4 DEF Moved
<1>6. [R1 EXCEPT ![s].since = q] = [R1 EXCEPT ![s] = r2]
  BY <1>4
<1>7. [R1 EXCEPT ![s] = r2] = [R EXCEPT ![s] = r2]
  OBVIOUS
<1> QED BY <1>3, <1>5, <1>6, <1>7 DEF Replaced

(* The readers that the sessions are, and the step of one of them.         *)
Readers == [t \in Sessions |-> Asker(session[t])]

LEMMA ReadersMove ==
  ASSUME NEW s \in Sessions, NEW p, NEW q
  PROVE  Moved(Readers, s, p, q)
           = Replaced(Readers, s, [pc |-> p, since |-> q, answers |-> Readers[s].answers])
<1> DEFINE T == {Asker(session[t]) : t \in Sessions}
<1>1. Readers \in [Sessions -> T]
  BY DEF Readers
<1>2. IsReader(Readers[s])
  BY DEF Readers, IsReader, Asker
<1> HIDE DEF T
<1> QED BY <1>1, <1>2, MovedIsReplaced

LEMMA ReadersAreAnswered ==
  ASSUME NEW s \in Sessions, NEW p, NEW q, NEW b
  PROVE  Answered(Readers, s, p, q, b)
           = Replaced(Readers, s, [pc |-> p, since |-> q,
                                   answers |-> Append(Readers[s].answers, b)])
<1> DEFINE a == Readers[s].answers
           c == Append(a, b)
           r2 == [pc |-> p, since |-> q, answers |-> a]
           R2 == [Readers EXCEPT ![s] = r2]
<1>1. Moved(Readers, s, p, q) = R2
  BY ReadersMove DEF Replaced
<1>2. Answered(Readers, s, p, q, b) = [R2 EXCEPT ![s].answers = Append(@, b)]
  <2> HIDE DEF R2
  <2> QED BY <1>1 DEF Answered, Moved
<1>3. R2[s] = r2 /\ r2.answers = a
  BY DEF Readers
<1>4. [R2 EXCEPT ![s].answers = Append(@, b)] = [R2 EXCEPT ![s] = [r2 EXCEPT !.answers = c]]
  <2> HIDE DEF r2
  <2> QED BY <1>3
<1>5. [r2 EXCEPT !.answers = c] = [pc |-> p, since |-> q, answers |-> c]
  <2> HIDE DEF c
  <2> QED OBVIOUS
<1>6. [R2 EXCEPT ![s] = [r2 EXCEPT !.answers = c]] = [Readers EXCEPT ![s] = [r2 EXCEPT !.answers = c]]
  OBVIOUS
<1> QED BY <1>2, <1>4, <1>5, <1>6 DEF Replaced

LEMMA OneReaderMoves ==
  ASSUME Types, NEW s \in Sessions, NEW state, session' = [session EXCEPT ![s] = state]
  PROVE  Readers' = Replaced(Readers, s, Asker(state)) /\ Readers[s] = Asker(session[s])
BY DEF Types, Readers, Replaced

LEMMA AskService ==
  ASSUME Inv, NEW s \in Sessions, TakeSnapshot(s)
  PROVE  Service!Ask(s)
<1> DEFINE from == installed[SessionBackend[s]]
           n == Len(from)
           state == [session[s] EXCEPT !.pc = "decoding", !.snapshot = <<Snapshot(s)>>]
<1>1. SessionBackend[s] \in Backends
  BY BackendAssumption
<1>2. /\ session[s].pc = "ready" /\ session[s] \in States
      /\ session' = [session EXCEPT ![s] = state] /\ UNCHANGED installed
  BY DEF TakeSnapshot, Inv, Types
<1>3. from \in Seq(Versions) /\ Snapshot(s).generation = n
  BY <1>1 DEF Inv, Types, GenerationInv, ActiveIsNewest, Snapshot
<1>4. Service!Newest(s) = n
  BY <1>1, <1>3, HistoryFacts DEF Service!Newest, Service!Catalog
<1>5. state.pc = "decoding" /\ state.snapshot[1] = Snapshot(s)
      /\ state.batches = session[s].batches
  BY <1>2 DEF States
<1> HIDE DEF state, from, n
<1>6. Asker(state) = [pc |-> "asking", since |-> n, answers |-> session[s].batches]
  BY <1>3, <1>5 DEF Asker
<1>7. Readers' = Replaced(Readers, s, Asker(state)) /\ Readers[s] = Asker(session[s])
  BY <1>2, OneReaderMoves DEF Inv
<1>8. Readers[s].pc = "ready" /\ Readers[s].answers = session[s].batches
  BY <1>2, <1>7 DEF Asker
<1>9. Readers' = Moved(Readers, s, "asking", n)
  <2>1. Moved(Readers, s, "asking", n)
          = Replaced(Readers, s, [pc |-> "asking", since |-> n, answers |-> Readers[s].answers])
    BY ReadersMove
  <2> QED BY <2>1, <1>6, <1>7, <1>8
<1> QED BY <1>2, <1>4, <1>8, <1>9, SameHistory DEF Service!Ask, Readers, Moved

LEMMA AnswerService ==
  ASSUME Inv, NEW s \in Sessions, NEW stream \in Streams, NEW opcode \in Opcodes,
         Decode(s, stream, opcode)
  PROVE  \E g \in DOMAIN Service!Catalog(s) : Service!Answer(s, g, stream, opcode)
<1> DEFINE from == installed[SessionBackend[s]]
           entry == session[s].snapshot[1]
           g == entry.generation
           batch == Batch(g, entry.catalog, stream, opcode)
           state == [session[s] EXCEPT !.pc = "ready", !.snapshot = <<>>,
                                       !.batches = Append(@, batch)]
           told == [generation |-> g, stream |-> stream, opcode |-> opcode,
                    name |-> Service!Name(Service!Catalog(s)[g], stream, opcode)]
<1>1. SessionBackend[s] \in Backends
  BY BackendAssumption
<1>2. /\ session[s].pc = "decoding" /\ session[s] \in States
      /\ session' = [session EXCEPT ![s] = state] /\ UNCHANGED installed
  BY DEF Decode, Inv, Types
<1>3. /\ from \in Seq(Versions) /\ g \in DOMAIN from
      /\ entry.catalog = Parse(from[g].file).table
  BY <1>1, <1>2 DEF Inv, Types, GenerationInv, SnapshotsAreGenerations, IsGeneration
<1>4. Service!Catalog(s) = HistoryOf(from)
  BY <1>1 DEF Service!Catalog
<1>5. g \in DOMAIN Service!Catalog(s) /\ Service!Catalog(s)[g] = entry.catalog
  BY <1>3, <1>4, HistoryFacts
<1>6. g >= g
  BY <1>3
<1>7. batch = told
  BY <1>5, SameName DEF Batch
<1>8. state.pc = "ready" /\ state.batches = Append(session[s].batches, batch)
  <2> HIDE DEF batch
  <2> QED BY <1>2 DEF States
<1> HIDE DEF state, from, batch, told
<1>9. Asker(state) = [pc |-> "ready", since |-> 0, answers |-> Append(session[s].batches, told)]
  BY <1>7, <1>8 DEF Asker
<1>10. Readers' = Replaced(Readers, s, Asker(state)) /\ Readers[s] = Asker(session[s])
  BY <1>2, OneReaderMoves DEF Inv
<1>11. /\ Readers[s].pc = "asking" /\ Readers[s].since = g
       /\ Readers[s].answers = session[s].batches
  BY <1>2, <1>10 DEF Asker
<1>12. Readers' = Answered(Readers, s, "ready", 0, told)
  <2>1. Answered(Readers, s, "ready", 0, told)
          = Replaced(Readers, s, [pc |-> "ready", since |-> 0,
                                  answers |-> Append(Readers[s].answers, told)])
    BY ReadersAreAnswered
  <2> QED BY <2>1, <1>9, <1>10, <1>11
<1>13. Service!Answer(s, g, stream, opcode)
  <2> HIDE DEF g
  <2> QED BY <1>2, <1>6, <1>11, <1>12, SameHistory
          DEF Service!Answer, Readers, Answered, told
<1> QED BY <1>5, <1>13

LEMMA StepImplementsService ==
  ASSUME Inv, AllParsed, [Next]_vars
  PROVE  [Service!Next]_(Service!serviceVars)
<1> DEFINE Done == [Service!Next]_(Service!serviceVars)
<1> SUFFICES Done
  OBVIOUS
<1>1. ASSUME UNCHANGED <<installed, session>> PROVE Done
  BY <1>1, SameHistory, SameReaders DEF Service!serviceVars
<1>2. ASSUME NEW b \in Backends, NEW file \in Files, Edit(b, file) PROVE Done
  <2> HIDE DEF Done
  <2> QED BY <1>1, <1>2 DEF Edit
<1>3. ASSUME NEW r \in Reloaders, NEW b \in Backends, NEW readable \in BOOLEAN,
             ReadCatalog(r, b, readable)
      PROVE  Done
  <2> HIDE DEF Done
  <2> QED BY <1>1, <1>3 DEF ReadCatalog
<1>4. ASSUME NEW r \in Reloaders, Replace(r) PROVE Done
  <2>1. \E b \in Backends, catalog \in SoundTables : Service!Install(b, catalog)
    BY <1>4, ReplaceInstalls
  <2> QED BY <2>1 DEF Service!Next
<1>5. ASSUME NEW s \in Sessions, Start(s) PROVE Done
  <2>1. Service!Open(s)
    BY <1>5, OpenSession DEF Inv
  <2> QED BY <2>1 DEF Service!Next
<1>6. ASSUME NEW s \in Sessions, TakeSnapshot(s) PROVE Done
  <2>1. Service!Ask(s)
    BY <1>6, AskService
  <2> QED BY <2>1 DEF Service!Next
<1>7. ASSUME NEW s \in Sessions, NEW g \in 1 .. MaxGeneration, Validate(s, g) PROVE Done
  <2>1. g \in DOMAIN Service!Catalog(s) /\ Service!Replay(s, g)
    BY <1>7, ReplaySession
  <2> QED BY <2>1 DEF Service!Next
<1>8. ASSUME NEW s \in Sessions, NEW stream \in Streams, NEW opcode \in Opcodes,
             Decode(s, stream, opcode)
      PROVE  Done
  <2>1. \E g \in DOMAIN Service!Catalog(s) : Service!Answer(s, g, stream, opcode)
    BY <1>8, AnswerService
  <2> QED BY <2>1 DEF Service!Next
<1>9. ASSUME UNCHANGED vars PROVE Done
  <2> HIDE DEF Done
  <2> QED BY <1>1, <1>9 DEF vars
<1> HIDE DEF Done
<1> QED BY <1>2, <1>3, <1>4, <1>5, <1>6, <1>7, <1>8, <1>9 DEF Next

(* Every step of the registry, of its reloaders and of its sessions is a   *)
(* step of the CatalogService or none: reading a file, or failing to, is   *)
(* invisible; the swap is the moment a catalog comes into use; and what a  *)
(* session makes of a packet, however many catalogs are swapped in         *)
(* meanwhile, is an answer from one that was in use since it asked (replace,*)
(* protocol-data lib.rs:440-473; decode_at, session lib.rs:385).           *)
THEOREM RegistryIsACatalogService == Spec => ImplementsCatalogService
<1>1. Inv /\ AllParsed /\ [Next]_vars => [Service!Next]_(Service!serviceVars)
  BY StepImplementsService
<1> QED BY <1>1, InitService, InvCorrect, ParsedStays, PTL
        DEF Spec, ImplementsCatalogService, Service!Spec

-----------------------------------------------------------------------------
(* Answers in order                                                        *)

(* To a session the registry never goes back: a packet decoded later is    *)
(* answered by the same catalog or a newer one, also when an older file    *)
(* was swapped in, which is then the newer generation (replace, protocol-  *)
(* data lib.rs:458-471; decode_at, session lib.rs:385).                    *)
GenerationsNeverGoBack ==
  \A s \in Sessions : \A i, j \in DOMAIN session[s].batches :
    i <= j => session[s].batches[i].generation <= session[s].batches[j].generation

(* A packet that is being decoded is answered by no older one either.      *)
NextIsNoOlder ==
  \A s \in Sessions :
    session[s].pc = "decoding" =>
      \A i \in DOMAIN session[s].batches :
        session[s].batches[i].generation <= session[s].snapshot[1].generation

OrderInv == GenerationsNeverGoBack /\ NextIsNoOlder

LEMMA OrderDecode ==
  ASSUME Inv, OrderInv, NEW s \in Sessions, NEW stream \in Streams, NEW opcode \in Opcodes,
         Decode(s, stream, opcode)
  PROVE  OrderInv'
<1> DEFINE g == session[s].snapshot[1].generation
           new == Batch(g, session[s].snapshot[1].catalog, stream, opcode)
           old == session[s].batches
<1>1. /\ session \in [Sessions -> States] /\ session[s].pc = "decoding"
      /\ \A t \in Sessions \ {s} : session'[t] = session[t]
      /\ session'[s].pc = "ready" /\ session'[s].batches = Append(old, new)
  BY DEF Decode, Inv, Types, States
<1>2. old \in Seq(Batches) /\ new.generation = g
  BY <1>1 DEF States, Batch
<1>3. g \in Nat
  <2>1. SessionBackend[s] \in Backends
    BY BackendAssumption
  <2>2. /\ installed[SessionBackend[s]] \in Seq(Versions)
        /\ g \in DOMAIN installed[SessionBackend[s]]
    BY <1>1, <2>1 DEF Inv, Types, GenerationInv, SnapshotsAreGenerations, IsGeneration
  <2> HIDE DEF g
  <2> QED BY <2>2
<1>4. /\ \A i \in DOMAIN old : old[i].generation <= g
      /\ \A i, j \in DOMAIN old : i <= j => old[i].generation <= old[j].generation
  BY <1>1 DEF OrderInv, GenerationsNeverGoBack, NextIsNoOlder
<1> HIDE DEF g, new, old
<1>5. \A i, j \in DOMAIN Append(old, new) :
        i <= j => Append(old, new)[i].generation <= Append(old, new)[j].generation
  <2> SUFFICES ASSUME NEW i \in DOMAIN Append(old, new), NEW j \in DOMAIN Append(old, new),
                      i <= j
               PROVE  Append(old, new)[i].generation <= Append(old, new)[j].generation
    OBVIOUS
  <2> DEFINE n == Len(old)
  <2>1. /\ n \in Nat /\ DOMAIN old = 1 .. n /\ i \in 1 .. n + 1 /\ j \in 1 .. n + 1
        /\ Append(old, new)[n + 1] = new
        /\ \A k \in 1 .. n : Append(old, new)[k] = old[k]
    BY <1>2
  <2> HIDE DEF n
  <2>2. CASE j \in 1 .. n
    BY <1>4, <2>1, <2>2
  <2>3. CASE j = n + 1 /\ i \in 1 .. n
    BY <1>2, <1>4, <2>1, <2>3
  <2>4. CASE j = n + 1 /\ i = n + 1
    BY <1>2, <1>3, <2>1, <2>4
  <2> QED BY <2>1, <2>2, <2>3, <2>4
<1>6. GenerationsNeverGoBack'
  BY <1>1, <1>5 DEF OrderInv, GenerationsNeverGoBack
<1>7. NextIsNoOlder'
  BY <1>1 DEF OrderInv, NextIsNoOlder
<1> QED BY <1>6, <1>7 DEF OrderInv

LEMMA OrderTakeSnapshot ==
  ASSUME Inv, OrderInv, NEW s \in Sessions, TakeSnapshot(s)
  PROVE  OrderInv'
<1> DEFINE from == installed[SessionBackend[s]]
<1>1. /\ session \in [Sessions -> States]
      /\ \A t \in Sessions \ {s} : session'[t] = session[t]
      /\ session'[s].snapshot = <<Snapshot(s)>> /\ session'[s].batches = session[s].batches
  BY DEF TakeSnapshot, Inv, Types, States
<1>2. SessionBackend[s] \in Backends
  BY BackendAssumption
<1>3. from \in Seq(Versions) /\ Snapshot(s).generation = Len(from)
  BY <1>2 DEF Inv, Types, GenerationInv, ActiveIsNewest, Snapshot
<1>4. \A i \in DOMAIN session[s].batches : session[s].batches[i].generation \in DOMAIN from
  BY DEF Inv, GenerationInv, BatchesNameTheirGeneration
<1> HIDE DEF from
<1>5. \A i \in DOMAIN session[s].batches : session[s].batches[i].generation <= Len(from)
  BY <1>3, <1>4
<1>6. session'[s].snapshot[1].generation = Len(from)
  BY <1>1, <1>3
<1>7. NextIsNoOlder'
  BY <1>1, <1>5, <1>6 DEF OrderInv, NextIsNoOlder
<1>8. GenerationsNeverGoBack'
  BY <1>1 DEF OrderInv, GenerationsNeverGoBack
<1> QED BY <1>7, <1>8 DEF OrderInv

(* A step that adds no batch and takes no snapshot.                        *)
LEMMA OrderElse ==
  ASSUME OrderInv,
         \A s \in Sessions : /\ session'[s].batches = session[s].batches
                             /\ session'[s].pc = "decoding" => session'[s] = session[s]
  PROVE  OrderInv'
BY DEF OrderInv, GenerationsNeverGoBack, NextIsNoOlder

LEMMA OrderPreserved == Inv /\ OrderInv /\ [Next]_vars => OrderInv'
<1> SUFFICES ASSUME Inv, OrderInv, [Next]_vars PROVE OrderInv'
  OBVIOUS
<1>1. CASE UNCHANGED session
  BY <1>1, OrderElse
<1>2. ASSUME NEW s \in Sessions, Start(s) PROVE OrderInv'
  BY <1>2, OrderElse DEF Start, Inv, Types, States
<1>3. ASSUME NEW s \in Sessions, NEW g \in 1 .. MaxGeneration, Validate(s, g)
      PROVE  OrderInv'
  <2> DEFINE header == Parse(installed[SessionBackend[s]][g].file).table
             pc == IF Snapshot(s).catalog = header THEN "ready" ELSE "refused"
  <2>1. session' = [session EXCEPT ![s].pc = pc, ![s].header = <<header>>]
    BY <1>3 DEF Validate
  <2>2. pc # "decoding"
    OBVIOUS
  <2> HIDE DEF pc, header
  <2>3. \A t \in Sessions : /\ session'[t].batches = session[t].batches
                            /\ session'[t].pc = "decoding" => session'[t] = session[t]
    BY <2>1, <2>2 DEF Inv, Types, States
  <2> QED BY <2>3, OrderElse
<1> QED BY <1>1, <1>2, <1>3, OrderDecode, OrderTakeSnapshot
        DEF Next, Edit, ReadCatalog, Replace, vars

(* However reloads, edits and packets interleave, for any number of        *)
(* threads, files and generations, a session is never answered by an older *)
(* catalog than before.                                                    *)
THEOREM AnswersStayInOrder == Spec => []GenerationsNeverGoBack
<1>1. Init => OrderInv
  BY DEF Init, NewSession, OrderInv, GenerationsNeverGoBack, NextIsNoOlder
<1>2. OrderInv => GenerationsNeverGoBack
  BY DEF OrderInv
<1> QED BY <1>1, <1>2, OrderPreserved, InvCorrect, PTL DEF Spec
===============================================================================
