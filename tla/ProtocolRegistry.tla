-------------------------- MODULE ProtocolRegistry --------------------------
(***************************************************************************)
(* The registry of opcode catalogs (seq-protocol-data) as threads share    *)
(* it: hosts edit the catalog files, reloaders read one, parse it and swap *)
(* it in under the write lock, and sessions take a snapshot under the read *)
(* lock for every packet.  A session either decodes live packets or        *)
(* replays a trace (seq-trace), whose catalog hash is validated first.     *)
(*                                                                         *)
(* Reading and parsing happen outside the lock, so the steps of Reloaders  *)
(* and Sessions interleave.  A lock is held within one step only.  The     *)
(* content hash stands for the catalog it is computed from; rows of the    *)
(* two streams are kept apart as in the file; the payload decoder behind   *)
(* the lookup is in PlayerSession, LootTracker and Communication.          *)
(***************************************************************************)
EXTENDS Integers, FiniteSets, Sequences

CONSTANTS Backends,       \* BackendId
          Reloaders,      \* threads that reload
          Sessions,       \* sessions, each driven by one thread
          SessionBackend, \* the backend of each
          Opcodes,        \* numeric ids, the placeholder included
          Unmapped,       \* 0xffff: "not mapped on this patch"
          Malformed,      \* an id that is not hexadecimal
          Files,          \* contents of catalog files
          First,          \* the one at construction
          MaxEdits, MaxGeneration, MaxBatches   \* bounds

Streams == {"world", "zone"}

ASSUME BackendAssumption == SessionBackend \in [Sessions -> Backends]
ASSUME OpcodesAssumption == Unmapped \in Opcodes /\ Malformed \notin Opcodes
ASSUME FilesAssumption ==
  \A file \in Files, s \in Streams : file[s] \in Seq([id : Nat, name : STRING])
ASSUME FirstAssumption == First \in Files
ASSUME BoundsAssumption == {MaxEdits, MaxGeneration, MaxBatches} \subseteq Nat

VARIABLES
  disk,       \* the file of each backend, and how often it was edited
  active,     \* ProtocolRegistry.catalogs: generation and catalog
  reload,     \* each reloader: idle, or the catalog it has parsed
  session,    \* each session: its replay header, its snapshot and batches
  installed,  \* history: for each backend the [file, edit] of every generation
  overlap     \* history: backends whose reloads overlapped since the last edit

vars == <<disk, active, reload, session, installed, overlap>>

-----------------------------------------------------------------------------
(* Catalog::parse                                                          *)

Rejected == [ok |-> FALSE, by_id |-> <<>>]
Put(f, id, name) == [i \in DOMAIN f \cup {id} |-> IF i = id THEN name ELSE f[i]]

(* A slip: two rows of a stream may have one name.                         *)
ValidateRowAnyName(table, row) ==
  IF ~table.ok \/ row.id = Malformed \/ row.name = "" THEN Rejected
  ELSE IF row.id = Unmapped THEN table
  ELSE IF row.id \in DOMAIN table.by_id THEN Rejected
  ELSE [table EXCEPT !.by_id = Put(@, row.id, row.name)]

(* One row of validate_stream.  Its id and name are checked even if it is  *)
(* a placeholder, which is then left out.                                  *)
ValidateRow(table, row) ==
  IF ~table.ok \/ row.id = Malformed \/ row.name = "" THEN Rejected
  ELSE IF row.id = Unmapped THEN table
  ELSE IF \E id \in DOMAIN table.by_id : id = row.id \/ table.by_id[id] = row.name
       THEN Rejected
  ELSE [table EXCEPT !.by_id = Put(@, row.id, row.name)]

(* validate_stream: the rows in order, from an empty table.                *)
ValidateStream(rows) ==
  LET table[n \in 0 .. Len(rows)] ==
        IF n = 0 THEN [ok |-> TRUE, by_id |-> <<>>] ELSE ValidateRow(table[n - 1], rows[n])
  IN  table[Len(rows)]

Parse(file) ==
  LET tables == [s \in Streams |-> ValidateStream(file[s])]
  IN  [ok |-> /\ \A s \in Streams : tables[s].ok
              /\ \E s \in Streams : DOMAIN tables[s].by_id # {},
       table |-> [s \in Streams |-> tables[s].by_id]]

(* Without a first catalog there is no registry (embedded).                *)
ASSUME EmbeddedAssumption == Parse(First).ok

LookUp(catalog, stream, opcode) ==
  IF opcode \in DOMAIN catalog[stream] THEN catalog[stream][opcode] ELSE ""

-----------------------------------------------------------------------------
(* Reload                                                                  *)

FirstFile == [file |-> First, edit |-> 0]

Idle == [busy |-> FALSE]
Busy(b) == {r \in Reloaders : reload[r].busy /\ reload[r].backend = b}

(* A host saves the file.                                                  *)
Edit(b, file) ==
  /\ disk[b].edit < MaxEdits
  /\ disk' = [disk EXCEPT ![b] = [file |-> file, edit |-> @.edit + 1]]
  /\ overlap' = overlap \ {b}
  /\ UNCHANGED <<active, reload, session, installed>>

(* What a reloader carries to the lock; `seen` and `from` are history: the *)
(* generation in use when the file was read, and which file that was.      *)
Parsed(b, from) ==
  [busy |-> TRUE, backend |-> b, catalog |-> Parse(from.file).table,
   seen |-> active[b].generation, from |-> from]

(* The bound: a reload that has begun can always end.                      *)
MayReload(b) == Len(installed[b]) + Cardinality(Busy(b)) < MaxGeneration

MarkOverlap(b) == overlap' = IF Busy(b) = {} THEN overlap ELSE overlap \cup {b}

(* A slip: a file that cannot be read is taken to be the embedded one.     *)
ReadCatalogOrEmbedded(r, b, readable) ==
  LET from == IF readable THEN disk[b] ELSE FirstFile
  IN  /\ ~reload[r].busy /\ MayReload(b)
      /\ Parse(from.file).ok
      /\ reload' = [reload EXCEPT ![r] = Parsed(b, from)]
      /\ MarkOverlap(b)
      /\ UNCHANGED <<disk, active, session, installed>>

(* reload_backend_from_directory up to the lock.  A file that cannot be    *)
(* read or does not parse returns an error, and nothing has happened.      *)
ReadCatalog(r, b, readable) ==
  /\ ~reload[r].busy /\ MayReload(b)
  /\ readable /\ Parse(disk[b].file).ok
  /\ reload' = [reload EXCEPT ![r] = Parsed(b, disk[b])]
  /\ MarkOverlap(b)
  /\ UNCHANGED <<disk, active, session, installed>>

NextGeneration(r) == active[reload[r].backend].generation + 1

(* A slip: the read lock is held for the whole of a packet.                *)
ReplaceBetweenPackets(r) ==
  LET b == reload[r].backend
  IN  /\ reload[r].busy
      /\ \A s \in Sessions : session[s].pc # "decoding"
      /\ active' = [active EXCEPT ![b] = [generation |-> NextGeneration(r),
                                          catalog |-> reload[r].catalog]]
      /\ installed' = [installed EXCEPT ![b] = Append(@, reload[r].from)]
      /\ reload' = [reload EXCEPT ![r] = Idle]
      /\ UNCHANGED <<disk, session, overlap>>

(* replace: under the write lock.                                          *)
Replace(r) ==
  LET b == reload[r].backend
  IN  /\ reload[r].busy
      /\ active' = [active EXCEPT ![b] = [generation |-> NextGeneration(r),
                                          catalog |-> reload[r].catalog]]
      /\ installed' = [installed EXCEPT ![b] = Append(@, reload[r].from)]
      /\ reload' = [reload EXCEPT ![r] = Idle]
      /\ UNCHANGED <<disk, session, overlap>>

-----------------------------------------------------------------------------
(* Sessions                                                                *)

(* A batch says which generation it was decoded under, and under what name; *)
(* an unmapped packet has none.                                             *)
NewSession == [pc |-> "new", header |-> <<>>, snapshot |-> <<>>, batches |-> <<>>]

Snapshot(s) == active[SessionBackend[s]]

(* Session::new for packets as they come.                                  *)
Start(s) ==
  /\ session[s].pc = "new"
  /\ session' = [session EXCEPT ![s].pc = "ready"]
  /\ UNCHANGED <<disk, active, reload, installed, overlap>>

(* replay, up to the first packet: the trace is of some catalog that was   *)
(* active when it was recorded, and is refused unless it is active now.    *)
Validate(s, generation) ==
  /\ session[s].pc = "new"
  /\ generation \in DOMAIN installed[SessionBackend[s]]
  /\ LET header == Parse(installed[SessionBackend[s]][generation].file).table
     IN  session' = [session EXCEPT
           ![s].pc = IF Snapshot(s).catalog = header THEN "ready" ELSE "refused",
           ![s].header = <<header>>]
  /\ UNCHANGED <<disk, active, reload, installed, overlap>>

(* decode_at, first half: the snapshot is taken under the read lock.       *)
TakeSnapshot(s) ==
  /\ session[s].pc = "ready"
  /\ Len(session[s].batches) < MaxBatches
  /\ session' = [session EXCEPT ![s].pc = "decoding", ![s].snapshot = <<Snapshot(s)>>]
  /\ UNCHANGED <<disk, active, reload, installed, overlap>>

Batch(generation, catalog, stream, opcode) ==
  [generation |-> generation, stream |-> stream, opcode |-> opcode,
   name |-> LookUp(catalog, stream, opcode)]

(* A slip: the batch asks the registry for its generation once more.       *)
DecodeAskingAgain(s, stream, opcode) ==
  /\ session[s].pc = "decoding"
  /\ session' = [session EXCEPT
       ![s].pc = "ready", ![s].snapshot = <<>>,
       ![s].batches = Append(@, Batch(Snapshot(s).generation,
                                      session[s].snapshot[1].catalog, stream, opcode))]
  /\ UNCHANGED <<disk, active, reload, installed, overlap>>

(* decode_at, second half: the lookup is in the snapshot.                  *)
Decode(s, stream, opcode) ==
  /\ session[s].pc = "decoding"
  /\ session' = [session EXCEPT
       ![s].pc = "ready", ![s].snapshot = <<>>,
       ![s].batches = Append(@, Batch(session[s].snapshot[1].generation,
                                      session[s].snapshot[1].catalog, stream, opcode))]
  /\ UNCHANGED <<disk, active, reload, installed, overlap>>

-----------------------------------------------------------------------------
Init ==
  /\ disk = [b \in Backends |-> FirstFile]
  /\ active = [b \in Backends |-> [generation |-> 1, catalog |-> Parse(First).table]]
  /\ reload = [r \in Reloaders |-> Idle]
  /\ session = [s \in Sessions |-> NewSession]
  /\ installed = [b \in Backends |-> <<FirstFile>>]
  /\ overlap = {}

Next ==
  \/ \E b \in Backends, file \in Files : Edit(b, file)
  \/ \E r \in Reloaders, b \in Backends, readable \in BOOLEAN : ReadCatalog(r, b, readable)
  \/ \E r \in Reloaders : Replace(r)
  \/ \E s \in Sessions : Start(s) \/ TakeSnapshot(s)
  \/ \E s \in Sessions, g \in 1 .. MaxGeneration : Validate(s, g)
  \/ \E s \in Sessions, stream \in Streams, opcode \in Opcodes : Decode(s, stream, opcode)

Spec == Init /\ [][Next]_vars

(* A reloader's thread runs, and gets the write lock: readers hold theirs  *)
(* only to copy an Arc.  Nothing is asked of sessions, hosts, or of anyone *)
(* to begin a reload.                                                      *)
FairSpec == Spec /\ \A r \in Reloaders : WF_vars(Replace(r))

-----------------------------------------------------------------------------
(* Properties                                                              *)

(* What the tables of a file are, said without going through its rows in   *)
(* order: the mapped rows, if no id and no name is given twice and no row, *)
(* placeholders included, is malformed.                                    *)
Mapped(rows) == {i \in DOMAIN rows : rows[i].id # Unmapped}

IsSound(rows) ==
  /\ \A i \in DOMAIN rows : rows[i].id # Malformed /\ rows[i].name # ""
  /\ \A i, j \in Mapped(rows) :
        rows[i].id = rows[j].id \/ rows[i].name = rows[j].name => i = j

Says(file, catalog) ==
  /\ \A s \in Streams : IsSound(file[s])
  /\ \A s \in Streams :
        /\ DOMAIN catalog[s] = {file[s][i].id : i \in Mapped(file[s])}
        /\ \A i \in Mapped(file[s]) : catalog[s][file[s][i].id] = file[s][i].name
  /\ \E s \in Streams : DOMAIN catalog[s] # {}

(* The catalog in use is, for every backend and at all times, exactly what *)
(* one complete and sound file of that backend said: a failed read or      *)
(* parse leaves the last good one (architecture.md:59-61, protocol-data    *)
(* lib.rs:136-151, 203-261, 440-473).                                      *)
ActiveIsWhatItsFileSaid ==
  \A b \in Backends : Says(installed[b][Len(installed[b])].file, active[b].catalog)

(* A batch belongs to one generation: the name its packet was decoded      *)
(* under is what the catalog installed as that generation says, whatever   *)
(* was swapped in between the lookup and the answer (session lib.rs:385).  *)
BatchesNameTheirGeneration ==
  \A s \in Sessions : \A i \in DOMAIN session[s].batches :
    LET batch == session[s].batches[i]
        from  == installed[SessionBackend[s]]
    IN  /\ batch.generation \in DOMAIN from
        /\ batch.name = LookUp(Parse(from[batch.generation].file).table,
                               batch.stream, batch.opcode)

(* To a session the registry is a CatalogService: one history of catalogs, *)
(* each that of a file that parses, and each packet answered by one of     *)
(* them that was in use while it was decoded (protocol-data lib.rs:440-473,*)
(* session lib.rs:385).                                                    *)
Asker(state) ==
  [pc |-> IF state.pc = "decoding" THEN "asking" ELSE state.pc,
   since |-> IF state.pc = "decoding" THEN state.snapshot[1].generation ELSE 0,
   answers |-> state.batches]

TableOf == [file \in Files |-> Parse(file).table]
SoundTables == {TableOf[file] : file \in {f \in Files : Parse(f).ok}}
HistoryOf(from) == [g \in DOMAIN from |-> TableOf[from[g].file]]

Service == INSTANCE CatalogService WITH
  Catalogs <- SoundTables,
  Embedded <- TableOf[First],
  history <- [b \in Backends |-> HistoryOf(installed[b])],
  reader <- [s \in Sessions |-> Asker(session[s])]

ImplementsCatalogService == Service!Spec

(* Once a file is no longer edited, a reload that began and ended after    *)
(* the edit leaves it in use.  An older file in use means that no reload   *)
(* has read this one, or that two reloads overlapped: then the slower      *)
(* brings the older file back as the newer generation.                     *)
OlderFileOnlyAfterOverlap ==
  \A b \in Backends :
    LET from == installed[b]
    IN  (\E g \in DOMAIN from : from[g] = disk[b]) /\ from[Len(from)] # disk[b] =>
          b \in overlap

(* A reload that has read the file on disk puts it in use, unless the file *)
(* is edited again or another reload overlaps it; a session that stops in  *)
(* the middle of a packet does not hold it up (replace, lib.rs:440-473).   *)
ReloadsTakeEffect ==
  \A r \in Reloaders, b \in Backends, edit \in 0 .. MaxEdits :
    (reload[r].busy /\ reload[r].backend = b /\ reload[r].from.edit = edit)
      ~> \/ installed[b][Len(installed[b])].edit = edit
         \/ disk[b].edit # edit
         \/ b \in overlap
=============================================================================
