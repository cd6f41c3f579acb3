---------------------------- MODULE CatalogService ----------------------------
(***************************************************************************)
(* What the opcode catalogs promise a session, apart from files, locks and *)
(* threads.                                                                *)
(*                                                                         *)
(* `history` has, for each backend, every catalog that was ever in use, in *)
(* order: a generation is a place in it, and the last one is in use.  A    *)
(* reader asks about one packet at a time.  The answer names a generation  *)
(* that was in use at some moment since it asked, and is what the catalog  *)
(* of that generation says of the packet; a reader that asks later is      *)
(* never answered from an older catalog.                                   *)
(***************************************************************************)
EXTENDS Naturals, Sequences

CONSTANTS Backends, Sessions, SessionBackend, Streams, Opcodes,
          Catalogs,   \* what may be put in use
          Embedded    \* what is in use at first

VARIABLES history,    \* the catalogs of each backend
          reader      \* each session: since which generation it asks, answers

serviceVars == <<history, reader>>

Catalog(s) == history[SessionBackend[s]]
Newest(s) == Len(Catalog(s))

Name(catalog, stream, opcode) ==
  IF opcode \in DOMAIN catalog[stream] THEN catalog[stream][opcode] ELSE ""

Init ==
  /\ history = [b \in Backends |-> <<Embedded>>]
  /\ reader = [s \in Sessions |-> [pc |-> "new", since |-> 0, answers |-> <<>>]]

(* A catalog comes into use.                                               *)
Install(b, catalog) ==
  /\ history' = [history EXCEPT ![b] = Append(@, catalog)]
  /\ UNCHANGED reader

Become(s, pc) ==
  /\ reader[s].pc = "new"
  /\ reader' = [reader EXCEPT ![s].pc = pc]
  /\ UNCHANGED history

(* A session of live packets, and a trace of an earlier generation, which  *)
(* is read if its catalog is the one in use.                               *)
Open(s) == Become(s, "ready")
Replay(s, g) ==
  Become(s, IF Catalog(s)[Newest(s)] = Catalog(s)[g] THEN "ready" ELSE "refused")

Ask(s) ==
  /\ reader[s].pc = "ready"
  /\ reader' = [reader EXCEPT ![s].pc = "asking", ![s].since = Newest(s)]
  /\ UNCHANGED history

Answer(s, g, stream, opcode) ==
  /\ reader[s].pc = "asking"
  /\ g >= reader[s].since
  /\ reader' = [reader EXCEPT
       ![s].pc = "ready", ![s].since = 0,
       ![s].answers = Append(@, [generation |-> g, stream |-> stream, opcode |-> opcode,
                                 name |-> Name(Catalog(s)[g], stream, opcode)])]
  /\ UNCHANGED history

Next ==
  \/ \E b \in Backends, catalog \in Catalogs : Install(b, catalog)
  \/ \E s \in Sessions : Open(s) \/ Ask(s)
  \/ \E s \in Sessions : \E g \in DOMAIN Catalog(s) :
       \/ Replay(s, g)
       \/ \E stream \in Streams, opcode \in Opcodes : Answer(s, g, stream, opcode)

Spec == Init /\ [][Next]_serviceVars
=============================================================================
