------------------------------ MODULE MCTraces ------------------------------
(* Two catalogs that disagree on an opcode, traces of up to two packets,   *)
(* and two tools: enough for a golden of one trace to be checked against   *)
(* another or against the same one scrubbed, and for a check to run while  *)
(* the golden is written; one reload, which can fall anywhere between two  *)
(* traces, two packets, or the push of one and its decode_at.              *)
EXTENDS Traces

MCCatalogs == {[o \in {1} |-> "A"], [o \in {1} |-> "B"]}
MCPayloads == {<<"a", Nul, Binary>>}
ToolSymmetry == Permutations(Tools)
MCLetters  == {"a", Scrubbed}

(* A name, which A publishes, and whether it was announced before: the     *)
(* letters of one packet in the answer to another.                         *)
MCEvents(seen, taken) ==
  [text  |-> IF taken.name = "A" THEN taken.payload ELSE <<>>,
   known |-> \E i \in DOMAIN seen : seen[i] = [taken EXCEPT !.timestamp = seen[i].timestamp]]
=============================================================================
