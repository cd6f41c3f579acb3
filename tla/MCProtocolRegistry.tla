-------------------------- MODULE MCProtocolRegistry --------------------------
(* Two reloaders and one session of one backend, two edits and three       *)
(* installs: enough for two reloads to overtake each other around an edit  *)
(* while the session is between its snapshot and its lookup.  The files    *)
(* are sound ones, and one for each way not to be.                         *)
EXTENDS ProtocolRegistry

Row(id, name) == [id |-> id, name |-> name]
File(zone, world) == [zone |-> zone, world |-> world]

MCFirst == File(<<Row(1, "A"), Row(2, "B")>>, <<Row(1, "B")>>)
MCFiles ==
  {MCFirst,
   File(<<Row(1, "B"), Row(0, "A"), Row(0, "C")>>, <<>>),
   File(<<Row(1, "A"), Row(1, "B")>>, <<Row(2, "A")>>),
   File(<<Row(1, "A")>>, <<Row(1, "A"), Row(2, "A")>>),
   File(<<Row(0, "A")>>, <<Row(0, "A")>>),
   File(<<Row(1, "A")>>, <<Row(0, "")>>),
   File(<<Row(9, "A"), Row(1, "B")>>, <<>>)}
MCBackends == {"eql"}
MCSessionBackend == [s \in Sessions |-> "eql"]
=============================================================================
