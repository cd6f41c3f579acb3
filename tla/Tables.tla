------------------------------- MODULE Tables -------------------------------
(***************************************************************************)
(* The large match expressions of the source are written as tables, family *)
(* by family: functions from an opcode or a kind of event to what its arm  *)
(* says.  Merged puts the families together.                               *)
(***************************************************************************)
EXTENDS Naturals, Sequences

\* The entry of the family x is in, and every x of a family.
Merged(families) ==
    [x \in UNION {DOMAIN families[i] : i \in DOMAIN families} |->
       families[CHOOSE i \in DOMAIN families : x \in DOMAIN families[i]][x]]
=============================================================================
