---------------------------- MODULE SessionCaches ----------------------------
(***************************************************************************)
(* The caches a session keeps beside identity, combat and communication,   *)
(* under the lifecycle they share: any packet of either, and the resets,   *)
(* which clear both before the event that caused them (reset_correlations  *)
(* and flush, seq-session/src/lib.rs).                                     *)
(***************************************************************************)
EXTENDS EntityIndex, Progression

vars == <<entityVars, progressVars>>

Init == EntityInit /\ ProgressInit

(* Re-entry or a profile: another zone, or the same one anew.              *)
Enter == ProgressBoundary /\ LeaveZone

(* A confirmed zone transition, or a flush for one.                        *)
ZoneTransition == ForgetProgress /\ LeaveZone

(* An explicit reset, shutdown or end of replay: the zone stays as it is.  *)
Flush == ForgetProgress /\ StayInZone

Next ==
  \/ EntityPacket /\ UNCHANGED progressVars
  \/ ProgressPacket /\ UNCHANGED entityVars
  \/ Enter
  \/ ZoneTransition
  \/ Flush

Spec == Init /\ [][Next]_vars
=============================================================================
