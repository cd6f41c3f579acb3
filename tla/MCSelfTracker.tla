---------------------------- MODULE MCSelfTracker ----------------------------
(* Five consecutive ids with a batch window of one: every pair of ids is    *)
(* inside one window, at its edge, or in another zone's range, and windows  *)
(* overlap.  Two snapshot values let a newer packet replace an older one.   *)
EXTENDS SelfTracker

MCIds == 1..5
MCSameBatch == 1
MCValues == {1, 2}
=============================================================================
