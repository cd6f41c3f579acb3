--------------------------- MODULE MCCommunication ---------------------------
(* Two peer slots and three names, one of them the player's: the slots fill *)
(* up, and overflow while the player is unknown.  Rosters list all, repeat  *)
(* a name, leave an empty field or list one.  Two guilds, one group id.     *)
(* Two guild packets with a status: a roster and a delta in either order.   *)
EXTENDS Communication

MCNames == {"me", "ann", "bob"}
MCRosters == {<<"me", "bob", "ann">>, <<"ann", "", "ann">>, <<"bob">>}
MCMembers == {{"me"}, {"me", "ann"}}
=============================================================================
