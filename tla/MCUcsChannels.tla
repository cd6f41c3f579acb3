---------------------------- MODULE MCUcsChannels ----------------------------
(* Four channels: the crib, one with a long name, one too short to be      *)
(* known by its last letters, and one whose second letter is uppercase, so *)
(* that it passes for a whole name before the mask is known.  The masks    *)
(* make the first letter unprintable, another letter or one beyond ASCII,  *)
(* or, when one is taken for the other, a wrong letter.  Headers without a *)
(* NUL, with a printable end, and with a NUL at either end.  Words in the  *)
(* clear: the channels, one of them in lowercase, once in a line of chat   *)
(* of that very channel, and a word that ends like another.                *)
EXTENDS UcsChannels

NewPlayers == <<78, 101, 119, 80, 108, 97, 121, 101, 114, 115>>
Raid       == <<82, 97, 105, 100>>
LFTraders  == <<76, 70, 84, 114, 97, 100, 101, 114, 115>>

Lowercase  == <<103, 101, 110, 101, 114, 97, 108>>
Traders    == <<120, 95, 114, 97, 100, 101, 114, 115>>

MCChannels == {General, NewPlayers, Raid, LFTraders}
MCMasks    == {6, 7, 64, 224}

Printed == <<1, 2, 3, 72>>
Headers == {<<1, 2, 3, 4>>, Printed, <<0, 2, 3, 4>>, <<1, 2, 3, 0>>}
Chat(c, h, legible) == [channel |-> c, header |-> h, legible |-> legible]

MCPayloads ==
  [long : {TRUE}, clear : {{}}, chat : {<<Chat(c, h, TRUE)>> : c \in MCChannels, h \in Headers \ {Printed}}]
    \cup [long : {TRUE}, clear : {{General}}, chat : {<<>>}]
    \cup {[long |-> TRUE, clear |-> {Raid, LFTraders},
           chat |-> <<Chat(LFTraders, <<1, 2, 3, 4>>, TRUE), Chat(General, <<1, 2, 3, 4>>, FALSE),
                      Chat(General, Printed, TRUE)>>],
          [long |-> TRUE, clear |-> {Lowercase, Traders}, chat |-> <<Chat(General, <<1, 2, 3, 4>>, TRUE)>>],
          [long |-> FALSE, clear |-> {}, chat |-> <<>>]}
=============================================================================
