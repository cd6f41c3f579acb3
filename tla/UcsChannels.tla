----------------------------- MODULE UcsChannels -----------------------------
(***************************************************************************)
(* The names of cross-zone chat channels: UCS records of one EQL session   *)
(* (seq-backend-eql/src/ucs_chat.rs, Session::decode_ucs).  A line says in *)
(* the clear all of its channel's name but the first letter, which is      *)
(* masked by a byte the connection chose; a NUL that happens to be in the  *)
(* masked header before it shifts where the record seems to begin.         *)
(*                                                                         *)
(* A session learns the mask from the channel everybody is in, General,    *)
(* and names from rosters and notices, or from whatever else a payload has *)
(* in the clear that reads like one: the text of a line of chat too, whose *)
(* author may write a name in any casing.  The connection outlives the     *)
(* session's resets, and may be made anew with another mask, which the     *)
(* session is not told.  Names are sequences of bytes; senders, texts and  *)
(* the keyless encryption that wraps the payload are left out.             *)
(***************************************************************************)
EXTENDS Integers, Sequences, FiniteSetsExt

CONSTANTS Channels,       \* names of the channels there are
          Payloads,       \* payloads: names in the clear, then chat records
          Masks,          \* masks a connection may choose
          MaxConnections  \* bound

General == <<71, 101, 110, 101, 114, 97, 108>>
Crib    == Tail(General)

ASSUME GeneralAssumption == General \in Channels

\* Names are of visible ASCII letters, so a letter is a byte of the String.
ASSUME ChannelsAssumption == Channels \subseteq Seq(33 .. 126) \ {<<>>}

Header == {h \in Seq(0 .. 255) : Len(h) = 4}
Record == [channel : Channels, header : Header, legible : BOOLEAN]

\* In the clear: what stands between = and (, or after joined or channel, in the
\* decoded payload, whether or not there is a channel of that name.
ASSUME PayloadsAssumption ==
  \A p \in Payloads : p.clear \subseteq Seq(33 .. 126) /\ p.chat \in Seq(Record)

VARIABLES
  mask,        \* CommunicationState.ucs_mask: <<>> or <<byte>>
  known,       \* ucs_known_channels
  connection,  \* external: [number, mask] of the connection
  disposition, \* of the last payload
  messages,    \* history: channel and published name of each of its messages
  heard        \* history: the words learned in the clear since the last reset

ucs_vars == <<mask, known, connection, disposition, messages, heard>>

Directions == {"server", "client"}

-----------------------------------------------------------------------------
(* What a name or a field of a payload is made of                          *)

Printable(c)      == c \in 32 .. 126 \/ c >= 160
IsGraphic(c)      == c \in 33 .. 126
IsUppercase(c)    == c \in 65 .. 90

SameEnd(k, left, right) ==   \* the last k letters agree
  /\ k <= Len(left) /\ k <= Len(right)
  /\ \A i \in 0 .. k - 1 : left[Len(left) - i] = right[Len(right) - i]

SharedSuffixLen(left, right) ==
  CHOOSE k \in 0 .. Len(left) : SameEnd(k, left, right) /\ ~SameEnd(k + 1, left, right)

Ends(suffix, whole) == SameEnd(Len(suffix), suffix, whole)

Xor(a, b) ==   \* of two bytes
  LET bit(n, i) == (n \div 2^i) % 2
      low[i \in 0 .. 8] ==
        IF i = 0 THEN 0
        ELSE low[i - 1] + (IF bit(a, i - 1) = bit(b, i - 1) THEN 0 ELSE 2^(i - 1))
  IN  low[8]

(* The trailing printable run of a field.                                  *)
TrailingRun(field) ==
  LET noise == {i \in DOMAIN field : ~Printable(field[i])}
  IN  SubSeq(field, Max(noise \cup {0}) + 1, Len(field))

(* The channel field of a record: its header of four bytes and its name,   *)
(* the first letter masked, from the last NUL on.                          *)
Field(record, m) ==
  LET whole == record.header \o <<Xor(Head(record.channel), m)>> \o Tail(record.channel)
      nuls  == {i \in DOMAIN whole : whole[i] = 0}
  IN  SubSeq(whole, Max(nuls \cup {0}) + 1, Len(whole))

(* parse_ucs_chat: a record whose field is too short, or whose sender or   *)
(* text is noise, is passed over.                                          *)
IsSound(record, m) == record.legible /\ Len(Field(record, m)) >= 5

Parsed(record, m) ==
  LET field == Field(record, m)
  IN  [first |-> field[5], rest |-> SubSeq(field, 6, Len(field)),
       run |-> TrailingRun(field), channel |-> record.channel]

ParseUcsChannels(payload) == {name \in payload.clear : Len(name) >= 2}

-----------------------------------------------------------------------------
(* resolve_ucs_channel                                                     *)

MinSuffix == 5

Before(a, b) ==   \* the order of a BTreeSet<String>
  \/ \E i \in 1 .. Min({Len(a), Len(b)}) :
        a[i] < b[i] /\ \A j \in 1 .. i - 1 : a[j] = b[j]
  \/ Len(a) < Len(b) /\ SubSeq(b, 1, Len(a)) = a

(* A slip: two letters in common are taken for the channel.                *)
MatchedLoosely(names, run) ==
  LET near == {n \in names : SharedSuffixLen(run, n) >= 2}
      best == {n \in near : \A o \in near : SharedSuffixLen(run, o) <= SharedSuffixLen(run, n)}
  IN  {n \in best : \A o \in best \ {n} : Before(o, n)}

(* max_by_key keeps the last of several longest.                           *)
Matched(names, run) ==
  LET near == {n \in names : SharedSuffixLen(run, n) >= MinSuffix}
      best == {n \in near : \A o \in near : SharedSuffixLen(run, o) <= SharedSuffixLen(run, n)}
  IN  {n \in best : \A o \in best \ {n} : Before(o, n)}

Repaired(r, m) ==
  IF m # <<>> /\ IsGraphic(Xor(r.first, m[1])) THEN <<Xor(r.first, m[1])>> \o r.rest
  ELSE r.rest

(* A letter from 160 on takes two bytes of the String, and is not one more. *)
IsDominant(r) ==
  \/ r.run = r.rest
  \/ Len(r.run) = Len(r.rest) + 1 /\ Tail(r.run) = r.rest /\ Head(r.run) < 128

(* A slip: the mask is asked before the names.                             *)
ResolveByMaskFirst(r, m, names) ==
  IF IsDominant(r) /\ m # <<>>
  THEN LET name == Repaired(r, m)
       IN  [name |-> name,
            known |-> IF Len(name) >= 2 /\ IsUppercase(name[1]) THEN names \cup {name}
                                                                 ELSE names]
  ELSE [name |-> IF Matched(names, r.run) # {} THEN CHOOSE n \in Matched(names, r.run) : TRUE
                                               ELSE r.run,
        known |-> names]

ResolveUcsChannel(r, m, names) ==
  LET match == Matched(names, r.run)
      name  == Repaired(r, m)
  IN  IF match # {} THEN [name |-> CHOOSE n \in match : TRUE, known |-> names]
      ELSE IF ~IsDominant(r) THEN [name |-> r.run, known |-> names]
      ELSE [name |-> name,
            known |-> IF Len(name) >= 2 /\ IsUppercase(name[1]) THEN names \cup {name}
                                                                 ELSE names]

-----------------------------------------------------------------------------
(* ucs_chat_message: General's line gives the mask away.                   *)
UcsChatMessage(s, r) ==
  LET m        == IF r.rest = Crib THEN <<Xor(r.first, General[1])>> ELSE s.mask
      resolved == ResolveUcsChannel(r, m, s.known)
  IN  [mask |-> m, known |-> resolved.known,
       messages |-> Append(s.messages, [channel |-> r.channel, name |-> resolved.name])]

(* decode_ucs                                                              *)
Refused(direction, payload) ==
  CASE direction # "server" -> "ignored"
    [] direction = "server" /\ ~payload.long -> "malformed"
    [] OTHER -> ""

ReadRecord(s, record, m) ==
  IF IsSound(record, m) THEN UcsChatMessage(s, Parsed(record, m)) ELSE s

ReadChat(s, chat, m) ==
  LET run[n \in 0 .. Len(chat)] ==
        IF n = 0 THEN s ELSE ReadRecord(run[n - 1], chat[n], m)
  IN  run[Len(chat)]

Listening(payload) ==
  [mask |-> mask, known |-> known \cup ParseUcsChannels(payload), messages |-> <<>>]

DecodeUcs(direction, payload) ==
  LET after   == ReadChat(Listening(payload), payload.chat, connection.mask)
      refused == Refused(direction, payload)
  IN  /\ IF refused # ""
         THEN disposition' = refused /\ messages' = <<>> /\ UNCHANGED <<mask, known, heard>>
         ELSE /\ mask' = after.mask
              /\ heard' = heard \cup ParseUcsChannels(payload)
              /\ known' = after.known
              /\ messages' = after.messages
              /\ disposition' = IF messages' = <<>> THEN "ignored" ELSE "decoded"
      /\ UNCHANGED connection

(* reset_communication, at whatever resets the session.                    *)
ResetCommunication ==
  /\ mask' = <<>>
  /\ known' = {}
  /\ heard' = {}
  /\ messages' = <<>>
  /\ UNCHANGED <<connection, disposition>>

(* The client leaves the chat server and comes back.                       *)
Reconnect(m) ==
  /\ connection.number < MaxConnections
  /\ connection' = [number |-> connection.number + 1, mask |-> m]
  /\ UNCHANGED <<mask, known, disposition, messages, heard>>

-----------------------------------------------------------------------------
UcsInit ==
  /\ mask = <<>>
  /\ known = {}
  /\ connection \in [number : {1}, mask : Masks]
  /\ disposition = "ignored"
  /\ messages = <<>>
  /\ heard = {}

UcsNext ==
  \/ \E d \in Directions, p \in Payloads : DecodeUcs(d, p)
  \/ ResetCommunication
  \/ \E m \in Masks : Reconnect(m)

UcsSpec == UcsInit /\ [][UcsNext]_ucs_vars

-----------------------------------------------------------------------------
(* Properties                                                              *)

(* Channels that a listener can tell apart by their last letters: what is  *)
(* below is said of those.  A mask that is out of date, or a header with a *)
(* NUL, gets the first letter of a name wrong, and then the wrong name may *)
(* be kept; these properties are what is left.  A name as short as Raid    *)
(* needs that no other name ends in what is said of it in the clear.       *)
ToldApart ==
  {c \in Channels :
     \A d \in Channels \ {c} : /\ SharedSuffixLen(c, d) < MinSuffix
                               /\ ~Ends(Tail(d), c) /\ ~Ends(Tail(c), d)}

(* Whatever the mask, the framing, the names learned and the reconnections *)
(* before it, a message is never published under the name of another       *)
(* channel (resolve_ucs_channel, lib.rs:2274-2309).                        *)
NeverAnotherChannel ==
  \A i \in DOMAIN messages :
    messages[i].channel \in ToldApart
    => messages[i].name \notin Channels \ {messages[i].channel}

(* A name that no other channel shares its last four letters with: a wrong *)
(* letter before four others makes no name that counts as this one.        *)
OneOfAKind ==
  {c \in ToldApart :
     /\ Len(c) > MinSuffix
     /\ \A d \in Channels \ {c} : SharedSuffixLen(c, d) < MinSuffix - 1}

(* A learned name, when no other learned name ends as it does, is kept and *)
(* every later message of its channel is published under it, until the     *)
(* session is reset or a word that ends as it does is read in the clear: a *)
(* chat text with "joined general" in it is enough to displace General     *)
(* (parse_ucs_channels).  But what is guessed from the records never does, *)
(* be it a garbled first letter, a shifted record or a new connection.     *)
Alone(c, names) == \A k \in names \ {c} : SharedSuffixLen(k, c) < MinSuffix

Learned(c, names) == c \in names /\ Alone(c, names)

PublishedAs(c, lines) == \A i \in DOMAIN lines : lines[i].channel = c => lines[i].name = c

LearnedNamesStay ==
  [][\A c \in OneOfAKind :
       Learned(c, known) /\ Alone(c, heard') /\ ~ResetCommunication
       => /\ Learned(c, known')
          /\ connection' = connection => PublishedAs(c, messages')]_ucs_vars
=============================================================================
