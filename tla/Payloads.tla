------------------------------ MODULE Payloads ------------------------------
(***************************************************************************)
(* What the backends tell apart about an application payload, and how a    *)
(* handler turns one into a disposition and a list of event kinds.         *)
(*                                                                         *)
(* The bytes are abstracted to a length class and to what is wrong, or     *)
(* special, about the contents.                                            *)
(***************************************************************************)
EXTENDS Tables

Directions == {"C2S", "S2C"}

\* short: less than the parser reads.     stock: the length it declares, or
\* the one the counts add up to.          long: bytes are left over.
\* other: the second length it knows, or that another parser knows which is
\* called with the same packet.
Sizes == {"short", "stock", "other", "long"}

\* broken: a walk over counts, strings or bit fields leaves the payload.
\* odd: every field is there, but a value is one the handler refuses (an
\* empty name, a coordinate that is not finite, an hour past 24).
\* idle: nothing to report (no members, another channel, a keepalive).
\* extra: sound, with the part only some packets have (the inventory tail of
\* a loadout swap) or of the one channel that is not echoed (Say).
Bodies == {"sound", "broken", "odd", "idle", "extra"}

Payload == [size: Sizes, body: Bodies]

(***************************************************************************)
(* Parsers: the lengths one takes, and the bodies it returns an error for. *)
(***************************************************************************)
Exact == [sizes |-> {"stock"}, errors |-> {}]
TwoLengths == [sizes |-> {"stock", "other"}, errors |-> {}]
AtLeast == [sizes |-> {"stock", "long"}, errors |-> {}]
Walked == [sizes |-> {"stock", "long"}, errors |-> {"broken"}]
WalkedToTheEnd == [sizes |-> {"stock"}, errors |-> {"broken"}]
Unchecked == [sizes |-> Sizes, errors |-> {}]

Accepts(parser, p) == p.size \in parser.sizes /\ p.body \notin parser.errors

(***************************************************************************)
(* Handlers                                                                *)
(***************************************************************************)
Gives(parser, kinds) ==
    [parser |-> parser, refuses |-> {}, quiet |-> {}, echoed |-> {},
     kinds |-> kinds, extra |-> << >>]

Refusing(handler, bodies) == [handler EXCEPT !.refuses = bodies]
QuietOn(handler, marks) == [handler EXCEPT !.quiet = marks]
Echoing(handler, bodies) == [handler EXCEPT !.echoed = bodies]
WithExtra(handler, kinds) == [handler EXCEPT !.extra = kinds]

Outcome(disposition, kinds) == [disposition |-> disposition, kinds |-> kinds]
Ignored == Outcome("Ignored", << >>)
Malformed == Outcome("Malformed", << >>)
Unhandled == Outcome("Unhandled", << >>)

Handle(handler, dir, p) ==
    IF ~Accepts(handler.parser, p) \/ p.body \in handler.refuses
    THEN Malformed
    ELSE IF \/ {p.size, p.body} \cap handler.quiet # {}
            \/ dir = "C2S" /\ p.body \in handler.echoed
    THEN Ignored
    ELSE Outcome("Decoded",
                 IF p.body = "extra" THEN handler.kinds \o handler.extra
                 ELSE handler.kinds)
=============================================================================
