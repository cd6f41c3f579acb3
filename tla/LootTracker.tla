----------------------------- MODULE LootTracker -----------------------------
(***************************************************************************)
(* The EQL loot tracker (seq-backend-eql/src/loot_track.rs) under the      *)
(* session that feeds it (EqlSession::observe_event and the loot part of   *)
(* reset_correlations, seq-session/src/lib.rs).  Looting an item is told   *)
(* twice, by a chat narration and by a transaction confirmation, in either *)
(* order, possibly more than once; the tracker pairs the two halves into   *)
(* one row, and a boundary closes what is still unpaired.                  *)
(*                                                                         *)
(* A queue of pending halves is the set of them: `n`, the number under     *)
(* which a half was accepted, is its place in the queue.  An item's id is  *)
(* the item; 0 is "no id".  Icons, quantities, proceeds, corpse names and  *)
(* the order of the rows of one packet are told apart by no property.      *)
(***************************************************************************)
EXTENDS Integers, Sequences

CONSTANTS Items,       \* item ids; the item's name stands for the same thing
          Corpses,     \* corpse ids
          Windows,     \* contents of a corpse window: sequences of [item, id]
          Zones,       \* zone names, with their instance suffix
          Characters,  \* character names
          Narrations,  \* narrations on the wire; `stamp` stands for capture
                       \* time and text, `linked` for carrying the item's link
          Transactions,\* confirmations on the wire; sequence 0 is "none"
          CoinPiles,   \* coin piles on the wire, with some copper or none
          MaxHalves,   \* bound: accepted halves, coin piles and windows
          MaxStays     \* bound: boundaries

ASSUME ItemsAssumption == Items \subseteq Nat \ {0}
ASSUME WindowsAssumption == Windows \subseteq Seq([item : Items, id : Items \cup {0}])
ASSUME NamesAssumption == "" \notin Zones \cup Characters
ASSUME NarrationsAssumption ==
  Narrations \subseteq [item : Items, linked : BOOLEAN, stamp : Nat]
ASSUME TransactionsAssumption ==
  Transactions \subseteq [id : Items \cup {0}, sequence : Nat, stamp : Nat]
ASSUME CoinPilesAssumption == CoinPiles \subseteq [copper : BOOLEAN, sequence : Nat, stamp : Nat]
ASSUME BoundsAssumption == MaxHalves \in Nat /\ MaxStays \in Nat

VARIABLES
  loot,   \* the LootTracker
  rows,   \* history: every row handed to the host
  count,  \* history: halves, coin piles and new windows accepted so far
  visit   \* history: the current uninterrupted stay of one character in one
          \* zone, and the span over which duplicates must be recognised

vars == <<loot, rows, count, visit>>

ItemIds == Items \cup {0}

(* Where, by whom and between which two boundaries a packet was seen.      *)
Seen == [zone : Zones \cup {""}, looter : Characters \cup {""},
         stay : 0 .. MaxStays, span : 0 .. MaxStays]

Here == [zone |-> loot.zone, looter |-> loot.looter,
         stay |-> visit.stay, span |-> visit.span]

(* A narration is stored as the row it will become, hence its own zone and *)
(* looter; `seen` is history.                                              *)
Narration == [n : 1 .. MaxHalves, seen : Seen, item : Items, id : ItemIds,
              zone : Zones \cup {""}, looter : Characters \cup {""}]

Confirmation == [n : 1 .. MaxHalves, seen : Seen, id : ItemIds,
                 sequence : Nat]

Drop == [n : 1 .. MaxHalves, seen : Seen, item : ItemIds, corpse : Corpses \cup {0}]

Row == [source : {"message", "window", "coin"}, item : ItemIds, id : ItemIds,
        zone : Zones \cup {""}, looter : Characters \cup {""},
        sequence : Nat, complete : BOOLEAN,
        halves : SUBSET (Narration \cup Confirmation \cup Drop)]

Tracker ==
  [zone : Zones \cup {""}, looter : Characters \cup {""},
   messages : SUBSET Narration, confirmations : SUBSET Confirmation,
   seen_window : SUBSET (Corpses \X Items),
   seen_window_snapshots : SUBSET (Corpses \X Windows),
   item_id_by_name : SUBSET Items,
   seen_confirmations : SUBSET (Transactions \cup CoinPiles \cup [sequence : Nat]),
   seen_messages : SUBSET Narrations]

NewTracker(looter) ==
  [zone |-> "", looter |-> looter, messages |-> {}, confirmations |-> {},
   seen_window |-> {}, seen_window_snapshots |-> {}, item_id_by_name |-> {},
   seen_confirmations |-> {}, seen_messages |-> {}]

-----------------------------------------------------------------------------
(* Pairing                                                                 *)

(* A slip: the queue is popped at its other end.                           *)
Newest(halves) == CHOOSE h \in halves : \A k \in halves : h.n >= k.n

Oldest(halves) == CHOOSE h \in halves : \A k \in halves : h.n <= k.n

(* A slip: a half without an id is only paired with another one.           *)
MatchingExactly(halves, id) == {h \in halves : h.id = id}

(* matching_confirmation, matching_message: the candidates of which the    *)
(* oldest is taken, those with the same id before those with none.         *)
Matching(halves, id) ==
  LET same == {h \in halves : h.id = id}
  IN  IF id = 0 THEN halves
      ELSE IF same # {} THEN same
      ELSE {h \in halves : h.id = 0}

(* apply_confirmation: the confirmation's id and sequence win.             *)
Paired(m, c) ==
  [source |-> "message", item |-> m.item, id |-> IF c.id # 0 THEN c.id ELSE m.id,
   zone |-> m.zone, looter |-> m.looter, sequence |-> c.sequence,
   complete |-> TRUE, halves |-> {m, c}]

NarrationOnly(m) ==
  [source |-> "message", item |-> m.item, id |-> m.id, zone |-> m.zone,
   looter |-> m.looter, sequence |-> 0, complete |-> FALSE, halves |-> {m}]

(* A confirmation alone takes the tracker's zone and looter at its flush.  *)
ConfirmationOnly(c) ==
  [source |-> "message", item |-> 0, id |-> c.id, zone |-> loot.zone,
   looter |-> loot.looter, sequence |-> c.sequence, complete |-> FALSE,
   halves |-> {c}]

Dropped(source, d, id) ==
  [source |-> source, item |-> d.item, id |-> id, zone |-> loot.zone,
   looter |-> loot.looter, sequence |-> 0, complete |-> TRUE, halves |-> {d}]

(* A slip: a confirmation without its narration is dropped.                *)
FlushedNarrations == {NarrationOnly(m) : m \in loot.messages}

Flushed ==
  {NarrationOnly(m) : m \in loot.messages}
    \cup {ConfirmationOnly(c) : c \in loot.confirmations}

-----------------------------------------------------------------------------
(* Packets                                                                 *)

Room == count < MaxHalves

(* on_loot_message: an unlinked narration has its id only if a window      *)
(* taught it.  A copy of a packet already seen changes nothing.            *)
LootMessage(p) ==
  LET id == IF p.linked \/ p.item \in loot.item_id_by_name THEN p.item ELSE 0
      m  == [n |-> count + 1, seen |-> Here, item |-> p.item, id |-> id,
             zone |-> loot.zone, looter |-> loot.looter]
      t  == [loot EXCEPT !.seen_messages = @ \cup {p}]
      candidates == Matching(loot.confirmations, id)
  IN  /\ Room
      /\ p \notin loot.seen_messages
      /\ count' = count + 1
      /\ IF candidates = {}
         THEN /\ loot' = [t EXCEPT !.messages = @ \cup {m}]
              /\ UNCHANGED rows
         ELSE LET c == Oldest(candidates)
              IN  /\ loot' = [t EXCEPT !.confirmations = @ \ {c}]
                  /\ rows' = rows \cup {Paired(m, c)}
      /\ UNCHANGED visit

(* A slip: a server sequence is one field among the others.                *)
TransactionKeyOfFields(p) == p

(* The identity of a transaction: its sequence, or else all its fields.    *)
TransactionKey(p) == IF p.sequence # 0 THEN [sequence |-> p.sequence] ELSE p

(* on_loot_transaction for an item.                                        *)
LootTransaction(p) ==
  LET c == [n |-> count + 1, seen |-> Here, id |-> p.id, sequence |-> p.sequence]
      t == [loot EXCEPT !.seen_confirmations = @ \cup {TransactionKey(p)}]
      candidates == Matching(loot.messages, p.id)
  IN  /\ Room
      /\ TransactionKey(p) \notin loot.seen_confirmations
      /\ count' = count + 1
      /\ IF candidates = {}
         THEN /\ loot' = [t EXCEPT !.confirmations = @ \cup {c}]
              /\ UNCHANGED rows
         ELSE LET m == Oldest(candidates)
              IN  /\ loot' = [t EXCEPT !.messages = @ \ {m}]
                  /\ rows' = rows \cup {Paired(m, c)}
      /\ UNCHANGED visit

CoinRow(p, d) == [Dropped("coin", d, 0) EXCEPT !.sequence = p.sequence]

(* on_loot_transaction for a corpse's coin pile: never paired, and an      *)
(* empty one is recognised and dropped.                                    *)
LootCoin(p) ==
  LET d == [n |-> count + 1, seen |-> Here, item |-> 0, corpse |-> 0]
  IN  /\ Room
      /\ TransactionKey(p) \notin loot.seen_confirmations
      /\ loot' = [loot EXCEPT !.seen_confirmations = @ \cup {TransactionKey(p)}]
      /\ IF p.copper
         THEN /\ count' = count + 1
              /\ rows' = rows \cup {CoinRow(p, d)}
         ELSE UNCHANGED <<count, rows>>
      /\ UNCHANGED visit

Drops(window) == {window[i] : i \in DOMAIN window}

(* The items whose id a window teaches.                                    *)
TaughtBy(window) == {d.item : d \in {e \in Drops(window) : e.id # 0}}

(* on_loot_drop_item: one row per corpse and item, that of the item's      *)
(* first place in the window.                                              *)
NewDrops(corpse, window) ==
  {window[i] : i \in {j \in DOMAIN window :
      /\ <<corpse, window[j].item>> \notin loot.seen_window
      /\ \A k \in 1 .. j - 1 : window[k].item # window[j].item}}

DropRow(corpse, d) ==
  Dropped("window", [n |-> count + 1, seen |-> Here, item |-> d.item, corpse |-> corpse], d.id)

(* Event::LootDrops: every item of the window, under one number.           *)
LootDrops(corpse, window) ==
  /\ Room
  /\ loot' = [loot EXCEPT !.item_id_by_name = @ \cup TaughtBy(window),
                          !.seen_window = @ \cup {<<corpse, d.item>> : d \in Drops(window)},
                          !.seen_window_snapshots = @ \cup {<<corpse, window>>}]
  /\ rows' = rows \cup {DropRow(corpse, d) : d \in NewDrops(corpse, window)}
  /\ count' = IF NewDrops(corpse, window) = {} THEN count ELSE count + 1
  /\ UNCHANGED visit

-----------------------------------------------------------------------------
(* Boundaries                                                              *)

(* A slip: a report of the zone already known resets like another zone's.  *)
ZonedAlwaysReset(zone) ==
  IF zone = "" THEN [loot EXCEPT !.messages = {}, !.confirmations = {}]
  ELSE [NewTracker(loot.looter) EXCEPT !.zone = zone]

(* The tracker of set_zone: another zone resets it, the same zone keeps    *)
(* what is recognised as seen, and no zone at all only flushes.            *)
Zoned(zone) ==
  LET flushed == [loot EXCEPT !.messages = {}, !.confirmations = {}]
  IN  IF zone \in {"", loot.zone} THEN flushed
      ELSE [NewTracker(loot.looter) EXCEPT !.zone = zone]

ZoneChanged(zone) ==
  /\ visit.stay < MaxStays
  /\ rows' = rows \cup Flushed
  /\ loot' = Zoned(zone)
  /\ visit' = [stay |-> visit.stay + 1,
               span |-> IF zone \in {"", loot.zone} THEN visit.span ELSE visit.stay + 1]
  /\ UNCHANGED count

(* A slip: the new character's name is set before the old one's rows are   *)
(* flushed.                                                                *)
ResetToLate(looter) ==
  /\ visit.stay < MaxStays
  /\ rows' = rows \cup {[r EXCEPT !.looter = looter] : r \in Flushed}
  /\ loot' = NewTracker(looter)
  /\ visit' = [stay |-> visit.stay + 1, span |-> visit.stay + 1]
  /\ UNCHANGED count

(* reset_correlations, then the looter the new session has.                *)
ResetTo(looter) ==
  /\ visit.stay < MaxStays
  /\ rows' = rows \cup Flushed
  /\ loot' = NewTracker(looter)
  /\ visit' = [stay |-> visit.stay + 1, span |-> visit.stay + 1]
  /\ UNCHANGED count

(* The server's OP_EnterWorld resets but only the client's names anyone.   *)
EnterWorld(name, fromClient) == ResetTo(IF fromClient THEN name ELSE loot.looter)

PlayerProfile(name) == ResetTo(name)

Flush == ResetTo(loot.looter)

(* The host drains the rows; they stay in the history.                     *)
TakeLootRows == UNCHANGED vars

Init ==
  /\ loot = NewTracker("")
  /\ rows = {}
  /\ count = 0
  /\ visit = [stay |-> 0, span |-> 0]

Next ==
  \/ \E p \in Narrations : LootMessage(p)
  \/ \E p \in Transactions : LootTransaction(p)
  \/ \E p \in CoinPiles : LootCoin(p)
  \/ \E corpse \in Corpses, window \in Windows : LootDrops(corpse, window)
  \/ \E zone \in Zones \cup {""} : ZoneChanged(zone)
  \/ \E name \in Characters, fromClient \in BOOLEAN : EnterWorld(name, fromClient)
  \/ \E name \in Characters : PlayerProfile(name)
  \/ Flush
  \/ TakeLootRows

Spec == Init /\ [][Next]_vars

-----------------------------------------------------------------------------
(* Properties                                                              *)

Numbers(halves) == {h.n : h \in halves}

IsNarration(h) == "item" \in DOMAIN h /\ "id" \in DOMAIN h
IsConfirmation(h) == "sequence" \in DOMAIN h

(* The tracker, the history and every row have their types.                *)
TypeOK ==
  /\ loot \in Tracker
  /\ rows \subseteq Row
  /\ count \in 0 .. MaxHalves
  /\ visit \in [stay : 0 .. MaxStays, span : 0 .. MaxStays]

(* Pairing is eager and complete: whatever the order, repetition or loss   *)
(* of halves, no two pending halves could be paired; both ids are known    *)
(* and differ (loot_track.rs:353-366, 422-436, 542-571).                   *)
NothingPairable ==
  \A m \in loot.messages, c \in loot.confirmations :
    m.id # 0 /\ c.id # 0 /\ m.id # c.id

Pending == loot.messages \cup loot.confirmations

(* Of the halves numbered up to `last`, each is in exactly one row or      *)
(* pending.                                                                *)
Accounted(pending, made, last) ==
  /\ \A h, k \in pending : h.n = k.n => h = k
  /\ \A r \in made, h \in pending : h.n \notin Numbers(r.halves)
  /\ \A r, q \in made : r # q => r.halves \cap q.halves = {}
  /\ \A h \in pending : h.n \in 1 .. last
  /\ \A r \in made : Numbers(r.halves) \subseteq 1 .. last
  /\ \A n \in 1 .. last :
        n \in Numbers(pending) \/ \E r \in made : n \in Numbers(r.halves)

(* No half is lost and none is counted in two rows: everything accepted is *)
(* in exactly one row or still pending, across pairing, windows and every  *)
(* kind of boundary (loot_track.rs:291-303, 507-539).                      *)
EachHalfOnce ==
  /\ loot.messages \cap loot.confirmations = {}
  /\ Accounted(Pending, rows, count)

(* What is pending was seen in the current stay (so that a row made of it, *)
(* and a confirmation labelled at its flush, name the right one).          *)
PendingIsOfThisVisit ==
  /\ \A h \in Pending : h.seen = Here
  /\ \A m \in loot.messages : m.zone = loot.zone /\ m.looter = loot.looter

(* A row names the zone and the looter that were current when each of its  *)
(* halves was seen, and never pairs halves across a boundary: also for a   *)
(* lone confirmation, which is labelled only when it is flushed, and when  *)
(* the boundary brings another character (loot_track.rs:289-290, 513-533;  *)
(* lib.rs:558-563, 2458-2462).                                             *)
RowsKeepTheirVisit ==
  \A r \in rows : \A h, k \in r.halves :
    h.seen.zone = r.zone /\ h.seen.looter = r.looter /\ h.seen = k.seen

(* Repetition is recognised: between two resets no server sequence and no  *)
(* item of a corpse makes two rows, though the packet is resent, the       *)
(* corpse reopened or the zone announced again (loot_track.rs:385-392,     *)
(* 457-462, 291-303).                                                      *)
CountedOnce ==
  \A r, q \in rows : \A h \in r.halves, k \in q.halves :
    h.seen.span = k.seen.span /\ h # k =>
      /\ IsConfirmation(h) /\ IsConfirmation(k) => h.sequence # k.sequence \/ h.sequence = 0
      /\ r.source = "window" /\ q.source = "window" =>
           <<h.corpse, h.item>> # <<k.corpse, k.item>>

(* Halves of one known item are paired first come first served: two rows   *)
(* never hold them crosswise (loot_track.rs:241-245).                      *)
PairsInOrder ==
  \A r, q \in rows : \A m, c \in r.halves, mm, cc \in q.halves :
    (/\ IsNarration(m) /\ IsConfirmation(c) /\ IsNarration(mm) /\ IsConfirmation(cc)
     /\ m.id # 0 /\ {m.id, c.id, mm.id, cc.id} = {m.id}
     /\ m.n < mm.n)
    => c.n < cc.n
=============================================================================
