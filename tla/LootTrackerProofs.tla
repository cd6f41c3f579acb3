-------------------------- MODULE LootTrackerProofs --------------------------
(***************************************************************************)
(* Proofs about the loot tracker, for any items, packets and number of     *)
(* boundaries: its type, that pending halves cannot be paired, that a row  *)
(* names the visit its halves were seen in, and that no half is lost or    *)
(* counted twice: a packet accepts a half, a pairing or a boundary settles *)
(* pending halves in rows, and each preserves Accounted.  Then that what   *)
(* is repeated is recognised until a reset, and that the halves of one     *)
(* item are paired in the order in which they came.                        *)
(***************************************************************************)
EXTENDS LootTracker, WellFoundedInduction, TLAPS

-----------------------------------------------------------------------------
(* The oldest of some halves is one of them.                               *)
LEMMA OldestIsOne ==
  ASSUME NEW H, H # {}, \A h \in H : h.n \in Nat
  PROVE  Oldest(H) \in H /\ \A h \in H : Oldest(H).n <= h.n
<1> DEFINE N == {h.n : h \in H}
           Less == {ss \in Nat \X Nat : ss[1] < ss[2]}
<1>1. IsWellFoundedOn(Less, Nat)
  BY NatLessThanWellFounded DEF OpToRel
<1>2. N \subseteq Nat /\ N # {}
  OBVIOUS
<1> HIDE DEF N, Less
<1>3. PICK x \in N : \A y \in N : ~(<<y, x>> \in Less)
  BY <1>1, <1>2, WFMin
<1>4. PICK h \in H : h.n = x
  BY DEF N
<1>5. \A k \in H : h.n <= k.n
  <2> SUFFICES ASSUME NEW k \in H PROVE x <= k.n
    BY <1>4
  <2>1. k.n \in N
    BY DEF N
  <2>2. x \in Nat /\ k.n \in Nat
    BY <2>1, <1>2
  <2>3. <<k.n, x>> \notin Less
    BY <2>1, <1>3
  <2>4. ~(k.n < x)
    BY <2>2, <2>3 DEF Less
  <2> QED BY <2>2, <2>4
<1> QED BY <1>4, <1>5 DEF Oldest

(* Removing or adding: what Matching offers is among the halves, and it    *)
(* offers nothing only when nothing could be paired.                       *)
LEMMA MatchingFacts ==
  ASSUME NEW H, NEW id
  PROVE  /\ Matching(H, id) \subseteq H
         /\ Matching(H, id) = {} => \A h \in H : id # 0 /\ h.id # 0 /\ h.id # id
  BY DEF Matching

-----------------------------------------------------------------------------
(* Types                                                                   *)

LEMMA PendingNumbers ==
  TypeOK => \A h \in loot.messages \cup loot.confirmations : h.n \in Nat
<1>1. \A h \in Narration \cup Confirmation : h.n \in 1 .. MaxHalves
  BY DEF Narration, Confirmation
<1>2. \A n \in 1 .. MaxHalves : n \in Nat
  BY BoundsAssumption
<1> QED BY <1>1, <1>2 DEF TypeOK, Tracker

LEMMA NextStay ==
  ASSUME NEW s \in 0 .. MaxStays, s < MaxStays
  PROVE  s + 1 \in 0 .. MaxStays
  BY BoundsAssumption

LEMMA HereType == TypeOK => Here \in Seen
  BY DEF TypeOK, Here, Seen, Tracker

LEMMA PairedType ==
  ASSUME NEW m \in Narration, NEW c \in Confirmation
  PROVE  Paired(m, c) \in Row
  BY DEF Paired, Row, Narration, Confirmation, ItemIds

LEMMA FlushedType == TypeOK => Flushed \subseteq Row
<1> SUFFICES ASSUME TypeOK PROVE Flushed \subseteq Row
  OBVIOUS
<1>1. \A m \in loot.messages : NarrationOnly(m) \in Row
  BY DEF TypeOK, Tracker, NarrationOnly, Row, Narration, ItemIds
<1>2. \A c \in loot.confirmations : ConfirmationOnly(c) \in Row
  BY DEF TypeOK, Tracker, ConfirmationOnly, Row, Confirmation, ItemIds
<1> QED BY <1>1, <1>2 DEF Flushed

LEMMA NewTrackerType ==
  ASSUME NEW looter \in Characters \cup {""}
  PROVE  NewTracker(looter) \in Tracker
  BY DEF NewTracker, Tracker

LEMMA MessageType ==
  ASSUME TypeOK, NEW p \in Narrations, LootMessage(p)
  PROVE  TypeOK'
<1> DEFINE id == IF p.linked \/ p.item \in loot.item_id_by_name THEN p.item ELSE 0
           m  == [n |-> count + 1, seen |-> Here, item |-> p.item, id |-> id,
                  zone |-> loot.zone, looter |-> loot.looter]
           t  == [loot EXCEPT !.seen_messages = @ \cup {p}]
           candidates == Matching(loot.confirmations, id)
<1>1. m \in Narration
  <2>1. p.item \in Items /\ id \in ItemIds
    BY NarrationsAssumption DEF ItemIds
  <2>2. count + 1 \in 1 .. MaxHalves
    BY BoundsAssumption DEF TypeOK, LootMessage, Room
  <2> HIDE DEF id
  <2> QED BY <2>1, <2>2, HereType DEF TypeOK, Tracker, Narration
<1>2. t \in Tracker
  BY DEF TypeOK, Tracker
<1>3. CASE candidates = {}
  <2>1. loot' = [t EXCEPT !.messages = @ \cup {m}] /\ UNCHANGED <<rows, visit>>
    BY <1>3 DEF LootMessage
  <2>2. loot' \in Tracker
    BY <1>1, <1>2, <2>1 DEF Tracker
  <2> QED BY <2>1, <2>2, BoundsAssumption DEF TypeOK, LootMessage, Room
<1>4. CASE candidates # {}
  <2> DEFINE c == Oldest(candidates)
  <2>1. candidates \subseteq loot.confirmations
    BY MatchingFacts
  <2>2. \A h \in candidates : h.n \in Nat
    BY <2>1, PendingNumbers
  <2>3. c \in candidates
    BY <1>4, <2>2, OldestIsOne
  <2>4. c \in Confirmation
    BY <2>1, <2>3 DEF TypeOK, Tracker
  <2>5. /\ loot' = [t EXCEPT !.confirmations = @ \ {c}]
        /\ rows' = rows \cup {Paired(m, c)} /\ UNCHANGED visit
    BY <1>4 DEF LootMessage
  <2>6. loot' \in Tracker
    BY <1>2, <2>5 DEF Tracker
  <2>7. rows' \subseteq Row
    BY <1>1, <2>4, <2>5, PairedType DEF TypeOK
  <2> QED BY <2>5, <2>6, <2>7, BoundsAssumption DEF TypeOK, LootMessage, Room
<1> QED BY <1>3, <1>4

LEMMA TransactionType ==
  ASSUME TypeOK, NEW p \in Transactions, LootTransaction(p)
  PROVE  TypeOK'
<1> DEFINE c == [n |-> count + 1, seen |-> Here, id |-> p.id, sequence |-> p.sequence]
           t == [loot EXCEPT !.seen_confirmations = @ \cup {TransactionKey(p)}]
           candidates == Matching(loot.messages, p.id)
<1>1. c \in Confirmation
  BY HereType, TransactionsAssumption, BoundsAssumption
     DEF TypeOK, Confirmation, LootTransaction, Room, ItemIds
<1>2. t \in Tracker
  <2>1. TransactionKey(p) \in Transactions \cup [sequence : Nat]
    BY TransactionsAssumption DEF TransactionKey
  <2> QED BY <2>1 DEF TypeOK, Tracker
<1>3. CASE candidates = {}
  <2>1. loot' = [t EXCEPT !.confirmations = @ \cup {c}] /\ UNCHANGED <<rows, visit>>
    BY <1>3 DEF LootTransaction
  <2>2. loot' \in Tracker
    BY <1>1, <1>2, <2>1 DEF Tracker
  <2> QED BY <2>1, <2>2, BoundsAssumption DEF TypeOK, LootTransaction, Room
<1>4. CASE candidates # {}
  <2> DEFINE m == Oldest(candidates)
  <2>1. candidates \subseteq loot.messages
    BY MatchingFacts
  <2>2. \A h \in candidates : h.n \in Nat
    BY <2>1, PendingNumbers
  <2>3. m \in candidates
    BY <1>4, <2>2, OldestIsOne
  <2>4. m \in Narration
    BY <2>1, <2>3 DEF TypeOK, Tracker
  <2>5. /\ loot' = [t EXCEPT !.messages = @ \ {m}]
        /\ rows' = rows \cup {Paired(m, c)} /\ UNCHANGED visit
    BY <1>4 DEF LootTransaction
  <2>6. loot' \in Tracker
    BY <1>2, <2>5 DEF Tracker
  <2>7. rows' \subseteq Row
    BY <1>1, <2>4, <2>5, PairedType DEF TypeOK
  <2> QED BY <2>5, <2>6, <2>7, BoundsAssumption DEF TypeOK, LootTransaction, Room
<1> QED BY <1>3, <1>4

LEMMA CoinType ==
  ASSUME TypeOK, NEW p \in CoinPiles, LootCoin(p)
  PROVE  TypeOK'
<1> DEFINE d == [n |-> count + 1, seen |-> Here, item |-> 0, corpse |-> 0]
<1>1. d \in Drop
  BY HereType, BoundsAssumption DEF TypeOK, Drop, LootCoin, Room, ItemIds
<1>2. CoinRow(p, d) \in Row
  BY <1>1, CoinPilesAssumption DEF TypeOK, Tracker, CoinRow, Dropped, Row, ItemIds
<1>3. TransactionKey(p) \in CoinPiles \cup [sequence : Nat]
  BY CoinPilesAssumption DEF TransactionKey
<1>4. loot' \in Tracker
  BY <1>3 DEF TypeOK, Tracker, LootCoin
<1>5. rows' \subseteq Row
  BY <1>2 DEF TypeOK, LootCoin
<1> QED BY <1>4, <1>5, BoundsAssumption DEF TypeOK, LootCoin, Room

LEMMA DropsFacts ==
  ASSUME NEW window \in Windows
  PROVE  Drops(window) \subseteq [item : Items, id : ItemIds]
<1> DEFINE T == [item : Items, id : ItemIds]
<1>1. window \in Seq(T)
  BY WindowsAssumption DEF ItemIds
<1> HIDE DEF T
<1>2. \A i \in DOMAIN window : window[i] \in T
  BY <1>1
<1> QED BY <1>2 DEF Drops, T

LEMMA DropsType ==
  ASSUME TypeOK, NEW corpse \in Corpses, NEW window \in Windows, LootDrops(corpse, window)
  PROVE  TypeOK'
<1>1. NewDrops(corpse, window) \subseteq Drops(window)
  BY DEF NewDrops, Drops
<1>2. \A d \in NewDrops(corpse, window) : DropRow(corpse, d) \in Row
  <2> SUFFICES ASSUME NEW d \in NewDrops(corpse, window) PROVE DropRow(corpse, d) \in Row
    OBVIOUS
  <2> DEFINE h == [n |-> count + 1, seen |-> Here, item |-> d.item, corpse |-> corpse]
  <2>1. d.item \in Items /\ d.id \in ItemIds
    BY <1>1, DropsFacts
  <2>2. h \in Drop
    BY <2>1, HereType, BoundsAssumption DEF TypeOK, Drop, LootDrops, Room, ItemIds
  <2> QED BY <2>1, <2>2 DEF DropRow, TypeOK, Tracker, Dropped, Row, ItemIds
<1>3. TaughtBy(window) \subseteq Items
  BY DropsFacts DEF TaughtBy
<1>4. {<<corpse, d.item>> : d \in Drops(window)} \subseteq Corpses \X Items
  BY DropsFacts
<1>5. loot' \in Tracker
  <2>1. <<corpse, window>> \in Corpses \X Windows
    OBVIOUS
  <2> DEFINE dropped == {<<corpse, d.item>> : d \in Drops(window)}
  <2>2. loot' = [loot EXCEPT !.item_id_by_name = @ \cup TaughtBy(window),
                             !.seen_window = @ \cup dropped,
                             !.seen_window_snapshots = @ \cup {<<corpse, window>>}]
    BY DEF LootDrops
  <2>3. dropped \subseteq Corpses \X Items
    BY <1>4
  <2> HIDE DEF dropped
  <2> QED BY <1>3, <2>1, <2>2, <2>3 DEF TypeOK, Tracker
<1>6. rows' \subseteq Row
  BY <1>2 DEF TypeOK, LootDrops
<1>7. count' \in 0 .. MaxHalves
  BY BoundsAssumption DEF TypeOK, LootDrops, Room
<1> QED BY <1>5, <1>6, <1>7 DEF TypeOK, LootDrops

LEMMA ZoneType ==
  ASSUME TypeOK, NEW zone \in Zones \cup {""}, ZoneChanged(zone)
  PROVE  TypeOK'
<1>1. Zoned(zone) \in Tracker
  BY NewTrackerType DEF TypeOK, Tracker, Zoned
<1>2. visit' \in [stay : 0 .. MaxStays, span : 0 .. MaxStays]
  <2>0. visit.stay \in 0 .. MaxStays /\ visit.span \in 0 .. MaxStays
    BY DEF TypeOK
  <2>1. visit.stay + 1 \in 0 .. MaxStays /\ visit.span \in 0 .. MaxStays
    BY <2>0, NextStay DEF ZoneChanged
  <2> QED BY <2>1 DEF ZoneChanged
<1> QED BY <1>1, <1>2, FlushedType DEF TypeOK, ZoneChanged

LEMMA ResetType ==
  ASSUME TypeOK, NEW looter \in Characters \cup {""}, ResetTo(looter)
  PROVE  TypeOK'
<1>1. visit' \in [stay : 0 .. MaxStays, span : 0 .. MaxStays]
  <2>0. visit.stay \in 0 .. MaxStays
    BY DEF TypeOK
  <2>1. visit.stay + 1 \in 0 .. MaxStays
    BY <2>0, NextStay DEF ResetTo
  <2> QED BY <2>1 DEF ResetTo
<1> QED BY <1>1, NewTrackerType, FlushedType DEF TypeOK, ResetTo

-----------------------------------------------------------------------------
(* The inductive invariant                                                 *)

LootInv == TypeOK /\ NothingPairable /\ PendingIsOfThisVisit /\ RowsKeepTheirVisit

LEMMA HereKept ==
  ASSUME loot'.zone = loot.zone, loot'.looter = loot.looter, UNCHANGED visit
  PROVE  Here' = Here
  BY DEF Here

(* A pair of halves of this visit makes a row of this visit.               *)
LEMMA PairedKeeps ==
  ASSUME NEW m, NEW c, m.seen = Here, c.seen = Here, m.zone = loot.zone, m.looter = loot.looter
  PROVE  \A h, k \in Paired(m, c).halves :
            /\ h.seen.zone = Paired(m, c).zone /\ h.seen.looter = Paired(m, c).looter
            /\ h.seen = k.seen
  BY DEF Paired, Here

LEMMA FlushedKeeps ==
  ASSUME PendingIsOfThisVisit
  PROVE  \A r \in Flushed : \A h, k \in r.halves :
            h.seen.zone = r.zone /\ h.seen.looter = r.looter /\ h.seen = k.seen
<1>1. \A m \in loot.messages : \A h, k \in NarrationOnly(m).halves :
        /\ h.seen.zone = NarrationOnly(m).zone /\ h.seen.looter = NarrationOnly(m).looter
        /\ h.seen = k.seen
  BY DEF PendingIsOfThisVisit, Pending, NarrationOnly, Here
<1>2. \A c \in loot.confirmations : \A h, k \in ConfirmationOnly(c).halves :
        /\ h.seen.zone = ConfirmationOnly(c).zone
        /\ h.seen.looter = ConfirmationOnly(c).looter
        /\ h.seen = k.seen
  BY DEF PendingIsOfThisVisit, Pending, ConfirmationOnly, Here
<1> QED BY <1>1, <1>2 DEF Flushed

LEMMA MessageInv ==
  ASSUME LootInv, NEW p \in Narrations, LootMessage(p)
  PROVE  LootInv'
<1> DEFINE id == IF p.linked \/ p.item \in loot.item_id_by_name THEN p.item ELSE 0
           m  == [n |-> count + 1, seen |-> Here, item |-> p.item, id |-> id,
                  zone |-> loot.zone, looter |-> loot.looter]
           t  == [loot EXCEPT !.seen_messages = @ \cup {p}]
           candidates == Matching(loot.confirmations, id)
<1>1. TypeOK'
  BY MessageType DEF LootInv
<1>2. CASE candidates = {}
  <2>1. loot' = [t EXCEPT !.messages = @ \cup {m}] /\ UNCHANGED <<rows, visit>>
    BY <1>2 DEF LootMessage
  <2>2. /\ loot'.messages = loot.messages \cup {m}
        /\ UNCHANGED <<loot.confirmations, loot.zone, loot.looter>>
    BY <2>1 DEF LootInv, TypeOK, Tracker
  <2>3. \A c \in loot.confirmations : m.id # 0 /\ c.id # 0 /\ c.id # m.id
    BY <1>2, MatchingFacts
  <2>4. NothingPairable'
    BY <2>2, <2>3 DEF LootInv, NothingPairable
  <2>5. m.seen = Here /\ m.zone = loot.zone /\ m.looter = loot.looter
    OBVIOUS
  <2> HIDE DEF m
  <2>6. PendingIsOfThisVisit'
    BY <2>1, <2>2, <2>5, HereKept DEF LootInv, PendingIsOfThisVisit, Pending
  <2> QED BY <1>1, <2>1, <2>4, <2>6 DEF LootInv, RowsKeepTheirVisit
<1>3. CASE candidates # {}
  <2> DEFINE c == Oldest(candidates)
  <2>1. c \in loot.confirmations
    BY <1>3, OldestIsOne, PendingNumbers, MatchingFacts DEF LootInv
  <2>2. /\ loot' = [t EXCEPT !.confirmations = @ \ {c}]
        /\ rows' = rows \cup {Paired(m, c)} /\ UNCHANGED visit
    BY <1>3 DEF LootMessage
  <2>3. /\ loot'.confirmations = loot.confirmations \ {c}
        /\ UNCHANGED <<loot.messages, loot.zone, loot.looter>>
    BY <2>2 DEF LootInv, TypeOK, Tracker
  <2>4. NothingPairable'
    BY <2>3 DEF LootInv, NothingPairable
  <2>5. PendingIsOfThisVisit'
    BY <2>2, <2>3, HereKept DEF LootInv, PendingIsOfThisVisit, Pending
  <2>6. m.seen = Here /\ m.zone = loot.zone /\ m.looter = loot.looter /\ c.seen = Here
    BY <2>1 DEF LootInv, PendingIsOfThisVisit, Pending
  <2> HIDE DEF m, c
  <2>7. RowsKeepTheirVisit'
    BY <2>2, <2>6, PairedKeeps DEF LootInv, RowsKeepTheirVisit
  <2> QED BY <1>1, <2>4, <2>5, <2>7 DEF LootInv
<1> QED BY <1>2, <1>3

LEMMA TransactionInv ==
  ASSUME LootInv, NEW p \in Transactions, LootTransaction(p)
  PROVE  LootInv'
<1> DEFINE c == [n |-> count + 1, seen |-> Here, id |-> p.id, sequence |-> p.sequence]
           t == [loot EXCEPT !.seen_confirmations = @ \cup {TransactionKey(p)}]
           candidates == Matching(loot.messages, p.id)
<1>1. TypeOK'
  BY TransactionType DEF LootInv
<1>2. CASE candidates = {}
  <2>1. loot' = [t EXCEPT !.confirmations = @ \cup {c}] /\ UNCHANGED <<rows, visit>>
    BY <1>2 DEF LootTransaction
  <2>2. /\ loot'.confirmations = loot.confirmations \cup {c}
        /\ UNCHANGED <<loot.messages, loot.zone, loot.looter>>
    BY <2>1 DEF LootInv, TypeOK, Tracker
  <2>3. \A m \in loot.messages : c.id # 0 /\ m.id # 0 /\ c.id # m.id
    BY <1>2, MatchingFacts
  <2>4. c.seen = Here
    OBVIOUS
  <2> HIDE DEF c
  <2>5. NothingPairable'
    BY <2>2, <2>3 DEF LootInv, NothingPairable
  <2>6. PendingIsOfThisVisit'
    BY <2>1, <2>2, <2>4, HereKept DEF LootInv, PendingIsOfThisVisit, Pending
  <2> QED BY <1>1, <2>1, <2>5, <2>6 DEF LootInv, RowsKeepTheirVisit
<1>3. CASE candidates # {}
  <2> DEFINE m == Oldest(candidates)
  <2>1. m \in loot.messages
    BY <1>3, OldestIsOne, PendingNumbers, MatchingFacts DEF LootInv
  <2>2. /\ loot' = [t EXCEPT !.messages = @ \ {m}]
        /\ rows' = rows \cup {Paired(m, c)} /\ UNCHANGED visit
    BY <1>3 DEF LootTransaction
  <2>3. /\ loot'.messages = loot.messages \ {m}
        /\ UNCHANGED <<loot.confirmations, loot.zone, loot.looter>>
    BY <2>2 DEF LootInv, TypeOK, Tracker
  <2>4. NothingPairable'
    BY <2>3 DEF LootInv, NothingPairable
  <2>5. PendingIsOfThisVisit'
    BY <2>2, <2>3, HereKept DEF LootInv, PendingIsOfThisVisit, Pending
  <2>6. m.seen = Here /\ m.zone = loot.zone /\ m.looter = loot.looter /\ c.seen = Here
    BY <2>1 DEF LootInv, PendingIsOfThisVisit, Pending
  <2> HIDE DEF m, c
  <2>7. RowsKeepTheirVisit'
    BY <2>2, <2>6, PairedKeeps DEF LootInv, RowsKeepTheirVisit
  <2> QED BY <1>1, <2>4, <2>5, <2>7 DEF LootInv
<1> QED BY <1>2, <1>3

LEMMA CoinInv ==
  ASSUME LootInv, NEW p \in CoinPiles, LootCoin(p)
  PROVE  LootInv'
<1> DEFINE d == [n |-> count + 1, seen |-> Here, item |-> 0, corpse |-> 0]
<1>1. TypeOK'
  BY CoinType DEF LootInv
<1>2. UNCHANGED <<loot.messages, loot.confirmations, loot.zone, loot.looter, visit>>
  BY DEF LootInv, TypeOK, Tracker, LootCoin
<1>3. NothingPairable' /\ PendingIsOfThisVisit'
  BY <1>2, HereKept DEF LootInv, NothingPairable, PendingIsOfThisVisit, Pending
<1>4. rows' \subseteq rows \cup {CoinRow(p, d)}
  BY DEF LootCoin
<1>5. RowsKeepTheirVisit'
  BY <1>4 DEF LootInv, RowsKeepTheirVisit, CoinRow, Dropped, Here
<1> QED BY <1>1, <1>3, <1>5 DEF LootInv

LEMMA DropsInv ==
  ASSUME LootInv, NEW corpse \in Corpses, NEW window \in Windows, LootDrops(corpse, window)
  PROVE  LootInv'
<1>1. TypeOK'
  BY DropsType DEF LootInv
<1>2. UNCHANGED <<loot.messages, loot.confirmations, loot.zone, loot.looter, visit>>
  BY DEF LootInv, TypeOK, Tracker, LootDrops
<1>3. NothingPairable' /\ PendingIsOfThisVisit'
  BY <1>2, HereKept DEF LootInv, NothingPairable, PendingIsOfThisVisit, Pending
<1>4. \A d : \A h, k \in DropRow(corpse, d).halves :
         /\ h.seen.zone = DropRow(corpse, d).zone
         /\ h.seen.looter = DropRow(corpse, d).looter
         /\ h.seen = k.seen
  BY DEF DropRow, Dropped, Here
<1>5. rows' = rows \cup {DropRow(corpse, d) : d \in NewDrops(corpse, window)}
  BY DEF LootDrops
<1>6. RowsKeepTheirVisit'
  BY <1>4, <1>5 DEF LootInv, RowsKeepTheirVisit
<1> QED BY <1>1, <1>3, <1>6 DEF LootInv

(* A boundary leaves nothing pending.                                      *)
LEMMA BoundaryInv ==
  ASSUME LootInv, TypeOK', loot'.messages = {}, loot'.confirmations = {},
         rows' = rows \cup Flushed
  PROVE  LootInv'
<1>1. RowsKeepTheirVisit'
  BY FlushedKeeps DEF LootInv, RowsKeepTheirVisit
<1> QED BY <1>1 DEF LootInv, NothingPairable, PendingIsOfThisVisit, Pending

LEMMA ZoneInv ==
  ASSUME LootInv, NEW zone \in Zones \cup {""}, ZoneChanged(zone)
  PROVE  LootInv'
<1>1. Zoned(zone).messages = {} /\ Zoned(zone).confirmations = {}
  BY DEF Zoned, NewTracker, LootInv, TypeOK, Tracker
<1> QED BY <1>1, ZoneType, BoundaryInv DEF LootInv, ZoneChanged

LEMMA ResetInv ==
  ASSUME LootInv, NEW looter \in Characters \cup {""}, ResetTo(looter)
  PROVE  LootInv'
  BY ResetType, BoundaryInv DEF LootInv, ResetTo, NewTracker

-----------------------------------------------------------------------------
(* Theorems                                                                *)

(* The invariant of the loot tracker, whatever arrives in whatever order.  *)
THEOREM LootInvariant == Spec => []LootInv
<1>1. Init => LootInv
  <2> SUFFICES ASSUME Init PROVE LootInv
    OBVIOUS
  <2>0. 0 \in 0 .. MaxHalves /\ 0 \in 0 .. MaxStays
    BY BoundsAssumption
  <2>1. TypeOK
    BY <2>0, NewTrackerType DEF Init, TypeOK
  <2> QED BY <2>1 DEF Init, LootInv, NothingPairable, PendingIsOfThisVisit, Pending,
                      RowsKeepTheirVisit, NewTracker
<1>2. LootInv /\ [Next]_vars => LootInv'
  <2> SUFFICES ASSUME LootInv, [Next]_vars PROVE LootInv'
    OBVIOUS
  <2>1. loot.looter \in Characters \cup {""}
    BY DEF LootInv, TypeOK, Tracker
  <2>2. CASE \E p \in Narrations : LootMessage(p)
    BY <2>2, MessageInv
  <2>3. CASE \E p \in Transactions : LootTransaction(p)
    BY <2>3, TransactionInv
  <2>4. CASE \E p \in CoinPiles : LootCoin(p)
    BY <2>4, CoinInv
  <2>5. CASE \E corpse \in Corpses, window \in Windows : LootDrops(corpse, window)
    BY <2>5, DropsInv
  <2>6. CASE \E zone \in Zones \cup {""} : ZoneChanged(zone)
    BY <2>6, ZoneInv
  <2>7. CASE \E name \in Characters, fromClient \in BOOLEAN : EnterWorld(name, fromClient)
    BY <2>1, <2>7, ResetInv DEF EnterWorld
  <2>8. CASE \E name \in Characters : PlayerProfile(name)
    BY <2>8, ResetInv DEF PlayerProfile
  <2>9. CASE Flush
    BY <2>1, <2>9, ResetInv DEF Flush
  <2>10. CASE UNCHANGED vars
    BY <2>10 DEF vars, LootInv, TypeOK, NothingPairable, PendingIsOfThisVisit, Pending,
                 RowsKeepTheirVisit, Here
  <2> QED BY <2>2, <2>3, <2>4, <2>5, <2>6, <2>7, <2>8, <2>9, <2>10 DEF Next, TakeLootRows
<1> QED BY <1>1, <1>2, PTL DEF Spec

(* The tracker and every row keep their types.                             *)
THEOREM TypeCorrect == Spec => []TypeOK
  BY LootInvariant, PTL DEF LootInv

(* Pairing never leaves two halves pending that belong together            *)
(* (loot_track.rs:353-366, 422-436).                                       *)
THEOREM PairingComplete == Spec => []NothingPairable
  BY LootInvariant, PTL DEF LootInv

(* Every row names the zone and the looter of the visit in which each of   *)
(* its halves was seen (loot_track.rs:289-303, 513-533).                   *)
THEOREM RowsCorrect == Spec => []RowsKeepTheirVisit
  BY LootInvariant, PTL DEF LootInv

-----------------------------------------------------------------------------
(* Accepting and settling                                                  *)

LEMMA FreshNumber ==
  ASSUME NEW P, NEW R, NEW c \in Nat, Accounted(P, R, c)
  PROVE  /\ \A h \in P : h.n # c + 1
         /\ \A r \in R : c + 1 \notin Numbers(r.halves)
<1>1. c + 1 \notin 1 .. c
  OBVIOUS
<1> QED BY <1>1 DEF Accounted

LEMMA Upto ==
  ASSUME NEW c \in Nat
  PROVE  1 .. c + 1 = (1 .. c) \cup {c + 1}
  OBVIOUS

LEMMA Accept ==
  ASSUME NEW P, NEW R, NEW c \in Nat, Accounted(P, R, c), NEW h, h.n = c + 1
  PROVE  Accounted(P \cup {h}, R, c + 1)
<1> DEFINE Q == P \cup {h}
<1>1. \A i, k \in Q : i.n = k.n => i = k
  BY FreshNumber DEF Accounted
<1>2. \A r \in R, i \in Q : i.n \notin Numbers(r.halves)
  <2>1. \A r \in R, i \in P : i.n \notin Numbers(r.halves)
    BY DEF Accounted
  <2>2. \A r \in R : h.n \notin Numbers(r.halves)
    BY FreshNumber
  <2> QED BY <2>1, <2>2
<1>3. \A i \in Q : i.n \in 1 .. c + 1
  BY Upto DEF Accounted
<1>4. \A r \in R : Numbers(r.halves) \subseteq 1 .. c + 1
  BY Upto DEF Accounted
<1>5. \A n \in 1 .. c + 1 : n \in Numbers(Q) \/ \E r \in R : n \in Numbers(r.halves)
  <2> SUFFICES ASSUME NEW n \in 1 .. c + 1
               PROVE  n \in Numbers(Q) \/ \E r \in R : n \in Numbers(r.halves)
    OBVIOUS
  <2>1. CASE n = c + 1
    BY <2>1 DEF Numbers
  <2>2. CASE n \in 1 .. c
    BY <2>2 DEF Accounted, Numbers
  <2> QED BY <2>1, <2>2, Upto
<1>6. \A r, q \in R : r # q => r.halves \cap q.halves = {}
  BY DEF Accounted
<1> HIDE DEF Q
<1>7. Accounted(Q, R, c + 1)
  BY <1>1, <1>2, <1>3, <1>4, <1>5, <1>6 DEF Accounted
<1> QED BY <1>7 DEF Q

(* Rows that partition a part S of what is pending take it over.           *)
LEMMA Settle ==
  ASSUME NEW P, NEW R, NEW c \in Nat, Accounted(P, R, c),
         NEW S \in SUBSET P, NEW F,
         \A f \in F : f.halves \subseteq S,
         \A h \in S : \E f \in F : h \in f.halves,
         \A f, g \in F : f # g => f.halves \cap g.halves = {}
  PROVE  Accounted(P \ S, R \cup F, c)
<1> DEFINE Q == P \ S
           T == R \cup F
<1>1. \A i, k \in Q : i.n = k.n => i = k
  BY DEF Accounted
<1>2. \A f \in F, i \in Q : i.n \notin Numbers(f.halves)
  BY DEF Accounted, Numbers
<1>3. \A r \in T, i \in Q : i.n \notin Numbers(r.halves)
  BY <1>2 DEF Accounted
<1>4. \A r \in R, f \in F : r.halves \cap f.halves = {}
  BY DEF Accounted, Numbers
<1>5. \A r, q \in T : r # q => r.halves \cap q.halves = {}
  BY <1>4 DEF Accounted
<1>6. \A i \in Q : i.n \in 1 .. c
  BY DEF Accounted
<1>7. \A r \in T : Numbers(r.halves) \subseteq 1 .. c
  BY DEF Accounted, Numbers
<1>8. \A n \in 1 .. c : n \in Numbers(Q) \/ \E r \in T : n \in Numbers(r.halves)
  <2> SUFFICES ASSUME NEW n \in 1 .. c
               PROVE  n \in Numbers(Q) \/ \E r \in T : n \in Numbers(r.halves)
    OBVIOUS
  <2>1. CASE \E r \in R : n \in Numbers(r.halves)
    BY <2>1
  <2>2. CASE n \in Numbers(P)
    <3>1. PICK h \in P : h.n = n
      BY <2>2 DEF Numbers
    <3>2. CASE h \in S
      <4>1. PICK f \in F : h \in f.halves
        BY <3>2
      <4> QED BY <3>1, <4>1 DEF Numbers
    <3>3. CASE h \notin S
      BY <3>1, <3>3 DEF Numbers
    <3> QED BY <3>2, <3>3
  <2> QED BY <2>1, <2>2 DEF Accounted
<1> HIDE DEF Q, T
<1>9. Accounted(Q, T, c)
  BY <1>1, <1>3, <1>5, <1>6, <1>7, <1>8 DEF Accounted
<1> QED BY <1>9 DEF Q, T

(* Rows complete from the start, of one packet.                            *)
LEMMA Make ==
  ASSUME NEW P, NEW R, NEW c \in Nat, Accounted(P, R, c),
         NEW F, F # {},
         \A f \in F : f.halves # {} /\ \A h \in f.halves : h.n = c + 1,
         \A f, g \in F : f # g => f.halves \cap g.halves = {}
  PROVE  Accounted(P, R \cup F, c + 1)
<1> DEFINE T == R \cup F
<1>1. \A f \in F : Numbers(f.halves) = {c + 1}
  BY DEF Numbers
<1>2. \A r \in T, h \in P : h.n \notin Numbers(r.halves)
  <2>1. \A h \in P : h.n # c + 1
    BY FreshNumber
  <2>2. \A r \in R, h \in P : h.n \notin Numbers(r.halves)
    BY DEF Accounted
  <2> QED BY <1>1, <2>1, <2>2
<1>3. \A r \in R, f \in F : r.halves \cap f.halves = {}
  BY FreshNumber DEF Numbers
<1>4. \A r, q \in T : r # q => r.halves \cap q.halves = {}
  BY <1>3 DEF Accounted
<1>5. \A h \in P : h.n \in 1 .. c + 1
  BY Upto DEF Accounted
<1>6. \A r \in T : Numbers(r.halves) \subseteq 1 .. c + 1
  BY <1>1, Upto, SMTT(30) DEF Accounted
<1>7. \A n \in 1 .. c + 1 : n \in Numbers(P) \/ \E r \in T : n \in Numbers(r.halves)
  BY <1>1, Upto DEF Accounted
<1>8. \A h, k \in P : h.n = k.n => h = k
  BY DEF Accounted
<1> HIDE DEF T
<1>9. Accounted(P, T, c + 1)
  BY <1>2, <1>4, <1>5, <1>6, <1>7, <1>8 DEF Accounted
<1> QED BY <1>9 DEF T

(* A new half paired at once with a pending one.                           *)
LEMMA AcceptAndPair ==
  ASSUME NEW P, NEW R, NEW c \in Nat, Accounted(P, R, c),
         NEW h, h.n = c + 1, NEW k \in P, NEW row, row.halves = {h, k}
  PROVE  Accounted(P \ {k}, R \cup {row}, c + 1)
<1>1. Accounted(P \cup {h}, R, c + 1)
  BY Accept
<1> DEFINE Q == P \cup {h}
           S == {h, k}
           F == {row}
<1>2. /\ S \in SUBSET Q
      /\ \A f \in F : f.halves \subseteq S
      /\ \A x \in S : \E f \in F : x \in f.halves
      /\ \A f, g \in F : f # g => f.halves \cap g.halves = {}
  OBVIOUS
<1>3. h \notin P
  BY FreshNumber
<1>4. Q \ S = P \ {k}
  BY <1>3
<1> HIDE DEF Q, S, F
<1>5. Accounted(Q \ S, R \cup F, c + 1)
  <2>1. c + 1 \in Nat
    OBVIOUS
  <2> QED BY <1>1, <1>2, <2>1, Settle DEF Q
<1> QED BY <1>4, <1>5 DEF F

-----------------------------------------------------------------------------
(* Steps                                                                   *)

ConservationInv == LootInv /\ EachHalfOnce

LEMMA CountType == ConservationInv => count \in Nat
  BY BoundsAssumption DEF ConservationInv, LootInv, TypeOK

LEMMA MessageAccounted ==
  ASSUME ConservationInv, NEW p \in Narrations, LootMessage(p)
  PROVE  EachHalfOnce'
<1> DEFINE id == IF p.linked \/ p.item \in loot.item_id_by_name THEN p.item ELSE 0
           m  == [n |-> count + 1, seen |-> Here, item |-> p.item, id |-> id,
                  zone |-> loot.zone, looter |-> loot.looter]
           t  == [loot EXCEPT !.seen_messages = @ \cup {p}]
           candidates == Matching(loot.confirmations, id)
<1>1. /\ count \in Nat /\ Accounted(Pending, rows, count)
      /\ loot.messages \cap loot.confirmations = {}
  BY CountType DEF ConservationInv, EachHalfOnce
<1>2. m.n = count + 1 /\ count' = count + 1
  BY DEF LootMessage
<1>3. CASE candidates = {}
  <2>1. loot' = [t EXCEPT !.messages = @ \cup {m}] /\ UNCHANGED rows
    BY <1>3 DEF LootMessage
  <2>2. loot'.messages = loot.messages \cup {m} /\ UNCHANGED loot.confirmations
    BY <2>1 DEF ConservationInv, LootInv, TypeOK, Tracker
  <2> HIDE DEF m
  <2>3. m \notin Pending
    BY <1>1, <1>2, FreshNumber
  <2>4. Pending' = Pending \cup {m}
    BY <2>2 DEF Pending
  <2>5. Accounted(Pending \cup {m}, rows, count + 1)
    BY <1>1, <1>2, Accept
  <2> QED BY <1>1, <1>2, <2>1, <2>2, <2>3, <2>4, <2>5 DEF EachHalfOnce, Pending
<1>4. CASE candidates # {}
  <2> DEFINE c == Oldest(candidates)
  <2>1. c \in loot.confirmations
    BY <1>4, OldestIsOne, PendingNumbers, MatchingFacts DEF ConservationInv, LootInv
  <2>2. loot' = [t EXCEPT !.confirmations = @ \ {c}] /\ rows' = rows \cup {Paired(m, c)}
    BY <1>4 DEF LootMessage
  <2>3. loot'.confirmations = loot.confirmations \ {c} /\ UNCHANGED loot.messages
    BY <2>2 DEF ConservationInv, LootInv, TypeOK, Tracker
  <2> HIDE DEF m, c
  <2>4. Pending' = Pending \ {c} /\ c \in Pending
    BY <1>1, <2>1, <2>3 DEF Pending
  <2>5. Paired(m, c).halves = {m, c}
    BY DEF Paired
  <2>6. Accounted(Pending \ {c}, rows \cup {Paired(m, c)}, count + 1)
    BY <1>1, <1>2, <2>4, <2>5, AcceptAndPair
  <2> QED BY <1>1, <1>2, <2>2, <2>3, <2>4, <2>6 DEF EachHalfOnce
<1> QED BY <1>3, <1>4

LEMMA TransactionAccounted ==
  ASSUME ConservationInv, NEW p \in Transactions, LootTransaction(p)
  PROVE  EachHalfOnce'
<1> DEFINE c == [n |-> count + 1, seen |-> Here, id |-> p.id, sequence |-> p.sequence]
           t == [loot EXCEPT !.seen_confirmations = @ \cup {TransactionKey(p)}]
           candidates == Matching(loot.messages, p.id)
<1>1. /\ count \in Nat /\ Accounted(Pending, rows, count)
      /\ loot.messages \cap loot.confirmations = {}
  BY CountType DEF ConservationInv, EachHalfOnce
<1>2. c.n = count + 1 /\ count' = count + 1
  BY DEF LootTransaction
<1>3. CASE candidates = {}
  <2>1. loot' = [t EXCEPT !.confirmations = @ \cup {c}] /\ UNCHANGED rows
    BY <1>3 DEF LootTransaction
  <2>2. loot'.confirmations = loot.confirmations \cup {c} /\ UNCHANGED loot.messages
    BY <2>1 DEF ConservationInv, LootInv, TypeOK, Tracker
  <2> HIDE DEF c
  <2>3. c \notin Pending
    BY <1>1, <1>2, FreshNumber
  <2>4. Pending' = Pending \cup {c}
    BY <2>2 DEF Pending
  <2>5. Accounted(Pending \cup {c}, rows, count + 1)
    BY <1>1, <1>2, Accept
  <2> QED BY <1>1, <1>2, <2>1, <2>2, <2>3, <2>4, <2>5 DEF EachHalfOnce, Pending
<1>4. CASE candidates # {}
  <2> DEFINE m == Oldest(candidates)
  <2>1. m \in loot.messages
    BY <1>4, OldestIsOne, PendingNumbers, MatchingFacts DEF ConservationInv, LootInv
  <2>2. loot' = [t EXCEPT !.messages = @ \ {m}] /\ rows' = rows \cup {Paired(m, c)}
    BY <1>4 DEF LootTransaction
  <2>3. loot'.messages = loot.messages \ {m} /\ UNCHANGED loot.confirmations
    BY <2>2 DEF ConservationInv, LootInv, TypeOK, Tracker
  <2> HIDE DEF m, c
  <2>4. Pending' = Pending \ {m} /\ m \in Pending
    BY <1>1, <2>1, <2>3 DEF Pending
  <2>5. Paired(m, c).halves = {c, m}
    BY DEF Paired
  <2>6. Accounted(Pending \ {m}, rows \cup {Paired(m, c)}, count + 1)
    BY <1>1, <1>2, <2>4, <2>5, AcceptAndPair
  <2> QED BY <1>1, <1>2, <2>2, <2>3, <2>4, <2>6 DEF EachHalfOnce
<1> QED BY <1>3, <1>4

LEMMA CoinAccounted ==
  ASSUME ConservationInv, NEW p \in CoinPiles, LootCoin(p)
  PROVE  EachHalfOnce'
<1> DEFINE d == [n |-> count + 1, seen |-> Here, item |-> 0, corpse |-> 0]
           row == CoinRow(p, d)
<1>1. count \in Nat /\ Accounted(Pending, rows, count)
  BY CountType DEF ConservationInv, EachHalfOnce
<1>2. UNCHANGED <<loot.messages, loot.confirmations>>
  BY DEF ConservationInv, LootInv, TypeOK, Tracker, LootCoin
<1>3. row.halves = {d} /\ d.n = count + 1
  BY DEF CoinRow, Dropped
<1>4. CASE p.copper
  <2>1. rows' = rows \cup {row} /\ count' = count + 1
    BY <1>4 DEF LootCoin
  <2> HIDE DEF d, row
  <2> DEFINE F == {row}
  <2>2. /\ F # {}
        /\ \A f \in F : f.halves # {} /\ \A h \in f.halves : h.n = count + 1
        /\ \A f, g \in F : f # g => f.halves \cap g.halves = {}
    BY <1>3
  <2> HIDE DEF F
  <2>3. Accounted(Pending, rows \cup F, count + 1)
    BY <1>1, <2>2, Make
  <2> QED BY <1>2, <2>1, <2>3 DEF EachHalfOnce, Pending, F, ConservationInv
<1>5. CASE ~p.copper
  BY <1>1, <1>2, <1>5 DEF LootCoin, EachHalfOnce, Pending, ConservationInv
<1> QED BY <1>4, <1>5

LEMMA DropsAccounted ==
  ASSUME ConservationInv, NEW corpse \in Corpses, NEW window \in Windows,
         LootDrops(corpse, window)
  PROVE  EachHalfOnce'
<1> DEFINE new == NewDrops(corpse, window)
           F == {DropRow(corpse, d) : d \in new}
<1>1. count \in Nat /\ Accounted(Pending, rows, count)
  BY CountType DEF ConservationInv, EachHalfOnce
<1>2. UNCHANGED <<loot.messages, loot.confirmations>>
  BY DEF ConservationInv, LootInv, TypeOK, Tracker, LootDrops
<1>3. rows' = rows \cup F /\ count' = IF new = {} THEN count ELSE count + 1
  BY DEF LootDrops
<1>4. \A d, e \in new : d.item = e.item => d = e
  <2> SUFFICES ASSUME NEW d \in new, NEW e \in new, d.item = e.item PROVE d = e
    OBVIOUS
  <2>1. PICK i \in DOMAIN window :
          d = window[i] /\ \A k \in 1 .. i - 1 : window[k].item # window[i].item
    BY DEF NewDrops
  <2>2. PICK j \in DOMAIN window :
          e = window[j] /\ \A k \in 1 .. j - 1 : window[k].item # window[j].item
    BY DEF NewDrops
  <2>3. i \in Nat \ {0} /\ j \in Nat \ {0}
    BY WindowsAssumption
  <2>4. i = j
    BY <2>1, <2>2, <2>3
  <2> QED BY <2>1, <2>2, <2>4
<1>5. \A d : DropRow(corpse, d).halves =
               {[n |-> count + 1, seen |-> Here, item |-> d.item, corpse |-> corpse]}
  BY DEF DropRow, Dropped
<1>6. \A f \in F : f.halves # {} /\ \A h \in f.halves : h.n = count + 1
  <2> SUFFICES ASSUME NEW d \in new
               PROVE  /\ DropRow(corpse, d).halves # {}
                      /\ \A h \in DropRow(corpse, d).halves : h.n = count + 1
    OBVIOUS
  <2> DEFINE h == [n |-> count + 1, seen |-> Here, item |-> d.item, corpse |-> corpse]
  <2>1. DropRow(corpse, d).halves = {h} /\ h.n = count + 1
    BY <1>5
  <2> HIDE DEF h
  <2> QED BY <2>1
<1>7. \A f, g \in F : f # g => f.halves \cap g.halves = {}
  <2> SUFFICES ASSUME NEW d \in new, NEW e \in new,
                      DropRow(corpse, d) # DropRow(corpse, e)
               PROVE  DropRow(corpse, d).halves \cap DropRow(corpse, e).halves = {}
    OBVIOUS
  <2>1. d.item # e.item
    BY <1>4
  <2> QED BY <1>5, <2>1
<1>8. F = {} <=> new = {}
  OBVIOUS
<1> HIDE DEF F, new
<1>9. CASE new = {}
  BY <1>1, <1>2, <1>3, <1>8, <1>9 DEF EachHalfOnce, Pending, ConservationInv
<1>10. CASE new # {}
  <2>1. Accounted(Pending, rows \cup F, count + 1)
    BY <1>1, <1>6, <1>7, <1>8, <1>10, Make
  <2> QED BY <1>2, <1>3, <1>10, <2>1 DEF EachHalfOnce, Pending, ConservationInv
<1> QED BY <1>9, <1>10

(* A boundary settles everything that is pending.                          *)
LEMMA BoundaryAccounted ==
  ASSUME ConservationInv, loot'.messages = {}, loot'.confirmations = {},
         rows' = rows \cup Flushed, UNCHANGED count
  PROVE  EachHalfOnce'
<1>1. /\ count \in Nat /\ Accounted(Pending, rows, count)
      /\ loot.messages \cap loot.confirmations = {}
  BY CountType DEF ConservationInv, EachHalfOnce
<1>2. /\ \A m : NarrationOnly(m).halves = {m}
      /\ \A c : ConfirmationOnly(c).halves = {c}
  BY DEF NarrationOnly, ConfirmationOnly
<1>3. /\ \A f \in Flushed : f.halves \subseteq Pending
      /\ \A h \in Pending : \E f \in Flushed : h \in f.halves
  <2>1. \A m \in loot.messages : NarrationOnly(m) \in Flushed
    BY DEF Flushed
  <2>2. \A c \in loot.confirmations : ConfirmationOnly(c) \in Flushed
    BY DEF Flushed
  <2>3. \A f \in Flushed : \/ \E m \in loot.messages : f = NarrationOnly(m)
                           \/ \E c \in loot.confirmations : f = ConfirmationOnly(c)
    BY DEF Flushed
  <2>4. \A f \in Flushed : f.halves \subseteq Pending
    BY <1>2, <2>3 DEF Pending
  <2>5. \A h \in Pending : \E f \in Flushed : h \in f.halves
    BY <1>2, <2>1, <2>2 DEF Pending
  <2> QED BY <2>4, <2>5
<1>4. \A f, g \in Flushed : f # g => f.halves \cap g.halves = {}
  BY <1>1, <1>2 DEF Flushed
<1>5. Pending \in SUBSET Pending
  OBVIOUS
<1>6. Accounted(Pending \ Pending, rows \cup Flushed, count)
  BY <1>1, <1>3, <1>4, <1>5, Settle
<1>7. Pending' = Pending \ Pending
  BY DEF Pending
<1> QED BY <1>6, <1>7 DEF EachHalfOnce

-----------------------------------------------------------------------------
(* Theorem                                                                 *)

LEMMA ConservationInit == Init => EachHalfOnce
<1> SUFFICES ASSUME Init PROVE EachHalfOnce
  OBVIOUS
<1>1. Pending = {} /\ rows = {} /\ count = 0 /\ loot.messages = {}
  BY DEF Init, NewTracker, Pending
<1> QED BY <1>1 DEF EachHalfOnce, Accounted

LEMMA ConservationStep ==
  ASSUME ConservationInv, [Next]_vars
  PROVE  EachHalfOnce'
<1>1. CASE \E p \in Narrations : LootMessage(p)
  BY <1>1, MessageAccounted
<1>2. CASE \E p \in Transactions : LootTransaction(p)
  BY <1>2, TransactionAccounted
<1>3. CASE \E p \in CoinPiles : LootCoin(p)
  BY <1>3, CoinAccounted
<1>4. CASE \E corpse \in Corpses, window \in Windows : LootDrops(corpse, window)
  BY <1>4, DropsAccounted
<1>5. CASE \E zone \in Zones \cup {""} : ZoneChanged(zone)
  <2>1. PICK zone \in Zones \cup {""} : ZoneChanged(zone)
    BY <1>5
  <2>2. Zoned(zone).messages = {} /\ Zoned(zone).confirmations = {}
    BY DEF Zoned, NewTracker, ConservationInv, LootInv, TypeOK, Tracker
  <2> QED BY <2>1, <2>2, BoundaryAccounted DEF ZoneChanged
<1>6. CASE \E looter : ResetTo(looter)
  <2>1. PICK looter : ResetTo(looter)
    BY <1>6
  <2>2. NewTracker(looter).messages = {} /\ NewTracker(looter).confirmations = {}
    BY DEF NewTracker
  <2> QED BY <2>1, <2>2, BoundaryAccounted DEF ResetTo
<1>7. CASE UNCHANGED vars
  BY <1>7 DEF vars, ConservationInv, EachHalfOnce, Pending
<1> QED BY <1>1, <1>2, <1>3, <1>4, <1>5, <1>6, <1>7
        DEF Next, EnterWorld, PlayerProfile, Flush, TakeLootRows

(* Every half, coin pile and window accepted is in exactly one row or      *)
(* still pending (loot_track.rs:291-303, 353-366, 422-436, 507-539).       *)
THEOREM NothingLostOrDoubled == Spec => []EachHalfOnce
<1>1. Init => EachHalfOnce
  BY ConservationInit
<1>2. LootInv /\ EachHalfOnce /\ [Next]_vars => EachHalfOnce'
  BY ConservationStep DEF ConservationInv
<1> QED BY <1>1, <1>2, LootInvariant, PTL DEF Spec

-----------------------------------------------------------------------------
(* What a narration and a confirmation do                                  *)

(* The oldest candidate, when it has the same known id, is the oldest of   *)
(* all the halves with that id.                                            *)
LEMMA OldestOfItsId ==
  ASSUME NEW H, \A h \in H : h.n \in Nat, NEW id, Matching(H, id) # {}
  PROVE  /\ Oldest(Matching(H, id)) \in H
         /\ id # 0 /\ Oldest(Matching(H, id)).id = id =>
              \A k \in H : k.id = id => Oldest(Matching(H, id)).n <= k.n
<1> DEFINE M == Matching(H, id)
           o == Oldest(M)
<1>1. M \subseteq H
  BY MatchingFacts
<1>2. o \in M /\ \A k \in M : o.n <= k.n
  BY <1>1, OldestIsOne
<1>3. ASSUME id # 0, o.id = id, NEW k \in H, k.id = id PROVE k \in M
  BY <1>3 DEF Matching
<1> QED BY <1>1, <1>2, <1>3

MessageAdds(m) ==
  /\ loot'.messages = loot.messages \cup {m} /\ loot'.confirmations = loot.confirmations
  /\ rows' = rows
  /\ \A k \in loot.confirmations : k.id # m.id

MessagePairs(m, c) ==
  /\ loot'.messages = loot.messages /\ loot'.confirmations = loot.confirmations \ {c}
  /\ rows' = rows \cup {Paired(m, c)}
  /\ m.id # 0 /\ c.id = m.id => \A k \in loot.confirmations : k.id = m.id => c.n <= k.n

LEMMA MessageStep ==
  ASSUME TypeOK, NEW p \in Narrations, LootMessage(p)
  PROVE  /\ count' = count + 1 /\ visit' = visit
         /\ loot'.seen_confirmations = loot.seen_confirmations
         /\ loot'.seen_window = loot.seen_window
         /\ \E m \in Narration :
              /\ m.n = count + 1
              /\ MessageAdds(m) \/ \E c \in loot.confirmations : MessagePairs(m, c)
<1> DEFINE id == IF p.linked \/ p.item \in loot.item_id_by_name THEN p.item ELSE 0
           m  == [n |-> count + 1, seen |-> Here, item |-> p.item, id |-> id,
                  zone |-> loot.zone, looter |-> loot.looter]
           t  == [loot EXCEPT !.seen_messages = @ \cup {p}]
           candidates == Matching(loot.confirmations, id)
           c  == Oldest(candidates)
<1>1. m \in Narration
  <2>1. p.item \in Items /\ id \in ItemIds
    BY NarrationsAssumption DEF ItemIds
  <2>2. count + 1 \in 1 .. MaxHalves
    BY BoundsAssumption DEF TypeOK, LootMessage, Room
  <2> HIDE DEF id
  <2> QED BY <2>1, <2>2, HereType DEF TypeOK, Tracker, Narration
<1>2. count' = count + 1 /\ visit' = visit
  BY DEF LootMessage
<1>3. /\ loot' \in {[t EXCEPT !.messages = @ \cup {m}], [t EXCEPT !.confirmations = @ \ {c}]}
  BY DEF LootMessage
<1>4. m.id = id /\ m.n = count + 1
  OBVIOUS
<1> HIDE DEF m, id, c
<1>5. /\ loot'.seen_confirmations = loot.seen_confirmations
      /\ loot'.seen_window = loot.seen_window
  BY <1>3 DEF TypeOK, Tracker
<1>6. CASE candidates = {}
  <2>1. loot' = [t EXCEPT !.messages = @ \cup {m}] /\ rows' = rows
    BY <1>6 DEF LootMessage, m, id
  <2>2. \A k \in loot.confirmations : k.id # id
    BY <1>6, MatchingFacts
  <2>3. MessageAdds(m)
    BY <1>4, <2>1, <2>2 DEF MessageAdds, TypeOK, Tracker
  <2> QED BY <1>1, <1>2, <1>4, <1>5, <2>3
<1>7. CASE candidates # {}
  <2>1. loot' = [t EXCEPT !.confirmations = @ \ {c}] /\ rows' = rows \cup {Paired(m, c)}
    BY <1>7 DEF LootMessage, m, id, c
  <2>2. \A h \in loot.confirmations : h.n \in Nat
    BY PendingNumbers
  <2>3. /\ c \in loot.confirmations
        /\ id # 0 /\ c.id = id => \A k \in loot.confirmations : k.id = id => c.n <= k.n
    BY <1>7, <2>2, OldestOfItsId DEF c
  <2>4. MessagePairs(m, c)
    BY <1>4, <2>1, <2>3 DEF MessagePairs, TypeOK, Tracker
  <2> QED BY <1>1, <1>2, <1>4, <1>5, <2>3, <2>4
<1> QED BY <1>6, <1>7

TransactionAdds(c) ==
  /\ loot'.messages = loot.messages /\ loot'.confirmations = loot.confirmations \cup {c}
  /\ rows' = rows
  /\ \A k \in loot.messages : k.id # c.id

TransactionPairs(m, c) ==
  /\ loot'.messages = loot.messages \ {m} /\ loot'.confirmations = loot.confirmations
  /\ rows' = rows \cup {Paired(m, c)}
  /\ c.id # 0 /\ m.id = c.id => \A k \in loot.messages : k.id = c.id => m.n <= k.n

LEMMA TransactionStep ==
  ASSUME TypeOK, NEW p \in Transactions, LootTransaction(p)
  PROVE  /\ count' = count + 1 /\ visit' = visit
         /\ TransactionKey(p) \notin loot.seen_confirmations
         /\ loot'.seen_confirmations = loot.seen_confirmations \cup {TransactionKey(p)}
         /\ loot'.seen_window = loot.seen_window
         /\ \E c \in Confirmation :
              /\ c.n = count + 1 /\ c.sequence = p.sequence /\ c.seen = Here
              /\ TransactionAdds(c) \/ \E m \in loot.messages : TransactionPairs(m, c)
<1> DEFINE c == [n |-> count + 1, seen |-> Here, id |-> p.id, sequence |-> p.sequence]
           key == TransactionKey(p)
           t == [loot EXCEPT !.seen_confirmations = @ \cup {key}]
           candidates == Matching(loot.messages, p.id)
           m == Oldest(candidates)
<1>1. c \in Confirmation
  <2>1. p.id \in ItemIds /\ p.sequence \in Nat
    BY TransactionsAssumption DEF ItemIds
  <2>2. count + 1 \in 1 .. MaxHalves
    BY BoundsAssumption DEF TypeOK, LootTransaction, Room
  <2> QED BY <2>1, <2>2, HereType DEF TypeOK, Tracker, Confirmation
<1>2. count' = count + 1 /\ visit' = visit /\ key \notin loot.seen_confirmations
  BY DEF LootTransaction
<1> HIDE DEF key
<1>3. /\ loot' \in {[t EXCEPT !.confirmations = @ \cup {c}], [t EXCEPT !.messages = @ \ {m}]}
  BY DEF LootTransaction, key
<1>4. c.id = p.id /\ c.n = count + 1 /\ c.sequence = p.sequence /\ c.seen = Here
  OBVIOUS
<1> HIDE DEF m, c
<1>5. /\ loot'.seen_confirmations = loot.seen_confirmations \cup {key}
      /\ loot'.seen_window = loot.seen_window
  BY <1>3 DEF TypeOK, Tracker
<1>6. CASE candidates = {}
  <2>1. loot' = [t EXCEPT !.confirmations = @ \cup {c}] /\ rows' = rows
    BY <1>6 DEF LootTransaction, c, key
  <2>2. \A k \in loot.messages : k.id # p.id
    BY <1>6, MatchingFacts
  <2>3. TransactionAdds(c)
    BY <1>4, <2>1, <2>2 DEF TransactionAdds, TypeOK, Tracker
  <2> QED BY <1>1, <1>2, <1>4, <1>5, <2>3 DEF key
<1>7. CASE candidates # {}
  <2>1. loot' = [t EXCEPT !.messages = @ \ {m}] /\ rows' = rows \cup {Paired(m, c)}
    BY <1>7 DEF LootTransaction, m, c, key
  <2>2. \A h \in loot.messages : h.n \in Nat
    BY PendingNumbers
  <2>3. /\ m \in loot.messages
        /\ p.id # 0 /\ m.id = p.id => \A k \in loot.messages : k.id = p.id => m.n <= k.n
    BY <1>7, <2>2, OldestOfItsId DEF m
  <2>4. TransactionPairs(m, c)
    BY <1>4, <2>1, <2>3 DEF TransactionPairs, TypeOK, Tracker
  <2> QED BY <1>1, <1>2, <1>4, <1>5, <2>3, <2>4 DEF key
<1> QED BY <1>6, <1>7

-----------------------------------------------------------------------------
(* Repetition                                                              *)

(* Every confirmation accepted so far, and what was dropped in windows.    *)
AllConfirmed ==
  loot.confirmations \cup {h \in UNION {r.halves : r \in rows} : IsConfirmation(h)}

WindowDrops == UNION {r.halves : r \in {q \in rows : q.source = "window"}}

(* What was accepted since the last reset is still recognised; before it,  *)
(* the span was an earlier one.                                            *)
SeenInv ==
  /\ visit.span <= visit.stay
  /\ \A h \in AllConfirmed :
       /\ h.seen.span <= visit.span
       /\ h.seen.span = visit.span /\ h.sequence # 0 =>
            [sequence |-> h.sequence] \in loot.seen_confirmations
  /\ \A h, k \in AllConfirmed :
       h.seen.span = k.seen.span /\ h.sequence = k.sequence /\ h.sequence # 0 => h = k
  /\ \A h \in WindowDrops :
       /\ h.seen.span <= visit.span
       /\ h.seen.span = visit.span => <<h.corpse, h.item>> \in loot.seen_window
  /\ \A h, k \in WindowDrops :
       h.seen.span = k.seen.span /\ <<h.corpse, h.item>> = <<k.corpse, k.item>> => h = k

(* Which half is which.                                                    *)
LEMMA Kinds ==
  /\ \A m \in Narration : IsNarration(m) /\ ~IsConfirmation(m)
  /\ \A c \in Confirmation : IsConfirmation(c) /\ ~IsNarration(c)
  /\ \A d \in Drop : ~IsConfirmation(d) /\ ~IsNarration(d)
<1>1. ASSUME NEW m \in Narration PROVE IsNarration(m) /\ ~IsConfirmation(m)
  <2>1. DOMAIN m = {"n", "seen", "item", "id", "zone", "looter"}
    BY DEF Narration
  <2> QED BY <2>1 DEF IsNarration, IsConfirmation
<1>2. ASSUME NEW c \in Confirmation PROVE IsConfirmation(c) /\ ~IsNarration(c)
  <2>1. DOMAIN c = {"n", "seen", "id", "sequence"}
    BY DEF Confirmation
  <2> QED BY <2>1 DEF IsNarration, IsConfirmation
<1>3. ASSUME NEW d \in Drop PROVE ~IsConfirmation(d) /\ ~IsNarration(d)
  <2>1. DOMAIN d = {"n", "seen", "item", "corpse"}
    BY DEF Drop
  <2> QED BY <2>1 DEF IsNarration, IsConfirmation
<1> QED BY <1>1, <1>2, <1>3

LEMMA SpanTypes ==
  TypeOK => /\ visit.span \in Nat /\ visit.stay \in Nat
            /\ \A h \in AllConfirmed \cup WindowDrops : h.seen.span \in Nat
<1> SUFFICES ASSUME TypeOK
             PROVE  /\ visit.span \in Nat /\ visit.stay \in Nat
                    /\ \A h \in AllConfirmed \cup WindowDrops : h.seen.span \in Nat
  OBVIOUS
<1>1. \A n \in 0 .. MaxStays : n \in Nat
  BY BoundsAssumption
<1>2. \A h \in Narration \cup Confirmation \cup Drop : h.seen \in Seen
  BY DEF Narration, Confirmation, Drop
<1>3. AllConfirmed \cup WindowDrops \subseteq Narration \cup Confirmation \cup Drop
  <2>1. \A r \in rows : r.halves \subseteq Narration \cup Confirmation \cup Drop
    BY DEF TypeOK, Row
  <2>2. loot.confirmations \subseteq Confirmation
    BY DEF TypeOK, Tracker
  <2> QED BY <2>1, <2>2 DEF AllConfirmed, WindowDrops
<1>4. \A h \in AllConfirmed \cup WindowDrops : h.seen.span \in 0 .. MaxStays
  BY <1>2, <1>3 DEF Seen
<1> QED BY <1>1, <1>4 DEF TypeOK

(* Nothing is accepted, and what is recognised stays so or the span ends.  *)
LEMMA SeenKept ==
  ASSUME SeenInv, TypeOK,
         AllConfirmed' \subseteq AllConfirmed, WindowDrops' \subseteq WindowDrops,
         visit'.span <= visit'.stay, visit'.span \in Nat,
         \/ /\ visit'.span = visit.span
            /\ loot.seen_confirmations \subseteq loot'.seen_confirmations
            /\ loot.seen_window \subseteq loot'.seen_window
         \/ visit'.span > visit.span
  PROVE  SeenInv'
<1>1. /\ visit.span \in Nat
      /\ \A h \in AllConfirmed \cup WindowDrops : h.seen.span \in Nat /\ h.seen.span <= visit.span
  BY SpanTypes DEF SeenInv
<1>2. ASSUME NEW h \in AllConfirmed'
      PROVE  /\ h.seen.span <= visit'.span
             /\ h.seen.span = visit'.span /\ h.sequence # 0 =>
                  [sequence |-> h.sequence] \in loot'.seen_confirmations
  <2>1. /\ h.seen.span \in Nat /\ h.seen.span <= visit.span
        /\ h.seen.span = visit.span /\ h.sequence # 0 =>
             [sequence |-> h.sequence] \in loot.seen_confirmations
    BY <1>1 DEF SeenInv
  <2> QED BY <1>1, <2>1
<1>3. ASSUME NEW h \in WindowDrops'
      PROVE  /\ h.seen.span <= visit'.span
             /\ h.seen.span = visit'.span => <<h.corpse, h.item>> \in loot'.seen_window
  <2>1. /\ h.seen.span \in Nat /\ h.seen.span <= visit.span
        /\ h.seen.span = visit.span => <<h.corpse, h.item>> \in loot.seen_window
    BY <1>1 DEF SeenInv
  <2> QED BY <1>1, <2>1
<1> QED BY <1>2, <1>3 DEF SeenInv

(* A row of no window adds no window's drops; a pair adds its confirmation. *)
LEMMA OtherRows ==
  ASSUME NEW F, rows' \subseteq rows \cup F, \A f \in F : f.source # "window"
  PROVE  WindowDrops' \subseteq WindowDrops
  BY DEF WindowDrops

LEMMA MoreConfirmed ==
  ASSUME NEW F, rows' \subseteq rows \cup F, NEW C,
         loot'.confirmations \subseteq AllConfirmed \cup C,
         \A f \in F : \A h \in f.halves : IsConfirmation(h) => h \in AllConfirmed \cup C
  PROVE  AllConfirmed' \subseteq AllConfirmed \cup C
<1> SUFFICES ASSUME NEW h \in AllConfirmed' PROVE h \in AllConfirmed \cup C
  OBVIOUS
<1>1. CASE h \in loot'.confirmations
  BY <1>1
<1>2. CASE h \notin loot'.confirmations
  <2>1. IsConfirmation(h) /\ \E r \in rows' : h \in r.halves
    BY <1>2 DEF AllConfirmed
  <2>2. PICK r \in rows \cup F : h \in r.halves
    BY <2>1
  <2> QED BY <2>1, <2>2 DEF AllConfirmed
<1> QED BY <1>1, <1>2

(* No row of a window is made, and no confirmation but those in C.         *)
OnlyConfirms(C) ==
  /\ loot'.confirmations \subseteq AllConfirmed \cup C
  /\ \E F : /\ rows' \subseteq rows \cup F
            /\ \A f \in F : f.source # "window"
            /\ \A f \in F : \A h \in f.halves : IsConfirmation(h) => h \in AllConfirmed \cup C

LEMMA Confirms ==
  ASSUME NEW C, OnlyConfirms(C)
  PROVE  AllConfirmed' \subseteq AllConfirmed \cup C /\ WindowDrops' \subseteq WindowDrops
  BY OtherRows, MoreConfirmed DEF OnlyConfirms

LEMMA PairConfirmed ==
  ASSUME TypeOK, NEW m \in Narration, NEW c
  PROVE  \A h \in Paired(m, c).halves : IsConfirmation(h) => h = c
  BY Kinds DEF Paired

(* A narration accepts no confirmation.                                    *)
LEMMA MessageSeen ==
  ASSUME SeenInv, TypeOK, NEW p \in Narrations, LootMessage(p)
  PROVE  SeenInv'
<1>1. /\ visit' = visit /\ loot'.seen_confirmations = loot.seen_confirmations
      /\ loot'.seen_window = loot.seen_window
  BY MessageStep
<1>2. PICK m \in Narration : MessageAdds(m) \/ \E c \in loot.confirmations : MessagePairs(m, c)
  BY MessageStep
<1>3. OnlyConfirms({})
  <2>1. CASE MessageAdds(m)
    <3> DEFINE F == {}
    <3>1. loot'.confirmations \subseteq AllConfirmed \cup {} /\ rows' \subseteq rows \cup F
      BY <2>1 DEF MessageAdds, AllConfirmed
    <3>2. \A f \in F : f.source # "window" /\ \A h \in f.halves : ~IsConfirmation(h)
      OBVIOUS
    <3> HIDE DEF F
    <3> QED BY <3>1, <3>2 DEF OnlyConfirms
  <2>2. ASSUME NEW c \in loot.confirmations, MessagePairs(m, c) PROVE OnlyConfirms({})
    <3> DEFINE F == {Paired(m, c)}
    <3>1. /\ loot'.confirmations \subseteq AllConfirmed \cup {} /\ rows' \subseteq rows \cup F
          /\ c \in AllConfirmed \cup {}
      BY <2>2 DEF MessagePairs, AllConfirmed
    <3>2. \A f \in F : f.source # "window" /\ \A h \in f.halves : IsConfirmation(h) => h = c
      BY PairConfirmed DEF Paired
    <3> HIDE DEF F
    <3> QED BY <3>1, <3>2 DEF OnlyConfirms
  <2> QED BY <1>2, <2>1, <2>2
<1>4. AllConfirmed' \subseteq AllConfirmed /\ WindowDrops' \subseteq WindowDrops
  <2>1. AllConfirmed' \subseteq AllConfirmed \cup {} /\ WindowDrops' \subseteq WindowDrops
    BY <1>3, Confirms
  <2> QED BY <2>1
<1>5. visit'.span <= visit'.stay /\ visit'.span \in Nat /\ visit'.span = visit.span
  BY <1>1, SpanTypes DEF SeenInv
<1> QED BY <1>1, <1>4, <1>5, SeenKept

(* A confirmation that is accepted has a new sequence, or none.            *)
LEMMA TransactionSeen ==
  ASSUME SeenInv, TypeOK, NEW p \in Transactions, LootTransaction(p)
  PROVE  SeenInv'
<1>1. /\ visit' = visit /\ TransactionKey(p) \notin loot.seen_confirmations
      /\ loot'.seen_confirmations = loot.seen_confirmations \cup {TransactionKey(p)}
      /\ loot'.seen_window = loot.seen_window
  BY TransactionStep
<1>2. PICK c \in Confirmation :
        /\ c.sequence = p.sequence /\ c.seen = Here
        /\ TransactionAdds(c) \/ \E m \in loot.messages : TransactionPairs(m, c)
  BY TransactionStep
<1>3. OnlyConfirms({c})
  <2>1. CASE TransactionAdds(c)
    <3> DEFINE F == {}
    <3>1. loot'.confirmations \subseteq AllConfirmed \cup {c} /\ rows' \subseteq rows \cup F
      BY <2>1 DEF TransactionAdds, AllConfirmed
    <3>2. \A f \in F : f.source # "window" /\ \A h \in f.halves : ~IsConfirmation(h)
      OBVIOUS
    <3> HIDE DEF F
    <3> QED BY <3>1, <3>2 DEF OnlyConfirms
  <2>2. ASSUME NEW m \in loot.messages, TransactionPairs(m, c) PROVE OnlyConfirms({c})
    <3> DEFINE F == {Paired(m, c)}
    <3>1. loot'.confirmations \subseteq AllConfirmed \cup {c} /\ rows' \subseteq rows \cup F
      BY <2>2 DEF TransactionPairs, AllConfirmed
    <3>2. m \in Narration
      BY DEF TypeOK, Tracker
    <3>3. \A f \in F : f.source # "window" /\ \A h \in f.halves : IsConfirmation(h) => h = c
      BY <3>2, PairConfirmed DEF Paired
    <3> HIDE DEF F
    <3> QED BY <3>1, <3>3 DEF OnlyConfirms
  <2> QED BY <1>2, <2>1, <2>2
<1>4. AllConfirmed' \subseteq AllConfirmed \cup {c} /\ WindowDrops' \subseteq WindowDrops
  BY <1>3, Confirms
<1>5. c.seen.span = visit.span
  BY <1>2 DEF Here
<1>6. c.sequence # 0 =>
        /\ [sequence |-> c.sequence] \notin loot.seen_confirmations
        /\ [sequence |-> c.sequence] \in loot'.seen_confirmations
  BY <1>1, <1>2 DEF TransactionKey
<1>7. visit.span \in Nat
  BY SpanTypes
<1>8. ASSUME NEW h \in AllConfirmed'
      PROVE  /\ h.seen.span <= visit'.span
             /\ h.seen.span = visit'.span /\ h.sequence # 0 =>
                  [sequence |-> h.sequence] \in loot'.seen_confirmations
  <2>1. CASE h \in AllConfirmed
    BY <1>1, <2>1 DEF SeenInv
  <2>2. CASE h = c
    BY <1>1, <1>5, <1>6, <1>7, <2>2
  <2> QED BY <1>4, <2>1, <2>2
<1>9. ASSUME NEW h \in AllConfirmed, h.seen.span = c.seen.span, h.sequence = c.sequence,
             h.sequence # 0
      PROVE  FALSE
  BY <1>5, <1>6, <1>9 DEF SeenInv
<1>10. ASSUME NEW h \in AllConfirmed', NEW k \in AllConfirmed',
              h.seen.span = k.seen.span, h.sequence = k.sequence, h.sequence # 0
       PROVE  h = k
  <2>1. h \in AllConfirmed \cup {c} /\ k \in AllConfirmed \cup {c}
    BY <1>4
  <2>2. CASE h \in AllConfirmed /\ k \in AllConfirmed
    BY <1>10, <2>2 DEF SeenInv
  <2>3. CASE h = c \/ k = c
    BY <1>9, <1>10, <2>1, <2>3
  <2> QED BY <2>1, <2>2, <2>3
<1>11. /\ \A h \in WindowDrops' :
            /\ h.seen.span <= visit'.span
            /\ h.seen.span = visit'.span => <<h.corpse, h.item>> \in loot'.seen_window
       /\ \A h, k \in WindowDrops' :
            h.seen.span = k.seen.span /\ <<h.corpse, h.item>> = <<k.corpse, k.item>> => h = k
  BY <1>1, <1>4 DEF SeenInv
<1> QED BY <1>1, <1>8, <1>10, <1>11 DEF SeenInv

LEMMA CoinSeen ==
  ASSUME SeenInv, TypeOK, NEW p \in CoinPiles, LootCoin(p)
  PROVE  SeenInv'
<1> DEFINE d == [n |-> count + 1, seen |-> Here, item |-> 0, corpse |-> 0]
           F == {CoinRow(p, d)}
<1>1. /\ visit' = visit /\ loot'.confirmations = loot.confirmations
      /\ loot.seen_confirmations \subseteq loot'.seen_confirmations
      /\ loot'.seen_window = loot.seen_window
  BY DEF LootCoin, TypeOK, Tracker
<1>2. rows' \subseteq rows \cup F
  BY DEF LootCoin
<1>3. ~IsConfirmation(d)
  <2>1. DOMAIN d = {"n", "seen", "item", "corpse"}
    OBVIOUS
  <2> HIDE DEF d
  <2> QED BY <2>1 DEF IsConfirmation
<1>4. /\ \A f \in F : f.source # "window"
      /\ \A f \in F : \A h \in f.halves : ~IsConfirmation(h)
  BY <1>3 DEF CoinRow, Dropped
<1> HIDE DEF F
<1>5. OnlyConfirms({})
  <2>1. loot'.confirmations \subseteq AllConfirmed \cup {}
    BY <1>1 DEF AllConfirmed
  <2> QED BY <1>2, <1>4, <2>1 DEF OnlyConfirms
<1>6. AllConfirmed' \subseteq AllConfirmed \cup {} /\ WindowDrops' \subseteq WindowDrops
  BY <1>5, Confirms
<1>7. visit'.span <= visit'.stay /\ visit'.span \in Nat /\ visit'.span = visit.span
  BY <1>1, SpanTypes DEF SeenInv
<1> QED BY <1>1, <1>6, <1>7, SeenKept

(* A boundary makes rows of what was pending; a reset starts a new span.   *)
LEMMA BoundarySeen ==
  ASSUME SeenInv, TypeOK, loot'.confirmations = {}, rows' = rows \cup Flushed,
         \/ /\ visit'.span = visit.span /\ visit'.stay = visit.stay + 1
            /\ loot'.seen_confirmations = loot.seen_confirmations
            /\ loot'.seen_window = loot.seen_window
         \/ visit'.span = visit.stay + 1 /\ visit'.stay = visit.stay + 1
  PROVE  SeenInv'
<1>1. /\ visit.span \in Nat /\ visit.stay \in Nat /\ visit.span <= visit.stay
  BY SpanTypes DEF SeenInv
<1>2. \A f \in Flushed : f.source # "window"
  BY DEF Flushed, NarrationOnly, ConfirmationOnly
<1>3. \A f \in Flushed : \A h \in f.halves : IsConfirmation(h) => h \in AllConfirmed \cup {}
  <2>1. ASSUME NEW m \in loot.messages PROVE ~IsConfirmation(m)
    BY Kinds DEF TypeOK, Tracker
  <2>2. \A m \in loot.messages : \A h \in NarrationOnly(m).halves : h = m
    BY DEF NarrationOnly
  <2>3. \A c \in loot.confirmations : \A h \in ConfirmationOnly(c).halves : h = c
    BY DEF ConfirmationOnly
  <2> QED BY <2>1, <2>2, <2>3 DEF Flushed, AllConfirmed
<1>4. AllConfirmed' \subseteq AllConfirmed \cup {} /\ WindowDrops' \subseteq WindowDrops
  <2>1. loot'.confirmations \subseteq AllConfirmed \cup {} /\ rows' \subseteq rows \cup Flushed
    OBVIOUS
  <2>2. OnlyConfirms({})
    BY <1>2, <1>3, <2>1 DEF OnlyConfirms
  <2> QED BY <2>2, Confirms
<1>5. visit'.span <= visit'.stay /\ visit'.span \in Nat
  BY <1>1
<1>6. \/ /\ visit'.span = visit.span
         /\ loot.seen_confirmations \subseteq loot'.seen_confirmations
         /\ loot.seen_window \subseteq loot'.seen_window
      \/ visit'.span > visit.span
  BY <1>1
<1> QED BY <1>4, <1>5, <1>6, SeenKept

(* An item of a corpse is dropped once: the window recognises it.          *)
LEMMA DropsSeen ==
  ASSUME SeenInv, TypeOK, NEW corpse \in Corpses, NEW window \in Windows,
         LootDrops(corpse, window)
  PROVE  SeenInv'
<1> DEFINE H(d) == [n |-> count + 1, seen |-> Here, item |-> d.item, corpse |-> corpse]
           new == NewDrops(corpse, window)
           F == {DropRow(corpse, d) : d \in new}
           dropped == {<<corpse, d.item>> : d \in Drops(window)}
<1>1. /\ visit' = visit /\ loot'.confirmations = loot.confirmations
      /\ loot'.seen_confirmations = loot.seen_confirmations
      /\ loot'.seen_window = loot.seen_window \cup dropped
  <2> HIDE DEF dropped
  <2>1. loot' = [loot EXCEPT !.item_id_by_name = @ \cup TaughtBy(window),
                             !.seen_window = @ \cup dropped,
                             !.seen_window_snapshots = @ \cup {<<corpse, window>>}]
    BY DEF LootDrops, dropped
  <2> QED BY <2>1 DEF LootDrops, TypeOK, Tracker
<1>2. \A d : DropRow(corpse, d).halves = {H(d)}
  BY DEF DropRow, Dropped
<1>3. \A d : /\ H(d).seen.span = visit.span /\ H(d).corpse = corpse /\ H(d).item = d.item
            /\ ~IsConfirmation(H(d))
  <2> SUFFICES ASSUME NEW d
               PROVE  /\ H(d).seen.span = visit.span /\ H(d).corpse = corpse
                      /\ H(d).item = d.item /\ ~IsConfirmation(H(d))
    OBVIOUS
  <2>1. DOMAIN H(d) = {"n", "seen", "item", "corpse"}
    OBVIOUS
  <2>2. H(d).seen.span = visit.span /\ H(d).corpse = corpse /\ H(d).item = d.item
    BY DEF Here
  <2> HIDE DEF H
  <2> QED BY <2>1, <2>2 DEF IsConfirmation
<1>4. \A d, e : d.item = e.item => H(d) = H(e)
  OBVIOUS
<1>5. \A d \in new : <<corpse, d.item>> \in dropped /\ <<corpse, d.item>> \notin loot.seen_window
  BY DEF NewDrops, Drops
<1>6. rows' = rows \cup F
  BY DEF LootDrops
<1> HIDE DEF H, new, dropped
<1>7. AllConfirmed' \subseteq AllConfirmed
  <2>1. ASSUME NEW h \in AllConfirmed' PROVE h \in AllConfirmed
    <3>1. CASE h \in loot'.confirmations
      BY <1>1, <3>1 DEF AllConfirmed
    <3>2. CASE h \notin loot'.confirmations
      BY <1>2, <1>3, <1>6, <3>2 DEF AllConfirmed
    <3> QED BY <3>1, <3>2
  <2> QED BY <2>1
<1>8. \A h \in WindowDrops' : h \in WindowDrops \/ \E d \in new : h = H(d)
  <2> SUFFICES ASSUME NEW h \in WindowDrops', h \notin WindowDrops PROVE \E d \in new : h = H(d)
    OBVIOUS
  <2>1. PICK r \in rows' : r.source = "window" /\ h \in r.halves
    BY DEF WindowDrops
  <2>2. r \in F
    BY <1>6, <2>1 DEF WindowDrops
  <2> QED BY <1>2, <2>1, <2>2
<1>9. visit.span \in Nat
  BY SpanTypes
<1>10. ASSUME NEW h \in WindowDrops, NEW d \in new, h.seen.span = visit.span,
              h.corpse = corpse, h.item = d.item
       PROVE  FALSE
  <2>1. <<h.corpse, h.item>> \in loot.seen_window
    BY <1>10 DEF SeenInv
  <2> QED BY <1>5, <1>10, <2>1
<1>11. ASSUME NEW h \in WindowDrops'
       PROVE  /\ h.seen.span <= visit'.span
              /\ h.seen.span = visit'.span => <<h.corpse, h.item>> \in loot'.seen_window
  <2>1. CASE h \in WindowDrops
    BY <1>1, <2>1 DEF SeenInv
  <2>2. ASSUME NEW d \in new, h = H(d)
        PROVE  /\ h.seen.span <= visit'.span
               /\ h.seen.span = visit'.span => <<h.corpse, h.item>> \in loot'.seen_window
    <3>1. h.seen.span = visit'.span /\ <<h.corpse, h.item>> = <<corpse, d.item>>
      BY <1>1, <1>3, <2>2
    <3>2. <<corpse, d.item>> \in loot'.seen_window
      BY <1>1, <1>5
    <3> QED BY <1>1, <1>9, <3>1, <3>2
  <2> QED BY <1>8, <2>1, <2>2
<1>12. ASSUME NEW h \in WindowDrops', NEW k \in WindowDrops', h.seen.span = k.seen.span,
              h.corpse = k.corpse, h.item = k.item
       PROVE  h = k
  <2>1. CASE h \in WindowDrops /\ k \in WindowDrops
    BY <1>12, <2>1 DEF SeenInv
  <2>2. ASSUME NEW d \in new, h = H(d), k \in WindowDrops PROVE FALSE
    BY <1>3, <1>10, <1>12, <2>2
  <2>3. ASSUME NEW d \in new, k = H(d), h \in WindowDrops PROVE FALSE
    BY <1>3, <1>10, <1>12, <2>3
  <2>4. ASSUME NEW d \in new, NEW e \in new, h = H(d), k = H(e) PROVE h = k
    BY <1>3, <1>4, <1>12, <2>4
  <2> QED BY <1>8, <2>1, <2>2, <2>3, <2>4
<1>13. \A h, k \in WindowDrops' :
         h.seen.span = k.seen.span /\ <<h.corpse, h.item>> = <<k.corpse, k.item>> => h = k
  BY <1>12
<1>14. /\ visit'.span <= visit'.stay
       /\ \A h \in AllConfirmed' :
            /\ h.seen.span <= visit'.span
            /\ h.seen.span = visit'.span /\ h.sequence # 0 =>
                 [sequence |-> h.sequence] \in loot'.seen_confirmations
       /\ \A h, k \in AllConfirmed' :
            h.seen.span = k.seen.span /\ h.sequence = k.sequence /\ h.sequence # 0 => h = k
  BY <1>1, <1>7 DEF SeenInv
<1> QED BY <1>11, <1>13, <1>14 DEF SeenInv

LEMMA SeenStep ==
  ASSUME SeenInv, TypeOK, [Next]_vars
  PROVE  SeenInv'
<1>1. CASE \E p \in Narrations : LootMessage(p)
  BY <1>1, MessageSeen
<1>2. CASE \E p \in Transactions : LootTransaction(p)
  BY <1>2, TransactionSeen
<1>3. CASE \E p \in CoinPiles : LootCoin(p)
  BY <1>3, CoinSeen
<1>4. CASE \E corpse \in Corpses, window \in Windows : LootDrops(corpse, window)
  BY <1>4, DropsSeen
<1>5. ASSUME NEW zone \in Zones \cup {""}, ZoneChanged(zone) PROVE SeenInv'
  <2>1. /\ rows' = rows \cup Flushed /\ loot' = Zoned(zone)
        /\ visit'.stay = visit.stay + 1
        /\ visit'.span = IF zone \in {"", loot.zone} THEN visit.span ELSE visit.stay + 1
    BY <1>5 DEF ZoneChanged
  <2>2. CASE zone \in {"", loot.zone}
    <3>1. loot' = [loot EXCEPT !.messages = {}, !.confirmations = {}]
      BY <2>1, <2>2 DEF Zoned
    <3>2. /\ loot'.confirmations = {} /\ loot'.seen_confirmations = loot.seen_confirmations
          /\ loot'.seen_window = loot.seen_window
      BY <3>1 DEF TypeOK, Tracker
    <3>3. visit'.span = visit.span
      BY <2>1, <2>2
    <3> QED BY <2>1, <3>2, <3>3, BoundarySeen
  <2>3. CASE zone \notin {"", loot.zone}
    <3>1. loot'.confirmations = {}
      BY <2>1, <2>3 DEF Zoned, NewTracker
    <3>2. visit'.span = visit.stay + 1
      BY <2>1, <2>3
    <3> QED BY <2>1, <3>1, <3>2, BoundarySeen
  <2> QED BY <2>2, <2>3
<1>6. CASE \E looter : ResetTo(looter)
  <2>1. PICK looter : ResetTo(looter)
    BY <1>6
  <2>2. /\ rows' = rows \cup Flushed /\ loot'.confirmations = {}
        /\ visit'.span = visit.stay + 1 /\ visit'.stay = visit.stay + 1
    BY <2>1 DEF ResetTo, NewTracker
  <2> QED BY <2>2, BoundarySeen
<1>7. CASE UNCHANGED vars
  BY <1>7 DEF vars, SeenInv, AllConfirmed, WindowDrops
<1> QED BY <1>1, <1>2, <1>3, <1>4, <1>5, <1>6, <1>7
        DEF Next, EnterWorld, PlayerProfile, Flush, TakeLootRows

LEMMA SeenAlways == Spec => []SeenInv
<1>1. Init => SeenInv
  <2> SUFFICES ASSUME Init PROVE SeenInv
    OBVIOUS
  <2>1. loot.confirmations = {} /\ rows = {} /\ visit.span = 0 /\ visit.stay = 0
    BY DEF Init, NewTracker
  <2>2. AllConfirmed = {} /\ WindowDrops = {}
    BY <2>1 DEF AllConfirmed, WindowDrops
  <2> QED BY <2>1, <2>2 DEF SeenInv
<1>2. LootInv /\ SeenInv /\ [Next]_vars => SeenInv'
  BY SeenStep DEF LootInv
<1> QED BY <1>1, <1>2, LootInvariant, PTL DEF Spec

(* For any packets, repeated and reordered in any way: between two resets  *)
(* a server sequence, or an item of a corpse, makes one row                *)
(* (loot_track.rs:385-392, 457-462, 291-303).                              *)
THEOREM RepetitionRecognised == Spec => []CountedOnce
<1>1. SeenInv => CountedOnce
  <2> SUFFICES ASSUME SeenInv, NEW r \in rows, NEW q \in rows,
                      NEW h \in r.halves, NEW k \in q.halves,
                      h.seen.span = k.seen.span, h # k
               PROVE  /\ IsConfirmation(h) /\ IsConfirmation(k)
                           => h.sequence # k.sequence \/ h.sequence = 0
                      /\ r.source = "window" /\ q.source = "window"
                           => <<h.corpse, h.item>> # <<k.corpse, k.item>>
    BY DEF CountedOnce
  <2>1. IsConfirmation(h) /\ IsConfirmation(k) => h \in AllConfirmed /\ k \in AllConfirmed
    BY DEF AllConfirmed
  <2>2. r.source = "window" /\ q.source = "window" => h \in WindowDrops /\ k \in WindowDrops
    BY DEF WindowDrops
  <2> QED BY <2>1, <2>2 DEF SeenInv
<1> QED BY <1>1, SeenAlways, PTL

-----------------------------------------------------------------------------
(* The order of pairing                                                    *)

(* The two halves of one known item that a row holds.                      *)
Pairs ==
  {p \in Narration \X Confirmation :
     /\ p[1].id # 0 /\ p[2].id = p[1].id
     /\ \E r \in rows : p[1] \in r.halves /\ p[2] \in r.halves}

(* What is pending for the item of a pair came after the half of the pair  *)
(* that is of its kind; and pairs of one item are in order.                *)
OrderInv ==
  /\ \A p \in Pairs :
       /\ \A k \in loot.messages : k.id = p[1].id => p[1].n < k.n
       /\ \A k \in loot.confirmations : k.id = p[1].id => p[2].n < k.n
  /\ \A p, q \in Pairs : p[1].id = q[1].id /\ p[1].n < q[1].n => p[2].n < q[2].n

(* The numbers of pairs and of what is pending, as conservation has them.  *)
LEMMA PairNumbers ==
  ConservationInv =>
    /\ count \in Nat
    /\ \A p \in Pairs : /\ p[1] \in Narration /\ p[2] \in Confirmation
                        /\ p[1].n \in 1 .. count /\ p[2].n \in 1 .. count
                        /\ p[1].id # 0 /\ p[2].id = p[1].id
    /\ \A h \in Pending : h.n \in 1 .. count
    /\ \A h, k \in Pending : h.n = k.n => h = k
<1> SUFFICES ASSUME ConservationInv
             PROVE  /\ count \in Nat
                    /\ \A p \in Pairs : /\ p[1] \in Narration /\ p[2] \in Confirmation
                                        /\ p[1].n \in 1 .. count /\ p[2].n \in 1 .. count
                                        /\ p[1].id # 0 /\ p[2].id = p[1].id
                    /\ \A h \in Pending : h.n \in 1 .. count
                    /\ \A h, k \in Pending : h.n = k.n => h = k
  OBVIOUS
<1>1. /\ \A h \in Pending : h.n \in 1 .. count
      /\ \A h, k \in Pending : h.n = k.n => h = k
      /\ \A r \in rows : Numbers(r.halves) \subseteq 1 .. count
  BY DEF ConservationInv, EachHalfOnce, Accounted
<1>2. \A r \in rows : \A h \in r.halves : h.n \in 1 .. count
  BY <1>1 DEF Numbers
<1> QED BY <1>1, <1>2, CountType DEF Pairs

(* Nothing new is pending and no pair is made.                             *)
LEMMA OrderKept ==
  ASSUME OrderInv, Pairs' \subseteq Pairs,
         loot'.messages \subseteq loot.messages,
         loot'.confirmations \subseteq loot.confirmations
  PROVE  OrderInv'
  BY DEF OrderInv

(* A row of a single half holds no pair.                                   *)
LEMMA SingleRows ==
  ASSUME NEW F, rows' \subseteq rows \cup F, \A f \in F : \A h, k \in f.halves : h = k
  PROVE  Pairs' \subseteq Pairs
<1> SUFFICES ASSUME NEW p \in Pairs' PROVE p \in Pairs
  OBVIOUS
<1>1. /\ p \in Narration \X Confirmation /\ p[1].id # 0 /\ p[2].id = p[1].id
      /\ p[1] \in Narration /\ p[2] \in Confirmation
  BY DEF Pairs
<1>2. PICK r \in rows' : p[1] \in r.halves /\ p[2] \in r.halves
  BY DEF Pairs
<1>3. p[1] # p[2]
  BY <1>1, Kinds
<1>4. r \in rows
  BY <1>2, <1>3
<1> QED BY <1>1, <1>2, <1>4 DEF Pairs

(* The row of a narration and a confirmation holds at most that pair.      *)
LEMMA PairedRow ==
  ASSUME NEW m \in Narration, NEW c \in Confirmation, rows' = rows \cup {Paired(m, c)}
  PROVE  \A p \in Pairs' : p \in Pairs \/ (p[1] = m /\ p[2] = c /\ c.id = m.id /\ m.id # 0)
<1> SUFFICES ASSUME NEW p \in Pairs', p \notin Pairs
             PROVE  p[1] = m /\ p[2] = c /\ c.id = m.id /\ m.id # 0
  OBVIOUS
<1>1. /\ p \in Narration \X Confirmation /\ p[1].id # 0 /\ p[2].id = p[1].id
      /\ p[1] \in Narration /\ p[2] \in Confirmation
  BY DEF Pairs
<1>2. PICK r \in rows' : p[1] \in r.halves /\ p[2] \in r.halves
  BY DEF Pairs
<1>3. r = Paired(m, c)
  BY <1>1, <1>2 DEF Pairs
<1>4. r.halves = {m, c}
  BY <1>3 DEF Paired
<1>5. p[1] = m /\ p[2] = c
  BY <1>1, <1>2, <1>4, Kinds
<1> QED BY <1>1, <1>5

(* A new narration comes after every pair; the confirmation it takes comes *)
(* after those of the pairs of its item and before the pending ones.       *)
LEMMA MessageOrder ==
  ASSUME ConservationInv, OrderInv, NEW p \in Narrations, LootMessage(p)
  PROVE  OrderInv'
<1>1. TypeOK /\ NothingPairable
  BY DEF ConservationInv, LootInv
<1>2. PICK m \in Narration :
        /\ m.n = count + 1
        /\ MessageAdds(m) \/ \E c \in loot.confirmations : MessagePairs(m, c)
  BY <1>1, MessageStep
<1>3. CASE MessageAdds(m)
  <2>1. /\ Pairs' = Pairs /\ loot'.messages = loot.messages \cup {m}
        /\ loot'.confirmations = loot.confirmations
    BY <1>3 DEF MessageAdds, Pairs
  <2>2. \A q \in Pairs : q[1].n < m.n
    BY <1>2, PairNumbers
  <2> QED BY <2>1, <2>2 DEF OrderInv
<1>4. ASSUME NEW c \in loot.confirmations, MessagePairs(m, c) PROVE OrderInv'
  <2>1. c \in Confirmation
    BY <1>1 DEF TypeOK, Tracker
  <2>2. /\ loot'.messages = loot.messages /\ loot'.confirmations = loot.confirmations \ {c}
        /\ rows' = rows \cup {Paired(m, c)}
        /\ m.id # 0 /\ c.id = m.id => \A k \in loot.confirmations : k.id = m.id => c.n <= k.n
    BY <1>4 DEF MessagePairs
  <2>3. \A q \in Pairs' : q \in Pairs \/ (q[1] = m /\ q[2] = c /\ c.id = m.id /\ m.id # 0)
    BY <2>1, <2>2, PairedRow
  <2>4. \A q \in Pairs : q[1].n < m.n /\ q[1].n \in Nat /\ m.n \in Nat
    BY <1>2, PairNumbers
  <2>5. \A k \in loot.messages : k.id # c.id
    BY <1>1 DEF NothingPairable
  <2>6. m.id # 0 /\ c.id = m.id => \A k \in loot'.confirmations : k.id = m.id => c.n < k.n
    BY <2>2, PairNumbers DEF Pending
  <2>7. ASSUME NEW q \in Pairs'
        PROVE  /\ \A k \in loot'.messages : k.id = q[1].id => q[1].n < k.n
               /\ \A k \in loot'.confirmations : k.id = q[1].id => q[2].n < k.n
    <3>1. CASE q \in Pairs
      BY <2>2, <3>1 DEF OrderInv
    <3>2. CASE q[1] = m /\ q[2] = c /\ c.id = m.id /\ m.id # 0
      BY <2>2, <2>5, <2>6, <3>2
    <3> QED BY <2>3, <3>1, <3>2
  <2>8. ASSUME NEW q \in Pairs', NEW s \in Pairs', q[1].id = s[1].id, q[1].n < s[1].n
        PROVE  q[2].n < s[2].n
    <3>1. CASE q \in Pairs /\ s \in Pairs
      BY <2>8, <3>1 DEF OrderInv
    <3>2. CASE q \in Pairs /\ s[1] = m /\ s[2] = c /\ c.id = m.id
      BY <2>8, <3>2 DEF OrderInv
    <3>3. CASE q[1] = m /\ s \in Pairs
      BY <2>4, <2>8, <3>3
    <3>4. CASE q[1] = m /\ s[1] = m
      BY <1>2, <2>8, <3>4, PairNumbers
    <3> QED BY <2>3, <3>1, <3>2, <3>3, <3>4
  <2> QED BY <2>7, <2>8 DEF OrderInv
<1> QED BY <1>2, <1>3, <1>4

(* The same of a new confirmation and the narration it takes.              *)
LEMMA TransactionOrder ==
  ASSUME ConservationInv, OrderInv, NEW p \in Transactions, LootTransaction(p)
  PROVE  OrderInv'
<1>1. TypeOK /\ NothingPairable
  BY DEF ConservationInv, LootInv
<1>2. PICK c \in Confirmation :
        /\ c.n = count + 1
        /\ TransactionAdds(c) \/ \E m \in loot.messages : TransactionPairs(m, c)
  BY <1>1, TransactionStep
<1>3. CASE TransactionAdds(c)
  <2>1. /\ Pairs' = Pairs /\ loot'.messages = loot.messages
        /\ loot'.confirmations = loot.confirmations \cup {c}
    BY <1>3 DEF TransactionAdds, Pairs
  <2>2. \A q \in Pairs : q[2].n < c.n
    BY <1>2, PairNumbers
  <2> QED BY <2>1, <2>2 DEF OrderInv
<1>4. ASSUME NEW m \in loot.messages, TransactionPairs(m, c) PROVE OrderInv'
  <2>1. m \in Narration
    BY <1>1 DEF TypeOK, Tracker
  <2>2. /\ loot'.messages = loot.messages \ {m} /\ loot'.confirmations = loot.confirmations
        /\ rows' = rows \cup {Paired(m, c)}
        /\ c.id # 0 /\ m.id = c.id => \A k \in loot.messages : k.id = c.id => m.n <= k.n
    BY <1>4 DEF TransactionPairs
  <2>3. \A q \in Pairs' : q \in Pairs \/ (q[1] = m /\ q[2] = c /\ c.id = m.id /\ m.id # 0)
    BY <2>1, <2>2, PairedRow
  <2>4. \A q \in Pairs : q[2].n < c.n
    BY <1>2, PairNumbers
  <2>5. \A k \in loot.confirmations : k.id # m.id
    BY <1>1 DEF NothingPairable
  <2>6. m.id # 0 /\ c.id = m.id => \A k \in loot'.messages : k.id = m.id => m.n < k.n
    BY <2>2, PairNumbers DEF Pending
  <2>7. ASSUME NEW q \in Pairs'
        PROVE  /\ \A k \in loot'.messages : k.id = q[1].id => q[1].n < k.n
               /\ \A k \in loot'.confirmations : k.id = q[1].id => q[2].n < k.n
    <3>1. CASE q \in Pairs
      BY <2>2, <3>1 DEF OrderInv
    <3>2. CASE q[1] = m /\ q[2] = c /\ c.id = m.id /\ m.id # 0
      BY <2>2, <2>5, <2>6, <3>2
    <3> QED BY <2>3, <3>1, <3>2
  <2>8. ASSUME NEW q \in Pairs', NEW s \in Pairs', q[1].id = s[1].id, q[1].n < s[1].n
        PROVE  q[2].n < s[2].n
    <3>0. m.n \in Nat /\ \A t \in Pairs : t[1].n \in Nat
      BY PairNumbers DEF Pending
    <3>1. CASE q \in Pairs /\ s \in Pairs
      BY <2>8, <3>1 DEF OrderInv
    <3>2. CASE q \in Pairs /\ s[2] = c
      BY <2>4, <3>2
    <3>3. CASE q[1] = m /\ s \in Pairs
      <4>1. s[1].n < m.n
        BY <2>8, <3>3 DEF OrderInv
      <4> QED BY <2>8, <3>0, <3>3, <4>1
    <3>4. CASE q[1] = m /\ s[1] = m
      BY <2>8, <3>0, <3>4
    <3> QED BY <2>3, <3>1, <3>2, <3>3, <3>4
  <2> QED BY <2>7, <2>8 DEF OrderInv
<1> QED BY <1>2, <1>3, <1>4

LEMMA BoundaryOrder ==
  ASSUME OrderInv, loot'.messages = {}, loot'.confirmations = {}, rows' = rows \cup Flushed
  PROVE  OrderInv'
<1>1. \A f \in Flushed : \A h, k \in f.halves : h = k
  BY DEF Flushed, NarrationOnly, ConfirmationOnly
<1>2. Pairs' \subseteq Pairs
  BY <1>1, SingleRows
<1> QED BY <1>2, OrderKept

LEMMA OrderStep ==
  ASSUME ConservationInv, OrderInv, [Next]_vars
  PROVE  OrderInv'
<1>0. TypeOK
  BY DEF ConservationInv, LootInv
<1>1. CASE \E p \in Narrations : LootMessage(p)
  BY <1>1, MessageOrder
<1>2. CASE \E p \in Transactions : LootTransaction(p)
  BY <1>2, TransactionOrder
<1>3. ASSUME NEW p \in CoinPiles, LootCoin(p) PROVE OrderInv'
  <2> DEFINE F == {CoinRow(p, [n |-> count + 1, seen |-> Here, item |-> 0, corpse |-> 0])}
  <2>1. \A f \in F : \A h, k \in f.halves : h = k
    BY DEF CoinRow, Dropped
  <2>2. rows' \subseteq rows \cup F
    BY <1>3 DEF LootCoin
  <2> HIDE DEF F
  <2>3. Pairs' \subseteq Pairs
    BY <2>1, <2>2, SingleRows
  <2>4. loot'.messages = loot.messages /\ loot'.confirmations = loot.confirmations
    BY <1>0, <1>3 DEF LootCoin, TypeOK, Tracker
  <2> QED BY <2>3, <2>4, OrderKept
<1>4. ASSUME NEW corpse \in Corpses, NEW window \in Windows, LootDrops(corpse, window)
      PROVE  OrderInv'
  <2> DEFINE F == {DropRow(corpse, d) : d \in NewDrops(corpse, window)}
             dropped == {<<corpse, d.item>> : d \in Drops(window)}
  <2>1. \A f \in F : \A h, k \in f.halves : h = k
    BY DEF DropRow, Dropped
  <2>2. rows' = rows \cup F
    BY <1>4 DEF LootDrops
  <2>3. loot' = [loot EXCEPT !.item_id_by_name = @ \cup TaughtBy(window),
                             !.seen_window = @ \cup dropped,
                             !.seen_window_snapshots = @ \cup {<<corpse, window>>}]
    BY <1>4 DEF LootDrops
  <2> HIDE DEF F, dropped
  <2>4. Pairs' \subseteq Pairs
    BY <2>1, <2>2, SingleRows
  <2>5. loot'.messages = loot.messages /\ loot'.confirmations = loot.confirmations
    BY <1>0, <2>3 DEF TypeOK, Tracker
  <2> QED BY <2>4, <2>5, OrderKept
<1>5. ASSUME NEW zone \in Zones \cup {""}, ZoneChanged(zone) PROVE OrderInv'
  <2>1. loot'.messages = {} /\ loot'.confirmations = {} /\ rows' = rows \cup Flushed
    BY <1>0, <1>5 DEF ZoneChanged, Zoned, NewTracker, TypeOK, Tracker
  <2> QED BY <2>1, BoundaryOrder
<1>6. CASE \E looter : ResetTo(looter)
  <2>0. PICK looter : ResetTo(looter)
    BY <1>6
  <2>1. loot'.messages = {} /\ loot'.confirmations = {} /\ rows' = rows \cup Flushed
    BY <2>0 DEF ResetTo, NewTracker
  <2> QED BY <2>1, BoundaryOrder
<1>7. CASE UNCHANGED vars
  BY <1>7 DEF vars, OrderInv, Pairs
<1> QED BY <1>1, <1>2, <1>3, <1>4, <1>5, <1>6, <1>7
        DEF Next, EnterWorld, PlayerProfile, Flush, TakeLootRows

(* For any packets in any order: the halves of one known item are paired   *)
(* in the order in which they came (loot_track.rs:241-245).                *)
THEOREM FirstComeFirstServed == Spec => []PairsInOrder
<1>1. Init => OrderInv
  <2> SUFFICES ASSUME Init PROVE OrderInv
    OBVIOUS
  <2>1. Pairs = {}
    BY DEF Init, Pairs
  <2> QED BY <2>1 DEF OrderInv
<1>2. ConservationInv /\ OrderInv /\ [Next]_vars => OrderInv'
  BY OrderStep
<1>3. ConservationInv /\ OrderInv => PairsInOrder
  <2> SUFFICES ASSUME ConservationInv, OrderInv, NEW r \in rows, NEW q \in rows,
                      NEW m \in r.halves, NEW c \in r.halves,
                      NEW mm \in q.halves, NEW cc \in q.halves,
                      IsNarration(m), IsConfirmation(c), IsNarration(mm), IsConfirmation(cc),
                      m.id # 0, {m.id, c.id, mm.id, cc.id} = {m.id}, m.n < mm.n
               PROVE  c.n < cc.n
    BY ZenonT(20) DEF PairsInOrder
  <2>1. {m, c, mm, cc} \subseteq Narration \cup Confirmation \cup Drop
    BY DEF ConservationInv, LootInv, TypeOK, Row
  <2>2. m \in Narration /\ mm \in Narration /\ c \in Confirmation /\ cc \in Confirmation
    BY <2>1, Kinds
  <2>3. m.id # 0 /\ c.id = m.id /\ mm.id = m.id /\ cc.id = m.id
    OBVIOUS
  <2>4. <<m, c>> \in Pairs /\ <<mm, cc>> \in Pairs
    BY <2>2, <2>3 DEF Pairs
  <2>5. \A p, s \in Pairs : p[1].id = s[1].id /\ p[1].n < s[1].n => p[2].n < s[2].n
    BY DEF OrderInv
  <2> QED BY <2>3, <2>4, <2>5
<1>4. Spec => []ConservationInv
  BY LootInvariant, NothingLostOrDoubled, PTL DEF ConservationInv
<1> QED BY <1>1, <1>2, <1>3, <1>4, PTL DEF Spec
=============================================================================
