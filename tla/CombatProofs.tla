----------------------------- MODULE CombatProofs -----------------------------
(***************************************************************************)
(* Proofs about casts and buffs, for any ids, spells, slots and lists, and *)
(* any number of them: the types, that a cast is shown aimed at what its   *)
(* caster asked for, that no faded effect is shown, and that a host which  *)
(* applies the published events in order has the buffs and the casts of    *)
(* the session.                                                            *)
(*                                                                         *)
(* A packet publishes a sequence of events, most of them a set put in some *)
(* order.  What a host makes of a sequence is a recursive function:        *)
(* Iteration says that there is one, Induction reasons along it, and the   *)
(* lemmas on events say what sequences of one kind do to the host.         *)
(***************************************************************************)
EXTENDS Combat, FiniteSetTheorems, WellFoundedInduction, TLAPS

(* Functions from some of the keys.                                        *)
Tables(K, V) == UNION {[D -> V] : D \in SUBSET K}

HostType == [casts : Tables(Ids0, Cast), buffs : Tables(Places, Buff),
             effect : Tables(Places, Spells)]

(* The type invariant.                                                     *)
TypeOK ==
  /\ backend \in {"eql", "live"}
  /\ player \in [id : Ids0, aliases : SUBSET Ids]
  /\ casts \in Tables(Ids0, Cast) /\ buffs \in Tables(Places, Buff)
  /\ host \in HostType
  /\ told \in [Ids0 -> SUBSET Spells]

CastEvent == [kind : {"Started"}, caster : Ids0, cast : Cast]
               \cup [kind : {"Interrupted"}, caster : Ids0]
               \cup [kind : {"Acted"}, source : Ids0, spell : Spells]
BuffRow   == [kind : {"Added", "Updated", "Removed"}, owner : Ids0, buff : Buff]
Event     == CastEvent \cup BuffRow

-----------------------------------------------------------------------------
(* Induction and recursion                                                 *)

(* A set with zero, and with the successor of each number in it, has them  *)
(* all: a least number missing would have a predecessor.                   *)
LEMMA Induction ==
  ASSUME NEW S, 0 \in S, \A n \in Nat : n \in S => n + 1 \in S
  PROVE  Nat \subseteq S
<1> DEFINE Less == {p \in Nat \X Nat : p[1] < p[2]}
           Missing == Nat \ S
<1>1. IsWellFoundedOn(Less, Nat)
  BY NatLessThanWellFounded DEF OpToRel
<1>2. SUFFICES ASSUME Missing # {} PROVE FALSE
  OBVIOUS
<1>3. PICK n \in Missing : \A m \in Missing : ~(<<m, n>> \in Less)
  <2> HIDE DEF Less
  <2> QED BY <1>1, <1>2, WFMin
<1>4. n \in Nat /\ n # 0 /\ n - 1 \in Nat /\ (n - 1) + 1 = n
  OBVIOUS
<1>5. <<n - 1, n>> \in Less
  BY <1>4
<1>6. n - 1 \in S
  <2> HIDE DEF Less
  <2> QED BY <1>3, <1>4, <1>5
<1> QED BY <1>3, <1>4, <1>6

(* What each of L steps makes of a state, and a run of them from x.        *)
Steps(L, X) == [1 .. L -> [X -> X]]

Run(f, x, L, X, step) ==
  /\ f \in [0 .. L -> X]
  /\ f[0] = x
  /\ \A n \in 1 .. L : f[n] = step[n][f[n - 1]]

(* There is a run: each prefix of it is extended by one step.              *)
LEMMA Iteration ==
  ASSUME NEW X, NEW x \in X, NEW L \in Nat, NEW step \in Steps(L, X)
  PROVE  \E f : Run(f, x, L, X, step)
<1> DEFINE Is(n, f) == f[0] = x /\ \A k \in 1 .. n : f[k] = step[k][f[k - 1]]
           S == {n \in Nat : n <= L => \E f \in [0 .. n -> X] : Is(n, f)}
<1>1. 0 \in S
  <2>1. [k \in 0 .. 0 |-> x] \in [0 .. 0 -> X] /\ Is(0, [k \in 0 .. 0 |-> x])
    OBVIOUS
  <2> QED BY <2>1
<1>2. ASSUME NEW n \in Nat, n \in S PROVE n + 1 \in S
  <2> SUFFICES ASSUME n + 1 <= L PROVE \E f \in [0 .. n + 1 -> X] : Is(n + 1, f)
    OBVIOUS
  <2>1. PICK f \in [0 .. n -> X] : Is(n, f)
    BY <1>2
  <2> DEFINE g == [k \in 0 .. n + 1 |-> IF k = n + 1 THEN step[n + 1][f[n]] ELSE f[k]]
  <2>2. n + 1 \in 1 .. L /\ f[n] \in X
    OBVIOUS
  <2>3. step[n + 1] \in [X -> X]
    BY <2>2 DEF Steps
  <2>4. g \in [0 .. n + 1 -> X]
    BY <2>2, <2>3
  <2>5. g[0] = x
    BY <2>1
  <2>6. ASSUME NEW k \in 1 .. n + 1
        PROVE  g[k] = step[k][g[k - 1]]
    <3>1. CASE k = n + 1
      <4>1. n \in 0 .. n + 1 /\ n # n + 1 /\ k # 0 /\ k - 1 = n
        BY <3>1
      <4>2. g[n] = f[n]
        BY <4>1
      <4> QED BY <3>1, <4>1, <4>2
    <3>2. CASE k # n + 1
      <4>1. k \in 1 .. n /\ k \in 0 .. n /\ g[k] = f[k]
        BY <3>2
      <4>2. k - 1 \in 0 .. n /\ g[k - 1] = f[k - 1]
        BY <4>1
      <4> HIDE DEF g
      <4> QED BY <2>1, <4>1, <4>2
    <3> QED BY <3>1, <3>2
  <2> QED BY <2>4, <2>5, <2>6
<1>3. L \in S
  <2> HIDE DEF S
  <2> QED BY <1>1, <1>2, Induction
<1>4. PICK f \in [0 .. L -> X] : Is(L, f)
  BY <1>3
<1>5. Run(f, x, L, X, step)
  BY <1>4 DEF Run
<1> QED BY <1>5

-----------------------------------------------------------------------------
(* Tables                                                                  *)

LEMMA Table ==
  ASSUME NEW K, NEW V, NEW f
  PROVE  f \in Tables(K, V) <=> DOMAIN f \subseteq K /\ f \in [DOMAIN f -> V]
  BY DEF Tables

LEMMA EmptyTable == ASSUME NEW K, NEW V PROVE <<>> \in Tables(K, V) /\ DOMAIN <<>> = {}
<1>1. <<>> \in [{} -> V]
  OBVIOUS
<1> QED BY <1>1, Table

LEMMA Overridden ==
  ASSUME NEW K, NEW V, NEW f \in Tables(K, V), NEW g \in Tables(K, V)
  PROVE  /\ Override(f, g) \in Tables(K, V)
         /\ DOMAIN Override(f, g) = DOMAIN f \cup DOMAIN g
         /\ \A x \in DOMAIN f \cup DOMAIN g :
              Override(f, g)[x] = IF x \in DOMAIN g THEN g[x] ELSE f[x]
<1>1. /\ DOMAIN f \subseteq K /\ f \in [DOMAIN f -> V]
      /\ DOMAIN g \subseteq K /\ g \in [DOMAIN g -> V]
  BY Table
<1>2. /\ DOMAIN Override(f, g) = DOMAIN f \cup DOMAIN g
      /\ \A x \in DOMAIN f \cup DOMAIN g :
           Override(f, g)[x] = IF x \in DOMAIN g THEN g[x] ELSE f[x]
  BY DEF Override
<1>3. Override(f, g) \in [DOMAIN f \cup DOMAIN g -> V]
  BY <1>1 DEF Override
<1> QED BY <1>1, <1>2, <1>3, Table

LEMMA Withheld ==
  ASSUME NEW K, NEW V, NEW f \in Tables(K, V), NEW S
  PROVE  /\ Without(f, S) \in Tables(K, V)
         /\ DOMAIN Without(f, S) = DOMAIN f \ S
         /\ \A x \in DOMAIN f \ S : Without(f, S)[x] = f[x]
<1>1. DOMAIN f \subseteq K /\ f \in [DOMAIN f -> V]
  BY Table
<1>2. Without(f, S) \in [DOMAIN f \ S -> V]
  BY <1>1 DEF Without
<1> QED BY <1>1, <1>2, Table DEF Without

LEMMA OneEntry ==
  ASSUME NEW K, NEW V, NEW x \in K, NEW v \in V
  PROVE  At(x, v) \in Tables(K, V) /\ DOMAIN At(x, v) = {x} /\ At(x, v)[x] = v
<1>1. At(x, v) \in [{x} -> V]
  BY DEF At
<1> QED BY <1>1, Table DEF At

LEMMA SameTable ==
  ASSUME NEW K, NEW V, NEW f \in Tables(K, V), NEW g \in Tables(K, V),
         DOMAIN f = DOMAIN g, \A x \in DOMAIN f : f[x] = g[x]
  PROVE  f = g
  BY Table

-----------------------------------------------------------------------------
(* Events                                                                  *)

LEMMA PlaceType ==
  ASSUME NEW e \in BuffRow
  PROVE  PlaceOf(e) \in Places
<1>1. e.owner \in Ids0 /\ e.buff.spell \in Spells /\ e.buff.slot \subseteq Slots
  BY DEF BuffRow, Buff
<1>2. CASE e.buff.slot = {}
  BY <1>1, <1>2 DEF PlaceOf, Places, Keys
<1>3. CASE e.buff.slot # {}
  <2>1. (CHOOSE n \in e.buff.slot : TRUE) \in Slots
    BY <1>1, <1>3
  <2> QED BY <1>1, <1>3, <2>1 DEF PlaceOf, Places, Keys
<1> QED BY <1>2, <1>3

(* What one event does to a host.                                          *)
LEMMA AppliedCast ==
  ASSUME NEW h \in HostType, NEW e \in CastEvent
  PROVE  LET k == HostApply(h, e)
         IN  /\ k \in HostType /\ k.buffs = h.buffs
             /\ e.kind = "Started" => k.casts = Override(h.casts, At(e.caster, e.cast))
             /\ e.kind = "Interrupted" => k.casts = Without(h.casts, {e.caster})
             /\ e.kind = "Acted" => k.casts =
                  Without(h.casts, {c \in DOMAIN h.casts :
                                      c = e.source /\ h.casts[c].spell = e.spell})
<1>1. CASE e \in [kind : {"Started"}, caster : Ids0, cast : Cast]
  <2>1. At(e.caster, e.cast) \in Tables(Ids0, Cast)
    BY <1>1, OneEntry
  <2>2. Override(h.casts, At(e.caster, e.cast)) \in Tables(Ids0, Cast)
    BY <2>1, Overridden DEF HostType
  <2>3. HostApply(h, e) = [h EXCEPT !.casts = Override(@, At(e.caster, e.cast))]
    BY <1>1 DEF HostApply
  <2> QED BY <1>1, <2>2, <2>3 DEF HostType
<1>2. CASE e \in [kind : {"Interrupted"}, caster : Ids0]
  <2>1. Without(h.casts, {e.caster}) \in Tables(Ids0, Cast)
    BY Withheld DEF HostType
  <2>2. HostApply(h, e) = [h EXCEPT !.casts = Without(@, {e.caster})]
    BY <1>2 DEF HostApply
  <2> QED BY <1>2, <2>1, <2>2 DEF HostType
<1>3. CASE e \in [kind : {"Acted"}, source : Ids0, spell : Spells]
  <2> DEFINE gone == {c \in DOMAIN h.casts : c = e.source /\ h.casts[c].spell = e.spell}
  <2>1. Without(h.casts, gone) \in Tables(Ids0, Cast)
    BY Withheld DEF HostType
  <2>2. HostApply(h, e) = [h EXCEPT !.casts = Without(h.casts, gone)]
    BY <1>3 DEF HostApply
  <2> QED BY <1>3, <2>1, <2>2 DEF HostType
<1> QED BY <1>1, <1>2, <1>3 DEF CastEvent

LEMMA AppliedBuff ==
  ASSUME NEW h \in HostType, NEW e \in BuffRow
  PROVE  LET k == HostApply(h, e)
         IN  /\ k \in HostType /\ k.casts = h.casts
             /\ e.kind \in {"Added", "Updated"} =>
                  k.buffs = Override(h.buffs, At(PlaceOf(e), e.buff))
             /\ e.kind = "Removed" => k.buffs = Without(h.buffs, {PlaceOf(e)})
<1>1. PlaceOf(e) \in Places /\ e.buff \in Buff /\ e.buff.spell \in Spells
  BY PlaceType DEF BuffRow, Buff
<1>2. /\ At(PlaceOf(e), e.buff) \in Tables(Places, Buff)
      /\ At(PlaceOf(e), e.buff.spell) \in Tables(Places, Spells)
  BY <1>1, OneEntry
<1>3. /\ h.buffs \in Tables(Places, Buff) /\ h.effect \in Tables(Places, Spells)
      /\ Override(h.buffs, At(PlaceOf(e), e.buff)) \in Tables(Places, Buff)
      /\ Override(h.effect, At(PlaceOf(e), e.buff.spell)) \in Tables(Places, Spells)
      /\ Without(h.buffs, {PlaceOf(e)}) \in Tables(Places, Buff)
      /\ Without(h.effect, {PlaceOf(e)}) \in Tables(Places, Spells)
  <2>1. h.buffs \in Tables(Places, Buff) /\ h.effect \in Tables(Places, Spells)
    BY DEF HostType
  <2>2. /\ Override(h.buffs, At(PlaceOf(e), e.buff)) \in Tables(Places, Buff)
        /\ Override(h.effect, At(PlaceOf(e), e.buff.spell)) \in Tables(Places, Spells)
    BY <1>2, <2>1, Overridden
  <2>3. /\ Without(h.buffs, {PlaceOf(e)}) \in Tables(Places, Buff)
        /\ Without(h.effect, {PlaceOf(e)}) \in Tables(Places, Spells)
    BY <2>1, Withheld
  <2> QED BY <2>1, <2>2, <2>3
<1>4. CASE e.kind = "Added"
  <2>1. HostApply(h, e) =
          [h EXCEPT !.buffs = Override(@, At(PlaceOf(e), e.buff)),
                    !.effect = Override(@, At(PlaceOf(e), e.buff.spell))]
    BY <1>4 DEF HostApply
  <2> QED BY <1>3, <1>4, <2>1 DEF HostType
<1>5. CASE e.kind = "Updated"
  <2>1. HostApply(h, e) = [h EXCEPT !.buffs = Override(@, At(PlaceOf(e), e.buff))]
    BY <1>5 DEF HostApply
  <2> QED BY <1>3, <1>5, <2>1 DEF HostType
<1>6. CASE e.kind = "Removed"
  <2>1. HostApply(h, e) = [h EXCEPT !.buffs = Without(@, {PlaceOf(e)}),
                                    !.effect = Without(@, {PlaceOf(e)})]
    BY <1>6 DEF HostApply
  <2> QED BY <1>3, <1>6, <2>1 DEF HostType
<1> QED BY <1>4, <1>5, <1>6 DEF BuffRow

LEMMA AppliedType ==
  ASSUME NEW h \in HostType, NEW e \in Event
  PROVE  HostApply(h, e) \in HostType
  BY AppliedCast, AppliedBuff DEF Event

(* The states of a host along some events.                                 *)
HostRun(f, h, events) ==
  /\ f \in [0 .. Len(events) -> HostType]
  /\ f[0] = h
  /\ \A n \in 1 .. Len(events) : f[n] = HostApply(f[n - 1], events[n])

LEMMA HostAfterRun ==
  ASSUME NEW h \in HostType, NEW events \in Seq(Event)
  PROVE  \E f : HostRun(f, h, events) /\ HostAfter(h, events) = f[Len(events)]
<1> DEFINE L == Len(events)
           step == [n \in 1 .. L |-> [k \in HostType |-> HostApply(k, events[n])]]
           after == CHOOSE f : f = [n \in 0 .. L |->
                      IF n = 0 THEN h ELSE HostApply(f[n - 1], events[n])]
<1>1. L \in Nat /\ \A n \in 1 .. L : events[n] \in Event
  OBVIOUS
<1>2. step \in Steps(L, HostType)
  BY <1>1, AppliedType DEF Steps
<1>3. PICK f : Run(f, h, L, HostType, step)
  <2> HIDE DEF step, L
  <2> QED BY <1>1, <1>2, Iteration
<1>4. \A n \in 1 .. L : n - 1 \in 0 .. L
  BY <1>1
<1>5. \A n \in 1 .. L : f[n] = HostApply(f[n - 1], events[n])
  BY <1>3, <1>4 DEF Run
<1>6. \A n \in 0 .. L : n = 0 \/ n \in 1 .. L
  BY <1>1
<1>7. f = [n \in 0 .. L |-> IF n = 0 THEN h ELSE HostApply(f[n - 1], events[n])]
  BY <1>3, <1>5, <1>6 DEF Run
<1>8. after = [n \in 0 .. L |-> IF n = 0 THEN h ELSE HostApply(after[n - 1], events[n])]
  BY <1>7
<1>9. HostAfter(h, events) = after[L]
  BY DEF HostAfter
<1> HIDE DEF after, step
<1>10. after[0] = h /\ \A n \in 1 .. L : after[n] = HostApply(after[n - 1], events[n])
  BY <1>1, <1>8
<1> DEFINE S == {n \in Nat : n <= L => after[n] \in HostType}
<1>11. 0 \in S
  BY <1>10
<1>12. ASSUME NEW n \in Nat, n \in S PROVE n + 1 \in S
  <2> SUFFICES ASSUME n + 1 <= L PROVE after[n + 1] \in HostType
    OBVIOUS
  <2>1. n + 1 \in 1 .. L /\ (n + 1) - 1 = n /\ n <= L
    BY <1>1
  <2> QED BY <1>1, <1>10, <1>12, <2>1, AppliedType
<1>13. Nat \subseteq S
  <2> HIDE DEF S
  <2> QED BY <1>11, <1>12, Induction
<1>14. \A n \in 0 .. L : after[n] \in HostType
  BY <1>1, <1>13
<1>15. after \in [0 .. L -> HostType]
  <2>1. DOMAIN after = 0 .. L /\ after = [n \in 0 .. L |-> after[n]]
    BY <1>8, Zenon
  <2> QED BY <2>1, <1>14
<1> QED BY <1>9, <1>10, <1>15 DEF HostRun

LEMMA OneRun ==
  ASSUME NEW h \in HostType, NEW events \in Seq(Event), NEW f, HostRun(f, h, events)
  PROVE  HostAfter(h, events) = f[Len(events)]
<1> DEFINE L == Len(events)
<1>1. L \in Nat
  OBVIOUS
<1>2. PICK g : HostRun(g, h, events) /\ HostAfter(h, events) = g[L]
  BY HostAfterRun
<1> DEFINE S == {n \in Nat : n <= L => f[n] = g[n]}
<1>3. 0 \in S
  BY <1>2 DEF HostRun
<1>4. ASSUME NEW n \in Nat, n \in S PROVE n + 1 \in S
  <2> SUFFICES ASSUME n + 1 <= L PROVE f[n + 1] = g[n + 1]
    OBVIOUS
  <2>1. n + 1 \in 1 .. L /\ (n + 1) - 1 = n /\ n <= L
    BY <1>1
  <2>2. f[n] = g[n]
    BY <1>4, <2>1
  <2> QED BY <1>2, <2>1, <2>2 DEF HostRun
<1>5. L \in S
  <2> HIDE DEF S
  <2> QED BY <1>1, <1>3, <1>4, Induction
<1> QED BY <1>1, <1>2, <1>5

LEMMA AfterType ==
  ASSUME NEW h \in HostType, NEW events \in Seq(Event)
  PROVE  HostAfter(h, events) \in HostType
<1>1. PICK f : HostRun(f, h, events) /\ HostAfter(h, events) = f[Len(events)]
  BY HostAfterRun
<1>2. Len(events) \in 0 .. Len(events)
  OBVIOUS
<1> QED BY <1>1, <1>2 DEF HostRun

LEMMA AfterNone == ASSUME NEW h \in HostType PROVE HostAfter(h, <<>>) = h
<1>1. <<>> \in Seq(Event) /\ Len(<<>>) = 0
  OBVIOUS
<1>2. PICK f : HostRun(f, h, <<>>) /\ HostAfter(h, <<>>) = f[0]
  BY <1>1, HostAfterRun
<1> QED BY <1>2 DEF HostRun

LEMMA AfterOne ==
  ASSUME NEW h \in HostType, NEW e \in Event
  PROVE  HostAfter(h, <<e>>) = HostApply(h, e)
<1>1. <<e>> \in Seq(Event) /\ Len(<<e>>) = 1 /\ <<e>>[1] = e /\ 1 \in 1 .. 1
  OBVIOUS
<1>2. PICK f : HostRun(f, h, <<e>>) /\ HostAfter(h, <<e>>) = f[1]
  BY <1>1, HostAfterRun
<1>3. f[0] = h /\ f[1] = HostApply(f[1 - 1], e)
  BY <1>1, <1>2 DEF HostRun
<1>4. 1 - 1 = 0
  OBVIOUS
<1> QED BY <1>2, <1>3, <1>4

LEMMA AfterBoth ==
  ASSUME NEW h \in HostType, NEW s \in Seq(Event), NEW t \in Seq(Event)
  PROVE  HostAfter(h, s \o t) = HostAfter(HostAfter(h, s), t)
<1> DEFINE m == Len(s)
           l == Len(t)
<1>1. /\ s \o t \in Seq(Event) /\ m \in Nat /\ l \in Nat /\ Len(s \o t) = m + l
      /\ \A n \in 1 .. m : (s \o t)[n] = s[n]
      /\ \A n \in 1 .. l : (s \o t)[m + n] = t[n]
  OBVIOUS
<1>2. PICK f : HostRun(f, h, s \o t) /\ HostAfter(h, s \o t) = f[m + l]
  BY <1>1, HostAfterRun
<1> HIDE DEF m, l
<1>3. /\ f \in [0 .. m + l -> HostType] /\ f[0] = h
      /\ \A n \in 1 .. m + l : f[n] = HostApply(f[n - 1], (s \o t)[n])
  BY <1>1, <1>2 DEF HostRun
<1> DEFINE a == [n \in 0 .. m |-> f[n]]
           b == [n \in 0 .. l |-> f[m + n]]
<1>4. HostRun(a, h, s)
  <2>1. a \in [0 .. m -> HostType] /\ a[0] = h
    BY <1>1, <1>3
  <2>2. ASSUME NEW n \in 1 .. m PROVE a[n] = HostApply(a[n - 1], s[n])
    <3>1. n \in 1 .. m + l /\ n \in 0 .. m /\ n - 1 \in 0 .. m
      BY <1>1
    <3> QED BY <1>1, <1>3, <3>1
  <2> QED BY <2>1, <2>2 DEF HostRun, m
<1>5. HostAfter(h, s) = f[m]
  <2>1. HostAfter(h, s) = a[m]
    BY <1>4, OneRun DEF m
  <2>2. m \in 0 .. m
    BY <1>1
  <2> QED BY <2>1, <2>2
<1>6. f[m] \in HostType
  <2>1. m \in 0 .. m + l
    BY <1>1
  <2> QED BY <1>3, <2>1
<1>7. HostRun(b, f[m], t)
  <2>1. b \in [0 .. l -> HostType] /\ b[0] = f[m]
    <3>1. \A n \in 0 .. l : m + n \in 0 .. m + l
      BY <1>1
    <3>2. 0 \in 0 .. l /\ m + 0 = m
      BY <1>1
    <3> QED BY <1>3, <3>1, <3>2
  <2>2. ASSUME NEW n \in 1 .. l PROVE b[n] = HostApply(b[n - 1], t[n])
    <3>1. m + n \in 1 .. m + l /\ (m + n) - 1 = m + (n - 1) /\ n \in 0 .. l /\ n - 1 \in 0 .. l
      BY <1>1
    <3> QED BY <1>1, <1>3, <3>1
  <2> QED BY <2>1, <2>2 DEF HostRun, l
<1>8. HostAfter(f[m], t) = b[l]
  BY <1>6, <1>7, OneRun DEF l
<1>9. l \in 0 .. l
  BY <1>1
<1> QED BY <1>2, <1>5, <1>8, <1>9

(* What events that remove buffs do: their places are empty.               *)
LEMMA AfterRemovals ==
  ASSUME NEW h \in HostType, NEW events \in Seq(BuffRow),
         \A i \in DOMAIN events : events[i].kind = "Removed"
  PROVE  LET k == HostAfter(h, events)
         IN  /\ k \in HostType /\ k.casts = h.casts
             /\ k.buffs = Without(h.buffs, {PlaceOf(events[i]) : i \in DOMAIN events})
<1> DEFINE L == Len(events)
           Gone(n) == {PlaceOf(events[i]) : i \in 1 .. n}
<1>1. events \in Seq(Event) /\ L \in Nat /\ DOMAIN events = 1 .. L
      /\ \A i \in 1 .. L : events[i] \in BuffRow
  BY DEF Event
<1>2. PICK f : HostRun(f, h, events) /\ HostAfter(h, events) = f[L]
  BY <1>1, HostAfterRun
<1> DEFINE S == {n \in Nat : n <= L => /\ f[n].casts = h.casts
                                       /\ f[n].buffs = Without(h.buffs, Gone(n))}
<1>3. 0 \in S
  <2>1. Gone(0) = {}
    OBVIOUS
  <2>2. h.buffs \in [DOMAIN h.buffs -> Buff]
    BY Table DEF HostType
  <2>3. Without(h.buffs, {}) = h.buffs
    BY <2>2 DEF Without
  <2> HIDE DEF Gone
  <2> QED BY <1>2, <2>1, <2>3 DEF HostRun
<1>4. ASSUME NEW n \in Nat, n \in S PROVE n + 1 \in S
  <2> SUFFICES ASSUME n + 1 <= L
               PROVE  /\ f[n + 1].casts = h.casts
                      /\ f[n + 1].buffs = Without(h.buffs, Gone(n + 1))
    OBVIOUS
  <2>1. n + 1 \in 1 .. L /\ (n + 1) - 1 = n /\ n <= L /\ n \in 0 .. L
    BY <1>1
  <2>2. f[n] \in HostType /\ f[n + 1] = HostApply(f[n], events[n + 1])
    BY <1>2, <2>1 DEF HostRun
  <2>3. /\ f[n + 1].casts = f[n].casts
        /\ f[n + 1].buffs = Without(f[n].buffs, {PlaceOf(events[n + 1])})
    <3>1. events[n + 1] \in BuffRow /\ events[n + 1].kind = "Removed"
      BY <1>1, <2>1
    <3> QED BY <2>2, <3>1, AppliedBuff
  <2>4. Gone(n + 1) = Gone(n) \cup {PlaceOf(events[n + 1])}
    <3>1. 1 .. (n + 1) = (1 .. n) \cup {n + 1}
      OBVIOUS
    <3> QED BY <3>1
  <2>5. f[n].casts = h.casts /\ f[n].buffs = Without(h.buffs, Gone(n))
    BY <1>4, <2>1
  <2> HIDE DEF Gone
  <2>6. Without(Without(h.buffs, Gone(n)), {PlaceOf(events[n + 1])})
          = Without(h.buffs, Gone(n + 1))
    BY <2>4 DEF Without
  <2> QED BY <2>3, <2>5, <2>6
<1>5. L \in S
  <2> HIDE DEF S
  <2> QED BY <1>1, <1>3, <1>4, Induction
<1>6. HostAfter(h, events) \in HostType
  BY <1>1, AfterType
<1>7. f[L].casts = h.casts /\ f[L].buffs = Without(h.buffs, Gone(L))
  <2> HIDE DEF Gone, L
  <2> QED BY <1>1, <1>5
<1>8. Gone(L) = {PlaceOf(events[i]) : i \in DOMAIN events}
  BY <1>1
<1> HIDE DEF Gone
<1> QED BY <1>2, <1>6, <1>7, <1>8

(* What events that add or update buffs do, when each shows at its place   *)
(* what some table has there: that part of the table is laid over.         *)
Part(f, S) == [x \in S |-> f[x]]

LEMMA AfterPlacings ==
  ASSUME NEW h \in HostType, NEW events \in Seq(BuffRow), NEW from,
         \A i \in DOMAIN events :
           /\ events[i].kind \in {"Added", "Updated"}
           /\ events[i].buff = from[PlaceOf(events[i])]
  PROVE  LET k == HostAfter(h, events)
         IN  /\ k \in HostType /\ k.casts = h.casts
             /\ k.buffs = Override(h.buffs, Part(from, {PlaceOf(events[i]) : i \in DOMAIN events}))
<1> DEFINE L == Len(events)
           Placed(n) == {PlaceOf(events[i]) : i \in 1 .. n}
<1>1. events \in Seq(Event) /\ L \in Nat /\ DOMAIN events = 1 .. L
      /\ \A i \in 1 .. L : events[i] \in BuffRow
  BY DEF Event
<1>2. PICK f : HostRun(f, h, events) /\ HostAfter(h, events) = f[L]
  BY <1>1, HostAfterRun
<1> DEFINE S == {n \in Nat : n <= L => /\ f[n].casts = h.casts
                                       /\ f[n].buffs = Override(h.buffs, Part(from, Placed(n)))}
<1>3. 0 \in S
  <2>1. Placed(0) = {}
    OBVIOUS
  <2>2. h.buffs \in [DOMAIN h.buffs -> Buff]
    BY Table DEF HostType
  <2>3. Override(h.buffs, Part(from, {})) = h.buffs
    BY <2>2 DEF Override, Part
  <2> HIDE DEF Placed
  <2> QED BY <1>2, <2>1, <2>3 DEF HostRun
<1>4. ASSUME NEW n \in Nat, n \in S PROVE n + 1 \in S
  <2> SUFFICES ASSUME n + 1 <= L
               PROVE  /\ f[n + 1].casts = h.casts
                      /\ f[n + 1].buffs = Override(h.buffs, Part(from, Placed(n + 1)))
    OBVIOUS
  <2> DEFINE e == events[n + 1]
  <2>1. n + 1 \in 1 .. L /\ (n + 1) - 1 = n /\ n <= L /\ n \in 0 .. L
    BY <1>1
  <2>2. f[n] \in HostType /\ f[n + 1] = HostApply(f[n], e)
    BY <1>2, <2>1 DEF HostRun
  <2>3. e \in BuffRow /\ e.kind \in {"Added", "Updated"} /\ e.buff = from[PlaceOf(e)]
    BY <1>1, <2>1
  <2>4. f[n].casts = h.casts /\ f[n].buffs = Override(h.buffs, Part(from, Placed(n)))
    BY <1>4, <2>1
  <2>5. Placed(n + 1) = Placed(n) \cup {PlaceOf(e)}
    <3>1. 1 .. (n + 1) = (1 .. n) \cup {n + 1}
      OBVIOUS
    <3> QED BY <3>1
  <2> HIDE DEF Placed, e
  <2>6. /\ f[n + 1].casts = f[n].casts
        /\ f[n + 1].buffs = Override(f[n].buffs, At(PlaceOf(e), e.buff))
    BY <2>2, <2>3, AppliedBuff
  <2>7. Override(Override(h.buffs, Part(from, Placed(n))), At(PlaceOf(e), e.buff))
          = Override(h.buffs, Part(from, Placed(n + 1)))
    BY <2>3, <2>5 DEF Override, Part, At
  <2> QED BY <2>4, <2>6, <2>7
<1>5. L \in S
  <2> HIDE DEF S
  <2> QED BY <1>1, <1>3, <1>4, Induction
<1>6. HostAfter(h, events) \in HostType
  BY <1>1, AfterType
<1>7. f[L].casts = h.casts /\ f[L].buffs = Override(h.buffs, Part(from, Placed(L)))
  BY <1>1, <1>5
<1>8. Placed(L) = {PlaceOf(events[i]) : i \in DOMAIN events}
  BY <1>1
<1> HIDE DEF Placed
<1> QED BY <1>2, <1>6, <1>7, <1>8

(* What interruptions do: their casters cast nothing.                      *)
LEMMA AfterInterruptions ==
  ASSUME NEW h \in HostType, NEW events \in Seq(CastEvent),
         \A i \in DOMAIN events : events[i].kind = "Interrupted"
  PROVE  LET k == HostAfter(h, events)
         IN  /\ k \in HostType /\ k.buffs = h.buffs
             /\ k.casts = Without(h.casts, {events[i].caster : i \in DOMAIN events})
<1> DEFINE L == Len(events)
           Gone(n) == {events[i].caster : i \in 1 .. n}
<1>1. events \in Seq(Event) /\ L \in Nat /\ DOMAIN events = 1 .. L
      /\ \A i \in 1 .. L : events[i] \in CastEvent
  BY DEF Event
<1>2. PICK f : HostRun(f, h, events) /\ HostAfter(h, events) = f[L]
  BY <1>1, HostAfterRun
<1> DEFINE S == {n \in Nat : n <= L => /\ f[n].buffs = h.buffs
                                       /\ f[n].casts = Without(h.casts, Gone(n))}
<1>3. 0 \in S
  <2>1. Gone(0) = {}
    OBVIOUS
  <2>2. h.casts \in [DOMAIN h.casts -> Cast]
    BY Table DEF HostType
  <2>3. Without(h.casts, {}) = h.casts
    BY <2>2 DEF Without
  <2> HIDE DEF Gone
  <2> QED BY <1>2, <2>1, <2>3 DEF HostRun
<1>4. ASSUME NEW n \in Nat, n \in S PROVE n + 1 \in S
  <2> SUFFICES ASSUME n + 1 <= L
               PROVE  /\ f[n + 1].buffs = h.buffs
                      /\ f[n + 1].casts = Without(h.casts, Gone(n + 1))
    OBVIOUS
  <2> DEFINE e == events[n + 1]
  <2>1. n + 1 \in 1 .. L /\ (n + 1) - 1 = n /\ n <= L /\ n \in 0 .. L
    BY <1>1
  <2>2. f[n] \in HostType /\ f[n + 1] = HostApply(f[n], e)
    BY <1>2, <2>1 DEF HostRun
  <2>3. e \in CastEvent /\ e.kind = "Interrupted"
    BY <1>1, <2>1
  <2>4. f[n].buffs = h.buffs /\ f[n].casts = Without(h.casts, Gone(n))
    BY <1>4, <2>1
  <2>5. Gone(n + 1) = Gone(n) \cup {e.caster}
    <3>1. 1 .. (n + 1) = (1 .. n) \cup {n + 1}
      OBVIOUS
    <3> QED BY <3>1
  <2> HIDE DEF Gone, e
  <2>6. f[n + 1].buffs = f[n].buffs /\ f[n + 1].casts = Without(f[n].casts, {e.caster})
    BY <2>2, <2>3, AppliedCast
  <2>7. Without(Without(h.casts, Gone(n)), {e.caster}) = Without(h.casts, Gone(n + 1))
    BY <2>5 DEF Without
  <2> QED BY <2>4, <2>6, <2>7
<1>5. L \in S
  <2> HIDE DEF S
  <2> QED BY <1>1, <1>3, <1>4, Induction
<1>6. HostAfter(h, events) \in HostType
  BY <1>1, AfterType
<1>7. f[L].buffs = h.buffs /\ f[L].casts = Without(h.casts, Gone(L))
  BY <1>1, <1>5
<1>8. Gone(L) = {events[i].caster : i \in DOMAIN events}
  BY <1>1
<1> HIDE DEF Gone
<1> QED BY <1>2, <1>6, <1>7, <1>8

(* A finite set in some order has its elements, and no others.             *)
LEMMA InSomeOrder ==
  ASSUME NEW T, NEW S \in SUBSET T, IsFiniteSet(S)
  PROVE  LET s == SetToSeq(S)
         IN  s \in Seq(T) /\ {s[i] : i \in DOMAIN s} = S
<1> DEFINE s == SetToSeq(S)
           n == Cardinality(S)
<1>1. n \in Nat /\ ExistsBijection(1 .. n, S)
  BY FS_CardinalityType
<1>2. PICK f \in Bijection(1 .. n, S) : TRUE
  BY <1>1 DEF ExistsBijection
<1>3. f \in [1 .. n -> S] /\ IsInjective(f)
  BY <1>2 DEF Bijection, Injection
<1>4. s \in [1 .. n -> S] /\ IsInjective(s)
  BY <1>3 DEF SetToSeq
<1>5. s \in Injection(1 .. n, S)
  BY <1>4 DEF Injection
<1>6. IsFiniteSet(1 .. n) /\ Cardinality(1 .. n) = n
  <2>1. Cardinality(1 .. n) = IF 1 > n THEN 0 ELSE n - 1 + 1
    BY <1>1, FS_Interval
  <2> QED BY <1>1, <2>1, FS_Interval
<1>7. s \in Surjection(1 .. n, S)
  BY <1>5, <1>6, FS_Injection
<1> HIDE DEF s, n
<1>8. DOMAIN s = 1 .. n /\ s \in Seq(T)
  BY <1>1, <1>4
<1>9. {s[i] : i \in DOMAIN s} = S
  BY <1>4, <1>7, <1>8 DEF Surjection
<1> QED BY <1>8, <1>9 DEF s

LEMMA FiniteImage ==
  ASSUME NEW S, IsFiniteSet(S), NEW f, DOMAIN f = S, f = [x \in S |-> f[x]]
  PROVE  IsFiniteSet({f[x] : x \in S})
<1>1. f \in Surjection(S, {f[x] : x \in S})
  <2>1. f \in [S -> {f[x] : x \in S}]
    OBVIOUS
  <2> QED BY <2>1 DEF Surjection
<1> QED BY <1>1, FS_Surjection

(* Interruptions of a set of casters, in any order.                        *)
LEMMA InterruptionsOf ==
  ASSUME NEW C \in SUBSET Ids0, IsFiniteSet(C)
  PROVE  LET s == SetToSeq({Interrupted(c) : c \in C})
         IN  /\ s \in Seq(Event)
             /\ \A h \in HostType :
                  /\ HostAfter(h, s) \in HostType
                  /\ HostAfter(h, s).buffs = h.buffs
                  /\ HostAfter(h, s).casts = Without(h.casts, C)
<1> DEFINE S == {Interrupted(c) : c \in C}
           s == SetToSeq(S)
           f == [c \in C |-> Interrupted(c)]
<1>1. IsFiniteSet(S)
  <2>1. S = {f[c] : c \in C}
    OBVIOUS
  <2>2. DOMAIN f = C /\ f = [c \in C |-> f[c]]
    OBVIOUS
  <2> HIDE DEF f, S
  <2> QED BY <2>1, <2>2, FiniteImage
<1>2. S \in SUBSET CastEvent /\ \A e \in S : e.kind = "Interrupted"
  BY DEF Interrupted, CastEvent
<1>3. {e.caster : e \in S} = C
  <2>1. \A c \in C : Interrupted(c).caster = c
    BY DEF Interrupted
  <2> QED BY <2>1
<1> HIDE DEF S
<1>4. s \in Seq(CastEvent) /\ {s[i] : i \in DOMAIN s} = S
  BY <1>1, <1>2, InSomeOrder
<1> HIDE DEF s
<1>5. \A i \in DOMAIN s : s[i].kind = "Interrupted"
  BY <1>2, <1>4
<1>6. {s[i].caster : i \in DOMAIN s} = C
  BY <1>3, <1>4
<1>7. s \in Seq(Event)
  BY <1>4 DEF Event
<1>8. \A h \in HostType :
        /\ HostAfter(h, s) \in HostType
        /\ HostAfter(h, s).buffs = h.buffs
        /\ HostAfter(h, s).casts = Without(h.casts, {s[i].caster : i \in DOMAIN s})
  BY <1>4, <1>5, AfterInterruptions
<1> QED BY <1>6, <1>7, <1>8 DEF s, S

(* A buff is kept where a host that was told of it keeps it.               *)
InPlace(f) ==
  \A p \in DOMAIN f : \A kind \in {"Added", "Updated", "Removed"} :
    PlaceOf(BuffEvent(kind, Owner(p), f[p])) = p

(* Events about a set of buffs, in any order.                              *)
LEMMA RowsOf ==
  ASSUME NEW kind \in {"Added", "Updated", "Removed"}, NEW from \in Tables(Places, Buff),
         InPlace(from), NEW P \in SUBSET DOMAIN from, IsFiniteSet(P)
  PROVE  LET s == BuffEvents(kind, P, from)
         IN  /\ s \in Seq(BuffRow) /\ s \in Seq(Event)
             /\ \A i \in DOMAIN s : s[i].kind = kind /\ s[i].buff = from[PlaceOf(s[i])]
             /\ {PlaceOf(s[i]) : i \in DOMAIN s} = P
<1> DEFINE f == [p \in P |-> BuffEvent(kind, Owner(p), from[p])]
           S == {BuffEvent(kind, Owner(p), from[p]) : p \in P}
           s == SetToSeq(S)
<1>1. IsFiniteSet(S)
  <2>1. S = {f[p] : p \in P}
    OBVIOUS
  <2>2. DOMAIN f = P /\ f = [p \in P |-> f[p]]
    OBVIOUS
  <2> HIDE DEF f, S
  <2> QED BY <2>1, <2>2, FiniteImage
<1>2. ASSUME NEW p \in P
      PROVE  LET e == BuffEvent(kind, Owner(p), from[p])
             IN  e \in BuffRow /\ e.kind = kind /\ e.buff = from[p] /\ PlaceOf(e) = p
  <2>1. p \in Places /\ from[p] \in Buff
    BY Table
  <2>2. Owner(p) \in Ids0
    BY <2>1 DEF Owner, Places
  <2>3. PlaceOf(BuffEvent(kind, Owner(p), from[p])) = p
    BY DEF InPlace
  <2> QED BY <2>1, <2>2, <2>3 DEF BuffEvent, BuffRow
<1>3. /\ S \in SUBSET BuffRow
      /\ \A e \in S : e.kind = kind /\ e.buff = from[PlaceOf(e)]
      /\ {PlaceOf(e) : e \in S} = P
  BY <1>2
<1> HIDE DEF S
<1>4. s \in Seq(BuffRow) /\ {s[i] : i \in DOMAIN s} = S
  BY <1>1, <1>3, InSomeOrder
<1> HIDE DEF s
<1>5. s \in Seq(Event)
  BY <1>4 DEF Event
<1>6. \A i \in DOMAIN s : s[i].kind = kind /\ s[i].buff = from[PlaceOf(s[i])]
  BY <1>3, <1>4
<1>7. {PlaceOf(s[i]) : i \in DOMAIN s} = P
  BY <1>3, <1>4
<1>8. BuffEvents(kind, P, from) = s
  BY DEF BuffEvents, s, S
<1> QED BY <1>4, <1>5, <1>6, <1>7, <1>8

LEMMA AfterRemoving ==
  ASSUME NEW h \in HostType, NEW from \in Tables(Places, Buff), InPlace(from),
         NEW P \in SUBSET DOMAIN from, IsFiniteSet(P)
  PROVE  LET k == HostAfter(h, BuffEvents("Removed", P, from))
         IN  k \in HostType /\ k.casts = h.casts /\ k.buffs = Without(h.buffs, P)
<1> DEFINE s == BuffEvents("Removed", P, from)
<1>1. /\ s \in Seq(BuffRow)
      /\ \A i \in DOMAIN s : s[i].kind = "Removed"
      /\ {PlaceOf(s[i]) : i \in DOMAIN s} = P
  BY RowsOf
<1> HIDE DEF s
<1>2. LET k == HostAfter(h, s)
      IN  /\ k \in HostType /\ k.casts = h.casts
          /\ k.buffs = Without(h.buffs, {PlaceOf(s[i]) : i \in DOMAIN s})
  BY <1>1, AfterRemovals
<1> QED BY <1>1, <1>2 DEF s

LEMMA AfterPlacing ==
  ASSUME NEW h \in HostType, NEW kind \in {"Added", "Updated"},
         NEW from \in Tables(Places, Buff), InPlace(from),
         NEW P \in SUBSET DOMAIN from, IsFiniteSet(P)
  PROVE  LET k == HostAfter(h, BuffEvents(kind, P, from))
         IN  k \in HostType /\ k.casts = h.casts /\ k.buffs = Override(h.buffs, Part(from, P))
<1> DEFINE s == BuffEvents(kind, P, from)
<1>1. /\ s \in Seq(BuffRow)
      /\ \A i \in DOMAIN s : s[i].kind = kind /\ s[i].buff = from[PlaceOf(s[i])]
      /\ {PlaceOf(s[i]) : i \in DOMAIN s} = P
  BY RowsOf
<1> HIDE DEF s
<1>2. LET k == HostAfter(h, s)
      IN  /\ k \in HostType /\ k.casts = h.casts
          /\ k.buffs = Override(h.buffs, Part(from, {PlaceOf(s[i]) : i \in DOMAIN s}))
  BY <1>1, AfterPlacings
<1> QED BY <1>1, <1>2 DEF s

-----------------------------------------------------------------------------
(* Buff lists                                                              *)

LEMMA Greatest ==
  ASSUME NEW L \in Nat, NEW S \in SUBSET (1 .. L), S # {}
  PROVE  \E i \in S : \A j \in S : j <= i
<1> DEFINE Less == {p \in Nat \X Nat : p[1] < p[2]}
           Back == {L - i : i \in S}
<1>1. IsWellFoundedOn(Less, Nat)
  BY NatLessThanWellFounded DEF OpToRel
<1>2. Back \subseteq Nat /\ Back # {}
  <2>1. \A i \in S : i \in 1 .. L /\ L - i \in Nat
    OBVIOUS
  <2> QED BY <2>1
<1>3. PICK b \in Back : \A c \in Back : ~(<<c, b>> \in Less)
  <2> HIDE DEF Less, Back
  <2> QED BY <1>1, <1>2, WFMin
<1>4. PICK i \in S : b = L - i
  OBVIOUS
<1>5. ASSUME NEW j \in S PROVE j <= i
  <2>1. L - j \in Back /\ L - j \in Nat /\ b \in Nat
    BY <1>2
  <2>2. ~(L - j < b)
    BY <1>3, <2>1
  <2> QED BY <1>4, <2>1, <2>2
<1> QED BY <1>5

(* What a list says is a finite table of the owner's slots.                *)
LEMMA IncomingFacts ==
  ASSUME NEW owner \in Ids0, NEW list \in BuffLists
  PROVE  LET f == Incoming(owner, list)
         IN  /\ f \in Tables(Places, Buff) /\ IsFiniteSet(DOMAIN f) /\ InPlace(f)
             /\ \A p \in DOMAIN f : Owner(p) = owner
<1> DEFINE Entry == [slot : Slots, spell : Spells \cup {0}, ticks : Ticks]
           valid == {i \in DOMAIN list : list[i].spell # 0}
           Best(n, i) == list[i].slot = n /\ \A j \in valid : list[j].slot = n => j <= i
           last(n) == CHOOSE i \in valid : Best(n, i)
           keys == {<<owner, <<"slot", list[i].slot>>>> : i \in valid}
           f == Incoming(owner, list)
<1>1. /\ Len(list) \in Nat /\ DOMAIN list = 1 .. Len(list)
      /\ \A i \in DOMAIN list : list[i] \in Entry
  <2>1. list \in Seq(Entry)
    BY BuffListsAssumption
  <2> HIDE DEF Entry
  <2> QED BY <2>1
<1>2. valid \in SUBSET (1 .. Len(list))
  BY <1>1
<1>3. ASSUME NEW i \in valid
      PROVE  LET n == list[i].slot
             IN  last(n) \in valid /\ list[last(n)].slot = n
  <2> DEFINE n == list[i].slot
             same == {j \in valid : list[j].slot = n}
  <2>1. same \in SUBSET (1 .. Len(list)) /\ same # {}
    BY <1>2
  <2>2. PICK k \in same : \A j \in same : j <= k
    BY <1>1, <2>1, Greatest
  <2>3. k \in valid /\ Best(n, k)
    BY <2>2
  <2> QED BY <2>3
<1>4. /\ DOMAIN f = keys
      /\ \A p \in keys : f[p] = [spell |-> list[last(p[2][2])].spell,
                                 ticks |-> {list[last(p[2][2])].ticks},
                                 slot |-> {list[last(p[2][2])].slot}]
  BY DEF Incoming
<1> HIDE DEF f, last
<1>5. ASSUME NEW p \in keys
      PROVE  /\ p \in Places /\ Owner(p) = owner
             /\ f[p] \in Buff /\ p = <<owner, <<"slot", p[2][2]>>>> /\ f[p].slot = {p[2][2]}
  <2>1. PICK i \in valid : p = <<owner, <<"slot", list[i].slot>>>>
    OBVIOUS
  <2>2. p[2][2] = list[i].slot /\ Owner(p) = owner
    BY <2>1 DEF Owner
  <2>3. list[i].slot \in Slots
    BY <1>1, <1>2
  <2>4. p \in Places
    BY <2>1, <2>3 DEF Places, Keys
  <2> DEFINE k == last(list[i].slot)
  <2>5. k \in valid /\ list[k].slot = list[i].slot
    BY <1>3
  <2>6. f[p] = [spell |-> list[k].spell, ticks |-> {list[k].ticks}, slot |-> {list[k].slot}]
    BY <1>4, <2>2
  <2> HIDE DEF k
  <2>7. list[k].spell \in Spells /\ list[k].ticks \in Ticks /\ list[k].slot \in Slots
    BY <1>1, <2>5
  <2>8. f[p] \in Buff
    BY <2>6, <2>7 DEF Buff
  <2> QED BY <2>1, <2>2, <2>4, <2>5, <2>6, <2>8
<1>6. f \in Tables(Places, Buff)
  <2>1. f = [p \in keys |-> f[p]]
    BY <1>4 DEF f, Incoming
  <2>2. f \in [keys -> Buff]
    BY <1>5, <2>1
  <2> QED BY <1>4, <1>5, <2>2, Table
<1>7. IsFiniteSet(keys)
  <2> DEFINE g == [i \in valid |-> <<owner, <<"slot", list[i].slot>>>>]
  <2>1. IsFiniteSet(1 .. Len(list))
    BY <1>1, FS_Interval
  <2>2. IsFiniteSet(valid)
    BY <1>2, <2>1, FS_Subset
  <2>3. DOMAIN g = valid /\ g = [i \in valid |-> g[i]]
    OBVIOUS
  <2>4. keys = {g[i] : i \in valid}
    OBVIOUS
  <2> HIDE DEF g, keys, valid
  <2> QED BY <2>2, <2>3, <2>4, FiniteImage
<1>8. InPlace(f)
  <2> SUFFICES ASSUME NEW p \in keys, NEW kind \in {"Added", "Updated", "Removed"}
               PROVE  PlaceOf(BuffEvent(kind, Owner(p), f[p])) = p
    BY <1>4 DEF InPlace
  <2>1. /\ Owner(p) = owner /\ f[p].slot = {p[2][2]}
        /\ p = <<owner, <<"slot", p[2][2]>>>>
    BY <1>5
  <2>2. (CHOOSE n \in {p[2][2]} : TRUE) = p[2][2]
    OBVIOUS
  <2> QED BY <2>1, <2>2 DEF PlaceOf, BuffEvent
<1> QED BY <1>4, <1>5, <1>6, <1>7, <1>8 DEF f

-----------------------------------------------------------------------------
(* The invariant                                                           *)

(* A host that follows has, besides the buffs and the casts, a buff where  *)
(* the session has it; and the sets that events put in order are finite.   *)
CombatInv ==
  /\ TypeOK
  /\ IsFiniteSet(DOMAIN casts) /\ IsFiniteSet(DOMAIN buffs)
  /\ InPlace(buffs)
  /\ HostFollowsBuffs /\ HostFollowsCasts

LEMMA InitCombat == Init => CombatInv
<1> SUFFICES ASSUME Init PROVE CombatInv
  OBVIOUS
<1>1. <<>> \in Tables(Ids0, Cast) /\ <<>> \in Tables(Places, Buff)
      /\ <<>> \in Tables(Places, Spells) /\ DOMAIN <<>> = {}
  BY EmptyTable
<1>2. host \in HostType /\ host.casts = <<>> /\ host.buffs = <<>>
  BY <1>1 DEF Init, HostType
<1>3. TypeOK
  BY <1>1, <1>2 DEF Init, TypeOK, Ids0
<1> QED BY <1>1, <1>2, <1>3, FS_EmptySet
        DEF Init, CombatInv, InPlace, HostFollowsBuffs, HostFollowsCasts

LEMMA StartedCombat ==
  ASSUME CombatInv, NEW before, NEW caster \in Ids0, NEW spell \in Spells, NEW aim \in SUBSET Aim,
         before = casts \/ before = Without(casts, {0}),
         StartCast(before, caster, spell, aim)
  PROVE  CombatInv'
<1> DEFINE same == caster \in DOMAIN before /\ before[caster].spell = spell
           cast == [spell |-> spell,
                    aim |-> IF same THEN Or(aim, before[caster].aim) ELSE aim]
           superseded == IF caster \in DOMAIN before /\ ~same THEN <<Interrupted(caster)>>
                         ELSE <<>>
           begin == Started(caster, cast)
<1>1. casts \in Tables(Ids0, Cast) /\ host \in HostType /\ host.casts \in Tables(Ids0, Cast)
  BY DEF CombatInv, TypeOK, HostType
<1>2. /\ before \in Tables(Ids0, Cast) /\ DOMAIN before \subseteq DOMAIN casts
      /\ DOMAIN casts \subseteq DOMAIN before \cup {0}
      /\ \A c \in DOMAIN before : before[c] = casts[c]
  <2>1. CASE before = casts
    BY <1>1, <2>1
  <2>2. CASE before = Without(casts, {0})
    <3>1. before \in Tables(Ids0, Cast)
      BY <1>1, <2>2, Withheld
    <3>2. /\ DOMAIN before = DOMAIN casts \ {0}
          /\ \A x \in DOMAIN casts \ {0} : before[x] = casts[x]
      BY <2>2 DEF Without
    <3> QED BY <3>1, <3>2
  <2> QED BY <2>1, <2>2
<1>3. cast \in Cast
  <2>1. caster \in DOMAIN before => before[caster] \in Cast
    BY <1>2, Table
  <2>2. caster \in DOMAIN before => before[caster].aim \in SUBSET Aim
    BY <2>1 DEF Cast
  <2>3. (IF same THEN Or(aim, before[caster].aim) ELSE aim) \in SUBSET Aim
    BY <2>2 DEF Or
  <2> QED BY <2>3 DEF Cast
<1>4. /\ casts' = Override(before, At(caster, cast))
      /\ host' = HostAfter(host, superseded \o <<begin>>)
      /\ UNCHANGED <<backend, player, buffs, told>>
  BY DEF StartCast, Publish
<1> HIDE DEF cast
<1>5. begin \in CastEvent /\ begin.kind = "Started" /\ begin.caster = caster /\ begin.cast = cast
      /\ begin \in Event
  BY <1>3 DEF Started, CastEvent, Event
<1>6. Interrupted(caster) \in CastEvent /\ Interrupted(caster) \in Event
      /\ Interrupted(caster).kind = "Interrupted" /\ Interrupted(caster).caster = caster
  BY DEF Interrupted, CastEvent, Event
<1>7. PICK h \in HostType : /\ h.buffs = host.buffs
                            /\ h.casts = host.casts \/ h.casts = Without(host.casts, {caster})
                            /\ host' = HostApply(h, begin)
  <2>1. CASE superseded = <<>>
    <3>1. superseded \o <<begin>> = <<begin>>
      <4>1. <<begin>> \in Seq(Event)
        BY <1>5
      <4> HIDE DEF begin, superseded
      <4> QED BY <2>1, <4>1
    <3>2. host' = HostApply(host, begin)
      BY <1>1, <1>4, <1>5, <3>1, AfterOne
    <3> QED BY <1>1, <3>2
  <2>2. CASE superseded = <<Interrupted(caster)>>
    <3> DEFINE h == HostApply(host, Interrupted(caster))
    <3>1. h \in HostType /\ h.buffs = host.buffs /\ h.casts = Without(host.casts, {caster})
      BY <1>1, <1>6, AppliedCast
    <3>2. <<Interrupted(caster)>> \in Seq(Event) /\ <<begin>> \in Seq(Event)
      BY <1>5, <1>6
    <3>3. host' = HostAfter(HostAfter(host, <<Interrupted(caster)>>), <<begin>>)
      BY <1>1, <1>4, <2>2, <3>2, AfterBoth
    <3>4. HostAfter(host, <<Interrupted(caster)>>) = h
      BY <1>1, <1>6, AfterOne
    <3> HIDE DEF h
    <3>5. host' = HostApply(h, begin)
      BY <1>5, <3>1, <3>3, <3>4, AfterOne
    <3> QED BY <3>1, <3>5
  <2> QED BY <2>1, <2>2
<1>8. host' \in HostType /\ host'.buffs = host.buffs /\ host'.casts = Override(h.casts, At(caster, cast))
  BY <1>5, <1>7, AppliedCast
<1>9. At(caster, cast) \in Tables(Ids0, Cast) /\ DOMAIN At(caster, cast) = {caster}
      /\ At(caster, cast)[caster] = cast
  BY <1>3, OneEntry
<1>10. /\ casts' \in Tables(Ids0, Cast) /\ DOMAIN casts' = DOMAIN before \cup {caster}
       /\ \A c \in DOMAIN casts' : casts'[c] = IF c = caster THEN cast ELSE before[c]
  <2> DEFINE one == At(caster, cast)
  <2> HIDE DEF one
  <2>1. one \in Tables(Ids0, Cast) /\ DOMAIN one = {caster} /\ one[caster] = cast
    BY <1>9 DEF one
  <2>2. casts' = Override(before, one)
    BY <1>4 DEF one
  <2>3. /\ casts' \in Tables(Ids0, Cast) /\ DOMAIN casts' = DOMAIN before \cup DOMAIN one
        /\ \A c \in DOMAIN casts' : casts'[c] = IF c \in DOMAIN one THEN one[c] ELSE before[c]
    <3>1. casts' \in Tables(Ids0, Cast)
      BY <1>2, <2>1, <2>2, Overridden
    <3> QED BY <2>2, <3>1 DEF Override
  <2> QED BY <2>1, <2>3
<1>11. /\ DOMAIN host'.casts = DOMAIN host.casts \cup {caster}
       /\ \A c \in DOMAIN host'.casts : host'.casts[c] = IF c = caster THEN cast ELSE host.casts[c]
  <2>1. h.casts \in Tables(Ids0, Cast)
    BY DEF HostType
  <2>2. /\ DOMAIN h.casts \cup {caster} = DOMAIN host.casts \cup {caster}
        /\ \A c \in DOMAIN h.casts : c = caster \/ h.casts[c] = host.casts[c]
    <3>1. CASE h.casts = host.casts
      BY <3>1
    <3>2. CASE h.casts = Without(host.casts, {caster})
      <4>1. /\ DOMAIN h.casts = DOMAIN host.casts \ {caster}
            /\ \A x \in DOMAIN host.casts \ {caster} : h.casts[x] = host.casts[x]
        BY <3>2 DEF Without
      <4> QED BY <4>1
    <3> QED BY <1>7, <3>1, <3>2
  <2> DEFINE one == At(caster, cast)
  <2> HIDE DEF one
  <2>3. one \in Tables(Ids0, Cast) /\ DOMAIN one = {caster} /\ one[caster] = cast
    BY <1>9 DEF one
  <2>4. host'.casts = Override(h.casts, one)
    BY <1>8 DEF one
  <2>5. /\ DOMAIN host'.casts = DOMAIN h.casts \cup DOMAIN one
        /\ \A c \in DOMAIN host'.casts :
             host'.casts[c] = IF c \in DOMAIN one THEN one[c] ELSE h.casts[c]
    BY <2>4 DEF Override
  <2>6. ASSUME NEW c \in DOMAIN host'.casts
        PROVE  host'.casts[c] = IF c = caster THEN cast ELSE host.casts[c]
    BY <2>2, <2>3, <2>5
  <2> QED BY <2>2, <2>3, <2>5, <2>6
<1>12. TypeOK'
  BY <1>4, <1>8, <1>10 DEF CombatInv, TypeOK
<1>13. IsFiniteSet(DOMAIN casts')
  <2>1. IsFiniteSet(DOMAIN before) /\ IsFiniteSet({caster})
    BY <1>2, FS_Subset, FS_Singleton DEF CombatInv
  <2>2. IsFiniteSet(DOMAIN before \cup {caster})
    BY <2>1, FS_Union
  <2> QED BY <1>10, <2>2
<1>14. HostFollowsCasts'
  <2>1. ASSUME NEW id \in Ids PROVE id \in DOMAIN host'.casts <=> id \in DOMAIN casts'
    BY <1>2, <1>10, <1>11, IdsAssumption DEF CombatInv, HostFollowsCasts
  <2>2. ASSUME NEW c \in DOMAIN casts'
        PROVE  c \in DOMAIN host'.casts /\ host'.casts[c] = casts'[c]
    BY <1>2, <1>10, <1>11 DEF CombatInv, HostFollowsCasts
  <2> QED BY <2>1, <2>2 DEF HostFollowsCasts
<1> QED BY <1>4, <1>8, <1>12, <1>13, <1>14 DEF CombatInv, HostFollowsBuffs, InPlace

LEMMA Ids0Type == CombatInv => player.id \in Ids0 /\ \A wire \in Ids0 : BuffOwner(wire) \in Ids0
  BY DEF CombatInv, TypeOK, BuffOwner

LEMMA ActedCombat ==
  ASSUME CombatInv, NEW wire \in Ids0, NEW spell \in Spells, NEW fromClient \in BOOLEAN,
         Act(wire, spell, fromClient)
  PROVE  CombatInv'
<1> DEFINE source == IF wire = 0 /\ fromClient THEN player.id ELSE wire
           done == Finished(source, spell)
           gone == {c \in DOMAIN host.casts : c = source /\ host.casts[c].spell = spell}
<1>1. casts \in Tables(Ids0, Cast) /\ host \in HostType /\ source \in Ids0
  BY Ids0Type DEF CombatInv, TypeOK
<1>2. /\ casts' = Without(casts, done)
      /\ host' = HostAfter(host, <<Acted(source, spell)>>)
      /\ UNCHANGED <<backend, player, buffs, told>>
  BY DEF Act, Publish
<1> HIDE DEF source, done, gone
<1>3. /\ Acted(source, spell) \in CastEvent /\ Acted(source, spell) \in Event
      /\ Acted(source, spell).kind = "Acted" /\ Acted(source, spell).source = source
      /\ Acted(source, spell).spell = spell
  BY <1>1 DEF Acted, CastEvent, Event
<1>4. host' = HostApply(host, Acted(source, spell))
  BY <1>1, <1>2, <1>3, AfterOne
<1>5. host' \in HostType /\ host'.buffs = host.buffs /\ host'.casts = Without(host.casts, gone)
  <2> DEFINE e == Acted(source, spell)
             matching == {c \in DOMAIN host.casts : c = e.source /\ host.casts[c].spell = e.spell}
  <2>1. matching = gone
    BY <1>3 DEF gone
  <2>2. /\ host' \in HostType /\ host'.buffs = host.buffs
        /\ host'.casts = Without(host.casts, matching)
    <3> HIDE DEF e
    <3> QED BY <1>1, <1>3, <1>4, AppliedCast DEF e
  <2> QED BY <2>1, <2>2
<1>6. casts' \in Tables(Ids0, Cast)
  BY <1>1, <1>2, Withheld
<1>7. /\ DOMAIN casts' = DOMAIN casts \ done
      /\ \A c \in DOMAIN casts' : casts'[c] = casts[c]
  BY <1>2 DEF Without
<1>8. /\ DOMAIN host'.casts = DOMAIN host.casts \ gone
      /\ \A c \in DOMAIN host'.casts : host'.casts[c] = host.casts[c]
  BY <1>5 DEF Without
<1>9. IsFiniteSet(DOMAIN casts')
  BY <1>7, FS_Subset DEF CombatInv
<1>10. \A c \in DOMAIN casts : c # 0 => (c \in done <=> c \in gone)
  BY DEF done, gone, Finished, Pending, CombatInv, HostFollowsCasts
<1>11. \A c \in DOMAIN casts : c \in gone => c \in done
  BY DEF done, gone, Finished, Pending, CombatInv, HostFollowsCasts
<1>12. HostFollowsCasts'
  <2>1. ASSUME NEW id \in Ids PROVE id \in DOMAIN host'.casts <=> id \in DOMAIN casts'
    <3>1. id # 0 /\ (id \in DOMAIN host.casts <=> id \in DOMAIN casts)
      BY IdsAssumption DEF CombatInv, HostFollowsCasts
    <3>2. id \in gone => id \in DOMAIN casts
      BY <3>1 DEF gone
    <3> QED BY <1>7, <1>8, <1>10, <3>1, <3>2
  <2>2. ASSUME NEW c \in DOMAIN casts'
        PROVE  c \in DOMAIN host'.casts /\ host'.casts[c] = casts'[c]
    BY <1>7, <1>8, <1>11 DEF CombatInv, HostFollowsCasts
  <2> QED BY <2>1, <2>2 DEF HostFollowsCasts
<1>13. TypeOK'
  BY <1>2, <1>5, <1>6 DEF CombatInv, TypeOK
<1> QED BY <1>2, <1>5, <1>9, <1>12, <1>13 DEF CombatInv, HostFollowsBuffs, InPlace

LEMMA InterruptedCombat ==
  ASSUME CombatInv, Interrupt
  PROVE  CombatInv'
<1> DEFINE ended == {player.id, 0} \cap DOMAIN casts
<1>1. casts \in Tables(Ids0, Cast) /\ host \in HostType
  BY DEF CombatInv, TypeOK
<1>2. ended \in SUBSET Ids0 /\ IsFiniteSet(ended)
  <2>1. ended \in SUBSET DOMAIN casts
    OBVIOUS
  <2> QED BY <2>1, Ids0Type, FS_Subset DEF CombatInv, Ids0
<1>3. /\ casts' = Without(casts, ended)
      /\ host' = HostAfter(host, SetToSeq({Interrupted(c) : c \in ended}))
      /\ UNCHANGED <<backend, player, buffs, told>>
  BY DEF Interrupt, Publish
<1> HIDE DEF ended
<1>4. host' \in HostType /\ host'.buffs = host.buffs /\ host'.casts = Without(host.casts, ended)
  BY <1>1, <1>2, <1>3, InterruptionsOf
<1>5. casts' \in Tables(Ids0, Cast)
  BY <1>1, <1>3, Withheld
<1>6. /\ DOMAIN casts' = DOMAIN casts \ ended
      /\ \A c \in DOMAIN casts' : casts'[c] = casts[c]
  BY <1>3 DEF Without
<1>7. /\ DOMAIN host'.casts = DOMAIN host.casts \ ended
      /\ \A c \in DOMAIN host'.casts : host'.casts[c] = host.casts[c]
  BY <1>4 DEF Without
<1>8. IsFiniteSet(DOMAIN casts')
  BY <1>6, FS_Subset DEF CombatInv
<1>9. HostFollowsCasts'
  BY <1>6, <1>7 DEF CombatInv, HostFollowsCasts
<1>10. TypeOK'
  BY <1>3, <1>4, <1>5 DEF CombatInv, TypeOK
<1> QED BY <1>3, <1>4, <1>8, <1>9, <1>10 DEF CombatInv, HostFollowsBuffs, InPlace

(* A step about buffs, when the host's buffs are again the session's.      *)
LEMMA BuffsCombat ==
  ASSUME CombatInv, UNCHANGED <<backend, player, casts>>,
         told' \in [Ids0 -> SUBSET Spells],
         host' \in HostType, host'.casts = host.casts, host'.buffs = buffs',
         buffs' \in Tables(Places, Buff), IsFiniteSet(DOMAIN buffs'), InPlace(buffs')
  PROVE  CombatInv'
<1>1. TypeOK'
  BY DEF CombatInv, TypeOK
<1>2. HostFollowsCasts'
  BY DEF CombatInv, HostFollowsCasts
<1> QED BY <1>1, <1>2 DEF CombatInv, HostFollowsBuffs, InPlace

LEMMA BuffListCombat ==
  ASSUME CombatInv, NEW wire \in Ids0, NEW list \in BuffLists, BuffList(wire, list)
  PROVE  CombatInv'
<1> DEFINE owner == BuffOwner(wire)
           incoming == Incoming(owner, list)
           leaving == Leaving(owner, incoming)
           coming == Coming(owner, incoming)
           changing == Changing(owner, incoming)
           removed == BuffEvents("Removed", leaving, buffs)
           added == BuffEvents("Added", coming, incoming)
           updated == BuffEvents("Updated", changing, incoming)
<1>1. /\ owner \in Ids0 /\ host \in HostType /\ host.buffs = buffs
      /\ buffs \in Tables(Places, Buff) /\ IsFiniteSet(DOMAIN buffs) /\ InPlace(buffs)
  BY Ids0Type DEF CombatInv, TypeOK, HostFollowsBuffs
<1> HIDE DEF owner
<1>2. /\ incoming \in Tables(Places, Buff) /\ IsFiniteSet(DOMAIN incoming) /\ InPlace(incoming)
      /\ \A p \in DOMAIN incoming : Owner(p) = owner
  BY <1>1, IncomingFacts
<1>3. /\ buffs' = Override(Without(buffs, leaving), incoming)
      /\ host' = HostAfter(host, (removed \o added) \o updated)
      /\ told' = [told EXCEPT ![owner] = {incoming[p].spell : p \in DOMAIN incoming}]
      /\ UNCHANGED <<backend, player, casts>>
  BY DEF BuffList, Publish, SnapshotEvents, owner
<1> HIDE DEF incoming
<1>4. /\ leaving \in SUBSET DOMAIN buffs /\ IsFiniteSet(leaving)
      /\ coming \in SUBSET DOMAIN incoming /\ IsFiniteSet(coming)
      /\ changing \in SUBSET DOMAIN incoming /\ IsFiniteSet(changing)
  <2>1. /\ leaving \in SUBSET DOMAIN buffs /\ coming \in SUBSET DOMAIN incoming
        /\ changing \in SUBSET DOMAIN incoming
    BY DEF Leaving, Coming, Changing
  <2> HIDE DEF leaving, coming, changing
  <2> QED BY <1>1, <1>2, <2>1, FS_Subset
<1>5. \A p \in DOMAIN incoming :
        \/ p \in coming \/ p \in changing
        \/ p \in DOMAIN buffs \ leaving /\ incoming[p] = buffs[p]
  BY DEF Coming, Changing
<1> HIDE DEF leaving, coming, changing
<1>6. removed \in Seq(Event) /\ added \in Seq(Event) /\ updated \in Seq(Event)
  BY <1>1, <1>2, <1>4, RowsOf
<1> DEFINE h1 == HostAfter(host, removed)
           h2 == HostAfter(h1, added)
<1>7. h1 \in HostType /\ h1.casts = host.casts /\ h1.buffs = Without(buffs, leaving)
  BY <1>1, <1>4, AfterRemoving
<1>8. host' = HostAfter(h2, updated)
  <2>1. removed \o added \in Seq(Event)
    BY <1>6
  <2>2. HostAfter(host, removed \o added) = h2
    BY <1>1, <1>6, AfterBoth
  <2> HIDE DEF h2, removed, added, updated
  <2> QED BY <1>1, <1>3, <1>6, <2>1, <2>2, AfterBoth
<1> HIDE DEF h1
<1>9. h2 \in HostType /\ h2.casts = host.casts /\ h2.buffs = Override(h1.buffs, Part(incoming, coming))
  BY <1>2, <1>4, <1>7, AfterPlacing
<1> HIDE DEF h2
<1>10. /\ host' \in HostType /\ host'.casts = host.casts
       /\ host'.buffs = Override(h2.buffs, Part(incoming, changing))
  BY <1>2, <1>4, <1>8, <1>9, AfterPlacing
<1>11. host'.buffs = buffs'
  <2>1. host'.buffs = Override(Override(Without(buffs, leaving), Part(incoming, coming)),
                               Part(incoming, changing))
    BY <1>7, <1>9, <1>10
  <2> DEFINE left == Without(buffs, leaving)
  <2>2. DOMAIN left = DOMAIN buffs \ leaving /\ \A p \in DOMAIN left : left[p] = buffs[p]
    BY DEF Without
  <2> HIDE DEF left
  <2>3. ASSUME NEW p \in DOMAIN incoming, p \notin coming, p \notin changing
        PROVE  p \in DOMAIN left /\ incoming[p] = left[p]
    <3>1. p \in DOMAIN buffs \ leaving /\ incoming[p] = buffs[p]
      BY <1>5, <2>3
    <3> QED BY <2>2, <3>1
  <2>4. Override(Override(left, Part(incoming, coming)), Part(incoming, changing))
          = Override(left, incoming)
    BY <1>4, <2>3 DEF Override, Part
  <2> QED BY <1>3, <2>1, <2>4 DEF left
<1>12. buffs' \in Tables(Places, Buff)
  <2>1. Without(buffs, leaving) \in Tables(Places, Buff)
    BY <1>1, Withheld
  <2> QED BY <1>2, <1>3, <2>1, Overridden
<1>13. /\ DOMAIN buffs' = (DOMAIN buffs \ leaving) \cup DOMAIN incoming
       /\ \A p \in DOMAIN buffs' : buffs'[p] = IF p \in DOMAIN incoming THEN incoming[p] ELSE buffs[p]
  BY <1>3 DEF Override, Without
<1>14. IsFiniteSet(DOMAIN buffs')
  <2>1. IsFiniteSet(DOMAIN buffs \ leaving)
    BY <1>1, FS_Subset
  <2>2. IsFiniteSet((DOMAIN buffs \ leaving) \cup DOMAIN incoming)
    BY <1>2, <2>1, FS_Union
  <2> QED BY <1>13, <2>2
<1>15. InPlace(buffs')
  BY <1>1, <1>2, <1>13 DEF InPlace
<1>16. told' \in [Ids0 -> SUBSET Spells]
  <2>1. \A p \in DOMAIN incoming : incoming[p].spell \in Spells
    <3>1. \A p \in DOMAIN incoming : incoming[p] \in Buff
      BY <1>2, Table
    <3> QED BY <3>1 DEF Buff
  <2>2. told \in [Ids0 -> SUBSET Spells]
    BY DEF CombatInv, TypeOK
  <2> QED BY <1>1, <1>3, <2>1, <2>2
<1> QED BY <1>3, <1>10, <1>11, <1>12, <1>14, <1>15, <1>16, BuffsCombat

LEMMA BuffFadeCombat ==
  ASSUME CombatInv, NEW wire \in Ids0, NEW spell \in Spells, BuffFade(wire, spell)
  PROVE  CombatInv'
<1> DEFINE owner == BuffOwner(wire)
           fading == Fading(owner, spell)
<1>1. /\ owner \in Ids0 /\ host \in HostType /\ host.buffs = buffs
      /\ buffs \in Tables(Places, Buff) /\ IsFiniteSet(DOMAIN buffs) /\ InPlace(buffs)
      /\ told \in [Ids0 -> SUBSET Spells]
  BY Ids0Type DEF CombatInv, TypeOK, HostFollowsBuffs
<1>2. /\ buffs' = Without(buffs, fading)
      /\ host' = HostAfter(host, BuffEvents("Removed", fading, buffs))
      /\ told' = [told EXCEPT ![owner] = @ \ {spell}]
      /\ UNCHANGED <<backend, player, casts>>
  BY DEF BuffFade, Publish
<1>3. fading \in SUBSET DOMAIN buffs
  BY DEF Fading, Showing
<1> HIDE DEF owner, fading
<1>4. IsFiniteSet(fading)
  BY <1>1, <1>3, FS_Subset
<1>5. host' \in HostType /\ host'.casts = host.casts /\ host'.buffs = buffs'
  BY <1>1, <1>2, <1>3, <1>4, AfterRemoving
<1>6. buffs' \in Tables(Places, Buff)
  BY <1>1, <1>2, Withheld
<1>7. DOMAIN buffs' = DOMAIN buffs \ fading /\ \A p \in DOMAIN buffs' : buffs'[p] = buffs[p]
  BY <1>2 DEF Without
<1>8. IsFiniteSet(DOMAIN buffs')
  BY <1>1, <1>7, FS_Subset
<1>9. InPlace(buffs')
  BY <1>1, <1>7 DEF InPlace
<1>10. told' \in [Ids0 -> SUBSET Spells]
  BY <1>1, <1>2
<1> QED BY <1>2, <1>5, <1>6, <1>8, <1>9, <1>10, BuffsCombat

(* The first of some places is one of them: slots are numbers.             *)
LEMMA FirstIsOne ==
  ASSUME NEW shown \in SUBSET Places, shown # {}
  PROVE  FirstPlace(shown) \in shown
<1> DEFINE slotted == {p \in shown : p[2][1] = "slot"}
           Numbers == {p[2][2] : p \in slotted}
           Less == {q \in Nat \X Nat : q[1] < q[2]}
<1>1. CASE slotted = {}
  BY <1>1 DEF FirstPlace
<1>2. CASE slotted # {}
  <2>1. IsWellFoundedOn(Less, Nat)
    BY NatLessThanWellFounded DEF OpToRel
  <2>2. Numbers \subseteq Nat
    <3> SUFFICES ASSUME NEW p \in slotted PROVE p[2][2] \in Nat
      OBVIOUS
    <3>1. p[2] \in Keys /\ p[2][1] = "slot"
      BY DEF Places
    <3>2. p[2] \in {"slot"} \X Slots
      BY <3>1 DEF Keys
    <3> QED BY <3>2, SlotsAssumption
  <2>3. Numbers # {}
    BY <1>2
  <2>4. PICK n \in Numbers : \A m \in Numbers : ~(<<m, n>> \in Less)
    <3> HIDE DEF Less, Numbers
    <3> QED BY <2>1, <2>2, <2>3, WFMin
  <2>5. PICK p \in slotted : p[2][2] = n
    OBVIOUS
  <2>6. ASSUME NEW q \in slotted PROVE p[2][2] <= q[2][2]
    <3>1. q[2][2] \in Numbers
      OBVIOUS
    <3>2. n \in Nat /\ q[2][2] \in Nat /\ <<q[2][2], n>> \notin Less
      BY <2>2, <2>4, <3>1
    <3>3. ~(q[2][2] < n)
      BY <3>2
    <3> QED BY <2>5, <3>2, <3>3
  <2>7. (CHOOSE x \in slotted : \A q \in slotted : x[2][2] <= q[2][2]) \in slotted
    BY <2>5, <2>6
  <2>8. FirstPlace(shown) \in slotted
    BY <1>2, <2>7 DEF FirstPlace
  <2> QED BY <2>8
<1> QED BY <1>1, <1>2

LEMMA BuffWireCombat ==
  ASSUME CombatInv, NEW wire \in Ids0, NEW spell \in Spells,
         NEW slot \in {{}} \cup {{n} : n \in Slots}, NEW ticks \in {{}} \cup {{t} : t \in Ticks},
         BuffWire(wire, spell, slot, ticks)
  PROVE  CombatInv'
<1> DEFINE owner == BuffOwner(wire)
           shown == Showing(owner, spell)
           place == IF slot # {} THEN <<owner, <<"slot", CHOOSE n \in slot : TRUE>>>>
                    ELSE IF shown # {} THEN FirstPlace(shown)
                    ELSE <<owner, <<"spell", spell>>>>
           known == place \in DOMAIN buffs
           buff == NewBuff(place, spell, slot, ticks)
           events == IF ~known THEN <<BuffEvent("Added", owner, buff)>>
                     ELSE IF buffs[place] # buff THEN <<BuffEvent("Updated", owner, buff)>>
                     ELSE <<>>
<1>1. /\ owner \in Ids0 /\ host \in HostType /\ host.buffs = buffs
      /\ buffs \in Tables(Places, Buff) /\ IsFiniteSet(DOMAIN buffs) /\ InPlace(buffs)
      /\ told \in [Ids0 -> SUBSET Spells]
  BY Ids0Type DEF CombatInv, TypeOK, HostFollowsBuffs
<1>2. /\ buffs' = Override(buffs, At(place, buff))
      /\ host' = HostAfter(host, events)
      /\ told' = [told EXCEPT ![owner] = @ \cup {spell}]
      /\ UNCHANGED <<backend, player, casts>>
  BY DEF BuffWire, Publish
<1> HIDE DEF owner
<1>3. DOMAIN buffs \subseteq Places /\ \A p \in DOMAIN buffs : buffs[p] \in Buff
  BY <1>1, Table
<1>4. slot \in SUBSET Slots /\ ticks \in SUBSET Ticks
  OBVIOUS
<1>5. buff \in Buff /\ buff.spell = spell
      /\ buff.slot = IF slot = {} /\ known THEN buffs[place].slot ELSE slot
  <2>1. known => buffs[place].slot \in SUBSET Slots
    BY <1>3 DEF Buff
  <2> HIDE DEF place
  <2> QED BY <1>4, <2>1 DEF NewBuff, Buff
<1>6. /\ place \in Places /\ Owner(place) = owner
      /\ \A kind \in {"Added", "Updated", "Removed"} : PlaceOf(BuffEvent(kind, owner, buff)) = place
  <2>1. ASSUME NEW kind \in {"Added", "Updated", "Removed"}
        PROVE  PlaceOf(BuffEvent(kind, owner, buff)) =
                 <<owner, IF buff.slot = {} THEN <<"spell", buff.spell>>
                          ELSE <<"slot", CHOOSE n \in buff.slot : TRUE>>>>
    <3> HIDE DEF buff
    <3> QED BY DEF PlaceOf, BuffEvent
  <2>2. CASE slot # {}
    <3>1. (CHOOSE n \in slot : TRUE) \in Slots
      BY <1>4, <2>2
    <3>2. place = <<owner, <<"slot", CHOOSE n \in slot : TRUE>>>>
      BY <2>2
    <3>3. place \in Places /\ Owner(place) = owner
      <4>1. \A n \in Slots : /\ <<owner, <<"slot", n>>>> \in Places
                             /\ Owner(<<owner, <<"slot", n>>>>) = owner
        BY <1>1 DEF Places, Keys, Owner
      <4> HIDE DEF place
      <4> QED BY <3>1, <3>2, <4>1
    <3>4. buff.slot = slot
      BY <1>5, <2>2
    <3> HIDE DEF place, buff
    <3> QED BY <2>1, <2>2, <3>2, <3>3, <3>4
  <2>3. CASE slot = {} /\ shown # {}
    <3>1. shown \in SUBSET DOMAIN buffs /\ shown \in SUBSET Places
      BY <1>3 DEF Showing
    <3>2. place \in shown
      BY <2>3, <3>1, FirstIsOne
    <3>3. known /\ Owner(place) = owner /\ buffs[place].spell = spell
      BY <3>2 DEF Showing
    <3>4. buff.slot = buffs[place].slot /\ buff.spell = buffs[place].spell
      BY <1>5, <2>3, <3>3
    <3>5. ASSUME NEW kind \in {"Added", "Updated", "Removed"}
          PROVE  PlaceOf(BuffEvent(kind, owner, buff)) = place
      <4>1. PlaceOf(BuffEvent(kind, owner, buffs[place])) = place
        BY <1>1, <3>3 DEF InPlace
      <4>2. PlaceOf(BuffEvent(kind, owner, buffs[place])) =
              <<owner, IF buffs[place].slot = {} THEN <<"spell", buffs[place].spell>>
                       ELSE <<"slot", CHOOSE n \in buffs[place].slot : TRUE>>>>
        <5> HIDE DEF place
        <5> QED BY DEF PlaceOf, BuffEvent
      <4> HIDE DEF place, buff
      <4> QED BY <2>1, <3>4, <4>1, <4>2
    <3> HIDE DEF place, buff
    <3> QED BY <1>3, <3>1, <3>2, <3>3, <3>5
  <2>4. CASE slot = {} /\ shown = {}
    <3>1. place = <<owner, <<"spell", spell>>>>
      BY <2>4
    <3>2. place \in Places /\ Owner(place) = owner
      BY <1>1, <3>1 DEF Places, Keys, Owner
    <3> HIDE DEF place
    <3>3. ~known
      <4> SUFFICES ASSUME known PROVE FALSE
        OBVIOUS
      <4>1. PlaceOf(BuffEvent("Added", owner, buffs[place])) = place
        BY <1>1, <3>2 DEF InPlace
      <4>2. PlaceOf(BuffEvent("Added", owner, buffs[place])) =
              <<owner, IF buffs[place].slot = {} THEN <<"spell", buffs[place].spell>>
                       ELSE <<"slot", CHOOSE n \in buffs[place].slot : TRUE>>>>
        BY DEF PlaceOf, BuffEvent
      <4>3. buffs[place].slot = {} /\ buffs[place].spell = spell
        BY <3>1, <4>1, <4>2
      <4>4. place \in shown
        BY <3>2, <4>3 DEF Showing
      <4> QED BY <2>4, <4>4
    <3>4. buff.slot = {} /\ buff.spell = spell
      BY <1>5, <2>4, <3>3
    <3> HIDE DEF buff
    <3> QED BY <2>1, <3>1, <3>2, <3>4
  <2> QED BY <2>2, <2>3, <2>4
<1> HIDE DEF place, buff
<1>7. At(place, buff) \in Tables(Places, Buff)
  BY <1>5, <1>6, OneEntry
<1>8. buffs' \in Tables(Places, Buff)
  BY <1>1, <1>2, <1>7, Overridden
<1>9. /\ DOMAIN buffs' = DOMAIN buffs \cup {place}
      /\ \A p \in DOMAIN buffs' : buffs'[p] = IF p = place THEN buff ELSE buffs[p]
  BY <1>2 DEF Override, At
<1>10. host' \in HostType /\ host'.casts = host.casts /\ host'.buffs = buffs'
  <2>1. ASSUME NEW kind \in {"Added", "Updated"}, events = <<BuffEvent(kind, owner, buff)>>
        PROVE  host' \in HostType /\ host'.casts = host.casts /\ host'.buffs = buffs'
    <3> DEFINE e == BuffEvent(kind, owner, buff)
    <3>1. /\ e \in BuffRow /\ e \in Event /\ e.kind = kind
          /\ e.buff = buff /\ PlaceOf(e) = place
      BY <1>1, <1>5, <1>6 DEF BuffEvent, BuffRow, Event
    <3> HIDE DEF e
    <3>2. host' = HostApply(host, e)
      BY <1>1, <1>2, <2>1, <3>1, AfterOne DEF e
    <3>3. /\ host' \in HostType /\ host'.casts = host.casts
          /\ host'.buffs = Override(host.buffs, At(PlaceOf(e), e.buff))
      BY <1>1, <3>1, <3>2, AppliedBuff
    <3> QED BY <1>1, <1>2, <3>1, <3>3
  <2>2. CASE ~known
    BY <2>1, <2>2
  <2>3. CASE known /\ buffs[place] # buff
    BY <2>1, <2>3
  <2>4. CASE known /\ buffs[place] = buff
    <3>1. host' = host
      BY <1>1, <1>2, <2>4, AfterNone
    <3>2. buffs' = buffs
      <4>1. DOMAIN buffs' = DOMAIN buffs /\ \A p \in DOMAIN buffs : buffs'[p] = buffs[p]
        BY <1>9, <2>4
      <4> QED BY <1>1, <1>8, <4>1, SameTable
    <3> QED BY <1>1, <3>1, <3>2
  <2> QED BY <2>2, <2>3, <2>4
<1>11. IsFiniteSet(DOMAIN buffs')
  <2>1. IsFiniteSet({place})
    BY FS_Singleton
  <2>2. IsFiniteSet(DOMAIN buffs \cup {place})
    BY <1>1, <2>1, FS_Union
  <2> QED BY <1>9, <2>2
<1>12. InPlace(buffs')
  BY <1>1, <1>6, <1>9 DEF InPlace
<1>13. told' \in [Ids0 -> SUBSET Spells]
  BY <1>1, <1>2
<1> QED BY <1>2, <1>8, <1>10, <1>11, <1>12, <1>13, BuffsCombat

LEMMA ResetCombat ==
  ASSUME CombatInv, Reset
  PROVE  CombatInv'
<1> DEFINE interrupted == SetToSeq({Interrupted(c) : c \in DOMAIN casts})
           removed == BuffEvents("Removed", DOMAIN buffs, buffs)
           h == HostAfter(host, interrupted)
<1>1. /\ host \in HostType /\ host.buffs = buffs
      /\ casts \in Tables(Ids0, Cast) /\ IsFiniteSet(DOMAIN casts)
      /\ buffs \in Tables(Places, Buff) /\ IsFiniteSet(DOMAIN buffs) /\ InPlace(buffs)
  BY DEF CombatInv, TypeOK, HostFollowsBuffs
<1>2. /\ casts' = <<>> /\ buffs' = <<>>
      /\ host' = HostAfter(host, interrupted \o removed)
      /\ player' = [id |-> 0, aliases |-> {}]
      /\ told' = [o \in Ids0 |-> {}]
      /\ backend' = backend
  BY DEF Reset, Publish
<1>3. DOMAIN casts \in SUBSET Ids0
  BY <1>1, Table
<1>4. /\ interrupted \in Seq(Event)
      /\ h \in HostType /\ h.buffs = host.buffs /\ h.casts = Without(host.casts, DOMAIN casts)
  BY <1>1, <1>3, InterruptionsOf
<1>5. removed \in Seq(Event)
  BY <1>1, RowsOf
<1> HIDE DEF interrupted, h
<1>6. host' = HostAfter(h, removed)
  <2> HIDE DEF removed
  <2> QED BY <1>1, <1>2, <1>4, <1>5, AfterBoth DEF h
<1>7. host' \in HostType /\ host'.casts = h.casts /\ host'.buffs = Without(buffs, DOMAIN buffs)
  BY <1>1, <1>4, <1>6, AfterRemoving
<1>8. /\ <<>> \in Tables(Ids0, Cast) /\ <<>> \in Tables(Places, Buff) /\ DOMAIN <<>> = {}
  BY EmptyTable
<1>9. host'.buffs = buffs'
  <2>1. host'.buffs \in Tables(Places, Buff)
    BY <1>7 DEF HostType
  <2>2. DOMAIN host'.buffs = {}
    BY <1>7 DEF Without
  <2> QED BY <1>2, <1>8, <2>1, <2>2, SameTable
<1>10. DOMAIN host'.casts = DOMAIN host.casts \ DOMAIN casts
  BY <1>4, <1>7 DEF Without
<1>11. HostFollowsCasts'
  BY <1>2, <1>8, <1>10 DEF CombatInv, HostFollowsCasts
<1>12. TypeOK'
  <2>1. player' \in [id : Ids0, aliases : SUBSET Ids] /\ told' \in [Ids0 -> SUBSET Spells]
    BY <1>2 DEF Ids0
  <2> QED BY <1>2, <1>7, <1>8, <2>1 DEF CombatInv, TypeOK
<1> QED BY <1>2, <1>8, <1>9, <1>11, <1>12, FS_EmptySet
        DEF CombatInv, HostFollowsBuffs, InPlace

LEMMA NextCombat == CombatInv /\ [Next]_vars => CombatInv'
<1> SUFFICES ASSUME CombatInv, [Next]_vars PROVE CombatInv'
  OBVIOUS
<1>1. casts \in Tables(Ids0, Cast) /\ casts \in [DOMAIN casts -> Cast]
  BY Table DEF CombatInv, TypeOK
<1>2. \A c \in DOMAIN casts : casts[c].aim \in SUBSET Aim
  BY <1>1 DEF Cast
<1>3. ASSUME NEW spell \in Spells, NEW target \in Ids0, SpellCastRequest(spell, target)
      PROVE  CombatInv'
  <2> DEFINE aim == IF target = 0 THEN {}
                    ELSE {[target |-> target, by |-> player.id, spell |-> spell]}
  <2>1. aim \in SUBSET Aim /\ player.id \in Ids0
    BY Ids0Type DEF Aim, Ids0
  <2>2. StartCast(casts, player.id, spell, aim)
    BY <1>3 DEF SpellCastRequest
  <2> HIDE DEF aim
  <2> QED BY <2>1, <2>2, StartedCombat
<1>4. ASSUME NEW caster \in Ids0, NEW spell \in Spells, SpawnCast(caster, spell)
      PROVE  CombatInv'
  <2> DEFINE steals == caster # 0 /\ caster \notin DOMAIN casts /\ Pending(0, spell)
             before == IF steals THEN Without(casts, {0}) ELSE casts
             aim == IF steals THEN casts[0].aim
                    ELSE IF Pending(caster, spell) THEN casts[caster].aim ELSE {}
  <2>1. aim \in SUBSET Aim
    BY <1>2 DEF Pending
  <2>2. StartCast(before, caster, spell, aim)
    BY <1>4 DEF SpawnCast
  <2>3. before = casts \/ before = Without(casts, {0})
    OBVIOUS
  <2> HIDE DEF before, aim
  <2> QED BY <2>1, <2>2, <2>3, StartedCombat
<1>5. ASSUME NEW wire \in Ids0, NEW spell \in Spells, NEW fromClient \in BOOLEAN,
             Act(wire, spell, fromClient)
      PROVE  CombatInv'
  BY <1>5, ActedCombat
<1>6. CASE Interrupt
  BY <1>6, InterruptedCombat
<1>7. ASSUME NEW wire \in Ids0, NEW list \in BuffLists, BuffList(wire, list)
      PROVE  CombatInv'
  BY <1>7, BuffListCombat
<1>8. ASSUME NEW wire \in Ids0, NEW spell \in Spells, BuffFade(wire, spell)
      PROVE  CombatInv'
  BY <1>8, BuffFadeCombat
<1>9. ASSUME NEW wire \in Ids0, NEW spell \in Spells, NEW slot \in {{}} \cup {{n} : n \in Slots},
             NEW ticks \in {{}} \cup {{t} : t \in Ticks}, BuffWire(wire, spell, slot, ticks)
      PROVE  CombatInv'
  BY <1>9, BuffWireCombat
<1>10. ASSUME NEW id \in Ids0, NEW aliases \in SUBSET Ids, Identify(id, aliases)
       PROVE  CombatInv'
  BY <1>10 DEF Identify, CombatInv, TypeOK, InPlace, HostFollowsBuffs, HostFollowsCasts
<1>11. CASE Reset
  BY <1>11, ResetCombat
<1>12. CASE UNCHANGED vars
  BY <1>12 DEF vars, CombatInv, TypeOK, InPlace, HostFollowsBuffs, HostFollowsCasts
<1> QED BY <1>3, <1>4, <1>5, <1>6, <1>7, <1>8, <1>9, <1>10, <1>11, <1>12 DEF Next

(* Whatever packets come, in whatever order, and whoever the player turns  *)
(* out to be: a host that applies the published events in order has the    *)
(* session's buffs, each where the session has it.                         *)
THEOREM HostHasTheBuffs == Spec => []HostFollowsBuffs
<1>1. CombatInv => HostFollowsBuffs
  BY DEF CombatInv
<1> QED BY <1>1, InitCombat, NextCombat, PTL DEF Spec

(* ... and the casts of every known caster, however they end.              *)
THEOREM HostHasTheCasts == Spec => []HostFollowsCasts
<1>1. CombatInv => HostFollowsCasts
  BY DEF CombatInv
<1> QED BY <1>1, InitCombat, NextCombat, PTL DEF Spec

-----------------------------------------------------------------------------
(* Targets                                                                 *)

(* What StartCast leaves aimed: what is given, or what was aimed before.   *)
LEMMA StartedTargets ==
  ASSUME TypeOK, TargetsAreTheAskers, NEW before, NEW caster \in Ids0, NEW spell \in Spells,
         NEW aim \in SUBSET Aim, before = casts \/ before = Without(casts, {0}),
         \A a \in aim : a.spell = spell /\ a.by \in {caster, 0},
         StartCast(before, caster, spell, aim)
  PROVE  TargetsAreTheAskers'
<1> DEFINE same == caster \in DOMAIN before /\ before[caster].spell = spell
           kept == IF same THEN Or(aim, before[caster].aim) ELSE aim
           cast == [spell |-> spell, aim |-> kept]
<1>1. casts' = Override(before, At(caster, cast))
  BY DEF StartCast
<1>2. \A c \in DOMAIN before : c \in DOMAIN casts /\ before[c] = casts[c]
  BY DEF Without
<1>3. cast.aim = kept /\ cast.spell = spell
  OBVIOUS
<1>4. \A a \in kept : a.spell = spell /\ a.by \in {caster, 0}
  BY <1>2 DEF Or, TargetsAreTheAskers
<1> HIDE DEF cast, kept
<1>5. \A c \in DOMAIN casts' : \/ c = caster /\ casts'[c] = cast
                               \/ c \in DOMAIN casts /\ casts'[c] = casts[c]
  BY <1>1, <1>2 DEF Override, At
<1> SUFFICES ASSUME NEW c \in DOMAIN casts', NEW a \in casts'[c].aim
             PROVE  a.spell = casts'[c].spell /\ a.by \in {c, 0}
  BY DEF TargetsAreTheAskers
<1>6. CASE c = caster /\ casts'[c] = cast
  BY <1>3, <1>4, <1>6
<1>7. CASE c \in DOMAIN casts /\ casts'[c] = casts[c]
  BY <1>7 DEF TargetsAreTheAskers
<1> QED BY <1>5, <1>6, <1>7

LEMMA FewerTargets ==
  ASSUME TargetsAreTheAskers, NEW S, casts' = Without(casts, S)
  PROVE  TargetsAreTheAskers'
  BY DEF TargetsAreTheAskers, Without

LEMMA NextTargets == CombatInv /\ TargetsAreTheAskers /\ [Next]_vars => TargetsAreTheAskers'
<1> SUFFICES ASSUME CombatInv, TargetsAreTheAskers, [Next]_vars PROVE TargetsAreTheAskers'
  OBVIOUS
<1>1. TypeOK /\ casts \in [DOMAIN casts -> Cast] /\ player.id \in Ids0
  BY Table, Ids0Type DEF CombatInv, TypeOK
<1>2. \A c \in DOMAIN casts : casts[c].aim \in SUBSET Aim
  BY <1>1 DEF Cast
<1>3. ASSUME NEW spell \in Spells, NEW target \in Ids0, SpellCastRequest(spell, target)
      PROVE  TargetsAreTheAskers'
  <2> DEFINE aim == IF target = 0 THEN {}
                    ELSE {[target |-> target, by |-> player.id, spell |-> spell]}
  <2>1. aim \in SUBSET Aim /\ \A a \in aim : a.spell = spell /\ a.by \in {player.id, 0}
    BY <1>1 DEF Aim, Ids0
  <2>2. StartCast(casts, player.id, spell, aim)
    BY <1>3 DEF SpellCastRequest
  <2> HIDE DEF aim
  <2> QED BY <1>1, <2>1, <2>2, StartedTargets
<1>4. ASSUME NEW caster \in Ids0, NEW spell \in Spells, SpawnCast(caster, spell)
      PROVE  TargetsAreTheAskers'
  <2> DEFINE steals == caster # 0 /\ caster \notin DOMAIN casts /\ Pending(0, spell)
             before == IF steals THEN Without(casts, {0}) ELSE casts
             aim == IF steals THEN casts[0].aim
                    ELSE IF Pending(caster, spell) THEN casts[caster].aim ELSE {}
  <2>1. aim \in SUBSET Aim
    BY <1>2 DEF Pending
  <2>2. \A a \in aim : a.spell = spell /\ a.by \in {caster, 0}
    BY DEF Pending, TargetsAreTheAskers
  <2>3. StartCast(before, caster, spell, aim)
    BY <1>4 DEF SpawnCast
  <2>4. before = casts \/ before = Without(casts, {0})
    OBVIOUS
  <2> HIDE DEF before, aim
  <2> QED BY <1>1, <2>1, <2>2, <2>3, <2>4, StartedTargets
<1>5. ASSUME NEW wire \in Ids0, NEW spell \in Spells, NEW fromClient \in BOOLEAN,
             Act(wire, spell, fromClient)
      PROVE  TargetsAreTheAskers'
  BY <1>5, FewerTargets DEF Act
<1>6. CASE Interrupt
  BY <1>6, FewerTargets DEF Interrupt
<1>7. ASSUME casts' = casts PROVE TargetsAreTheAskers'
  BY <1>7 DEF TargetsAreTheAskers
<1>8. CASE Reset
  <2>1. casts' = <<>> /\ DOMAIN <<>> = {}
    BY <1>8, EmptyTable DEF Reset
  <2> QED BY <2>1 DEF TargetsAreTheAskers
<1>9. ASSUME NEW wire, NEW list, BuffList(wire, list) PROVE casts' = casts
  BY <1>9 DEF BuffList
<1>10. ASSUME NEW wire, NEW spell, BuffFade(wire, spell) PROVE casts' = casts
  BY <1>10 DEF BuffFade
<1>11. ASSUME NEW wire, NEW spell, NEW slot, NEW ticks, BuffWire(wire, spell, slot, ticks)
       PROVE  casts' = casts
  BY <1>11 DEF BuffWire
<1>12. ASSUME NEW id, NEW aliases, Identify(id, aliases) PROVE casts' = casts
  BY <1>12 DEF Identify
<1>13. CASE UNCHANGED vars
  BY <1>7, <1>13 DEF vars
<1> QED BY <1>3, <1>4, <1>5, <1>6, <1>7, <1>8, <1>9, <1>10, <1>11, <1>12, <1>13 DEF Next

(* However requests and broadcasts of several casters interleave with the  *)
(* identification of the player, a cast is aimed at what its own caster's  *)
(* request of that spell named, or one made while the player was unknown.  *)
THEOREM AimedAtOwnTargets == Spec => []TargetsAreTheAskers
<1>1. Init => TargetsAreTheAskers
  <2>1. Init => casts = <<>>
    BY DEF Init
  <2>2. DOMAIN <<>> = {}
    BY EmptyTable
  <2> QED BY <2>1, <2>2 DEF TargetsAreTheAskers
<1> QED BY <1>1, InitCombat, NextCombat, NextTargets, PTL DEF Spec

-----------------------------------------------------------------------------
(* Faded effects                                                           *)

LEMMA NextFaded == CombatInv /\ FadedIsGone /\ [Next]_vars => FadedIsGone'
<1> SUFFICES ASSUME CombatInv, FadedIsGone, [Next]_vars PROVE FadedIsGone'
  OBVIOUS
<1>1. /\ told \in [Ids0 -> SUBSET Spells]
      /\ \A p \in DOMAIN buffs : Owner(p) \in Ids0
      /\ \A wire \in Ids0 : BuffOwner(wire) \in Ids0
  <2>1. DOMAIN buffs \subseteq Places
    BY Table DEF CombatInv, TypeOK
  <2> QED BY <2>1, Ids0Type DEF CombatInv, TypeOK, Places, Owner
<1>2. ASSUME NEW wire \in Ids0, NEW list \in BuffLists, BuffList(wire, list)
      PROVE  FadedIsGone'
  <2> DEFINE owner == BuffOwner(wire)
             incoming == Incoming(owner, list)
  <2>1. owner \in Ids0 /\ \A p \in DOMAIN incoming : Owner(p) = owner
    BY <1>1, IncomingFacts
  <2> HIDE DEF owner
  <2>2. /\ buffs' = Override(Without(buffs, Leaving(owner, incoming)), incoming)
        /\ told' = [told EXCEPT ![owner] = {incoming[p].spell : p \in DOMAIN incoming}]
    BY <1>2 DEF BuffList, owner
  <2> HIDE DEF incoming
  <2>3. told'[owner] = {incoming[p].spell : p \in DOMAIN incoming}
        /\ \A o \in Ids0 : o # owner => told'[o] = told[o]
    BY <1>1, <2>1, <2>2
  <2>4. /\ DOMAIN buffs' = (DOMAIN buffs \ Leaving(owner, incoming)) \cup DOMAIN incoming
        /\ \A p \in DOMAIN buffs' :
             buffs'[p] = IF p \in DOMAIN incoming THEN incoming[p] ELSE buffs[p]
    BY <2>2 DEF Override, Without
  <2> SUFFICES ASSUME NEW p \in DOMAIN buffs' PROVE buffs'[p].spell \in told'[Owner(p)]
    BY DEF FadedIsGone
  <2>5. CASE p \in DOMAIN incoming
    BY <2>1, <2>3, <2>4, <2>5
  <2>6. CASE p \notin DOMAIN incoming
    <3>1. p \in DOMAIN buffs /\ p \notin Leaving(owner, incoming) /\ buffs'[p] = buffs[p]
      BY <2>4, <2>6
    <3>2. Owner(p) # owner
      BY <2>6, <3>1 DEF Leaving
    <3> QED BY <1>1, <2>3, <3>1, <3>2 DEF FadedIsGone
  <2> QED BY <2>5, <2>6
<1>3. ASSUME NEW wire \in Ids0, NEW spell \in Spells, BuffFade(wire, spell)
      PROVE  FadedIsGone'
  <2> DEFINE owner == BuffOwner(wire)
  <2>1. owner \in Ids0
    BY <1>1
  <2> HIDE DEF owner
  <2>2. /\ buffs' = Without(buffs, Fading(owner, spell))
        /\ told' = [told EXCEPT ![owner] = @ \ {spell}]
    BY <1>3 DEF BuffFade, owner
  <2>3. told'[owner] = told[owner] \ {spell} /\ \A o \in Ids0 : o # owner => told'[o] = told[o]
    BY <1>1, <2>1, <2>2
  <2> SUFFICES ASSUME NEW p \in DOMAIN buffs' PROVE buffs'[p].spell \in told'[Owner(p)]
    BY DEF FadedIsGone
  <2>4. p \in DOMAIN buffs /\ p \notin Fading(owner, spell) /\ buffs'[p] = buffs[p]
    BY <2>2 DEF Without
  <2>5. Owner(p) = owner => buffs[p].spell # spell
    BY <2>4 DEF Fading, Showing
  <2> QED BY <1>1, <2>3, <2>4, <2>5 DEF FadedIsGone
<1>4. ASSUME NEW wire \in Ids0, NEW spell \in Spells, NEW slot \in {{}} \cup {{n} : n \in Slots},
             NEW ticks \in {{}} \cup {{t} : t \in Ticks}, BuffWire(wire, spell, slot, ticks)
      PROVE  FadedIsGone'
  <2> DEFINE owner == BuffOwner(wire)
             shown == Showing(owner, spell)
             place == IF slot # {} THEN <<owner, <<"slot", CHOOSE n \in slot : TRUE>>>>
                      ELSE IF shown # {} THEN FirstPlace(shown)
                      ELSE <<owner, <<"spell", spell>>>>
             buff == NewBuff(place, spell, slot, ticks)
  <2>1. owner \in Ids0
    BY <1>1
  <2>2. /\ buffs' = Override(buffs, At(place, buff))
        /\ told' = [told EXCEPT ![owner] = @ \cup {spell}]
    BY <1>4 DEF BuffWire
  <2> HIDE DEF owner
  <2>3. Owner(place) = owner
    <3>1. CASE slot # {}
      <4>1. \A n : Owner(<<owner, <<"slot", n>>>>) = owner
        BY DEF Owner
      <4> QED BY <3>1, <4>1
    <3>2. CASE slot = {} /\ shown # {}
      <4>1. shown \in SUBSET Places
        BY Table DEF CombatInv, TypeOK, Showing
      <4>2. place \in shown
        BY <3>2, <4>1, FirstIsOne
      <4> HIDE DEF place
      <4> QED BY <4>2 DEF Showing
    <3>3. CASE slot = {} /\ shown = {}
      BY <3>3 DEF Owner
    <3> QED BY <3>1, <3>2, <3>3
  <2>4. buff.spell = spell
    BY DEF NewBuff
  <2> HIDE DEF place, buff
  <2>5. told'[owner] = told[owner] \cup {spell} /\ \A o \in Ids0 : o # owner => told'[o] = told[o]
    BY <1>1, <2>1, <2>2
  <2> SUFFICES ASSUME NEW p \in DOMAIN buffs' PROVE buffs'[p].spell \in told'[Owner(p)]
    BY DEF FadedIsGone
  <2>6. \/ p = place /\ buffs'[p] = buff
        \/ p \in DOMAIN buffs /\ buffs'[p] = buffs[p]
    <3>1. CASE p = place
      BY <2>2, <3>1 DEF Override, At
    <3>2. CASE p # place
      BY <2>2, <3>2 DEF Override, At
    <3> QED BY <3>1, <3>2
  <2> QED BY <1>1, <2>3, <2>4, <2>5, <2>6 DEF FadedIsGone
<1>5. ASSUME UNCHANGED <<buffs, told>> PROVE FadedIsGone'
  BY <1>5 DEF FadedIsGone
<1>6. CASE Reset
  <2>1. buffs' = <<>> /\ DOMAIN <<>> = {}
    BY <1>6, EmptyTable DEF Reset
  <2> QED BY <2>1 DEF FadedIsGone
<1> QED BY <1>2, <1>3, <1>4, <1>5, <1>6
        DEF Next, SpellCastRequest, SpawnCast, StartCast, Act, Interrupt, Identify, vars

(* No effect is shown that has faded, though it was told with its slot and *)
(* without.                                                                *)
THEOREM FadedEffectsGo == Spec => []FadedIsGone
<1>1. Init => FadedIsGone
  <2>1. Init => buffs = <<>>
    BY DEF Init
  <2>2. DOMAIN <<>> = {}
    BY EmptyTable
  <2> QED BY <2>1, <2>2 DEF FadedIsGone
<1> QED BY <1>1, InitCombat, NextCombat, NextFaded, PTL DEF Spec
=============================================================================
