---------------------------- MODULE BridgeProofs ----------------------------
(***************************************************************************)
(* Proofs about the bridge, for every sequence of events, any loot that    *)
(* waits, any number of open casts, buffs and effects, and any number of   *)
(* reloads: a host reads what the session emitted, rows and events of a    *)
(* batch tell the same acquisitions, a reset is announced after what it    *)
(* closes and before its cause, a batch names a generation of its call,    *)
(* and the opcode-specific functions agree with the session.               *)
(*                                                                         *)
(* The loops of the code are recursive functions in the model.  Step puts  *)
(* what one round of each makes of a state under one name, so that         *)
(* RunExists, which says that there is such a function, is proved once.    *)
(***************************************************************************)
EXTENDS Bridge, FiniteSetTheorems, SequenceTheorems, WellFoundedInduction, TLAPS

-----------------------------------------------------------------------------
(* Induction and recursion                                                 *)

(* A set with zero, and with the successor of each number in it, has them  *)
(* all: a least number missing would have a predecessor.                   *)
LEMMA Induction ==
  ASSUME NEW S, 0 \in S, \A n \in Nat : n \in S => n + 1 \in S
  PROVE  Nat \subseteq S
<1> DEFINE Less == {p \in Nat \X Nat : p[1] < p[2]}
           Missing == Nat \ S
<1>1. IsWellFoundedOn(Less, Nat)
  BY NatLessThanWellFounded DEF OpToRel
<1>2. SUFFICES ASSUME Missing # {} PROVE FALSE
  OBVIOUS
<1>3. PICK n \in Missing : \A m \in Missing : ~(<<m, n>> \in Less)
  <2> HIDE DEF Less
  <2> QED BY <1>1, <1>2, WFMin
<1>4. n \in Nat /\ n # 0 /\ n - 1 \in Nat /\ (n - 1) + 1 = n
  OBVIOUS
<1>5. <<n - 1, n>> \in Less
  BY <1>4
<1>6. n - 1 \in S
  <2> HIDE DEF Less
  <2> QED BY <1>3, <1>4, <1>5
<1> QED BY <1>3, <1>4, <1>6

(* One round of each loop, over the entries a of a sequence.               *)
Step(loop, a, n, x) ==
  CASE loop = "translate" -> PushRow(x, a[n])
    [] loop = "join"      -> Then(x, a[n])
    [] loop = "names"     -> IF n \in a.places THEN Append(x, a.entries[n].id) ELSE x
    [] loop = "tell"      -> Tell(x, a[n])
    [] OTHER              -> Observe(a.ctx, x, a.kinds[n])

IsRun(f, loop, a, x, L) ==
  f = [n \in 0 .. L |-> IF n = 0 THEN x ELSE Step(loop, a, n, f[n - 1])]

LEMMA RunExists ==
  ASSUME NEW loop, NEW a, NEW x, NEW L \in Nat
  PROVE  \E f : IsRun(f, loop, a, x, L)
<1> DEFINE S == {n \in Nat : \E f : IsRun(f, loop, a, x, n)}
<1>1. 0 \in S
  <2> DEFINE f == [n \in 0 .. 0 |-> x]
  <2>1. f = [n \in 0 .. 0 |-> IF n = 0 THEN x ELSE Step(loop, a, n, f[n - 1])]
    OBVIOUS
  <2> QED BY <2>1 DEF IsRun
<1>2. ASSUME NEW n \in Nat, n \in S PROVE n + 1 \in S
  <2>1. PICK f : IsRun(f, loop, a, x, n)
    BY <1>2
  <2>2. /\ f[0] = x
        /\ \A k \in 1 .. n : f[k] = Step(loop, a, k, f[k - 1])
    BY <2>1 DEF IsRun
  <2> DEFINE last == Step(loop, a, n + 1, f[n])
             g == [k \in 0 .. n + 1 |-> IF k = n + 1 THEN last ELSE f[k]]
  <2>3. g[0] = x /\ \A k \in 0 .. n : g[k] = f[k]
    BY <2>2
  <2>4. g[n + 1] = last
    OBVIOUS
  <2>5. ASSUME NEW k \in 0 .. n + 1
        PROVE  g[k] = IF k = 0 THEN x ELSE Step(loop, a, k, g[k - 1])
    <3> HIDE DEF g
    <3>1. CASE k = 0
      BY <2>3, <3>1
    <3>2. CASE k = n + 1
      <4>1. k # 0 /\ k - 1 = n /\ g[k - 1] = f[n]
        BY <2>3, <3>2
      <4> QED BY <2>4, <3>2, <4>1
    <3>3. CASE k \in 1 .. n
      <4>1. k # 0 /\ g[k] = f[k] /\ g[k - 1] = f[k - 1]
        BY <2>3, <3>3
      <4> QED BY <2>2, <3>3, <4>1
    <3> QED BY <3>1, <3>2, <3>3
  <2>6. g = [k \in 0 .. n + 1 |-> IF k = 0 THEN x ELSE Step(loop, a, k, g[k - 1])]
    <3>1. g = [k \in 0 .. n + 1 |-> g[k]]
      OBVIOUS
    <3> HIDE DEF g
    <3> QED BY <2>5, <3>1
  <2> HIDE DEF g
  <2>7. IsRun(g, loop, a, x, n + 1)
    BY <2>6 DEF IsRun
  <2> QED BY <2>7
<1>3. Nat \subseteq S
  <2> HIDE DEF S
  <2> QED BY <1>1, <1>2, Induction
<1> QED BY <1>3

(* The run the code's loop is.                                             *)
LEMMA TranslateRuns ==
  ASSUME NEW g, NEW d, NEW events, Len(events) \in Nat
  PROVE  \E f : /\ f[0] = EmptyBatch(g, d)
                /\ \A n \in 1 .. Len(events) : f[n] = PushRow(f[n - 1], events[n])
                /\ TranslateEvents(g, d, events) = f[Len(events)]
<1> DEFINE L == Len(events)
           x == EmptyBatch(g, d)
           run == CHOOSE f : f = [n \in 0 .. L |->
                    IF n = 0 THEN x ELSE PushRow(f[n - 1], events[n])]
<1>1. \E f : f = [n \in 0 .. L |-> IF n = 0 THEN x ELSE PushRow(f[n - 1], events[n])]
  <2>1. \E f : IsRun(f, "translate", events, x, Len(events))
    BY RunExists
  <2> QED BY <2>1 DEF IsRun, Step
<1>2. run = [n \in 0 .. L |-> IF n = 0 THEN x ELSE PushRow(run[n - 1], events[n])]
  BY <1>1
<1>3. TranslateEvents(g, d, events) = run[L]
  BY DEF TranslateEvents
<1> HIDE DEF run
<1>4. run[0] = x /\ \A n \in 1 .. L : run[n] = PushRow(run[n - 1], events[n])
  BY <1>2
<1> QED BY <1>3, <1>4

LEMMA JoinRuns ==
  ASSUME NEW choices, Len(choices) \in Nat
  PROVE  \E f : /\ f[0] = {<< >>}
                /\ \A n \in 1 .. Len(choices) : f[n] = Then(f[n - 1], choices[n])
                /\ Joined(choices) = f[Len(choices)]
<1> DEFINE L == Len(choices)
           run == CHOOSE f : f = [n \in 0 .. L |->
                    IF n = 0 THEN {<< >>} ELSE Then(f[n - 1], choices[n])]
<1>1. \E f : f = [n \in 0 .. L |-> IF n = 0 THEN {<< >>} ELSE Then(f[n - 1], choices[n])]
  <2>1. \E f : IsRun(f, "join", choices, {<< >>}, Len(choices))
    BY RunExists
  <2> QED BY <2>1 DEF IsRun, Step
<1>2. run = [n \in 0 .. L |-> IF n = 0 THEN {<< >>} ELSE Then(run[n - 1], choices[n])]
  BY <1>1
<1>3. Joined(choices) = run[L]
  BY DEF Joined
<1> HIDE DEF run
<1>4. \A n \in 0 .. L : run[n] = IF n = 0 THEN {<< >>} ELSE Then(run[n - 1], choices[n])
  BY <1>2, Zenon
<1>5. run[0] = {<< >>} /\ \A n \in 1 .. L : run[n] = Then(run[n - 1], choices[n])
  BY <1>4
<1> QED BY <1>3, <1>5

LEMMA NameRuns ==
  ASSUME NEW entries, NEW places, Len(entries) \in Nat
  PROVE  \E f : /\ f[0] = << >>
                /\ \A n \in 1 .. Len(entries) :
                     f[n] = IF n \in places THEN Append(f[n - 1], entries[n].id)
                            ELSE f[n - 1]
                /\ NamesAt(entries, places) = f[Len(entries)]
<1> DEFINE L == Len(entries)
           Is(f) == f = [n \in 0 .. L |->
                      IF n = 0 THEN << >>
                      ELSE IF n \in places THEN Append(f[n - 1], entries[n].id)
                      ELSE f[n - 1]]
           run == CHOOSE f : Is(f)
<1>1. \E f : Is(f)
  <2> DEFINE a == [entries |-> entries, places |-> places]
  <2>1. \E f : IsRun(f, "names", a, << >>, Len(entries))
    BY RunExists
  <2>2. a.entries = entries /\ a.places = places
    OBVIOUS
  <2> HIDE DEF a
  <2> QED BY <2>1, <2>2 DEF IsRun, Step
<1>2. Is(run)
  BY <1>1
<1>3. NamesAt(entries, places) = run[L]
  BY DEF NamesAt
<1> HIDE DEF run
<1>4. \A n \in 0 .. L : run[n] = IF n = 0 THEN << >>
                                  ELSE IF n \in places
                                  THEN Append(run[n - 1], entries[n].id)
                                  ELSE run[n - 1]
  BY <1>2, Zenon
<1>5. /\ run[0] = << >>
      /\ \A n \in 1 .. L : run[n] = IF n \in places THEN Append(run[n - 1], entries[n].id)
                                    ELSE run[n - 1]
  BY <1>4
<1> QED BY <1>3, <1>5

LEMMA TellRuns ==
  ASSUME NEW s, NEW kinds, Len(kinds) \in Nat
  PROVE  \E f : /\ f[0] = s
                /\ \A n \in 1 .. Len(kinds) : f[n] = Tell(f[n - 1], kinds[n])
                /\ TellAll(s, kinds) = f[Len(kinds)]
<1> DEFINE L == Len(kinds)
           run == CHOOSE f : f = [n \in 0 .. L |->
                    IF n = 0 THEN s ELSE Tell(f[n - 1], kinds[n])]
<1>1. \E f : f = [n \in 0 .. L |-> IF n = 0 THEN s ELSE Tell(f[n - 1], kinds[n])]
  <2>1. \E f : IsRun(f, "tell", kinds, s, Len(kinds))
    BY RunExists
  <2> QED BY <2>1 DEF IsRun, Step
<1>2. run = [n \in 0 .. L |-> IF n = 0 THEN s ELSE Tell(run[n - 1], kinds[n])]
  BY <1>1
<1>3. TellAll(s, kinds) = run[L]
  BY DEF TellAll
<1> HIDE DEF run
<1>4. run[0] = s /\ \A n \in 1 .. L : run[n] = Tell(run[n - 1], kinds[n])
  BY <1>2
<1> QED BY <1>3, <1>4

LEMMA ObserveRuns ==
  ASSUME NEW ctx, NEW states, NEW kinds, Len(kinds) \in Nat
  PROVE  \E f : /\ f[0] = states
                /\ \A n \in 1 .. Len(kinds) :
                     f[n] = Observe(ctx, f[n - 1], kinds[n])
                /\ ObserveAll(ctx, states, kinds) = f[Len(kinds)]
<1> DEFINE L == Len(kinds)
           Is(f) == f = [n \in 0 .. L |->
                      IF n = 0 THEN states
                      ELSE Observe(ctx, f[n - 1], kinds[n])]
           run == CHOOSE f : Is(f)
<1>1. \E f : Is(f)
  <2> DEFINE a == [ctx |-> ctx, kinds |-> kinds]
  <2>1. \E f : IsRun(f, "observe", a, states, Len(kinds))
    BY RunExists
  <2>2. a.ctx = ctx /\ a.kinds = kinds
    OBVIOUS
  <2> HIDE DEF a
  <2> QED BY <2>1, <2>2 DEF IsRun, Step
<1>2. Is(run)
  BY <1>1
<1>3. ObserveAll(ctx, states, kinds) = run[L]
  BY DEF ObserveAll
<1> HIDE DEF run
<1>4. \A n \in 0 .. L :
        run[n] = IF n = 0 THEN states
                 ELSE Observe(ctx, run[n - 1], kinds[n])
  BY <1>2, Zenon
<1>5. /\ 0 \in 0 .. L
      /\ \A n \in 1 .. L : n \in 0 .. L /\ n # 0
  OBVIOUS
<1>6. /\ run[0] = states
      /\ \A n \in 1 .. L : run[n] = Observe(ctx, run[n - 1], kinds[n])
  BY <1>4, <1>5, Zenon
<1> QED BY <1>3, <1>6

-----------------------------------------------------------------------------
(* Sequences                                                               *)

IsSeq(q) == \E S : q \in Seq(S)

LEMMA SeqMade ==
  ASSUME NEW n \in Nat, NEW q, q = [i \in 1 .. n |-> q[i]]
  PROVE  IsSeq(q) /\ Len(q) = n /\ DOMAIN q = 1 .. n
<1>1. q \in [1 .. n -> {q[i] : i \in 1 .. n}]
  OBVIOUS
<1>2. q \in Seq({q[i] : i \in 1 .. n})
  BY <1>1
<1>3. Len(q) = n
  BY <1>1, <1>2
<1> QED BY <1>1, <1>2, <1>3 DEF IsSeq

LEMMA EmptyIsSeq == IsSeq(<< >>) /\ Len(<< >>) = 0 /\ DOMAIN << >> = {}
<1>1. << >> \in Seq({})
  OBVIOUS
<1> QED BY <1>1 DEF IsSeq

LEMMA SeqLen ==
  ASSUME NEW q, IsSeq(q)
  PROVE  /\ Len(q) \in Nat
         /\ DOMAIN q = 1 .. Len(q)
         /\ q = [i \in 1 .. Len(q) |-> q[i]]
BY DEF IsSeq

LEMMA SeqAppend ==
  ASSUME NEW q, IsSeq(q), NEW e
  PROVE  /\ IsSeq(Append(q, e))
         /\ Len(Append(q, e)) = Len(q) + 1
         /\ \A i \in 1 .. Len(q) : Append(q, e)[i] = q[i]
         /\ Append(q, e)[Len(q) + 1] = e
<1>1. PICK S : q \in Seq(S)
  BY DEF IsSeq
<1> DEFINE T == S \cup {e}
<1>2. q \in Seq(T) /\ e \in T
  BY <1>1, SeqMonotonic
<1> HIDE DEF T
<1>3. Append(q, e) \in Seq(T)
  BY <1>2
<1>4. /\ Len(Append(q, e)) = Len(q) + 1
      /\ \A i \in 1 .. Len(q) : Append(q, e)[i] = q[i]
      /\ Append(q, e)[Len(q) + 1] = e
  BY <1>2, AppendProperties
<1> QED BY <1>3, <1>4 DEF IsSeq

LEMMA SeqConcat ==
  ASSUME NEW q, IsSeq(q), NEW r, IsSeq(r)
  PROVE  /\ IsSeq(q \o r)
         /\ Len(q \o r) = Len(q) + Len(r)
         /\ \A i \in 1 .. Len(q) : (q \o r)[i] = q[i]
         /\ \A i \in 1 .. Len(r) : (q \o r)[Len(q) + i] = r[i]
<1>1. PICK S, T : q \in Seq(S) /\ r \in Seq(T)
  BY DEF IsSeq
<1> DEFINE U == S \cup T
<1>2. q \in Seq(U) /\ r \in Seq(U)
  BY <1>1, SeqMonotonic
<1> HIDE DEF U
<1>3. Len(q) \in Nat /\ Len(r) \in Nat
  BY <1>2
<1>4. /\ q \o r \in Seq(U)
      /\ Len(q \o r) = Len(q) + Len(r)
      /\ \A i \in 1 .. Len(q) + Len(r) :
           (q \o r)[i] = IF i <= Len(q) THEN q[i] ELSE r[i - Len(q)]
  BY <1>2, ConcatProperties
<1>5. \A i \in 1 .. Len(q) : (q \o r)[i] = q[i]
  BY <1>3, <1>4
<1>6. ASSUME NEW i \in 1 .. Len(r) PROVE (q \o r)[Len(q) + i] = r[i]
  <2>1. /\ Len(q) + i \in 1 .. Len(q) + Len(r)
        /\ ~(Len(q) + i <= Len(q))
        /\ Len(q) + i - Len(q) = i
    BY <1>3
  <2> QED BY <1>4, <2>1
<1> QED BY <1>4, <1>5, <1>6 DEF IsSeq

(* Sequences with the same length and entries are the same.                *)
LEMMA SeqSame ==
  ASSUME NEW q, IsSeq(q), NEW r, IsSeq(r), Len(q) = Len(r),
         \A i \in 1 .. Len(q) : q[i] = r[i]
  PROVE  q = r
<1>1. /\ q = [i \in 1 .. Len(q) |-> q[i]]
      /\ r = [i \in 1 .. Len(r) |-> r[i]]
  BY SeqLen
<1>2. [i \in 1 .. Len(q) |-> q[i]] = [i \in 1 .. Len(r) |-> r[i]]
  OBVIOUS
<1> QED BY <1>1, <1>2

(* Appending to the second of two sequences.                               *)
LEMMA ConcatAppend ==
  ASSUME NEW q, IsSeq(q), NEW r, IsSeq(r), NEW e
  PROVE  Append(q \o r, e) = q \o Append(r, e)
<1> DEFINE a == Append(q \o r, e)
           b == q \o Append(r, e)
<1>0. Len(q) \in Nat /\ Len(r) \in Nat
  BY SeqLen
<1>c. /\ IsSeq(q \o r) /\ Len(q \o r) = Len(q) + Len(r)
      /\ \A i \in 1 .. Len(q) : (q \o r)[i] = q[i]
      /\ \A i \in 1 .. Len(r) : (q \o r)[Len(q) + i] = r[i]
  BY SeqConcat
<1>1. /\ Len(q) \in Nat /\ Len(r) \in Nat
      /\ IsSeq(q \o r) /\ Len(q \o r) = Len(q) + Len(r)
      /\ \A i \in 1 .. Len(q) : (q \o r)[i] = q[i]
      /\ \A i \in 1 .. Len(r) : (q \o r)[Len(q) + i] = r[i]
  BY <1>0, <1>c
<1>2. /\ IsSeq(a) /\ Len(a) = Len(q) + Len(r) + 1
      /\ \A i \in 1 .. Len(q) + Len(r) : a[i] = (q \o r)[i]
      /\ a[Len(q) + Len(r) + 1] = e
  BY <1>1, SeqAppend
<1>3. /\ IsSeq(Append(r, e)) /\ Len(Append(r, e)) = Len(r) + 1
      /\ \A i \in 1 .. Len(r) : Append(r, e)[i] = r[i]
      /\ Append(r, e)[Len(r) + 1] = e
  BY SeqAppend
<1>4. /\ IsSeq(b) /\ Len(b) = Len(q) + (Len(r) + 1)
      /\ \A i \in 1 .. Len(q) : b[i] = q[i]
      /\ \A i \in 1 .. Len(r) + 1 : b[Len(q) + i] = Append(r, e)[i]
  BY <1>3, SeqConcat
<1> HIDE DEF a, b
<1>5. ASSUME NEW i \in 1 .. Len(a) PROVE a[i] = b[i]
  <2>1. CASE i \in 1 .. Len(q)
    <3>1. i \in 1 .. Len(q) + Len(r)
      BY <1>1, <2>1
    <3> QED BY <1>1, <1>2, <1>4, <2>1, <3>1
  <2>2. CASE i \in Len(q) + 1 .. Len(q) + Len(r)
    <3> DEFINE k == i - Len(q)
    <3>1. k \in 1 .. Len(r) /\ k \in 1 .. Len(r) + 1 /\ i = Len(q) + k
          /\ i \in 1 .. Len(q) + Len(r)
      BY <1>1, <2>2
    <3> HIDE DEF k
    <3>2. a[i] = r[k]
      BY <1>1, <1>2, <3>1
    <3>3. b[i] = r[k]
      BY <1>3, <1>4, <3>1
    <3> QED BY <3>2, <3>3
  <2>3. CASE i = Len(q) + Len(r) + 1
    <3>1. Len(r) + 1 \in 1 .. Len(r) + 1 /\ i = Len(q) + (Len(r) + 1)
      BY <1>1, <2>3
    <3> QED BY <1>2, <1>3, <1>4, <2>3, <3>1
  <2> QED BY <1>1, <1>2, <2>1, <2>2, <2>3
<1>6. Len(a) = Len(b)
  BY <1>1, <1>2, <1>4
<1>7. a = b
  BY <1>2, <1>4, <1>5, <1>6, SeqSame
<1> QED BY <1>7 DEF a, b

-----------------------------------------------------------------------------
(* The names of entries, in order                                          *)

LEMMA NamesAreSeq ==
  ASSUME NEW q, IsSeq(q), NEW P
  PROVE  IsSeq(NamesAt(q, P))
<1>1. Len(q) \in Nat
  BY SeqLen
<1>2. PICK f : /\ f[0] = << >>
               /\ \A n \in 1 .. Len(q) :
                    f[n] = IF n \in P THEN Append(f[n - 1], q[n].id) ELSE f[n - 1]
               /\ NamesAt(q, P) = f[Len(q)]
  BY <1>1, NameRuns
<1> DEFINE S == {n \in Nat : n <= Len(q) => IsSeq(f[n])}
<1>3. 0 \in S
  BY <1>2, EmptyIsSeq
<1>4. ASSUME NEW n \in Nat, n \in S PROVE n + 1 \in S
  <2> SUFFICES ASSUME n + 1 <= Len(q) PROVE IsSeq(f[n + 1])
    OBVIOUS
  <2> DEFINE k == n + 1
  <2>1. k \in 1 .. Len(q) /\ k - 1 = n /\ IsSeq(f[n])
    BY <1>1, <1>4
  <2> HIDE DEF k
  <2>2. f[k] = IF k \in P THEN Append(f[n], q[k].id) ELSE f[n]
    BY <1>2, <2>1
  <2>3. IsSeq(f[k])
    BY <2>1, <2>2, SeqAppend
  <2> QED BY <2>3 DEF k
<1>5. Len(q) \in S
  <2> HIDE DEF S
  <2> QED BY <1>1, <1>3, <1>4, Induction
<1> QED BY <1>1, <1>2, <1>5

(* The places P of q \o r are Q in the one and R in the other.              *)
Halves(q, r, P, Q, R) ==
  /\ \A i \in 1 .. Len(q) : i \in P <=> i \in Q
  /\ \A i \in 1 .. Len(r) : Len(q) + i \in P <=> i \in R

LEMMA NamesConcat ==
  ASSUME NEW q, IsSeq(q), NEW r, IsSeq(r), NEW P, NEW Q, NEW R,
         Halves(q, r, P, Q, R)
  PROVE  NamesAt(q \o r, P) = NamesAt(q, Q) \o NamesAt(r, R)
<1>0. /\ \A i \in 1 .. Len(q) : i \in P <=> i \in Q
      /\ \A i \in 1 .. Len(r) : Len(q) + i \in P <=> i \in R
  BY DEF Halves
<1> DEFINE m == Len(q)
           l == Len(r)
<1>1. m \in Nat /\ l \in Nat
  BY SeqLen
<1>2. /\ IsSeq(q \o r) /\ Len(q \o r) = m + l
      /\ \A i \in 1 .. m : (q \o r)[i] = q[i]
      /\ \A i \in 1 .. l : (q \o r)[m + i] = r[i]
  BY SeqConcat
<1> HIDE DEF m, l
<1>3. m + l \in Nat
  BY <1>1
<1>4. PICK h : /\ h[0] = << >>
               /\ \A n \in 1 .. m + l :
                    h[n] = IF n \in P THEN Append(h[n - 1], (q \o r)[n].id) ELSE h[n - 1]
               /\ NamesAt(q \o r, P) = h[m + l]
  <2>1. Len(q \o r) = m + l
    BY <1>2
  <2> DEFINE c == q \o r
  <2>2. Len(c) \in Nat
    BY <2>1, <1>3
  <2> HIDE DEF c
  <2>3. \E h : /\ h[0] = << >>
               /\ \A n \in 1 .. Len(c) :
                    h[n] = IF n \in P THEN Append(h[n - 1], c[n].id) ELSE h[n - 1]
               /\ NamesAt(c, P) = h[Len(c)]
    BY <2>2, NameRuns
  <2> QED BY <2>1, <2>3 DEF c
<1>5. PICK f : /\ f[0] = << >>
               /\ \A n \in 1 .. m :
                    f[n] = IF n \in Q THEN Append(f[n - 1], q[n].id) ELSE f[n - 1]
               /\ NamesAt(q, Q) = f[m]
  BY <1>1, NameRuns DEF m
<1>6. PICK g : /\ g[0] = << >>
               /\ \A n \in 1 .. l :
                    g[n] = IF n \in R THEN Append(g[n - 1], r[n].id) ELSE g[n - 1]
               /\ NamesAt(r, R) = g[l]
  BY <1>1, NameRuns DEF l
<1>7. h[m] = f[m]
  <2> DEFINE S == {n \in Nat : n <= m => h[n] = f[n]}
  <2>1. 0 \in S
    BY <1>4, <1>5
  <2>2. ASSUME NEW n \in Nat, n \in S PROVE n + 1 \in S
    <3> SUFFICES ASSUME n + 1 <= m PROVE h[n + 1] = f[n + 1]
      OBVIOUS
    <3> DEFINE k == n + 1
    <3>1. k \in 1 .. m /\ k \in 1 .. m + l /\ k - 1 = n /\ h[n] = f[n]
      BY <1>1, <2>2
    <3> HIDE DEF k
    <3>2. (q \o r)[k] = q[k] /\ (k \in P <=> k \in Q)
      BY <1>0, <1>2, <3>1 DEF m
    <3>3. h[k] = IF k \in P THEN Append(h[k - 1], (q \o r)[k].id) ELSE h[k - 1]
      BY <1>4, <3>1
    <3>4. f[k] = IF k \in Q THEN Append(f[k - 1], q[k].id) ELSE f[k - 1]
      BY <1>5, <3>1
    <3>5. h[k] = f[k]
      BY <3>1, <3>2, <3>3, <3>4
    <3> QED BY <3>5 DEF k
  <2>3. m \in S
    <3> HIDE DEF S
    <3> QED BY <1>1, <2>1, <2>2, Induction
  <2>4. m <= m
    BY <1>1
  <2> QED BY <2>3, <2>4
<1>8. IsSeq(f[m])
  BY <1>5, NamesAreSeq
<1> DEFINE Is(n) == IsSeq(g[n]) /\ h[m + n] = f[m] \o g[n]
           S == {n \in Nat : n <= l => Is(n)}
<1>9. 0 \in S
  <2>1. f[m] \o << >> = f[m]
    <3>1. PICK T : f[m] \in Seq(T)
      BY <1>8 DEF IsSeq
    <3> QED BY <3>1, ConcatEmptySeq
  <2>2. m + 0 = m
    BY <1>1
  <2> QED BY <1>6, <1>7, <2>1, <2>2, EmptyIsSeq
<1>10. ASSUME NEW n \in Nat, n \in S PROVE n + 1 \in S
  <2> DEFINE k == n + 1
  <2> SUFFICES ASSUME k <= l PROVE Is(k)
    <3> HIDE DEF Is
    <3> QED OBVIOUS
  <2>0. n <= l
    BY <1>1
  <2>1. k \in 1 .. l /\ k - 1 = n
    BY <1>1
  <2>a. IsSeq(g[n]) /\ h[m + n] = f[m] \o g[n]
    BY <1>10, <2>0
  <2> DEFINE i == m + k
  <2>2. i \in 1 .. m + l /\ i - 1 = m + n
    BY <1>1, <2>1
  <2> HIDE DEF S, k
  <2>3. (q \o r)[i] = r[k] /\ (i \in P <=> k \in R)
    BY <1>0, <1>2, <2>1 DEF m, l
  <2> HIDE DEF i
  <2>b. h[i] = IF i \in P THEN Append(h[i - 1], (q \o r)[i].id) ELSE h[i - 1]
    BY <1>4, <2>2
  <2>c. g[k] = IF k \in R THEN Append(g[k - 1], r[k].id) ELSE g[k - 1]
    BY <1>6, <2>1
  <2>4. CASE k \in R
    <3>1. g[k] = Append(g[n], r[k].id)
      BY <2>1, <2>4, <2>c
    <3>2. h[i] = Append(f[m] \o g[n], r[k].id)
      BY <2>2, <2>3, <2>4, <2>a, <2>b
    <3>3. Append(f[m] \o g[n], r[k].id) = f[m] \o Append(g[n], r[k].id)
      <4> DEFINE e == r[k].id
                 u == f[m]
                 v == g[n]
      <4>1. IsSeq(u) /\ IsSeq(v)
        BY <1>8, <2>a
      <4> HIDE DEF e, u, v
      <4>2. Append(u \o v, e) = u \o Append(v, e)
        BY <4>1, ConcatAppend
      <4> QED BY <4>2 DEF e, u, v
    <3>4. IsSeq(Append(g[n], r[k].id))
      BY <2>a, SeqAppend
    <3> QED BY <3>1, <3>2, <3>3, <3>4 DEF i
  <2>5. CASE k \notin R
    <3>1. g[k] = g[n]
      BY <2>1, <2>5, <2>c
    <3>2. h[i] = h[m + n]
      BY <2>2, <2>3, <2>5, <2>b
    <3> QED BY <2>a, <3>1, <3>2 DEF i
  <2> QED BY <2>4, <2>5
<1>11. l \in S
  <2> HIDE DEF S
  <2> QED BY <1>1, <1>9, <1>10, Induction
<1>12. h[m + l] = f[m] \o g[l]
  <2>1. l <= l
    BY <1>1
  <2> QED BY <1>11, <2>1
<1> QED BY <1>4, <1>5, <1>6, <1>12

(* None of the entries, and all of them.                                   *)
LEMMA NoNames ==
  ASSUME NEW q, IsSeq(q), NEW P, \A i \in 1 .. Len(q) : i \notin P
  PROVE  NamesAt(q, P) = << >>
<1>1. Len(q) \in Nat
  BY SeqLen
<1>2. PICK f : /\ f[0] = << >>
               /\ \A n \in 1 .. Len(q) :
                    f[n] = IF n \in P THEN Append(f[n - 1], q[n].id) ELSE f[n - 1]
               /\ NamesAt(q, P) = f[Len(q)]
  BY <1>1, NameRuns
<1> DEFINE S == {n \in Nat : n <= Len(q) => f[n] = << >>}
<1>3. 0 \in S
  BY <1>2
<1>4. ASSUME NEW n \in Nat, n \in S PROVE n + 1 \in S
  <2> SUFFICES ASSUME n + 1 <= Len(q) PROVE f[n + 1] = << >>
    OBVIOUS
  <2>1. n + 1 \in 1 .. Len(q) /\ n + 1 - 1 = n /\ f[n] = << >>
    BY <1>1, <1>4
  <2> QED BY <1>2, <2>1
<1>5. Len(q) \in S
  <2> HIDE DEF S
  <2> QED BY <1>1, <1>3, <1>4, Induction
<1> QED BY <1>1, <1>2, <1>5

LEMMA AllNames ==
  ASSUME NEW q, IsSeq(q), NEW P, NEW r, IsSeq(r), Len(r) = Len(q),
         \A i \in 1 .. Len(q) : i \in P /\ q[i].id = r[i]
  PROVE  NamesAt(q, P) = r
<1>1. Len(q) \in Nat
  BY SeqLen
<1>2. PICK f : /\ f[0] = << >>
               /\ \A n \in 1 .. Len(q) :
                    f[n] = IF n \in P THEN Append(f[n - 1], q[n].id) ELSE f[n - 1]
               /\ NamesAt(q, P) = f[Len(q)]
  BY <1>1, NameRuns
<1> DEFINE Is(n) == IsSeq(f[n]) /\ Len(f[n]) = n /\ \A i \in 1 .. n : f[n][i] = r[i]
           S == {n \in Nat : n <= Len(q) => Is(n)}
<1>3. 0 \in S
  BY <1>2, EmptyIsSeq
<1>4. ASSUME NEW n \in Nat, n \in S PROVE n + 1 \in S
  <2> SUFFICES ASSUME n + 1 <= Len(q) PROVE Is(n + 1)
    OBVIOUS
  <2> DEFINE k == n + 1
  <2>1. k \in 1 .. Len(q) /\ k - 1 = n /\ Is(n)
    BY <1>1, <1>4
  <2> HIDE DEF k
  <2>2. f[k] = Append(f[n], r[k])
    BY <1>2, <2>1
  <2>3. /\ IsSeq(f[k]) /\ Len(f[k]) = n + 1
        /\ \A i \in 1 .. n : f[k][i] = f[n][i]
        /\ f[k][n + 1] = r[k]
    BY <2>1, <2>2, SeqAppend
  <2> QED BY <2>1, <2>3 DEF k
<1>5. Len(q) \in S
  <2> HIDE DEF S
  <2> QED BY <1>1, <1>3, <1>4, Induction
<1>6. Is(Len(q))
  BY <1>1, <1>5
<1>7. f[Len(q)] = r
  BY <1>6, SeqSame
<1> QED BY <1>2, <1>7

-----------------------------------------------------------------------------
(* What a session tells, and the rows it keeps                             *)

IsState(s) ==
  /\ s = [out |-> s.out, open |-> s.open, loot_rows |-> s.loot_rows,
          self_stats |-> s.self_stats]
  /\ IsSeq(s.out) /\ IsSeq(s.loot_rows)
  /\ s.open \subseteq LootIds /\ s.self_stats \in Nat

Acquired(events) == {i \in DOMAIN events : events[i].kind = "LootAcquired"}

LEMMA AcquiredConcat ==
  ASSUME NEW q, IsSeq(q), NEW r, IsSeq(r)
  PROVE  NamesAt(q \o r, Acquired(q \o r))
           = NamesAt(q, Acquired(q)) \o NamesAt(r, Acquired(r))
<1> DEFINE c == q \o r
<1>1. /\ IsSeq(c) /\ Len(c) = Len(q) + Len(r)
      /\ \A i \in 1 .. Len(q) : c[i] = q[i]
      /\ \A i \in 1 .. Len(r) : c[Len(q) + i] = r[i]
  BY SeqConcat
<1>2. /\ Len(q) \in Nat /\ Len(r) \in Nat /\ DOMAIN c = 1 .. Len(c)
      /\ DOMAIN q = 1 .. Len(q) /\ DOMAIN r = 1 .. Len(r)
  BY <1>1, SeqLen
<1> HIDE DEF c
<1>3. Halves(q, r, Acquired(c), Acquired(q), Acquired(r))
  <2>1. ASSUME NEW i \in 1 .. Len(q) PROVE i \in Acquired(c) <=> i \in Acquired(q)
    BY <1>1, <1>2 DEF Acquired
  <2>2. ASSUME NEW i \in 1 .. Len(r)
        PROVE  Len(q) + i \in Acquired(c) <=> i \in Acquired(r)
    BY <1>1, <1>2 DEF Acquired
  <2> QED BY <2>1, <2>2 DEF Halves
<1> QED BY <1>3, NamesConcat DEF c

LEMMA ToldConcat ==
  ASSUME NEW q, IsSeq(q), NEW r, IsSeq(r)
  PROVE  ToldRows(q \o r) = ToldRows(q) \o ToldRows(r)
<1> DEFINE c == q \o r
           Rowed(rows) == {i \in DOMAIN rows : IsRowOf(rows[i])}
<1>1. /\ IsSeq(c) /\ Len(c) = Len(q) + Len(r)
      /\ \A i \in 1 .. Len(q) : c[i] = q[i]
      /\ \A i \in 1 .. Len(r) : c[Len(q) + i] = r[i]
  BY SeqConcat
<1>2. /\ Len(q) \in Nat /\ Len(r) \in Nat /\ DOMAIN c = 1 .. Len(c)
      /\ DOMAIN q = 1 .. Len(q) /\ DOMAIN r = 1 .. Len(r)
  BY <1>1, SeqLen
<1> HIDE DEF c
<1>3. Halves(q, r, Rowed(c), Rowed(q), Rowed(r))
  <2>1. ASSUME NEW i \in 1 .. Len(q) PROVE i \in Rowed(c) <=> i \in Rowed(q)
    BY <1>1, <1>2
  <2>2. ASSUME NEW i \in 1 .. Len(r)
        PROVE  Len(q) + i \in Rowed(c) <=> i \in Rowed(r)
    BY <1>1, <1>2
  <2> HIDE DEF Rowed
  <2> QED BY <2>1, <2>2 DEF Halves
<1>4. /\ ToldRows(c) = NamesAt(c, Rowed(c)) /\ ToldRows(q) = NamesAt(q, Rowed(q))
      /\ ToldRows(r) = NamesAt(r, Rowed(r))
  BY Zenon DEF ToldRows
<1> DEFINE A == Rowed(c)
           B == Rowed(q)
           C == Rowed(r)
<1>5. NamesAt(q \o r, A) = NamesAt(q, B) \o NamesAt(r, C)
  <2>1. Halves(q, r, A, B, C)
    BY <1>3
  <2> HIDE DEF A, B, C
  <2> QED BY <2>1, NamesConcat
<1> HIDE DEF Rowed
<1> QED BY <1>4, <1>5 DEF c

(* The rows and the events of a session tell the same acquisitions.        *)
Balanced(s) == ToldRows(s.loot_rows) = NamesAt(s.out, Acquired(s.out))

(* What was told stays, and what comes after it is of these kinds.         *)
Grows(s, t, K) ==
  /\ Len(s.out) <= Len(t.out)
  /\ \A i \in 1 .. Len(s.out) : t.out[i] = s.out[i]
  /\ \A i \in Len(s.out) + 1 .. Len(t.out) : t.out[i].kind \in K

Still(s, t) == t.loot_rows = s.loot_rows /\ t.self_stats = s.self_stats

(* The events a session makes for itself: vitals put aside for the host.   *)
Aside == {"PendingVitals", "SelfVitals", "SelfStat"}

LEMMA StateFacts ==
  ASSUME NEW s, IsState(s)
  PROVE  /\ IsSeq(s.out) /\ Len(s.out) \in Nat /\ DOMAIN s.out = 1 .. Len(s.out)
         /\ IsSeq(s.loot_rows) /\ Len(s.loot_rows) \in Nat
         /\ DOMAIN s.loot_rows = 1 .. Len(s.loot_rows)
         /\ IsFiniteSet(s.open) /\ Cardinality(s.open) \in Nat
<1>1. IsSeq(s.out) /\ IsSeq(s.loot_rows)
  BY DEF IsState
<1>2. IsFiniteSet(s.open)
  BY LootIdsAssumption, FS_Subset DEF IsState
<1>3. Cardinality(s.open) \in Nat
  BY <1>2, FS_CardinalityType
<1> QED BY <1>1, <1>2, <1>3, SeqLen

LEMMA GrowsFurther ==
  ASSUME NEW s, IsState(s), NEW t, IsState(t), NEW u, IsState(u), NEW K,
         Grows(s, t, K), Grows(t, u, K)
  PROVE  Grows(s, u, K)
<1>1. Len(s.out) \in Nat /\ Len(t.out) \in Nat /\ Len(u.out) \in Nat
  BY StateFacts
<1>2. Len(s.out) <= Len(u.out)
  BY <1>1 DEF Grows
<1>3. ASSUME NEW i \in 1 .. Len(s.out) PROVE u.out[i] = s.out[i]
  <2>1. i \in 1 .. Len(t.out)
    BY <1>1 DEF Grows
  <2> QED BY <2>1 DEF Grows
<1>4. ASSUME NEW i \in Len(s.out) + 1 .. Len(u.out) PROVE u.out[i].kind \in K
  <2>1. CASE i \in 1 .. Len(t.out)
    <3>1. i \in Len(s.out) + 1 .. Len(t.out)
      BY <1>1, <2>1
    <3>2. u.out[i] = t.out[i]
      BY <2>1 DEF Grows
    <3> QED BY <3>1, <3>2 DEF Grows
  <2>2. CASE i \in Len(t.out) + 1 .. Len(u.out)
    BY <2>2 DEF Grows
  <2> QED BY <1>1, <2>1, <2>2
<1> QED BY <1>2, <1>3, <1>4 DEF Grows

LEMMA GrowsMore ==
  ASSUME NEW s, NEW t, NEW K, NEW M, K \subseteq M, Grows(s, t, K)
  PROVE  Grows(s, t, M)
BY DEF Grows

LEMMA GrowsNot ==
  ASSUME NEW s, IsState(s), NEW t, t.out = s.out, NEW K
  PROVE  Grows(s, t, K)
<1>1. Len(s.out) \in Nat
  BY StateFacts
<1> QED BY <1>1 DEF Grows

(* The kind the host is told, unless the event is put aside for it alone.  *)
Says(k) == {ToldAs(k)} \ {"SelfStat"}

(* An event that is told is one more, and no acquisition.                  *)
LEMMA TellGrows ==
  ASSUME NEW s, IsState(s), NEW k, k # "LootAcquired"
  PROVE  /\ IsState(Tell(s, k))
         /\ Balanced(s) => Balanced(Tell(s, k))
         /\ Tell(s, k).loot_rows = s.loot_rows
         /\ k \notin Aside => Still(s, Tell(s, k))
         /\ k = "SelfStat" => Tell(s, k).out = s.out
         /\ k # "SelfStat" =>
              /\ Len(Tell(s, k).out) = Len(s.out) + 1
              /\ \A i \in 1 .. Len(s.out) : Tell(s, k).out[i] = s.out[i]
              /\ Tell(s, k).out[Len(s.out) + 1].kind = ToldAs(k)
         /\ Grows(s, Tell(s, k), Says(k))
<1> DEFINE t == Tell(s, k)
           e == [kind |-> ToldAs(k), id |-> Len(s.out) + 1]
<1>1. /\ t.out = IF k = "SelfStat" THEN s.out ELSE Append(s.out, e)
      /\ t.open = s.open /\ t.loot_rows = s.loot_rows
      /\ t.self_stats = s.self_stats + IF k \in Aside THEN 1 ELSE 0
      /\ t = [out |-> t.out, open |-> t.open, loot_rows |-> t.loot_rows,
              self_stats |-> t.self_stats]
  <2> DEFINE o == IF k = "SelfStat" THEN s.out ELSE Append(s.out, e)
             n == s.self_stats + IF k \in Aside THEN 1 ELSE 0
  <2>1. t = [s EXCEPT !.out = o, !.self_stats = n]
    BY Zenon DEF Tell, Aside
  <2> HIDE DEF o, n, t, e
  <2>2. DOMAIN s = {"out", "open", "loot_rows", "self_stats"}
    BY DEF IsState
  <2>3. t = [out |-> o, open |-> s.open, loot_rows |-> s.loot_rows, self_stats |-> n]
    BY <2>1, <2>2 DEF IsState
  <2> QED BY <2>3 DEF o, n
<1>2. e.kind = ToldAs(k) /\ ToldAs(k) # "LootAcquired"
  BY DEF ToldAs
<1>3. /\ IsSeq(s.out) /\ Len(s.out) \in Nat /\ DOMAIN s.out = 1 .. Len(s.out)
      /\ IsSeq(s.loot_rows)
  BY StateFacts
<1> HIDE DEF t, e
<1>4. /\ IsSeq(Append(s.out, e))
      /\ Len(Append(s.out, e)) = Len(s.out) + 1
      /\ \A i \in 1 .. Len(s.out) : Append(s.out, e)[i] = s.out[i]
      /\ Append(s.out, e)[Len(s.out) + 1] = e
  BY <1>3, SeqAppend
<1>5. IsState(t)
  <2>1. IsSeq(t.out)
    BY <1>1, <1>3, <1>4
  <2>2. t.self_stats \in Nat
    BY <1>1 DEF IsState
  <2> QED BY <1>1, <2>1, <2>2 DEF IsState
<1>6. k \notin Aside => Still(s, t)
  BY <1>1 DEF IsState, Still
<1>7. CASE k = "SelfStat"
  <2>1. t.out = s.out
    BY <1>1, <1>7
  <2>2. Balanced(s) => Balanced(t)
    BY <1>1, <2>1 DEF Balanced
  <2>3. Grows(s, t, Says(k))
    BY <2>1, GrowsNot
  <2> QED BY <1>1, <1>5, <1>6, <1>7, <2>1, <2>2, <2>3 DEF t
<1>8. CASE k # "SelfStat"
  <2>1. t.out = Append(s.out, e)
    BY <1>1, <1>8
  <2>2. Grows(s, t, Says(k))
    <3>1. ASSUME NEW i \in Len(s.out) + 1 .. Len(t.out) PROVE t.out[i].kind \in Says(k)
      <4>1. i = Len(s.out) + 1
        BY <1>3, <1>4, <2>1
      <4>2. t.out[i].kind = ToldAs(k)
        BY <1>2, <1>4, <2>1, <4>1
      <4>3. ToldAs(k) # "SelfStat"
        BY <1>8 DEF ToldAs
      <4> QED BY <4>2, <4>3 DEF Says
    <3>2. Len(s.out) <= Len(t.out)
      BY <1>3, <1>4, <2>1
    <3>3. \A i \in 1 .. Len(s.out) : t.out[i] = s.out[i]
      BY <1>4, <2>1
    <3> QED BY <3>1, <3>2, <3>3 DEF Grows
  <2>3. ASSUME Balanced(s) PROVE Balanced(t)
    <3>1. <<e>> = [i \in 1 .. 1 |-> <<e>>[i]] /\ <<e>>[1] = e
      OBVIOUS
    <3>2. IsSeq(<<e>>) /\ Len(<<e>>) = 1
      BY <3>1, SeqMade
    <3>3. Append(s.out, e) = s.out \o <<e>>
      <4>1. PICK S : s.out \in Seq(S)
        BY <1>3 DEF IsSeq
      <4>2. s.out \in Seq(S \cup {e}) /\ e \in S \cup {e}
        BY <4>1, SeqMonotonic
      <4> QED BY <4>2, AppendIsConcat
    <3>4. NamesAt(<<e>>, Acquired(<<e>>)) = << >>
      <4>1. \A i \in 1 .. Len(<<e>>) : i \notin Acquired(<<e>>)
        BY <1>2, <3>1, <3>2 DEF Acquired
      <4> QED BY <3>2, <4>1, NoNames
    <3>5. NamesAt(t.out, Acquired(t.out))
            = NamesAt(s.out, Acquired(s.out)) \o NamesAt(<<e>>, Acquired(<<e>>))
      BY <1>3, <2>1, <3>2, <3>3, AcquiredConcat
    <3>8. NamesAt(s.out, Acquired(s.out)) \o << >> = NamesAt(s.out, Acquired(s.out))
      <4>1. IsSeq(NamesAt(s.out, Acquired(s.out)))
        BY <1>3, NamesAreSeq
      <4> QED BY <4>1, ConcatEmptySeq DEF IsSeq
    <3> QED BY <1>1, <2>3, <3>4, <3>5, <3>8 DEF Balanced
  <2> QED BY <1>1, <1>2, <1>4, <1>5, <1>6, <1>8, <2>1, <2>2, <2>3 DEF t
<1> QED BY <1>7, <1>8

(* Events told after the others, and changed fields of a state.            *)
LEMMA ConcatGrows ==
  ASSUME NEW s, IsState(s), NEW q, IsSeq(q), NEW t, t.out = s.out \o q,
         NEW K, \A i \in 1 .. Len(q) : q[i].kind \in K
  PROVE  Grows(s, t, K)
<1> DEFINE p == s.out
<1>1. IsSeq(p) /\ Len(p) \in Nat /\ Len(q) \in Nat
  BY StateFacts, SeqLen
<1> HIDE DEF p
<1>2. /\ Len(p \o q) = Len(p) + Len(q)
      /\ \A i \in 1 .. Len(p) : (p \o q)[i] = p[i]
      /\ \A i \in 1 .. Len(q) : (p \o q)[Len(p) + i] = q[i]
  BY <1>1, SeqConcat
<1>3. t.out = p \o q
  BY DEF p
<1>4. ASSUME NEW i \in Len(p) + 1 .. Len(t.out) PROVE t.out[i].kind \in K
  <2> DEFINE n == i - Len(p)
  <2>1. n \in 1 .. Len(q) /\ i = Len(p) + n
    BY <1>1, <1>2, <1>3
  <2> HIDE DEF n
  <2>2. t.out[i] = q[n]
    BY <1>2, <1>3, <2>1
  <2> QED BY <2>1, <2>2
<1>5. Len(p) <= Len(t.out) /\ \A i \in 1 .. Len(p) : t.out[i] = p[i]
  BY <1>1, <1>2, <1>3
<1> QED BY <1>4, <1>5 DEF Grows, p

LEMMA Reopened ==
  ASSUME NEW s, IsState(s), NEW ids, ids \subseteq LootIds
  PROVE  LET t == [s EXCEPT !.open = ids]
         IN  /\ IsState(t) /\ t.open = ids /\ t.out = s.out
             /\ t.loot_rows = s.loot_rows /\ t.self_stats = s.self_stats
<1> DEFINE t == [s EXCEPT !.open = ids]
<1>1. s = [out |-> s.out, open |-> s.open, loot_rows |-> s.loot_rows,
           self_stats |-> s.self_stats]
  BY DEF IsState
<1>2. t = [out |-> s.out, open |-> ids, loot_rows |-> s.loot_rows,
           self_stats |-> s.self_stats]
  BY <1>1
<1> HIDE DEF t
<1>3. /\ t.open = ids /\ t.out = s.out
      /\ t.loot_rows = s.loot_rows /\ t.self_stats = s.self_stats
  BY <1>2
<1>4. IsState(t)
  BY <1>2, <1>3 DEF IsState
<1> QED BY <1>3, <1>4 DEF t

LEMMA TwoFields ==
  ASSUME NEW s, IsState(s), NEW rows, NEW events
  PROVE  [s EXCEPT !.loot_rows = rows, !.out = events]
           = [out |-> events, open |-> s.open, loot_rows |-> rows,
              self_stats |-> s.self_stats]
<1>1. s = [out |-> s.out, open |-> s.open, loot_rows |-> s.loot_rows,
           self_stats |-> s.self_stats]
  BY DEF IsState
<1>2. DOMAIN s = {"out", "open", "loot_rows", "self_stats"}
  BY <1>1
<1> DEFINE u == [s EXCEPT !.loot_rows = rows]
<1>3. u = [out |-> s.out, open |-> s.open, loot_rows |-> rows,
           self_stats |-> s.self_stats]
  BY <1>1, <1>2
<1> HIDE DEF u
<1>4. [u EXCEPT !.out = events]
        = [out |-> events, open |-> s.open, loot_rows |-> rows,
           self_stats |-> s.self_stats]
  BY <1>3
<1>5. [s EXCEPT !.loot_rows = rows, !.out = events] = [u EXCEPT !.out = events]
  BY Zenon DEF u
<1> QED BY <1>4, <1>5, Zenon

LEMMA Retold ==
  ASSUME NEW s, IsState(s), NEW rows, IsSeq(rows), NEW events, IsSeq(events),
         NEW t, t = [out |-> events, open |-> s.open, loot_rows |-> rows,
                     self_stats |-> s.self_stats]
  PROVE  /\ IsState(t) /\ t.open = s.open /\ t.out = events
         /\ t.loot_rows = rows /\ t.self_stats = s.self_stats
<1>1. /\ t.open = s.open /\ t.out = events
      /\ t.loot_rows = rows /\ t.self_stats = s.self_stats
  OBVIOUS
<1>2. IsState(t)
  BY <1>1 DEF IsState
<1> QED BY <1>1, <1>2

(* What a correlator of loot does to a session.                            *)
Told == {"LootAcquired"}
Shown == {"CorpseLootSnapshot"}

Loots(s, t, K) ==
  /\ IsState(t)
  /\ Balanced(s) => Balanced(t)
  /\ Grows(s, t, K)
  /\ t.self_stats = s.self_stats

LEMMA FinishLoots ==
  ASSUME NEW s, IsState(s), NEW rows, IsSeq(rows)
  PROVE  Loots(s, FinishLootRows(s, rows), Told)
<1> DEFINE told == ToldRows(rows)
           e == [i \in DOMAIN told |-> [kind |-> "LootAcquired", id |-> told[i]]]
           p == s.out
           r == s.loot_rows
           t == FinishLootRows(s, rows)
<1>1. IsSeq(told) /\ Len(told) \in Nat /\ DOMAIN told = 1 .. Len(told)
  BY NamesAreSeq, SeqLen DEF ToldRows
<1>2. IsSeq(p) /\ IsSeq(r)
  BY StateFacts
<1>3. t = [s EXCEPT !.loot_rows = r \o rows, !.out = p \o e]
  BY Zenon DEF FinishLootRows
<1> HIDE DEF told
<1>4. IsSeq(e) /\ Len(e) = Len(told) /\ DOMAIN e = 1 .. Len(told)
  <2>1. e = [i \in 1 .. Len(told) |-> e[i]]
    BY <1>1
  <2> HIDE DEF e
  <2> QED BY <1>1, <2>1, SeqMade
<1>5. \A i \in 1 .. Len(e) : e[i].kind = "LootAcquired" /\ e[i].id = told[i]
  BY <1>1, <1>4
<1> HIDE DEF e, p, r, t
<1>6. IsSeq(p \o e) /\ IsSeq(r \o rows)
  BY <1>2, <1>4, SeqConcat
<1>7. /\ IsState(t) /\ t.out = p \o e /\ t.loot_rows = r \o rows
      /\ t.self_stats = s.self_stats
  <2> DEFINE out == p \o e
             kept == r \o rows
  <2>1. IsSeq(out) /\ IsSeq(kept) /\ t = [s EXCEPT !.loot_rows = kept, !.out = out]
    BY <1>3, <1>6
  <2> HIDE DEF out, kept
  <2>2. t = [out |-> out, open |-> s.open, loot_rows |-> kept,
             self_stats |-> s.self_stats]
    BY <2>1, TwoFields, Zenon
  <2>3. IsSeq(out) /\ IsSeq(kept)
    BY <2>1
  <2>4. /\ t.out = out /\ t.loot_rows = kept /\ t.open = s.open
        /\ t.self_stats = s.self_stats
    BY <2>2
  <2>5. IsState(t)
    BY <2>2, <2>3, <2>4 DEF IsState
  <2> QED BY <2>4, <2>5 DEF out, kept
<1>8. Grows(s, t, Told)
  <2>1. \A i \in 1 .. Len(e) : e[i].kind \in Told
    BY <1>5 DEF Told
  <2>2. t.out = s.out \o e
    BY <1>7 DEF p
  <2> QED BY <1>4, <2>1, <2>2, ConcatGrows
<1>9. ASSUME Balanced(s) PROVE Balanced(t)
  <2>1. NamesAt(e, Acquired(e)) = told
    <3>1. \A i \in 1 .. Len(e) : i \in Acquired(e) /\ e[i].id = told[i]
      BY <1>4, <1>5 DEF Acquired
    <3> DEFINE A == Acquired(e)
    <3> HIDE DEF A
    <3>2. \A i \in 1 .. Len(e) : i \in A /\ e[i].id = told[i]
      BY <3>1 DEF A
    <3> QED BY <1>1, <1>4, <3>2, AllNames DEF A
  <2>2. NamesAt(p \o e, Acquired(p \o e)) = NamesAt(p, Acquired(p)) \o told
    BY <1>2, <1>4, <2>1, AcquiredConcat
  <2>3. ToldRows(r \o rows) = ToldRows(r) \o told
    BY <1>2, ToldConcat DEF told
  <2>4. ToldRows(r) = NamesAt(p, Acquired(p))
    BY <1>9 DEF Balanced, p, r
  <2> QED BY <1>7, <2>2, <2>3, <2>4 DEF Balanced
<1> QED BY <1>7, <1>8, <1>9 DEF Loots, t

LEMMA RowsAreSeq ==
  ASSUME NEW ids, Cardinality(ids) \in Nat, NEW source, NEW complete
  PROVE  IsSeq(Rows(ids, source, complete))
<1> DEFINE n == Cardinality(ids)
           q == Rows(ids, source, complete)
<1>1. q = [i \in 1 .. n |-> q[i]]
  BY DEF Rows
<1> HIDE DEF n, q
<1>2. n \in Nat
  BY DEF n
<1> QED BY <1>1, <1>2, SeqMade DEF q

(* A half that closes, from the halves that then wait.                     *)
LEMMA ClosingLoots ==
  ASSUME NEW s, IsState(s), NEW ids, ids \subseteq LootIds,
         NEW halves, Cardinality(halves) \in Nat, NEW source, NEW complete
  PROVE  Loots(s, FinishLootRows([s EXCEPT !.open = ids],
                                 Rows(halves, source, complete)), Told)
<1> DEFINE u == [s EXCEPT !.open = ids]
           rows == Rows(halves, source, complete)
           t == FinishLootRows(u, rows)
<1>1. /\ IsState(u) /\ u.out = s.out
      /\ u.loot_rows = s.loot_rows /\ u.self_stats = s.self_stats
  BY Reopened
<1>2. IsSeq(rows)
  BY RowsAreSeq
<1> HIDE DEF u, rows, t
<1>3. Loots(u, t, Told)
  BY <1>1, <1>2, FinishLoots DEF t
<1>4. Balanced(s) => Balanced(u)
  BY <1>1 DEF Balanced
<1>5. Grows(s, t, Told)
  BY <1>1, <1>3 DEF Loots, Grows
<1>6. Loots(s, t, Told)
  BY <1>1, <1>3, <1>4, <1>5 DEF Loots
<1> QED BY <1>6 DEF t, u, rows

LEMMA CloseLoots ==
  ASSUME NEW s, IsState(s)
  PROVE  Loots(s, CloseLoot(s), Told)
<1>1. Cardinality(s.open) \in Nat
  BY StateFacts
<1> QED BY <1>1, ClosingLoots DEF CloseLoot

LEMMA Untouched ==
  ASSUME NEW s, IsState(s), NEW t, IsState(t), t.out = s.out,
         t.loot_rows = s.loot_rows, t.self_stats = s.self_stats
  PROVE  Loots(s, t, Told)
<1>1. Grows(s, t, Told)
  BY GrowsNot
<1> QED BY <1>1 DEF Loots, Balanced

LEMMA PairLoots ==
  ASSUME NEW s, IsState(s), NEW k, NEW t \in PairLoot(s, k)
  PROVE  Loots(s, t, Told)
<1>1. s.open \subseteq LootIds
  BY DEF IsState
<1>2. ASSUME NEW id \in LootIds, NEW source
      PROVE  Loots(s, FinishLootRows([s EXCEPT !.open = @ \ {id}],
                                     Rows({id}, source, TRUE)), Told)
  <2> DEFINE rest == s.open \ {id}
             halves == {id}
  <2>1. rest \subseteq LootIds /\ Cardinality(halves) \in Nat
    BY <1>1, FS_Singleton
  <2>2. [s EXCEPT !.open = @ \ {id}] = [s EXCEPT !.open = rest]
    OBVIOUS
  <2> HIDE DEF rest, halves
  <2>3. Loots(s, FinishLootRows([s EXCEPT !.open = rest], Rows(halves, source, TRUE)), Told)
    BY <2>1, ClosingLoots
  <2> QED BY <2>2, <2>3 DEF halves
<1>3. \/ t = s
      \/ \E id \in LootIds : t = [s EXCEPT !.open = @ \cup {id}]
      \/ \E id \in LootIds, source \in {"Message", "Coin"} :
           t = FinishLootRows([s EXCEPT !.open = @ \ {id}], Rows({id}, source, TRUE))
  BY <1>1 DEF PairLoot
<1>4. CASE t = s
  BY <1>4, Untouched
<1>5. ASSUME NEW id \in LootIds, t = [s EXCEPT !.open = @ \cup {id}] PROVE Loots(s, t, Told)
  <2> DEFINE more == s.open \cup {id}
  <2>1. more \subseteq LootIds /\ t = [s EXCEPT !.open = more]
    BY <1>1, <1>5
  <2> HIDE DEF more
  <2>2. /\ IsState(t) /\ t.out = s.out /\ t.loot_rows = s.loot_rows
        /\ t.self_stats = s.self_stats
    BY <2>1, Reopened
  <2> QED BY <2>2, Untouched
<1> QED BY <1>2, <1>3, <1>4, <1>5

LEMMA WindowLoots ==
  ASSUME NEW s, IsState(s), NEW t \in OpenWindow(s)
  PROVE  Loots(s, t, Shown)
<1> DEFINE W(n) == [i \in 1 .. n |-> [source |-> "Window", complete |-> TRUE, id |-> 0]]
           E(q) == [i \in DOMAIN q |-> [kind |-> q[i], id |-> Len(s.out) + i]]
           p == s.out
           r == s.loot_rows
<1>1. PICK n \in 0 .. 2, q \in Maybe("CorpseLootSnapshot") :
        t = [s EXCEPT !.loot_rows = r \o W(n), !.out = p \o E(q)]
  <2>1. PICK n \in 0 .. 2, q \in Maybe("CorpseLootSnapshot") : t = Opened(s, n, q)
    BY DEF OpenWindow
  <2>2. t = [s EXCEPT !.loot_rows = r \o W(n), !.out = p \o E(q)]
    BY <2>1, Zenon DEF Opened
  <2> HIDE DEF p, r, W, E
  <2> QED BY <2>2
<1>2. PICK m \in 0 .. 1 : q = [i \in 1 .. m |-> "CorpseLootSnapshot"]
  BY DEF Maybe, UpTo
<1> DEFINE w == W(n)
           e == E(q)
<1>3. DOMAIN q = 1 .. m /\ n \in Nat /\ m \in Nat
  BY <1>2
<1>4. IsSeq(w) /\ Len(w) = n /\ DOMAIN w = 1 .. n
  <2>1. w = [i \in 1 .. n |-> w[i]]
    OBVIOUS
  <2> HIDE DEF w
  <2> QED BY <1>3, <2>1, SeqMade
<1>5. IsSeq(e) /\ Len(e) = m /\ DOMAIN e = 1 .. m
  <2>1. e = [i \in 1 .. m |-> e[i]]
    BY <1>3
  <2> HIDE DEF e
  <2> QED BY <1>3, <2>1, SeqMade
<1>6. \A i \in 1 .. m : e[i].kind = "CorpseLootSnapshot"
  BY <1>2, <1>3
<1>7. \A i \in 1 .. n : ~IsRowOf(w[i])
  BY DEF IsRowOf
<1>8. t = [s EXCEPT !.loot_rows = r \o w, !.out = p \o e]
  BY <1>1
<1>9. IsSeq(p) /\ IsSeq(r)
  BY StateFacts
<1> HIDE DEF w, e, p, r
<1>10. IsSeq(p \o e) /\ IsSeq(r \o w)
  BY <1>4, <1>5, <1>9, SeqConcat
<1>11. /\ IsState(t) /\ t.out = p \o e /\ t.loot_rows = r \o w
       /\ t.self_stats = s.self_stats
  <2> DEFINE out == p \o e
             kept == r \o w
  <2>1. IsSeq(out) /\ IsSeq(kept) /\ t = [s EXCEPT !.loot_rows = kept, !.out = out]
    BY <1>8, <1>10
  <2> HIDE DEF out, kept
  <2>2. t = [out |-> out, open |-> s.open, loot_rows |-> kept,
             self_stats |-> s.self_stats]
    BY <2>1, TwoFields, Zenon
  <2>3. IsSeq(out) /\ IsSeq(kept)
    BY <2>1
  <2>4. /\ t.out = out /\ t.loot_rows = kept /\ t.open = s.open
        /\ t.self_stats = s.self_stats
    BY <2>2
  <2>5. IsState(t)
    BY <2>2, <2>3, <2>4 DEF IsState
  <2> QED BY <2>4, <2>5 DEF out, kept
<1>12. Grows(s, t, Shown)
  <2>1. \A i \in 1 .. Len(e) : e[i].kind \in Shown
    BY <1>5, <1>6 DEF Shown
  <2>2. t.out = s.out \o e
    BY <1>11 DEF p
  <2> QED BY <1>5, <2>1, <2>2, ConcatGrows
<1>13. ASSUME Balanced(s) PROVE Balanced(t)
  <2>1. NamesAt(e, Acquired(e)) = << >>
    <3>1. \A i \in 1 .. Len(e) : i \notin Acquired(e)
      BY <1>5, <1>6 DEF Acquired
    <3> QED BY <1>5, <3>1, NoNames
  <2>2. ToldRows(w) = << >>
    <3> DEFINE P == {i \in DOMAIN w : IsRowOf(w[i])}
    <3>1. \A i \in 1 .. Len(w) : i \notin P
      BY <1>4, <1>7
    <3>2. ToldRows(w) = NamesAt(w, P)
      BY DEF ToldRows
    <3> HIDE DEF P
    <3> QED BY <1>4, <3>1, <3>2, NoNames
  <2>3. NamesAt(p \o e, Acquired(p \o e)) = NamesAt(p, Acquired(p)) \o << >>
    BY <1>5, <1>9, <2>1, AcquiredConcat
  <2>4. ToldRows(r \o w) = ToldRows(r) \o << >>
    BY <1>4, <1>9, <2>2, ToldConcat
  <2>5. ToldRows(r) = NamesAt(p, Acquired(p))
    BY <1>13 DEF Balanced, p, r
  <2> QED BY <1>11, <2>3, <2>4, <2>5 DEF Balanced
<1> QED BY <1>11, <1>12, <1>13 DEF Loots

(* An event is told, and the loot it closes is.                            *)
LootKeys == {"LootMessage", "LootTransaction", "LootDrops", "ZoneChanged"}

LootTold == Told \cup Shown

LEMMA ObserveGrows ==
  ASSUME NEW ctx, NEW s, IsState(s), NEW k, k # "LootAcquired",
         NEW t \in ObserveEvent(ctx, s, k)
  PROVE  /\ IsState(t)
         /\ Balanced(s) => Balanced(t)
         /\ Grows(s, t, Says(k) \cup LootTold)
         /\ ctx.backend # "eql" /\ k \notin Aside => Still(s, t)
         /\ k \notin LootKeys => t = Tell(s, k)
<1> DEFINE u == Tell(s, k)
           K == Says(k) \cup LootTold
<1>1. /\ IsState(u) /\ (Balanced(s) => Balanced(u))
      /\ k \notin Aside => Still(s, u)
      /\ Grows(s, u, Says(k))
  BY TellGrows
<1>2. /\ k \notin LootKeys => t = u
      /\ ctx.backend # "eql" => t = u
      /\ \/ t = u
         \/ t \in PairLoot(u, k)
         \/ t \in OpenWindow(u)
         \/ t = CloseLoot(u)
  BY DEF ObserveEvent, LootKeys
<1> HIDE DEF u, K
<1>3. Grows(s, u, K)
  BY <1>1, GrowsMore DEF K
<1>4. ASSUME NEW M, M \subseteq LootTold, Loots(u, t, M)
      PROVE  IsState(t) /\ (Balanced(s) => Balanced(t)) /\ Grows(s, t, K)
  <2>1. IsState(t) /\ (Balanced(s) => Balanced(t)) /\ Grows(u, t, M)
    BY <1>1, <1>4 DEF Loots
  <2>2. Grows(u, t, K)
    BY <1>4, <2>1, GrowsMore DEF K
  <2> QED BY <1>1, <1>3, <2>1, <2>2, GrowsFurther
<1>5. CASE t = u
  BY <1>1, <1>2, <1>3, <1>5 DEF u, K
<1>6. CASE t # u
  <2>1. Loots(u, t, Told) \/ Loots(u, t, Shown)
    BY <1>1, <1>2, <1>6, PairLoots, WindowLoots, CloseLoots
  <2>2. Told \subseteq LootTold /\ Shown \subseteq LootTold
    BY DEF LootTold
  <2> QED BY <1>2, <1>4, <1>6, <2>1, <2>2 DEF u, K
<1> QED BY <1>5, <1>6

(* No event of these kinds.                                                *)
Without(kinds, K) == \A i \in 1 .. Len(kinds) : kinds[i] \notin K

(* A sequence of events is told, from one of the states there were.        *)
ToldFor(kinds) == UNION {Says(kinds[i]) : i \in 1 .. Len(kinds)}

LEMMA ObserveAllGrows ==
  ASSUME NEW ctx, NEW states, \A s \in states : IsState(s),
         NEW kinds, IsSeq(kinds), Without(kinds, {"LootAcquired"}),
         NEW t \in ObserveAll(ctx, states, kinds)
  PROVE  \E s \in states :
           /\ IsState(t)
           /\ Balanced(s) => Balanced(t)
           /\ Grows(s, t, ToldFor(kinds) \cup LootTold)
           /\ ctx.backend # "eql" /\ Without(kinds, Aside) => Still(s, t)
<1> DEFINE L == Len(kinds)
           K == ToldFor(kinds) \cup LootTold
           Bare == ctx.backend # "eql" /\ Without(kinds, Aside)
           From(s, u) == /\ IsState(u) /\ (Balanced(s) => Balanced(u))
                         /\ Grows(s, u, K) /\ (Bare => Still(s, u))
<1>1. L \in Nat
  BY SeqLen
<1>2. PICK f : /\ f[0] = states
               /\ \A n \in 1 .. L :
                    f[n] = Observe(ctx, f[n - 1], kinds[n])
               /\ ObserveAll(ctx, states, kinds) = f[L]
  BY <1>1, ObserveRuns
<1> DEFINE S == {n \in Nat : n <= L => \A u \in f[n] : \E s \in states : From(s, u)}
<1>3. 0 \in S
  <2>1. ASSUME NEW u \in states PROVE From(u, u)
    BY <2>1, GrowsNot DEF Still
  <2> HIDE DEF From
  <2> QED BY <1>2, <2>1
<1>4. ASSUME NEW n \in Nat, n \in S PROVE n + 1 \in S
  <2> HIDE DEF From
  <2> SUFFICES ASSUME n + 1 <= L, NEW v \in f[n + 1] PROVE \E s \in states : From(s, v)
    OBVIOUS
  <2> DEFINE k == n + 1
  <2>1. k \in 1 .. L /\ k - 1 = n
    BY <1>1
  <2>2. \A u \in f[n] : \E s \in states : From(s, u)
    BY <1>1, <1>4
  <2> HIDE DEF k, S
  <2>3. PICK u \in f[n] : v \in ObserveEvent(ctx, u, kinds[k])
    <3>1. v \in f[k]
      BY DEF k
    <3>2. v \in Observe(ctx, f[n], kinds[k])
      BY <1>2, <2>1, <3>1
    <3> QED BY <3>2 DEF Observe
  <2>4. PICK s \in states : From(s, u)
    BY <2>2
  <2>5. kinds[k] # "LootAcquired" /\ Says(kinds[k]) \subseteq ToldFor(kinds)
    BY <2>1 DEF ToldFor, Without
  <2>6. IsState(u) /\ IsState(s)
    BY <2>4 DEF From
  <2>7. /\ IsState(v) /\ (Balanced(u) => Balanced(v))
        /\ Grows(u, v, Says(kinds[k]) \cup LootTold)
        /\ ctx.backend # "eql" /\ kinds[k] \notin Aside => Still(u, v)
    BY <2>3, <2>5, <2>6, ObserveGrows
  <2>8. Grows(u, v, K)
    <3> DEFINE M == Says(kinds[k]) \cup LootTold
    <3>1. M \subseteq K /\ Grows(u, v, M)
      BY <2>5, <2>7
    <3> HIDE DEF M, K
    <3> QED BY <3>1, GrowsMore
  <2> HIDE DEF K
  <2>9. Grows(s, v, K)
    BY <2>4, <2>6, <2>7, <2>8, GrowsFurther DEF From
  <2>10. Bare => Still(s, v)
    BY <2>1, <2>4, <2>7 DEF Still, From, Without
  <2>11. Balanced(s) => Balanced(v)
    BY <2>4, <2>7 DEF From
  <2>12. From(s, v)
    BY <2>7, <2>9, <2>10, <2>11 DEF From
  <2> QED BY <2>12
<1>5. L \in S
  <2> HIDE DEF S
  <2> QED BY <1>1, <1>3, <1>4, Induction
<1>6. \E s \in states : From(s, t)
  <2>1. L <= L
    BY <1>1
  <2> QED BY <1>2, <1>5, <2>1
<1> QED BY <1>6

(* Without loot, the events are told one for one.                          *)
Adds(s, t, kinds) ==
  /\ Len(t.out) = Len(s.out) + Len(kinds)
  /\ \A i \in 1 .. Len(s.out) : t.out[i] = s.out[i]
  /\ \A n \in 1 .. Len(kinds) : t.out[Len(s.out) + n].kind = ToldAs(kinds[n])

LEMMA ObserveAllTells ==
  ASSUME NEW ctx, NEW states, \A s \in states : IsState(s),
         NEW kinds, IsSeq(kinds),
         Without(kinds, LootKeys \cup {"LootAcquired", "SelfStat"}),
         NEW t \in ObserveAll(ctx, states, kinds)
  PROVE  \E s \in states : Adds(s, t, kinds)
<1> DEFINE L == Len(kinds)
           From(s, u, n) ==
             /\ IsState(u)
             /\ Len(u.out) = Len(s.out) + n
             /\ \A i \in 1 .. Len(s.out) : u.out[i] = s.out[i]
             /\ \A m \in 1 .. n : u.out[Len(s.out) + m].kind = ToldAs(kinds[m])
<1>1. L \in Nat
  BY SeqLen
<1>2. PICK f : /\ f[0] = states
               /\ \A n \in 1 .. L :
                    f[n] = Observe(ctx, f[n - 1], kinds[n])
               /\ ObserveAll(ctx, states, kinds) = f[L]
  BY <1>1, ObserveRuns
<1> DEFINE S == {n \in Nat : n <= L => \A u \in f[n] : \E s \in states : From(s, u, n)}
<1>3. 0 \in S
  <2>1. ASSUME NEW u \in states PROVE From(u, u, 0)
    BY <2>1, StateFacts
  <2> HIDE DEF From
  <2> QED BY <1>2, <2>1
<1>4. ASSUME NEW n \in Nat, n \in S PROVE n + 1 \in S
  <2> HIDE DEF From
  <2> SUFFICES ASSUME n + 1 <= L, NEW v \in f[n + 1]
               PROVE  \E s \in states : From(s, v, n + 1)
    OBVIOUS
  <2> DEFINE k == n + 1
  <2>1. k \in 1 .. L /\ k - 1 = n
    BY <1>1
  <2>2. \A u \in f[n] : \E s \in states : From(s, u, n)
    BY <1>1, <1>4
  <2> HIDE DEF k, S
  <2>3. PICK u \in f[n] : v \in ObserveEvent(ctx, u, kinds[k])
    <3>1. v \in f[k]
      BY DEF k
    <3>2. v \in Observe(ctx, f[n], kinds[k])
      BY <1>2, <2>1, <3>1
    <3> QED BY <3>2 DEF Observe
  <2>4. PICK s \in states : From(s, u, n)
    BY <2>2
  <2>5. kinds[k] # "LootAcquired" /\ kinds[k] # "SelfStat" /\ kinds[k] \notin LootKeys
    BY <2>1 DEF Without
  <2>6. IsState(u) /\ IsState(s) /\ Len(s.out) \in Nat
    BY <2>4, StateFacts DEF From
  <2>7. v = Tell(u, kinds[k]) /\ IsState(v)
    BY <2>3, <2>5, <2>6, ObserveGrows
  <2>8. /\ Len(v.out) = Len(u.out) + 1
        /\ \A i \in 1 .. Len(u.out) : v.out[i] = u.out[i]
        /\ v.out[Len(u.out) + 1].kind = ToldAs(kinds[k])
    <3> DEFINE l == kinds[k]
    <3>1. l # "LootAcquired" /\ l # "SelfStat" /\ v = Tell(u, l)
      BY <2>5, <2>7
    <3> HIDE DEF l
    <3>2. /\ Len(Tell(u, l).out) = Len(u.out) + 1
          /\ \A i \in 1 .. Len(u.out) : Tell(u, l).out[i] = u.out[i]
          /\ Tell(u, l).out[Len(u.out) + 1].kind = ToldAs(l)
      BY <2>6, <3>1, TellGrows, Zenon
    <3> QED BY <3>1, <3>2 DEF l
  <2>9. Len(u.out) = Len(s.out) + n /\ Len(s.out) + k = Len(u.out) + 1
    <3>1. Len(u.out) = Len(s.out) + n
      BY <2>4, Zenon DEF From
    <3> DEFINE a == Len(s.out)
               b == Len(u.out)
    <3>2. a \in Nat /\ b = a + n
      BY <2>6, <3>1
    <3> HIDE DEF a, b
    <3>3. a + k = b + 1
      BY <3>2 DEF k
    <3> QED BY <3>1, <3>3 DEF a, b
  <2>10. \A i \in 1 .. Len(s.out) : v.out[i] = s.out[i]
    BY <2>4, <2>6, <2>8, <2>9 DEF From
  <2>11. ASSUME NEW m \in 1 .. k PROVE v.out[Len(s.out) + m].kind = ToldAs(kinds[m])
    <3>1. CASE m = k
      BY <2>8, <2>9, <3>1
    <3>2. CASE m # k
      <4>1. m \in 1 .. n /\ Len(s.out) + m \in 1 .. Len(u.out)
        BY <2>6, <2>9, <3>2 DEF k
      <4> QED BY <2>4, <2>8, <4>1 DEF From
    <3> QED BY <3>1, <3>2
  <2>12. Len(v.out) = Len(s.out) + k
    BY <2>8, <2>9
  <2>13. From(s, v, k)
    BY <2>7, <2>10, <2>11, <2>12 DEF From
  <2> QED BY <2>13 DEF k
<1>5. L \in S
  <2> HIDE DEF S
  <2> QED BY <1>1, <1>3, <1>4, Induction
<1>6. \E s \in states : From(s, t, L)
  <2>1. L <= L
    BY <1>1
  <2> HIDE DEF From
  <2> QED BY <1>2, <1>5, <2>1
<1> QED BY <1>6 DEF Adds

LEMMA TellAllGrows ==
  ASSUME NEW s, IsState(s), NEW kinds, IsSeq(kinds),
         Without(kinds, Aside \cup {"LootAcquired"})
  PROVE  /\ IsState(TellAll(s, kinds))
         /\ Balanced(s) => Balanced(TellAll(s, kinds))
         /\ Grows(s, TellAll(s, kinds), ToldFor(kinds))
         /\ Still(s, TellAll(s, kinds))
<1> DEFINE L == Len(kinds)
           K == ToldFor(kinds)
           Is(u) == /\ IsState(u) /\ (Balanced(s) => Balanced(u))
                    /\ Grows(s, u, K) /\ Still(s, u)
<1>1. L \in Nat
  BY SeqLen
<1>2. PICK f : /\ f[0] = s
               /\ \A n \in 1 .. L : f[n] = Tell(f[n - 1], kinds[n])
               /\ TellAll(s, kinds) = f[L]
  BY <1>1, TellRuns
<1> DEFINE S == {n \in Nat : n <= L => Is(f[n])}
<1>3. 0 \in S
  BY <1>2, GrowsNot DEF Still
<1>4. ASSUME NEW n \in Nat, n \in S PROVE n + 1 \in S
  <2> SUFFICES ASSUME n + 1 <= L PROVE Is(f[n + 1])
    BY DEF S
  <2> DEFINE k == n + 1
             u == f[n]
             v == f[k]
  <2>1. k \in 1 .. L /\ k - 1 = n
    BY <1>1
  <2>2. Is(u)
    BY <1>1, <1>4
  <2>3. v = Tell(u, kinds[k])
    <3> HIDE DEF k
    <3> QED BY <1>2, <2>1
  <2> HIDE DEF k, S, u, v
  <2>4. kinds[k] # "LootAcquired" /\ kinds[k] \notin Aside
        /\ Says(kinds[k]) \subseteq ToldFor(kinds)
    BY <2>1 DEF ToldFor, Without
  <2>5. /\ IsState(v) /\ (Balanced(u) => Balanced(v)) /\ Still(u, v)
        /\ Grows(u, v, Says(kinds[k]))
    BY <2>2, <2>3, <2>4, TellGrows
  <2>6. Grows(u, v, K)
    BY <2>4, <2>5, GrowsMore
  <2>7. Grows(s, v, K)
    <3> HIDE DEF K
    <3> QED BY <2>2, <2>5, <2>6, GrowsFurther
  <2>8. Still(s, v)
    BY <2>2, <2>5 DEF Still
  <2>9. Is(v)
    BY <2>2, <2>5, <2>7, <2>8
  <2> QED BY <2>9 DEF k, v
<1>5. L \in S
  <2> HIDE DEF S
  <2> QED BY <1>1, <1>3, <1>4, Induction
<1>6. Is(f[L])
  <2>1. L <= L
    BY <1>1
  <2> QED BY <1>5, <2>1
<1> QED BY <1>2, <1>6

-----------------------------------------------------------------------------
(* What follows what: sets of sequences                                    *)

LEMMA UpToSeq ==
  ASSUME NEW S, NEW kind \in S, NEW n \in Nat
  PROVE  UpTo(n, kind) \subseteq Seq(S)
<1>1. ASSUME NEW m \in 0 .. n PROVE [i \in 1 .. m |-> kind] \in Seq(S)
  <2>1. [i \in 1 .. m |-> kind] \in [1 .. m -> S] /\ m \in Nat
    OBVIOUS
  <2> QED BY <2>1
<1> QED BY <1>1 DEF UpTo

LEMMA MaybeSeq ==
  ASSUME NEW S, NEW kind \in S
  PROVE  Maybe(kind) \subseteq Seq(S)
BY UpToSeq DEF Maybe

LEMMA ThenSeq ==
  ASSUME NEW S, NEW A, A \subseteq Seq(S), NEW B, B \subseteq Seq(S)
  PROVE  Then(A, B) \subseteq Seq(S)
<1>1. ASSUME NEW a \in A, NEW b \in B PROVE a \o b \in Seq(S)
  <2>1. a \in Seq(S) /\ b \in Seq(S)
    OBVIOUS
  <2> QED BY <2>1, ConcatProperties
<1>2. ASSUME NEW x \in Then(A, B) PROVE x \in Seq(S)
  <2>1. PICK a \in A, b \in B : x = a \o b
    BY DEF Then
  <2> QED BY <1>1, <2>1
<1> QED BY <1>2

LEMMA NoneSeq == ASSUME NEW S PROVE {<< >>} \subseteq Seq(S)
OBVIOUS

LEMMA OneSeq == ASSUME NEW S, NEW a \in S PROVE {<<a>>} \subseteq Seq(S)
OBVIOUS

LEMMA TwoSeq ==
  ASSUME NEW S, NEW a \in S, NEW b \in S PROVE {<<a, b>>} \subseteq Seq(S)
OBVIOUS

LEMMA ThreeSeq ==
  ASSUME NEW S, NEW a \in S, NEW b \in S, NEW c \in S
  PROVE  {<<a, b, c>>} \subseteq Seq(S)
OBVIOUS

(* Every choice is of kinds in S, so what they make together is.           *)
LEMMA JoinedSeq ==
  ASSUME NEW S, NEW choices, Len(choices) \in Nat,
         \A n \in 1 .. Len(choices) : choices[n] \subseteq Seq(S)
  PROVE  Joined(choices) \subseteq Seq(S)
<1> DEFINE L == Len(choices)
<1>1. PICK f : /\ f[0] = {<< >>}
               /\ \A n \in 1 .. L : f[n] = Then(f[n - 1], choices[n])
               /\ Joined(choices) = f[L]
  BY JoinRuns
<1> DEFINE T == {n \in Nat : n <= L => f[n] \subseteq Seq(S)}
<1>2. 0 \in T
  BY <1>1, NoneSeq
<1>3. ASSUME NEW n \in Nat, n \in T PROVE n + 1 \in T
  <2> SUFFICES ASSUME n + 1 <= L PROVE f[n + 1] \subseteq Seq(S)
    OBVIOUS
  <2> DEFINE k == n + 1
             A == f[n]
             B == choices[k]
  <2>1. k \in 1 .. L /\ k - 1 = n /\ A \subseteq Seq(S)
    BY <1>3
  <2>2. B \subseteq Seq(S)
    <3> HIDE DEF k
    <3> QED BY <2>1
  <2>3. f[k] = Then(A, B)
    <3> HIDE DEF k
    <3> QED BY <1>1, <2>1
  <2> HIDE DEF k, A, B
  <2>4. f[k] \subseteq Seq(S)
    BY <2>1, <2>2, <2>3, ThenSeq
  <2> QED BY <2>4 DEF k
<1>4. L \in T
  <2> HIDE DEF T
  <2> QED BY <1>2, <1>3, Induction
<1> QED BY <1>1, <1>4

(* A kind first, and others after it.                                      *)
Led(kind, S) == {<<kind>> \o q : q \in Seq(S)}

LEMMA ThenLed ==
  ASSUME NEW S, NEW kind, NEW A, A \subseteq Led(kind, S), NEW B, B \subseteq Seq(S)
  PROVE  Then(A, B) \subseteq Led(kind, S)
<1>1. ASSUME NEW a \in A, NEW b \in B PROVE a \o b \in Led(kind, S)
  <2>1. PICK q \in Seq(S) : a = <<kind>> \o q
    BY DEF Led
  <2>2. b \in Seq(S)
    OBVIOUS
  <2>3. (<<kind>> \o q) \o b = <<kind>> \o (q \o b)
    <3> DEFINE T == S \cup {kind}
    <3>1. q \in Seq(T) /\ b \in Seq(T) /\ <<kind>> \in Seq(T)
      <4>1. q \in Seq(T) /\ b \in Seq(T)
        BY <2>1, <2>2, SeqMonotonic
      <4>2. kind \in T
        OBVIOUS
      <4> QED BY <4>1, <4>2
    <3> HIDE DEF T
    <3> QED BY <3>1, ConcatAssociative
  <2>4. q \o b \in Seq(S)
    BY <2>1, <2>2, ConcatProperties
  <2> QED BY <2>1, <2>3, <2>4 DEF Led
<1>2. ASSUME NEW x \in Then(A, B) PROVE x \in Led(kind, S)
  <2>1. PICK a \in A, b \in B : x = a \o b
    BY DEF Then
  <2> QED BY <1>1, <2>1
<1> QED BY <1>2

LEMMA JoinedLed ==
  ASSUME NEW S, NEW kind, NEW choices, Len(choices) \in Nat, Len(choices) > 0,
         choices[1] \subseteq Led(kind, S),
         \A n \in 2 .. Len(choices) : choices[n] \subseteq Seq(S)
  PROVE  Joined(choices) \subseteq Led(kind, S)
<1> DEFINE L == Len(choices)
<1>1. PICK f : /\ f[0] = {<< >>}
               /\ \A n \in 1 .. L : f[n] = Then(f[n - 1], choices[n])
               /\ Joined(choices) = f[L]
  BY JoinRuns
<1>a. f[1] \subseteq Led(kind, S)
  <2>1. f[1] = Then({<< >>}, choices[1])
    <3> DEFINE k == 1
    <3>1. k \in 1 .. L /\ k - 1 = 0
      OBVIOUS
    <3> HIDE DEF k
    <3>2. f[k] = Then(f[0], choices[k])
      BY <1>1, <3>1
    <3> QED BY <1>1, <3>2 DEF k
  <2>2. ASSUME NEW b \in Led(kind, S) PROVE << >> \o b = b
    <3>1. PICK q \in Seq(S) : b = <<kind>> \o q
      BY DEF Led
    <3> DEFINE T == S \cup {kind}
    <3>2. q \in Seq(T) /\ <<kind>> \in Seq(T)
      <4>1. q \in Seq(T)
        BY SeqMonotonic
      <4>2. kind \in T
        OBVIOUS
      <4> QED BY <4>1, <4>2
    <3> HIDE DEF T
    <3>3. b \in Seq(T)
      BY <3>1, <3>2, ConcatProperties
    <3> QED BY <3>3, ConcatEmptySeq
  <2>3. \A b \in choices[1] : << >> \o b = b
    BY <2>2
  <2>4. Then({<< >>}, choices[1]) \subseteq choices[1]
    BY <2>3 DEF Then
  <2> QED BY <2>1, <2>4
<1> DEFINE T == {n \in Nat : 1 <= n /\ n <= L => f[n] \subseteq Led(kind, S)}
<1>2. 0 \in T
  OBVIOUS
<1>3. ASSUME NEW n \in Nat, n \in T PROVE n + 1 \in T
  <2> SUFFICES ASSUME n + 1 <= L PROVE f[n + 1] \subseteq Led(kind, S)
    OBVIOUS
  <2>0. CASE n = 0
    BY <1>a, <2>0
  <2>5. CASE n # 0
    <3> DEFINE k == n + 1
               A == f[n]
               B == choices[k]
    <3>1. k \in 1 .. L /\ k \in 2 .. L /\ k - 1 = n /\ A \subseteq Led(kind, S)
      BY <1>3, <2>5
    <3>2. B \subseteq Seq(S)
      <4> HIDE DEF k
      <4> QED BY <3>1
    <3>3. f[k] = Then(A, B)
      <4> HIDE DEF k
      <4> QED BY <1>1, <3>1
    <3> HIDE DEF k, A, B
    <3>4. f[k] \subseteq Led(kind, S)
      BY <3>1, <3>2, <3>3, ThenLed
    <3> QED BY <3>4 DEF k
  <2> QED BY <2>0, <2>5
<1>4. L \in T
  <2> HIDE DEF T
  <2> QED BY <1>2, <1>3, Induction
<1> QED BY <1>1, <1>4

-----------------------------------------------------------------------------
(* What a reset closes                                                     *)

Closed == {"SpellCastInterrupted", "BuffRemoved", "GroupRosterUpdated",
           "GuildRosterUpdated", "DynamicZoneUpdated"}

LEMMA ClosingsSeq == Closings \subseteq Seq(Closed)
<1>1. /\ UpTo(MaxPending, "SpellCastInterrupted") \subseteq Seq(Closed)
      /\ UpTo(MaxPending, "BuffRemoved") \subseteq Seq(Closed)
  <2>1. "SpellCastInterrupted" \in Closed /\ "BuffRemoved" \in Closed
    BY DEF Closed
  <2> QED BY <2>1, PendingAssumption, UpToSeq
<1>2. /\ Maybe("GroupRosterUpdated") \subseteq Seq(Closed)
      /\ Maybe("GuildRosterUpdated") \subseteq Seq(Closed)
      /\ Maybe("DynamicZoneUpdated") \subseteq Seq(Closed)
  <2>1. /\ "GroupRosterUpdated" \in Closed /\ "GuildRosterUpdated" \in Closed
        /\ "DynamicZoneUpdated" \in Closed
    BY DEF Closed
  <2> QED BY <2>1, MaybeSeq
<1>3. Then(Maybe("GuildRosterUpdated"), Maybe("DynamicZoneUpdated")) \subseteq Seq(Closed)
  BY <1>2, ThenSeq
<1>4. Then(Maybe("GroupRosterUpdated"),
           Then(Maybe("GuildRosterUpdated"), Maybe("DynamicZoneUpdated")))
        \subseteq Seq(Closed)
  BY <1>2, <1>3, ThenSeq
<1>5. Then(UpTo(MaxPending, "BuffRemoved"),
           Then(Maybe("GroupRosterUpdated"),
                Then(Maybe("GuildRosterUpdated"), Maybe("DynamicZoneUpdated"))))
        \subseteq Seq(Closed)
  BY <1>1, <1>4, ThenSeq
<1> QED BY <1>1, <1>5, ThenSeq DEF Closings

LEMMA StatsDropped ==
  ASSUME NEW s, IsState(s), NEW t, t = [s EXCEPT !.self_stats = 0]
  PROVE  IsState(t) /\ t.out = s.out /\ t.loot_rows = s.loot_rows
<1>1. s = [out |-> s.out, open |-> s.open, loot_rows |-> s.loot_rows,
           self_stats |-> s.self_stats]
  BY DEF IsState
<1>2. t = [out |-> s.out, open |-> s.open, loot_rows |-> s.loot_rows,
           self_stats |-> 0]
  BY <1>1
<1>3. /\ t.open = s.open /\ t.out = s.out
      /\ t.loot_rows = s.loot_rows /\ t.self_stats = 0
  BY <1>2
<1>4. IsState(t)
  BY <1>2, <1>3 DEF IsState
<1> QED BY <1>3, <1>4

LEMMA ResetGrows ==
  ASSUME NEW ctx, NEW s, IsState(s), NEW t \in ResetCorrelations(ctx, s)
  PROVE  /\ IsState(t)
         /\ Balanced(s) => Balanced(t)
         /\ Grows(s, t, ClosingKinds)
         /\ ctx.backend # "eql" => Still(s, t)
<1> DEFINE Eql == ctx.backend = "eql"
<1>1. PICK q \in Closings :
        t = LET told == TellAll(s, q)
            IN  IF Eql THEN CloseLoot([told EXCEPT !.self_stats = 0]) ELSE told
  BY DEF ResetCorrelations
<1> DEFINE u == TellAll(s, q)
           v == [u EXCEPT !.self_stats = 0]
<1>2. t = IF Eql THEN CloseLoot(v) ELSE u
  BY <1>1
<1>3. q \in Seq(Closed)
  BY ClosingsSeq
<1>4. /\ IsSeq(q)
      /\ Without(q, Aside \cup {"LootAcquired"})
      /\ ToldFor(q) \subseteq ClosingKinds
  <2>1. IsSeq(q)
    BY <1>3 DEF IsSeq
  <2>2. \A i \in 1 .. Len(q) : q[i] \in Closed
    BY <1>3
  <2>3. \A k \in Closed : /\ k \notin Aside \cup {"LootAcquired"}
                          /\ Says(k) \subseteq ClosingKinds
    BY DEF Closed, Aside, Says, ToldAs, ClosingKinds
  <2>4. Without(q, Aside \cup {"LootAcquired"})
    BY <2>2, <2>3 DEF Without
  <2>5. ToldFor(q) \subseteq ClosingKinds
    BY <2>2, <2>3 DEF ToldFor
  <2> QED BY <2>1, <2>4, <2>5
<1> HIDE DEF u, v, Eql
<1>5. /\ IsState(u) /\ (Balanced(s) => Balanced(u)) /\ Still(s, u)
      /\ Grows(s, u, ToldFor(q))
  BY <1>4, TellAllGrows DEF u
<1>6. Grows(s, u, ClosingKinds)
  BY <1>4, <1>5, GrowsMore
<1>7. CASE ~Eql
  BY <1>2, <1>5, <1>6, <1>7 DEF Eql
<1>8. CASE Eql
  <2>1. IsState(v) /\ v.out = u.out /\ v.loot_rows = u.loot_rows
    BY <1>5, StatsDropped DEF v
  <2>2. Loots(v, CloseLoot(v), Told)
    BY <2>1, CloseLoots
  <2>3. t = CloseLoot(v)
    BY <1>2, <1>8
  <2>4. IsState(t) /\ (Balanced(v) => Balanced(t)) /\ Grows(v, t, Told)
    BY <2>2, <2>3 DEF Loots
  <2>5. Balanced(u) => Balanced(v)
    BY <2>1 DEF Balanced
  <2>6. Grows(u, t, Told)
    BY <2>1, <2>4 DEF Grows
  <2>7. Told \subseteq ClosingKinds
    BY DEF Told, ClosingKinds
  <2>8. Grows(u, t, ClosingKinds)
    BY <2>6, <2>7, GrowsMore
  <2>9. Grows(s, t, ClosingKinds)
    BY <1>5, <1>6, <2>4, <2>8, GrowsFurther
  <2> QED BY <1>5, <1>8, <2>4, <2>5, <2>9 DEF Eql
<1> QED BY <1>7, <1>8

-----------------------------------------------------------------------------
(* Tables                                                                  *)

LEMMA MergedHas ==
  ASSUME NEW families, NEW i \in DOMAIN families, NEW x \in DOMAIN families[i]
  PROVE  x \in DOMAIN Merged(families)
BY DEF Merged

LEMMA MergedFrom ==
  ASSUME NEW families, NEW x \in DOMAIN Merged(families)
  PROVE  \E i \in DOMAIN families :
           x \in DOMAIN families[i] /\ Merged(families)[x] = families[i][x]
<1> DEFINE In(i) == i \in DOMAIN families /\ x \in DOMAIN families[i]
           i == CHOOSE i \in DOMAIN families : x \in DOMAIN families[i]
<1>1. \E j \in DOMAIN families : x \in DOMAIN families[j]
  BY DEF Merged
<1>2. i \in DOMAIN families /\ x \in DOMAIN families[i]
  BY <1>1
<1>3. Merged(families)[x] = families[i][x]
  BY DEF Merged
<1> HIDE DEF i
<1> QED BY <1>2, <1>3

(* Twelve families of kinds.                                               *)
LEMMA KindsAre ==
  /\ DOMAIN PlayerKinds \subseteq Kinds /\ DOMAIN SpawnKinds \subseteq Kinds
  /\ DOMAIN ZoneKinds \subseteq Kinds /\ DOMAIN ItemKinds \subseteq Kinds
  /\ DOMAIN GuildKinds \subseteq Kinds /\ DOMAIN WorldKinds \subseteq Kinds
  /\ DOMAIN CombatKinds \subseteq Kinds /\ DOMAIN ProgressKinds \subseteq Kinds
  /\ DOMAIN LootKinds \subseteq Kinds /\ DOMAIN ChatKinds \subseteq Kinds
  /\ DOMAIN BuffKinds \subseteq Kinds /\ DOMAIN GroupKinds \subseteq Kinds
<1> DEFINE F == <<PlayerKinds, SpawnKinds, ZoneKinds, ItemKinds, GuildKinds,
                  WorldKinds, CombatKinds, ProgressKinds, LootKinds, ChatKinds,
                  BuffKinds, GroupKinds>>
<1>1. Kinds = DOMAIN Merged(F)
  BY DEF Kinds, Optional
<1>2. /\ F[1] = PlayerKinds /\ F[2] = SpawnKinds /\ F[3] = ZoneKinds
      /\ F[4] = ItemKinds /\ F[5] = GuildKinds /\ F[6] = WorldKinds
      /\ F[7] = CombatKinds /\ F[8] = ProgressKinds /\ F[9] = LootKinds
      /\ F[10] = ChatKinds /\ F[11] = BuffKinds /\ F[12] = GroupKinds
  OBVIOUS
<1>3. DOMAIN F = 1 .. 12
  OBVIOUS
<1> HIDE DEF F
<1>4. \A i \in 1 .. 12 : DOMAIN F[i] \subseteq Kinds
  BY <1>1, <1>3, MergedHas
<1> QED BY <1>2, <1>4

-----------------------------------------------------------------------------
(* The stages                                                              *)

(* What the stages add, and what reaches them of a packet that does not    *)
(* reset.                                                                  *)
MadePlayer == {"PlayerIdentityUpdated", "PlayerMoved", "PlayerVitalsUpdated",
               "SpawnHealthUpdated", "PlayerDied", "SpawnDied",
               "SpawnIdentityUpdated", "PlayerAppearanceUpdated",
               "SpawnAdded", "SpawnMoved"}
MadeItems == {"InventorySnapshot", "InventoryItemUpdated", "EquipmentSnapshot",
              "EquipmentSlotUpdated", "MoneyBalanceUpdated"}
MadeProgress == {"AlternateAbilityDefined", "ExperienceUpdated",
                 "AlternateAdvancementUpdated", "AlternateAdvancementSnapshot",
                 "SkillsSnapshot", "SkillValueUpdated"}
MadeCombat == {"CombatDamage", "SpellActionResolved", "SpellCastStarted",
               "SpellCastInterrupted", "BuffAdded", "BuffUpdated", "BuffRemoved"}
MadeTold == {"ChatMessage", "GroupRosterUpdated", "GuildRosterUpdated",
             "GuildMotdUpdated", "GuildRankNamesUpdated", "DynamicZoneUpdated"}
Made == MadePlayer \cup MadeItems \cup MadeProgress \cup MadeCombat \cup MadeTold

LEMMA MadeAreKinds == Made \subseteq Kinds
<1>1. MadePlayer \subseteq DOMAIN PlayerKinds \cup DOMAIN SpawnKinds
  BY DEF MadePlayer, PlayerKinds, SpawnKinds
<1>2. MadeItems \subseteq DOMAIN ItemKinds \cup DOMAIN LootKinds
  BY DEF MadeItems, ItemKinds, LootKinds
<1>3. MadeProgress \subseteq DOMAIN ProgressKinds
  BY DEF MadeProgress, ProgressKinds
<1>4. MadeCombat \subseteq DOMAIN CombatKinds \cup DOMAIN BuffKinds
  BY DEF MadeCombat, CombatKinds, BuffKinds
<1>5. MadeTold \subseteq DOMAIN ChatKinds \cup DOMAIN ZoneKinds \cup DOMAIN GuildKinds
                        \cup DOMAIN GroupKinds
  BY DEF MadeTold, ChatKinds, ZoneKinds, GuildKinds, GroupKinds
<1> QED BY <1>1, <1>2, <1>3, <1>4, <1>5, KindsAre DEF Made

Causes(ctx) == {k \in {"EnterWorld", "PlayerProfile", "ZoneTransition"} : Resets(ctx, k)}
Own == {"SessionReset", "LootAcquired"}
Given(ctx) == Kinds \ (Own \cup Causes(ctx))
Heard(ctx) == (Kinds \cup (IF ctx.backend = "eql" THEN Aside ELSE {}))
              \ (WireKinds \cup Own \cup Causes(ctx))

LEMMA MadeAreHeard == ASSUME NEW ctx PROVE Made \subseteq Heard(ctx)
<1>1. Made \cap (WireKinds \cup Own \cup {"EnterWorld", "PlayerProfile", "ZoneTransition"}) = {}
  BY DEF Made, MadePlayer, MadeItems, MadeProgress, MadeCombat, MadeTold, WireKinds, Own
<1>2. Causes(ctx) \subseteq {"EnterWorld", "PlayerProfile", "ZoneTransition"}
  BY DEF Causes
<1> QED BY <1>1, <1>2, MadeAreKinds DEF Heard

LEMMA SpawnRoutesHeard ==
  ASSUME NEW ctx PROVE SpawnRoutes(ctx) \subseteq Seq(Heard(ctx))
<1> DEFINE H == Heard(ctx)
           phantom == IF ctx.backend = "eql" THEN {<< >>, <<"PendingVitals">>} ELSE {}
           identity == IF ctx.op = "OP_LoadoutSwap" THEN {<< >>}
                       ELSE {<<"PlayerIdentityUpdated">>}
           pending == IF ctx.backend = "eql" THEN Maybe("PendingVitals") ELSE {<< >>}
           player == Then(identity, Then(Maybe("PlayerMoved"),
                          Then(Maybe("PlayerVitalsUpdated"), pending)))
<1>1. /\ "SpawnAdded" \in H /\ "PlayerIdentityUpdated" \in H
      /\ "PlayerMoved" \in H /\ "PlayerVitalsUpdated" \in H
  BY MadeAreHeard DEF Made, MadePlayer
<1>2. ctx.backend = "eql" => "PendingVitals" \in H
  BY DEF Heard, Aside, WireKinds, Own, Causes
<1>3. SpawnRoutes(ctx) = {<<"SpawnAdded">>} \cup phantom \cup player
  BY DEF SpawnRoutes
<1> HIDE DEF H
<1>4. phantom \subseteq Seq(H) /\ identity \subseteq Seq(H) /\ pending \subseteq Seq(H)
  <2>1. pending \subseteq Seq(H)
    BY <1>2, MaybeSeq, NoneSeq
  <2>2. phantom \subseteq Seq(H)
    BY <1>2, OneSeq, NoneSeq
  <2>3. identity \subseteq Seq(H)
    BY <1>1, OneSeq, NoneSeq
  <2> QED BY <2>1, <2>2, <2>3
<1> HIDE DEF phantom, identity, pending
<1>5. Maybe("PlayerMoved") \subseteq Seq(H) /\ Maybe("PlayerVitalsUpdated") \subseteq Seq(H)
  BY <1>1, MaybeSeq
<1>6. Then(Maybe("PlayerVitalsUpdated"), pending) \subseteq Seq(H)
  BY <1>4, <1>5, ThenSeq
<1>7. Then(Maybe("PlayerMoved"), Then(Maybe("PlayerVitalsUpdated"), pending)) \subseteq Seq(H)
  BY <1>5, <1>6, ThenSeq
<1>8. player \subseteq Seq(H)
  BY <1>4, <1>7, ThenSeq
<1>9. {<<"SpawnAdded">>} \subseteq Seq(H)
  BY <1>1, OneSeq
<1> HIDE DEF player
<1> QED BY <1>3, <1>4, <1>8, <1>9 DEF H

LEMMA PlayerStageHeard ==
  ASSUME NEW ctx, NEW k \in Given(ctx)
  PROVE  PlayerStage(ctx, k) \subseteq Seq(Heard(ctx))
<1> DEFINE H == Heard(ctx)
<1>1. /\ "SpawnMoved" \in H /\ "PlayerMoved" \in H /\ "PlayerVitalsUpdated" \in H
      /\ "SpawnHealthUpdated" \in H /\ "PlayerDied" \in H /\ "SpawnDied" \in H
      /\ "PlayerIdentityUpdated" \in H /\ "SpawnIdentityUpdated" \in H
      /\ "PlayerAppearanceUpdated" \in H
  BY MadeAreHeard DEF Made, MadePlayer
<1>2. ctx.backend = "eql" => "SelfVitals" \in H /\ "SelfStat" \in H
  BY DEF Heard, Aside, WireKinds, Own, Causes
<1>3. k \notin WireKinds => k \in H
  BY DEF Given, Heard
<1>4. k # "PlayerProfile"
  BY DEF Given, Causes, Resets
<1> HIDE DEF H
<1>5. CASE k = "SpawnAdded"
  <2>1. PlayerStage(ctx, k) = SpawnRoutes(ctx)
    BY <1>5 DEF PlayerStage
  <2> QED BY <2>1, SpawnRoutesHeard DEF H
<1>6. CASE k = "SelfPos"
  <2>1. PlayerStage(ctx, k) = {IF ctx.dir = "S2C" THEN <<"SpawnMoved">> ELSE <<"PlayerMoved">>}
    BY <1>6 DEF PlayerStage
  <2> QED BY <1>1, <2>1, OneSeq DEF H
<1>7. CASE k = "SpawnHp"
  <2>1. PlayerStage(ctx, k) = {<<"PlayerVitalsUpdated">>, <<"SpawnHealthUpdated">>}
    BY <1>7 DEF PlayerStage
  <2> QED BY <1>1, <2>1, OneSeq DEF H
<1>8. CASE k = "StatSync"
  <2>1. PlayerStage(ctx, k) = StatRoutes(ctx)
    BY <1>8 DEF PlayerStage
  <2>2. ASSUME NEW x \in StatRoutes(ctx) PROVE x \in Seq(H)
    <3>1. \/ x = << >> \/ x = <<"SpawnHealthUpdated">>
          \/ ctx.backend = "eql" /\ (x = <<"SelfVitals">> \/ x = <<"SelfStat">>)
      BY DEF StatRoutes
    <3> QED BY <1>1, <1>2, <3>1, OneSeq, NoneSeq
  <2> QED BY <2>1, <2>2 DEF H
<1>9. CASE k = "ManaUpdate"
  <2>1. PlayerStage(ctx, k) = {<<"PlayerVitalsUpdated">>}
    BY <1>9 DEF PlayerStage
  <2> QED BY <1>1, <2>1, OneSeq DEF H
<1>10. CASE k = "SpawnKilled"
  <2>1. PlayerStage(ctx, k) = {<<"PlayerDied">>, <<"SpawnDied">>}
    BY <1>10 DEF PlayerStage
  <2> QED BY <1>1, <2>1, OneSeq DEF H
<1>11. CASE k = "LoadoutSwap"
  <2>1. PlayerStage(ctx, k) = {<<"PlayerIdentityUpdated">>, <<"SpawnIdentityUpdated">>}
    BY <1>11 DEF PlayerStage
  <2> QED BY <1>1, <2>1, OneSeq DEF H
<1>12. CASE k \in {"SpawnAnimation", "SpawnIllusion"}
  <2>1. PlayerStage(ctx, k) = {<<k>>, <<"PlayerAppearanceUpdated">>}
    BY <1>12 DEF PlayerStage
  <2>2. k \in H
    BY <1>3, <1>12 DEF WireKinds
  <2> QED BY <1>1, <2>1, <2>2, OneSeq DEF H
<1>13. CASE k \notin {"SpawnAdded", "SelfPos", "SpawnHp", "StatSync", "ManaUpdate",
                      "SpawnKilled", "LoadoutSwap", "SpawnAnimation", "SpawnIllusion"}
  <2>1. PlayerStage(ctx, k) = {<<k>>}
    BY <1>4, <1>13 DEF PlayerStage
  <2>2. k \in H
    BY <1>3, <1>13 DEF WireKinds
  <2> QED BY <2>1, <2>2, OneSeq DEF H
<1> QED BY <1>5, <1>6, <1>7, <1>8, <1>9, <1>10, <1>11, <1>12, <1>13

LEMMA ItemUpdatesMade == ItemUpdates \subseteq Seq(Made)
<1>1. "InventoryItemUpdated" \in Made /\ "EquipmentSlotUpdated" \in Made
  BY DEF Made, MadeItems
<1>2. {<<"InventoryItemUpdated">>} \subseteq Seq(Made)
  BY <1>1, OneSeq
<1>3. UpTo(2, "EquipmentSlotUpdated") \subseteq Seq(Made)
  BY <1>1, UpToSeq
<1>4. Then({<<"InventoryItemUpdated">>}, UpTo(2, "EquipmentSlotUpdated")) \subseteq Seq(Made)
  BY <1>2, <1>3, ThenSeq
<1> QED BY <1>4, NoneSeq DEF ItemUpdates

LEMMA AdditionsMade ==
  ASSUME NEW k
  PROVE  Additions(k) \subseteq Seq(Made)
<1>1. /\ "MoneyBalanceUpdated" \in Made /\ "SkillsSnapshot" \in Made
      /\ "AlternateAdvancementSnapshot" \in Made /\ "InventorySnapshot" \in Made
      /\ "EquipmentSnapshot" \in Made /\ "SkillValueUpdated" \in Made
      /\ "ExperienceUpdated" \in Made /\ "PlayerIdentityUpdated" \in Made
      /\ "AlternateAdvancementUpdated" \in Made /\ "AlternateAbilityDefined" \in Made
  BY DEF Made, MadePlayer, MadeItems, MadeProgress
<1>2. CASE k = "PlayerProfile"
  <2>1. Additions(k) = {<<"MoneyBalanceUpdated", "SkillsSnapshot",
                          "AlternateAdvancementSnapshot">>}
    BY <1>2 DEF Additions
  <2> QED BY <1>1, <2>1, ThreeSeq
<1>3. CASE k = "ItemSet"
  <2>1. Additions(k) = {<< >>} \cup {<<"InventorySnapshot", "EquipmentSnapshot">>}
    BY <1>3 DEF Additions
  <2>2. {<<"InventorySnapshot", "EquipmentSnapshot">>} \subseteq Seq(Made)
    BY <1>1, TwoSeq
  <2> QED BY <2>1, <2>2, NoneSeq
<1>4. CASE k = "ItemLearned"
  <2>1. Additions(k) = ItemUpdates
    BY <1>4 DEF Additions
  <2> QED BY <2>1, ItemUpdatesMade
<1>5. CASE k \in {"Money", "SkillUpdate", "Exp", "AaExp", "AaTable"}
  <2>1. \E a \in {"MoneyBalanceUpdated", "SkillValueUpdated", "ExperienceUpdated",
                  "AlternateAdvancementUpdated", "AlternateAbilityDefined"} :
          Additions(k) = Maybe(a)
    BY <1>5 DEF Additions
  <2> QED BY <1>1, <2>1, MaybeSeq
<1>6. CASE k = "LevelUpdate"
  <2>1. Additions(k) = Then(Maybe("PlayerIdentityUpdated"), Maybe("ExperienceUpdated"))
    BY <1>6 DEF Additions
  <2>2. Maybe("PlayerIdentityUpdated") \subseteq Seq(Made)
        /\ Maybe("ExperienceUpdated") \subseteq Seq(Made)
    BY <1>1, MaybeSeq
  <2> QED BY <2>1, <2>2, ThenSeq
<1>7. CASE k \notin {"PlayerProfile", "ItemSet", "ItemLearned", "Money", "SkillUpdate",
                     "Exp", "LevelUpdate", "AaExp", "AaTable"}
  <2>1. Additions(k) = {<< >>}
    BY <1>7 DEF Additions
  <2> QED BY <2>1, NoneSeq
<1> QED BY <1>2, <1>3, <1>4, <1>5, <1>6, <1>7

LEMMA CastEventsMade == CastEvents \subseteq Seq(Made)
<1>1. "SpellCastInterrupted" \in Made /\ "SpellCastStarted" \in Made
  BY DEF Made, MadeCombat
<1>2. /\ Maybe("SpellCastInterrupted") \subseteq Seq(Made)
      /\ {<<"SpellCastStarted">>} \subseteq Seq(Made)
  BY <1>1, MaybeSeq, OneSeq
<1>3. Then(Maybe("SpellCastInterrupted"), {<<"SpellCastStarted">>}) \subseteq Seq(Made)
  BY <1>2, ThenSeq
<1> QED BY <1>3, NoneSeq DEF CastEvents

LEMMA BuffDiffMade == BuffDiff \subseteq Seq(Made)
<1>1. "BuffRemoved" \in Made /\ "BuffUpdated" \in Made /\ "BuffAdded" \in Made
  BY DEF Made, MadeCombat
<1>2. UpTo(MaxPending, "BuffRemoved") \subseteq Seq(Made)
      /\ UpTo(MaxPending, "BuffAdded") \subseteq Seq(Made)
  BY <1>1, PendingAssumption, UpToSeq
<1>3. {<< >>, <<"BuffUpdated">>} \subseteq Seq(Made)
  BY <1>1, OneSeq, NoneSeq
<1>4. Then({<< >>, <<"BuffUpdated">>}, UpTo(MaxPending, "BuffAdded")) \subseteq Seq(Made)
  BY <1>2, <1>3, ThenSeq
<1> QED BY <1>2, <1>4, ThenSeq DEF BuffDiff

LEMMA EffectsMade ==
  ASSUME NEW ctx, NEW k
  PROVE  Effects(ctx, k) \subseteq Seq(Made)
<1>1. /\ "CombatDamage" \in Made /\ "SpellActionResolved" \in Made
      /\ "SpellCastInterrupted" \in Made
      /\ "BuffRemoved" \in Made /\ "BuffUpdated" \in Made /\ "BuffAdded" \in Made
  BY DEF Made, MadeCombat
<1>2. CASE k = "Combat"
  <2>1. Effects(ctx, k) = {<<"CombatDamage">>}
    BY <1>2 DEF Effects
  <2> QED BY <1>1, <2>1, OneSeq
<1>3. CASE k = "SpellAction"
  <2>1. Effects(ctx, k) = Maybe("SpellActionResolved")
    BY <1>3 DEF Effects
  <2> QED BY <1>1, <2>1, MaybeSeq
<1>4. CASE k \in {"SpellCastRequest", "SpawnCast"}
  <2>1. Effects(ctx, k) = CastEvents
    BY <1>4 DEF Effects
  <2> QED BY <2>1, CastEventsMade
<1>5. CASE k = "SimpleMessage" /\ ctx.dir = "S2C"
  <2>1. Effects(ctx, k) = UpTo(2, "SpellCastInterrupted")
    BY <1>5 DEF Effects
  <2> QED BY <1>1, <2>1, UpToSeq
<1>6. CASE k = "BuffList"
  <2>1. Effects(ctx, k) = BuffDiff
    BY <1>6 DEF Effects
  <2> QED BY <2>1, BuffDiffMade
<1>7. CASE k = "BuffWire"
  <2>1. Effects(ctx, k) = UpTo(MaxPending, "BuffRemoved")
                          \cup {<<"BuffUpdated">>, <<"BuffAdded">>}
    BY <1>7 DEF Effects
  <2>2. UpTo(MaxPending, "BuffRemoved") \subseteq Seq(Made)
    BY <1>1, PendingAssumption, UpToSeq
  <2>3. {<<"BuffUpdated">>, <<"BuffAdded">>} \subseteq Seq(Made)
    BY <1>1, OneSeq
  <2> QED BY <2>1, <2>2, <2>3
<1>8. CASE /\ k \notin {"Combat", "SpellAction", "SpellCastRequest", "SpawnCast",
                        "BuffList", "BuffWire"}
           /\ ~(k = "SimpleMessage" /\ ctx.dir = "S2C")
  <2>1. Effects(ctx, k) = {<< >>}
    BY <1>8 DEF Effects
  <2> QED BY <2>1, NoneSeq
<1> QED BY <1>2, <1>3, <1>4, <1>5, <1>6, <1>7, <1>8

LEMMA TellingsMade ==
  ASSUME NEW ctx, NEW k
  PROVE  Tellings(ctx, k) \subseteq Seq(Made)
<1>1. MadeTold \subseteq Made
  BY DEF Made
<1>2. CASE k = "Chat"
  <2>1. Tellings(ctx, k) = {IF ctx.dir = "C2S" THEN << >> ELSE <<"ChatMessage">>}
    BY <1>2 DEF Tellings
  <2>2. {<<"ChatMessage">>} \subseteq Seq(Made)
    BY <1>1, OneSeq DEF MadeTold
  <2> QED BY <2>1, <2>2, NoneSeq
<1>3. CASE k \in {"LootMessage", "GroupFollow", "GuildMemberStatus"}
  <2>1. \E a \in MadeTold : Tellings(ctx, k) = Maybe(a)
    BY <1>3 DEF Tellings, MadeTold
  <2> QED BY <1>1, <2>1, MaybeSeq
<1>4. CASE k \in {"SimpleMessage", "FormattedMessage", "SpecialMessage",
                  "GroupRosterWire", "GroupDisband", "GuildRosterWire", "GuildMotd",
                  "GuildRankName", "DynamicZoneInfo", "DynamicZoneSwitch"}
  <2>1. \E a \in MadeTold : Tellings(ctx, k) = {<<a>>}
    BY <1>4 DEF Tellings, MadeTold
  <2> QED BY <1>1, <2>1, OneSeq
<1>5. CASE k \notin {"Chat", "LootMessage", "GroupFollow", "GuildMemberStatus",
                     "SimpleMessage", "FormattedMessage", "SpecialMessage",
                     "GroupRosterWire", "GroupDisband", "GuildRosterWire", "GuildMotd",
                     "GuildRankName", "DynamicZoneInfo", "DynamicZoneSwitch"}
  <2>1. Tellings(ctx, k) = {<< >>}
    BY <1>5 DEF Tellings
  <2> QED BY <2>1, NoneSeq
<1> QED BY <1>2, <1>3, <1>4, <1>5

(* A stage keeps an event that does not reset, and adds what it makes.     *)
LEMMA StagesHeard ==
  ASSUME NEW ctx, NEW k \in Heard(ctx)
  PROVE  /\ ProgressionStage(k) \subseteq Seq(Heard(ctx))
         /\ CombatStage(ctx, k) \subseteq Seq(Heard(ctx))
         /\ CommunicationStage(ctx, k) \subseteq Seq(Heard(ctx))
<1> DEFINE H == Heard(ctx)
<1>1. {<<k>>} \subseteq Seq(H)
  <2> HIDE DEF H
  <2>1. k \in H
    BY DEF H
  <2> QED BY <2>1, OneSeq
<1>2. Seq(Made) \subseteq Seq(H)
  BY MadeAreHeard, SeqMonotonic
<1>3. /\ Additions(k) \subseteq Seq(H) /\ Effects(ctx, k) \subseteq Seq(H)
      /\ Tellings(ctx, k) \subseteq Seq(H)
  BY <1>2, AdditionsMade, EffectsMade, TellingsMade
<1> HIDE DEF H
<1>4. ProgressionStage(k) \subseteq Seq(H)
  BY <1>1, <1>3, ThenSeq DEF ProgressionStage
<1>5. CombatStage(ctx, k) \subseteq Seq(H)
  BY <1>1, <1>3, ThenSeq DEF CombatStage
<1>6. CommunicationStage(ctx, k) \subseteq Seq(H)
  BY <1>1, <1>3, ThenSeq DEF CommunicationStage
<1> QED BY <1>4, <1>5, <1>6 DEF H

LEMMA StageSeq ==
  ASSUME NEW D, NEW s \in Seq(D), NEW S,
         NEW choices, choices = [i \in DOMAIN s |-> choices[i]],
         \A i \in 1 .. Len(s) : choices[i] \subseteq Seq(S)
  PROVE  Joined(choices) \subseteq Seq(S)
<1>1. Len(s) \in Nat /\ DOMAIN s = 1 .. Len(s)
  OBVIOUS
<1>2. Len(choices) = Len(s)
  BY <1>1, SeqMade
<1> QED BY <1>1, <1>2, JoinedSeq

LEMMA LedFacts ==
  ASSUME NEW S, NEW kind, NEW s \in Led(kind, S)
  PROVE  /\ IsSeq(s) /\ Len(s) \in Nat /\ Len(s) > 0 /\ DOMAIN s = 1 .. Len(s)
         /\ s[1] = kind
         /\ \A i \in 2 .. Len(s) : s[i] \in S
<1>1. PICK q \in Seq(S) : s = <<kind>> \o q
  BY DEF Led
<1> DEFINE T == S \cup {kind}
           one == <<kind>>
<1>2. one \in Seq(T) /\ Len(one) = 1 /\ one[1] = kind
  OBVIOUS
<1>3. q \in Seq(T) /\ Len(q) \in Nat /\ \A i \in 1 .. Len(q) : q[i] \in S
  BY SeqMonotonic
<1>4. s = one \o q
  BY <1>1
<1> HIDE DEF one, T
<1>5. /\ s \in Seq(T) /\ Len(s) = Len(one) + Len(q)
      /\ \A i \in 1 .. Len(one) + Len(q) :
           s[i] = IF i <= Len(one) THEN one[i] ELSE q[i - Len(one)]
  BY <1>2, <1>3, <1>4, ConcatProperties
<1>6. Len(s) = 1 + Len(q)
      /\ \A i \in 1 .. 1 + Len(q) : s[i] = IF i <= 1 THEN one[i] ELSE q[i - 1]
  BY <1>2, <1>5
<1>7. s[1] = kind
  BY <1>2, <1>3, <1>6
<1>8. ASSUME NEW i \in 2 .. Len(s) PROVE s[i] \in S
  <2>1. i - 1 \in 1 .. Len(q) /\ s[i] = q[i - 1]
    BY <1>3, <1>6
  <2> QED BY <1>3, <2>1
<1> QED BY <1>3, <1>5, <1>6, <1>7, <1>8 DEF IsSeq

LEMMA StageLed ==
  ASSUME NEW S, NEW kind, NEW s \in Led(kind, S),
         NEW choices, choices = [i \in DOMAIN s |-> choices[i]],
         choices[1] \subseteq Led(kind, S),
         \A i \in 2 .. Len(s) : s[i] \in S => choices[i] \subseteq Seq(S)
  PROVE  Joined(choices) \subseteq Led(kind, S)
<1>1. /\ Len(s) \in Nat /\ Len(s) > 0 /\ DOMAIN s = 1 .. Len(s)
      /\ \A i \in 2 .. Len(s) : s[i] \in S
  BY LedFacts
<1>2. Len(choices) = Len(s)
  BY <1>1, SeqMade
<1>3. \A i \in 2 .. Len(s) : choices[i] \subseteq Seq(S)
  BY <1>1
<1> QED BY <1>1, <1>2, <1>3, JoinedLed

(* Of a packet that does not reset, the session makes what may be heard.   *)
LEMMA SemanticsHeard ==
  ASSUME NEW ctx, NEW kinds \in Seq(Given(ctx))
  PROVE  Semantics(ctx, kinds) \subseteq Seq(Heard(ctx))
<1> DEFINE H == Heard(ctx)
           G == Given(ctx)
           Player(s) == Joined([i \in DOMAIN s |-> PlayerStage(ctx, s[i])])
           Progression(s) == Joined([i \in DOMAIN s |-> ProgressionStage(s[i])])
           Fight(s) == Joined([i \in DOMAIN s |-> CombatStage(ctx, s[i])])
           Tells(s) == Joined([i \in DOMAIN s |-> CommunicationStage(ctx, s[i])])
           progressed == UNION {Progression(s) : s \in Player(kinds)}
           fought == UNION {Fight(s) : s \in progressed}
<1>1. Player(kinds) \subseteq Seq(H)
  <2> DEFINE c == [i \in DOMAIN kinds |-> PlayerStage(ctx, kinds[i])]
  <2>1. \A i \in 1 .. Len(kinds) : c[i] \subseteq Seq(H)
    <3>1. \A i \in 1 .. Len(kinds) : kinds[i] \in G
      OBVIOUS
    <3>2. \A i \in 1 .. Len(kinds) : c[i] = PlayerStage(ctx, kinds[i])
      OBVIOUS
    <3> HIDE DEF c
    <3> QED BY <3>1, <3>2, PlayerStageHeard
  <2>2. c = [i \in DOMAIN kinds |-> c[i]]
    OBVIOUS
  <2> HIDE DEF c, H, G
  <2>3. Joined(c) \subseteq Seq(H)
    <3>1. kinds \in Seq(G)
      BY DEF G
    <3> QED BY <2>1, <2>2, <3>1, StageSeq
  <2> QED BY <2>3 DEF c
<1>2. ASSUME NEW s \in Seq(H)
      PROVE  /\ Progression(s) \subseteq Seq(H)
             /\ Fight(s) \subseteq Seq(H)
             /\ Tells(s) \subseteq Seq(H)
  <2>1. \A i \in 1 .. Len(s) : s[i] \in H
    OBVIOUS
  <2>2. Progression(s) \subseteq Seq(H)
    <3> DEFINE c == [i \in DOMAIN s |-> ProgressionStage(s[i])]
    <3>1. \A i \in 1 .. Len(s) : c[i] = ProgressionStage(s[i])
      OBVIOUS
    <3>2. c = [i \in DOMAIN s |-> c[i]]
      OBVIOUS
    <3> HIDE DEF c
    <3>3. \A i \in 1 .. Len(s) : c[i] \subseteq Seq(H)
      BY <2>1, <3>1, StagesHeard
    <3> HIDE DEF H
    <3>4. Joined(c) \subseteq Seq(H)
      BY <3>2, <3>3, StageSeq
    <3> QED BY <3>4 DEF c
  <2>3. Fight(s) \subseteq Seq(H)
    <3> DEFINE c == [i \in DOMAIN s |-> CombatStage(ctx, s[i])]
    <3>1. \A i \in 1 .. Len(s) : c[i] = CombatStage(ctx, s[i])
      OBVIOUS
    <3>2. c = [i \in DOMAIN s |-> c[i]]
      OBVIOUS
    <3> HIDE DEF c
    <3>3. \A i \in 1 .. Len(s) : c[i] \subseteq Seq(H)
      BY <2>1, <3>1, StagesHeard
    <3> HIDE DEF H
    <3>4. Joined(c) \subseteq Seq(H)
      BY <3>2, <3>3, StageSeq
    <3> QED BY <3>4 DEF c
  <2>4. Tells(s) \subseteq Seq(H)
    <3> DEFINE c == [i \in DOMAIN s |-> CommunicationStage(ctx, s[i])]
    <3>1. \A i \in 1 .. Len(s) : c[i] = CommunicationStage(ctx, s[i])
      OBVIOUS
    <3>2. c = [i \in DOMAIN s |-> c[i]]
      OBVIOUS
    <3> HIDE DEF c
    <3>3. \A i \in 1 .. Len(s) : c[i] \subseteq Seq(H)
      BY <2>1, <3>1, StagesHeard
    <3> HIDE DEF H
    <3>4. Joined(c) \subseteq Seq(H)
      BY <3>2, <3>3, StageSeq
    <3> QED BY <3>4 DEF c
  <2> HIDE DEF Progression, Fight, Tells
  <2> QED BY <2>2, <2>3, <2>4
<1>3. Semantics(ctx, kinds) = UNION {Tells(t) : t \in fought}
  BY DEF Semantics
<1> HIDE DEF Player, Progression, Fight, Tells
<1>4. progressed \subseteq Seq(H)
  BY <1>1, <1>2
<1> HIDE DEF progressed
<1>5. fought \subseteq Seq(H)
  BY <1>2, <1>4
<1> HIDE DEF fought
<1> QED BY <1>2, <1>3, <1>5

(* An event that resets stays the first of what the session makes of it,   *)
(* and a snapshot of the player is all that follows.                       *)
After == {"PlayerIdentityUpdated", "PlayerVitalsUpdated", "MoneyBalanceUpdated",
          "SkillsSnapshot", "AlternateAdvancementSnapshot"}

LEMMA Alone == ASSUME NEW S, NEW kind PROVE {<<kind>>} \subseteq Led(kind, S)
<1>1. << >> \in Seq(S) /\ <<kind>> \in Seq({kind})
  OBVIOUS
<1>2. <<kind>> \o << >> = <<kind>>
  BY <1>1, ConcatEmptySeq
<1> QED BY <1>1, <1>2 DEF Led

LEMMA CauseStages ==
  ASSUME NEW ctx, NEW k \in {"EnterWorld", "PlayerProfile", "ZoneTransition"}
  PROVE  /\ PlayerStage(ctx, k) \subseteq Led(k, After)
         /\ ProgressionStage(k) \subseteq Led(k, After)
         /\ CombatStage(ctx, k) \subseteq Led(k, After)
         /\ CommunicationStage(ctx, k) \subseteq Led(k, After)
<1>1. {<<k>>} \subseteq Led(k, After)
  BY Alone
<1>2. Effects(ctx, k) = {<< >>} /\ Tellings(ctx, k) = {<< >>}
  BY DEF Effects, Tellings
<1>3. Additions(k) \subseteq Seq(After)
  <2>1. CASE k = "PlayerProfile"
    <3>1. Additions(k) = {<<"MoneyBalanceUpdated", "SkillsSnapshot",
                            "AlternateAdvancementSnapshot">>}
      BY <2>1 DEF Additions
    <3>2. /\ "MoneyBalanceUpdated" \in After /\ "SkillsSnapshot" \in After
          /\ "AlternateAdvancementSnapshot" \in After
      BY DEF After
    <3> QED BY <3>1, <3>2, ThreeSeq
  <2>2. CASE k # "PlayerProfile"
    <3>1. Additions(k) = {<< >>}
      BY <2>2 DEF Additions
    <3> QED BY <3>1, NoneSeq
  <2> QED BY <2>1, <2>2
<1>4. PlayerStage(ctx, k) \subseteq Led(k, After)
  <2>1. CASE k = "PlayerProfile"
    <3>1. PlayerStage(ctx, k) = {<<"PlayerProfile", "PlayerIdentityUpdated",
                                   "PlayerVitalsUpdated">>}
      BY <2>1 DEF PlayerStage
    <3> DEFINE q == <<"PlayerIdentityUpdated", "PlayerVitalsUpdated">>
    <3>2. q \in Seq(After)
      BY DEF After
    <3>3. <<"PlayerProfile", "PlayerIdentityUpdated", "PlayerVitalsUpdated">>
            = <<k>> \o q
      BY <2>1
    <3> HIDE DEF q
    <3> QED BY <3>1, <3>2, <3>3 DEF Led
  <2>2. CASE k # "PlayerProfile"
    <3>1. PlayerStage(ctx, k) = {<<k>>}
      BY <2>2 DEF PlayerStage
    <3> QED BY <1>1, <3>1
  <2> QED BY <2>1, <2>2
<1> DEFINE e == {<< >>}
           A == After
<1>5. e \subseteq Seq(A)
  OBVIOUS
<1>6. Effects(ctx, k) = e /\ Tellings(ctx, k) = e
  BY <1>2
<1>7. {<<k>>} \subseteq Led(k, A) /\ Additions(k) \subseteq Seq(A)
  BY <1>1, <1>3
<1> HIDE DEF e, A
<1>8. /\ Then({<<k>>}, e) \subseteq Led(k, A)
      /\ Then({<<k>>}, Additions(k)) \subseteq Led(k, A)
  BY <1>5, <1>7, ThenLed
<1> QED BY <1>4, <1>6, <1>8 DEF ProgressionStage, CombatStage, CommunicationStage, A

LEMMA AfterStages ==
  ASSUME NEW ctx, NEW a \in After
  PROVE  /\ ProgressionStage(a) \subseteq Seq(After)
         /\ CombatStage(ctx, a) \subseteq Seq(After)
         /\ CommunicationStage(ctx, a) \subseteq Seq(After)
<1>1. Additions(a) = {<< >>} /\ Effects(ctx, a) = {<< >>} /\ Tellings(ctx, a) = {<< >>}
  BY DEF After, Additions, Effects, Tellings
<1>2. {<<a>>} \subseteq Seq(After) /\ {<< >>} \subseteq Seq(After)
  BY OneSeq, NoneSeq
<1>3. Then({<<a>>}, {<< >>}) \subseteq Seq(After)
  BY <1>2, ThenSeq
<1> QED BY <1>1, <1>3 DEF ProgressionStage, CombatStage, CommunicationStage

LEMMA SemanticsLed ==
  ASSUME NEW ctx, NEW k \in {"EnterWorld", "PlayerProfile", "ZoneTransition"}
  PROVE  Semantics(ctx, <<k>>) \subseteq Led(k, After)
<1> DEFINE A == After
           kinds == <<k>>
           Player(s) == Joined([i \in DOMAIN s |-> PlayerStage(ctx, s[i])])
           Progression(s) == Joined([i \in DOMAIN s |-> ProgressionStage(s[i])])
           Fight(s) == Joined([i \in DOMAIN s |-> CombatStage(ctx, s[i])])
           Tells(s) == Joined([i \in DOMAIN s |-> CommunicationStage(ctx, s[i])])
           progressed == UNION {Progression(s) : s \in Player(kinds)}
           fought == UNION {Fight(s) : s \in progressed}
<1>1. Player(kinds) \subseteq Led(k, A)
  <2> DEFINE c == [i \in DOMAIN kinds |-> PlayerStage(ctx, kinds[i])]
  <2>0. kinds \in Led(k, A)
    <3> HIDE DEF A
    <3> QED BY Alone
  <2>1. c[1] = PlayerStage(ctx, k) /\ Len(kinds) = 1
    OBVIOUS
  <2>2. c = [i \in DOMAIN kinds |-> c[i]]
    OBVIOUS
  <2> HIDE DEF c, kinds
  <2>3. c[1] \subseteq Led(k, A)
    BY <2>1, CauseStages
  <2>4. \A i \in 2 .. Len(kinds) : kinds[i] \in A => c[i] \subseteq Seq(A)
    BY <2>1
  <2> HIDE DEF A
  <2>5. Joined(c) \subseteq Led(k, A)
    BY <2>0, <2>2, <2>3, <2>4, StageLed
  <2> QED BY <2>5 DEF c
<1>2. ASSUME NEW s \in Led(k, A)
      PROVE  /\ Progression(s) \subseteq Led(k, A)
             /\ Fight(s) \subseteq Led(k, A)
             /\ Tells(s) \subseteq Led(k, A)
  <2>1. /\ s[1] = k /\ Len(s) > 0 /\ Len(s) \in Nat /\ DOMAIN s = 1 .. Len(s)
        /\ \A i \in 2 .. Len(s) : s[i] \in A
    <3> HIDE DEF A
    <3> QED BY LedFacts
  <2>2. Progression(s) \subseteq Led(k, A)
    <3> DEFINE c == [i \in DOMAIN s |-> ProgressionStage(s[i])]
    <3>1. \A i \in 1 .. Len(s) : c[i] = ProgressionStage(s[i])
      BY <2>1
    <3>2. c = [i \in DOMAIN s |-> c[i]]
      OBVIOUS
    <3> HIDE DEF c
    <3>3. ASSUME NEW i \in 2 .. Len(s), s[i] \in A PROVE c[i] \subseteq Seq(A)
      <4>1. i \in 1 .. Len(s)
        BY <2>1
      <4> QED BY <3>1, <3>3, <4>1, AfterStages
    <3>4. c[1] \subseteq Led(k, A)
      BY <2>1, <3>1, CauseStages
    <3> HIDE DEF A
    <3>5. Joined(c) \subseteq Led(k, A)
      BY <3>2, <3>3, <3>4, StageLed
    <3> QED BY <3>5 DEF c
  <2>3. Fight(s) \subseteq Led(k, A)
    <3> DEFINE c == [i \in DOMAIN s |-> CombatStage(ctx, s[i])]
    <3>1. \A i \in 1 .. Len(s) : c[i] = CombatStage(ctx, s[i])
      BY <2>1
    <3>2. c = [i \in DOMAIN s |-> c[i]]
      OBVIOUS
    <3> HIDE DEF c
    <3>3. ASSUME NEW i \in 2 .. Len(s), s[i] \in A PROVE c[i] \subseteq Seq(A)
      <4>1. i \in 1 .. Len(s)
        BY <2>1
      <4> QED BY <3>1, <3>3, <4>1, AfterStages
    <3>4. c[1] \subseteq Led(k, A)
      BY <2>1, <3>1, CauseStages
    <3> HIDE DEF A
    <3>5. Joined(c) \subseteq Led(k, A)
      BY <3>2, <3>3, <3>4, StageLed
    <3> QED BY <3>5 DEF c
  <2>4. Tells(s) \subseteq Led(k, A)
    <3> DEFINE c == [i \in DOMAIN s |-> CommunicationStage(ctx, s[i])]
    <3>1. \A i \in 1 .. Len(s) : c[i] = CommunicationStage(ctx, s[i])
      BY <2>1
    <3>2. c = [i \in DOMAIN s |-> c[i]]
      OBVIOUS
    <3> HIDE DEF c
    <3>3. ASSUME NEW i \in 2 .. Len(s), s[i] \in A PROVE c[i] \subseteq Seq(A)
      <4>1. i \in 1 .. Len(s)
        BY <2>1
      <4> QED BY <3>1, <3>3, <4>1, AfterStages
    <3>4. c[1] \subseteq Led(k, A)
      BY <2>1, <3>1, CauseStages
    <3> HIDE DEF A
    <3>5. Joined(c) \subseteq Led(k, A)
      BY <3>2, <3>3, <3>4, StageLed
    <3> QED BY <3>5 DEF c
  <2> HIDE DEF Progression, Fight, Tells
  <2> QED BY <2>2, <2>3, <2>4
<1>3. Semantics(ctx, kinds) = UNION {Tells(t) : t \in fought}
  BY DEF Semantics
<1> HIDE DEF Player, Progression, Fight, Tells, A
<1>4. progressed \subseteq Led(k, A)
  BY <1>1, <1>2
<1> HIDE DEF progressed
<1>5. fought \subseteq Led(k, A)
  BY <1>2, <1>4
<1> HIDE DEF fought
<1> QED BY <1>2, <1>3, <1>5 DEF A

-----------------------------------------------------------------------------
(* What the backends decode                                                *)

AnyCause == {"EnterWorld", "PlayerProfile", "ZoneTransition"}
Decodable == Kinds \ (Own \cup AnyCause)

(* An event that may reset is alone in its packet.                         *)
Proper(q) == q \in Seq(Decodable) \/ \E c \in AnyCause : q = <<c>>

ProperHandler(h) ==
  /\ h = [parser |-> h.parser, refuses |-> h.refuses, quiet |-> h.quiet,
          echoed |-> h.echoed, kinds |-> h.kinds, extra |-> h.extra]
  /\ Proper(h.kinds) /\ Proper(h.kinds \o h.extra)

DecodedPlaces == {"SpawnAdded", "SpawnMoved", "SpawnRemoved", "SpawnRenamed",
                  "SpawnKilled", "SpawnHp", "StatSync", "SelfPos",
                  "SpawnAnimation", "SpawnIllusion", "GuildsInZone", "TimeOfDay",
                  "ZoneChanged", "ZoneEnvironmentChanged", "Stance", "Invocation",
                  "InspectAnswer", "GuildRoster", "GuildRosterWire",
                  "GuildMemberStatus", "ZoneServerInfo"}
DecodedThings == {"ItemSet", "ItemLearned", "GuildMotd", "GuildRankName",
                  "LoadoutSwap", "Doors", "GroundItemRemoved", "GroundItem",
                  "CorpseLocated", "ZonePoints"}
DecodedDeeds == {"Combat", "SpellAction", "SpellCastRequest", "SpawnCast",
                 "Targeted", "Considered", "AaTable", "Exp", "AaExp", "Stamina",
                 "ManaUpdate", "SkillUpdate", "LootTransaction", "LootDrops", "Money"}
DecodedWords == {"SimpleMessage", "FormattedMessage", "SpecialMessage",
                 "LootMessage", "Chat", "BuffList", "BuffWire", "GroupFollow",
                 "GroupDisband", "GroupRosterWire", "DynamicZoneInfo",
                 "DynamicZoneSwitch", "LevelUpdate"}

LEMMA DecodableKinds ==
  /\ DecodedPlaces \subseteq Decodable /\ DecodedThings \subseteq Decodable
  /\ DecodedDeeds \subseteq Decodable /\ DecodedWords \subseteq Decodable
<1> DEFINE No == Own \cup AnyCause
<1>1. DecodedPlaces \subseteq DOMAIN SpawnKinds \cup DOMAIN ZoneKinds
  BY DEF DecodedPlaces, SpawnKinds, ZoneKinds
<1>2. DecodedThings \subseteq DOMAIN ItemKinds \cup DOMAIN GuildKinds \cup DOMAIN WorldKinds
  BY DEF DecodedThings, ItemKinds, GuildKinds, WorldKinds
<1>3. DecodedDeeds \subseteq DOMAIN CombatKinds \cup DOMAIN ProgressKinds \cup DOMAIN LootKinds
  BY DEF DecodedDeeds, CombatKinds, ProgressKinds, LootKinds
<1>4. DecodedWords \subseteq DOMAIN ChatKinds \cup DOMAIN BuffKinds \cup DOMAIN GroupKinds
  BY DEF DecodedWords, ChatKinds, BuffKinds, GroupKinds
<1>5. DecodedPlaces \cap No = {} /\ DecodedThings \cap No = {}
  BY DEF DecodedPlaces, DecodedThings, Own, AnyCause
<1>6. DecodedDeeds \cap No = {} /\ DecodedWords \cap No = {}
  BY DEF DecodedDeeds, DecodedWords, Own, AnyCause
<1> HIDE DEF No
<1>7. Decodable = Kinds \ No
  BY DEF Decodable, No
<1>8. DecodedPlaces \subseteq Kinds /\ DecodedThings \subseteq Kinds
  BY <1>1, <1>2, KindsAre
<1>9. DecodedDeeds \subseteq Kinds /\ DecodedWords \subseteq Kinds
  BY <1>3, <1>4, KindsAre
<1> QED BY <1>5, <1>6, <1>7, <1>8, <1>9

LEMMA GivesProper ==
  ASSUME NEW q, Proper(q), NEW parser
  PROVE  ProperHandler(Gives(parser, q))
<1> DEFINE h == Gives(parser, q)
<1>1. h = [parser |-> parser, refuses |-> {}, quiet |-> {}, echoed |-> {},
           kinds |-> q, extra |-> << >>]
  BY DEF Gives
<1>2. q \o << >> = q
  <2>1. CASE q \in Seq(Decodable)
    BY <2>1, ConcatEmptySeq
  <2>2. CASE \E c \in AnyCause : q = <<c>>
    <3>1. q \in Seq(AnyCause)
      BY <2>2
    <3> QED BY <3>1, ConcatEmptySeq
  <2> QED BY <2>1, <2>2 DEF Proper
<1> HIDE DEF h
<1>3. /\ h = [parser |-> h.parser, refuses |-> h.refuses, quiet |-> h.quiet,
              echoed |-> h.echoed, kinds |-> h.kinds, extra |-> h.extra]
      /\ h.kinds = q /\ h.extra = << >>
  BY <1>1
<1>4. ProperHandler(h)
  BY <1>2, <1>3 DEF ProperHandler
<1> QED BY <1>4 DEF h

LEMMA GivesOne ==
  ASSUME NEW k \in Decodable \cup AnyCause, NEW parser
  PROVE  ProperHandler(Gives(parser, <<k>>))
<1> DEFINE q == <<k>>
<1>1. Proper(q)
  BY DEF Proper
<1> HIDE DEF q
<1>2. ProperHandler(Gives(parser, q))
  BY <1>1, GivesProper
<1> QED BY <1>2 DEF q

LEMMA GivesTwo ==
  ASSUME NEW k \in Decodable, NEW l \in Decodable, NEW parser
  PROVE  ProperHandler(Gives(parser, <<k, l>>))
<1> DEFINE q == <<k, l>>
<1>1. Proper(q)
  BY DEF Proper
<1> HIDE DEF q
<1>2. ProperHandler(Gives(parser, q))
  BY <1>1, GivesProper
<1> QED BY <1>2 DEF q

LEMMA GivesNone ==
  ASSUME NEW parser
  PROVE  ProperHandler(Gives(parser, << >>))
<1> DEFINE q == << >>
<1>1. Proper(q)
  BY DEF Proper
<1> HIDE DEF q
<1>2. ProperHandler(Gives(parser, q))
  BY <1>1, GivesProper
<1> QED BY <1>2 DEF q

LEMMA StaysProper ==
  ASSUME NEW h, ProperHandler(h), NEW bodies
  PROVE  /\ ProperHandler(Refusing(h, bodies))
         /\ ProperHandler(QuietOn(h, bodies))
         /\ ProperHandler(Echoing(h, bodies))
<1>1. h = [parser |-> h.parser, refuses |-> h.refuses, quiet |-> h.quiet,
           echoed |-> h.echoed, kinds |-> h.kinds, extra |-> h.extra]
  BY DEF ProperHandler
<1> DEFINE r == Refusing(h, bodies)
           s == QuietOn(h, bodies)
           e == Echoing(h, bodies)
<1>2. /\ r = [parser |-> h.parser, refuses |-> bodies, quiet |-> h.quiet,
              echoed |-> h.echoed, kinds |-> h.kinds, extra |-> h.extra]
      /\ s = [parser |-> h.parser, refuses |-> h.refuses, quiet |-> bodies,
              echoed |-> h.echoed, kinds |-> h.kinds, extra |-> h.extra]
      /\ e = [parser |-> h.parser, refuses |-> h.refuses, quiet |-> h.quiet,
              echoed |-> bodies, kinds |-> h.kinds, extra |-> h.extra]
  BY <1>1 DEF Refusing, QuietOn, Echoing
<1> HIDE DEF r, s, e
<1>3. ProperHandler(r)
  BY <1>2 DEF ProperHandler
<1>4. ProperHandler(s)
  BY <1>2 DEF ProperHandler
<1>5. ProperHandler(e)
  BY <1>2 DEF ProperHandler
<1> QED BY <1>3, <1>4, <1>5 DEF r, s, e

(* Every handler of every family is proper.                                *)
AllDecoded == DecodedPlaces \cup DecodedThings \cup DecodedDeeds \cup DecodedWords

LEMMA OnesAndTwos ==
  /\ \A k \in AllDecoded \cup AnyCause : \A parser : ProperHandler(Gives(parser, <<k>>))
  /\ \A k, l \in AllDecoded : \A parser : ProperHandler(Gives(parser, <<k, l>>))
<1>1. AllDecoded \subseteq Decodable
  BY DecodableKinds DEF AllDecoded
<1> QED BY <1>1, GivesOne, GivesTwo

LEMMA EqlSpawnProper == \A op \in DOMAIN EqlSpawnHandlers : ProperHandler(EqlSpawnHandlers[op])
<1>1. /\ "SpawnAdded" \in AllDecoded
      /\ "SpawnKilled" \in AllDecoded
      /\ "SpawnMoved" \in AllDecoded
      /\ "SpawnRemoved" \in AllDecoded
      /\ "SpawnRenamed" \in AllDecoded
      /\ "StatSync" \in AllDecoded
  BY DEF AllDecoded, AnyCause, DecodedPlaces, DecodedThings, DecodedDeeds, DecodedWords
<1> QED BY <1>1, OnesAndTwos, StaysProper DEF EqlSpawnHandlers

LEMMA EqlPositionProper == \A op \in DOMAIN EqlPositionHandlers : ProperHandler(EqlPositionHandlers[op])
<1>1. /\ "Considered" \in AllDecoded
      /\ "GuildsInZone" \in AllDecoded
      /\ "SelfPos" \in AllDecoded
      /\ "Targeted" \in AllDecoded
  BY DEF AllDecoded, AnyCause, DecodedPlaces, DecodedThings, DecodedDeeds, DecodedWords
<1> QED BY <1>1, OnesAndTwos, StaysProper DEF EqlPositionHandlers

LEMMA EqlMessageProper == \A op \in DOMAIN EqlMessageHandlers : ProperHandler(EqlMessageHandlers[op])
<1>1. /\ "Chat" \in AllDecoded
      /\ "DynamicZoneInfo" \in AllDecoded
      /\ "DynamicZoneSwitch" \in AllDecoded
      /\ "FormattedMessage" \in AllDecoded
      /\ "GroupDisband" \in AllDecoded
      /\ "GroupFollow" \in AllDecoded
      /\ "GroupRosterWire" \in AllDecoded
      /\ "LootMessage" \in AllDecoded
      /\ "SimpleMessage" \in AllDecoded
      /\ "SpecialMessage" \in AllDecoded
  BY DEF AllDecoded, AnyCause, DecodedPlaces, DecodedThings, DecodedDeeds, DecodedWords
<1> QED BY <1>1, OnesAndTwos, StaysProper DEF EqlMessageHandlers

LEMMA EqlProgressProper == \A op \in DOMAIN EqlProgressHandlers : ProperHandler(EqlProgressHandlers[op])
<1>1. /\ "AaExp" \in AllDecoded
      /\ "AaTable" \in AllDecoded
      /\ "Exp" \in AllDecoded
      /\ "LevelUpdate" \in AllDecoded
      /\ "LootDrops" \in AllDecoded
      /\ "LootTransaction" \in AllDecoded
      /\ "ManaUpdate" \in AllDecoded
      /\ "Money" \in AllDecoded
      /\ "SkillUpdate" \in AllDecoded
      /\ "Stamina" \in AllDecoded
  BY DEF AllDecoded, AnyCause, DecodedPlaces, DecodedThings, DecodedDeeds, DecodedWords
<1> QED BY <1>1, OnesAndTwos, StaysProper DEF EqlProgressHandlers

LEMMA EqlCombatProper == \A op \in DOMAIN EqlCombatHandlers : ProperHandler(EqlCombatHandlers[op])
<1>1. /\ "BuffList" \in AllDecoded
      /\ "BuffWire" \in AllDecoded
      /\ "Combat" \in AllDecoded
      /\ "SpawnCast" \in AllDecoded
      /\ "SpellAction" \in AllDecoded
      /\ "SpellCastRequest" \in AllDecoded
  BY DEF AllDecoded, AnyCause, DecodedPlaces, DecodedThings, DecodedDeeds, DecodedWords
<1> QED BY <1>1, OnesAndTwos, StaysProper DEF EqlCombatHandlers

LEMMA EqlLifecycleProper == \A op \in DOMAIN EqlLifecycleHandlers : ProperHandler(EqlLifecycleHandlers[op])
<1>1. /\ "Doors" \in AllDecoded
      /\ "EnterWorld" \in AllDecoded \cup AnyCause
      /\ "PlayerProfile" \in AllDecoded \cup AnyCause
      /\ "ZoneChanged" \in AllDecoded
      /\ "ZoneEnvironmentChanged" \in AllDecoded
      /\ "ZoneTransition" \in AllDecoded \cup AnyCause
  BY DEF AllDecoded, AnyCause, DecodedPlaces, DecodedThings, DecodedDeeds, DecodedWords
<1> QED BY <1>1, OnesAndTwos, StaysProper DEF EqlLifecycleHandlers

LEMMA EqlNamedProper == \A op \in DOMAIN EqlNamedHandlers : ProperHandler(EqlNamedHandlers[op])
<1>1. /\ "GuildMotd" \in AllDecoded
      /\ "InspectAnswer" \in AllDecoded
      /\ "ItemSet" \in AllDecoded
      /\ "ZoneServerInfo" \in AllDecoded
  BY DEF AllDecoded, AnyCause, DecodedPlaces, DecodedThings, DecodedDeeds, DecodedWords
<1> QED BY <1>1, OnesAndTwos, StaysProper DEF EqlNamedHandlers

LEMMA EqlPlaceProper == \A op \in DOMAIN EqlPlaceHandlers : ProperHandler(EqlPlaceHandlers[op])
<1>1. /\ "CorpseLocated" \in AllDecoded
      /\ "GroundItem" \in AllDecoded
      /\ "SpawnIllusion" \in AllDecoded
      /\ "ZonePoints" \in AllDecoded
  BY DEF AllDecoded, AnyCause, DecodedPlaces, DecodedThings, DecodedDeeds, DecodedWords
<1> QED BY <1>1, OnesAndTwos, StaysProper DEF EqlPlaceHandlers

LEMMA LiveSpawnProper == \A op \in DOMAIN LiveSpawnHandlers : ProperHandler(LiveSpawnHandlers[op])
<1>1. /\ "SelfPos" \in AllDecoded
      /\ "SpawnAdded" \in AllDecoded
      /\ "SpawnHp" \in AllDecoded
      /\ "SpawnMoved" \in AllDecoded
      /\ "SpawnRemoved" \in AllDecoded
      /\ "SpawnRenamed" \in AllDecoded
  BY DEF AllDecoded, AnyCause, DecodedPlaces, DecodedThings, DecodedDeeds, DecodedWords
<1> QED BY <1>1, OnesAndTwos, StaysProper DEF LiveSpawnHandlers

LEMMA LiveCombatProper == \A op \in DOMAIN LiveCombatHandlers : ProperHandler(LiveCombatHandlers[op])
<1>1. /\ "BuffWire" \in AllDecoded
      /\ "Chat" \in AllDecoded
      /\ "Combat" \in AllDecoded
      /\ "Considered" \in AllDecoded
      /\ "SpawnCast" \in AllDecoded
      /\ "SpawnKilled" \in AllDecoded
      /\ "SpellAction" \in AllDecoded
      /\ "SpellCastRequest" \in AllDecoded
      /\ "Targeted" \in AllDecoded
  BY DEF AllDecoded, AnyCause, DecodedPlaces, DecodedThings, DecodedDeeds, DecodedWords
<1> QED BY <1>1, OnesAndTwos, StaysProper DEF LiveCombatHandlers

LEMMA LiveLifecycleProper == \A op \in DOMAIN LiveLifecycleHandlers : ProperHandler(LiveLifecycleHandlers[op])
<1>1. /\ "Doors" \in AllDecoded
      /\ "EnterWorld" \in AllDecoded \cup AnyCause
      /\ "PlayerProfile" \in AllDecoded \cup AnyCause
      /\ "ZoneChanged" \in AllDecoded
      /\ "ZoneEnvironmentChanged" \in AllDecoded
      /\ "ZoneServerInfo" \in AllDecoded
      /\ "ZoneTransition" \in AllDecoded \cup AnyCause
  BY DEF AllDecoded, AnyCause, DecodedPlaces, DecodedThings, DecodedDeeds, DecodedWords
<1> QED BY <1>1, OnesAndTwos, StaysProper DEF LiveLifecycleHandlers

LEMMA LiveItemProper == \A op \in DOMAIN LiveItemHandlers : ProperHandler(LiveItemHandlers[op])
<1>1. /\ "CorpseLocated" \in AllDecoded
      /\ "GroundItem" \in AllDecoded
      /\ "ItemLearned" \in AllDecoded
      /\ "ManaUpdate" \in AllDecoded
      /\ "SkillUpdate" \in AllDecoded
      /\ "SpawnIllusion" \in AllDecoded
      /\ "Stamina" \in AllDecoded
  BY DEF AllDecoded, AnyCause, DecodedPlaces, DecodedThings, DecodedDeeds, DecodedWords
<1> QED BY <1>1, OnesAndTwos, StaysProper DEF LiveItemHandlers

LEMMA LiveZonePointsProper == \A op \in DOMAIN LiveZonePoints : ProperHandler(LiveZonePoints[op])
<1>1. /\ "ZonePoints" \in AllDecoded
  BY DEF AllDecoded, AnyCause, DecodedPlaces, DecodedThings, DecodedDeeds, DecodedWords
<1> QED BY <1>1, OnesAndTwos, StaysProper DEF LiveZonePoints

LEMMA TestZonePointsProper == \A op \in DOMAIN TestZonePoints : ProperHandler(TestZonePoints[op])
<1>1. /\ "ZonePoints" \in AllDecoded
  BY DEF AllDecoded, AnyCause, DecodedPlaces, DecodedThings, DecodedDeeds, DecodedWords
<1> QED BY <1>1, OnesAndTwos, StaysProper DEF TestZonePoints

LEMMA LiveMessageProper == \A op \in DOMAIN LiveMessageHandlers : ProperHandler(LiveMessageHandlers[op])
<1>1. /\ "AaExp" \in AllDecoded
      /\ "DynamicZoneInfo" \in AllDecoded
      /\ "DynamicZoneSwitch" \in AllDecoded
      /\ "Exp" \in AllDecoded
      /\ "FormattedMessage" \in AllDecoded
      /\ "GroupDisband" \in AllDecoded
      /\ "GroupFollow" \in AllDecoded
      /\ "GroupRosterWire" \in AllDecoded
      /\ "SimpleMessage" \in AllDecoded
      /\ "SpecialMessage" \in AllDecoded
      /\ "TimeOfDay" \in AllDecoded
  BY DEF AllDecoded, AnyCause, DecodedPlaces, DecodedThings, DecodedDeeds, DecodedWords
<1> QED BY <1>1, OnesAndTwos, StaysProper DEF LiveMessageHandlers

(* A loadout swap may carry an inventory after its two events.             *)
LEMMA SwapProper ==
  ASSUME NEW parser
  PROVE  ProperHandler(WithExtra(Gives(parser, <<"SpawnAdded", "LoadoutSwap">>),
                                 <<"ItemSet">>))
<1> DEFINE q == <<"SpawnAdded", "LoadoutSwap">>
           x == <<"ItemSet">>
           g == Gives(parser, q)
           h == WithExtra(g, x)
<1>1. "SpawnAdded" \in Decodable /\ "LoadoutSwap" \in Decodable /\ "ItemSet" \in Decodable
  BY DecodableKinds DEF DecodedPlaces, DecodedThings
<1>2. q \in Seq(Decodable) /\ x \in Seq(Decodable)
  BY <1>1
<1> HIDE DEF q, x
<1>3. Proper(q) /\ Proper(q \o x)
  BY <1>2, ConcatProperties DEF Proper
<1>4. g = [parser |-> parser, refuses |-> {}, quiet |-> {}, echoed |-> {},
           kinds |-> q, extra |-> << >>]
  BY DEF Gives
<1>5. h = [parser |-> parser, refuses |-> {}, quiet |-> {}, echoed |-> {},
           kinds |-> q, extra |-> x]
  <2>1. h = [g EXCEPT !.extra = x]
    BY DEF WithExtra
  <2> HIDE DEF g, h
  <2> QED BY <1>4, <2>1
<1> HIDE DEF h
<1>6. ProperHandler(h)
  BY <1>3, <1>5 DEF ProperHandler
<1> QED BY <1>6 DEF h, g, q, x

LEMMA EqlGuildProper ==
  \A op \in DOMAIN EqlGuildHandlers : ProperHandler(EqlGuildHandlers[op])
<1>1. /\ "GuildRoster" \in AllDecoded /\ "GuildRosterWire" \in AllDecoded
      /\ "GuildRankName" \in AllDecoded /\ "Stance" \in AllDecoded
      /\ "Invocation" \in AllDecoded /\ "TimeOfDay" \in AllDecoded
      /\ "SpawnAnimation" \in AllDecoded /\ "GroundItemRemoved" \in AllDecoded
  BY DEF AllDecoded, DecodedPlaces, DecodedThings, DecodedDeeds, DecodedWords
<1> QED BY <1>1, OnesAndTwos, StaysProper, SwapProper DEF EqlGuildHandlers

LEMMA LiveGuildProper ==
  \A op \in DOMAIN LiveGuildHandlers : ProperHandler(LiveGuildHandlers[op])
<1>1. /\ "GuildRoster" \in AllDecoded /\ "GuildRosterWire" \in AllDecoded
      /\ "GuildRankName" \in AllDecoded /\ "GuildsInZone" \in AllDecoded
      /\ "GuildMemberStatus" \in AllDecoded /\ "GuildMotd" \in AllDecoded
      /\ "GroundItemRemoved" \in AllDecoded
  BY DEF AllDecoded, DecodedPlaces, DecodedThings, DecodedDeeds, DecodedWords
<1> QED BY <1>1, OnesAndTwos, StaysProper, GivesNone DEF LiveGuildHandlers

LEMMA EqlProper ==
  ASSUME NEW op \in DOMAIN EqlHandlers
  PROVE  ProperHandler(EqlHandlers[op])
<1> DEFINE F == <<EqlSpawnHandlers, EqlPositionHandlers, EqlMessageHandlers,
                  EqlProgressHandlers, EqlCombatHandlers, EqlLifecycleHandlers,
                  EqlNamedHandlers, EqlGuildHandlers, EqlPlaceHandlers>>
<1>1. EqlHandlers = Merged(F)
  BY DEF EqlHandlers
<1>2. /\ F[1] = EqlSpawnHandlers /\ F[2] = EqlPositionHandlers
      /\ F[3] = EqlMessageHandlers /\ F[4] = EqlProgressHandlers
      /\ F[5] = EqlCombatHandlers /\ F[6] = EqlLifecycleHandlers
      /\ F[7] = EqlNamedHandlers /\ F[8] = EqlGuildHandlers
      /\ F[9] = EqlPlaceHandlers /\ DOMAIN F = 1 .. 9
  OBVIOUS
<1> HIDE DEF F
<1>3. PICK i \in DOMAIN F : op \in DOMAIN F[i] /\ Merged(F)[op] = F[i][op]
  BY <1>1, MergedFrom
<1>4. \A j \in 1 .. 9 : \A x \in DOMAIN F[j] : ProperHandler(F[j][x])
  BY <1>2, EqlSpawnProper, EqlPositionProper, EqlMessageProper, EqlProgressProper,
     EqlCombatProper, EqlLifecycleProper, EqlNamedProper, EqlGuildProper, EqlPlaceProper
<1> QED BY <1>1, <1>2, <1>3, <1>4

LEMMA LiveProper ==
  ASSUME NEW b, NEW op \in DOMAIN LiveHandlers(b)
  PROVE  ProperHandler(LiveHandlers(b)[op])
<1> DEFINE points == IF b = "test" THEN TestZonePoints ELSE LiveZonePoints
           F == <<LiveSpawnHandlers, LiveCombatHandlers, LiveLifecycleHandlers,
                  LiveItemHandlers, LiveGuildHandlers, LiveMessageHandlers, points>>
<1>1. LiveHandlers(b) = Merged(F)
  BY DEF LiveHandlers
<1>2. /\ F[1] = LiveSpawnHandlers /\ F[2] = LiveCombatHandlers
      /\ F[3] = LiveLifecycleHandlers /\ F[4] = LiveItemHandlers
      /\ F[5] = LiveGuildHandlers /\ F[6] = LiveMessageHandlers
      /\ F[7] = points /\ DOMAIN F = 1 .. 7
  <2> HIDE DEF points
  <2> QED OBVIOUS
<1>3. \A x \in DOMAIN points : ProperHandler(points[x])
  BY LiveZonePointsProper, TestZonePointsProper
<1> HIDE DEF F, points
<1>4. PICK i \in DOMAIN F : op \in DOMAIN F[i] /\ Merged(F)[op] = F[i][op]
  BY <1>1, MergedFrom
<1>5. \A j \in 1 .. 7 : \A x \in DOMAIN F[j] : ProperHandler(F[j][x])
  BY <1>2, <1>3, LiveSpawnProper, LiveCombatProper, LiveLifecycleProper,
     LiveItemProper, LiveGuildProper, LiveMessageProper
<1> QED BY <1>1, <1>2, <1>4, <1>5

(* What a packet decodes to.                                               *)
LEMMA HandleProper ==
  ASSUME NEW h, ProperHandler(h), NEW dir, NEW p,
         Handle(h, dir, p).disposition = "Decoded"
  PROVE  Proper(Handle(h, dir, p).kinds)
<1> DEFINE q == IF p.body = "extra" THEN h.kinds \o h.extra ELSE h.kinds
<1>1. Proper(q)
  BY DEF ProperHandler
<1> HIDE DEF q
<1>2. \/ Handle(h, dir, p) = Malformed \/ Handle(h, dir, p) = Ignored
      \/ Handle(h, dir, p) = Outcome("Decoded", q)
  BY DEF Handle, q
<1>3. Handle(h, dir, p) = Outcome("Decoded", q)
  BY <1>2 DEF Malformed, Ignored, Outcome
<1>4. Outcome("Decoded", q).kinds = q
  BY DEF Outcome
<1> QED BY <1>1, <1>3, <1>4

LEMMA DecodeProper ==
  ASSUME NEW op, NEW dir, NEW p, Decode(op, dir, p).disposition = "Decoded"
  PROVE  Proper(Decode(op, dir, p).kinds)
<1>1. Ignored.disposition # "Decoded" /\ Unhandled.disposition # "Decoded"
  BY DEF Ignored, Unhandled, Outcome
<1>2. CASE backend = "eql"
  <2>1. Decode(op, dir, p) = EqlDecode(op, dir, p)
    BY <1>2 DEF Decode
  <2>2. \/ EqlDecode(op, dir, p) = Ignored \/ EqlDecode(op, dir, p) = Unhandled
        \/ /\ op \in DOMAIN EqlHandlers
           /\ EqlDecode(op, dir, p) = Handle(EqlHandlers[op], dir, p)
    BY DEF EqlDecode
  <2> QED BY <1>1, <2>1, <2>2, EqlProper, HandleProper
<1>3. CASE backend # "eql"
  <2>1. Decode(op, dir, p) = LiveDecode(backend, op, dir, p)
    BY <1>3 DEF Decode
  <2>2. \/ LiveDecode(backend, op, dir, p) = Ignored
        \/ LiveDecode(backend, op, dir, p) = Unhandled
        \/ /\ op \in DOMAIN LiveHandlers(backend)
           /\ LiveDecode(backend, op, dir, p) = Handle(LiveHandlers(backend)[op], dir, p)
    BY DEF LiveDecode
  <2> QED BY <1>1, <2>1, <2>2, LiveProper, HandleProper
<1> QED BY <1>2, <1>3

-----------------------------------------------------------------------------
(* What a call leaves                                                      *)

LEMMA KindsOnly ==
  ASSUME NEW k \in Kinds
  PROVE  k \notin Aside
<1> DEFINE F == <<PlayerKinds, SpawnKinds, ZoneKinds, ItemKinds, GuildKinds,
                  WorldKinds, CombatKinds, ProgressKinds, LootKinds, ChatKinds,
                  BuffKinds, GroupKinds>>
<1>1. Kinds = DOMAIN Merged(F)
  BY DEF Kinds, Optional
<1>2. \A i \in DOMAIN F :
         \/ F[i] = PlayerKinds \/ F[i] = SpawnKinds \/ F[i] = ZoneKinds
         \/ F[i] = ItemKinds \/ F[i] = GuildKinds \/ F[i] = WorldKinds
         \/ F[i] = CombatKinds \/ F[i] = ProgressKinds \/ F[i] = LootKinds
         \/ F[i] = ChatKinds \/ F[i] = BuffKinds \/ F[i] = GroupKinds
  OBVIOUS
<1> HIDE DEF F
<1>3. PICK i \in DOMAIN F : k \in DOMAIN F[i]
  BY <1>1, MergedFrom
<1> HIDE DEF F
<1>4. /\ DOMAIN PlayerKinds \cap Aside = {} /\ DOMAIN SpawnKinds \cap Aside = {}
      /\ DOMAIN ZoneKinds \cap Aside = {} /\ DOMAIN ItemKinds \cap Aside = {}
  BY DEF PlayerKinds, SpawnKinds, ZoneKinds, ItemKinds, Aside
<1>5. /\ DOMAIN GuildKinds \cap Aside = {} /\ DOMAIN WorldKinds \cap Aside = {}
      /\ DOMAIN CombatKinds \cap Aside = {} /\ DOMAIN ProgressKinds \cap Aside = {}
  BY DEF GuildKinds, WorldKinds, CombatKinds, ProgressKinds, Aside
<1>6. /\ DOMAIN LootKinds \cap Aside = {} /\ DOMAIN ChatKinds \cap Aside = {}
      /\ DOMAIN BuffKinds \cap Aside = {} /\ DOMAIN GroupKinds \cap Aside = {}
  BY DEF LootKinds, ChatKinds, BuffKinds, GroupKinds, Aside
<1> QED BY <1>2, <1>3, <1>4, <1>5, <1>6

(* Without a reset: no marker, nothing that causes one, no wire event.     *)
Calm(q, C) ==
  \A i \in 1 .. Len(q) : q[i].kind \in Kinds \ (WireKinds \cup {"SessionReset"} \cup C)

(* With one: what it closes, the marker, the cause, the player's snapshot. *)
Announces(q, C) ==
  \E r \in 1 .. Len(q) :
    /\ q[r].kind = "SessionReset"
    /\ \A i \in 1 .. Len(q) : i < r => q[i].kind \in ClosingKinds
    /\ \A i \in 1 .. Len(q) : i = r + 1 => q[i].kind \in C
    /\ \A i \in 1 .. Len(q) : i > r + 1 => q[i].kind \in After

Shaped(q, C) == IsSeq(q) /\ (Calm(q, C) \/ Announces(q, C))

(* What a call of the session leaves, for a bridge of this backend.        *)
Leaves(b, s, t, C) ==
  /\ IsState(t) /\ Balanced(t) /\ Shaped(t.out, C)
  /\ b # "eql" => Still(s, t)

LEMMA TheseAreKinds ==
  /\ ClosingKinds \subseteq Kinds /\ After \subseteq Kinds /\ LootTold \subseteq Kinds
  /\ AnyCause \subseteq Kinds /\ "SessionReset" \in Kinds
  /\ "UcsRecord" \in Kinds /\ "ChatMessage" \in Kinds
<1>1. /\ ClosingKinds \subseteq Made \cup {"LootAcquired"} /\ After \subseteq Made
  BY DEF ClosingKinds, After, Made, MadePlayer, MadeItems, MadeProgress, MadeCombat, MadeTold
<1>2. LootTold \subseteq DOMAIN LootKinds /\ "LootAcquired" \in DOMAIN LootKinds
  BY DEF LootTold, Told, Shown, LootKinds
<1>3. "SessionReset" \in DOMAIN PlayerKinds
  BY DEF PlayerKinds
<1>4. AnyCause \subseteq DOMAIN SpawnKinds \cup DOMAIN ZoneKinds \cup DOMAIN GroupKinds
  BY DEF AnyCause, SpawnKinds, ZoneKinds, GroupKinds
<1>5. {"UcsRecord", "ChatMessage"} \subseteq DOMAIN ChatKinds
  BY DEF ChatKinds
<1> QED BY <1>1, <1>2, <1>3, <1>4, <1>5, MadeAreKinds, KindsAre

(* A packet that does not reset.                                           *)
LEMMA CalmSemantics ==
  ASSUME NEW ctx, NEW s, IsState(s), s.out = << >>, Balanced(s),
         NEW kinds \in Seq(Given(ctx)),
         NEW t \in ApplySessionSemantics(ctx, s, kinds)
  PROVE  Leaves(ctx.backend, s, t, Causes(ctx))
<1>1. ASSUME NEW i \in DOMAIN kinds PROVE ~ Resets(ctx, kinds[i])
  <2>1. kinds[i] \in Given(ctx)
    OBVIOUS
  <2>2. kinds[i] \notin Causes(ctx)
    BY <2>1 DEF Given
  <2> QED BY <2>2 DEF Causes, Resets
<1>2. PICK events \in Semantics(ctx, kinds) : t \in ObserveAll(ctx, {s}, events)
  BY <1>1 DEF ApplySessionSemantics
<1>3. events \in Seq(Heard(ctx))
  BY <1>2, SemanticsHeard
<1>4. /\ IsSeq(events) /\ Len(events) \in Nat
      /\ \A i \in 1 .. Len(events) : events[i] \in Heard(ctx)
  BY <1>3 DEF IsSeq
<1>5. Without(events, {"LootAcquired"})
  BY <1>4 DEF Without, Heard, Own
<1>6. ctx.backend # "eql" => Without(events, Aside)
  BY <1>4, KindsOnly DEF Without, Heard
<1> DEFINE K == ToldFor(events) \cup LootTold
<1>7. /\ IsState(t) /\ (Balanced(s) => Balanced(t)) /\ Grows(s, t, K)
      /\ ctx.backend # "eql" /\ Without(events, Aside) => Still(s, t)
  <2> DEFINE one == {s}
  <2>1. (\A r \in one : IsState(r) /\ r = s) /\ t \in ObserveAll(ctx, one, events)
    BY <1>2
  <2> HIDE DEF one
  <2>2. \A r \in one : IsState(r)
    BY <2>1
  <2>3. \E r \in one :
          /\ IsState(t) /\ (Balanced(r) => Balanced(t))
          /\ Grows(r, t, ToldFor(events) \cup LootTold)
          /\ ctx.backend # "eql" /\ Without(events, Aside) => Still(r, t)
    BY <1>4, <1>5, <2>1, <2>2, ObserveAllGrows
  <2> QED BY <2>1, <2>3
<1> DEFINE Fine == Kinds \ (WireKinds \cup {"SessionReset"} \cup Causes(ctx))
<1>8. K \subseteq Fine
  <2>1. \A c \in Causes(ctx) : c \in AnyCause
    BY DEF Causes, AnyCause
  <2>2. LootTold \subseteq Fine
    <3>1. LootTold \cap (WireKinds \cup {"SessionReset"} \cup AnyCause) = {}
      BY DEF LootTold, Told, Shown, WireKinds, AnyCause
    <3> QED BY <2>1, <3>1, TheseAreKinds
  <2>3. ASSUME NEW k \in Heard(ctx) PROVE Says(k) \subseteq Fine
    <3>1. CASE k \in Aside
      <4>1. Says(k) \subseteq {"PlayerVitalsUpdated"}
        BY <3>1 DEF Aside, Says, ToldAs
      <4>2. "PlayerVitalsUpdated" \in Kinds
        BY TheseAreKinds DEF After
      <4>3. "PlayerVitalsUpdated" \notin WireKinds \cup {"SessionReset"} \cup AnyCause
        BY DEF WireKinds, AnyCause
      <4> QED BY <2>1, <4>1, <4>2, <4>3
    <3>2. CASE k \notin Aside
      <4>1. Says(k) = {k}
        BY <3>2 DEF Aside, Says, ToldAs
      <4>2. k \in Fine
        BY <3>2 DEF Heard, Own
      <4> QED BY <4>1, <4>2
    <3> QED BY <3>1, <3>2
  <2> HIDE DEF Fine
  <2>4. ToldFor(events) \subseteq Fine
    BY <1>4, <2>3 DEF ToldFor
  <2> QED BY <2>2, <2>4
<1>9. Calm(t.out, Causes(ctx))
  <2>1. IsSeq(t.out) /\ Len(t.out) \in Nat /\ Len(s.out) = 0
    BY <1>7, StateFacts, EmptyIsSeq
  <2> HIDE DEF K, Fine
  <2>2. \A i \in 1 .. Len(t.out) : t.out[i].kind \in K
    BY <1>7, <2>1 DEF Grows
  <2> QED BY <1>8, <2>2 DEF Calm, Fine
<1>10. IsSeq(t.out)
  BY <1>7, StateFacts
<1> QED BY <1>6, <1>7, <1>9, <1>10 DEF Leaves, Shaped

(* What a reset leaves, once it is announced.                              *)
LEMMA ResetAnnounced ==
  ASSUME NEW ctx, NEW s, IsState(s), s.out = << >>, Balanced(s),
         NEW r \in ResetCorrelations(ctx, s),
         NEW t, t = Tell(r, "SessionReset")
  PROVE  /\ IsState(r) /\ Balanced(r) /\ (ctx.backend # "eql" => Still(s, r))
         /\ IsState(t) /\ Balanced(t) /\ (ctx.backend # "eql" => Still(s, t))
         /\ \A i \in 1 .. Len(r.out) : r.out[i].kind \in ClosingKinds
         /\ Len(r.out) \in Nat /\ Len(t.out) = Len(r.out) + 1
         /\ \A i \in 1 .. Len(r.out) : t.out[i].kind \in ClosingKinds
         /\ t.out[Len(r.out) + 1].kind = "SessionReset"
<1>1. /\ IsState(r) /\ Balanced(r) /\ Grows(s, r, ClosingKinds)
      /\ ctx.backend # "eql" => Still(s, r)
  BY ResetGrows
<1>2. "SessionReset" # "LootAcquired" /\ "SessionReset" \notin Aside
      /\ ToldAs("SessionReset") = "SessionReset"
  BY DEF Aside, ToldAs
<1>3. /\ IsState(t) /\ Balanced(t) /\ Still(r, t)
      /\ Len(t.out) = Len(r.out) + 1
      /\ \A i \in 1 .. Len(r.out) : t.out[i] = r.out[i]
      /\ t.out[Len(r.out) + 1].kind = "SessionReset"
  BY <1>1, <1>2, TellGrows
<1>4. Len(r.out) \in Nat /\ Len(s.out) = 0
  BY <1>1, StateFacts, EmptyIsSeq
<1>5. \A i \in 1 .. Len(r.out) : r.out[i].kind \in ClosingKinds
  BY <1>1, <1>4 DEF Grows
<1> QED BY <1>1, <1>3, <1>4, <1>5 DEF Still

(* A packet that resets.                                                   *)
LEMMA ResetSemantics ==
  ASSUME NEW ctx, NEW s, IsState(s), s.out = << >>, Balanced(s),
         NEW k \in Causes(ctx),
         NEW t \in ApplySessionSemantics(ctx, s, <<k>>)
  PROVE  Leaves(ctx.backend, s, t, Causes(ctx))
<1> DEFINE before == {Tell(r, "SessionReset") : r \in ResetCorrelations(ctx, s)}
<1>1. PICK events \in Semantics(ctx, <<k>>) : t \in ObserveAll(ctx, before, events)
  <2>1. Resets(ctx, k) /\ \E i \in DOMAIN <<k>> : Resets(ctx, <<k>>[i])
    BY DEF Causes
  <2> QED BY <2>1 DEF ApplySessionSemantics
<1>2. k \in {"EnterWorld", "PlayerProfile", "ZoneTransition"}
  BY DEF Causes
<1>3. events \in Led(k, After)
  BY <1>1, <1>2, SemanticsLed
<1>4. /\ IsSeq(events) /\ Len(events) \in Nat /\ Len(events) > 0 /\ events[1] = k
      /\ \A i \in 2 .. Len(events) : events[i] \in After
  BY <1>3, LedFacts
<1> DEFINE Plainly == After \cup {"EnterWorld", "PlayerProfile", "ZoneTransition"}
<1>5. \A i \in 1 .. Len(events) : events[i] \in Plainly
  BY <1>2, <1>4
<1>6. ASSUME NEW l \in Plainly
      PROVE  /\ l \notin LootKeys \cup {"LootAcquired", "SelfStat"}
             /\ l \notin Aside /\ ToldAs(l) = l
  BY DEF After, LootKeys, Aside, ToldAs
<1> HIDE DEF Plainly
<1>7. /\ Without(events, LootKeys \cup {"LootAcquired", "SelfStat"})
      /\ Without(events, {"LootAcquired"}) /\ Without(events, Aside)
  BY <1>5, <1>6 DEF Without
<1>8. ASSUME NEW u \in before
      PROVE  IsState(u) /\ Balanced(u) /\ (ctx.backend # "eql" => Still(s, u))
  BY ResetAnnounced
<1>9. /\ IsState(t) /\ Balanced(t)
      /\ ctx.backend # "eql" => Still(s, t)
  <2> HIDE DEF before
  <2>1. PICK u \in before :
          /\ IsState(t) /\ (Balanced(u) => Balanced(t))
          /\ ctx.backend # "eql" /\ Without(events, Aside) => Still(u, t)
    BY <1>1, <1>4, <1>7, <1>8, ObserveAllGrows
  <2> QED BY <1>7, <1>8, <2>1 DEF Still
<1>10. PICK u \in before : Adds(u, t, events)
  <2> HIDE DEF before
  <2>1. \A u \in before : IsState(u)
    BY <1>8
  <2>2. IsSeq(events) /\ t \in ObserveAll(ctx, before, events)
        /\ Without(events, LootKeys \cup {"LootAcquired", "SelfStat"})
    BY <1>1, <1>4, <1>7
  <2> QED BY <2>1, <2>2, ObserveAllTells
<1>11. PICK r \in ResetCorrelations(ctx, s) : u = Tell(r, "SessionReset")
  BY <1>10
<1>12. /\ Len(r.out) \in Nat /\ Len(u.out) = Len(r.out) + 1
       /\ \A i \in 1 .. Len(r.out) : u.out[i].kind \in ClosingKinds
       /\ u.out[Len(r.out) + 1].kind = "SessionReset"
  BY <1>11, ResetAnnounced
<1> DEFINE m == Len(r.out) + 1
<1>a. /\ m \in Nat /\ m > 0 /\ Len(u.out) = m /\ Len(t.out) = m + Len(events)
      /\ Len(events) \in Nat /\ Len(events) > 0
  BY <1>4, <1>10, <1>12 DEF Adds
<1>b. \A i \in 1 .. m : t.out[i] = u.out[i]
  BY <1>10, <1>a DEF Adds
<1>c. u.out[m].kind = "SessionReset" /\ \A i \in 1 .. m - 1 : u.out[i].kind \in ClosingKinds
  BY <1>12
<1> HIDE DEF m
<1>13. /\ m \in 1 .. Len(t.out) /\ t.out[m].kind = "SessionReset"
       /\ \A i \in 1 .. Len(t.out) : i < m => t.out[i].kind \in ClosingKinds
  <2>1. m \in 1 .. Len(t.out) /\ t.out[m] = u.out[m]
    <3>1. m \in 1 .. m /\ m \in 1 .. m + Len(events)
      BY <1>a
    <3> QED BY <1>a, <1>b, <3>1
  <2>2. ASSUME NEW i \in 1 .. Len(t.out), i < m
        PROVE  i \in 1 .. m - 1 /\ t.out[i] = u.out[i]
    BY <1>a, <1>b, <2>2
  <2> QED BY <1>c, <2>1, <2>2
<1>14. ASSUME NEW i \in 1 .. Len(t.out), i > m
       PROVE  i - m \in 1 .. Len(events) /\ t.out[i].kind = events[i - m]
  <2> DEFINE n == i - m
  <2>1. n \in 1 .. Len(events) /\ i = Len(u.out) + n
    BY <1>4, <1>a, <1>14
  <2> HIDE DEF n
  <2>2. t.out[i].kind = ToldAs(events[n])
    BY <1>10, <2>1 DEF Adds
  <2>3. ToldAs(events[n]) = events[n]
    BY <1>5, <1>6, <2>1
  <2> QED BY <2>1, <2>2, <2>3 DEF n
<1>15. ASSUME NEW i \in 1 .. Len(t.out), i = m + 1 PROVE t.out[i].kind \in Causes(ctx)
  <2>1. i > m /\ i - m = 1
    BY <1>a, <1>15
  <2>2. t.out[i].kind = events[1]
    BY <1>14, <2>1
  <2> QED BY <1>4, <2>2
<1>16. ASSUME NEW i \in 1 .. Len(t.out), i > m + 1 PROVE t.out[i].kind \in After
  <2>1. i \in Int /\ m \in Nat /\ Len(events) \in Nat /\ i <= m + Len(events)
    BY <1>a
  <2>2. i > m /\ i - m \in 2 .. Len(events)
    BY <1>16, <2>1
  <2>3. t.out[i].kind = events[i - m]
    BY <1>14, <2>2
  <2> QED BY <1>4, <2>2, <2>3
<1>17. Announces(t.out, Causes(ctx))
  BY <1>13, <1>15, <1>16 DEF Announces
<1>18. IsSeq(t.out)
  BY <1>9, StateFacts
<1> QED BY <1>9, <1>17, <1>18 DEF Leaves, Shaped

(* A packet that is decoded.                                               *)
LEMMA SemanticsLeave ==
  ASSUME NEW ctx, NEW s, IsState(s), s.out = << >>, Balanced(s),
         NEW kinds, Proper(kinds), NEW t \in ApplySessionSemantics(ctx, s, kinds)
  PROVE  Leaves(ctx.backend, s, t, Causes(ctx))
<1>1. Decodable \subseteq Given(ctx)
  BY DEF Decodable, Given, Causes, AnyCause
<1>2. CASE kinds \in Seq(Decodable)
  <2>1. kinds \in Seq(Given(ctx))
    BY <1>1, <1>2, SeqMonotonic
  <2> QED BY <2>1, CalmSemantics
<1>3. ASSUME NEW c \in AnyCause, kinds = <<c>> PROVE Leaves(ctx.backend, s, t, Causes(ctx))
  <2>1. CASE c \in Causes(ctx)
    BY <1>3, <2>1, ResetSemantics
  <2>2. CASE c \notin Causes(ctx)
    <3>1. c \in Given(ctx)
      BY <2>2, TheseAreKinds DEF Given, Own, AnyCause
    <3>2. kinds \in Seq(Given(ctx))
      BY <1>3, <3>1, OneSeq
    <3> QED BY <3>2, CalmSemantics
  <2> QED BY <2>1, <2>2
<1> QED BY <1>2, <1>3 DEF Proper

(* A flush.                                                                *)
LEMMA FlushLeaves ==
  ASSUME NEW ctx, NEW s, IsState(s), s.out = << >>, Balanced(s), NEW reason,
         NEW t \in FlushSession(ctx, s, reason), NEW C \in SUBSET AnyCause
  PROVE  Leaves(ctx.backend, s, t, C)
<1>1. PICK r \in ResetCorrelations(ctx, s) :
        t = IF reason \in {"ZoneTransition", "Reset"} THEN Tell(r, "SessionReset") ELSE r
  BY DEF FlushSession
<1> DEFINE u == Tell(r, "SessionReset")
<1>2. /\ IsState(r) /\ Balanced(r) /\ (ctx.backend # "eql" => Still(s, r))
      /\ IsState(u) /\ Balanced(u) /\ (ctx.backend # "eql" => Still(s, u))
      /\ \A i \in 1 .. Len(r.out) : r.out[i].kind \in ClosingKinds
      /\ Len(r.out) \in Nat /\ Len(u.out) = Len(r.out) + 1
      /\ \A i \in 1 .. Len(r.out) : u.out[i].kind \in ClosingKinds
      /\ u.out[Len(r.out) + 1].kind = "SessionReset"
  BY ResetAnnounced
<1> HIDE DEF u
<1>3. CASE t = r
  <2>1. ClosingKinds \cap (WireKinds \cup {"SessionReset"} \cup AnyCause) = {}
    BY DEF ClosingKinds, WireKinds, AnyCause
  <2>2. Calm(t.out, C)
    BY <1>2, <1>3, <2>1, TheseAreKinds DEF Calm
  <2> QED BY <1>2, <1>3, <2>2, StateFacts DEF Leaves, Shaped
<1>4. CASE t = u
  <2> DEFINE m == Len(r.out) + 1
  <2>1. /\ m \in 1 .. Len(t.out) /\ t.out[m].kind = "SessionReset"
        /\ \A i \in 1 .. Len(t.out) : i < m => t.out[i].kind \in ClosingKinds
        /\ \A i \in 1 .. Len(t.out) : ~ i > m
    BY <1>2, <1>4
  <2>2. \A i \in 1 .. Len(t.out) : i \in Nat /\ m \in Nat
    BY <1>2
  <2> HIDE DEF m
  <2>3. Announces(t.out, C)
    BY <2>1, <2>2 DEF Announces
  <2> QED BY <1>2, <1>4, <2>3, StateFacts DEF Leaves, Shaped
<1> QED BY <1>1, <1>3, <1>4 DEF u

-----------------------------------------------------------------------------
(* The rows have a flag for every optional field                           *)

LEMMA MergedIs ==
  ASSUME NEW families, NEW i \in DOMAIN families, NEW x \in DOMAIN families[i],
         \A j \in DOMAIN families : x \in DOMAIN families[j] => j = i
  PROVE  x \in DOMAIN Merged(families) /\ Merged(families)[x] = families[i][x]
<1>1. x \in DOMAIN Merged(families)
  BY MergedHas
<1>2. PICK j \in DOMAIN families :
        x \in DOMAIN families[j] /\ Merged(families)[x] = families[j][x]
  BY <1>1, MergedFrom
<1> QED BY <1>1, <1>2

LEMMA MergedTwo ==
  ASSUME NEW f, NEW g
  PROVE  /\ DOMAIN Merged(<<f, g>>) = DOMAIN f \cup DOMAIN g
         /\ \A x \in DOMAIN f : x \notin DOMAIN g => Merged(<<f, g>>)[x] = f[x]
<1> DEFINE F == <<f, g>>
<1>1. DOMAIN F = 1 .. 2 /\ F[1] = f /\ F[2] = g
  OBVIOUS
<1> HIDE DEF F
<1>2. \A x : x \in DOMAIN Merged(F) <=> \E i \in 1 .. 2 : x \in DOMAIN F[i]
  BY <1>1 DEF Merged
<1>3. DOMAIN Merged(F) = DOMAIN f \cup DOMAIN g
  BY <1>1, <1>2
<1>4. ASSUME NEW x \in DOMAIN f, x \notin DOMAIN g PROVE Merged(F)[x] = f[x]
  <2>1. 1 \in DOMAIN F /\ x \in DOMAIN F[1]
    BY <1>1
  <2>2. \A j \in DOMAIN F : x \in DOMAIN F[j] => j = 1
    BY <1>1, <1>4
  <2> QED BY <1>1, <2>1, <2>2, MergedIs
<1> QED BY <1>3, <1>4 DEF F

(* The kinds each table lays out.                                          *)
LaidPlayer ==
  {"PlayerIdentityUpdated", "PlayerMoved", "PlayerVitalsUpdated",
   "PlayerDied", "SpawnDied", "PlayerAppearanceUpdated", "SpawnAdded",
   "SpawnMoved", "SpawnRenamed", "SessionReset", "SpawnHealthUpdated",
   "SpawnIdentityUpdated", "SpawnRemoved", "SpawnKilled"}
LaidSpawn ==
  {"SelfPos", "ZoneTransition", "SpawnHp", "StatSync", "SpawnAnimation",
   "SpawnIllusion", "GuildsInZone", "TimeOfDay", "ZoneChanged",
   "ZoneEnvironmentChanged", "PlayerProfile"}
LaidItem ==
  {"ItemSet", "ItemLearned", "InventorySnapshot", "EquipmentSnapshot",
   "InventoryItemUpdated", "EquipmentSlotUpdated", "Stance", "Invocation",
   "InspectAnswer", "GuildRoster", "GuildRosterUpdated", "GuildRosterWire",
   "GuildMemberStatus", "ZoneServerInfo"}
LaidWorld ==
  {"Doors", "GroundItem", "ZonePoints", "CombatDamage", "GuildMotd",
   "GuildMotdUpdated", "GuildRankName", "GuildRankNamesUpdated",
   "LoadoutSwap", "GroundItemRemoved", "CorpseLocated", "Combat"}
LaidCast ==
  {"SpellActionResolved", "SpellCastStarted", "SpellCastInterrupted",
   "ExperienceUpdated", "SpellAction", "SpellCastRequest", "SpawnCast",
   "Targeted", "Considered", "AaTable", "AlternateAbilityDefined", "Exp"}
LaidProgress ==
  {"AlternateAdvancementSnapshot", "AaExp", "AlternateAdvancementUpdated",
   "Stamina", "ManaUpdate", "SkillUpdate", "SkillsSnapshot",
   "SkillValueUpdated", "LootTransaction", "LootDrops", "CorpseLootSnapshot"}
LaidChat ==
  {"LootAcquired", "ChatMessage", "Money", "MoneyBalanceUpdated",
   "SimpleMessage", "FormattedMessage", "SpecialMessage", "LootMessage",
   "Chat"}
LaidBuff ==
  {"BuffAdded", "BuffUpdated", "BuffRemoved", "GroupRosterUpdated",
   "UcsRecord", "BuffList", "BuffWire", "GroupFollow", "GroupDisband",
   "GroupRosterWire", "DynamicZoneInfo"}
LaidZone ==
  {"DynamicZoneSwitch", "DynamicZoneUpdated", "LevelUpdate", "EnterWorld"}

LEMMA LaysPlayer ==
  /\ DOMAIN PlayerRows = LaidPlayer
  /\ PlayerRows["PlayerIdentityUpdated"] = "PlayerIdentity"
  /\ PlayerRows["PlayerMoved"] = "PlayerMoved"
  /\ PlayerRows["PlayerVitalsUpdated"] = "PlayerVitals"
  /\ PlayerRows["PlayerDied"] = "PlayerDied"
  /\ PlayerRows["SpawnDied"] = "SpawnDied"
  /\ PlayerRows["PlayerAppearanceUpdated"] = "PlayerAppearance"
  /\ PlayerRows["SpawnAdded"] = "SpawnInfo"
  /\ PlayerRows["SpawnMoved"] = "SpawnMoved"
  /\ PlayerRows["SpawnRenamed"] = "SpawnRenamed"
<1> DEFINE r ==
        [PlayerIdentityUpdated |-> "PlayerIdentity",
         PlayerMoved |-> "PlayerMoved",
         PlayerVitalsUpdated |-> "PlayerVitals", PlayerDied |-> "PlayerDied",
         SpawnDied |-> "SpawnDied",
         PlayerAppearanceUpdated |-> "PlayerAppearance",
         SpawnAdded |-> "SpawnInfo", SpawnMoved |-> "SpawnMoved",
         SpawnRenamed |-> "SpawnRenamed"]
           p == Plain({"SessionReset", "SpawnHealthUpdated",
                       "SpawnIdentityUpdated", "SpawnRemoved", "SpawnKilled"})
<1>1. PlayerRows = Merged(<<r, p>>)
  BY DEF PlayerRows
<1>2. DOMAIN r = {"PlayerIdentityUpdated", "PlayerMoved",
                  "PlayerVitalsUpdated", "PlayerDied", "SpawnDied",
                  "PlayerAppearanceUpdated", "SpawnAdded", "SpawnMoved",
                  "SpawnRenamed"}
  OBVIOUS
<1>3. DOMAIN p = {"SessionReset", "SpawnHealthUpdated",
                  "SpawnIdentityUpdated", "SpawnRemoved", "SpawnKilled"}
  BY DEF Plain
<1>4. /\ r["PlayerIdentityUpdated"] = "PlayerIdentity"
      /\ r["PlayerMoved"] = "PlayerMoved"
      /\ r["PlayerVitalsUpdated"] = "PlayerVitals"
      /\ r["PlayerDied"] = "PlayerDied"
      /\ r["SpawnDied"] = "SpawnDied"
      /\ r["PlayerAppearanceUpdated"] = "PlayerAppearance"
      /\ r["SpawnAdded"] = "SpawnInfo"
      /\ r["SpawnMoved"] = "SpawnMoved"
      /\ r["SpawnRenamed"] = "SpawnRenamed"
  OBVIOUS
<1> HIDE DEF r, p
<1>5. DOMAIN PlayerRows = DOMAIN r \cup DOMAIN p
  BY <1>1, MergedTwo
<1>6. \A x \in DOMAIN r : x \notin DOMAIN p => PlayerRows[x] = r[x]
  BY <1>1, MergedTwo
<1>7. DOMAIN PlayerRows = LaidPlayer
  BY <1>2, <1>3, <1>5 DEF LaidPlayer
<1>8. \A x \in DOMAIN r : x \notin DOMAIN p
  BY <1>2, <1>3
<1> QED BY <1>2, <1>4, <1>6, <1>7, <1>8

LEMMA LaysSpawn ==
  /\ DOMAIN SpawnRows = LaidSpawn
  /\ SpawnRows["SelfPos"] = "SelfPos"
  /\ SpawnRows["ZoneTransition"] = "ZoneTransition"
<1> DEFINE r ==
        [SelfPos |-> "SelfPos", ZoneTransition |-> "ZoneTransition"]
           p == Plain({"SpawnHp", "StatSync", "SpawnAnimation",
                       "SpawnIllusion", "GuildsInZone", "TimeOfDay",
                       "ZoneChanged", "ZoneEnvironmentChanged",
                       "PlayerProfile"})
<1>1. SpawnRows = Merged(<<r, p>>)
  BY DEF SpawnRows
<1>2. DOMAIN r = {"SelfPos", "ZoneTransition"}
  OBVIOUS
<1>3. DOMAIN p = {"SpawnHp", "StatSync", "SpawnAnimation", "SpawnIllusion",
                  "GuildsInZone", "TimeOfDay", "ZoneChanged",
                  "ZoneEnvironmentChanged", "PlayerProfile"}
  BY DEF Plain
<1>4. /\ r["SelfPos"] = "SelfPos"
      /\ r["ZoneTransition"] = "ZoneTransition"
  OBVIOUS
<1> HIDE DEF r, p
<1>5. DOMAIN SpawnRows = DOMAIN r \cup DOMAIN p
  BY <1>1, MergedTwo
<1>6. \A x \in DOMAIN r : x \notin DOMAIN p => SpawnRows[x] = r[x]
  BY <1>1, MergedTwo
<1>7. DOMAIN SpawnRows = LaidSpawn
  BY <1>2, <1>3, <1>5 DEF LaidSpawn
<1>8. \A x \in DOMAIN r : x \notin DOMAIN p
  BY <1>2, <1>3
<1> QED BY <1>2, <1>4, <1>6, <1>7, <1>8

LEMMA LaysItem ==
  /\ DOMAIN ItemRows = LaidItem
  /\ ItemRows["ItemSet"] = "Items"
  /\ ItemRows["ItemLearned"] = "Items"
  /\ ItemRows["InventorySnapshot"] = "Items"
  /\ ItemRows["EquipmentSnapshot"] = "Items"
  /\ ItemRows["InventoryItemUpdated"] = "InventoryItemUpdated"
  /\ ItemRows["EquipmentSlotUpdated"] = "EquipmentSlotUpdated"
<1> DEFINE r ==
        [ItemSet |-> "Items", ItemLearned |-> "Items",
         InventorySnapshot |-> "Items", EquipmentSnapshot |-> "Items",
         InventoryItemUpdated |-> "InventoryItemUpdated",
         EquipmentSlotUpdated |-> "EquipmentSlotUpdated"]
           p == Plain({"Stance", "Invocation", "InspectAnswer", "GuildRoster",
                       "GuildRosterUpdated", "GuildRosterWire",
                       "GuildMemberStatus", "ZoneServerInfo"})
<1>1. ItemRows = Merged(<<r, p>>)
  BY DEF ItemRows
<1>2. DOMAIN r = {"ItemSet", "ItemLearned", "InventorySnapshot",
                  "EquipmentSnapshot", "InventoryItemUpdated",
                  "EquipmentSlotUpdated"}
  OBVIOUS
<1>3. DOMAIN p = {"Stance", "Invocation", "InspectAnswer", "GuildRoster",
                  "GuildRosterUpdated", "GuildRosterWire",
                  "GuildMemberStatus", "ZoneServerInfo"}
  BY DEF Plain
<1>4. /\ r["ItemSet"] = "Items"
      /\ r["ItemLearned"] = "Items"
      /\ r["InventorySnapshot"] = "Items"
      /\ r["EquipmentSnapshot"] = "Items"
      /\ r["InventoryItemUpdated"] = "InventoryItemUpdated"
      /\ r["EquipmentSlotUpdated"] = "EquipmentSlotUpdated"
  OBVIOUS
<1> HIDE DEF r, p
<1>5. DOMAIN ItemRows = DOMAIN r \cup DOMAIN p
  BY <1>1, MergedTwo
<1>6. \A x \in DOMAIN r : x \notin DOMAIN p => ItemRows[x] = r[x]
  BY <1>1, MergedTwo
<1>7. DOMAIN ItemRows = LaidItem
  BY <1>2, <1>3, <1>5 DEF LaidItem
<1>8. \A x \in DOMAIN r : x \notin DOMAIN p
  BY <1>2, <1>3
<1> QED BY <1>2, <1>4, <1>6, <1>7, <1>8

LEMMA LaysWorld ==
  /\ DOMAIN WorldRows = LaidWorld
  /\ WorldRows["Doors"] = "DoorInfo"
  /\ WorldRows["GroundItem"] = "GroundItem"
  /\ WorldRows["ZonePoints"] = "ZonePointInfo"
  /\ WorldRows["CombatDamage"] = "CombatDamage"
<1> DEFINE r ==
        [Doors |-> "DoorInfo", GroundItem |-> "GroundItem",
         ZonePoints |-> "ZonePointInfo", CombatDamage |-> "CombatDamage"]
           p == Plain({"GuildMotd", "GuildMotdUpdated", "GuildRankName",
                       "GuildRankNamesUpdated", "LoadoutSwap",
                       "GroundItemRemoved", "CorpseLocated", "Combat"})
<1>1. WorldRows = Merged(<<r, p>>)
  BY DEF WorldRows
<1>2. DOMAIN r = {"Doors", "GroundItem", "ZonePoints", "CombatDamage"}
  OBVIOUS
<1>3. DOMAIN p = {"GuildMotd", "GuildMotdUpdated", "GuildRankName",
                  "GuildRankNamesUpdated", "LoadoutSwap", "GroundItemRemoved",
                  "CorpseLocated", "Combat"}
  BY DEF Plain
<1>4. /\ r["Doors"] = "DoorInfo"
      /\ r["GroundItem"] = "GroundItem"
      /\ r["ZonePoints"] = "ZonePointInfo"
      /\ r["CombatDamage"] = "CombatDamage"
  OBVIOUS
<1> HIDE DEF r, p
<1>5. DOMAIN WorldRows = DOMAIN r \cup DOMAIN p
  BY <1>1, MergedTwo
<1>6. \A x \in DOMAIN r : x \notin DOMAIN p => WorldRows[x] = r[x]
  BY <1>1, MergedTwo
<1>7. DOMAIN WorldRows = LaidWorld
  BY <1>2, <1>3, <1>5 DEF LaidWorld
<1>8. \A x \in DOMAIN r : x \notin DOMAIN p
  BY <1>2, <1>3
<1> QED BY <1>2, <1>4, <1>6, <1>7, <1>8

LEMMA LaysCast ==
  /\ DOMAIN CastRows = LaidCast
  /\ CastRows["SpellActionResolved"] = "SpellActionResolved"
  /\ CastRows["SpellCastStarted"] = "SpellCastStarted"
  /\ CastRows["SpellCastInterrupted"] = "SpellCastInterrupted"
  /\ CastRows["ExperienceUpdated"] = "ExperienceProgress"
<1> DEFINE r ==
        [SpellActionResolved |-> "SpellActionResolved",
         SpellCastStarted |-> "SpellCastStarted",
         SpellCastInterrupted |-> "SpellCastInterrupted",
         ExperienceUpdated |-> "ExperienceProgress"]
           p == Plain({"SpellAction", "SpellCastRequest", "SpawnCast",
                       "Targeted", "Considered", "AaTable",
                       "AlternateAbilityDefined", "Exp"})
<1>1. CastRows = Merged(<<r, p>>)
  BY DEF CastRows
<1>2. DOMAIN r = {"SpellActionResolved", "SpellCastStarted",
                  "SpellCastInterrupted", "ExperienceUpdated"}
  OBVIOUS
<1>3. DOMAIN p = {"SpellAction", "SpellCastRequest", "SpawnCast", "Targeted",
                  "Considered", "AaTable", "AlternateAbilityDefined", "Exp"}
  BY DEF Plain
<1>4. /\ r["SpellActionResolved"] = "SpellActionResolved"
      /\ r["SpellCastStarted"] = "SpellCastStarted"
      /\ r["SpellCastInterrupted"] = "SpellCastInterrupted"
      /\ r["ExperienceUpdated"] = "ExperienceProgress"
  OBVIOUS
<1> HIDE DEF r, p
<1>5. DOMAIN CastRows = DOMAIN r \cup DOMAIN p
  BY <1>1, MergedTwo
<1>6. \A x \in DOMAIN r : x \notin DOMAIN p => CastRows[x] = r[x]
  BY <1>1, MergedTwo
<1>7. DOMAIN CastRows = LaidCast
  BY <1>2, <1>3, <1>5 DEF LaidCast
<1>8. \A x \in DOMAIN r : x \notin DOMAIN p
  BY <1>2, <1>3
<1> QED BY <1>2, <1>4, <1>6, <1>7, <1>8

LEMMA LaysProgress ==
  /\ DOMAIN ProgressRows = LaidProgress
  /\ ProgressRows["AlternateAdvancementSnapshot"] = "AlternateAdvancementSnapshot"
<1> DEFINE r ==
        [AlternateAdvancementSnapshot |-> "AlternateAdvancementSnapshot"]
           p == Plain({"AaExp", "AlternateAdvancementUpdated", "Stamina",
                       "ManaUpdate", "SkillUpdate", "SkillsSnapshot",
                       "SkillValueUpdated", "LootTransaction", "LootDrops",
                       "CorpseLootSnapshot"})
<1>1. ProgressRows = Merged(<<r, p>>)
  BY DEF ProgressRows
<1>2. DOMAIN r = {"AlternateAdvancementSnapshot"}
  OBVIOUS
<1>3. DOMAIN p = {"AaExp", "AlternateAdvancementUpdated", "Stamina",
                  "ManaUpdate", "SkillUpdate", "SkillsSnapshot",
                  "SkillValueUpdated", "LootTransaction", "LootDrops",
                  "CorpseLootSnapshot"}
  BY DEF Plain
<1>4. /\ r["AlternateAdvancementSnapshot"] = "AlternateAdvancementSnapshot"
  OBVIOUS
<1> HIDE DEF r, p
<1>5. DOMAIN ProgressRows = DOMAIN r \cup DOMAIN p
  BY <1>1, MergedTwo
<1>6. \A x \in DOMAIN r : x \notin DOMAIN p => ProgressRows[x] = r[x]
  BY <1>1, MergedTwo
<1>7. DOMAIN ProgressRows = LaidProgress
  BY <1>2, <1>3, <1>5 DEF LaidProgress
<1>8. \A x \in DOMAIN r : x \notin DOMAIN p
  BY <1>2, <1>3
<1> QED BY <1>2, <1>4, <1>6, <1>7, <1>8

LEMMA LaysChat ==
  /\ DOMAIN ChatRows = LaidChat
  /\ ChatRows["LootAcquired"] = "LootAcquisition"
  /\ ChatRows["ChatMessage"] = "ChatMessage"
<1> DEFINE r ==
        [LootAcquired |-> "LootAcquisition", ChatMessage |-> "ChatMessage"]
           p == Plain({"Money", "MoneyBalanceUpdated", "SimpleMessage",
                       "FormattedMessage", "SpecialMessage", "LootMessage",
                       "Chat"})
<1>1. ChatRows = Merged(<<r, p>>)
  BY DEF ChatRows
<1>2. DOMAIN r = {"LootAcquired", "ChatMessage"}
  OBVIOUS
<1>3. DOMAIN p = {"Money", "MoneyBalanceUpdated", "SimpleMessage",
                  "FormattedMessage", "SpecialMessage", "LootMessage", "Chat"}
  BY DEF Plain
<1>4. /\ r["LootAcquired"] = "LootAcquisition"
      /\ r["ChatMessage"] = "ChatMessage"
  OBVIOUS
<1> HIDE DEF r, p
<1>5. DOMAIN ChatRows = DOMAIN r \cup DOMAIN p
  BY <1>1, MergedTwo
<1>6. \A x \in DOMAIN r : x \notin DOMAIN p => ChatRows[x] = r[x]
  BY <1>1, MergedTwo
<1>7. DOMAIN ChatRows = LaidChat
  BY <1>2, <1>3, <1>5 DEF LaidChat
<1>8. \A x \in DOMAIN r : x \notin DOMAIN p
  BY <1>2, <1>3
<1> QED BY <1>2, <1>4, <1>6, <1>7, <1>8

LEMMA LaysBuff ==
  /\ DOMAIN BuffRows = LaidBuff
  /\ BuffRows["BuffAdded"] = "ActiveBuff"
  /\ BuffRows["BuffUpdated"] = "ActiveBuff"
  /\ BuffRows["BuffRemoved"] = "BuffRemoved"
  /\ BuffRows["GroupRosterUpdated"] = "GroupRosterState"
<1> DEFINE r ==
        [BuffAdded |-> "ActiveBuff", BuffUpdated |-> "ActiveBuff",
         BuffRemoved |-> "BuffRemoved",
         GroupRosterUpdated |-> "GroupRosterState"]
           p == Plain({"UcsRecord", "BuffList", "BuffWire", "GroupFollow",
                       "GroupDisband", "GroupRosterWire", "DynamicZoneInfo"})
<1>1. BuffRows = Merged(<<r, p>>)
  BY DEF BuffRows
<1>2. DOMAIN r = {"BuffAdded", "BuffUpdated", "BuffRemoved",
                  "GroupRosterUpdated"}
  OBVIOUS
<1>3. DOMAIN p = {"UcsRecord", "BuffList", "BuffWire", "GroupFollow",
                  "GroupDisband", "GroupRosterWire", "DynamicZoneInfo"}
  BY DEF Plain
<1>4. /\ r["BuffAdded"] = "ActiveBuff"
      /\ r["BuffUpdated"] = "ActiveBuff"
      /\ r["BuffRemoved"] = "BuffRemoved"
      /\ r["GroupRosterUpdated"] = "GroupRosterState"
  OBVIOUS
<1> HIDE DEF r, p
<1>5. DOMAIN BuffRows = DOMAIN r \cup DOMAIN p
  BY <1>1, MergedTwo
<1>6. \A x \in DOMAIN r : x \notin DOMAIN p => BuffRows[x] = r[x]
  BY <1>1, MergedTwo
<1>7. DOMAIN BuffRows = LaidBuff
  BY <1>2, <1>3, <1>5 DEF LaidBuff
<1>8. \A x \in DOMAIN r : x \notin DOMAIN p
  BY <1>2, <1>3
<1> QED BY <1>2, <1>4, <1>6, <1>7, <1>8

LEMMA LaysZone ==
  /\ DOMAIN ZoneRows = LaidZone
  /\ ZoneRows["DynamicZoneSwitch"] = "DynamicZoneSwitch"
  /\ ZoneRows["DynamicZoneUpdated"] = "DynamicZoneState"
<1> DEFINE r ==
        [DynamicZoneSwitch |-> "DynamicZoneSwitch",
         DynamicZoneUpdated |-> "DynamicZoneState"]
           p == Plain({"LevelUpdate", "EnterWorld"})
<1>1. ZoneRows = Merged(<<r, p>>)
  BY DEF ZoneRows
<1>2. DOMAIN r = {"DynamicZoneSwitch", "DynamicZoneUpdated"}
  OBVIOUS
<1>3. DOMAIN p = {"LevelUpdate", "EnterWorld"}
  BY DEF Plain
<1>4. /\ r["DynamicZoneSwitch"] = "DynamicZoneSwitch"
      /\ r["DynamicZoneUpdated"] = "DynamicZoneState"
  OBVIOUS
<1> HIDE DEF r, p
<1>5. DOMAIN ZoneRows = DOMAIN r \cup DOMAIN p
  BY <1>1, MergedTwo
<1>6. \A x \in DOMAIN r : x \notin DOMAIN p => ZoneRows[x] = r[x]
  BY <1>1, MergedTwo
<1>7. DOMAIN ZoneRows = LaidZone
  BY <1>2, <1>3, <1>5 DEF LaidZone
<1>8. \A x \in DOMAIN r : x \notin DOMAIN p
  BY <1>2, <1>3
<1> QED BY <1>2, <1>4, <1>6, <1>7, <1>8

LEMMA LaidApart ==
  ASSUME NEW T, T = <<LaidPlayer, LaidSpawn, LaidItem, LaidWorld, LaidCast,
                      LaidProgress, LaidChat, LaidBuff, LaidZone>>
  PROVE  \A i, j \in 1 .. 9 : i # j => T[i] \cap T[j] = {}

<1>1. /\ LaidPlayer \cap LaidSpawn = {}
      /\ LaidPlayer \cap LaidItem = {}
      /\ LaidPlayer \cap LaidWorld = {}
      /\ LaidPlayer \cap LaidCast = {}
      /\ LaidPlayer \cap LaidProgress = {}
      /\ LaidPlayer \cap LaidChat = {}
      /\ LaidPlayer \cap LaidBuff = {}
      /\ LaidPlayer \cap LaidZone = {}
      /\ LaidSpawn \cap LaidItem = {}
      /\ LaidSpawn \cap LaidWorld = {}
      /\ LaidSpawn \cap LaidCast = {}
      /\ LaidSpawn \cap LaidProgress = {}
      /\ LaidSpawn \cap LaidChat = {}
      /\ LaidSpawn \cap LaidBuff = {}
      /\ LaidSpawn \cap LaidZone = {}
      /\ LaidItem \cap LaidWorld = {}
      /\ LaidItem \cap LaidCast = {}
      /\ LaidItem \cap LaidProgress = {}
      /\ LaidItem \cap LaidChat = {}
      /\ LaidItem \cap LaidBuff = {}
      /\ LaidItem \cap LaidZone = {}
      /\ LaidWorld \cap LaidCast = {}
      /\ LaidWorld \cap LaidProgress = {}
      /\ LaidWorld \cap LaidChat = {}
      /\ LaidWorld \cap LaidBuff = {}
      /\ LaidWorld \cap LaidZone = {}
      /\ LaidCast \cap LaidProgress = {}
      /\ LaidCast \cap LaidChat = {}
      /\ LaidCast \cap LaidBuff = {}
      /\ LaidCast \cap LaidZone = {}
      /\ LaidProgress \cap LaidChat = {}
      /\ LaidProgress \cap LaidBuff = {}
      /\ LaidProgress \cap LaidZone = {}
      /\ LaidChat \cap LaidBuff = {}
      /\ LaidChat \cap LaidZone = {}
      /\ LaidBuff \cap LaidZone = {}
  BY DEF LaidPlayer, LaidSpawn, LaidItem, LaidWorld, LaidCast, LaidProgress,
         LaidChat, LaidBuff, LaidZone
<1>2. /\ T[1] = LaidPlayer
      /\ T[2] = LaidSpawn
      /\ T[3] = LaidItem
      /\ T[4] = LaidWorld
      /\ T[5] = LaidCast
      /\ T[6] = LaidProgress
      /\ T[7] = LaidChat
      /\ T[8] = LaidBuff
      /\ T[9] = LaidZone
  OBVIOUS
<1> QED BY <1>1, <1>2

LEMMA RowStructIs ==
  /\ \A k \in LaidPlayer : RowStruct[k] = PlayerRows[k]
  /\ \A k \in LaidSpawn : RowStruct[k] = SpawnRows[k]
  /\ \A k \in LaidItem : RowStruct[k] = ItemRows[k]
  /\ \A k \in LaidWorld : RowStruct[k] = WorldRows[k]
  /\ \A k \in LaidCast : RowStruct[k] = CastRows[k]
  /\ \A k \in LaidProgress : RowStruct[k] = ProgressRows[k]
  /\ \A k \in LaidChat : RowStruct[k] = ChatRows[k]
  /\ \A k \in LaidBuff : RowStruct[k] = BuffRows[k]
  /\ \A k \in LaidZone : RowStruct[k] = ZoneRows[k]
<1> DEFINE F == <<PlayerRows, SpawnRows, ItemRows, WorldRows, CastRows,
                  ProgressRows, ChatRows, BuffRows, ZoneRows>>
           D == <<LaidPlayer, LaidSpawn, LaidItem, LaidWorld, LaidCast,
                  LaidProgress, LaidChat, LaidBuff, LaidZone>>
<1>1. RowStruct = Merged(F) /\ DOMAIN F = 1 .. 9
  BY DEF RowStruct
<1>2. /\ F[1] = PlayerRows
      /\ F[2] = SpawnRows
      /\ F[3] = ItemRows
      /\ F[4] = WorldRows
      /\ F[5] = CastRows
      /\ F[6] = ProgressRows
      /\ F[7] = ChatRows
      /\ F[8] = BuffRows
      /\ F[9] = ZoneRows
  OBVIOUS
<1>3. /\ D[1] = LaidPlayer
      /\ D[2] = LaidSpawn
      /\ D[3] = LaidItem
      /\ D[4] = LaidWorld
      /\ D[5] = LaidCast
      /\ D[6] = LaidProgress
      /\ D[7] = LaidChat
      /\ D[8] = LaidBuff
      /\ D[9] = LaidZone
  OBVIOUS
<1>4. \A i, j \in 1 .. 9 : i # j => D[i] \cap D[j] = {}
  BY LaidApart
<1> HIDE DEF F, D
<1>5. \A i \in 1 .. 9 : DOMAIN F[i] = D[i]
  BY <1>2, <1>3, LaysPlayer, LaysSpawn, LaysItem, LaysWorld, LaysCast, LaysProgress,
     LaysChat, LaysBuff, LaysZone
<1>6. ASSUME NEW i \in 1 .. 9, NEW k \in D[i] PROVE RowStruct[k] = F[i][k]
  <2>1. \A j \in DOMAIN F : k \in DOMAIN F[j] => j = i
    BY <1>1, <1>4, <1>5
  <2>2. i \in DOMAIN F /\ k \in DOMAIN F[i]
    BY <1>1, <1>5
  <2>3. Merged(F)[k] = F[i][k]
    BY <2>1, <2>2, MergedIs
  <2> QED BY <1>1, <2>3
<1> QED BY <1>2, <1>3, <1>6

(* The structures of the kinds with optional fields.                        *)
LEMMA Structs ==
  /\ RowStruct["PlayerIdentityUpdated"] = "PlayerIdentity"
  /\ RowStruct["PlayerMoved"] = "PlayerMoved"
  /\ RowStruct["PlayerVitalsUpdated"] = "PlayerVitals"
  /\ RowStruct["PlayerDied"] = "PlayerDied"
  /\ RowStruct["SpawnDied"] = "SpawnDied"
  /\ RowStruct["PlayerAppearanceUpdated"] = "PlayerAppearance"
  /\ RowStruct["SpawnAdded"] = "SpawnInfo"
  /\ RowStruct["SpawnMoved"] = "SpawnMoved"
  /\ RowStruct["SpawnRenamed"] = "SpawnRenamed"
  /\ RowStruct["SelfPos"] = "SelfPos"
  /\ RowStruct["ZoneTransition"] = "ZoneTransition"
  /\ RowStruct["ItemSet"] = "Items"
  /\ RowStruct["ItemLearned"] = "Items"
  /\ RowStruct["InventorySnapshot"] = "Items"
  /\ RowStruct["EquipmentSnapshot"] = "Items"
  /\ RowStruct["InventoryItemUpdated"] = "InventoryItemUpdated"
  /\ RowStruct["EquipmentSlotUpdated"] = "EquipmentSlotUpdated"
  /\ RowStruct["Doors"] = "DoorInfo"
  /\ RowStruct["GroundItem"] = "GroundItem"
  /\ RowStruct["ZonePoints"] = "ZonePointInfo"
  /\ RowStruct["CombatDamage"] = "CombatDamage"
  /\ RowStruct["SpellActionResolved"] = "SpellActionResolved"
  /\ RowStruct["SpellCastStarted"] = "SpellCastStarted"
  /\ RowStruct["SpellCastInterrupted"] = "SpellCastInterrupted"
  /\ RowStruct["ExperienceUpdated"] = "ExperienceProgress"
  /\ RowStruct["AlternateAdvancementSnapshot"] = "AlternateAdvancementSnapshot"
  /\ RowStruct["LootAcquired"] = "LootAcquisition"
  /\ RowStruct["ChatMessage"] = "ChatMessage"
  /\ RowStruct["BuffAdded"] = "ActiveBuff"
  /\ RowStruct["BuffUpdated"] = "ActiveBuff"
  /\ RowStruct["BuffRemoved"] = "BuffRemoved"
  /\ RowStruct["GroupRosterUpdated"] = "GroupRosterState"
  /\ RowStruct["DynamicZoneSwitch"] = "DynamicZoneSwitch"
  /\ RowStruct["DynamicZoneUpdated"] = "DynamicZoneState"
<1>1. /\ RowStruct["PlayerIdentityUpdated"] = "PlayerIdentity"
      /\ RowStruct["PlayerMoved"] = "PlayerMoved"
      /\ RowStruct["PlayerVitalsUpdated"] = "PlayerVitals"
      /\ RowStruct["PlayerDied"] = "PlayerDied"
      /\ RowStruct["SpawnDied"] = "SpawnDied"
      /\ RowStruct["PlayerAppearanceUpdated"] = "PlayerAppearance"
      /\ RowStruct["SpawnAdded"] = "SpawnInfo"
      /\ RowStruct["SpawnMoved"] = "SpawnMoved"
      /\ RowStruct["SpawnRenamed"] = "SpawnRenamed"
  <2>1. /\ "PlayerIdentityUpdated" \in LaidPlayer
        /\ "PlayerMoved" \in LaidPlayer
        /\ "PlayerVitalsUpdated" \in LaidPlayer
        /\ "PlayerDied" \in LaidPlayer
        /\ "SpawnDied" \in LaidPlayer
        /\ "PlayerAppearanceUpdated" \in LaidPlayer
        /\ "SpawnAdded" \in LaidPlayer
        /\ "SpawnMoved" \in LaidPlayer
        /\ "SpawnRenamed" \in LaidPlayer
    BY DEF LaidPlayer
  <2> QED BY <2>1, RowStructIs, LaysPlayer
<1>2. /\ RowStruct["SelfPos"] = "SelfPos"
      /\ RowStruct["ZoneTransition"] = "ZoneTransition"
  <2>1. /\ "SelfPos" \in LaidSpawn
        /\ "ZoneTransition" \in LaidSpawn
    BY DEF LaidSpawn
  <2> QED BY <2>1, RowStructIs, LaysSpawn
<1>3. /\ RowStruct["ItemSet"] = "Items"
      /\ RowStruct["ItemLearned"] = "Items"
      /\ RowStruct["InventorySnapshot"] = "Items"
      /\ RowStruct["EquipmentSnapshot"] = "Items"
      /\ RowStruct["InventoryItemUpdated"] = "InventoryItemUpdated"
      /\ RowStruct["EquipmentSlotUpdated"] = "EquipmentSlotUpdated"
  <2>1. /\ "ItemSet" \in LaidItem
        /\ "ItemLearned" \in LaidItem
        /\ "InventorySnapshot" \in LaidItem
        /\ "EquipmentSnapshot" \in LaidItem
        /\ "InventoryItemUpdated" \in LaidItem
        /\ "EquipmentSlotUpdated" \in LaidItem
    BY DEF LaidItem
  <2> QED BY <2>1, RowStructIs, LaysItem
<1>4. /\ RowStruct["Doors"] = "DoorInfo"
      /\ RowStruct["GroundItem"] = "GroundItem"
      /\ RowStruct["ZonePoints"] = "ZonePointInfo"
      /\ RowStruct["CombatDamage"] = "CombatDamage"
  <2>1. /\ "Doors" \in LaidWorld
        /\ "GroundItem" \in LaidWorld
        /\ "ZonePoints" \in LaidWorld
        /\ "CombatDamage" \in LaidWorld
    BY DEF LaidWorld
  <2> QED BY <2>1, RowStructIs, LaysWorld
<1>5. /\ RowStruct["SpellActionResolved"] = "SpellActionResolved"
      /\ RowStruct["SpellCastStarted"] = "SpellCastStarted"
      /\ RowStruct["SpellCastInterrupted"] = "SpellCastInterrupted"
      /\ RowStruct["ExperienceUpdated"] = "ExperienceProgress"
  <2>1. /\ "SpellActionResolved" \in LaidCast
        /\ "SpellCastStarted" \in LaidCast
        /\ "SpellCastInterrupted" \in LaidCast
        /\ "ExperienceUpdated" \in LaidCast
    BY DEF LaidCast
  <2> QED BY <2>1, RowStructIs, LaysCast
<1>6. /\ RowStruct["AlternateAdvancementSnapshot"] = "AlternateAdvancementSnapshot"
  <2>1. /\ "AlternateAdvancementSnapshot" \in LaidProgress
    BY DEF LaidProgress
  <2> QED BY <2>1, RowStructIs, LaysProgress
<1>7. /\ RowStruct["LootAcquired"] = "LootAcquisition"
      /\ RowStruct["ChatMessage"] = "ChatMessage"
  <2>1. /\ "LootAcquired" \in LaidChat
        /\ "ChatMessage" \in LaidChat
    BY DEF LaidChat
  <2> QED BY <2>1, RowStructIs, LaysChat
<1>8. /\ RowStruct["BuffAdded"] = "ActiveBuff"
      /\ RowStruct["BuffUpdated"] = "ActiveBuff"
      /\ RowStruct["BuffRemoved"] = "BuffRemoved"
      /\ RowStruct["GroupRosterUpdated"] = "GroupRosterState"
  <2>1. /\ "BuffAdded" \in LaidBuff
        /\ "BuffUpdated" \in LaidBuff
        /\ "BuffRemoved" \in LaidBuff
        /\ "GroupRosterUpdated" \in LaidBuff
    BY DEF LaidBuff
  <2> QED BY <2>1, RowStructIs, LaysBuff
<1>9. /\ RowStruct["DynamicZoneSwitch"] = "DynamicZoneSwitch"
      /\ RowStruct["DynamicZoneUpdated"] = "DynamicZoneState"
  <2>1. /\ "DynamicZoneSwitch" \in LaidZone
        /\ "DynamicZoneUpdated" \in LaidZone
    BY DEF LaidZone
  <2> QED BY <2>1, RowStructIs, LaysZone
<1> QED BY <1>1, <1>2, <1>3, <1>4, <1>5, <1>6, <1>7, <1>8, <1>9

(* The flags of the structures.                                             *)
LEMMA FlagsAre ==
  /\ Flags["PlayerIdentity"] = SpawnStructs["PlayerIdentity"]
  /\ Flags["PlayerMoved"] = SpawnStructs["PlayerMoved"]
  /\ Flags["PlayerVitals"] = SpawnStructs["PlayerVitals"]
  /\ Flags["PlayerDied"] = SpawnStructs["PlayerDied"]
  /\ Flags["SpawnDied"] = SpawnStructs["SpawnDied"]
  /\ Flags["PlayerAppearance"] = SpawnStructs["PlayerAppearance"]
  /\ Flags["SpawnInfo"] = SpawnStructs["SpawnInfo"]
  /\ Flags["DoorInfo"] = MovementStructs["DoorInfo"]
  /\ Flags["SpawnMoved"] = MovementStructs["SpawnMoved"]
  /\ Flags["SpawnRenamed"] = MovementStructs["SpawnRenamed"]
  /\ Flags["SelfPos"] = MovementStructs["SelfPos"]
  /\ Flags["ZoneTransition"] = WorldStructs["ZoneTransition"]
  /\ Flags["Items"] = WorldStructs["Items"]
  /\ Flags["InventoryItemUpdated"] = WorldStructs["InventoryItemUpdated"]
  /\ Flags["EquipmentSlotUpdated"] = WorldStructs["EquipmentSlotUpdated"]
  /\ Flags["GroundItem"] = WorldStructs["GroundItem"]
  /\ Flags["ZonePointInfo"] = WorldStructs["ZonePointInfo"]
  /\ Flags["CombatDamage"] = WorldStructs["CombatDamage"]
  /\ Flags["SpellActionResolved"] = WorldStructs["SpellActionResolved"]
  /\ Flags["SpellCastStarted"] = CastStructs["SpellCastStarted"]
  /\ Flags["SpellCastInterrupted"] = CastStructs["SpellCastInterrupted"]
  /\ Flags["AlternateAdvancementSnapshot"] = CastStructs["AlternateAdvancementSnapshot"]
  /\ Flags["ExperienceProgress"] = CastStructs["ExperienceProgress"]
  /\ Flags["LootAcquisition"] = CastStructs["LootAcquisition"]
  /\ Flags["ChatMessage"] = BuffStructs["ChatMessage"]
  /\ Flags["ActiveBuff"] = BuffStructs["ActiveBuff"]
  /\ Flags["BuffRemoved"] = BuffStructs["BuffRemoved"]
  /\ Flags["GroupRosterState"] = BuffStructs["GroupRosterState"]
  /\ Flags["DynamicZoneSwitch"] = BuffStructs["DynamicZoneSwitch"]
  /\ Flags["DynamicZoneState"] = BuffStructs["DynamicZoneState"]
<1> DEFINE E == [Plain |-> {}]
           F == <<SpawnStructs, MovementStructs, WorldStructs, CastStructs,
                  BuffStructs, E>>
<1>1. Flags = Merged(F) /\ DOMAIN F = 1 .. 6
  BY DEF Flags
<1>2. /\ F[1] = SpawnStructs
      /\ F[2] = MovementStructs
      /\ F[3] = WorldStructs
      /\ F[4] = CastStructs
      /\ F[5] = BuffStructs
      /\ F[6] = E
  OBVIOUS
<1>3. DOMAIN SpawnStructs =
        {"PlayerIdentity", "PlayerMoved", "PlayerVitals", "PlayerDied",
         "SpawnDied", "PlayerAppearance", "SpawnInfo"}
  BY DEF SpawnStructs
<1>4. DOMAIN MovementStructs =
        {"DoorInfo", "SpawnMoved", "SpawnRenamed", "SelfPos"}
  BY DEF MovementStructs
<1>5. DOMAIN WorldStructs =
        {"ZoneTransition", "Items", "InventoryItemUpdated",
         "EquipmentSlotUpdated", "GroundItem", "ZonePointInfo",
         "CombatDamage", "SpellActionResolved"}
  BY DEF WorldStructs
<1>6. DOMAIN CastStructs =
        {"SpellCastStarted", "SpellCastInterrupted",
         "AlternateAdvancementSnapshot", "ExperienceProgress",
         "LootAcquisition"}
  BY DEF CastStructs
<1>7. DOMAIN BuffStructs =
        {"ChatMessage", "ActiveBuff", "BuffRemoved", "GroupRosterState",
         "DynamicZoneSwitch", "DynamicZoneState"}
  BY DEF BuffStructs
<1>8. DOMAIN E = {"Plain"}
  OBVIOUS
<1> HIDE DEF E, F
<1>9. ASSUME NEW x \in DOMAIN SpawnStructs PROVE Flags[x] = SpawnStructs[x]
  <2>1. 1 \in DOMAIN F /\ x \in DOMAIN F[1]
    BY <1>1, <1>2
  <2>2. \A j \in DOMAIN F : x \in DOMAIN F[j] => j = 1
    BY <1>1, <1>2, <1>3, <1>4, <1>5, <1>6, <1>7, <1>8
  <2>3. Merged(F)[x] = F[1][x]
    BY <2>1, <2>2, MergedIs, Zenon
  <2> QED BY <1>1, <1>2, <2>3
<1>10. ASSUME NEW x \in DOMAIN MovementStructs PROVE Flags[x] = MovementStructs[x]
  <2>1. 2 \in DOMAIN F /\ x \in DOMAIN F[2]
    BY <1>1, <1>2
  <2>2. \A j \in DOMAIN F : x \in DOMAIN F[j] => j = 2
    BY <1>1, <1>2, <1>3, <1>4, <1>5, <1>6, <1>7, <1>8
  <2>3. Merged(F)[x] = F[2][x]
    BY <2>1, <2>2, MergedIs, Zenon
  <2> QED BY <1>1, <1>2, <2>3
<1>11. ASSUME NEW x \in DOMAIN WorldStructs PROVE Flags[x] = WorldStructs[x]
  <2>1. 3 \in DOMAIN F /\ x \in DOMAIN F[3]
    BY <1>1, <1>2
  <2>2. \A j \in DOMAIN F : x \in DOMAIN F[j] => j = 3
    BY <1>1, <1>2, <1>3, <1>4, <1>5, <1>6, <1>7, <1>8
  <2>3. Merged(F)[x] = F[3][x]
    BY <2>1, <2>2, MergedIs, Zenon
  <2> QED BY <1>1, <1>2, <2>3
<1>12. ASSUME NEW x \in DOMAIN CastStructs PROVE Flags[x] = CastStructs[x]
  <2>1. 4 \in DOMAIN F /\ x \in DOMAIN F[4]
    BY <1>1, <1>2
  <2>2. \A j \in DOMAIN F : x \in DOMAIN F[j] => j = 4
    BY <1>1, <1>2, <1>3, <1>4, <1>5, <1>6, <1>7, <1>8
  <2>3. Merged(F)[x] = F[4][x]
    BY <2>1, <2>2, MergedIs, Zenon
  <2> QED BY <1>1, <1>2, <2>3
<1>13. ASSUME NEW x \in DOMAIN BuffStructs PROVE Flags[x] = BuffStructs[x]
  <2>1. 5 \in DOMAIN F /\ x \in DOMAIN F[5]
    BY <1>1, <1>2
  <2>2. \A j \in DOMAIN F : x \in DOMAIN F[j] => j = 5
    BY <1>1, <1>2, <1>3, <1>4, <1>5, <1>6, <1>7, <1>8
  <2>3. Merged(F)[x] = F[5][x]
    BY <2>1, <2>2, MergedIs, Zenon
  <2> QED BY <1>1, <1>2, <2>3
<1> QED BY <1>3, <1>4, <1>5, <1>6, <1>7, <1>9, <1>10, <1>11, <1>12, <1>13

(* Every optional field of a kind of the table has a flag in its row.      *)
Fits(table) == \A k \in DOMAIN table : \A o \in table[k] : o \in Flags[RowStruct[k]]

LEMMA PlayerKindsFit == Fits(PlayerKinds)
<1>1. /\ RowStruct["PlayerIdentityUpdated"] = "PlayerIdentity"
      /\ RowStruct["PlayerMoved"] = "PlayerMoved"
      /\ RowStruct["PlayerVitalsUpdated"] = "PlayerVitals"
      /\ RowStruct["PlayerDied"] = "PlayerDied"
      /\ RowStruct["SpawnDied"] = "SpawnDied"
      /\ RowStruct["PlayerAppearanceUpdated"] = "PlayerAppearance"
  BY Structs
<1>2. /\ Flags["PlayerAppearance"] = SpawnStructs["PlayerAppearance"]
      /\ Flags["PlayerDied"] = SpawnStructs["PlayerDied"]
      /\ Flags["PlayerIdentity"] = SpawnStructs["PlayerIdentity"]
      /\ Flags["PlayerMoved"] = SpawnStructs["PlayerMoved"]
      /\ Flags["PlayerVitals"] = SpawnStructs["PlayerVitals"]
      /\ Flags["SpawnDied"] = SpawnStructs["SpawnDied"]
  BY FlagsAre
<1> QED BY <1>1, <1>2 DEF Fits, PlayerKinds, PlayerVitals, PlayerIdentity, PlayerAppearance, SpawnStructs

LEMMA SpawnKindsFit == Fits(SpawnKinds)
<1>1. /\ RowStruct["SpawnAdded"] = "SpawnInfo"
      /\ RowStruct["SpawnMoved"] = "SpawnMoved"
      /\ RowStruct["SpawnRenamed"] = "SpawnRenamed"
      /\ RowStruct["SelfPos"] = "SelfPos"
  BY Structs
<1>2. /\ Flags["SelfPos"] = MovementStructs["SelfPos"]
      /\ Flags["SpawnInfo"] = SpawnStructs["SpawnInfo"]
      /\ Flags["SpawnMoved"] = MovementStructs["SpawnMoved"]
      /\ Flags["SpawnRenamed"] = MovementStructs["SpawnRenamed"]
  BY FlagsAre
<1> QED BY <1>1, <1>2 DEF Fits, SpawnKinds, Velocity, SpawnInfo, MovementStructs, SpawnStructs

LEMMA ZoneKindsFit == Fits(ZoneKinds)
<1>1. /\ RowStruct["ZoneTransition"] = "ZoneTransition"
  BY Structs
<1>2. /\ Flags["ZoneTransition"] = WorldStructs["ZoneTransition"]
  BY FlagsAre
<1> QED BY <1>1, <1>2 DEF Fits, ZoneKinds, WorldStructs

LEMMA ItemKindsFit == Fits(ItemKinds)
<1>1. /\ RowStruct["ItemSet"] = "Items"
      /\ RowStruct["ItemLearned"] = "Items"
      /\ RowStruct["InventorySnapshot"] = "Items"
      /\ RowStruct["InventoryItemUpdated"] = "InventoryItemUpdated"
      /\ RowStruct["EquipmentSnapshot"] = "Items"
      /\ RowStruct["EquipmentSlotUpdated"] = "EquipmentSlotUpdated"
  BY Structs
<1>2. /\ Flags["EquipmentSlotUpdated"] = WorldStructs["EquipmentSlotUpdated"]
      /\ Flags["InventoryItemUpdated"] = WorldStructs["InventoryItemUpdated"]
      /\ Flags["Items"] = WorldStructs["Items"]
  BY FlagsAre
<1> QED BY <1>1, <1>2 DEF Fits, ItemKinds, ItemTemplate, WorldStructs, ItemFlags

LEMMA GuildKindsFit == Fits(GuildKinds)
BY DEF Fits, GuildKinds

LEMMA WorldKindsFit == Fits(WorldKinds)
<1>1. /\ RowStruct["Doors"] = "DoorInfo"
      /\ RowStruct["GroundItem"] = "GroundItem"
      /\ RowStruct["ZonePoints"] = "ZonePointInfo"
  BY Structs
<1>2. /\ Flags["DoorInfo"] = MovementStructs["DoorInfo"]
      /\ Flags["GroundItem"] = WorldStructs["GroundItem"]
      /\ Flags["ZonePointInfo"] = WorldStructs["ZonePointInfo"]
  BY FlagsAre
<1> QED BY <1>1, <1>2 DEF Fits, WorldKinds, DoorInfo, GroundItemInfo, ZonePointInfo, MovementStructs,
     WorldStructs

LEMMA CombatKindsFit == Fits(CombatKinds)
<1>1. /\ RowStruct["CombatDamage"] = "CombatDamage"
      /\ RowStruct["SpellActionResolved"] = "SpellActionResolved"
      /\ RowStruct["SpellCastStarted"] = "SpellCastStarted"
      /\ RowStruct["SpellCastInterrupted"] = "SpellCastInterrupted"
  BY Structs
<1>2. /\ Flags["CombatDamage"] = WorldStructs["CombatDamage"]
      /\ Flags["SpellActionResolved"] = WorldStructs["SpellActionResolved"]
      /\ Flags["SpellCastInterrupted"] = CastStructs["SpellCastInterrupted"]
      /\ Flags["SpellCastStarted"] = CastStructs["SpellCastStarted"]
  BY FlagsAre
<1> QED BY <1>1, <1>2 DEF Fits, CombatKinds, CastStructs, WorldStructs

LEMMA ProgressKindsFit == Fits(ProgressKinds)
<1>1. /\ RowStruct["ExperienceUpdated"] = "ExperienceProgress"
      /\ RowStruct["AlternateAdvancementSnapshot"] = "AlternateAdvancementSnapshot"
  BY Structs
<1>2. /\ Flags["AlternateAdvancementSnapshot"] = CastStructs["AlternateAdvancementSnapshot"]
      /\ Flags["ExperienceProgress"] = CastStructs["ExperienceProgress"]
  BY FlagsAre
<1> QED BY <1>1, <1>2 DEF Fits, ProgressKinds, ExperienceProgress, AlternateAdvancement, CastStructs

LEMMA LootKindsFit == Fits(LootKinds)
<1>1. /\ RowStruct["LootAcquired"] = "LootAcquisition"
  BY Structs
<1>2. /\ Flags["LootAcquisition"] = CastStructs["LootAcquisition"]
  BY FlagsAre
<1> QED BY <1>1, <1>2 DEF Fits, LootKinds, LootAcquisition, CastStructs

LEMMA ChatKindsFit == Fits(ChatKinds)
<1>1. /\ RowStruct["ChatMessage"] = "ChatMessage"
  BY Structs
<1>2. /\ Flags["ChatMessage"] = BuffStructs["ChatMessage"]
  BY FlagsAre
<1> QED BY <1>1, <1>2 DEF Fits, ChatKinds, ChatMessage, BuffStructs

LEMMA BuffKindsFit == Fits(BuffKinds)
<1>1. /\ RowStruct["BuffAdded"] = "ActiveBuff"
      /\ RowStruct["BuffUpdated"] = "ActiveBuff"
      /\ RowStruct["BuffRemoved"] = "BuffRemoved"
  BY Structs
<1>2. /\ Flags["ActiveBuff"] = BuffStructs["ActiveBuff"]
      /\ Flags["BuffRemoved"] = BuffStructs["BuffRemoved"]
  BY FlagsAre
<1> QED BY <1>1, <1>2 DEF Fits, BuffKinds, ActiveBuff, BuffStructs

LEMMA GroupKindsFit == Fits(GroupKinds)
<1>1. /\ RowStruct["GroupRosterUpdated"] = "GroupRosterState"
      /\ RowStruct["DynamicZoneSwitch"] = "DynamicZoneSwitch"
      /\ RowStruct["DynamicZoneUpdated"] = "DynamicZoneState"
  BY Structs
<1>2. /\ Flags["DynamicZoneState"] = BuffStructs["DynamicZoneState"]
      /\ Flags["DynamicZoneSwitch"] = BuffStructs["DynamicZoneSwitch"]
      /\ Flags["GroupRosterState"] = BuffStructs["GroupRosterState"]
  BY FlagsAre
<1> QED BY <1>1, <1>2 DEF Fits, GroupKinds, GroupRosterState, DynamicZoneState, GroupMember, BuffStructs

LEMMA RowsFit ==
  ASSUME NEW k \in Kinds, NEW o \in Optional[k]
  PROVE  o \in Flags[RowStruct[k]]
<1> DEFINE F == <<PlayerKinds, SpawnKinds, ZoneKinds, ItemKinds, GuildKinds,
                  WorldKinds, CombatKinds, ProgressKinds, LootKinds, ChatKinds,
                  BuffKinds, GroupKinds>>
<1>1. Optional = Merged(F) /\ k \in DOMAIN Merged(F)
  BY DEF Kinds, Optional
<1>2. \A i \in DOMAIN F :
         \/ F[i] = PlayerKinds \/ F[i] = SpawnKinds \/ F[i] = ZoneKinds
         \/ F[i] = ItemKinds \/ F[i] = GuildKinds \/ F[i] = WorldKinds
         \/ F[i] = CombatKinds \/ F[i] = ProgressKinds \/ F[i] = LootKinds
         \/ F[i] = ChatKinds \/ F[i] = BuffKinds \/ F[i] = GroupKinds
  OBVIOUS
<1> HIDE DEF F
<1>3. PICK i \in DOMAIN F : k \in DOMAIN F[i] /\ Optional[k] = F[i][k]
  BY <1>1, MergedFrom
<1>4. Fits(F[i])
  BY <1>2, PlayerKindsFit, SpawnKindsFit, ZoneKindsFit, ItemKindsFit, GuildKindsFit,
     WorldKindsFit, CombatKindsFit, ProgressKindsFit, LootKindsFit, ChatKindsFit,
     BuffKindsFit, GroupKindsFit
<1> QED BY <1>3, <1>4 DEF Fits

-----------------------------------------------------------------------------
(* What the host reads                                                     *)

(* The batch refers to the first n events, and to a row of each.           *)
Referred(b, events, i) ==
  LET ref == b.events[i]
      v == Vector(events[i].kind)
  IN  /\ ref.kind = events[i].kind /\ ref.payload_index \in Nat
      /\ v \in DOMAIN b.rows
      /\ ref.payload_index + 1 \in 1 .. Len(b.rows[v])
      /\ b.rows[v][ref.payload_index + 1] = Row(events[i])

IsBatch(b, g, d) ==
  b = [generation |-> g, disposition |-> d, events |-> b.events, rows |-> b.rows,
       self_stats |-> 0, loot_rows |-> << >>]

Holding(b, events, n) ==
  /\ IsSeq(b.events) /\ Len(b.events) = n
  /\ \A v \in DOMAIN b.rows : IsSeq(b.rows[v])
  /\ \A i \in 1 .. n : Referred(b, events, i)

LEMMA PushHolds ==
  ASSUME NEW g, NEW d, NEW b, IsBatch(b, g, d), NEW events, NEW n \in Nat,
         Holding(b, events, n), NEW c, c = PushRow(b, events[n + 1])
  PROVE  IsBatch(c, g, d) /\ Holding(c, events, n + 1)
<1> DEFINE e == events[n + 1]
           v == Vector(e.kind)
           before == IF v \in DOMAIN b.rows THEN b.rows[v] ELSE << >>
           more == Append(before, Row(e))
           R == b.rows
           rows == [w \in DOMAIN R \cup {v} |-> IF w = v THEN more ELSE R[w]]
           ref == [kind |-> e.kind, payload_index |-> Len(before)]
           refs == Append(b.events, ref)
<1>1. c = [generation |-> g, disposition |-> d, events |-> refs, rows |-> rows,
           self_stats |-> 0, loot_rows |-> << >>]
  <2>1. c = [b EXCEPT !.rows = rows, !.events = refs]
    BY Zenon DEF PushRow
  <2> DEFINE x == rows
             y == refs
  <2>2. DOMAIN b = {"generation", "disposition", "events", "rows", "self_stats", "loot_rows"}
        /\ b.generation = g /\ b.disposition = d /\ b.self_stats = 0 /\ b.loot_rows = << >>
    BY DEF IsBatch
  <2> HIDE DEF rows, refs
  <2> QED BY <2>1, <2>2
<1>2. c.events = refs /\ c.rows = rows
  BY <1>1
<1>3. IsBatch(c, g, d)
  BY <1>1, <1>2 DEF IsBatch
<1>4. IsSeq(before) /\ Len(before) \in Nat
  BY EmptyIsSeq, SeqLen DEF Holding
<1>5. /\ IsSeq(more) /\ Len(more) = Len(before) + 1
      /\ \A i \in 1 .. Len(before) : more[i] = before[i]
      /\ more[Len(before) + 1] = Row(e)
  BY <1>4, SeqAppend
<1>6. /\ IsSeq(refs) /\ Len(refs) = n + 1
      /\ \A i \in 1 .. n : refs[i] = b.events[i]
      /\ refs[n + 1] = ref
  BY SeqAppend DEF Holding
<1>7. /\ DOMAIN rows = DOMAIN R \cup {v} /\ rows[v] = more
      /\ \A w \in DOMAIN R : w # v => rows[w] = R[w]
  OBVIOUS
<1>8. ref.kind = e.kind /\ ref.payload_index = Len(before)
  OBVIOUS
<1>9. v \in DOMAIN R => before = R[v]
  OBVIOUS
<1>10. v = Vector(e.kind)
  OBVIOUS
<1> HIDE DEF before, more, rows, ref, refs, v
<1>11. \A w \in DOMAIN c.rows : IsSeq(c.rows[w])
  BY <1>2, <1>5, <1>7 DEF Holding
<1>12. ASSUME NEW i \in 1 .. n PROVE Referred(c, events, i)
  <2> DEFINE w == Vector(events[i].kind)
             p == b.events[i].payload_index
  <2>1. /\ b.events[i].kind = events[i].kind /\ p \in Nat /\ w \in DOMAIN R
        /\ p + 1 \in 1 .. Len(R[w]) /\ R[w][p + 1] = Row(events[i])
    BY DEF Holding, Referred
  <2>2. c.events[i] = b.events[i]
    BY <1>2, <1>6
  <2> HIDE DEF w, p, e, R
  <2>3. w \in DOMAIN rows
    BY <1>7, <2>1
  <2>4. p + 1 \in 1 .. Len(rows[w]) /\ rows[w][p + 1] = R[w][p + 1]
    <3>1. CASE w = v
      BY <1>4, <1>5, <1>7, <1>9, <2>1, <3>1
    <3>2. CASE w # v
      BY <1>7, <2>1, <3>2
    <3> QED BY <3>1, <3>2
  <2> QED BY <1>2, <2>1, <2>2, <2>3, <2>4 DEF Referred, w, p
<1>13. Referred(c, events, n + 1)
  <2>1. c.events[n + 1] = ref
    BY <1>2, <1>6
  <2>2. v \in DOMAIN c.rows /\ c.rows[v] = more
    BY <1>2, <1>7
  <2>3. Len(before) + 1 \in 1 .. Len(more) /\ more[Len(before) + 1] = Row(e)
    BY <1>4, <1>5
  <2> HIDE DEF R
  <2> QED BY <1>4, <1>8, <1>10, <2>1, <2>2, <2>3 DEF Referred
<1>14. \A i \in 1 .. n + 1 : Referred(c, events, i)
  BY <1>12, <1>13
<1> QED BY <1>2, <1>3, <1>6, <1>11, <1>14 DEF Holding

LEMMA TranslateHolds ==
  ASSUME NEW g, NEW d, NEW events, IsSeq(events)
  PROVE  /\ IsBatch(TranslateEvents(g, d, events), g, d)
         /\ Holding(TranslateEvents(g, d, events), events, Len(events))
<1> DEFINE L == Len(events)
<1>1. L \in Nat
  BY SeqLen
<1>2. PICK f : /\ f[0] = EmptyBatch(g, d)
               /\ \A n \in 1 .. L : f[n] = PushRow(f[n - 1], events[n])
               /\ TranslateEvents(g, d, events) = f[L]
  BY <1>1, TranslateRuns
<1> DEFINE S == {n \in Nat : n <= L => IsBatch(f[n], g, d) /\ Holding(f[n], events, n)}
<1>3. 0 \in S
  <2>1. IsBatch(f[0], g, d) /\ f[0].events = << >> /\ DOMAIN f[0].rows = {}
    BY <1>2, EmptyIsSeq DEF EmptyBatch, IsBatch
  <2>2. Holding(f[0], events, 0)
    BY <2>1, EmptyIsSeq DEF Holding
  <2> QED BY <2>1, <2>2
<1>4. ASSUME NEW n \in Nat, n \in S PROVE n + 1 \in S
  <2> SUFFICES ASSUME n + 1 <= L
               PROVE  IsBatch(f[n + 1], g, d) /\ Holding(f[n + 1], events, n + 1)
    OBVIOUS
  <2> DEFINE k == n + 1
  <2>1. k \in 1 .. L /\ k - 1 = n
    BY <1>1
  <2>2. IsBatch(f[n], g, d) /\ Holding(f[n], events, n)
    BY <1>1, <1>4
  <2> HIDE DEF k, S
  <2>3. f[k] = PushRow(f[n], events[k])
    BY <1>2, <2>1
  <2>4. f[n + 1] = PushRow(f[n], events[n + 1])
    BY <2>3 DEF k
  <2> QED BY <2>2, <2>4, PushHolds
<1>5. L \in S
  <2> HIDE DEF S
  <2> QED BY <1>1, <1>3, <1>4, Induction
<1>6. L <= L
  BY <1>1
<1> QED BY <1>2, <1>5, <1>6

(* An event whose fields are those of its kind.                            *)
IsEvent(e) ==
  /\ e = [kind |-> e.kind, id |-> e.id, opts |-> e.opts]
  /\ WellFormed(e)

(* The layout loses nothing.                                               *)
LEMMA HostReadsEvent ==
  ASSUME NEW b, NEW events, NEW i, Referred(b, events, i), IsEvent(events[i])
  PROVE  HostReads(b, i) = events[i]
<1> DEFINE e == events[i]
           k == e.kind
           row == Row(e)
           ref == b.events[i]
<1>1. ref.kind = k /\ b.rows[Vector(k)][ref.payload_index + 1] = row
  BY DEF Referred
<1>2. HostVector(k) = Vector(k)
  BY DEF HostVector, Vector
<1>3. k \in Kinds /\ e.opts \in [Optional[k] -> Contents]
  BY DEF IsEvent, WellFormed
<1>4. row.id = e.id
  BY DEF Row
<1>5. ASSUME NEW o \in Optional[k]
      PROVE  (IF row.cells[o].has THEN row.cells[o].value ELSE "none") = e.opts[o]
  <2>1. o \in Flags[RowStruct[k]] /\ o \in DOMAIN e.opts
    BY <1>3, RowsFit
  <2>2. row.cells[o] = [has |-> o \in DOMAIN e.opts /\ e.opts[o] # "none",
                        value |-> IF o \in DOMAIN e.opts /\ e.opts[o] # "none"
                                  THEN e.opts[o] ELSE "zero"]
    BY <2>1 DEF Row
  <2> HIDE DEF row
  <2>3. row.cells[o].has <=> e.opts[o] # "none"
    <3>1. row.cells[o].has = (o \in DOMAIN e.opts /\ e.opts[o] # "none")
      BY <2>2
    <3> HIDE DEF e
    <3> QED BY <2>1, <3>1, Zenon
  <2>4. e.opts[o] # "none" => row.cells[o].value = e.opts[o]
    BY <2>1, <2>2
  <2> QED BY <2>3, <2>4
<1> DEFINE opts == [o \in Optional[k] |-> IF row.cells[o].has THEN row.cells[o].value
                                         ELSE "none"]
<1>6. opts = e.opts
  <2> HIDE DEF row
  <2>1. e.opts = [o \in Optional[k] |-> e.opts[o]]
    BY <1>3
  <2> QED BY <1>5, <2>1
<1>7. HostReads(b, i) = [kind |-> k, id |-> row.id, opts |-> opts]
  <2> HIDE DEF row, e
  <2>1. b.rows[HostVector(ref.kind)][ref.payload_index + 1] = row
    BY <1>1, <1>2
  <2> QED BY <1>1, <2>1 DEF HostReads
<1> QED BY <1>4, <1>6, <1>7 DEF IsEvent

LEMMA RoundTrip ==
  ASSUME NEW g, NEW d, NEW events, IsSeq(events),
         \A i \in DOMAIN events : IsEvent(events[i]),
         NEW b, b.events = TranslateEvents(g, d, events).events,
         b.rows = TranslateEvents(g, d, events).rows
  PROVE  HostEvents(b) = events
<1> DEFINE t == TranslateEvents(g, d, events)
<1>1. Holding(t, events, Len(events))
  BY TranslateHolds
<1> HIDE DEF t
<1>2. b.events = t.events /\ b.rows = t.rows
  BY DEF t
<1>3. DOMAIN events = 1 .. Len(events) /\ DOMAIN b.events = 1 .. Len(events)
  BY <1>1, <1>2, SeqLen DEF Holding
<1>4. ASSUME NEW i \in 1 .. Len(events) PROVE HostReads(b, i) = events[i]
  <2>1. Referred(t, events, i)
    BY <1>1 DEF Holding
  <2>2. Referred(b, events, i)
    BY <1>2, <2>1 DEF Referred
  <2> QED BY <1>3, <2>2, HostReadsEvent
<1>5. HostEvents(b) = [i \in 1 .. Len(events) |-> HostReads(b, i)]
  BY <1>3 DEF HostEvents
<1>6. events = [i \in 1 .. Len(events) |-> events[i]]
  BY <1>3, SeqMade DEF IsSeq
<1> QED BY <1>4, <1>5, <1>6

(* Parts of absent parts are absent: no part has parts of parts.           *)
LEMMA OptionalOfParents ==
  /\ Optional["PlayerVitalsUpdated"] = PlayerVitals
  /\ Optional["EquipmentSlotUpdated"] = ItemTemplate \cup {"item"}
<1> DEFINE F == <<PlayerKinds, SpawnKinds, ZoneKinds, ItemKinds, GuildKinds,
                  WorldKinds, CombatKinds, ProgressKinds, LootKinds, ChatKinds,
                  BuffKinds, GroupKinds>>
           v == "PlayerVitalsUpdated"
           e == "EquipmentSlotUpdated"
<1>1. Optional = Merged(F) /\ DOMAIN F = 1 .. 12
  BY DEF Optional
<1>2. /\ F[1] = PlayerKinds /\ F[2] = SpawnKinds /\ F[3] = ZoneKinds
      /\ F[4] = ItemKinds /\ F[5] = GuildKinds /\ F[6] = WorldKinds
      /\ F[7] = CombatKinds /\ F[8] = ProgressKinds /\ F[9] = LootKinds
      /\ F[10] = ChatKinds /\ F[11] = BuffKinds /\ F[12] = GroupKinds
  OBVIOUS
<1>3. /\ v \in DOMAIN PlayerKinds /\ PlayerKinds[v] = PlayerVitals
      /\ e \notin DOMAIN PlayerKinds
  BY DEF PlayerKinds
<1>4. /\ e \in DOMAIN ItemKinds /\ ItemKinds[e] = ItemTemplate \cup {"item"}
      /\ v \notin DOMAIN ItemKinds
  BY DEF ItemKinds
<1>5. DOMAIN SpawnKinds \cap {v, e} = {} /\ DOMAIN ZoneKinds \cap {v, e} = {}
      /\ DOMAIN GuildKinds \cap {v, e} = {} /\ DOMAIN WorldKinds \cap {v, e} = {}
      /\ DOMAIN CombatKinds \cap {v, e} = {}
  BY DEF SpawnKinds, ZoneKinds, GuildKinds, WorldKinds, CombatKinds
<1>6. DOMAIN ProgressKinds \cap {v, e} = {} /\ DOMAIN LootKinds \cap {v, e} = {}
      /\ DOMAIN ChatKinds \cap {v, e} = {} /\ DOMAIN BuffKinds \cap {v, e} = {}
      /\ DOMAIN GroupKinds \cap {v, e} = {}
  BY DEF ProgressKinds, LootKinds, ChatKinds, BuffKinds, GroupKinds
<1> HIDE DEF F, v, e
<1>7. /\ v \in DOMAIN F[1] /\ e \in DOMAIN F[4]
      /\ \A j \in DOMAIN F : v \in DOMAIN F[j] => j = 1
      /\ \A j \in DOMAIN F : e \in DOMAIN F[j] => j = 4
  BY <1>1, <1>2, <1>3, <1>4, <1>5, <1>6
<1>8. 1 \in DOMAIN F /\ 4 \in DOMAIN F
  BY <1>1
<1>9. Merged(F)[v] = F[1][v]
  BY <1>7, <1>8, MergedIs
<1>10. Merged(F)[e] = F[4][e]
  BY <1>7, <1>8, MergedIs
<1> QED BY <1>1, <1>2, <1>3, <1>4, <1>9, <1>10 DEF v, e

LEMMA ParentsOf ==
  ASSUME NEW kind, NEW o \in DOMAIN Parent(kind)
  PROVE  /\ o \in Optional[kind] /\ Parent(kind)[o] \in Optional[kind]
         /\ Parent(kind)[o] \notin DOMAIN Parent(kind)
<1>1. CASE kind = "PlayerVitalsUpdated"
  <2>1. /\ DOMAIN Parent(kind) = {"health.maximum", "mana.maximum", "endurance.maximum"}
        /\ Parent(kind)[o] \in {"health", "mana", "endurance"}
    BY <1>1 DEF Parent
  <2> QED BY <1>1, <2>1, OptionalOfParents DEF PlayerVitals
<1>2. CASE kind = "EquipmentSlotUpdated"
  <2>1. DOMAIN Parent(kind) = ItemTemplate /\ Parent(kind)[o] = "item"
    BY <1>2 DEF Parent
  <2> QED BY <1>2, <2>1, OptionalOfParents DEF ItemTemplate
<1>3. CASE kind # "PlayerVitalsUpdated" /\ kind # "EquipmentSlotUpdated"
  BY <1>3, EmptyIsSeq DEF Parent
<1> QED BY <1>1, <1>2, <1>3

LEMMA FieldsFormed ==
  ASSUME NEW kind \in Kinds, NEW fill, fill.all \in Contents,
         NEW e, e = [kind |-> kind, id |-> e.id, opts |-> Fields(kind, fill)]
  PROVE  IsEvent(e)
<1> DEFINE P == Parent(kind)
           h(o) == Holds(kind, fill, o)
           F == Fields(kind, fill)
<1>1. \A o : h(o) \in Contents
  BY DEF Holds, Contents
<1> HIDE DEF h
<1>2. F = [o \in Optional[kind] |-> IF o \in DOMAIN P /\ h(P[o]) = "none"
                                    THEN "none" ELSE h(o)]
  BY DEF Fields, h
<1> HIDE DEF F
<1>3. F \in [Optional[kind] -> Contents]
  <2>1. "none" \in Contents
    BY DEF Contents
  <2> HIDE DEF P
  <2> QED BY <1>1, <1>2, <2>1
<1>4. ASSUME NEW o \in DOMAIN P, F[P[o]] = "none" PROVE F[o] = "none"
  <2>1. o \in Optional[kind] /\ P[o] \in Optional[kind] /\ P[o] \notin DOMAIN P
    BY ParentsOf
  <2> HIDE DEF P
  <2>2. F[P[o]] = h(P[o])
    BY <1>2, <2>1
  <2> QED BY <1>2, <1>4, <2>1, <2>2
<1>5. e.kind = kind /\ e.opts = F
  BY DEF F
<1>6. e = [kind |-> e.kind, id |-> e.id, opts |-> e.opts]
  BY <1>5 DEF F
<1> QED BY <1>3, <1>4, <1>5, <1>6 DEF IsEvent, WellFormed

(* The fields are filled in, and the kinds and the names stay.             *)
LEMMA NamesAlike ==
  ASSUME NEW q, IsSeq(q), NEW r, IsSeq(r), Len(r) = Len(q), NEW P,
         \A i \in 1 .. Len(q) : r[i].id = q[i].id
  PROVE  NamesAt(r, P) = NamesAt(q, P)
<1> DEFINE L == Len(q)
<1>1. L \in Nat
  BY SeqLen
<1>2. PICK f : /\ f[0] = << >>
               /\ \A n \in 1 .. L :
                    f[n] = IF n \in P THEN Append(f[n - 1], q[n].id) ELSE f[n - 1]
               /\ NamesAt(q, P) = f[L]
  BY <1>1, NameRuns
<1>3. PICK g : /\ g[0] = << >>
               /\ \A n \in 1 .. L :
                    g[n] = IF n \in P THEN Append(g[n - 1], r[n].id) ELSE g[n - 1]
               /\ NamesAt(r, P) = g[L]
  BY <1>1, NameRuns
<1> DEFINE S == {n \in Nat : n <= L => g[n] = f[n]}
<1>4. 0 \in S
  BY <1>2, <1>3
<1>5. ASSUME NEW n \in Nat, n \in S PROVE n + 1 \in S
  <2> SUFFICES ASSUME n + 1 <= L PROVE g[n + 1] = f[n + 1]
    OBVIOUS
  <2> DEFINE k == n + 1
  <2>1. k \in 1 .. L /\ k - 1 = n /\ g[n] = f[n]
    BY <1>1, <1>5
  <2> HIDE DEF k
  <2>2. g[k] = f[k]
    BY <1>2, <1>3, <2>1
  <2> QED BY <2>2 DEF k
<1>6. L \in S
  <2> HIDE DEF S
  <2> QED BY <1>1, <1>4, <1>5, Induction
<1> QED BY <1>1, <1>2, <1>3, <1>6

LEMMA ShapedKinds ==
  ASSUME NEW q, NEW C \in SUBSET AnyCause, Shaped(q, C)
  PROVE  \A i \in 1 .. Len(q) : q[i].kind \in Kinds
<1>1. CASE Calm(q, C)
  BY <1>1 DEF Calm
<1>2. CASE Announces(q, C)
  <2>1. PICK r \in 1 .. Len(q) :
          /\ q[r].kind = "SessionReset"
          /\ \A i \in 1 .. Len(q) : i < r => q[i].kind \in ClosingKinds
          /\ \A i \in 1 .. Len(q) : i = r + 1 => q[i].kind \in C
          /\ \A i \in 1 .. Len(q) : i > r + 1 => q[i].kind \in After
    BY <1>2 DEF Announces
  <2>2. Len(q) \in Nat
    BY SeqLen DEF Shaped
  <2>3. \A i \in 1 .. Len(q) : i < r \/ i = r \/ i = r + 1 \/ i > r + 1
    BY <2>2
  <2> QED BY <2>1, <2>3, TheseAreKinds
<1> QED BY <1>1, <1>2 DEF Shaped

LEMMA ShapedAlike ==
  ASSUME NEW q, NEW C, Shaped(q, C), NEW r, IsSeq(r), Len(r) = Len(q),
         \A i \in 1 .. Len(q) : r[i].kind = q[i].kind
  PROVE  Shaped(r, C)
BY DEF Shaped, Calm, Announces

LEMMA FilledIsLike ==
  ASSUME NEW q, NEW C \in SUBSET AnyCause, Shaped(q, C),
         NEW fill \in Fills(KindsOf(q)), NEW e, e = Filled(q, fill)
  PROVE  /\ Shaped(e, C) /\ IsSeq(e)
         /\ \A i \in DOMAIN e : IsEvent(e[i])
         /\ NamesAt(e, Acquired(e)) = NamesAt(q, Acquired(q))
<1>1. IsSeq(q) /\ Len(q) \in Nat /\ DOMAIN q = 1 .. Len(q)
  BY SeqLen DEF Shaped
<1> DEFINE L == Len(q)
<1>2. e = [i \in 1 .. L |-> [kind |-> q[i].kind, id |-> q[i].id,
                             opts |-> Fields(q[i].kind, fill)]]
  BY <1>1 DEF Filled
<1>3. \A i \in 1 .. L : e[i] = [kind |-> q[i].kind, id |-> q[i].id,
                                opts |-> Fields(q[i].kind, fill)]
  BY <1>2
<1>4. IsSeq(e) /\ Len(e) = L /\ DOMAIN e = 1 .. L
  <2>1. e = [i \in 1 .. L |-> e[i]]
    BY <1>2, <1>3
  <2> QED BY <1>1, <2>1, SeqMade
<1>5. ASSUME NEW i \in 1 .. L PROVE e[i].kind = q[i].kind /\ e[i].id = q[i].id
  <2> DEFINE x == e[i]
             opts == Fields(q[i].kind, fill)
  <2>1. x = [kind |-> q[i].kind, id |-> q[i].id, opts |-> opts]
    BY <1>3
  <2> HIDE DEF x, opts
  <2>2. x.kind = q[i].kind /\ x.id = q[i].id
    BY <2>1
  <2> QED BY <2>2 DEF x
<1>6. Shaped(e, C)
  BY <1>4, <1>5, ShapedAlike
<1>7. fill.all \in Contents
  BY DEF Fills, Contents
<1>8. ASSUME NEW i \in 1 .. L PROVE IsEvent(e[i])
  <2> DEFINE k == q[i].kind
             x == e[i]
  <2>1. k \in Kinds
    BY ShapedKinds
  <2>2. x = [kind |-> k, id |-> q[i].id, opts |-> Fields(k, fill)] /\ x.id = q[i].id
    BY <1>3, <1>5
  <2> HIDE DEF k, x
  <2>3. x = [kind |-> k, id |-> x.id, opts |-> Fields(k, fill)]
    BY <2>2
  <2>4. IsEvent(x)
    BY <1>7, <2>1, <2>3, FieldsFormed
  <2> QED BY <2>4 DEF x
<1>9. Acquired(e) = Acquired(q)
  BY <1>1, <1>4, <1>5 DEF Acquired
<1>10. NamesAt(e, Acquired(q)) = NamesAt(q, Acquired(q))
  <2> DEFINE P == Acquired(q)
  <2> HIDE DEF P
  <2>1. NamesAt(e, P) = NamesAt(q, P)
    BY <1>1, <1>4, <1>5, NamesAlike
  <2> QED BY <2>1 DEF P
<1> QED BY <1>4, <1>6, <1>8, <1>9, <1>10

(* The order a host may rely on.                                           *)
LEMMA ShapedIsOrdered ==
  ASSUME NEW q, NEW C \in SUBSET AnyCause, Shaped(q, C)
  PROVE  /\ \A i \in 1 .. Len(q) : q[i].kind \notin WireKinds
         /\ \A i, j \in 1 .. Len(q) :
              q[i].kind = "SessionReset" /\ q[j].kind = "SessionReset" => i = j
         /\ \A i, j \in 1 .. Len(q) :
              q[i].kind = "SessionReset" /\ j # i => (j < i <=> q[j].kind \in ClosingKinds)
         /\ \A j \in 1 .. Len(q) :
              q[j].kind \in C => j > 1 /\ q[j - 1].kind = "SessionReset"
<1>1. CASE Calm(q, C)
  BY <1>1 DEF Calm
<1>2. CASE Announces(q, C)
  <2>1. PICK r \in 1 .. Len(q) :
          /\ q[r].kind = "SessionReset"
          /\ \A i \in 1 .. Len(q) : i < r => q[i].kind \in ClosingKinds
          /\ \A i \in 1 .. Len(q) : i = r + 1 => q[i].kind \in C
          /\ \A i \in 1 .. Len(q) : i > r + 1 => q[i].kind \in After
    BY <1>2 DEF Announces
  <2> DEFINE Later == After \cup AnyCause
  <2>2. Len(q) \in Nat
    BY SeqLen DEF Shaped
  <2>3. /\ \A k \in ClosingKinds : k \notin WireKinds \cup AnyCause \cup {"SessionReset"}
        /\ \A k \in Later : k \notin WireKinds \cup ClosingKinds \cup {"SessionReset"}
        /\ \A k \in After : k \notin AnyCause
        /\ "SessionReset" \notin WireKinds \cup AnyCause
    BY DEF ClosingKinds, WireKinds, AnyCause, After
  <2>4. \A i \in 1 .. Len(q) : i < r => q[i].kind \in ClosingKinds
    BY <2>1
  <2>5. \A i \in 1 .. Len(q) : i > r => q[i].kind \in Later
    BY <2>1, <2>2
  <2>6. \A i \in 1 .. Len(q) : q[i].kind \in AnyCause => i = r + 1
    <3> SUFFICES ASSUME NEW i \in 1 .. Len(q), i # r + 1 PROVE q[i].kind \notin AnyCause
      OBVIOUS
    <3>1. i < r \/ i = r \/ i > r + 1
      BY <2>2
    <3> HIDE DEF Later
    <3> QED BY <2>1, <2>3, <3>1
  <2> HIDE DEF Later
  <2>7. \A i \in 1 .. Len(q) : q[i].kind = "SessionReset" => i = r
    <3> SUFFICES ASSUME NEW i \in 1 .. Len(q), i # r PROVE q[i].kind # "SessionReset"
      OBVIOUS
    <3>1. i < r \/ i > r
      BY <2>2
    <3> QED BY <2>3, <2>4, <2>5, <3>1
  <2>8. \A i \in 1 .. Len(q) : q[i].kind \notin WireKinds
    <3> SUFFICES ASSUME NEW i \in 1 .. Len(q) PROVE q[i].kind \notin WireKinds
      OBVIOUS
    <3>1. i < r \/ i = r \/ i > r
      BY <2>2
    <3> QED BY <2>1, <2>3, <2>4, <2>5, <3>1
  <2>9. \A j \in 1 .. Len(q) : j # r => (j < r <=> q[j].kind \in ClosingKinds)
    <3> SUFFICES ASSUME NEW j \in 1 .. Len(q), j # r
                 PROVE  j < r <=> q[j].kind \in ClosingKinds
      OBVIOUS
    <3>1. (j < r /\ ~ j > r) \/ (j > r /\ ~ j < r)
      BY <2>2
    <3> QED BY <2>3, <2>4, <2>5, <3>1
  <2>10. ASSUME NEW j \in 1 .. Len(q), q[j].kind \in C
         PROVE  j > 1 /\ q[j - 1].kind = "SessionReset"
    <3>1. j = r + 1
      BY <2>6, <2>10
    <3>2. j - 1 = r /\ j > 1
      BY <2>2, <3>1
    <3> QED BY <2>1, <3>2
  <2> QED BY <2>7, <2>8, <2>9, <2>10
<1> QED BY <1>1, <1>2 DEF Shaped

-----------------------------------------------------------------------------
(* The shadow comparison                                                   *)

(* A handler that runs one parser and refuses at most a value.             *)
Simple(h, parser) ==
  /\ h = [parser |-> parser, refuses |-> h.refuses, quiet |-> h.quiet,
          echoed |-> h.echoed, kinds |-> h.kinds, extra |-> h.extra]
  /\ h.refuses \subseteq {"odd"}

LEMMA GivesSimple == \A parser, kinds : Simple(Gives(parser, kinds), parser)
BY DEF Gives, Simple

LEMMA StaysSimple ==
  ASSUME NEW h, NEW parser, Simple(h, parser), NEW x
  PROVE  /\ Simple(Refusing(h, {"odd"}), parser)
         /\ Simple(QuietOn(h, x), parser)
         /\ Simple(Echoing(h, x), parser)
         /\ Simple(WithExtra(h, x), parser)
<1> DEFINE r == Refusing(h, {"odd"})
           s == QuietOn(h, x)
           e == Echoing(h, x)
           w == WithExtra(h, x)
<1>1. h = [parser |-> parser, refuses |-> h.refuses, quiet |-> h.quiet,
           echoed |-> h.echoed, kinds |-> h.kinds, extra |-> h.extra]
      /\ h.refuses \subseteq {"odd"}
  BY DEF Simple
<1>2. /\ r = [parser |-> parser, refuses |-> {"odd"}, quiet |-> h.quiet,
              echoed |-> h.echoed, kinds |-> h.kinds, extra |-> h.extra]
      /\ s = [parser |-> parser, refuses |-> h.refuses, quiet |-> x,
              echoed |-> h.echoed, kinds |-> h.kinds, extra |-> h.extra]
      /\ e = [parser |-> parser, refuses |-> h.refuses, quiet |-> h.quiet,
              echoed |-> x, kinds |-> h.kinds, extra |-> h.extra]
      /\ w = [parser |-> parser, refuses |-> h.refuses, quiet |-> h.quiet,
              echoed |-> h.echoed, kinds |-> h.kinds, extra |-> x]
  BY <1>1 DEF Refusing, QuietOn, Echoing, WithExtra
<1> HIDE DEF r, s, e, w
<1>3. Simple(r, parser)
  BY <1>2 DEF Simple
<1>4. Simple(s, parser)
  BY <1>1, <1>2 DEF Simple
<1>5. Simple(e, parser)
  BY <1>1, <1>2 DEF Simple
<1>6. Simple(w, parser)
  BY <1>1, <1>2 DEF Simple
<1> QED BY <1>3, <1>4, <1>5, <1>6 DEF r, s, e, w

(* The parser of each function and the handler of its opcode: but for the  *)
(* sizes only one of them takes, what the handler decodes the parser       *)
(* accepts, and what the parser accepts the handler refuses for a value.   *)
Shadows(parser, more, h) ==
  /\ h.parser.sizes \ more.session \subseteq parser.sizes
  /\ parser.sizes \ more.function \subseteq h.parser.sizes
  /\ parser.errors \subseteq h.parser.errors \cup h.refuses \cup h.quiet
  /\ (h.parser.errors \cup h.refuses) \ {"odd"} \subseteq parser.errors

LEMMA SimpleShadows ==
  ASSUME NEW h, NEW parser, Simple(h, parser), NEW more
  PROVE  Shadows(parser, more, h)
BY DEF Simple, Shadows

(* What Shadows is for, packet by packet.                                  *)
LEMMA ShadowsAgree ==
  ASSUME NEW parser, NEW more, NEW h, Shadows(parser, more, h), NEW dir, NEW p
  PROVE  LET d == Handle(h, dir, p).disposition
         IN  /\ d = "Decoded" => Accepts(parser, p) \/ p.size \in more.session
             /\ Accepts(parser, p) /\ d = "Malformed" =>
                  p.body = "odd" \/ p.size \in more.function
<1> DEFINE refused == ~Accepts(h.parser, p) \/ p.body \in h.refuses
           quiet == {p.size, p.body} \cap h.quiet # {}
<1>1. /\ Handle(h, dir, p).disposition = "Decoded" => ~refused /\ ~quiet
      /\ Handle(h, dir, p).disposition = "Malformed" => refused
  BY DEF Handle, Malformed, Ignored, Outcome
<1>2. ~refused /\ ~quiet => Accepts(parser, p) \/ p.size \in more.session
  BY DEF Accepts, Shadows
<1>3. refused /\ Accepts(parser, p) => p.body = "odd" \/ p.size \in more.function
  BY DEF Accepts, Shadows
<1> HIDE DEF refused, quiet
<1> QED BY <1>1, <1>2, <1>3

(* The handlers of the opcodes that have such a function.                 *)
LEMMA EqlSpawnSimple ==
  /\ Simple(EqlSpawnHandlers["OP_ZoneEntry"], EqlParseSpawn)
  /\ Simple(EqlSpawnHandlers["OP_MobUpdate"], Exact)
  /\ Simple(EqlSpawnHandlers["OP_NpcMoveUpdate"], EqlParseNpcMove)
  /\ Simple(EqlSpawnHandlers["OP_RemoveSpawn"], Exact)
  /\ Simple(EqlSpawnHandlers["OP_DeleteSpawn"], Exact)
  /\ Simple(EqlSpawnHandlers["OP_SpawnRename"], Exact)
  /\ Simple(EqlSpawnHandlers["OP_Death"], Exact)
  /\ Simple(EqlSpawnHandlers["OP_HPUpdate"], EqlParseStatSync)
BY GivesSimple, StaysSimple DEF EqlSpawnHandlers

LEMMA EqlPositionSimple ==
  /\ Simple(EqlPositionHandlers["OP_GuildsInZoneList"], EqlParseGuildsInZone)
  /\ Simple(EqlPositionHandlers["OP_NewGuildInZone"], Walked)
  /\ Simple(EqlPositionHandlers["OP_ClientUpdate"], Exact)
  /\ Simple(EqlPositionHandlers["OP_TargetMouse"], Exact)
  /\ Simple(EqlPositionHandlers["OP_Consider"], Exact)
BY GivesSimple, StaysSimple DEF EqlPositionHandlers

LEMMA EqlMessageSimple ==
  /\ Simple(EqlMessageHandlers["OP_CommonMessage"], EqlParseChannelMessage)
  /\ Simple(EqlMessageHandlers["OP_SimpleMessage"], Exact)
  /\ Simple(EqlMessageHandlers["OP_FormattedMessage"], AtLeast)
  /\ Simple(EqlMessageHandlers["OP_SpecialMesg"], EqlParseSpecialMessage)
  /\ Simple(EqlMessageHandlers["OP_GroupFollow"], AtLeast)
  /\ Simple(EqlMessageHandlers["OP_GroupDisband"], AtLeast)
  /\ Simple(EqlMessageHandlers["OP_GroupMemberList"], EqlParseGroupMemberList)
  /\ Simple(EqlMessageHandlers["OP_DzInfo"], Exact)
  /\ Simple(EqlMessageHandlers["OP_DzSwitchInfo"], TwoLengths)
  /\ Simple(EqlMessageHandlers["OP_LootMessage"], AtLeast)
BY GivesSimple, StaysSimple DEF EqlMessageHandlers

LEMMA EqlProgressSimple ==
  /\ Simple(EqlProgressHandlers["OP_LevelUpdate"], AtLeast)
  /\ Simple(EqlProgressHandlers["OP_ExpUpdate"], Exact)
  /\ Simple(EqlProgressHandlers["OP_MoneyUpdate"], AtLeast)
  /\ Simple(EqlProgressHandlers["OP_Stamina"], Exact)
  /\ Simple(EqlProgressHandlers["OP_ManaChange"], Exact)
  /\ Simple(EqlProgressHandlers["OP_SkillUpdate"], Exact)
  /\ Simple(EqlProgressHandlers["OP_LootDrops"], EqlParseLootDrops)
  /\ Simple(EqlProgressHandlers["OP_LootTransaction"], EqlParseLootTransaction)
  /\ Simple(EqlProgressHandlers["OP_SendAATable"], AtLeast)
BY GivesSimple, StaysSimple DEF EqlProgressHandlers

LEMMA EqlCombatSimple ==
  /\ Simple(EqlCombatHandlers["OP_BuffList"], EqlParseBuffList)
  /\ Simple(EqlCombatHandlers["OP_Action2"], Exact)
  /\ Simple(EqlCombatHandlers["OP_Action"], TwoLengths)
  /\ Simple(EqlCombatHandlers["OP_Buff"], EqlParseBuff)
  /\ Simple(EqlCombatHandlers["OP_BeginCast"], AtLeast)
BY GivesSimple, StaysSimple DEF EqlCombatHandlers

LEMMA EqlLifecycleSimple ==
  /\ Simple(EqlLifecycleHandlers["OP_NewZone"], EqlParseNewZone)
  /\ Simple(EqlLifecycleHandlers["OP_ZoneChange"], Exact)
  /\ Simple(EqlLifecycleHandlers["OP_PlayerProfile"], EqlParseProfile)
BY GivesSimple, StaysSimple DEF EqlLifecycleHandlers

LEMMA EqlNamedSimple ==
  /\ Simple(EqlNamedHandlers["OP_GuildMOTD"], AtLeast)
BY GivesSimple, StaysSimple DEF EqlNamedHandlers

LEMMA EqlGuildSimple ==
  /\ Simple(EqlGuildHandlers["OP_GuildMemberList"], EqlParseGuildRoster)
  /\ Simple(EqlGuildHandlers["OP_Stance"], AtLeast)
  /\ Simple(EqlGuildHandlers["OP_Invocation"], AtLeast)
  /\ Simple(EqlGuildHandlers["OP_SpawnAppearance"], EqlReadSpawnAppearance)
  /\ Simple(EqlGuildHandlers["OP_ClickObject"], Exact)
  /\ Simple(EqlGuildHandlers["OP_LoadoutSwap"], EqlParseLoadoutSwap)
BY GivesSimple, StaysSimple DEF EqlGuildHandlers

LEMMA EqlPlaceSimple ==
  /\ Simple(EqlPlaceHandlers["OP_Illusion"], Exact)
  /\ Simple(EqlPlaceHandlers["OP_GroundSpawn"], EqlParseGroundSpawn)
  /\ Simple(EqlPlaceHandlers["OP_CorpseLocResponse"], Exact)
BY GivesSimple, StaysSimple DEF EqlPlaceHandlers

LEMMA LiveSpawnSimple ==
  /\ Simple(LiveSpawnHandlers["OP_ZoneEntry"], LiveParseSpawn)
  /\ Simple(LiveSpawnHandlers["OP_MobUpdate"], Exact)
  /\ Simple(LiveSpawnHandlers["OP_NpcMoveUpdate"], LiveParseNpcMove)
  /\ Simple(LiveSpawnHandlers["OP_RemoveSpawn"], Exact)
  /\ Simple(LiveSpawnHandlers["OP_DeleteSpawn"], Exact)
  /\ Simple(LiveSpawnHandlers["OP_SpawnRename"], Exact)
  /\ Simple(LiveSpawnHandlers["OP_HPUpdate"], Exact)
  /\ Simple(LiveSpawnHandlers["OP_ClientUpdate"], Exact)
BY GivesSimple, StaysSimple DEF LiveSpawnHandlers

LEMMA LiveCombatSimple ==
  /\ Simple(LiveCombatHandlers["OP_TargetMouse"], Exact)
  /\ Simple(LiveCombatHandlers["OP_Consider"], Exact)
  /\ Simple(LiveCombatHandlers["OP_CommonMessage"], LiveParseChannelMessage)
  /\ Simple(LiveCombatHandlers["OP_Action2"], Exact)
  /\ Simple(LiveCombatHandlers["OP_Action"], TwoLengths)
  /\ Simple(LiveCombatHandlers["OP_Buff"], LiveParseBuff)
  /\ Simple(LiveCombatHandlers["OP_Death"], Exact)
BY GivesSimple, StaysSimple DEF LiveCombatHandlers

LEMMA LiveLifecycleSimple ==
  /\ Simple(LiveLifecycleHandlers["OP_NewZone"], LiveParseNewZone)
  /\ Simple(LiveLifecycleHandlers["OP_ZoneChange"], Exact)
  /\ Simple(LiveLifecycleHandlers["OP_PlayerProfile"], LiveParseProfile)
BY GivesSimple, StaysSimple DEF LiveLifecycleHandlers

LEMMA LiveItemSimple ==
  /\ Simple(LiveItemHandlers["OP_Stamina"], Exact)
  /\ Simple(LiveItemHandlers["OP_ManaChange"], Exact)
  /\ Simple(LiveItemHandlers["OP_SkillUpdate"], Exact)
  /\ Simple(LiveItemHandlers["OP_Illusion"], Exact)
  /\ Simple(LiveItemHandlers["OP_GroundSpawn"], LiveParseGroundSpawn)
  /\ Simple(LiveItemHandlers["OP_CorpseLocResponse"], Exact)
BY GivesSimple, StaysSimple DEF LiveItemHandlers

LEMMA LiveGuildSimple ==
  /\ Simple(LiveGuildHandlers["OP_ClickObject"], Exact)
  /\ Simple(LiveGuildHandlers["OP_SpawnAppearance"], Exact)
  /\ Simple(LiveGuildHandlers["OP_GuildsInZoneList"], LiveParseGuildsInZone)
  /\ Simple(LiveGuildHandlers["OP_NewGuildInZone"], Walked)
  /\ Simple(LiveGuildHandlers["OP_GuildMemberList"], LiveParseGuildRoster)
  /\ Simple(LiveGuildHandlers["OP_GuildMemberUpdate"], Exact)
  /\ Simple(LiveGuildHandlers["OP_GuildMOTD"], AtLeast)
  /\ Simple(LiveGuildHandlers["OP_ExpandedGuildInfo"], LiveParseExpandedGuildInfo)
BY GivesSimple, StaysSimple DEF LiveGuildHandlers

LEMMA LiveMessageSimple ==
  /\ Simple(LiveMessageHandlers["OP_SimpleMessage"], Exact)
  /\ Simple(LiveMessageHandlers["OP_FormattedMessage"], AtLeast)
  /\ Simple(LiveMessageHandlers["OP_SpecialMesg"], LiveParseSpecialMessage)
  /\ Simple(LiveMessageHandlers["OP_ExpUpdate"], Exact)
  /\ Simple(LiveMessageHandlers["OP_GroupFollow"], AtLeast)
  /\ Simple(LiveMessageHandlers["OP_GroupDisband"], Exact)
  /\ Simple(LiveMessageHandlers["OP_GroupMemberList"], LiveParseGroupMemberList)
  /\ Simple(LiveMessageHandlers["OP_DzInfo"], Exact)
  /\ Simple(LiveMessageHandlers["OP_DzSwitchInfo"], TwoLengths)
BY GivesSimple, StaysSimple DEF LiveMessageHandlers

(* The opcodes that have one, family by family.                            *)
ForPositions ==
  {"OP_MobUpdate", "OP_DeleteSpawn", "OP_RemoveSpawn", "OP_HPUpdate"}
ForEqlOnly ==
  {"OP_BeginCast", "OP_Stance", "OP_Invocation", "OP_SendAATable",
   "OP_LoadoutSwap", "OP_LootTransaction", "OP_MoneyUpdate", "OP_LootDrops",
   "OP_LootMessage", "OP_BuffList"}
ForLiveOnly ==
  {"OP_ExpandedGuildInfo", "OP_GuildMemberUpdate"}
ForGuilds ==
  {"OP_GuildsInZoneList", "OP_NewGuildInZone", "OP_GuildMOTD",
   "OP_GuildMemberList"}
ForVitals ==
  {"OP_SpawnAppearance", "OP_ExpUpdate", "OP_LevelUpdate", "OP_SkillUpdate",
   "OP_ManaChange", "OP_Stamina"}
ForSpawns ==
  {"OP_Consider", "OP_SpawnRename", "OP_TargetMouse", "OP_Death",
   "OP_ClickObject", "OP_Illusion", "OP_Action2", "OP_Buff", "OP_ZoneEntry"}
ForZones ==
  {"OP_ZoneChange", "OP_DzInfo", "OP_DzSwitchInfo", "OP_Action",
   "OP_GroupDisband", "OP_GroupFollow", "OP_GroupMemberList",
   "OP_CorpseLocResponse", "OP_GroundSpawn"}
ForMessages ==
  {"OP_SimpleMessage", "OP_FormattedMessage", "OP_SpecialMesg",
   "OP_CommonMessage"}
ForProfile ==
  {"OP_PlayerProfile", "OP_NewZone", "OP_ClientUpdate", "OP_NpcMoveUpdate"}
ForOne(b) == IF b = "eql" THEN ForEqlOnly ELSE ForLiveOnly

LEMMA FunctionDomains ==
  ASSUME NEW b
  PROVE  /\ DOMAIN LegacyPositions(b) = ForPositions
         /\ DOMAIN LegacyEqlOnly = ForEqlOnly
         /\ DOMAIN LegacyLiveOnly = ForLiveOnly
         /\ DOMAIN LegacyGuilds(b) = ForGuilds
         /\ DOMAIN LegacyVitals = ForVitals
         /\ DOMAIN LegacySpawns(b) = ForSpawns
         /\ DOMAIN LegacyZones(b) = ForZones
         /\ DOMAIN LegacyMessages(b) = ForMessages
         /\ DOMAIN LegacyProfile(b) = ForProfile
BY DEF LegacyPositions, LegacyEqlOnly, LegacyLiveOnly, LegacyGuilds, LegacyVitals,
     LegacySpawns, LegacyZones, LegacyMessages, LegacyProfile,
  ForPositions, ForEqlOnly, ForLiveOnly, ForGuilds, ForVitals, ForSpawns, ForZones,
      ForMessages, ForProfile

LEMMA FunctionsApart ==
  /\ ForPositions \cap ForEqlOnly = {}
  /\ ForPositions \cap ForLiveOnly = {}
  /\ ForPositions \cap ForGuilds = {}
  /\ ForPositions \cap ForVitals = {}
  /\ ForPositions \cap ForSpawns = {}
  /\ ForPositions \cap ForZones = {}
  /\ ForPositions \cap ForMessages = {}
  /\ ForPositions \cap ForProfile = {}
  /\ ForEqlOnly \cap ForGuilds = {}
  /\ ForEqlOnly \cap ForVitals = {}
  /\ ForEqlOnly \cap ForSpawns = {}
  /\ ForEqlOnly \cap ForZones = {}
  /\ ForEqlOnly \cap ForMessages = {}
  /\ ForEqlOnly \cap ForProfile = {}
  /\ ForLiveOnly \cap ForGuilds = {}
  /\ ForLiveOnly \cap ForVitals = {}
  /\ ForLiveOnly \cap ForSpawns = {}
  /\ ForLiveOnly \cap ForZones = {}
  /\ ForLiveOnly \cap ForMessages = {}
  /\ ForLiveOnly \cap ForProfile = {}
  /\ ForGuilds \cap ForVitals = {}
  /\ ForGuilds \cap ForSpawns = {}
  /\ ForGuilds \cap ForZones = {}
  /\ ForGuilds \cap ForMessages = {}
  /\ ForGuilds \cap ForProfile = {}
  /\ ForVitals \cap ForSpawns = {}
  /\ ForVitals \cap ForZones = {}
  /\ ForVitals \cap ForMessages = {}
  /\ ForVitals \cap ForProfile = {}
  /\ ForSpawns \cap ForZones = {}
  /\ ForSpawns \cap ForMessages = {}
  /\ ForSpawns \cap ForProfile = {}
  /\ ForZones \cap ForMessages = {}
  /\ ForZones \cap ForProfile = {}
  /\ ForMessages \cap ForProfile = {}
<1>1. /\ ForPositions \cap ForEqlOnly = {}
      /\ ForPositions \cap ForLiveOnly = {}
      /\ ForPositions \cap ForGuilds = {}
      /\ ForPositions \cap ForVitals = {}
      /\ ForPositions \cap ForSpawns = {}
      /\ ForPositions \cap ForZones = {}
      /\ ForPositions \cap ForMessages = {}
      /\ ForPositions \cap ForProfile = {}
  BY DEF ForPositions, ForEqlOnly, ForLiveOnly, ForGuilds, ForVitals, ForSpawns,
       ForZones, ForMessages, ForProfile
<1>2. /\ ForEqlOnly \cap ForGuilds = {}
      /\ ForEqlOnly \cap ForVitals = {}
      /\ ForEqlOnly \cap ForSpawns = {}
      /\ ForEqlOnly \cap ForZones = {}
      /\ ForEqlOnly \cap ForMessages = {}
      /\ ForEqlOnly \cap ForProfile = {}
  BY DEF ForEqlOnly, ForLiveOnly, ForGuilds, ForVitals, ForSpawns, ForZones,
       ForMessages, ForProfile
<1>3. /\ ForLiveOnly \cap ForGuilds = {}
      /\ ForLiveOnly \cap ForVitals = {}
      /\ ForLiveOnly \cap ForSpawns = {}
      /\ ForLiveOnly \cap ForZones = {}
      /\ ForLiveOnly \cap ForMessages = {}
      /\ ForLiveOnly \cap ForProfile = {}
  BY DEF ForLiveOnly, ForGuilds, ForVitals, ForSpawns, ForZones, ForMessages, ForProfile
<1>4. /\ ForGuilds \cap ForVitals = {}
      /\ ForGuilds \cap ForSpawns = {}
      /\ ForGuilds \cap ForZones = {}
      /\ ForGuilds \cap ForMessages = {}
      /\ ForGuilds \cap ForProfile = {}
  BY DEF ForGuilds, ForVitals, ForSpawns, ForZones, ForMessages, ForProfile
<1>5. /\ ForVitals \cap ForSpawns = {}
      /\ ForVitals \cap ForZones = {}
      /\ ForVitals \cap ForMessages = {}
      /\ ForVitals \cap ForProfile = {}
  BY DEF ForVitals, ForSpawns, ForZones, ForMessages, ForProfile
<1>6. /\ ForSpawns \cap ForZones = {}
      /\ ForSpawns \cap ForMessages = {}
      /\ ForSpawns \cap ForProfile = {}
  BY DEF ForSpawns, ForZones, ForMessages, ForProfile
<1>7. /\ ForZones \cap ForMessages = {}
      /\ ForZones \cap ForProfile = {}
  BY DEF ForZones, ForMessages, ForProfile
<1>8. /\ ForMessages \cap ForProfile = {}
  BY DEF ForMessages, ForProfile
<1> QED BY <1>1, <1>2, <1>3, <1>4, <1>5, <1>6, <1>7, <1>8

LEMMA FunctionIs ==
  ASSUME NEW b
  PROVE  /\ DOMAIN Legacy(b) = ForPositions \cup ForOne(b) \cup ForGuilds \cup ForVitals
              \cup ForSpawns \cup ForZones \cup ForMessages \cup ForProfile
         /\ \A op \in ForPositions : Legacy(b)[op] = LegacyPositions(b)[op]
         /\ b = "eql" => \A op \in ForEqlOnly : Legacy(b)[op] = LegacyEqlOnly[op]
         /\ b # "eql" => \A op \in ForLiveOnly : Legacy(b)[op] = LegacyLiveOnly[op]
         /\ \A op \in ForGuilds : Legacy(b)[op] = LegacyGuilds(b)[op]
         /\ \A op \in ForVitals : Legacy(b)[op] = LegacyVitals[op]
         /\ \A op \in ForSpawns : Legacy(b)[op] = LegacySpawns(b)[op]
         /\ \A op \in ForZones : Legacy(b)[op] = LegacyZones(b)[op]
         /\ \A op \in ForMessages : Legacy(b)[op] = LegacyMessages(b)[op]
         /\ \A op \in ForProfile : Legacy(b)[op] = LegacyProfile(b)[op]
<1> DEFINE one == IF b = "eql" THEN LegacyEqlOnly ELSE LegacyLiveOnly
           F == <<LegacyPositions(b), one, LegacyGuilds(b), LegacyVitals,
                  LegacySpawns(b), LegacyZones(b), LegacyMessages(b), LegacyProfile(b)>>
           D == <<ForPositions, ForOne(b), ForGuilds, ForVitals, ForSpawns, ForZones,
                  ForMessages, ForProfile>>
<1>1. Legacy(b) = Merged(F)
  BY DEF Legacy, ByBackend
<1>2. DOMAIN one = ForOne(b)
  BY FunctionDomains DEF ForOne
<1> HIDE DEF one
<1>3. /\ F[1] = LegacyPositions(b)
      /\ F[2] = one
      /\ F[3] = LegacyGuilds(b)
      /\ F[4] = LegacyVitals
      /\ F[5] = LegacySpawns(b)
      /\ F[6] = LegacyZones(b)
      /\ F[7] = LegacyMessages(b)
      /\ F[8] = LegacyProfile(b)
      /\ DOMAIN F = 1 .. 8
  OBVIOUS
<1>4. /\ D[1] = ForPositions
      /\ D[2] = ForOne(b)
      /\ D[3] = ForGuilds
      /\ D[4] = ForVitals
      /\ D[5] = ForSpawns
      /\ D[6] = ForZones
      /\ D[7] = ForMessages
      /\ D[8] = ForProfile
  OBVIOUS
<1>5. ForOne(b) \subseteq ForEqlOnly \cup ForLiveOnly
  BY DEF ForOne
<1>6. \A i, j \in 1 .. 8 : i # j => D[i] \cap D[j] = {}
  <2> HIDE DEF D
  <2> QED BY <1>4, <1>5, FunctionsApart
<1> HIDE DEF F, D
<1>7. \A i \in 1 .. 8 : DOMAIN F[i] = D[i]
  BY <1>2, <1>3, <1>4, FunctionDomains
<1>8. ASSUME NEW i \in 1 .. 8, NEW op \in D[i] PROVE Legacy(b)[op] = F[i][op]
  <2>1. \A j \in DOMAIN F : op \in DOMAIN F[j] => j = i
    BY <1>3, <1>6, <1>7
  <2>2. i \in DOMAIN F /\ op \in DOMAIN F[i]
    BY <1>3, <1>7
  <2>3. Merged(F)[op] = F[i][op]
    BY <2>1, <2>2, MergedIs
  <2> QED BY <1>1, <2>3
<1>9. DOMAIN Legacy(b) = UNION {D[i] : i \in 1 .. 8}
  <2>1. DOMAIN Merged(F) = UNION {DOMAIN F[i] : i \in DOMAIN F}
    BY DEF Merged
  <2> QED BY <1>1, <1>3, <1>7, <2>1
<1>10. DOMAIN Legacy(b) = ForPositions \cup ForOne(b) \cup ForGuilds \cup ForVitals
         \cup ForSpawns \cup ForZones \cup ForMessages \cup ForProfile
  BY <1>4, <1>9
<1>11. \A op \in ForOne(b) : Legacy(b)[op] = one[op]
  BY <1>3, <1>4, <1>8
<1>12. /\ b = "eql" => \A op \in ForEqlOnly : Legacy(b)[op] = LegacyEqlOnly[op]
       /\ b # "eql" => \A op \in ForLiveOnly : Legacy(b)[op] = LegacyLiveOnly[op]
  BY <1>11 DEF ForOne, one
<1> QED BY <1>3, <1>4, <1>8, <1>10, <1>12

(* The sizes that only one of the two takes.                               *)
MoreOf(b, op) ==
  [session |-> {size \in Sizes : <<op, size>> \in SessionTakesMore(b)},
   function |-> {size \in Sizes : <<op, size>> \in FunctionTakesMore(b)}]

LEMMA MoreOfSome ==
  /\ \A b : "other" \in MoreOf(b, "OP_DzSwitchInfo").session
  /\ "long" \in MoreOf("eql", "OP_LevelUpdate").session
  /\ {"other", "long"} \subseteq MoreOf("eql", "OP_SpawnAppearance").session
  /\ "stock" \in MoreOf("eql", "OP_ZoneChange").session
  /\ "other" \in MoreOf("eql", "OP_ZoneChange").function
BY DEF MoreOf, SessionTakesMore, FunctionTakesMore, Sizes

(* The handled opcodes without one.                                        *)
NoEqlFunction ==
  {"OP_GroupDisband2", "OP_AAExpUpdate", "OP_BuffList2", "OP_BuffList3",
   "OP_CastSpell", "OP_EnterWorld", "OP_SpawnDoor", "OP_InspectAnswer",
   "OP_ZoneServerInfo", "OP_ItemPacket", "OP_ExpandedGuildInfo", "OP_TimeOfDay",
   "OP_SpawnAppearance2", "OP_SendZonePoints"}
NoLiveFunction ==
  {"OP_BeginCast", "OP_CastSpell", "OP_ZoneServerInfo", "OP_EnterWorld",
   "OP_SpawnDoor", "OP_ItemPacket", "OP_AAExpUpdate", "OP_TimeOfDay",
   "OP_GroupDisband2", "OP_SendZonePoints"}
LEMMA OthersHaveNone ==
  /\ NoEqlFunction \cap DOMAIN Legacy("eql") = {}
  /\ \A b : b # "eql" => NoLiveFunction \cap DOMAIN Legacy(b) = {}
<1>1. /\ NoEqlFunction \cap ForPositions = {}
      /\ NoEqlFunction \cap ForEqlOnly = {}
      /\ NoEqlFunction \cap ForGuilds = {}
      /\ NoEqlFunction \cap ForVitals = {}
      /\ NoEqlFunction \cap ForSpawns = {}
      /\ NoEqlFunction \cap ForZones = {}
      /\ NoEqlFunction \cap ForMessages = {}
      /\ NoEqlFunction \cap ForProfile = {}
  BY DEF NoEqlFunction, ForPositions, ForEqlOnly, ForLiveOnly, ForGuilds, ForVitals,
        ForSpawns, ForZones, ForMessages, ForProfile
<1>2. /\ NoLiveFunction \cap ForPositions = {}
      /\ NoLiveFunction \cap ForLiveOnly = {}
      /\ NoLiveFunction \cap ForGuilds = {}
      /\ NoLiveFunction \cap ForVitals = {}
      /\ NoLiveFunction \cap ForSpawns = {}
      /\ NoLiveFunction \cap ForZones = {}
      /\ NoLiveFunction \cap ForMessages = {}
      /\ NoLiveFunction \cap ForProfile = {}
  BY DEF NoLiveFunction, ForPositions, ForEqlOnly, ForLiveOnly, ForGuilds, ForVitals,
        ForSpawns, ForZones, ForMessages, ForProfile
<1>3. DOMAIN Legacy("eql") = ForPositions \cup ForEqlOnly \cup ForGuilds \cup ForVitals
         \cup ForSpawns \cup ForZones \cup ForMessages \cup ForProfile
  BY FunctionIs DEF ForOne
<1>4. ASSUME NEW b, b # "eql"
      PROVE  DOMAIN Legacy(b) = ForPositions \cup ForLiveOnly \cup ForGuilds \cup ForVitals
               \cup ForSpawns \cup ForZones \cup ForMessages \cup ForProfile
  BY <1>4, FunctionIs DEF ForOne
<1> QED BY <1>1, <1>2, <1>3, <1>4

(* Each of these functions against the handler of its opcode.              *)
LEMMA EqlSpawnShadows ==
  \A op \in DOMAIN EqlSpawnHandlers \cap DOMAIN Legacy("eql") :
    Shadows(Legacy("eql")[op], MoreOf("eql", op), EqlSpawnHandlers[op])
<1>1. DOMAIN EqlSpawnHandlers =
         {"OP_ZoneEntry", "OP_MobUpdate", "OP_NpcMoveUpdate", "OP_RemoveSpawn",
          "OP_DeleteSpawn", "OP_SpawnRename", "OP_Death", "OP_HPUpdate"}
  BY DEF EqlSpawnHandlers
<1>2. /\ Legacy("eql")["OP_ZoneEntry"] = EqlParseSpawn
      /\ Legacy("eql")["OP_MobUpdate"] = Exact
      /\ Legacy("eql")["OP_NpcMoveUpdate"] = EqlParseNpcMove
      /\ Legacy("eql")["OP_RemoveSpawn"] = Exact
      /\ Legacy("eql")["OP_DeleteSpawn"] = Exact
      /\ Legacy("eql")["OP_SpawnRename"] = Exact
      /\ Legacy("eql")["OP_Death"] = Exact
      /\ Legacy("eql")["OP_HPUpdate"] = EqlParseStatSync
  BY FunctionIs
    DEF ForSpawns, ForPositions, ForProfile, LegacySpawns, LegacyPositions,
        LegacyProfile, ByBackend
<1> QED BY <1>1, <1>2, EqlSpawnSimple, SimpleShadows

LEMMA EqlPositionShadows ==
  \A op \in DOMAIN EqlPositionHandlers \cap DOMAIN Legacy("eql") :
    Shadows(Legacy("eql")[op], MoreOf("eql", op), EqlPositionHandlers[op])
<1>1. DOMAIN EqlPositionHandlers =
         {"OP_GuildsInZoneList", "OP_NewGuildInZone", "OP_ClientUpdate",
          "OP_TargetMouse", "OP_Consider"}
  BY DEF EqlPositionHandlers
<1>2. /\ Legacy("eql")["OP_GuildsInZoneList"] = EqlParseGuildsInZone
      /\ Legacy("eql")["OP_NewGuildInZone"] = Walked
      /\ Legacy("eql")["OP_ClientUpdate"] = Exact
      /\ Legacy("eql")["OP_TargetMouse"] = Exact
      /\ Legacy("eql")["OP_Consider"] = Exact
  BY FunctionIs
    DEF ForGuilds, ForProfile, ForSpawns, LegacyGuilds, LegacyProfile, LegacySpawns,
        ByBackend
<1> QED BY <1>1, <1>2, EqlPositionSimple, SimpleShadows

LEMMA EqlMessageShadows ==
  \A op \in DOMAIN EqlMessageHandlers \cap DOMAIN Legacy("eql") :
    Shadows(Legacy("eql")[op], MoreOf("eql", op), EqlMessageHandlers[op])
<1>1. DOMAIN EqlMessageHandlers =
         {"OP_CommonMessage", "OP_SimpleMessage", "OP_FormattedMessage",
          "OP_SpecialMesg", "OP_GroupFollow", "OP_GroupDisband",
          "OP_GroupDisband2", "OP_GroupMemberList", "OP_DzInfo",
          "OP_DzSwitchInfo", "OP_LootMessage"}
  BY DEF EqlMessageHandlers
<1>2. "OP_GroupDisband2" \notin DOMAIN Legacy("eql")
  BY OthersHaveNone DEF NoEqlFunction
<1>3. /\ Legacy("eql")["OP_CommonMessage"] = EqlParseChannelMessage
      /\ Legacy("eql")["OP_SimpleMessage"] = Exact
      /\ Legacy("eql")["OP_FormattedMessage"] = AtLeast
      /\ Legacy("eql")["OP_SpecialMesg"] = EqlParseSpecialMessage
      /\ Legacy("eql")["OP_GroupFollow"] = AtLeast
      /\ Legacy("eql")["OP_GroupDisband"] = AtLeast
      /\ Legacy("eql")["OP_GroupMemberList"] = EqlParseGroupMemberList
      /\ Legacy("eql")["OP_DzInfo"] = Exact
      /\ Legacy("eql")["OP_DzSwitchInfo"] = Exact
      /\ Legacy("eql")["OP_LootMessage"] = AtLeast
  BY FunctionIs
    DEF ForMessages, ForZones, ForEqlOnly, LegacyMessages, LegacyZones,
        LegacyEqlOnly, ByBackend
<1>4. Shadows(Exact, MoreOf("eql", "OP_DzSwitchInfo"),
             EqlMessageHandlers["OP_DzSwitchInfo"])
  BY EqlMessageSimple, MoreOfSome DEF Simple, Shadows, TwoLengths, Exact
<1> QED BY <1>1, <1>2, <1>3, <1>4, EqlMessageSimple, SimpleShadows

LEMMA EqlProgressShadows ==
  \A op \in DOMAIN EqlProgressHandlers \cap DOMAIN Legacy("eql") :
    Shadows(Legacy("eql")[op], MoreOf("eql", op), EqlProgressHandlers[op])
<1>1. DOMAIN EqlProgressHandlers =
         {"OP_LevelUpdate", "OP_ExpUpdate", "OP_AAExpUpdate", "OP_MoneyUpdate",
          "OP_Stamina", "OP_ManaChange", "OP_SkillUpdate", "OP_LootDrops",
          "OP_LootTransaction", "OP_SendAATable"}
  BY DEF EqlProgressHandlers
<1>2. "OP_AAExpUpdate" \notin DOMAIN Legacy("eql")
  BY OthersHaveNone DEF NoEqlFunction
<1>3. /\ Legacy("eql")["OP_LevelUpdate"] = Exact
      /\ Legacy("eql")["OP_ExpUpdate"] = Exact
      /\ Legacy("eql")["OP_MoneyUpdate"] = AtLeast
      /\ Legacy("eql")["OP_Stamina"] = Exact
      /\ Legacy("eql")["OP_ManaChange"] = Exact
      /\ Legacy("eql")["OP_SkillUpdate"] = Exact
      /\ Legacy("eql")["OP_LootDrops"] = EqlParseLootDrops
      /\ Legacy("eql")["OP_LootTransaction"] = [EqlParseLootTransaction EXCEPT !.errors = {"idle"}]
      /\ Legacy("eql")["OP_SendAATable"] = AtLeast
  BY FunctionIs DEF ForVitals, ForEqlOnly, LegacyVitals, LegacyEqlOnly, ByBackend
<1>4. Shadows(Exact, MoreOf("eql", "OP_LevelUpdate"),
             EqlProgressHandlers["OP_LevelUpdate"])
  BY EqlProgressSimple, MoreOfSome DEF Simple, Shadows, AtLeast, Exact
<1>5. Shadows([EqlParseLootTransaction EXCEPT !.errors = {"idle"}], MoreOf("eql", "OP_LootTransaction"),
             EqlProgressHandlers["OP_LootTransaction"])
  BY GivesSimple
    DEF EqlProgressHandlers, QuietOn, Gives, Shadows, EqlParseLootTransaction,
        AtLeast
<1> QED BY <1>1, <1>2, <1>3, <1>4, <1>5, EqlProgressSimple, SimpleShadows

LEMMA EqlCombatShadows ==
  \A op \in DOMAIN EqlCombatHandlers \cap DOMAIN Legacy("eql") :
    Shadows(Legacy("eql")[op], MoreOf("eql", op), EqlCombatHandlers[op])
<1>1. DOMAIN EqlCombatHandlers =
         {"OP_BuffList", "OP_BuffList2", "OP_BuffList3", "OP_Action2",
          "OP_Action", "OP_CastSpell", "OP_Buff", "OP_BeginCast"}
  BY DEF EqlCombatHandlers
<1>2. /\ "OP_BuffList2" \notin DOMAIN Legacy("eql")
      /\ "OP_BuffList3" \notin DOMAIN Legacy("eql")
      /\ "OP_CastSpell" \notin DOMAIN Legacy("eql")
  BY OthersHaveNone DEF NoEqlFunction
<1>3. /\ Legacy("eql")["OP_BuffList"] = EqlParseBuffList
      /\ Legacy("eql")["OP_Action2"] = Exact
      /\ Legacy("eql")["OP_Action"] = TwoLengths
      /\ Legacy("eql")["OP_Buff"] = EqlParseBuff
      /\ Legacy("eql")["OP_BeginCast"] = AtLeast
  BY FunctionIs
    DEF ForEqlOnly, ForSpawns, ForZones, LegacyEqlOnly, LegacySpawns, LegacyZones,
        ByBackend
<1> QED BY <1>1, <1>2, <1>3, EqlCombatSimple, SimpleShadows

LEMMA EqlLifecycleShadows ==
  \A op \in DOMAIN EqlLifecycleHandlers \cap DOMAIN Legacy("eql") :
    Shadows(Legacy("eql")[op], MoreOf("eql", op), EqlLifecycleHandlers[op])
<1>1. DOMAIN EqlLifecycleHandlers =
         {"OP_NewZone", "OP_ZoneChange", "OP_EnterWorld", "OP_PlayerProfile",
          "OP_SpawnDoor"}
  BY DEF EqlLifecycleHandlers
<1>2. /\ "OP_EnterWorld" \notin DOMAIN Legacy("eql")
      /\ "OP_SpawnDoor" \notin DOMAIN Legacy("eql")
  BY OthersHaveNone DEF NoEqlFunction
<1>3. /\ Legacy("eql")["OP_NewZone"] = EqlParseNewZone
      /\ Legacy("eql")["OP_ZoneChange"] = [Exact EXCEPT !.sizes = {"other"}]
      /\ Legacy("eql")["OP_PlayerProfile"] = EqlParseProfile
  BY FunctionIs
    DEF ForProfile, ForZones, LegacyProfile, LegacyZones, LegacyParseZoneChange,
        ByBackend
<1>4. Shadows([Exact EXCEPT !.sizes = {"other"}], MoreOf("eql", "OP_ZoneChange"),
             EqlLifecycleHandlers["OP_ZoneChange"])
  BY EqlLifecycleSimple, MoreOfSome DEF Simple, Shadows, Exact
<1> QED BY <1>1, <1>2, <1>3, <1>4, EqlLifecycleSimple, SimpleShadows

LEMMA EqlNamedShadows ==
  \A op \in DOMAIN EqlNamedHandlers \cap DOMAIN Legacy("eql") :
    Shadows(Legacy("eql")[op], MoreOf("eql", op), EqlNamedHandlers[op])
<1>1. DOMAIN EqlNamedHandlers =
         {"OP_InspectAnswer", "OP_GuildMOTD", "OP_ZoneServerInfo",
          "OP_ItemPacket"}
  BY DEF EqlNamedHandlers
<1>2. /\ "OP_InspectAnswer" \notin DOMAIN Legacy("eql")
      /\ "OP_ZoneServerInfo" \notin DOMAIN Legacy("eql")
      /\ "OP_ItemPacket" \notin DOMAIN Legacy("eql")
  BY OthersHaveNone DEF NoEqlFunction
<1>3. Legacy("eql")["OP_GuildMOTD"] = AtLeast
  BY FunctionIs DEF ForGuilds, LegacyGuilds, ByBackend
<1> QED BY <1>1, <1>2, <1>3, EqlNamedSimple, SimpleShadows

LEMMA EqlGuildShadows ==
  \A op \in DOMAIN EqlGuildHandlers \cap DOMAIN Legacy("eql") :
    Shadows(Legacy("eql")[op], MoreOf("eql", op), EqlGuildHandlers[op])
<1>1. DOMAIN EqlGuildHandlers =
         {"OP_GuildMemberList", "OP_ExpandedGuildInfo", "OP_Stance",
          "OP_Invocation", "OP_TimeOfDay", "OP_SpawnAppearance",
          "OP_SpawnAppearance2", "OP_ClickObject", "OP_LoadoutSwap"}
  BY DEF EqlGuildHandlers
<1>2. /\ "OP_ExpandedGuildInfo" \notin DOMAIN Legacy("eql")
      /\ "OP_TimeOfDay" \notin DOMAIN Legacy("eql")
      /\ "OP_SpawnAppearance2" \notin DOMAIN Legacy("eql")
  BY OthersHaveNone DEF NoEqlFunction
<1>3. /\ Legacy("eql")["OP_GuildMemberList"] = EqlParseGuildRoster
      /\ Legacy("eql")["OP_Stance"] = AtLeast
      /\ Legacy("eql")["OP_Invocation"] = AtLeast
      /\ Legacy("eql")["OP_SpawnAppearance"] = Exact
      /\ Legacy("eql")["OP_ClickObject"] = Exact
      /\ Legacy("eql")["OP_LoadoutSwap"] = EqlParseLoadoutSwap
  BY FunctionIs
    DEF ForGuilds, ForEqlOnly, ForVitals, ForSpawns, LegacyGuilds, LegacyEqlOnly,
        LegacyVitals, LegacySpawns, ByBackend
<1>4. Shadows(Exact, MoreOf("eql", "OP_SpawnAppearance"),
             EqlGuildHandlers["OP_SpawnAppearance"])
  BY EqlGuildSimple, MoreOfSome
    DEF Simple, Shadows, EqlReadSpawnAppearance, Exact
<1> QED BY <1>1, <1>2, <1>3, <1>4, EqlGuildSimple, SimpleShadows

LEMMA EqlPlaceShadows ==
  \A op \in DOMAIN EqlPlaceHandlers \cap DOMAIN Legacy("eql") :
    Shadows(Legacy("eql")[op], MoreOf("eql", op), EqlPlaceHandlers[op])
<1>1. DOMAIN EqlPlaceHandlers =
         {"OP_Illusion", "OP_GroundSpawn", "OP_CorpseLocResponse",
          "OP_SendZonePoints"}
  BY DEF EqlPlaceHandlers
<1>2. "OP_SendZonePoints" \notin DOMAIN Legacy("eql")
  BY OthersHaveNone DEF NoEqlFunction
<1>3. /\ Legacy("eql")["OP_Illusion"] = Exact
      /\ Legacy("eql")["OP_GroundSpawn"] = EqlParseGroundSpawn
      /\ Legacy("eql")["OP_CorpseLocResponse"] = Exact
  BY FunctionIs DEF ForSpawns, ForZones, LegacySpawns, LegacyZones, ByBackend
<1> QED BY <1>1, <1>2, <1>3, EqlPlaceSimple, SimpleShadows

LEMMA LiveSpawnShadows ==
  ASSUME NEW b, b # "eql"
  PROVE  \A op \in DOMAIN LiveSpawnHandlers \cap DOMAIN Legacy(b) :
           Shadows(Legacy(b)[op], MoreOf(b, op), LiveSpawnHandlers[op])
<1>1. DOMAIN LiveSpawnHandlers =
         {"OP_ZoneEntry", "OP_MobUpdate", "OP_NpcMoveUpdate", "OP_RemoveSpawn",
          "OP_DeleteSpawn", "OP_SpawnRename", "OP_HPUpdate", "OP_ClientUpdate"}
  BY DEF LiveSpawnHandlers
<1>2. /\ Legacy(b)["OP_ZoneEntry"] = LiveParseSpawn
      /\ Legacy(b)["OP_MobUpdate"] = Exact
      /\ Legacy(b)["OP_NpcMoveUpdate"] = LiveParseNpcMove
      /\ Legacy(b)["OP_RemoveSpawn"] = Exact
      /\ Legacy(b)["OP_DeleteSpawn"] = Exact
      /\ Legacy(b)["OP_SpawnRename"] = Exact
      /\ Legacy(b)["OP_HPUpdate"] = Exact
      /\ Legacy(b)["OP_ClientUpdate"] = Exact
  BY FunctionIs
    DEF ForSpawns, ForPositions, ForProfile, LegacySpawns, LegacyPositions,
        LegacyProfile, ByBackend
<1> QED BY <1>1, <1>2, LiveSpawnSimple, SimpleShadows

LEMMA LiveCombatShadows ==
  ASSUME NEW b, b # "eql"
  PROVE  \A op \in DOMAIN LiveCombatHandlers \cap DOMAIN Legacy(b) :
           Shadows(Legacy(b)[op], MoreOf(b, op), LiveCombatHandlers[op])
<1>1. DOMAIN LiveCombatHandlers =
         {"OP_TargetMouse", "OP_Consider", "OP_CommonMessage", "OP_Action2",
          "OP_Action", "OP_BeginCast", "OP_CastSpell", "OP_Buff", "OP_Death"}
  BY DEF LiveCombatHandlers
<1>2. /\ "OP_BeginCast" \notin DOMAIN Legacy(b)
      /\ "OP_CastSpell" \notin DOMAIN Legacy(b)
  BY OthersHaveNone DEF NoLiveFunction
<1>3. /\ Legacy(b)["OP_TargetMouse"] = Exact
      /\ Legacy(b)["OP_Consider"] = Exact
      /\ Legacy(b)["OP_CommonMessage"] = LiveParseChannelMessage
      /\ Legacy(b)["OP_Action2"] = Exact
      /\ Legacy(b)["OP_Action"] = TwoLengths
      /\ Legacy(b)["OP_Buff"] = LiveParseBuff
      /\ Legacy(b)["OP_Death"] = Exact
  BY FunctionIs
    DEF ForSpawns, ForMessages, ForZones, LegacySpawns, LegacyMessages, LegacyZones,
        ByBackend
<1> QED BY <1>1, <1>2, <1>3, LiveCombatSimple, SimpleShadows

LEMMA LiveLifecycleShadows ==
  ASSUME NEW b, b # "eql"
  PROVE  \A op \in DOMAIN LiveLifecycleHandlers \cap DOMAIN Legacy(b) :
           Shadows(Legacy(b)[op], MoreOf(b, op), LiveLifecycleHandlers[op])
<1>1. DOMAIN LiveLifecycleHandlers =
         {"OP_NewZone", "OP_ZoneChange", "OP_ZoneServerInfo", "OP_EnterWorld",
          "OP_PlayerProfile", "OP_SpawnDoor"}
  BY DEF LiveLifecycleHandlers
<1>2. /\ "OP_ZoneServerInfo" \notin DOMAIN Legacy(b)
      /\ "OP_EnterWorld" \notin DOMAIN Legacy(b)
      /\ "OP_SpawnDoor" \notin DOMAIN Legacy(b)
  BY OthersHaveNone DEF NoLiveFunction
<1>3. /\ Legacy(b)["OP_NewZone"] = LiveParseNewZone
      /\ Legacy(b)["OP_ZoneChange"] = Exact
      /\ Legacy(b)["OP_PlayerProfile"] = LiveParseProfile
  BY FunctionIs
    DEF ForProfile, ForZones, LegacyProfile, LegacyZones, LegacyParseZoneChange,
        ByBackend
<1> QED BY <1>1, <1>2, <1>3, LiveLifecycleSimple, SimpleShadows

LEMMA LiveItemShadows ==
  ASSUME NEW b, b # "eql"
  PROVE  \A op \in DOMAIN LiveItemHandlers \cap DOMAIN Legacy(b) :
           Shadows(Legacy(b)[op], MoreOf(b, op), LiveItemHandlers[op])
<1>1. DOMAIN LiveItemHandlers =
         {"OP_ItemPacket", "OP_Stamina", "OP_ManaChange", "OP_SkillUpdate",
          "OP_Illusion", "OP_GroundSpawn", "OP_CorpseLocResponse"}
  BY DEF LiveItemHandlers
<1>2. "OP_ItemPacket" \notin DOMAIN Legacy(b)
  BY OthersHaveNone DEF NoLiveFunction
<1>3. /\ Legacy(b)["OP_Stamina"] = Exact
      /\ Legacy(b)["OP_ManaChange"] = Exact
      /\ Legacy(b)["OP_SkillUpdate"] = Exact
      /\ Legacy(b)["OP_Illusion"] = Exact
      /\ Legacy(b)["OP_GroundSpawn"] = LiveParseGroundSpawn
      /\ Legacy(b)["OP_CorpseLocResponse"] = Exact
  BY FunctionIs
    DEF ForVitals, ForSpawns, ForZones, LegacyVitals, LegacySpawns, LegacyZones,
        ByBackend
<1> QED BY <1>1, <1>2, <1>3, LiveItemSimple, SimpleShadows

LEMMA LiveGuildShadows ==
  ASSUME NEW b, b # "eql"
  PROVE  \A op \in DOMAIN LiveGuildHandlers \cap DOMAIN Legacy(b) :
           Shadows(Legacy(b)[op], MoreOf(b, op), LiveGuildHandlers[op])
<1>1. DOMAIN LiveGuildHandlers =
         {"OP_ClickObject", "OP_SpawnAppearance", "OP_GuildsInZoneList",
          "OP_NewGuildInZone", "OP_GuildMemberList", "OP_GuildMemberUpdate",
          "OP_GuildMOTD", "OP_ExpandedGuildInfo"}
  BY DEF LiveGuildHandlers
<1>2. /\ Legacy(b)["OP_GuildMemberUpdate"] = Exact
      /\ Legacy(b)["OP_ExpandedGuildInfo"] = LiveParseExpandedGuildInfo
  BY FunctionIs DEF ForLiveOnly, LegacyLiveOnly
<1>3. /\ Legacy(b)["OP_ClickObject"] = Exact
      /\ Legacy(b)["OP_SpawnAppearance"] = Exact
      /\ Legacy(b)["OP_GuildsInZoneList"] = LiveParseGuildsInZone
      /\ Legacy(b)["OP_NewGuildInZone"] = Walked
      /\ Legacy(b)["OP_GuildMemberList"] = LiveParseGuildRoster
      /\ Legacy(b)["OP_GuildMOTD"] = AtLeast
  BY FunctionIs
    DEF ForSpawns, ForVitals, ForGuilds, LegacySpawns, LegacyVitals, LegacyGuilds,
        ByBackend
<1> QED BY <1>1, <1>2, <1>3, LiveGuildSimple, SimpleShadows

LEMMA LiveMessageShadows ==
  ASSUME NEW b, b # "eql"
  PROVE  \A op \in DOMAIN LiveMessageHandlers \cap DOMAIN Legacy(b) :
           Shadows(Legacy(b)[op], MoreOf(b, op), LiveMessageHandlers[op])
<1>1. DOMAIN LiveMessageHandlers =
         {"OP_SimpleMessage", "OP_FormattedMessage", "OP_SpecialMesg",
          "OP_ExpUpdate", "OP_AAExpUpdate", "OP_TimeOfDay", "OP_GroupFollow",
          "OP_GroupDisband", "OP_GroupDisband2", "OP_GroupMemberList",
          "OP_DzInfo", "OP_DzSwitchInfo"}
  BY DEF LiveMessageHandlers
<1>2. /\ "OP_AAExpUpdate" \notin DOMAIN Legacy(b)
      /\ "OP_TimeOfDay" \notin DOMAIN Legacy(b)
      /\ "OP_GroupDisband2" \notin DOMAIN Legacy(b)
  BY OthersHaveNone DEF NoLiveFunction
<1>3. /\ Legacy(b)["OP_SimpleMessage"] = Exact
      /\ Legacy(b)["OP_FormattedMessage"] = AtLeast
      /\ Legacy(b)["OP_SpecialMesg"] = LiveParseSpecialMessage
      /\ Legacy(b)["OP_ExpUpdate"] = Exact
      /\ Legacy(b)["OP_GroupFollow"] = AtLeast
      /\ Legacy(b)["OP_GroupDisband"] = Exact
      /\ Legacy(b)["OP_GroupMemberList"] = LiveParseGroupMemberList
      /\ Legacy(b)["OP_DzInfo"] = Exact
      /\ Legacy(b)["OP_DzSwitchInfo"] = Exact
  BY FunctionIs
    DEF ForMessages, ForVitals, ForZones, LegacyMessages, LegacyVitals, LegacyZones,
        ByBackend
<1>4. Shadows(Exact, MoreOf(b, "OP_DzSwitchInfo"),
             LiveMessageHandlers["OP_DzSwitchInfo"])
  BY LiveMessageSimple, MoreOfSome DEF Simple, Shadows, TwoLengths, Exact
<1> QED BY <1>1, <1>2, <1>3, <1>4, LiveMessageSimple, SimpleShadows

(* Whatever the family.                                                    *)
LEMMA EqlShadows ==
  ASSUME NEW op \in DOMAIN EqlHandlers, op \in DOMAIN Legacy("eql")
  PROVE  Shadows(Legacy("eql")[op], MoreOf("eql", op), EqlHandlers[op])
<1> DEFINE F == <<EqlSpawnHandlers, EqlPositionHandlers, EqlMessageHandlers,
                  EqlProgressHandlers, EqlCombatHandlers, EqlLifecycleHandlers,
                  EqlNamedHandlers, EqlGuildHandlers, EqlPlaceHandlers>>
<1>1. EqlHandlers = Merged(F)
  BY DEF EqlHandlers
<1>2. /\ F[1] = EqlSpawnHandlers /\ F[2] = EqlPositionHandlers
      /\ F[3] = EqlMessageHandlers /\ F[4] = EqlProgressHandlers
      /\ F[5] = EqlCombatHandlers /\ F[6] = EqlLifecycleHandlers
      /\ F[7] = EqlNamedHandlers /\ F[8] = EqlGuildHandlers
      /\ F[9] = EqlPlaceHandlers /\ DOMAIN F = 1 .. 9
  OBVIOUS
<1> HIDE DEF F
<1>3. PICK i \in DOMAIN F : op \in DOMAIN F[i] /\ Merged(F)[op] = F[i][op]
  BY <1>1, MergedFrom
<1>4. \A j \in 1 .. 9 : \A x \in DOMAIN F[j] \cap DOMAIN Legacy("eql") :
        Shadows(Legacy("eql")[x], MoreOf("eql", x), F[j][x])
  BY <1>2, EqlSpawnShadows, EqlPositionShadows, EqlMessageShadows, EqlProgressShadows,
     EqlCombatShadows, EqlLifecycleShadows, EqlNamedShadows, EqlGuildShadows,
     EqlPlaceShadows
<1> QED BY <1>1, <1>2, <1>3, <1>4

LEMMA LiveShadows ==
  ASSUME NEW b, b # "eql", NEW op \in DOMAIN LiveHandlers(b), op \in DOMAIN Legacy(b)
  PROVE  Shadows(Legacy(b)[op], MoreOf(b, op), LiveHandlers(b)[op])
<1> DEFINE points == IF b = "test" THEN TestZonePoints ELSE LiveZonePoints
           F == <<LiveSpawnHandlers, LiveCombatHandlers, LiveLifecycleHandlers,
                  LiveItemHandlers, LiveGuildHandlers, LiveMessageHandlers, points>>
<1>1. LiveHandlers(b) = Merged(F)
  BY DEF LiveHandlers
<1>2. /\ F[1] = LiveSpawnHandlers /\ F[2] = LiveCombatHandlers
      /\ F[3] = LiveLifecycleHandlers /\ F[4] = LiveItemHandlers
      /\ F[5] = LiveGuildHandlers /\ F[6] = LiveMessageHandlers
      /\ F[7] = points /\ DOMAIN F = 1 .. 7
  <2> HIDE DEF points
  <2> QED OBVIOUS
<1>3. DOMAIN points \cap DOMAIN Legacy(b) = {}
  <2>1. DOMAIN points = {"OP_SendZonePoints"}
    BY DEF LiveZonePoints, TestZonePoints
  <2>2. "OP_SendZonePoints" \in NoLiveFunction
    BY DEF NoLiveFunction
  <2> QED BY <2>1, <2>2, OthersHaveNone
<1> HIDE DEF F, points
<1>4. PICK i \in DOMAIN F : op \in DOMAIN F[i] /\ Merged(F)[op] = F[i][op]
  BY <1>1, MergedFrom
<1>5. \A j \in 1 .. 6 : \A x \in DOMAIN F[j] \cap DOMAIN Legacy(b) :
        Shadows(Legacy(b)[x], MoreOf(b, x), F[j][x])
  BY <1>2, LiveSpawnShadows, LiveCombatShadows, LiveLifecycleShadows, LiveItemShadows,
     LiveGuildShadows, LiveMessageShadows
<1>6. i \in 1 .. 6
  BY <1>2, <1>3, <1>4
<1> QED BY <1>1, <1>4, <1>5, <1>6

(* A packet, through the session and through the function of its opcode.   *)
LEMMA DecodeShadows ==
  ASSUME NEW op \in DOMAIN Legacy(backend), NEW dir, NEW p
  PROVE  LET d == Decode(op, dir, p).disposition
             ok == LegacyOk(backend, op, p)
         IN  /\ d = "Decoded" => ok \/ <<op, p.size>> \in SessionTakesMore(backend)
             /\ ok /\ d = "Malformed" =>
                  p.body = "odd" \/ <<op, p.size>> \in FunctionTakesMore(backend)
<1>1. /\ Ignored.disposition \notin {"Decoded", "Malformed"}
      /\ Unhandled.disposition \notin {"Decoded", "Malformed"}
  BY DEF Ignored, Unhandled, Outcome
<1> DEFINE d == Decode(op, dir, p).disposition
           q == Legacy(backend)[op]
           more == MoreOf(backend, op)
<1>2. SUFFICES /\ d = "Decoded" => Accepts(q, p) \/ p.size \in more.session
               /\ Accepts(q, p) /\ d = "Malformed" =>
                    p.body = "odd" \/ p.size \in more.function
  BY DEF LegacyOk, MoreOf
<1>3. ASSUME NEW h, Shadows(q, more, h), Decode(op, dir, p) = Handle(h, dir, p)
      PROVE  /\ d = "Decoded" => Accepts(q, p) \/ p.size \in more.session
             /\ Accepts(q, p) /\ d = "Malformed" =>
                  p.body = "odd" \/ p.size \in more.function
  <2> HIDE DEF q, more
  <2> QED BY <1>3, ShadowsAgree
<1>4. CASE d \notin {"Decoded", "Malformed"}
  BY <1>4
<1>5. CASE d \in {"Decoded", "Malformed"} /\ backend = "eql"
  <2>1. Decode(op, dir, p) = EqlDecode(op, dir, p)
    BY <1>5 DEF Decode
  <2>2. \/ EqlDecode(op, dir, p) = Ignored \/ EqlDecode(op, dir, p) = Unhandled
        \/ /\ op \in DOMAIN EqlHandlers
           /\ EqlDecode(op, dir, p) = Handle(EqlHandlers[op], dir, p)
    BY DEF EqlDecode
  <2>3. op \in DOMAIN EqlHandlers /\ Decode(op, dir, p) = Handle(EqlHandlers[op], dir, p)
    BY <1>1, <1>5, <2>1, <2>2
  <2>4. Shadows(q, more, EqlHandlers[op])
    BY <1>5, <2>3, EqlShadows
  <2> HIDE DEF d, q, more
  <2> QED BY <1>3, <2>3, <2>4
<1>6. CASE d \in {"Decoded", "Malformed"} /\ backend # "eql"
  <2>1. Decode(op, dir, p) = LiveDecode(backend, op, dir, p)
    BY <1>6 DEF Decode
  <2>2. \/ LiveDecode(backend, op, dir, p) = Ignored
        \/ LiveDecode(backend, op, dir, p) = Unhandled
        \/ /\ op \in DOMAIN LiveHandlers(backend)
           /\ LiveDecode(backend, op, dir, p) = Handle(LiveHandlers(backend)[op], dir, p)
    BY DEF LiveDecode
  <2>3. /\ op \in DOMAIN LiveHandlers(backend)
        /\ Decode(op, dir, p) = Handle(LiveHandlers(backend)[op], dir, p)
    BY <1>1, <1>6, <2>1, <2>2
  <2>4. Shadows(q, more, LiveHandlers(backend)[op])
    BY <1>6, <2>3, LiveShadows
  <2> HIDE DEF d, q, more
  <2> QED BY <1>3, <2>3, <2>4
<1> QED BY <1>4, <1>5, <1>6

-----------------------------------------------------------------------------
(* The calls                                                               *)

(* What a bridge keeps between and during its calls.                       *)
CountsInv ==
  /\ active \in Nat /\ newest \in Nat /\ newest <= active
  /\ call # NoCall => call.began \in Nat /\ newest <= call.began /\ call.began <= active

KeptInv ==
  /\ open \subseteq LootIds /\ IsSeq(loot_rows) /\ self_stats \in Nat
  /\ call.method # "flush" \/ batch # NoBatch => loot_rows = << >> /\ self_stats = 0
  /\ backend # "eql" => loot_rows = << >> /\ self_stats = 0

(* A call that has not returned.                                           *)
PendingInv ==
  batch = NoBatch =>
    /\ emitted = << >>
    /\ call.method \in {"decode", "decode_ucs"} => call.generation = call.began
    /\ call.method = "decode_ucs" => call.ucs.records \in Nat
    /\ call.method = "flush" =>
         /\ \A C \in SUBSET AnyCause : Shaped(call.events, C)
         /\ ToldRows(loot_rows) = NamesAt(call.events, Acquired(call.events))

(* A call that has.                                                        *)
ReturnedInv ==
  batch # NoBatch =>
    /\ call # NoCall
    /\ batch.generation \in Nat
    /\ call.began <= batch.generation /\ batch.generation <= active
    /\ HostEvents(batch) = emitted
    /\ \A i \in DOMAIN emitted : IsEvent(emitted[i])
    /\ ToldRows(batch.loot_rows) = NamesAt(emitted, Acquired(emitted))

BridgeInv ==
  /\ CountsInv /\ KeptInv /\ PendingInv /\ ReturnedInv
  /\ Shaped(emitted, Causes(Context))

LEMMA NothingTold ==
  /\ ToldRows(<< >>) = << >> /\ NamesAt(<< >>, Acquired(<< >>)) = << >>
  /\ \A C : Shaped(<< >>, C)
<1>1. IsSeq(<< >>) /\ \A i : ~ i \in 1 .. Len(<< >>)
  BY EmptyIsSeq
<1>2. \A P : NamesAt(<< >>, P) = << >>
  BY <1>1, NoNames
<1>3. \A C : Shaped(<< >>, C)
  BY <1>1 DEF Shaped, Calm
<1> QED BY <1>2, <1>3 DEF ToldRows

LEMMA NoneAre == NoCall.method = "none" /\ DOMAIN NoBatch = {"disposition"}
BY DEF NoCall, NoBatch

(* A call of the session begins with nothing told.                         *)
LEMMA SessionIsState ==
  ASSUME KeptInv
  PROVE  /\ IsState(Session) /\ Session.out = << >> /\ Session.open = open
         /\ Session.loot_rows = loot_rows /\ Session.self_stats = self_stats
         /\ loot_rows = << >> => Balanced(Session)
<1>1. /\ Session.out = << >> /\ Session.open = open
      /\ Session.loot_rows = loot_rows /\ Session.self_stats = self_stats
  BY DEF Session
<1>2. IsState(Session)
  BY <1>1, EmptyIsSeq DEF IsState, KeptInv, Session
<1>3. loot_rows = << >> => Balanced(Session)
  BY <1>1, NothingTold DEF Balanced
<1> QED BY <1>1, <1>2, <1>3

(* A packet, whatever becomes of it.                                       *)
LEMMA DecodeAtLeaves ==
  ASSUME NEW s, s = Session, IsState(s), s.out = << >>, Balanced(s),
         NEW d \in DecodeAt(call.op, call.dir, call.payload)
  PROVE  Leaves(backend, s, d.session, Causes(Context))
<1> DEFINE op == call.op
           p == call.payload
           o == IF op \in Ops THEN Decode(op, call.dir, p) ELSE Outcome("Unmapped", << >>)
<1>1. PICK t \in IF o.disposition = "Decoded"
                 THEN ApplySessionSemantics(Context, s, o.kinds) ELSE {s} :
        d = [disposition |-> o.disposition, session |-> t]
  BY DEF DecodeAt
<1>2. Context.backend = backend
  BY DEF Context
<1>3. d.session = t
  BY <1>1
<1>4. CASE o.disposition # "Decoded"
  <2>1. t = s
    BY <1>1, <1>4
  <2>2. Shaped(s.out, Causes(Context))
    BY NothingTold
  <2> QED BY <1>3, <2>1, <2>2 DEF Leaves, Still
<1>5. CASE o.disposition = "Decoded"
  <2>1. o = Decode(op, call.dir, p)
    BY <1>5 DEF Outcome
  <2> DEFINE q == o.kinds
  <2>2. Proper(q)
    BY <1>5, <2>1, DecodeProper
  <2>3. t \in ApplySessionSemantics(Context, s, q)
    BY <1>1, <1>5
  <2> HIDE DEF q, o, op, p
  <2>4. Leaves(Context.backend, s, t, Causes(Context))
    BY <2>2, <2>3, SemanticsLeave
  <2> QED BY <1>2, <1>3, <2>4
<1> QED BY <1>4, <1>5

LEMMA UcsLeaves ==
  ASSUME NEW s, s = Session, IsState(s), s.out = << >>, Balanced(s), s.loot_rows = << >>,
         NEW dir, NEW ucs, ucs.records \in Nat
  PROVE  Leaves(backend, s, DecodeUcs(dir, ucs).session, Causes(Context))
<1> DEFINE d == DecodeUcs(dir, ucs)
           t == d.session
           q == UcsEvents(ucs.records)
           n == 2 * ucs.records
<1>1. \E o \in {<< >>, q} : t = [s EXCEPT !.out = o]
  BY DEF DecodeUcs
<1>2. PICK o \in {<< >>, q} : t = [s EXCEPT !.out = o]
  BY <1>1
<1>3. n \in Nat /\ q = [i \in 1 .. n |-> [kind |-> IF i % 2 = 1 THEN "UcsRecord"
                                                ELSE "ChatMessage", id |-> i]]
  BY DEF UcsEvents
<1>4. \A i \in 1 .. n : q[i].kind \in {"UcsRecord", "ChatMessage"}
  BY <1>3
<1> HIDE DEF n, t
<1>5. IsSeq(q) /\ Len(q) = n /\ DOMAIN q = 1 .. n
  <2> HIDE DEF q
  <2>1. q = [i \in 1 .. n |-> q[i]]
    BY <1>3
  <2> QED BY <1>3, <2>1, SeqMade
<1> HIDE DEF q
<1>6. Shaped(q, Causes(Context))
  <2>1. {"UcsRecord", "ChatMessage"} \cap (WireKinds \cup {"SessionReset"} \cup AnyCause) = {}
    BY DEF WireKinds, AnyCause
  <2>2. Causes(Context) \subseteq AnyCause
    BY DEF Causes, AnyCause
  <2> QED BY <1>4, <1>5, <2>1, <2>2, TheseAreKinds DEF Shaped, Calm
<1>7. NamesAt(q, Acquired(q)) = << >>
  <2>1. \A i \in 1 .. Len(q) : i \notin Acquired(q)
    BY <1>4, <1>5 DEF Acquired
  <2> QED BY <1>5, <2>1, NoNames
<1>8. IsSeq(o) /\ Shaped(o, Causes(Context)) /\ NamesAt(o, Acquired(o)) = << >>
  BY <1>2, <1>5, <1>6, <1>7, NothingTold, EmptyIsSeq
<1>9. t = [out |-> o, open |-> s.open, loot_rows |-> s.loot_rows,
           self_stats |-> s.self_stats]
  BY <1>2 DEF IsState
<1>10. IsSeq(s.loot_rows)
  BY DEF IsState
<1>11. /\ IsState(t) /\ t.out = o /\ t.loot_rows = s.loot_rows
       /\ t.self_stats = s.self_stats
  BY <1>8, <1>9, <1>10, Retold
<1>12. Balanced(t)
  BY <1>8, <1>11, NothingTold DEF Balanced
<1> QED BY <1>8, <1>11, <1>12 DEF Leaves, Still, t

(* What a call returns, and what it leaves for the next.                   *)
LEMMA Returns ==
  ASSUME BridgeInv, UNCHANGED <<backend, active, call, newest>>, call # NoCall,
         NEW g \in Nat, call.began <= g, g <= active, NEW d,
         NEW events, Shaped(events, Causes(Context)),
         NEW s, IsSeq(s.loot_rows), s.open \subseteq LootIds,
         ToldRows(s.loot_rows) = NamesAt(events, Acquired(events)),
         backend # "eql" => s.loot_rows = << >> /\ s.self_stats = 0,
         Return(g, d, events, s)
  PROVE  BridgeInv' /\ batch'.disposition = d
<1>1. PICK fill \in Fills(KindsOf(events)) :
        /\ emitted' = Filled(events, fill)
        /\ batch' = Drained(TranslateEvents(g, d, Filled(events, fill)), s)
        /\ DrainCorrelations(s)
  BY DEF Return
<1> DEFINE e == Filled(events, fill)
           t == TranslateEvents(g, d, e)
           C == Causes(Context)
           rows == IF backend = "eql" THEN s.loot_rows ELSE << >>
           stats == IF backend = "eql" THEN s.self_stats ELSE 0
<1>2. C \in SUBSET AnyCause
  BY DEF Causes, AnyCause
<1> HIDE DEF C
<1>3. /\ Shaped(e, C) /\ IsSeq(e)
      /\ \A i \in DOMAIN e : IsEvent(e[i])
      /\ NamesAt(e, Acquired(e)) = NamesAt(events, Acquired(events))
  <2>1. Shaped(events, C)
    BY DEF C
  <2> QED BY <1>2, <2>1, FilledIsLike
<1> HIDE DEF e
<1>4. IsBatch(t, g, d)
  BY <1>3, TranslateHolds
<1>5. batch' = Drained(t, s) /\ emitted' = e
  BY <1>1 DEF e
<1> DEFINE b == [generation |-> g, disposition |-> d, events |-> t.events,
                 rows |-> t.rows, self_stats |-> stats, loot_rows |-> rows]
<1>6. batch' = b
  <2> DEFINE x == s.self_stats
             y == s.loot_rows
             ts == t.events
             tr == t.rows
  <2>1. CASE backend = "eql"
    <3>1. batch' = [t EXCEPT !.self_stats = x, !.loot_rows = y]
      BY <1>5, <2>1 DEF Drained
    <3>2. t = [generation |-> g, disposition |-> d, events |-> ts, rows |-> tr,
               self_stats |-> 0, loot_rows |-> << >>]
      BY <1>4 DEF IsBatch
    <3>3. rows = y /\ stats = x
      BY <2>1
    <3> HIDE DEF t, x, y, ts, tr, rows, stats
    <3>4. batch' = [generation |-> g, disposition |-> d, events |-> ts, rows |-> tr,
                    self_stats |-> x, loot_rows |-> y]
      BY <3>1, <3>2
    <3> QED BY <3>3, <3>4 DEF ts, tr
  <2>2. CASE backend # "eql"
    <3>1. batch' = t
      BY <1>5, <2>2 DEF Drained
    <3>2. rows = << >> /\ stats = 0
      BY <2>2
    <3> HIDE DEF t, rows, stats
    <3> QED BY <1>4, <3>1, <3>2 DEF IsBatch
  <2> QED BY <2>1, <2>2
<1>7. /\ batch'.generation = g /\ batch'.events = t.events /\ batch'.rows = t.rows
      /\ batch'.loot_rows = rows /\ "generation" \in DOMAIN batch'
      /\ batch'.disposition = d
  BY <1>6
<1>8. (batch # NoBatch)'
  BY <1>7, NoneAre DEF NoBatch
<1>9. HostEvents(batch') = e
  BY <1>3, <1>7, RoundTrip
<1>10. ToldRows(rows) = NamesAt(e, Acquired(e))
  BY <1>3
<1>11. /\ open' = s.open /\ loot_rows' = << >> /\ self_stats' = 0
  BY <1>1 DEF DrainCorrelations
<1>12. CountsInv'
  BY DEF BridgeInv, CountsInv, NoCall
<1>13. KeptInv'
  BY <1>11, EmptyIsSeq DEF KeptInv
<1>14. PendingInv'
  BY <1>8 DEF PendingInv
<1>15. ReturnedInv'
  BY <1>3, <1>5, <1>7, <1>9, <1>10
    DEF ReturnedInv, NoCall
<1>16. Shaped(emitted, Causes(Context))'
  <2>1. Context' = Context
    BY DEF Context
  <2> QED BY <1>3, <1>5, <2>1 DEF C
<1> QED BY <1>7, <1>12, <1>13, <1>14, <1>15, <1>16 DEF BridgeInv

LEMMA InitSound == Init => BridgeInv
<1> SUFFICES ASSUME Init PROVE BridgeInv
  OBVIOUS
<1>1. /\ active = 1 /\ newest = 0 /\ call = NoCall /\ batch = NoBatch
      /\ emitted = << >> /\ open = {} /\ loot_rows = << >> /\ self_stats = 0
  BY DEF Init
<1>2. CountsInv
  BY <1>1 DEF CountsInv
<1>3. KeptInv
  BY <1>1, EmptyIsSeq DEF KeptInv
<1>4. PendingInv
  BY <1>1, NoneAre DEF PendingInv
<1>5. ReturnedInv
  BY <1>1 DEF ReturnedInv
<1> QED BY <1>1, <1>2, <1>3, <1>4, <1>5, NothingTold DEF BridgeInv

(* A call begins, before the session is asked.                             *)
LEMMA BeginsSound ==
  ASSUME BridgeInv, call = NoCall,
         NEW c, c.method \in {"decode", "decode_ucs"},
         c.generation = active, c.began = active,
         c.method = "decode_ucs" => c.ucs.records \in Nat,
         call' = c, batch = NoBatch,
         UNCHANGED <<backend, active, session, emitted, batch, newest>>
  PROVE  BridgeInv'
<1>1. UNCHANGED <<backend, active, open, loot_rows, self_stats, emitted, batch, newest>>
  BY DEF session
<1>2. loot_rows = << >> /\ self_stats = 0 /\ emitted = << >>
  BY NoneAre DEF BridgeInv, KeptInv, PendingInv
<1>3. CountsInv'
  BY <1>1 DEF BridgeInv, CountsInv
<1>4. KeptInv'
  BY <1>1, <1>2 DEF BridgeInv, KeptInv
<1>5. PendingInv'
  BY <1>1, <1>2 DEF PendingInv
<1>6. ReturnedInv'
  BY <1>1 DEF ReturnedInv
<1>7. Shaped(emitted, Causes(Context))'
  BY <1>1, <1>2, NothingTold
<1> QED BY <1>3, <1>4, <1>5, <1>6, <1>7 DEF BridgeInv

LEMMA DecodeBeginsSound ==
  ASSUME BridgeInv, NEW op, NEW dir, NEW p, DecodeBegins(op, dir, p)
  PROVE  BridgeInv'
<1> DEFINE c == [method |-> "decode", op |-> op, dir |-> dir, payload |-> p,
                 generation |-> active, began |-> active]
<1>1. c.method = "decode" /\ c.generation = active /\ c.began = active
  OBVIOUS
<1>2. call = NoCall /\ call' = c
      /\ UNCHANGED <<backend, active, session, emitted, batch, newest>>
  BY DEF DecodeBegins
<1>3. batch = NoBatch
  BY <1>2 DEF BridgeInv, ReturnedInv
<1> HIDE DEF c
<1> QED BY <1>1, <1>2, <1>3, BeginsSound

LEMMA UcsBeginsSound ==
  ASSUME BridgeInv, NEW dir, NEW ucs \in [short : BOOLEAN, records : 0 .. 2],
         UcsBegins(dir, ucs)
  PROVE  BridgeInv'
<1> DEFINE c == [method |-> "decode_ucs", dir |-> dir, ucs |-> ucs,
                 generation |-> active, began |-> active]
<1>1. /\ c.method = "decode_ucs" /\ c.generation = active /\ c.began = active
      /\ c.ucs.records \in Nat
  OBVIOUS
<1>2. call = NoCall /\ call' = c
      /\ UNCHANGED <<backend, active, session, emitted, batch, newest>>
  BY DEF UcsBegins
<1>3. batch = NoBatch
  BY <1>2 DEF BridgeInv, ReturnedInv
<1> HIDE DEF c
<1> QED BY <1>1, <1>2, <1>3, BeginsSound

LEMMA DecodeReturnsSound ==
  ASSUME BridgeInv, DecodeReturns
  PROVE  /\ BridgeInv'
         /\ \E d \in DecodeAt(call.op, call.dir, call.payload) :
              batch'.disposition = d.disposition
<1>1. /\ call.method = "decode" /\ batch = NoBatch
      /\ UNCHANGED <<backend, active, call, newest>>
  BY DEF DecodeReturns
<1>2. PICK d \in DecodeAt(call.op, call.dir, call.payload) :
        Return(call.generation, d.disposition, d.session.out, d.session)
  BY DEF DecodeReturns
<1>3. call # NoCall
  BY <1>1, NoneAre
<1>4. KeptInv /\ loot_rows = << >> /\ self_stats = 0
  BY <1>1 DEF BridgeInv, KeptInv
<1>5. PICK s : s = Session
  OBVIOUS
<1>6. /\ IsState(s) /\ s.out = << >> /\ Balanced(s)
      /\ s.loot_rows = << >> /\ s.self_stats = 0
  BY <1>4, <1>5, SessionIsState
<1> DEFINE t == d.session
<1>7. Leaves(backend, s, t, Causes(Context))
  BY <1>5, <1>6, DecodeAtLeaves
<1>8. /\ call.generation \in Nat /\ call.began <= call.generation
      /\ call.generation <= active
  BY <1>1, <1>3 DEF BridgeInv, CountsInv, PendingInv
<1> HIDE DEF t
<1>9. Return(call.generation, d.disposition, t.out, t)
  BY <1>2 DEF t
<1>10. /\ Shaped(t.out, Causes(Context))
       /\ IsSeq(t.loot_rows) /\ t.open \subseteq LootIds
       /\ ToldRows(t.loot_rows) = NamesAt(t.out, Acquired(t.out))
       /\ backend # "eql" => t.loot_rows = << >> /\ t.self_stats = 0
  BY <1>6, <1>7 DEF Leaves, Balanced, IsState, Still
<1> QED BY <1>1, <1>3, <1>8, <1>9, <1>10, Returns

LEMMA UcsReturnsSound == ASSUME BridgeInv, UcsReturns PROVE BridgeInv'
<1> DEFINE d == DecodeUcs(call.dir, call.ucs)
           t == d.session
<1>1. /\ call.method = "decode_ucs" /\ batch = NoBatch
      /\ UNCHANGED <<backend, active, call, newest>>
      /\ Return(call.generation, d.disposition, t.out, t)
  BY DEF UcsReturns
<1>2. call # NoCall
  BY <1>1, NoneAre
<1>3. KeptInv /\ loot_rows = << >> /\ self_stats = 0
  BY <1>1 DEF BridgeInv, KeptInv
<1>4. PICK s : s = Session
  OBVIOUS
<1>5. /\ IsState(s) /\ s.out = << >> /\ Balanced(s)
      /\ s.loot_rows = << >> /\ s.self_stats = 0
  BY <1>3, <1>4, SessionIsState
<1>6. Leaves(backend, s, t, Causes(Context))
  <2>1. call.ucs.records \in Nat
    BY <1>1 DEF BridgeInv, PendingInv
  <2> QED BY <1>4, <1>5, <2>1, UcsLeaves
<1>7. /\ call.generation \in Nat /\ call.began <= call.generation
      /\ call.generation <= active
  BY <1>1, <1>2 DEF BridgeInv, CountsInv, PendingInv
<1> HIDE DEF t
<1>8. /\ Shaped(t.out, Causes(Context))
      /\ IsSeq(t.loot_rows) /\ t.open \subseteq LootIds
      /\ ToldRows(t.loot_rows) = NamesAt(t.out, Acquired(t.out))
      /\ backend # "eql" => t.loot_rows = << >> /\ t.self_stats = 0
  BY <1>5, <1>6 DEF Leaves, Balanced, IsState, Still
<1> QED BY <1>1, <1>2, <1>7, <1>8, Returns

LEMMA FlushBeginsSound ==
  ASSUME BridgeInv, NEW reason, FlushBegins(reason)
  PROVE  BridgeInv'
<1>1. call = NoCall /\ UNCHANGED <<backend, active, emitted, batch, newest>>
  BY DEF FlushBegins
<1> DEFINE ctx == [backend |-> backend]
<1>2. PICK t \in FlushSession(ctx, Session, reason) :
        /\ SessionBecomes(t)
        /\ call' = [method |-> "flush", reason |-> reason, events |-> t.out,
                    began |-> active]
  BY DEF FlushBegins
<1>3. /\ KeptInv /\ loot_rows = << >> /\ self_stats = 0 /\ batch = NoBatch
      /\ emitted = << >>
  BY <1>1, NoneAre DEF BridgeInv, KeptInv, PendingInv, ReturnedInv
<1>4. PICK s : s = Session
  OBVIOUS
<1>5. /\ IsState(s) /\ s.out = << >> /\ Balanced(s)
      /\ s.loot_rows = << >> /\ s.self_stats = 0
  BY <1>3, <1>4, SessionIsState
<1>6. ctx.backend = backend
  OBVIOUS
<1> HIDE DEF ctx
<1>7. ASSUME NEW C \in SUBSET AnyCause PROVE Leaves(backend, s, t, C)
  <2>1. Leaves(ctx.backend, s, t, C)
    BY <1>2, <1>4, <1>5, FlushLeaves
  <2> QED BY <1>6, <2>1
<1>8. /\ IsState(t) /\ Balanced(t)
      /\ backend # "eql" => t.loot_rows = << >> /\ t.self_stats = 0
      /\ \A C \in SUBSET AnyCause : Shaped(t.out, C)
  <2>1. \A C \in SUBSET AnyCause :
          IsState(t) /\ Balanced(t) /\ Shaped(t.out, C) /\ (backend # "eql" => Still(s, t))
    BY <1>7 DEF Leaves
  <2>2. {} \in SUBSET AnyCause
    OBVIOUS
  <2> QED BY <1>5, <2>1, <2>2 DEF Still
<1>9. /\ open' = t.open /\ loot_rows' = t.loot_rows /\ self_stats' = t.self_stats
      /\ call'.method = "flush" /\ call'.events = t.out /\ call'.began = active
  BY <1>2 DEF SessionBecomes
<1>10. CountsInv'
  BY <1>1, <1>9 DEF BridgeInv, CountsInv
<1>11. KeptInv'
  BY <1>1, <1>3, <1>8, <1>9 DEF KeptInv, IsState
<1>12. PendingInv'
  BY <1>1, <1>3, <1>8, <1>9 DEF PendingInv, Balanced
<1>13. ReturnedInv'
  BY <1>1, <1>3 DEF ReturnedInv
<1>14. Shaped(emitted, Causes(Context))'
  BY <1>1, <1>3, NothingTold
<1> QED BY <1>10, <1>11, <1>12, <1>13, <1>14 DEF BridgeInv

LEMMA FlushReturnsSound == ASSUME BridgeInv, FlushReturns PROVE BridgeInv'
<1> DEFINE d == IF call.events = << >> THEN "Ignored" ELSE "Decoded"
<1>1. /\ call.method = "flush" /\ batch = NoBatch
      /\ UNCHANGED <<backend, active, call, newest>>
      /\ Return(active, d, call.events, Session)
  BY DEF FlushReturns
<1> HIDE DEF d
<1>2. call # NoCall
  BY <1>1, NoneAre
<1>3. KeptInv
  BY DEF BridgeInv
<1>4. PICK s : s = Session
  OBVIOUS
<1>5. IsState(s) /\ s.loot_rows = loot_rows /\ s.self_stats = self_stats
  BY <1>3, <1>4, SessionIsState
<1>6. /\ IsSeq(s.loot_rows) /\ s.open \subseteq LootIds
      /\ backend # "eql" => s.loot_rows = << >> /\ s.self_stats = 0
  BY <1>3, <1>5 DEF IsState, KeptInv
<1>7. /\ Shaped(call.events, Causes(Context))
      /\ ToldRows(s.loot_rows) = NamesAt(call.events, Acquired(call.events))
  <2>1. Causes(Context) \in SUBSET AnyCause
    BY DEF Causes, AnyCause
  <2> QED BY <1>1, <1>5, <2>1 DEF BridgeInv, PendingInv
<1>8. active \in Nat /\ call.began <= active /\ active <= active
  BY <1>2 DEF BridgeInv, CountsInv
<1> QED BY <1>1, <1>2, <1>4, <1>6, <1>7, <1>8, Returns

LEMMA RejectedSound ==
  ASSUME BridgeInv, NEW method, Rejected(method)
  PROVE  BridgeInv'
<1> DEFINE t == TranslateEvents(active, "Malformed", << >>)
<1>1. /\ call = NoCall
      /\ call' = [method |-> method, began |-> active, unknown |-> TRUE]
      /\ emitted' = << >> /\ batch' = t
      /\ UNCHANGED <<backend, active, open, loot_rows, self_stats, newest>>
  BY DEF Rejected, session
<1>2. IsBatch(t, active, "Malformed")
  BY EmptyIsSeq, TranslateHolds
<1>3. HostEvents(t) = << >>
  <2>1. IsSeq(<< >>) /\ \A i \in DOMAIN << >> : IsEvent(<< >>[i])
    BY EmptyIsSeq
  <2> QED BY <2>1, RoundTrip
<1> HIDE DEF t
<1>4. t.generation = active /\ t.loot_rows = << >> /\ t # NoBatch
  <2>1. "generation" \in DOMAIN t
    BY <1>2 DEF IsBatch
  <2>2. t # NoBatch
    BY <2>1, NoneAre
  <2> QED BY <1>2, <2>2 DEF IsBatch
<1>5. call'.began = active /\ call' # NoCall
  <2>1. "began" \in DOMAIN call'
    BY <1>1
  <2>2. "began" \notin DOMAIN NoCall
    BY DEF NoCall
  <2> QED BY <1>1, <2>1, <2>2
<1>6. CountsInv'
  BY <1>1, <1>5 DEF BridgeInv, CountsInv
<1>7. KeptInv'
  BY <1>1, NoneAre DEF BridgeInv, KeptInv
<1>8. PendingInv'
  BY <1>1, <1>4 DEF PendingInv
<1>9. ReturnedInv'
  BY <1>1, <1>3, <1>4, <1>5, NothingTold, EmptyIsSeq DEF ReturnedInv, BridgeInv, CountsInv
<1>10. Shaped(emitted, Causes(Context))'
  BY <1>1, NothingTold
<1> QED BY <1>6, <1>7, <1>8, <1>9, <1>10 DEF BridgeInv

LEMMA HostTakesSound == ASSUME BridgeInv, HostTakes PROVE BridgeInv'
<1>1. /\ batch # NoBatch /\ newest' = batch.generation
      /\ call' = NoCall /\ emitted' = << >> /\ batch' = NoBatch
      /\ UNCHANGED <<backend, active, open, loot_rows, self_stats>>
  BY DEF HostTakes, session
<1>2. CountsInv'
  BY <1>1 DEF BridgeInv, CountsInv, ReturnedInv
<1>3. KeptInv'
  BY <1>1 DEF BridgeInv, KeptInv
<1>4. PendingInv'
  BY <1>1, NoneAre DEF PendingInv
<1>5. ReturnedInv'
  BY <1>1 DEF ReturnedInv
<1>6. Shaped(emitted, Causes(Context))'
  BY <1>1, NothingTold
<1> QED BY <1>2, <1>3, <1>4, <1>5, <1>6 DEF BridgeInv

LEMMA ReloadSound == ASSUME BridgeInv, Reload PROVE BridgeInv'
<1>1. active' = active + 1
      /\ UNCHANGED <<backend, open, loot_rows, self_stats, call, emitted, batch, newest>>
  BY DEF Reload, session
<1>2. CountsInv'
  BY <1>1 DEF BridgeInv, CountsInv
<1>3. KeptInv'
  BY <1>1 DEF BridgeInv, KeptInv
<1>4. PendingInv'
  BY <1>1 DEF BridgeInv, PendingInv
<1>5. ReturnedInv'
  BY <1>1 DEF BridgeInv, CountsInv, ReturnedInv
<1>6. Context' = Context
  BY <1>1 DEF Context
<1>7. Shaped(emitted, Causes(Context))'
  BY <1>1, <1>6 DEF BridgeInv
<1> QED BY <1>2, <1>3, <1>4, <1>5, <1>7 DEF BridgeInv

LEMMA StutterSound == ASSUME BridgeInv, UNCHANGED vars PROVE BridgeInv'
<1>1. UNCHANGED <<backend, active, open, loot_rows, self_stats, call, emitted, batch, newest>>
  BY DEF vars, session
<1>2. CountsInv' /\ KeptInv' /\ PendingInv' /\ ReturnedInv'
  BY <1>1 DEF BridgeInv, CountsInv, KeptInv, PendingInv, ReturnedInv
<1>3. Shaped(emitted, Causes(Context))'
  BY <1>1 DEF BridgeInv, Context
<1> QED BY <1>2, <1>3 DEF BridgeInv

-----------------------------------------------------------------------------
(* What a bridge keeps between the calls of its host, and while another    *)
(* thread replaces the catalog in the middle of one.                       *)
THEOREM BridgeStaysSound == Spec => []BridgeInv
<1>1. ASSUME BridgeInv, Next PROVE BridgeInv'
  <2>1. CASE \E op \in Ops \cup {Unnamed}, dir \in Directions :
               \E p \in Shapes(op) : DecodeBegins(op, dir, p)
    BY <1>1, <2>1, DecodeBeginsSound
  <2>2. CASE \E dir \in Directions, ucs \in [short: BOOLEAN, records: 0 .. 2] :
               UcsBegins(dir, ucs)
    BY <1>1, <2>2, UcsBeginsSound
  <2>3. CASE \E reason \in FlushReasons : FlushBegins(reason)
    BY <1>1, <2>3, FlushBeginsSound
  <2>4. CASE \E method \in {"decode", "decode_ucs", "flush"} : Rejected(method)
    BY <1>1, <2>4, RejectedSound
  <2>5. CASE DecodeReturns \/ UcsReturns \/ FlushReturns
    BY <1>1, <2>5, DecodeReturnsSound, UcsReturnsSound, FlushReturnsSound
  <2>6. CASE HostTakes \/ Reload
    BY <1>1, <2>6, HostTakesSound, ReloadSound
  <2> QED BY <1>1, <2>1, <2>2, <2>3, <2>4, <2>5, <2>6 DEF Next
<1>2. BridgeInv /\ [Next]_vars => BridgeInv'
  BY <1>1, StutterSound
<1> QED BY <1>2, InitSound, PTL DEF Spec

(* HostReadsWhatTheSessionEmitted: translate_events loses nothing of any   *)
(* sequence of events, whichever optional fields they have.                *)
THEOREM HostReadsEvents == Spec => []HostReadsWhatTheSessionEmitted
<1>1. BridgeInv => HostReadsWhatTheSessionEmitted
  BY DEF BridgeInv, ReturnedInv, HostReadsWhatTheSessionEmitted, Returned, IsEvent
<1> QED BY <1>1, BridgeStaysSound, PTL

(* RowsLeaveWithTheirEvents: drain_correlations takes every row in the     *)
(* batch of the call that made it, next to its event.                      *)
THEOREM RowsLeave == Spec => []RowsLeaveWithTheirEvents
<1>1. BridgeInv => RowsLeaveWithTheirEvents
  BY NoneAre DEF BridgeInv, KeptInv, ReturnedInv, RowsLeaveWithTheirEvents, Returned,
                 Acquired
<1> QED BY <1>1, BridgeStaysSound, PTL

(* ResetAnnouncedBeforeItsCause: reset_correlations, the marker, the cause *)
(* of the reset and the player's snapshot leave in this order, whatever    *)
(* was open and whatever else the packet decoded to.                       *)
THEOREM ResetIsAnnounced == Spec => []ResetAnnouncedBeforeItsCause
<1>1. BridgeInv => ResetAnnouncedBeforeItsCause
  <2> SUFFICES ASSUME BridgeInv PROVE ResetAnnouncedBeforeItsCause
    OBVIOUS
  <2> DEFINE q == emitted
             kinds == [i \in DOMAIN q |-> q[i].kind]
             resets == {i \in DOMAIN kinds : kinds[i] = "SessionReset"}
             C == Causes(Context)
  <2>1. C \in SUBSET AnyCause /\ Shaped(q, C)
    BY DEF Causes, AnyCause, BridgeInv
  <2>2. /\ \A k \in {"EnterWorld", "PlayerProfile"} : k \in C
        /\ backend # "eql" /\ call.dir = "S2C" => "ZoneTransition" \in C
    BY DEF Causes, Resets, Context
  <2> HIDE DEF C
  <2>3. DOMAIN q = 1 .. Len(q)
    BY <2>1, SeqLen DEF Shaped
  <2>4. DOMAIN kinds = 1 .. Len(q) /\ \A i \in 1 .. Len(q) : kinds[i] = q[i].kind
    BY <2>3
  <2>5. /\ \A i \in 1 .. Len(q) : q[i].kind \notin WireKinds
        /\ \A i, j \in 1 .. Len(q) :
             q[i].kind = "SessionReset" /\ q[j].kind = "SessionReset" => i = j
        /\ \A i, j \in 1 .. Len(q) :
             q[i].kind = "SessionReset" /\ j # i => (j < i <=> q[j].kind \in ClosingKinds)
        /\ \A j \in 1 .. Len(q) :
             q[j].kind \in C => j > 1 /\ q[j - 1].kind = "SessionReset"
    BY <2>1, ShapedIsOrdered
  <2>6. KindsOf(q) \cap WireKinds = {}
    BY <2>3, <2>5 DEF KindsOf
  <2>7. Cardinality(resets) <= 1
    <3>1. ASSUME NEW i \in resets PROVE resets = {i}
      BY <2>4, <2>5, <3>1
    <3> HIDE DEF resets
    <3>2. CASE resets = {}
      <4>1. Cardinality({}) = 0
        BY FS_EmptySet
      <4> QED BY <3>2, <4>1
    <3>3. ASSUME NEW i \in resets PROVE Cardinality(resets) <= 1
      <4>1. Cardinality({i}) = 1
        BY FS_Singleton
      <4> QED BY <3>1, <3>3, <4>1
    <3> QED BY <3>2, <3>3
  <2>8. ASSUME NEW i \in resets, NEW j \in DOMAIN kinds \ {i}
        PROVE  j < i <=> kinds[j] \in ClosingKinds
    BY <2>4, <2>5
  <2>9. ASSUME NEW j \in DOMAIN kinds, kinds[j] \in C
        PROVE  j > 1 /\ kinds[j - 1] = "SessionReset"
    <3>1. j \in 1 .. Len(q) /\ q[j].kind \in C /\ Len(q) \in Nat
      BY <2>1, <2>4, <2>9, SeqLen DEF Shaped
    <3>2. j > 1 /\ q[j - 1].kind = "SessionReset" /\ j - 1 \in 1 .. Len(q)
      BY <2>5, <3>1
    <3> QED BY <2>4, <3>2
  <2> HIDE DEF kinds
  <2>10. \A j \in DOMAIN kinds :
           \/ kinds[j] \in {"EnterWorld", "PlayerProfile"}
           \/ kinds[j] = "ZoneTransition" /\ backend # "eql" /\ call.dir = "S2C"
           => kinds[j] \in C
    BY <2>2
  <2> QED BY <2>6, <2>7, <2>8, <2>9, <2>10 DEF ResetAnnouncedBeforeItsCause, kinds
<1> QED BY <1>1, BridgeStaysSound, PTL

(* BatchNamesAGenerationOfItsCall: any number of reloads between the steps *)
(* of any number of calls leave every batch with a generation that was the *)
(* active one in its call, and the host never sees them go back.           *)
THEOREM BatchNamesGeneration == Spec => []BatchNamesAGenerationOfItsCall
<1>1. BridgeInv => BatchNamesAGenerationOfItsCall
  BY DEF BridgeInv, CountsInv, ReturnedInv, BatchNamesAGenerationOfItsCall, Returned
<1> QED BY <1>1, BridgeStaysSound, PTL
(* A batch answers the packet of its call, and no other call has an opcode *)
(* the host named.                                                         *)
Answers(op, dir, p, disposition) ==
  disposition = IF op \in Ops THEN Decode(op, dir, p).disposition ELSE "Unmapped"

AnsweredInv ==
  "op" \in DOMAIN call =>
    /\ call.method = "decode"
    /\ batch # NoBatch => Answers(call.op, call.dir, call.payload, batch.disposition)

LEMMA AnsweredPreserved == BridgeInv /\ AnsweredInv /\ [Next]_vars => AnsweredInv'
<1> SUFFICES ASSUME BridgeInv, AnsweredInv, [Next]_vars PROVE AnsweredInv'
  OBVIOUS
<1>1. ASSUME NEW op, NEW dir, NEW p, DecodeBegins(op, dir, p) PROVE AnsweredInv'
  <2>1. call = NoCall /\ call'.method = "decode" /\ batch' = batch
    BY <1>1 DEF DecodeBegins
  <2>2. batch' = NoBatch
    BY <2>1 DEF BridgeInv, ReturnedInv
  <2> QED BY <2>1, <2>2 DEF AnsweredInv
<1>2. CASE DecodeReturns
  <2>1. call' = call /\ backend' = backend
    BY <1>2 DEF DecodeReturns
  <2>2. PICK d \in DecodeAt(call.op, call.dir, call.payload) :
          batch'.disposition = d.disposition
    BY <1>2, DecodeReturnsSound
  <2>3. Answers(call.op, call.dir, call.payload, d.disposition)
    BY DEF DecodeAt, Answers, Outcome
  <2>4. Answers(call.op, call.dir, call.payload, batch.disposition)'
    BY <2>1, <2>2, <2>3 DEF Answers, Decode
  <2> QED BY <1>2, <2>1, <2>4 DEF AnsweredInv
<1>3. ASSUME NEW dir, NEW ucs, UcsBegins(dir, ucs) PROVE AnsweredInv'
  BY <1>3 DEF UcsBegins, AnsweredInv
<1>4. CASE UcsReturns \/ FlushReturns
  <2>1. call' = call /\ call.method \in {"decode_ucs", "flush"}
    BY <1>4 DEF UcsReturns, FlushReturns
  <2> QED BY <2>1 DEF AnsweredInv
<1>5. ASSUME NEW reason, FlushBegins(reason) PROVE AnsweredInv'
  BY <1>5 DEF FlushBegins, AnsweredInv
<1>6. ASSUME NEW method, Rejected(method) PROVE AnsweredInv'
  BY <1>6 DEF Rejected, AnsweredInv
<1>7. CASE HostTakes
  BY <1>7 DEF HostTakes, NoCall, AnsweredInv
<1>8. CASE Reload \/ UNCHANGED vars
  <2>1. call' = call /\ batch' = batch /\ backend' = backend
    BY <1>8 DEF Reload, vars
  <2> QED BY <2>1 DEF AnsweredInv, Answers, Decode
<1> QED BY <1>1, <1>2, <1>3, <1>4, <1>5, <1>6, <1>7, <1>8 DEF Next

(* ShadowAgrees: a host that compares a session with the opcode-specific   *)
(* functions sees them agree on every packet of every opcode that has one, *)
(* but for the lengths named, whatever else the bridge is doing.           *)
THEOREM ShadowsAgreeWithTheSession == Spec => []ShadowAgrees
<1>1. Init => AnsweredInv
  BY DEF Init, NoCall, AnsweredInv
<1>2. AnsweredInv => ShadowAgrees
  <2> SUFFICES ASSUME AnsweredInv, Returned, "op" \in DOMAIN call,
                      NEW op, op = call.op, op \in DOMAIN Legacy(backend),
                      NEW p, p = call.payload
               PROVE  LET ok == LegacyOk(backend, op, p)
                      IN  /\ batch.disposition = "Decoded" =>
                               \/ ok
                               \/ <<op, p.size>> \in SessionTakesMore(backend)
                          /\ ok /\ batch.disposition = "Malformed" =>
                               \/ p.body = "odd"
                               \/ <<op, p.size>> \in FunctionTakesMore(backend)
    BY DEF ShadowAgrees
  <2>1. Answers(op, call.dir, p, batch.disposition)
    BY DEF AnsweredInv, Returned
  <2>2. \/ batch.disposition = Decode(op, call.dir, p).disposition
        \/ batch.disposition = "Unmapped"
    BY <2>1 DEF Answers
  <2> QED BY <2>2, DecodeShadows
<1> QED BY <1>1, <1>2, AnsweredPreserved, BridgeStaysSound, PTL DEF Spec
=============================================================================
