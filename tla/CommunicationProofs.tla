------------------------- MODULE CommunicationProofs -------------------------
(***************************************************************************)
(* Proofs about groups, guilds, dynamic zones and chat channels, for any   *)
(* number of slots, any names, rosters and payloads: the types, that the   *)
(* slots hold the peers that were told, that a peer who stays keeps the    *)
(* slot, that a complete guild roster lists everyone mentioned, that the   *)
(* host's copy is the session's; and that a line said in one channel is    *)
(* not shown as of another, nor a learned channel forgotten.               *)
(*                                                                         *)
(* A roster packet adds its names one after the other, and a chat payload  *)
(* is read record by record, which the model writes as recursive           *)
(* functions.  Iteration says that there is such a function, Induction     *)
(* reasons along it; both are about sets, so that no theorem with an       *)
(* operator for a parameter is needed.                                     *)
(***************************************************************************)
EXTENDS Communication, UcsChannels, FiniteSetTheorems, SequenceTheorems,
        WellFoundedInduction, TLAPS

Named     == Names \cup {""}
Listings  == UNION {[D -> Statuses] : D \in SUBSET Names}
GroupType == [id : Nat, slots : [Slots -> Named], complete : BOOLEAN]
GuildType == [id : Nat, members : Listings, complete : BOOLEAN, status : Listings]
ZoneType  == [state : {"none", "active", "inactive"}, complete : BOOLEAN,
              saw_info : BOOLEAN, saw_switch : BOOLEAN]
HostType  == [group_id : Nat, peers : SUBSET Names, members : Listings,
              dz : {"active", "inactive"}]
ToldType  == [peers : SUBSET Names, crowded : BOOLEAN, mentioned : SUBSET Names,
              count : 0 .. MaxStatus]

(* The type invariant.                                                     *)
TypeOK ==
  /\ player \in Named
  /\ group \in GroupType /\ guild \in GuildType /\ dz \in ZoneType
  /\ host \in HostType /\ told \in ToldType

-----------------------------------------------------------------------------
(* Induction and recursion                                                 *)

(* A set with zero, and with the successor of each number in it, has them  *)
(* all: a least number missing would have a predecessor.                   *)
LEMMA Induction ==
  ASSUME NEW S, 0 \in S, \A n \in Nat : n \in S => n + 1 \in S
  PROVE  Nat \subseteq S
<1> DEFINE Less == {p \in Nat \X Nat : p[1] < p[2]}
           Missing == Nat \ S
<1>1. IsWellFoundedOn(Less, Nat)
  BY NatLessThanWellFounded DEF OpToRel
<1>2. SUFFICES ASSUME Missing # {} PROVE FALSE
  OBVIOUS
<1>3. PICK n \in Missing : \A m \in Missing : ~(<<m, n>> \in Less)
  <2> HIDE DEF Less
  <2> QED BY <1>1, <1>2, WFMin
<1>4. n \in Nat /\ n # 0 /\ n - 1 \in Nat /\ (n - 1) + 1 = n
  OBVIOUS
<1>5. <<n - 1, n>> \in Less
  BY <1>4
<1>6. n - 1 \in S
  <2> HIDE DEF Less
  <2> QED BY <1>3, <1>4, <1>5
<1> QED BY <1>3, <1>4, <1>6

(* What each of L steps makes of a state, and a run of them from x.        *)
Steps(L, X) == [1 .. L -> [X -> X]]

Run(f, x, L, X, step) ==
  /\ f \in [0 .. L -> X]
  /\ f[0] = x
  /\ \A n \in 1 .. L : f[n] = step[n][f[n - 1]]

(* There is a run: each prefix of it is extended by one step.              *)
LEMMA Iteration ==
  ASSUME NEW X, NEW x \in X, NEW L \in Nat, NEW step \in Steps(L, X)
  PROVE  \E f : Run(f, x, L, X, step)
<1> DEFINE Is(n, f) == f[0] = x /\ \A k \in 1 .. n : f[k] = step[k][f[k - 1]]
           S == {n \in Nat : n <= L => \E f \in [0 .. n -> X] : Is(n, f)}
<1>1. 0 \in S
  <2>1. [k \in 0 .. 0 |-> x] \in [0 .. 0 -> X] /\ Is(0, [k \in 0 .. 0 |-> x])
    OBVIOUS
  <2> QED BY <2>1
<1>2. ASSUME NEW n \in Nat, n \in S PROVE n + 1 \in S
  <2> SUFFICES ASSUME n + 1 <= L PROVE \E f \in [0 .. n + 1 -> X] : Is(n + 1, f)
    OBVIOUS
  <2>1. PICK f \in [0 .. n -> X] : Is(n, f)
    BY <1>2
  <2> DEFINE g == [k \in 0 .. n + 1 |-> IF k = n + 1 THEN step[n + 1][f[n]] ELSE f[k]]
  <2>2. n + 1 \in 1 .. L /\ f[n] \in X
    OBVIOUS
  <2>3. step[n + 1] \in [X -> X]
    BY <2>2 DEF Steps
  <2>4. g \in [0 .. n + 1 -> X]
    BY <2>2, <2>3
  <2>5. g[0] = x
    BY <2>1
  <2>6. ASSUME NEW k \in 1 .. n + 1
        PROVE  g[k] = step[k][g[k - 1]]
    <3>1. CASE k = n + 1
      <4>1. n \in 0 .. n + 1 /\ n # n + 1 /\ k # 0 /\ k - 1 = n
        BY <3>1
      <4>2. g[n] = f[n]
        BY <4>1
      <4> QED BY <3>1, <4>1, <4>2
    <3>2. CASE k # n + 1
      <4>1. k \in 1 .. n /\ k \in 0 .. n /\ g[k] = f[k]
        BY <3>2
      <4>2. k - 1 \in 0 .. n /\ g[k - 1] = f[k - 1]
        BY <4>1
      <4> HIDE DEF g
      <4> QED BY <2>1, <4>1, <4>2
    <3> QED BY <3>1, <3>2
  <2> QED BY <2>4, <2>5, <2>6
<1>3. L \in S
  <2> HIDE DEF S
  <2> QED BY <1>1, <1>2, Induction
<1>4. PICK f \in [0 .. L -> X] : Is(L, f)
  BY <1>3
<1>5. Run(f, x, L, X, step)
  BY <1>4 DEF Run
<1> QED BY <1>5

-----------------------------------------------------------------------------
(* Slots                                                                   *)

(* No peer has two slots.                                                  *)
Distinct(g) == \A i, j \in Slots : g.slots[i] = g.slots[j] => i = j \/ g.slots[i] = ""

Full(g) == \A i \in Slots : g.slots[i] # ""

(* Whoever had a slot in g has the same one in h.                          *)
Kept(g, h) == \A i \in Slots : g.slots[i] # "" => h.slots[i] = g.slots[i]

(* The names of others, which can have a slot.                             *)
Others(names) == names \ {"", player}

(* h is g and those of the names that found a slot: all of them, unless    *)
(* there is no free slot left.                                             *)
Grown(g, h, names) ==
  /\ h \in GroupType /\ Distinct(h) /\ Kept(g, h)
  /\ Peers(h) \subseteq Peers(g) \cup Others(names)
  /\ Others(names) \subseteq Peers(h) \/ Full(h)

LEMMA FirstFree ==
  ASSUME NEW free \in SUBSET Slots, free # {}
  PROVE  \E i \in free : \A j \in free : i <= j
<1> DEFINE Less == {p \in Nat \X Nat : p[1] < p[2]}
<1>1. IsWellFoundedOn(Less, Nat)
  BY NatLessThanWellFounded DEF OpToRel
<1>2. free \subseteq Nat
  BY MaxPeersAssumption DEF Slots
<1>3. PICK i \in free : \A j \in free : ~(<<j, i>> \in Less)
  <2> HIDE DEF Less
  <2> QED BY <1>1, <1>2, WFMin
<1>4. \A j \in free : i <= j
  <2> SUFFICES ASSUME NEW j \in free PROVE i <= j
    OBVIOUS
  <2>1. i \in Nat /\ j \in Nat /\ <<j, i>> \notin Less
    BY <1>2, <1>3
  <2>2. ~(j < i)
    BY <2>1
  <2> QED BY <2>1, <2>2
<1> QED BY <1>4

LEMMA PeersType ==
  ASSUME NEW g \in GroupType
  PROVE  Peers(g) \subseteq Names
<1>1. \A i \in Slots : g.slots[i] \in Named
  BY DEF GroupType
<1> QED BY <1>1 DEF Peers, Named

LEMMA KeptPeers ==
  ASSUME NEW g, NEW h, Kept(g, h)
  PROVE  Peers(g) \subseteq Peers(h)
<1> SUFFICES ASSUME NEW i \in Slots, g.slots[i] # ""
             PROVE  g.slots[i] \in Peers(h)
  BY DEF Peers
<1>1. h.slots[i] = g.slots[i]
  BY DEF Kept
<1> QED BY <1>1 DEF Peers

LEMMA AddMemberType ==
  ASSUME NEW g \in GroupType, NEW name \in Named
  PROVE  AddMember(g, name) \in GroupType
<1> DEFINE free == {i \in Slots : g.slots[i] = ""}
           i == CHOOSE i \in free : \A j \in free : i <= j
<1>1. \/ AddMember(g, name) = g
      \/ AddMember(g, name) = [g EXCEPT !.slots[i] = name]
  BY DEF AddMember
<1> HIDE DEF i
<1> QED BY <1>1 DEF GroupType

LEMMA AddedMember ==
  ASSUME NEW g \in GroupType, Distinct(g), NEW name \in Named
  PROVE  Grown(g, AddMember(g, name), {name})
<1> DEFINE free == {i \in Slots : g.slots[i] = ""}
           h == AddMember(g, name)
<1>1. CASE name \in {"", player} \/ name \in Peers(g)
  <2>1. h = g
    BY <1>1 DEF AddMember
  <2>2. Others({name}) \subseteq Peers(g)
    BY <1>1 DEF Others
  <2> QED BY <2>1, <2>2 DEF Grown, Kept
<1>2. CASE free = {}
  <2>1. h = g
    BY <1>2 DEF AddMember
  <2>2. Full(g)
    BY <1>2 DEF Full
  <2> QED BY <2>1, <2>2 DEF Grown, Kept
<1>3. CASE ~(name \in {"", player} \/ name \in Peers(g)) /\ free # {}
  <2> DEFINE i == CHOOSE i \in free : \A j \in free : i <= j
  <2>1. i \in free
    BY <1>3, FirstFree
  <2>2. h = [g EXCEPT !.slots[i] = name]
    BY <1>3 DEF AddMember
  <2> HIDE DEF i, h
  <2>3. i \in Slots /\ g.slots[i] = ""
    BY <2>1
  <2>4. h \in GroupType /\ h.slots = [g.slots EXCEPT ![i] = name]
    BY <2>2, <2>3 DEF GroupType
  <2>5. /\ h.slots[i] = name
        /\ \A j \in Slots : j # i => h.slots[j] = g.slots[j]
    BY <2>3, <2>4 DEF GroupType
  <2>6. \A j \in Slots : g.slots[j] # name
    BY <1>3 DEF Peers
  <2>7. Distinct(h)
    BY <2>5, <2>6 DEF Distinct
  <2>8. Kept(g, h)
    BY <2>3, <2>5 DEF Kept
  <2>9. Peers(h) \subseteq Peers(g) \cup {name}
    BY <2>5 DEF Peers
  <2>10. name \in Peers(h)
    BY <1>3, <2>3, <2>5 DEF Peers
  <2>11. Others({name}) = {name}
    BY <1>3 DEF Others
  <2> QED BY <2>4, <2>7, <2>8, <2>9, <2>10, <2>11 DEF Grown, h
<1> QED BY <1>1, <1>2, <1>3

LEMMA GrownOnce ==
  ASSUME NEW g, NEW h, NEW k, NEW names, NEW more,
         Grown(g, h, names), Grown(h, k, more)
  PROVE  Grown(g, k, names \cup more)
<1>1. Peers(h) \subseteq Peers(k)
  BY KeptPeers DEF Grown
<1>2. Kept(g, k)
  BY DEF Grown, Kept
<1>3. Full(h) => Full(k)
  BY DEF Grown, Kept, Full
<1>4. Others(names \cup more) = Others(names) \cup Others(more)
  BY DEF Others
<1> QED BY <1>1, <1>2, <1>3, <1>4 DEF Grown

(* All the names of a roster, in their order.                              *)
LEMMA AddedMembers ==
  ASSUME NEW g \in GroupType, Distinct(g), NEW names \in Seq(Named)
  PROVE  Grown(g, AddMembers(g, names), ToSet(names))
<1> DEFINE L == Len(names)
           step == [n \in 1 .. L |-> [h \in GroupType |-> AddMember(h, names[n])]]
           after == CHOOSE f : f = [n \in 0 .. L |->
                      IF n = 0 THEN g ELSE AddMember(f[n - 1], names[n])]
           First(n) == {names[k] : k \in 1 .. n}
           S == {n \in Nat : n <= L => Grown(g, after[n], First(n))}
<1>1. L \in Nat /\ \A n \in 1 .. L : names[n] \in Named
  OBVIOUS
<1>2. step \in Steps(L, GroupType)
  BY <1>1, AddMemberType DEF Steps
<1>3. after = [n \in 0 .. L |-> IF n = 0 THEN g ELSE AddMember(after[n - 1], names[n])]
  <2>1. PICK f : Run(f, g, L, GroupType, step)
    <3> HIDE DEF step, L
    <3> QED BY <1>1, <1>2, Iteration
  <2>2. \A n \in 1 .. L : n - 1 \in 0 .. L
    BY <1>1
  <2>3. \A n \in 1 .. L : f[n] = AddMember(f[n - 1], names[n])
    BY <2>1, <2>2 DEF Run
  <2>4. \A n \in 0 .. L : n = 0 \/ n \in 1 .. L
    BY <1>1
  <2>5. f = [n \in 0 .. L |-> IF n = 0 THEN g ELSE AddMember(f[n - 1], names[n])]
    BY <2>1, <2>3, <2>4 DEF Run
  <2> QED BY <2>5
<1> HIDE DEF after, step
<1>4. after[0] = g /\ \A n \in 1 .. L : after[n] = AddMember(after[n - 1], names[n])
  BY <1>1, <1>3
<1>5. 0 \in S
  <2>1. Grown(g, g, First(0))
    BY DEF Grown, Kept, Others
  <2> QED BY <1>4, <2>1
<1>6. ASSUME NEW n \in Nat, n \in S PROVE n + 1 \in S
  <2> SUFFICES ASSUME n + 1 <= L PROVE Grown(g, after[n + 1], First(n + 1))
    OBVIOUS
  <2>1. n + 1 \in 1 .. L /\ (n + 1) - 1 = n /\ n <= L
    BY <1>1
  <2>2. after[n + 1] = AddMember(after[n], names[n + 1])
    BY <1>4, <2>1
  <2>3. Grown(g, after[n], First(n))
    BY <1>6, <2>1
  <2>4. Grown(after[n], after[n + 1], {names[n + 1]})
    <3>1. after[n] \in GroupType /\ Distinct(after[n])
      BY <2>3 DEF Grown
    <3>2. names[n + 1] \in Named
      BY <1>1, <2>1
    <3> QED BY <2>2, <3>1, <3>2, AddedMember
  <2>5. First(n) \cup {names[n + 1]} = First(n + 1)
    <3>1. 1 .. (n + 1) = (1 .. n) \cup {n + 1}
      OBVIOUS
    <3> QED BY <3>1
  <2> HIDE DEF First
  <2> QED BY <2>3, <2>4, <2>5, GrownOnce
<1>7. L \in S
  <2> HIDE DEF S
  <2> QED BY <1>1, <1>5, <1>6, Induction
<1>8. First(L) = ToSet(names)
  BY DEF ToSet
<1>9. AddMembers(g, names) = after[L]
  BY DEF AddMembers, after
<1>10. Grown(g, after[L], First(L))
  BY <1>1, <1>7
<1> HIDE DEF First
<1> QED BY <1>8, <1>9, <1>10

(* As many peers as slots, when no slot is free.                           *)
LEMMA FullCount ==
  ASSUME NEW g \in GroupType, Distinct(g), Full(g)
  PROVE  IsFiniteSet(Peers(g)) /\ Cardinality(Peers(g)) = MaxPeers
<1>1. g.slots \in [Slots -> Peers(g)]
  <2>1. g.slots \in [Slots -> Named]
    BY DEF GroupType
  <2>2. \A i \in Slots : g.slots[i] \in Peers(g)
    BY DEF Full, Peers
  <2> QED BY <2>1, <2>2
<1>2. \A i, j \in Slots : g.slots[i] = g.slots[j] => i = j
  BY DEF Distinct, Full
<1>3. \A p \in Peers(g) : \E i \in Slots : g.slots[i] = p
  BY DEF Peers
<1>4. ExistsBijection(Slots, Peers(g))
  BY <1>1, <1>2, <1>3
     DEF ExistsBijection, Bijection, Injection, Surjection, IsInjective
<1>5. IsFiniteSet(Slots) /\ Cardinality(Slots) = MaxPeers
  <2>1. IsFiniteSet(1 .. MaxPeers)
        /\ Cardinality(1 .. MaxPeers) = IF 1 > MaxPeers THEN 0 ELSE MaxPeers - 1 + 1
    BY MaxPeersAssumption, FS_Interval
  <2> QED BY <2>1, MaxPeersAssumption DEF Slots
<1> QED BY <1>4, <1>5, FS_Bijection

LEMMA NoFewer ==
  \A n \in Nat : MaxPeers <= n => n > MaxPeers \/ n = MaxPeers
  BY MaxPeersAssumption

(* What a set of peers is after more were said: the slots have them all,   *)
(* or there were more than fit.                                            *)
LEMMA SaidPeers ==
  ASSUME NEW g \in GroupType, NEW h, NEW names, Grown(g, h, names),
         NEW said, IsFiniteSet(said), said = Peers(g) \cup Others(names)
  PROVE  Peers(h) \subseteq said /\ (Cardinality(said) > MaxPeers \/ Peers(h) = said)
<1>1. Peers(h) \subseteq said /\ Peers(g) \subseteq Peers(h)
  BY KeptPeers DEF Grown
<1>2. CASE Others(names) \subseteq Peers(h)
  BY <1>1, <1>2
<1>3. CASE Full(h)
  <2>1. IsFiniteSet(Peers(h)) /\ Cardinality(Peers(h)) = MaxPeers
    BY <1>3, FullCount DEF Grown
  <2>2. Cardinality(said) \in Nat
    BY FS_CardinalityType
  <2>3. /\ Cardinality(Peers(h)) <= Cardinality(said)
        /\ Cardinality(said) = Cardinality(Peers(h)) => said = Peers(h)
    BY <1>1, FS_Subset
  <2>4. Cardinality(said) > MaxPeers \/ Cardinality(said) = Cardinality(Peers(h))
    <3>1. MaxPeers <= Cardinality(said)
      BY <2>1, <2>3
    <3> QED BY <2>1, <2>2, <3>1, NoFewer, Zenon
  <2>5. Cardinality(said) > MaxPeers \/ Peers(h) = said
    BY <2>3, <2>4
  <2> QED BY <1>1, <2>5
<1> QED BY <1>2, <1>3 DEF Grown

LEMMA RosterNames ==
  ASSUME NEW names \in Rosters
  PROVE  /\ names \in Seq(Named)
         /\ IsFiniteSet(ToSet(names)) /\ ToSet(names) \subseteq Named
<1>1. names \in Seq(Named)
  BY RostersAssumption DEF Named
<1>2. ToSet(names) \subseteq Named
  BY <1>1 DEF ToSet
<1>3. IsFiniteSet(DOMAIN names)
  <2>1. DOMAIN names = 1 .. Len(names) /\ Len(names) \in Nat
    BY <1>1
  <2> QED BY <2>1, FS_Interval
<1>4. names \in Surjection(DOMAIN names, ToSet(names))
  <2>1. names \in [DOMAIN names -> ToSet(names)]
    BY <1>1 DEF ToSet
  <2> QED BY <2>1 DEF ToSet, Surjection
<1>5. IsFiniteSet(ToSet(names))
  BY <1>3, <1>4, FS_Surjection
<1> QED BY <1>1, <1>2, <1>5

(* A complete roster keeps the slots of those it lists.                    *)
LEMMA RemovedOthers ==
  ASSUME NEW g \in GroupType, Distinct(g), NEW names
  PROVE  LET h == RemoveOthers(g, names)
         IN  /\ h \in GroupType /\ Distinct(h)
             /\ Peers(h) = Peers(g) \cap names
             /\ \A i \in Slots : h.slots[i] = IF g.slots[i] \in names THEN g.slots[i] ELSE ""
<1> DEFINE h == RemoveOthers(g, names)
<1>1. /\ h \in GroupType
      /\ \A i \in Slots : h.slots[i] = IF g.slots[i] \in names THEN g.slots[i] ELSE ""
  BY DEF RemoveOthers, GroupType, Named
<1> HIDE DEF h
<1>2. Distinct(h)
  BY <1>1 DEF Distinct
<1>3. Peers(h) = Peers(g) \cap names
  BY <1>1 DEF Peers
<1> QED BY <1>1, <1>2, <1>3 DEF h

-----------------------------------------------------------------------------
(* Types                                                                   *)

LEMMA EmptyListing == <<>> \in Listings /\ DOMAIN <<>> = {}
<1>1. <<>> = [n \in {} |-> 1]
  OBVIOUS
<1> QED BY <1>1 DEF Listings

LEMMA Overridden ==
  ASSUME NEW f \in Listings, NEW g \in Listings
  PROVE  Override(f, g) \in Listings /\ DOMAIN Override(f, g) = DOMAIN f \cup DOMAIN g
<1>1. PICK D \in SUBSET Names : f \in [D -> Statuses]
  BY DEF Listings
<1>2. PICK E \in SUBSET Names : g \in [E -> Statuses]
  BY DEF Listings
<1>3. Override(f, g) \in [D \cup E -> Statuses] /\ D \cup E \in SUBSET Names
  BY <1>1, <1>2 DEF Override
<1> QED BY <1>1, <1>2, <1>3 DEF Listings, Override

LEMMA Listed ==
  ASSUME NEW names \in SUBSET Names, NEW n \in Statuses
  PROVE  At(names, n) \in Listings /\ DOMAIN At(names, n) = names
<1>1. At(names, n) \in [names -> Statuses]
  BY DEF At
<1> QED BY <1>1 DEF Listings

LEMMA NextStatus ==
  ASSUME NEW n \in 0 .. MaxStatus, n < MaxStatus
  PROVE  n + 1 \in Statuses /\ n + 1 \in 0 .. MaxStatus
  BY MaxStatusAssumption DEF Statuses

LEMMA EmptyGroup == NoGroup \in GroupType /\ Distinct(NoGroup) /\ Peers(NoGroup) = {}
<1>1. NoGroup \in GroupType /\ \A i \in Slots : NoGroup.slots[i] = ""
  BY DEF NoGroup, GroupType, Named
<1> QED BY <1>1 DEF Distinct, Peers

LEMMA EmptyGuild == NoGuild \in GuildType
  BY EmptyListing DEF NoGuild, GuildType

LEMMA SayPeersType ==
  ASSUME TypeOK, NEW peers \in SUBSET Names, NEW crowded \in BOOLEAN
  PROVE  LET t == SayPeers(peers, crowded)
         IN  /\ t \in ToldType /\ t.peers = peers
             /\ t.crowded = (crowded \/ Cardinality(peers) > MaxPeers)
             /\ t.mentioned = told.mentioned
<1> DEFINE more == crowded \/ Cardinality(peers) > MaxPeers
<1>1. more \in BOOLEAN
  OBVIOUS
<1>2. SayPeers(peers, crowded) = [told EXCEPT !.peers = peers, !.crowded = more]
  BY DEF SayPeers
<1> HIDE DEF more
<1>3. LET t == SayPeers(peers, crowded)
      IN  /\ t \in ToldType /\ t.peers = peers
          /\ t.crowded = more
          /\ t.mentioned = told.mentioned
  BY <1>1, <1>2 DEF TypeOK, ToldType
<1> QED BY <1>3 DEF more

-----------------------------------------------------------------------------
(* Peers                                                                   *)

(* The slots hold the peers told: inductive with the types, and with what  *)
(* makes a count of the peers told mean something.                         *)
PeersInv ==
  /\ TypeOK
  /\ IsFiniteSet(told.peers)
  /\ player \notin told.peers
  /\ PeersAreTold

(* What SlotsAreStable says of one step.                                   *)
SlotsStay ==
  \A i \in Slots :
    group.slots[i] # "" /\ group.slots[i] \in Peers(group') =>
      group'.slots[i] = group.slots[i]

LEMMA InitPeers == Init => PeersInv
<1> SUFFICES ASSUME Init PROVE PeersInv
  OBVIOUS
<1>1. TypeOK
  <2>1. dz \in ZoneType
    BY DEF Init, NoZone, ZoneType
  <2>2. host \in HostType
    BY EmptyListing DEF Init, HostType
  <2>3. told \in ToldType
    <3>1. 0 \in 0 .. MaxStatus
      BY MaxStatusAssumption
    <3> QED BY <3>1 DEF Init, NothingTold, ToldType
  <2> QED BY <2>1, <2>2, <2>3, EmptyGroup, EmptyGuild DEF Init, TypeOK, Named
<1>2. told.peers = {} /\ group = NoGroup
  BY DEF Init, NothingTold
<1> QED BY <1>1, <1>2, EmptyGroup, FS_EmptySet DEF PeersInv, PeersAreTold, Distinct

(* A step that changes neither the peers nor what was said of them.        *)
LEMMA PeersUnchanged ==
  ASSUME PeersInv, TypeOK', player' = player, group' = group,
         told'.peers = told.peers, told'.crowded = told.crowded
  PROVE  PeersInv' /\ SlotsStay
<1>1. Peers(group') = Peers(group)
  BY DEF Peers
<1>2. PeersAreTold'
  BY <1>1 DEF PeersInv, PeersAreTold
<1>3. IsFiniteSet(told'.peers) /\ player' \notin told'.peers
  BY DEF PeersInv
<1> QED BY <1>2, <1>3 DEF PeersInv, SlotsStay

(* The parts of the type that a step about groups leaves alone.            *)
LEMMA GroupStepType ==
  ASSUME TypeOK, group' \in GroupType, host' = host \/ host' = PublishGroup(host, group'),
         told' \in ToldType, UNCHANGED <<player, guild, dz>>
  PROVE  TypeOK'
<1>1. host' \in HostType
  BY PeersType DEF TypeOK, HostType, GroupType, PublishGroup
<1> QED BY <1>1 DEF TypeOK

LEMMA GroupRosterPeers ==
  ASSUME PeersInv, NEW id \in Groups \cup {0}, NEW names \in Rosters,
         NEW complete \in BOOLEAN, GroupRoster(id, names, complete)
  PROVE  PeersInv' /\ SlotsStay
<1> DEFINE kept == IF complete THEN RemoveOthers(group, ToSet(names)) ELSE group
           said == Others(ToSet(names))
           base == IF complete THEN {} ELSE told.peers
           crowd == IF complete THEN FALSE ELSE told.crowded
           h == AddMembers(kept, names)
<1>1. group \in GroupType /\ Distinct(group) /\ Peers(group) \subseteq told.peers
  BY DEF PeersInv, TypeOK, PeersAreTold, Distinct
<1>2. /\ names \in Seq(Named)
      /\ IsFiniteSet(ToSet(names)) /\ ToSet(names) \subseteq Named
  BY RosterNames
<1>3. /\ kept \in GroupType /\ Distinct(kept) /\ Peers(kept) \subseteq Peers(group)
      /\ complete => Peers(kept) \subseteq ToSet(names)
  <2>1. CASE complete
    <3> DEFINE g == RemoveOthers(group, ToSet(names))
    <3>1. g \in GroupType /\ Distinct(g) /\ Peers(g) = Peers(group) \cap ToSet(names)
      BY <1>1, RemovedOthers
    <3> HIDE DEF g
    <3> QED BY <2>1, <3>1 DEF g
  <2>2. CASE ~complete
    BY <2>2, <1>1
  <2> QED BY <2>1, <2>2
<1>4. Grown(kept, h, ToSet(names))
  <2> HIDE DEF kept
  <2> QED BY <1>2, <1>3, AddedMembers
<1>5. /\ group' \in GroupType /\ group'.slots = h.slots
      /\ UNCHANGED <<player, guild, dz>> /\ host' = PublishGroup(host, group')
  <2> HIDE DEF kept
  <2>1. id \in Nat
    BY IdsAssumption
  <2>2. group' = [h EXCEPT !.id = id, !.complete = complete /\ player # ""]
    BY DEF GroupRoster, ApplyRoster, kept
  <2>3. h \in GroupType
    BY <1>4 DEF Grown
  <2> HIDE DEF h
  <2> QED BY <2>1, <2>2, <2>3 DEF GroupType, GroupRoster
<1>6. told' = SayPeers(base \cup said, crowd)
  BY DEF GroupRoster, Others
<1>7. base \in SUBSET Names /\ said \in SUBSET Names /\ crowd \in BOOLEAN
      /\ IsFiniteSet(base) /\ IsFiniteSet(said) /\ player \notin base \cup said
  <2>1. told.peers \in SUBSET Names /\ told.crowded \in BOOLEAN
    BY DEF PeersInv, TypeOK, ToldType
  <2>2. IsFiniteSet(said)
    BY <1>2, FS_Subset DEF Others
  <2> QED BY <1>2, <2>1, <2>2, FS_EmptySet DEF PeersInv, Named, Others
<1>8. IsFiniteSet(base \cup said)
  BY <1>7, FS_Union
<1>9. /\ told' \in ToldType /\ told'.peers = base \cup said
      /\ told'.crowded = (crowd \/ Cardinality(base \cup said) > MaxPeers)
  <2> HIDE DEF base, said, crowd
  <2> QED BY <1>6, <1>7, SayPeersType DEF PeersInv
<1>10. TypeOK'
  BY <1>5, <1>9, GroupStepType DEF PeersInv
<1>11. Peers(group') = Peers(h) /\ Distinct(group')
  BY <1>4, <1>5 DEF Peers, Distinct, Grown
<1>12. Peers(h) \subseteq base \cup said
  <2>1. Peers(kept) \subseteq base \cup said
    BY <1>1, <1>3 DEF PeersInv, Peers, Others
  <2> HIDE DEF h, base
  <2> QED BY <1>4, <2>1 DEF Grown
<1>13. told'.crowded \/ Peers(group') = told'.peers
  <2>1. CASE crowd
    BY <2>1, <1>9
  <2>2. CASE ~crowd
    <3>1. base \cup said = Peers(kept) \cup said
      <4>1. CASE complete
        <5>1. Peers(kept) \subseteq said
          BY <1>1, <1>3, <4>1 DEF PeersInv, Peers, Others
        <5> QED BY <4>1, <5>1
      <4>2. CASE ~complete
        <5>1. Peers(group) = told.peers
          BY <2>2, <4>2 DEF PeersInv, PeersAreTold
        <5> QED BY <4>2, <5>1
      <4> QED BY <4>1, <4>2
    <3>2. Cardinality(base \cup said) > MaxPeers \/ Peers(h) = base \cup said
      <4> HIDE DEF kept, h, base
      <4> QED BY <1>3, <1>4, <1>8, <3>1, SaidPeers
    <3> QED BY <1>9, <1>11, <3>2
  <2> QED BY <2>1, <2>2
<1>14. PeersInv'
  BY <1>5, <1>7, <1>8, <1>9, <1>10, <1>11, <1>12, <1>13 DEF PeersInv, PeersAreTold, Distinct
<1>15. SlotsStay
  <2> SUFFICES ASSUME NEW i \in Slots, group.slots[i] # "", group.slots[i] \in Peers(group')
               PROVE  group'.slots[i] = group.slots[i]
    BY DEF SlotsStay
  <2>1. kept.slots[i] = group.slots[i]
    <3>1. CASE complete
      <4>1. group.slots[i] \in ToSet(names)
        <5> HIDE DEF kept, h
        <5> QED BY <1>3, <1>4, <1>11, <3>1 DEF Grown, Others
      <4>2. RemoveOthers(group, ToSet(names)).slots[i] = group.slots[i]
        BY <1>1, <4>1, RemovedOthers
      <4> QED BY <3>1, <4>2
    <3> QED BY <3>1
  <2> HIDE DEF kept, h
  <2> QED BY <2>1, <1>4, <1>5 DEF Grown, Kept
<1> QED BY <1>14, <1>15

LEMMA GroupFollowPeers ==
  ASSUME PeersInv, NEW name \in Names, GroupFollow(name)
  PROVE  PeersInv' /\ SlotsStay
<1> DEFINE said == Others({name})
           base == told.peers
           h == AddMember(group, name)
<1>1. /\ group \in GroupType /\ Distinct(group) /\ Peers(group) \subseteq base
      /\ base \in SUBSET Names /\ told.crowded \in BOOLEAN
  BY DEF PeersInv, TypeOK, PeersAreTold, Distinct, ToldType
<1>2. Grown(group, h, {name})
  BY <1>1, AddedMember DEF Named
<1>3. group' = h
  BY DEF GroupFollow
<1>4. /\ UNCHANGED <<player, guild, dz>>
      /\ host' = host \/ host' = PublishGroup(host, group')
      /\ told' = SayPeers(base \cup said, told.crowded)
  BY DEF GroupFollow, Others
<1>5. IsFiniteSet(base \cup said)
  <2>1. IsFiniteSet({name}) /\ said \in SUBSET {name}
    BY FS_Singleton DEF Others
  <2>2. IsFiniteSet(said)
    BY <2>1, FS_Subset
  <2> HIDE DEF said
  <2> QED BY <2>2, FS_Union DEF PeersInv
<1>6. /\ told' \in ToldType /\ told'.peers = base \cup said
      /\ told'.crowded = (told.crowded \/ Cardinality(base \cup said) > MaxPeers)
  <2>1. base \cup said \in SUBSET Names
    BY <1>1 DEF Others
  <2> HIDE DEF said, base
  <2> QED BY <1>1, <1>4, <2>1, SayPeersType DEF PeersInv
<1>7. TypeOK'
  BY <1>2, <1>3, <1>4, <1>6, GroupStepType DEF PeersInv, Grown
<1>8. Peers(h) \subseteq base \cup said
  BY <1>1, <1>2 DEF Grown
<1>9. told'.crowded \/ Peers(h) = told'.peers
  <2>1. CASE told.crowded
    BY <2>1, <1>6
  <2>2. CASE ~told.crowded
    <3>1. Peers(group) = base
      BY <2>2 DEF PeersInv, PeersAreTold
    <3> HIDE DEF base, h
    <3>2. Cardinality(base \cup said) > MaxPeers \/ Peers(h) = base \cup said
      BY <1>1, <1>2, <1>5, <3>1, SaidPeers
    <3> QED BY <1>6, <3>2
  <2> QED BY <2>1, <2>2
<1>10. PeersInv'
  BY <1>2, <1>3, <1>4, <1>5, <1>6, <1>7, <1>8, <1>9
     DEF PeersInv, PeersAreTold, Grown, Distinct, Others
<1>11. SlotsStay
  BY <1>2, <1>3 DEF SlotsStay, Grown, Kept
<1> QED BY <1>10, <1>11

LEMMA GroupDisbandPeers ==
  ASSUME PeersInv, NEW name \in Names \cup {""}, GroupDisband(name)
  PROVE  PeersInv' /\ SlotsStay
<1>1. /\ group \in GroupType /\ Distinct(group) /\ Peers(group) \subseteq told.peers
      /\ told.peers \in SUBSET Names /\ told.crowded \in BOOLEAN
  BY DEF PeersInv, TypeOK, PeersAreTold, Distinct, ToldType
<1>2. UNCHANGED <<player, guild, dz>> /\ host' = PublishGroup(host, group')
  BY DEF GroupDisband
<1>3. CASE name = player
  <2>1. /\ group' = [NoGroup EXCEPT !.complete = TRUE]
        /\ told' = SayPeers({}, FALSE)
    BY <1>3 DEF GroupDisband
  <2>2. group' \in GroupType /\ Distinct(group') /\ Peers(group') = {}
    <3>1. group' \in GroupType /\ group'.slots = NoGroup.slots
      BY <2>1, EmptyGroup DEF GroupType
    <3> QED BY <3>1, EmptyGroup DEF Distinct, Peers
  <2>3. told' \in ToldType /\ told'.peers = {}
    BY <2>1, SayPeersType DEF PeersInv
  <2>4. TypeOK'
    BY <1>2, <2>2, <2>3, GroupStepType DEF PeersInv
  <2>5. PeersInv'
    BY <2>2, <2>3, <2>4, FS_EmptySet DEF PeersInv, PeersAreTold, Distinct
  <2> QED BY <2>2, <2>5 DEF SlotsStay
<1>4. CASE name # player
  <2>1. /\ group' = [group EXCEPT !.slots =
                       [i \in Slots |-> IF @[i] = name THEN "" ELSE @[i]]]
        /\ told' = SayPeers(told.peers \ {name}, told.crowded)
    BY <1>4 DEF GroupDisband
  <2>2. /\ group' \in GroupType
        /\ \A i \in Slots : group'.slots[i] = IF group.slots[i] = name THEN ""
                                              ELSE group.slots[i]
    BY <1>1, <2>1 DEF GroupType, Named
  <2>3. Distinct(group')
    BY <1>1, <2>2 DEF Distinct
  <2>4. Peers(group') = Peers(group) \ {name}
    BY <2>2 DEF Peers
  <2>5. /\ told' \in ToldType /\ told'.peers = told.peers \ {name}
        /\ told.crowded => told'.crowded
    BY <1>1, <2>1, SayPeersType DEF PeersInv
  <2>6. TypeOK'
    BY <1>2, <2>2, <2>5, GroupStepType DEF PeersInv
  <2>7. IsFiniteSet(told'.peers)
    BY <2>5, FS_Subset DEF PeersInv
  <2>8. PeersInv'
    BY <1>1, <1>2, <2>3, <2>4, <2>5, <2>6, <2>7 DEF PeersInv, PeersAreTold, Distinct
  <2>9. SlotsStay
    BY <2>2, <2>4 DEF SlotsStay
  <2> QED BY <2>8, <2>9
<1> QED BY <1>3, <1>4

LEMMA GuildTypes ==
  TypeOK => /\ guild \in GuildType /\ guild.members \in Listings
            /\ guild.status \in Listings /\ told \in ToldType
            /\ told.count \in 0 .. MaxStatus /\ told.mentioned \in SUBSET Names
  BY DEF TypeOK, GuildType, ToldType

LEMMA GuildRosterType ==
  ASSUME TypeOK, NEW id \in Guilds, NEW names \in Members, NEW complete \in BOOLEAN,
         GuildRoster(id, names, complete)
  PROVE  TypeOK'
<1> DEFINE n == told.count + 1
           listed == At(names, n)
           before == IF guild.id # id \/ complete THEN <<>> ELSE guild.members
           merged == Override(before, listed)
           members == [name \in DOMAIN merged |->
              IF name \in DOMAIN guild.status THEN guild.status[name] ELSE merged[name]]
<1>1. n \in Statuses /\ n \in 0 .. MaxStatus
  BY NextStatus, GuildTypes DEF GuildRoster
<1>2. names \in SUBSET Names /\ id \in Nat
  BY MembersAssumption, IdsAssumption
<1> HIDE DEF n
<1>3. listed \in Listings
  BY <1>1, <1>2, Listed
<1>4. before \in Listings
  BY EmptyListing, GuildTypes
<1>5. merged \in Listings
  <2> HIDE DEF before, listed
  <2> QED BY <1>3, <1>4, Overridden
<1>6. members \in Listings
  <2> HIDE DEF merged
  <2>1. PICK D \in SUBSET Names : merged \in [D -> Statuses]
    BY <1>5 DEF Listings
  <2>2. PICK E \in SUBSET Names : guild.status \in [E -> Statuses]
    BY GuildTypes DEF Listings
  <2>3. members \in [D -> Statuses]
    BY <2>1, <2>2
  <2> QED BY <2>3 DEF Listings
<1> DEFINE mentioned ==
             IF complete THEN names
             ELSE names \cup (IF guild.id = id THEN told.mentioned ELSE {})
<1>7. /\ guild' = [guild EXCEPT !.id = id, !.members = members,
                     !.complete = complete \/ (guild.id = id /\ @)]
      /\ host' = PublishGuild(host, guild')
      /\ told' = [told EXCEPT !.count = n, !.mentioned = mentioned]
      /\ UNCHANGED <<player, group, dz>>
  BY DEF GuildRoster, n
<1>8. mentioned \in SUBSET Names
  BY <1>2, GuildTypes
<1> HIDE DEF members, mentioned
<1>9. guild' \in GuildType
  BY <1>2, <1>6, <1>7, GuildTypes DEF GuildType
<1>10. host' \in HostType
  BY <1>7, <1>9 DEF TypeOK, HostType, GuildType, PublishGuild
<1>11. told' \in ToldType
  BY <1>1, <1>7, <1>8, GuildTypes DEF ToldType
<1> QED BY <1>7, <1>9, <1>10, <1>11 DEF TypeOK

LEMMA GuildMemberStatusType ==
  ASSUME TypeOK, NEW name \in Names, GuildMemberStatus(name)
  PROVE  TypeOK'
<1> DEFINE n == told.count + 1
           listed == name \in DOMAIN guild.members
           status == Override(guild.status, At({name}, n))
           members == IF listed THEN Override(guild.members, At({name}, n)) ELSE guild.members
<1>1. n \in Statuses /\ n \in 0 .. MaxStatus
  BY NextStatus, GuildTypes DEF GuildMemberStatus
<1> HIDE DEF n
<1>2. At({name}, n) \in Listings
  BY <1>1, Listed
<1>3. status \in Listings /\ members \in Listings
  BY <1>2, GuildTypes, Overridden
<1>4. /\ guild' = [guild EXCEPT !.status = status, !.members = members,
                     !.complete = @ /\ listed]
      /\ host' = host \/ host' = PublishGuild(host, guild')
      /\ told' = [told EXCEPT !.count = n, !.mentioned = @ \cup {name}]
      /\ UNCHANGED <<player, group, dz>>
  BY DEF GuildMemberStatus, n
<1> HIDE DEF status, members
<1>5. guild' \in GuildType
  BY <1>3, <1>4, GuildTypes DEF GuildType
<1>6. host' \in HostType
  BY <1>4, <1>5 DEF TypeOK, HostType, GuildType, PublishGuild
<1>7. told' \in ToldType
  BY <1>1, <1>4, GuildTypes DEF ToldType
<1> QED BY <1>4, <1>5, <1>6, <1>7 DEF TypeOK

LEMMA GuildRankNameType ==
  ASSUME TypeOK, NEW id \in Guilds \cup {0}, GuildRankName(id)
  PROVE  TypeOK'
<1>1. id \in Nat
  BY IdsAssumption
<1>2. guild' \in GuildType
  BY <1>1, GuildTypes DEF GuildRankName, GuildType
<1> QED BY <1>2 DEF GuildRankName, TypeOK

LEMMA ZoneStepType ==
  ASSUME TypeOK, dz' \in ZoneType, host' = PublishZone(host, dz'),
         UNCHANGED <<player, group, guild, told>>
  PROVE  TypeOK'
<1>1. host' \in HostType
  BY DEF TypeOK, HostType, PublishZone
<1> QED BY <1>1 DEF TypeOK

LEMMA DynamicZoneType ==
  ASSUME TypeOK, NEW active \in BOOLEAN, DynamicZoneInfo(active) \/ DynamicZoneSwitch(active)
  PROVE  TypeOK'
<1>1. dz' \in ZoneType
  <2>1. dz \in ZoneType /\ Quit \in ZoneType
    BY DEF TypeOK, ZoneType, Quit
  <2>2. CASE DynamicZoneInfo(active)
    BY <2>1, <2>2 DEF ZoneType, DynamicZoneInfo
  <2>3. CASE DynamicZoneSwitch(active)
    BY <2>1, <2>3 DEF ZoneType, DynamicZoneSwitch
  <2> QED BY <2>2, <2>3
<1> QED BY <1>1, ZoneStepType DEF DynamicZoneInfo, DynamicZoneSwitch

LEMMA ResetPeers ==
  ASSUME PeersInv, NEW name \in Named, Reset(name)
  PROVE  PeersInv' /\ SlotsStay
<1>1. told' = NothingTold(told.count) /\ player' = name /\ group' = NoGroup
  BY DEF Reset
<1>2. told' \in ToldType /\ told'.peers = {}
  BY <1>1, GuildTypes DEF NothingTold, ToldType, PeersInv
<1>3. dz' \in ZoneType
  BY DEF Reset, NoZone, ZoneType
<1>4. host' \in HostType
  <2>1. Withdrawn \in HostType
    BY EmptyListing DEF PeersInv, TypeOK, Withdrawn, HostType
  <2> QED BY <2>1 DEF Reset
<1>5. TypeOK'
  BY <1>1, <1>2, <1>3, <1>4, EmptyGroup, EmptyGuild DEF Reset, TypeOK
<1>6. PeersInv'
  BY <1>1, <1>2, <1>5, EmptyGroup, FS_EmptySet DEF PeersInv, PeersAreTold, Distinct
<1> QED BY <1>1, <1>6, EmptyGroup DEF SlotsStay

LEMMA NextPeers == PeersInv /\ [Next]_vars => PeersInv' /\ (SlotsStay \/ UNCHANGED vars)
<1> SUFFICES ASSUME PeersInv, [Next]_vars
             PROVE  PeersInv' /\ (SlotsStay \/ UNCHANGED vars)
  OBVIOUS
<1> USE DEF PeersInv
<1>1. ASSUME NEW id \in Groups \cup {0}, NEW names \in Rosters, NEW complete \in BOOLEAN,
             GroupRoster(id, names, complete)
      PROVE  PeersInv' /\ SlotsStay
  BY <1>1, GroupRosterPeers
<1>2. ASSUME NEW name \in Names, GroupFollow(name)
      PROVE  PeersInv' /\ SlotsStay
  BY <1>2, GroupFollowPeers
<1>3. ASSUME NEW name \in Names \cup {""}, GroupDisband(name)
      PROVE  PeersInv' /\ SlotsStay
  BY <1>3, GroupDisbandPeers
<1>4. ASSUME NEW id \in Guilds, NEW names \in Members, NEW complete \in BOOLEAN,
             GuildRoster(id, names, complete)
      PROVE  PeersInv' /\ SlotsStay
  <2>1. TypeOK'
    BY <1>4, GuildRosterType
  <2>2. UNCHANGED <<player, group>> /\ told'.peers = told.peers /\ told'.crowded = told.crowded
    BY <1>4, GuildTypes DEF GuildRoster, ToldType
  <2> QED BY <2>1, <2>2, PeersUnchanged
<1>5. ASSUME NEW name \in Names, GuildMemberStatus(name)
      PROVE  PeersInv' /\ SlotsStay
  BY <1>5, GuildMemberStatusType, GuildTypes, PeersUnchanged DEF GuildMemberStatus, ToldType
<1>6. ASSUME NEW id \in Guilds \cup {0}, GuildRankName(id)
      PROVE  PeersInv' /\ SlotsStay
  BY <1>6, GuildRankNameType, PeersUnchanged DEF GuildRankName
<1>7. ASSUME NEW active \in BOOLEAN, DynamicZoneInfo(active) \/ DynamicZoneSwitch(active)
      PROVE  PeersInv' /\ SlotsStay
  BY <1>7, DynamicZoneType, PeersUnchanged DEF DynamicZoneInfo, DynamicZoneSwitch
<1>8. ASSUME NEW name \in Names, EnterWorld(name)
      PROVE  PeersInv' /\ SlotsStay
  BY <1>8, ResetPeers DEF EnterWorld, Named
<1>9. CASE Flush
  BY <1>9, ResetPeers DEF Flush, TypeOK
<1>10. CASE UNCHANGED vars
  <2>1. TypeOK'
    BY <1>10 DEF vars, TypeOK
  <2> QED BY <1>10, <2>1, PeersUnchanged DEF vars
<1> QED
  <2> HIDE DEF PeersInv
  <2> QED BY <1>1, <1>2, <1>3, <1>4, <1>5, <1>6, <1>7, <1>8, <1>9, <1>10 DEF Next

(* Whatever the number of slots and the rosters, the slots hold the peers  *)
(* that were told, each once, unless more were told than fit.              *)
THEOREM PeersInSlots == Spec => []PeersAreTold
<1>1. PeersInv => PeersAreTold
  BY DEF PeersInv
<1>2. PeersInv /\ [Next]_vars => PeersInv'
  BY NextPeers
<1> QED BY <1>1, <1>2, InitPeers, PTL DEF Spec

(* Whatever packet comes, a peer who stays in the group keeps the slot.    *)
THEOREM StableSlots == Spec => SlotsAreStable
<1>1. PeersInv /\ [Next]_vars => PeersInv'
  BY NextPeers
<1>2. PeersInv /\ [Next]_vars => [SlotsStay]_vars
  BY NextPeers
<1> QED BY <1>1, <1>2, InitPeers, PTL DEF Spec, SlotsAreStable, SlotsStay

-----------------------------------------------------------------------------
(* The guild                                                               *)

LEMMA InitGuild == Init => GuildCompleteListsMentioned
<1>1. Init => guild = NoGuild
  BY DEF Init
<1>2. ~NoGuild.complete
  BY DEF NoGuild
<1> QED BY <1>1, <1>2 DEF GuildCompleteListsMentioned

LEMMA GuildRosterListed ==
  ASSUME TypeOK, GuildCompleteListsMentioned, NEW id \in Guilds, NEW names \in Members,
         NEW complete \in BOOLEAN, GuildRoster(id, names, complete)
  PROVE  GuildCompleteListsMentioned'
<1> DEFINE n == told.count + 1
           listed == At(names, n)
           before == IF guild.id # id \/ complete THEN <<>> ELSE guild.members
           merged == Override(before, listed)
           mentioned == IF complete THEN names
                        ELSE names \cup (IF guild.id = id THEN told.mentioned ELSE {})
<1>1. n \in Statuses
  BY NextStatus, GuildTypes DEF GuildRoster
<1> HIDE DEF n
<1>2. listed \in Listings /\ DOMAIN listed = names
  BY <1>1, Listed, MembersAssumption
<1>3. DOMAIN guild'.members = DOMAIN merged
  BY GuildTypes DEF GuildRoster, GuildType, n
<1>4. guild'.complete = (complete \/ (guild.id = id /\ guild.complete))
  BY GuildTypes DEF GuildRoster, GuildType
<1>5. told'.mentioned = mentioned
  BY GuildTypes DEF GuildRoster, ToldType
<1>6. before \in Listings
  BY EmptyListing, GuildTypes
<1>7. DOMAIN merged = DOMAIN before \cup names
  <2> HIDE DEF before, listed
  <2> QED BY <1>2, <1>6, Overridden
<1> HIDE DEF merged
<1> SUFFICES ASSUME guild'.complete PROVE mentioned \subseteq DOMAIN before \cup names
  BY <1>3, <1>5, <1>7 DEF GuildCompleteListsMentioned
<1>8. CASE complete
  BY <1>8
<1>9. CASE ~complete
  <2>1. guild.id = id /\ guild.complete
    BY <1>4, <1>9
  <2> QED BY <1>9, <2>1 DEF GuildCompleteListsMentioned
<1> QED BY <1>8, <1>9

LEMMA GuildMemberStatusListed ==
  ASSUME TypeOK, GuildCompleteListsMentioned, NEW name \in Names, GuildMemberStatus(name)
  PROVE  GuildCompleteListsMentioned'
<1> DEFINE n == told.count + 1
           listed == name \in DOMAIN guild.members
<1>1. n \in Statuses
  BY NextStatus, GuildTypes DEF GuildMemberStatus
<1> HIDE DEF n
<1>2. At({name}, n) \in Listings /\ DOMAIN At({name}, n) = {name}
  BY <1>1, Listed
<1>3. DOMAIN Override(guild.members, At({name}, n)) = DOMAIN guild.members \cup {name}
  BY <1>2, GuildTypes, Overridden
<1>4. /\ guild'.complete = (guild.complete /\ listed)
      /\ listed => guild'.members = Override(guild.members, At({name}, n))
  BY GuildTypes DEF GuildMemberStatus, GuildType, n
<1>5. told'.mentioned = told.mentioned \cup {name}
  BY GuildTypes DEF GuildMemberStatus, ToldType
<1> QED BY <1>3, <1>4, <1>5 DEF GuildCompleteListsMentioned

LEMMA NextGuild ==
  ASSUME PeersInv, GuildCompleteListsMentioned, [Next]_vars
  PROVE  GuildCompleteListsMentioned'
<1>1. TypeOK
  BY DEF PeersInv
<1>2. ASSUME guild' = guild, told'.mentioned = told.mentioned
      PROVE  GuildCompleteListsMentioned'
  BY <1>2 DEF GuildCompleteListsMentioned
<1>3. ASSUME NEW peers, NEW crowded
      PROVE  SayPeers(peers, crowded).mentioned = told.mentioned
  BY <1>1, GuildTypes DEF SayPeers, ToldType
<1>4. ASSUME NEW id \in Groups \cup {0}, NEW names \in Rosters, NEW complete \in BOOLEAN,
             GroupRoster(id, names, complete)
      PROVE  GuildCompleteListsMentioned'
  BY <1>4, <1>3, <1>2 DEF GroupRoster
<1>5. ASSUME NEW name \in Names, GroupFollow(name)
      PROVE  GuildCompleteListsMentioned'
  BY <1>5, <1>3, <1>2 DEF GroupFollow
<1>6. ASSUME NEW name \in Names \cup {""}, GroupDisband(name)
      PROVE  GuildCompleteListsMentioned'
  BY <1>6, <1>3, <1>2 DEF GroupDisband
<1>7. ASSUME NEW id \in Guilds, NEW names \in Members, NEW complete \in BOOLEAN,
             GuildRoster(id, names, complete)
      PROVE  GuildCompleteListsMentioned'
  BY <1>1, <1>7, GuildRosterListed
<1>8. ASSUME NEW name \in Names, GuildMemberStatus(name)
      PROVE  GuildCompleteListsMentioned'
  BY <1>1, <1>8, GuildMemberStatusListed
<1>9. ASSUME NEW id \in Guilds \cup {0}, GuildRankName(id)
      PROVE  GuildCompleteListsMentioned'
  BY <1>1, <1>9, GuildTypes DEF GuildRankName, GuildType, GuildCompleteListsMentioned
<1>10. ASSUME NEW active \in BOOLEAN, DynamicZoneInfo(active) \/ DynamicZoneSwitch(active)
       PROVE  GuildCompleteListsMentioned'
  BY <1>10, <1>2 DEF DynamicZoneInfo, DynamicZoneSwitch
<1>11. ASSUME NEW name, Reset(name)
       PROVE  GuildCompleteListsMentioned'
  BY <1>11 DEF Reset, NoGuild, GuildCompleteListsMentioned
<1>12. CASE UNCHANGED vars
  BY <1>12, <1>2 DEF vars
<1> QED BY <1>4, <1>5, <1>6, <1>7, <1>8, <1>9, <1>10, <1>11, <1>12
        DEF Next, EnterWorld, Flush

(* Whatever rosters, status deltas and guild changes come, a roster that   *)
(* claims to be complete lists everyone mentioned.                         *)
THEOREM CompleteGuildLists == Spec => []GuildCompleteListsMentioned
<1>1. PeersInv /\ [Next]_vars => PeersInv'
  BY NextPeers
<1>2. PeersInv /\ GuildCompleteListsMentioned /\ [Next]_vars => GuildCompleteListsMentioned'
  BY NextGuild
<1> QED BY <1>1, <1>2, InitPeers, InitGuild, PTL DEF Spec

-----------------------------------------------------------------------------
(* The host's copy                                                         *)

LEMMA InitHost == Init => HostFollows
<1> SUFFICES ASSUME Init PROVE HostFollows
  OBVIOUS
<1>1. group.id = 0 /\ guild.members = <<>> /\ dz.state = "none" /\ Peers(group) = {}
  BY EmptyGroup DEF Init, NoGroup, NoGuild, NoZone
<1> QED BY <1>1 DEF Init, HostFollows

(* What a publication of one part says, and that it leaves the others.     *)
LEMMA Publications ==
  ASSUME TypeOK, NEW g, NEW l, NEW z
  PROVE  /\ PublishGroup(host, g) = [host EXCEPT !.group_id = g.id, !.peers = Peers(g)]
         /\ PublishGroup(host, g).group_id = g.id /\ PublishGroup(host, g).peers = Peers(g)
         /\ PublishGroup(host, g).members = host.members /\ PublishGroup(host, g).dz = host.dz
         /\ PublishGuild(host, l).members = l.members
         /\ PublishGuild(host, l).group_id = host.group_id
         /\ PublishGuild(host, l).peers = host.peers /\ PublishGuild(host, l).dz = host.dz
         /\ PublishZone(host, z).dz = IF z.state = "active" THEN "active" ELSE "inactive"
         /\ PublishZone(host, z).group_id = host.group_id
         /\ PublishZone(host, z).peers = host.peers
         /\ PublishZone(host, z).members = host.members
  BY DEF TypeOK, HostType, PublishGroup, PublishGuild, PublishZone

LEMMA NextHost ==
  ASSUME PeersInv, HostFollows, [Next]_vars
  PROVE  HostFollows'
<1>1. TypeOK
  BY DEF PeersInv
<1>2. Peers(group)' = Peers(group')
  BY DEF Peers
<1>3. ASSUME UNCHANGED <<guild, dz>>, host' = PublishGroup(host, group')
      PROVE  HostFollows'
  BY <1>1, <1>2, <1>3, Publications DEF HostFollows
<1>4. ASSUME UNCHANGED <<group, dz>>, host' = PublishGuild(host, guild')
      PROVE  HostFollows'
  BY <1>1, <1>2, <1>4, Publications DEF HostFollows
<1>5. ASSUME UNCHANGED <<group, guild>>, host' = PublishZone(host, dz')
      PROVE  HostFollows'
  BY <1>1, <1>2, <1>5, Publications DEF HostFollows
<1>6. ASSUME group' = group, dz' = dz, guild'.members = guild.members, host' = host
      PROVE  HostFollows'
  BY <1>2, <1>6 DEF HostFollows
<1>7. ASSUME NEW id \in Groups \cup {0}, NEW names \in Rosters, NEW complete \in BOOLEAN,
             GroupRoster(id, names, complete)
      PROVE  HostFollows'
  BY <1>7, <1>3 DEF GroupRoster
<1>8. ASSUME NEW name \in Names, GroupFollow(name)
      PROVE  HostFollows'
  BY <1>8, <1>3, <1>6 DEF GroupFollow
<1>9. ASSUME NEW name \in Names \cup {""}, GroupDisband(name)
      PROVE  HostFollows'
  BY <1>9, <1>3 DEF GroupDisband
<1>10. ASSUME NEW id \in Guilds, NEW names \in Members, NEW complete \in BOOLEAN,
              GuildRoster(id, names, complete)
       PROVE  HostFollows'
  BY <1>10, <1>4 DEF GuildRoster
<1>11. ASSUME NEW name \in Names, GuildMemberStatus(name)
       PROVE  HostFollows'
  <2>1. CASE name \in DOMAIN guild.members
    BY <1>11, <1>4, <2>1 DEF GuildMemberStatus
  <2>2. CASE name \notin DOMAIN guild.members
    BY <1>1, <1>11, <1>6, <2>2, GuildTypes DEF GuildMemberStatus, GuildType
  <2> QED BY <2>1, <2>2
<1>12. ASSUME NEW id \in Guilds \cup {0}, GuildRankName(id)
       PROVE  HostFollows'
  BY <1>1, <1>12, <1>6, GuildTypes DEF GuildRankName, GuildType
<1>13. ASSUME NEW active \in BOOLEAN, DynamicZoneInfo(active) \/ DynamicZoneSwitch(active)
       PROVE  HostFollows'
  BY <1>13, <1>5 DEF DynamicZoneInfo, DynamicZoneSwitch
<1>14. ASSUME NEW name, Reset(name)
       PROVE  HostFollows'
  <2>1. /\ Peers(group') = {} /\ group'.id = 0 /\ guild'.members = <<>> /\ dz'.state = "none"
        /\ host' = Withdrawn
    BY <1>14, EmptyGroup DEF Reset, NoGroup, NoGuild, NoZone
  <2>2. /\ Withdrawn.group_id = 0 /\ Withdrawn.peers = {} /\ Withdrawn.members = <<>>
        /\ Withdrawn.dz = "inactive"
    BY DEF Withdrawn, HostFollows
  <2> QED BY <1>2, <2>1, <2>2 DEF HostFollows
<1>15. CASE UNCHANGED vars
  BY <1>15, <1>6 DEF vars
<1> QED BY <1>7, <1>8, <1>9, <1>10, <1>11, <1>12, <1>13, <1>14, <1>15
        DEF Next, EnterWorld, Flush

(* A host that keeps the last state it was given has the session's peers,  *)
(* guild members and dynamic zone, whatever packets and resets come.       *)
THEOREM HostHasTheState == Spec => []HostFollows
<1>1. PeersInv /\ [Next]_vars => PeersInv'
  BY NextPeers
<1>2. PeersInv /\ HostFollows /\ [Next]_vars => HostFollows'
  BY NextHost
<1> QED BY <1>1, <1>2, InitPeers, InitHost, PTL DEF Spec

-----------------------------------------------------------------------------
(* The names of the chat channels.  What every record keeps in the clear   *)
(* is the name but for its first letter, and all that is resolved from it  *)
(* ends alike.                                                             *)

LEMMA NoLetters == ASSUME NEW s, NEW t, Len(s) \in Nat, Len(t) \in Nat PROVE SameEnd(0, s, t)
BY DEF SameEnd

LEMMA FewerLetters ==
  ASSUME NEW s, NEW t, NEW k \in Nat, NEW m \in Nat, m <= k,
         Len(s) \in Nat, Len(t) \in Nat, SameEnd(k, s, t)
  PROVE  SameEnd(m, s, t)
BY DEF SameEnd

LEMMA SameEndSymmetric ==
  ASSUME NEW s, NEW t, NEW k \in Nat, SameEnd(k, s, t) PROVE SameEnd(k, t, s)
BY DEF SameEnd

LEMMA SameEndTransitive ==
  ASSUME NEW s, NEW t, NEW u, NEW k \in Nat, SameEnd(k, s, t), SameEnd(k, t, u)
  PROVE  SameEnd(k, s, u)
BY DEF SameEnd

(* The length of what two names share tells which ends of theirs agree:    *)
(* some k letters agree and k + 1 do not, or all numbers of letters would. *)
LEMMA SharedSuffix ==
  ASSUME NEW s, NEW t, Len(s) \in Nat, Len(t) \in Nat
  PROVE  /\ SharedSuffixLen(s, t) \in Nat
         /\ \A m \in Nat : SharedSuffixLen(s, t) >= m <=> SameEnd(m, s, t)
<1> DEFINE Agree == {k \in Nat : SameEnd(k, s, t)}
           Turns(k) == SameEnd(k, s, t) /\ ~SameEnd(k + 1, s, t)
<1>1. \E k \in 0 .. Len(s) : Turns(k)
  <2> SUFFICES ASSUME \A k \in 0 .. Len(s) : ~Turns(k) PROVE FALSE
    OBVIOUS
  <2>1. 0 \in Agree
    BY NoLetters
  <2>2. ASSUME NEW n \in Nat, n \in Agree PROVE n + 1 \in Agree
    <3>1. n \in 0 .. Len(s)
      BY <2>2 DEF SameEnd
    <3> QED BY <2>2, <3>1
  <2>3. Nat \subseteq Agree
    <3> HIDE DEF Agree
    <3> QED BY <2>1, <2>2, Induction
  <2>4. SameEnd(Len(s) + 1, s, t)
    BY <2>3
  <2> QED BY <2>4 DEF SameEnd
<1> DEFINE v == SharedSuffixLen(s, t)
<1>2. v \in 0 .. Len(s) /\ Turns(v)
  <2> HIDE DEF Turns
  <2>1. v = CHOOSE k \in 0 .. Len(s) : Turns(k)
    BY DEF SharedSuffixLen, Turns
  <2> HIDE DEF v
  <2> QED BY <1>1, <2>1
<1>3. ASSUME NEW m \in Nat PROVE v >= m <=> SameEnd(m, s, t)
  <2> HIDE DEF v
  <2>1. CASE v >= m
    BY <1>2, <2>1, FewerLetters
  <2>2. CASE m >= v + 1
    <3>1. ~SameEnd(m, s, t)
      BY <1>2, <2>2, FewerLetters
    <3> QED BY <1>2, <2>2, <3>1
  <2> QED BY <1>2, <2>1, <2>2
<1> QED BY <1>2, <1>3

(* The greatest of a set of positions.                                     *)
LEMMA GreatestPosition ==
  ASSUME NEW n \in Nat, NEW S \in SUBSET (0 .. n), 0 \in S
  PROVE  Max(S) \in S /\ \A x \in S : x <= Max(S)
<1> DEFINE Over == {k \in Nat : \E x \in S : x >= k}
           Top(x) == \A y \in S : x >= y
<1>1. \E x \in S : Top(x)
  <2> SUFFICES ASSUME \A x \in S : ~Top(x) PROVE FALSE
    OBVIOUS
  <2>1. 0 \in Over
    OBVIOUS
  <2>2. ASSUME NEW k \in Nat, k \in Over PROVE k + 1 \in Over
    <3>1. PICK x \in S : x >= k
      BY <2>2
    <3>2. PICK y \in S : ~(x >= y)
      BY <3>1
    <3> QED BY <3>1, <3>2
  <2>3. n + 1 \in Over
    <3> HIDE DEF Over
    <3> QED BY <2>1, <2>2, Induction
  <2> QED BY <2>3
<1> HIDE DEF Top
<1>2. Max(S) = CHOOSE x \in S : Top(x)
  BY DEF Max, Top
<1>3. Max(S) \in S /\ Top(Max(S))
  BY <1>1, <1>2
<1> QED BY <1>3 DEF Top

LEMMA Spelled ==
  ASSUME NEW c \in Channels
  PROVE  /\ c \in Seq(33 .. 126) /\ c # <<>> /\ Len(c) \in Nat \ {0}
         /\ Tail(c) \in Seq(33 .. 126) /\ Len(Tail(c)) = Len(c) - 1
         /\ \A i \in 1 .. Len(Tail(c)) : Tail(c)[i] \in 33 .. 126
         /\ SameEnd(Len(Tail(c)), Tail(c), c)
<1>1. c \in Seq(33 .. 126) /\ c # <<>>
  BY ChannelsAssumption
<1>2. Len(c) \in Nat \ {0} /\ Tail(c) \in Seq(33 .. 126) /\ Len(Tail(c)) = Len(c) - 1
  BY <1>1
<1>3. \A i \in 1 .. Len(Tail(c)) : Tail(c)[i] = c[i + 1]
  BY <1>1, <1>2
<1>4. \A i \in 1 .. Len(c) : c[i] \in 33 .. 126
  BY <1>1, ElementOfSeq
<1>5. \A i \in 1 .. Len(Tail(c)) : Tail(c)[i] \in 33 .. 126
  BY <1>2, <1>3, <1>4
<1> QED BY <1>1, <1>2, <1>3, <1>5 DEF SameEnd

(* Appending in front leaves the end.                                      *)
LEMMA EndOfConcat ==
  ASSUME NEW S, NEW a \in Seq(S), NEW b \in Seq(S)
  PROVE  /\ Len(a \o b) = Len(a) + Len(b)
         /\ SameEnd(Len(b), a \o b, b)
<1>1. Len(a \o b) = Len(a) + Len(b) /\ Len(a) \in Nat /\ Len(b) \in Nat
  OBVIOUS
<1>2. \A i \in 1 .. Len(b) : (a \o b)[Len(a) + i] = b[i]
  OBVIOUS
<1>3. ASSUME NEW i \in 0 .. Len(b) - 1
      PROVE  (a \o b)[Len(a \o b) - i] = b[Len(b) - i]
  <2>1. Len(b) - i \in 1 .. Len(b) /\ Len(a \o b) - i = Len(a) + (Len(b) - i)
    BY <1>1
  <2> QED BY <1>2, <2>1
<1> QED BY <1>1, <1>3 DEF SameEnd

(* Cutting off the front leaves the end.                                   *)
LEMMA EndOfSubSeq ==
  ASSUME NEW S, NEW s \in Seq(S), NEW j \in 1 .. Len(s) + 1
  PROVE  /\ SubSeq(s, j, Len(s)) \in Seq(S)
         /\ Len(SubSeq(s, j, Len(s))) = Len(s) - j + 1
         /\ SameEnd(Len(s) - j + 1, SubSeq(s, j, Len(s)), s)
<1> DEFINE u == SubSeq(s, j, Len(s))
<1>1. u \in Seq(S) /\ Len(u) = Len(s) - j + 1 /\ Len(s) \in Nat
  OBVIOUS
<1>2. \A i \in 1 .. Len(u) : u[i] = s[i + j - 1]
  OBVIOUS
<1> HIDE DEF u
<1>3. ASSUME NEW i \in 0 .. Len(u) - 1 PROVE u[Len(u) - i] = s[Len(s) - i]
  <2>1. Len(u) - i \in 1 .. Len(u) /\ (Len(u) - i) + j - 1 = Len(s) - i
    BY <1>1
  <2> QED BY <1>2, <2>1
<1>4. SameEnd(Len(u), u, s)
  BY <1>1, <1>3 DEF SameEnd
<1> QED BY <1>1, <1>4 DEF u

(* A record as it is read: what it ends in is the name but for its first   *)
(* letter, and what follows the first letter is an end of the name.        *)
Heard(p) ==
  /\ p.channel \in Channels
  /\ \E S : p.run \in Seq(S) /\ p.rest \in Seq(S)
  /\ Ends(Tail(p.channel), p.run)
  /\ Ends(p.rest, Tail(p.channel))

LEMMA ParsedRecord ==
  ASSUME NEW record \in Record, NEW m, IsSound(record, m)
  PROVE  Heard(Parsed(record, m)) /\ Parsed(record, m).channel = record.channel
<1> DEFINE c == record.channel
           t == Tail(c)
           x == Xor(Head(c), m)
           S == Nat \cup {x}
           one == <<x>>
           header == record.header
           front == header \o one
           whole == front \o t
           nuls == {i \in DOMAIN whole : whole[i] = 0}
           k == Max(nuls \cup {0})
           field == SubSeq(whole, k + 1, Len(whole))
           noise == {i \in DOMAIN field : ~Printable(field[i])}
           j == Max(noise \cup {0})
           run == SubSeq(field, j + 1, Len(field))
           rest == SubSeq(field, 6, Len(field))
<1>1. /\ c \in Channels /\ t \in Seq(33 .. 126) /\ t \in Seq(S)
      /\ Len(t) \in Nat /\ SameEnd(Len(t), t, c)
      /\ \A i \in 1 .. Len(t) : t[i] \in 33 .. 126
  <2>1. c \in Channels
    BY DEF Record
  <2>2. 33 .. 126 \subseteq S
    OBVIOUS
  <2>3. /\ t \in Seq(33 .. 126) /\ Len(t) \in Nat /\ SameEnd(Len(t), t, c)
        /\ \A i \in 1 .. Len(t) : t[i] \in 33 .. 126
    <3> HIDE DEF c
    <3> QED BY <2>1, Spelled
  <2> HIDE DEF t, S
  <2> QED BY <2>1, <2>2, <2>3, SeqMonotonic
<1>2. front \in Seq(S) /\ Len(front) = 5
  <2>1. header \in Seq(0 .. 255) /\ Len(header) = 4
    BY DEF Record, Header
  <2>2. 0 .. 255 \subseteq S
    OBVIOUS
  <2>3. one \in Seq(S) /\ Len(one) = 1
    OBVIOUS
  <2> HIDE DEF S, one, header
  <2>4. header \in Seq(S)
    BY <2>1, <2>2, SeqMonotonic
  <2>5. front \in Seq(S) /\ Len(front) = Len(header) + Len(one)
    BY <2>3, <2>4, ConcatProperties
  <2> QED BY <2>1, <2>3, <2>5
<1>3. whole \in Seq(S) /\ Len(whole) = 5 + Len(t) /\ SameEnd(Len(t), whole, t)
  <2> HIDE DEF front, t, S
  <2>1. whole \in Seq(S)
    BY <1>1, <1>2
  <2> QED BY <1>1, <1>2, <2>1, EndOfConcat
<1>4. \A i \in DOMAIN whole : i > 5 => whole[i] \in 33 .. 126
  <2> SUFFICES ASSUME NEW i \in DOMAIN whole, i > 5 PROVE whole[i] \in 33 .. 126
    OBVIOUS
  <2> HIDE DEF t, whole, S
  <2>1. i \in 6 .. Len(whole)
    BY <1>3
  <2>2. Len(whole) - i \in 0 .. Len(t) - 1
    BY <1>1, <1>3, <2>1
  <2>3. whole[Len(whole) - (Len(whole) - i)] = t[Len(t) - (Len(whole) - i)]
    BY <1>3, <2>2 DEF SameEnd
  <2>4. Len(whole) - (Len(whole) - i) = i /\ Len(t) - (Len(whole) - i) \in 1 .. Len(t)
    BY <1>1, <1>3, <2>1, <2>2
  <2>5. whole[i] = t[Len(t) - (Len(whole) - i)]
    BY <2>3, <2>4
  <2> QED BY <1>1, <2>4, <2>5
<1>5. k \in 0 .. 5
  <2>1. \A i \in nuls : i \in 0 .. 5
    <3> HIDE DEF whole, S, t
    <3>1. DOMAIN whole = 1 .. Len(whole) /\ Len(whole) \in Nat
      BY <1>3
    <3>2. ASSUME NEW i \in nuls, i > 5 PROVE FALSE
      BY <1>4, <3>2
    <3> QED BY <3>1, <3>2
  <2>2. nuls \cup {0} \in SUBSET (0 .. 5) /\ 0 \in nuls \cup {0}
    <3> HIDE DEF nuls
    <3> QED BY <2>1
  <2> HIDE DEF nuls
  <2> QED BY <2>2, GreatestPosition
<1>6. /\ field \in Seq(S) /\ Len(field) = 5 + Len(t) - k
      /\ SameEnd(Len(field), field, whole)
  <2> HIDE DEF whole, k, S, t
  <2>1. k + 1 \in 1 .. Len(whole) + 1
    BY <1>1, <1>3, <1>5
  <2>2. /\ field \in Seq(S) /\ Len(field) = Len(whole) - (k + 1) + 1
        /\ SameEnd(Len(whole) - (k + 1) + 1, field, whole)
    BY <1>3, <2>1, EndOfSubSeq
  <2>3. Len(whole) - (k + 1) + 1 = 5 + Len(t) - k
    BY <1>1, <1>3, <1>5
  <2> QED BY <2>2, <2>3
<1>7. Field(record, m) = field /\ Len(field) >= 5 /\ Len(field) \in Nat
  <2>1. Field(record, m) = field
    BY DEF Field
  <2> HIDE DEF field
  <2>2. Len(field) \in Nat
    <3> HIDE DEF t, k, S
    <3> QED BY <1>1, <1>5, <1>6
  <2> QED BY <2>1, <2>2 DEF IsSound
<1>8. SameEnd(Len(t), field, t)
  <2> HIDE DEF whole, k, S, t, field
  <2>1. SameEnd(Len(t), field, whole)
    BY <1>1, <1>3, <1>5, <1>6, FewerLetters
  <2> QED BY <1>1, <1>3, <2>1, SameEndTransitive
<1>9. j \in 0 .. 5 - k
  <2> HIDE DEF whole, k, S, t, field
  <2>1. ASSUME NEW i \in DOMAIN field, i > 5 - k PROVE Printable(field[i])
    <3>1. i \in 1 .. Len(field) /\ Len(field) - i \in 0 .. Len(t) - 1
      BY <1>1, <1>5, <1>6, <2>1
    <3>2. field[Len(field) - (Len(field) - i)] = t[Len(t) - (Len(field) - i)]
      BY <1>8, <3>1 DEF SameEnd
    <3>3. Len(field) - (Len(field) - i) = i /\ Len(t) - (Len(field) - i) \in 1 .. Len(t)
      BY <1>1, <1>7, <3>1
    <3>4. field[i] = t[Len(t) - (Len(field) - i)]
      BY <3>2, <3>3
    <3>5. field[i] \in 33 .. 126
      BY <1>1, <3>3, <3>4
    <3> QED BY <3>5 DEF Printable
  <2>2. \A i \in noise : i \in 0 .. 5 - k
    BY <1>5, <1>6, <2>1
  <2>3. noise \cup {0} \in SUBSET (0 .. 5 - k) /\ 0 \in noise \cup {0} /\ 5 - k \in Nat
    <3> HIDE DEF noise
    <3> QED BY <1>5, <2>2
  <2> HIDE DEF noise
  <2> QED BY <2>3, GreatestPosition
<1>10. run \in Seq(S) /\ Len(run) \in Nat /\ Ends(t, run)
  <2> HIDE DEF whole, k, S, t, field, j
  <2>1. j + 1 \in 1 .. Len(field) + 1
    BY <1>1, <1>5, <1>6, <1>9
  <2>2. /\ run \in Seq(S) /\ Len(run) = Len(field) - (j + 1) + 1
        /\ SameEnd(Len(field) - (j + 1) + 1, run, field)
    BY <1>6, <2>1, EndOfSubSeq
  <2>3. Len(run) \in Nat /\ Len(run) >= Len(t) /\ Len(field) - (j + 1) + 1 \in Nat
    BY <1>1, <1>5, <1>6, <1>9, <2>2
  <2> HIDE DEF run
  <2>4. SameEnd(Len(t), run, field)
    BY <1>1, <1>7, <2>2, <2>3, FewerLetters
  <2>5. SameEnd(Len(t), run, t)
    BY <1>1, <1>8, <2>4, SameEndTransitive
  <2> QED BY <1>1, <2>2, <2>3, <2>5, SameEndSymmetric DEF Ends
<1>11. rest \in Seq(S) /\ Ends(rest, t)
  <2> HIDE DEF whole, k, S, t, field
  <2>1. 6 \in 1 .. Len(field) + 1
    BY <1>7
  <2>2. /\ rest \in Seq(S) /\ Len(rest) = Len(field) - 6 + 1
        /\ SameEnd(Len(field) - 6 + 1, rest, field)
    BY <1>6, <2>1, EndOfSubSeq
  <2>3. Len(rest) \in Nat /\ Len(rest) <= Len(t) /\ Len(field) - 6 + 1 = Len(rest)
    BY <1>1, <1>5, <1>6, <1>7, <2>2
  <2> HIDE DEF rest
  <2>4. SameEnd(Len(rest), field, t)
    BY <1>1, <1>7, <1>8, <2>3, FewerLetters
  <2>5. SameEnd(Len(rest), rest, t)
    BY <2>2, <2>3, <2>4, SameEndTransitive
  <2> QED BY <2>2, <2>5 DEF Ends
<1>12. /\ Parsed(record, m).channel = c /\ Parsed(record, m).run = run
       /\ Parsed(record, m).rest = rest
  <2>1. TrailingRun(field) = run
    BY DEF TrailingRun
  <2> HIDE DEF field, run
  <2> QED BY <1>7, <2>1 DEF Parsed
<1> HIDE DEF run, rest, S
<1> QED BY <1>1, <1>10, <1>11, <1>12 DEF Heard

LEMMA HeardLengths ==
  ASSUME NEW p, Heard(p)
  PROVE  /\ Len(p.run) \in Nat /\ Len(p.rest) \in Nat
         /\ Tail(p.channel) \in Seq(33 .. 126) /\ Len(Tail(p.channel)) \in Nat
         /\ Len(p.channel) = Len(Tail(p.channel)) + 1
         /\ SameEnd(Len(Tail(p.channel)), Tail(p.channel), p.channel)
BY Spelled DEF Heard

(* One letter, any, in front of the end of a name.                         *)
LEMMA Lettered ==
  ASSUME NEW S, NEW rest \in Seq(S), NEW y
  PROVE  LET name == <<y>> \o rest
         IN  /\ Len(name) = Len(rest) + 1 /\ Len(rest) \in Nat
             /\ SameEnd(Len(rest), name, rest) /\ Tail(name) = rest
<1> DEFINE R == S \cup {y}
           one == <<y>>
<1>1. one \in Seq(R) /\ Len(one) = 1 /\ S \subseteq R /\ one[1] = y
  OBVIOUS
<1> HIDE DEF R, one
<1>2. rest \in Seq(R) /\ Len(rest) \in Nat
  BY <1>1, SeqMonotonic
<1>3. /\ one \o rest \in Seq(R) /\ Len(one \o rest) = Len(rest) + 1
      /\ SameEnd(Len(rest), one \o rest, rest)
      /\ \A i \in 1 .. Len(one) + Len(rest) :
            (one \o rest)[i] = IF i <= Len(one) THEN one[i] ELSE rest[i - Len(one)]
  <2>1. one \in Seq(R)
    BY <1>1
  <2>2. rest \in Seq(R)
    BY <1>2
  <2>3. /\ one \o rest \in Seq(R) /\ Len(one \o rest) = Len(one) + Len(rest)
        /\ \A i \in 1 .. Len(one) + Len(rest) :
              (one \o rest)[i] = IF i <= Len(one) THEN one[i] ELSE rest[i - Len(one)]
    BY <2>1, <2>2, ConcatProperties
  <2>4. SameEnd(Len(rest), one \o rest, rest)
    BY <2>1, <2>2, EndOfConcat
  <2> QED BY <1>1, <1>2, <2>3, <2>4
<1>4. \A i \in 1 .. Len(rest) : (one \o rest)[i + 1] = rest[i]
  <2>1. ASSUME NEW i \in 1 .. Len(rest) PROVE (one \o rest)[i + 1] = rest[i]
    <3>1. i + 1 \in 1 .. Len(one) + Len(rest) /\ i + 1 > Len(one) /\ i + 1 - Len(one) = i
      BY <1>1, <1>2
    <3> QED BY <1>1, <1>2, <1>3, <3>1
  <2> QED BY <2>1
<1>5. Tail(one \o rest) = rest
  <2> DEFINE w == one \o rest
  <2>1. w \in Seq(R) /\ Len(w) = Len(rest) + 1 /\ w # <<>>
    BY <1>2, <1>3
  <2>2. \A i \in 1 .. Len(rest) : w[i + 1] = rest[i]
    BY <1>4
  <2> HIDE DEF w
  <2>3. Tail(w) \in Seq(R) /\ Len(Tail(w)) = Len(rest)
    BY <1>2, <2>1
  <2>4. \A i \in 1 .. Len(rest) : Tail(w)[i] = w[i + 1]
    BY <1>2, <2>1
  <2>5. Tail(w) = rest
    BY <1>2, <2>2, <2>3, <2>4, SeqEqual
  <2> QED BY <2>5 DEF w
<1> QED BY <1>2, <1>3, <1>5 DEF one

(* n shares more with the channel c than names that are told apart do.     *)
Close(n, c) == SameEnd(MinSuffix, c, n) \/ Ends(Tail(n), c) \/ Ends(Tail(c), n)

LEMMA Chosen ==
  ASSUME NEW run, NEW names, Len(run) \in Nat, Matched(names, run) # {},
         \A n \in names : Len(n) \in Nat
  PROVE  LET n == CHOOSE k \in Matched(names, run) : TRUE
         IN  n \in names /\ SameEnd(MinSuffix, run, n)
<1> DEFINE n == CHOOSE k \in Matched(names, run) : TRUE
<1>1. n \in Matched(names, run)
  OBVIOUS
<1>2. n \in names /\ SharedSuffixLen(run, n) >= MinSuffix
  BY <1>1 DEF Matched
<1> HIDE DEF n
<1>3. MinSuffix \in Nat
  BY DEF MinSuffix
<1>4. SameEnd(MinSuffix, run, n)
  BY <1>2, <1>3, SharedSuffix
<1> QED BY <1>2, <1>4 DEF n

(* Whatever channel a line is resolved to, its name is close to that of    *)
(* the line's own.                                                         *)
LEMMA ResolvedClose ==
  ASSUME NEW p, Heard(p), NEW m, NEW names, \A n \in names : Len(n) \in Nat,
         ResolveUcsChannel(p, m, names).name \in Channels
  PROVE  Close(ResolveUcsChannel(p, m, names).name, p.channel)
<1> DEFINE c == p.channel
           t == Tail(c)
           name == ResolveUcsChannel(p, m, names).name
<1>1. /\ Len(p.run) \in Nat /\ Len(p.rest) \in Nat /\ Len(t) \in Nat
      /\ Len(c) = Len(t) + 1 /\ SameEnd(Len(t), t, c)
      /\ Ends(t, p.run) /\ Ends(p.rest, t)
  BY HeardLengths DEF Heard
<1>2. /\ Len(name) \in Nat /\ Len(Tail(name)) \in Nat
      /\ SameEnd(Len(Tail(name)), Tail(name), name)
  BY Spelled
<1>3. SameEnd(Len(t), t, p.run)
  BY <1>1 DEF Ends
<1>4. SameEnd(Len(p.rest), p.rest, c) /\ Len(p.rest) <= Len(t)
  <2>1. SameEnd(Len(p.rest), p.rest, t) /\ Len(p.rest) <= Len(t)
    BY <1>1 DEF Ends, SameEnd
  <2>2. SameEnd(Len(p.rest), t, c)
    BY <1>1, <2>1, FewerLetters
  <2> QED BY <2>1, <2>2, SameEndTransitive
<1>5. CASE Matched(names, p.run) # {}
  <2>1. name = CHOOSE k \in Matched(names, p.run) : TRUE
    BY <1>5 DEF ResolveUcsChannel
  <2> HIDE DEF name
  <2>2. SameEnd(MinSuffix, p.run, name)
    BY <1>1, <1>5, <2>1, Chosen
  <2> HIDE DEF c, t
  <2>3. MinSuffix \in Nat
    BY DEF MinSuffix
  <2>4. CASE MinSuffix <= Len(t)
    <3>1. SameEnd(MinSuffix, t, p.run) /\ SameEnd(MinSuffix, t, c)
      BY <1>1, <1>3, <2>3, <2>4, FewerLetters
    <3>2. SameEnd(MinSuffix, c, t) /\ SameEnd(MinSuffix, t, name)
      BY <2>2, <2>3, <3>1, SameEndSymmetric, SameEndTransitive
    <3>3. SameEnd(MinSuffix, c, name)
      BY <2>3, <3>2, SameEndTransitive
    <3> QED BY <3>3 DEF Close, name, c
  <2>5. CASE Len(t) <= MinSuffix
    <3>1. SameEnd(Len(t), p.run, name)
      BY <1>1, <1>2, <2>2, <2>3, <2>5, FewerLetters
    <3>2. SameEnd(Len(t), t, name)
      BY <1>1, <1>3, <3>1, SameEndTransitive
    <3> QED BY <3>2 DEF Close, Ends, name, t, c
  <2> QED BY <1>1, <2>3, <2>4, <2>5 DEF name, c
<1>6. CASE name = p.run
  BY <1>1, <1>6 DEF Close
<1>7. CASE name = p.rest
  <2>1. SameEnd(Len(p.rest), name, c)
    BY <1>4, <1>7
  <2>2. Len(Tail(name)) <= Len(name) /\ Len(name) = Len(p.rest)
    BY <1>2, <1>7 DEF SameEnd
  <2> HIDE DEF name, c
  <2>3. SameEnd(Len(Tail(name)), name, c)
    BY <1>1, <1>2, <2>1, <2>2, FewerLetters
  <2>4. SameEnd(Len(Tail(name)), Tail(name), c)
    BY <1>2, <2>3, SameEndTransitive
  <2> QED BY <2>4 DEF Close, Ends, name, c
<1>8. CASE \E y : name = <<y>> \o p.rest
  <2>1. PICK y : name = <<y>> \o p.rest
    BY <1>8
  <2>2. PICK S : p.rest \in Seq(S)
    BY DEF Heard
  <2> HIDE DEF name
  <2>3. Tail(name) = p.rest
    BY <2>1, <2>2, Lettered
  <2> HIDE DEF c
  <2> QED BY <1>4, <2>3 DEF Close, Ends, name, c
<1>9. \/ Matched(names, p.run) # {}
      \/ name = p.run
      \/ name = Repaired(p, m)
  BY DEF ResolveUcsChannel
<1>10. Repaired(p, m) = p.rest \/ \E y : Repaired(p, m) = <<y>> \o p.rest
  BY DEF Repaired
<1> HIDE DEF name
<1> QED BY <1>5, <1>6, <1>7, <1>8, <1>9, <1>10 DEF name

-----------------------------------------------------------------------------
(* The records of a payload, one after the other                           *)

IsReading(f, s, chat, m, L) ==
  f = [n \in 0 .. L |-> IF n = 0 THEN s ELSE ReadRecord(f[n - 1], chat[n], m)]

LEMMA ReadingExists ==
  ASSUME NEW s, NEW chat, NEW m, NEW L \in Nat
  PROVE  \E f : IsReading(f, s, chat, m, L)
<1> DEFINE S == {n \in Nat : \E f : IsReading(f, s, chat, m, n)}
<1>1. 0 \in S
  <2> DEFINE f == [n \in 0 .. 0 |-> s]
  <2>1. f = [n \in 0 .. 0 |-> IF n = 0 THEN s ELSE ReadRecord(f[n - 1], chat[n], m)]
    OBVIOUS
  <2> QED BY <2>1 DEF IsReading
<1>2. ASSUME NEW n \in Nat, n \in S PROVE n + 1 \in S
  <2>1. PICK f : IsReading(f, s, chat, m, n)
    BY <1>2
  <2>2. /\ f[0] = s
        /\ \A k \in 1 .. n : f[k] = ReadRecord(f[k - 1], chat[k], m)
    BY <2>1 DEF IsReading
  <2> DEFINE last == ReadRecord(f[n], chat[n + 1], m)
             g == [k \in 0 .. n + 1 |-> IF k = n + 1 THEN last ELSE f[k]]
  <2>3. g[0] = s /\ \A k \in 0 .. n : g[k] = f[k]
    BY <2>2
  <2>4. g[n + 1] = last
    OBVIOUS
  <2>5. ASSUME NEW k \in 0 .. n + 1
        PROVE  g[k] = IF k = 0 THEN s ELSE ReadRecord(g[k - 1], chat[k], m)
    <3> HIDE DEF g
    <3>1. CASE k = 0
      BY <2>3, <3>1
    <3>2. CASE k = n + 1
      <4>1. k # 0 /\ k - 1 = n /\ g[k - 1] = f[n]
        BY <2>3, <3>2
      <4> QED BY <2>4, <3>2, <4>1
    <3>3. CASE k \in 1 .. n
      <4>1. k # 0 /\ g[k] = f[k] /\ g[k - 1] = f[k - 1]
        BY <2>3, <3>3
      <4> QED BY <2>2, <3>3, <4>1
    <3> QED BY <3>1, <3>2, <3>3
  <2>6. g = [k \in 0 .. n + 1 |-> IF k = 0 THEN s ELSE ReadRecord(g[k - 1], chat[k], m)]
    <3>1. g = [k \in 0 .. n + 1 |-> g[k]]
      OBVIOUS
    <3> HIDE DEF g
    <3> QED BY <2>5, <3>1
  <2> HIDE DEF g
  <2>7. IsReading(g, s, chat, m, n + 1)
    BY <2>6 DEF IsReading
  <2> QED BY <2>7
<1>3. Nat \subseteq S
  <2> HIDE DEF S
  <2> QED BY <1>1, <1>2, Induction
<1> QED BY <1>3

LEMMA ReadChatRuns ==
  ASSUME NEW s, NEW chat, NEW m, Len(chat) \in Nat
  PROVE  \E f : /\ f[0] = s
                /\ \A n \in 1 .. Len(chat) : f[n] = ReadRecord(f[n - 1], chat[n], m)
                /\ ReadChat(s, chat, m) = f[Len(chat)]
<1> DEFINE L == Len(chat)
           run == CHOOSE f : f = [n \in 0 .. L |->
                    IF n = 0 THEN s ELSE ReadRecord(f[n - 1], chat[n], m)]
<1>1. \E f : f = [n \in 0 .. L |-> IF n = 0 THEN s ELSE ReadRecord(f[n - 1], chat[n], m)]
  <2>1. \E f : IsReading(f, s, chat, m, Len(chat))
    BY ReadingExists
  <2> QED BY <2>1 DEF IsReading
<1>2. run = [n \in 0 .. L |-> IF n = 0 THEN s ELSE ReadRecord(run[n - 1], chat[n], m)]
  BY <1>1
<1>3. ReadChat(s, chat, m) = run[L]
  BY DEF ReadChat
<1> HIDE DEF run
<1>4. run[0] = s /\ \A n \in 1 .. L : run[n] = ReadRecord(run[n - 1], chat[n], m)
  BY <1>2
<1> QED BY <1>3, <1>4

(* What is true of the session after every record: known names are         *)
(* sequences, and what was published is close to what was said.            *)
IsClose(e) == e.channel \in Channels /\ (e.name \in Channels => Close(e.name, e.channel))

Spoken(names) == \A n \in names : Len(n) \in Nat

Listened(s) ==
  /\ Spoken(s.known)
  /\ \E S : s.messages \in Seq(S)
  /\ \A i \in 1 .. Len(s.messages) : IsClose(s.messages[i])

LEMMA ResolvedSpoken ==
  ASSUME NEW p, Heard(p), NEW m, NEW names, Spoken(names)
  PROVE  Spoken(ResolveUcsChannel(p, m, names).known)
<1>1. ResolveUcsChannel(p, m, names).known \in {names, names \cup {Repaired(p, m)}}
  BY DEF ResolveUcsChannel
<1>2. Len(p.rest) \in Nat
  BY HeardLengths
<1>3. PICK S : p.rest \in Seq(S)
  BY DEF Heard
<1>4. Repaired(p, m) = p.rest \/ \E y : Repaired(p, m) = <<y>> \o p.rest
  BY DEF Repaired
<1>5. CASE Repaired(p, m) = p.rest
  BY <1>1, <1>2, <1>5 DEF Spoken
<1>6. CASE \E y : Repaired(p, m) = <<y>> \o p.rest
  <2>1. PICK y : Repaired(p, m) = <<y>> \o p.rest
    BY <1>6
  <2>2. Len(Repaired(p, m)) = Len(p.rest) + 1
    BY <1>3, <2>1, Lettered
  <2>3. Len(Repaired(p, m)) \in Nat
    BY <1>2, <2>2
  <2> QED BY <1>1, <2>3 DEF Spoken
<1> QED BY <1>4, <1>5, <1>6

(* A line more at the end.                                                 *)
LEMMA OneMoreLine ==
  ASSUME NEW lines, \E S : lines \in Seq(S), NEW e
  PROVE  /\ \E S : Append(lines, e) \in Seq(S)
         /\ \A i \in 1 .. Len(Append(lines, e)) :
               Append(lines, e)[i] = e \/ (i \in 1 .. Len(lines) /\ Append(lines, e)[i] = lines[i])
<1>1. PICK S : lines \in Seq(S)
  OBVIOUS
<1> DEFINE R == S \cup {e}
<1>2. S \subseteq R /\ e \in R
  OBVIOUS
<1> HIDE DEF R
<1>3. lines \in Seq(R)
  BY <1>1, <1>2, SeqMonotonic
<1>4. /\ Append(lines, e) \in Seq(R) /\ Len(Append(lines, e)) = Len(lines) + 1
      /\ \A i \in 1 .. Len(lines) : Append(lines, e)[i] = lines[i]
      /\ Append(lines, e)[Len(lines) + 1] = e
      /\ Len(lines) \in Nat
  BY <1>2, <1>3, AppendProperties
<1> QED BY <1>4

LEMMA ListenedStep ==
  ASSUME NEW s, Listened(s), NEW record \in Record, NEW m
  PROVE  Listened(ReadRecord(s, record, m))
<1> DEFINE p == Parsed(record, m)
<1>1. CASE ~IsSound(record, m)
  BY <1>1 DEF ReadRecord
<1>2. CASE IsSound(record, m)
  <2>1. Heard(p)
    BY <1>2, ParsedRecord
  <2> HIDE DEF p
  <2>2. ReadRecord(s, record, m) = UcsChatMessage(s, p)
    BY <1>2 DEF ReadRecord, p
  <2>3. PICK key : /\ UcsChatMessage(s, p).known = ResolveUcsChannel(p, key, s.known).known
                   /\ UcsChatMessage(s, p).messages =
                        Append(s.messages, [channel |-> p.channel,
                                            name |-> ResolveUcsChannel(p, key, s.known).name])
    BY DEF UcsChatMessage
  <2> DEFINE e == [channel |-> p.channel, name |-> ResolveUcsChannel(p, key, s.known).name]
  <2>4. Spoken(s.known) /\ (\E S : s.messages \in Seq(S))
        /\ \A i \in 1 .. Len(s.messages) : IsClose(s.messages[i])
    BY DEF Listened
  <2>5. Spoken(UcsChatMessage(s, p).known)
    BY <2>1, <2>3, <2>4, ResolvedSpoken
  <2>6. IsClose(e)
    <3>1. e.channel = p.channel /\ e.name = ResolveUcsChannel(p, key, s.known).name
      OBVIOUS
    <3> HIDE DEF e
    <3>2. p.channel \in Channels
      BY <2>1 DEF Heard
    <3> QED BY <2>1, <2>4, <3>1, <3>2, ResolvedClose DEF IsClose, Spoken
  <2> HIDE DEF e
  <2>7. UcsChatMessage(s, p).messages = Append(s.messages, e)
    BY <2>3 DEF e
  <2>8. /\ \E S : Append(s.messages, e) \in Seq(S)
        /\ \A i \in 1 .. Len(Append(s.messages, e)) : IsClose(Append(s.messages, e)[i])
    BY <2>4, <2>6, OneMoreLine
  <2> QED BY <2>2, <2>5, <2>7, <2>8 DEF Listened
<1> QED BY <1>1, <1>2

UcsInv ==
  /\ connection.number \in Nat
  /\ Spoken(known)
  /\ \A i \in DOMAIN messages : IsClose(messages[i])

(* What a payload's records make of the session, one step at a time.       *)
LEMMA Payload ==
  ASSUME NEW payload \in Payloads, UcsInv
  PROVE  /\ payload.chat \in Seq(Record) /\ Len(payload.chat) \in Nat
         /\ Listened(Listening(payload))
         /\ Listening(payload).known = known \cup ParseUcsChannels(payload)
         /\ Listening(payload).messages = <<>>
         /\ Spoken(ParseUcsChannels(payload))
<1>1. payload.chat \in Seq(Record) /\ payload.clear \subseteq Seq(33 .. 126)
  BY PayloadsAssumption
<1>2. Spoken(ParseUcsChannels(payload))
  BY <1>1 DEF ParseUcsChannels, Spoken
<1>3. Spoken(known \cup ParseUcsChannels(payload))
  BY <1>2 DEF Spoken, UcsInv
<1>4. <<>> \in Seq({}) /\ Len(<<>>) = 0
  OBVIOUS
<1>5. /\ Listening(payload).known = known \cup ParseUcsChannels(payload)
      /\ Listening(payload).messages = <<>>
  BY DEF Listening
<1> QED BY <1>1, <1>2, <1>3, <1>4, <1>5 DEF Listened

LEMMA DecodeUcsInv ==
  ASSUME UcsInv, NEW d, NEW payload \in Payloads, DecodeUcs(d, payload)
  PROVE  UcsInv'
<1>1. CASE Refused(d, payload) # ""
  <2>1. known' = known /\ messages' = <<>> /\ connection' = connection
    BY <1>1 DEF DecodeUcs
  <2>2. DOMAIN messages' = {}
    BY <2>1
  <2> QED BY <2>1, <2>2 DEF UcsInv, Spoken
<1>2. CASE Refused(d, payload) = ""
  <2> DEFINE s == Listening(payload)
             m == connection.mask
             chat == payload.chat
             L == Len(chat)
  <2>1. /\ known' = ReadChat(s, chat, m).known
        /\ messages' = ReadChat(s, chat, m).messages
        /\ connection' = connection
    BY <1>2 DEF DecodeUcs
  <2>2. L \in Nat /\ Listened(s) /\ chat \in Seq(Record)
    BY Payload
  <2> HIDE DEF s, m, chat
  <2>3. PICK f : /\ f[0] = s
                 /\ \A n \in 1 .. L : f[n] = ReadRecord(f[n - 1], chat[n], m)
                 /\ ReadChat(s, chat, m) = f[L]
    BY <2>2, ReadChatRuns
  <2> DEFINE S == {n \in Nat : n <= L => Listened(f[n])}
  <2>4. 0 \in S
    BY <2>2, <2>3
  <2>5. ASSUME NEW n \in Nat, n \in S PROVE n + 1 \in S
    <3> SUFFICES ASSUME n + 1 <= L PROVE Listened(f[n + 1])
      OBVIOUS
    <3>1. n + 1 \in 1 .. L /\ n + 1 - 1 = n /\ Listened(f[n])
      BY <2>2, <2>5
    <3>2. chat[n + 1] \in Record
      BY <2>2, <3>1, ElementOfSeq
    <3>3. f[n + 1] = ReadRecord(f[n], chat[n + 1], m)
      BY <2>3, <3>1
    <3> QED BY <3>1, <3>2, <3>3, ListenedStep
  <2>6. Nat \subseteq S
    <3> HIDE DEF S
    <3> QED BY <2>4, <2>5, Induction
  <2>7. Listened(f[L])
    BY <2>2, <2>6
  <2>8. Spoken(known') /\ \A i \in 1 .. Len(messages') : IsClose(messages'[i])
    BY <2>1, <2>3, <2>7 DEF Listened
  <2>9. DOMAIN messages' = 1 .. Len(messages')
    BY <2>1, <2>3, <2>7 DEF Listened
  <2> QED BY <2>1, <2>8, <2>9 DEF UcsInv, Spoken, IsClose, Close
<1> QED BY <1>1, <1>2

LEMMA NextUcs == UcsInv /\ [UcsNext]_ucs_vars => UcsInv'
<1> SUFFICES ASSUME UcsInv, [UcsNext]_ucs_vars PROVE UcsInv'
  OBVIOUS
<1>1. ASSUME NEW d \in Directions, NEW p \in Payloads, DecodeUcs(d, p) PROVE UcsInv'
  BY <1>1, DecodeUcsInv
<1>2. CASE ResetCommunication
  <2>1. known' = {} /\ messages' = <<>> /\ DOMAIN messages' = {} /\ connection' = connection
    BY <1>2 DEF ResetCommunication
  <2> QED BY <2>1 DEF UcsInv, Spoken
<1>3. CASE UNCHANGED <<known, messages>> /\ connection'.number \in Nat
  BY <1>3 DEF UcsInv, Spoken
<1>4. \/ \E d \in Directions, p \in Payloads : DecodeUcs(d, p)
      \/ ResetCommunication
      \/ UNCHANGED <<known, messages>> /\ connection'.number \in Nat
  BY DEF UcsNext, ucs_vars, Reconnect, UcsInv
<1> QED BY <1>1, <1>2, <1>3, <1>4

LEMMA ApartIsNotClose ==
  ASSUME NEW c \in ToldApart, NEW d \in Channels \ {c}
  PROVE  ~Close(d, c)
<1>1. c \in Channels /\ SharedSuffixLen(c, d) < MinSuffix /\ ~Ends(Tail(d), c) /\ ~Ends(Tail(c), d)
  BY DEF ToldApart
<1>2. Len(c) \in Nat /\ Len(d) \in Nat
  BY <1>1, Spelled
<1>3. MinSuffix \in Nat
  BY DEF MinSuffix
<1>4. SharedSuffixLen(c, d) \in Nat /\ (SharedSuffixLen(c, d) >= MinSuffix <=> SameEnd(MinSuffix, c, d))
  BY <1>2, <1>3, SharedSuffix
<1> QED BY <1>1, <1>3, <1>4 DEF Close

(* No line is published under the name of another channel than its own, of *)
(* those that can be told apart: what is resolved ends as the name does    *)
(* that was said, whatever the mask and the framing.                       *)
THEOREM NeverUnderAnotherName == UcsSpec => []NeverAnotherChannel
<1>1. UcsInit => UcsInv
  <2> SUFFICES ASSUME UcsInit PROVE UcsInv
    OBVIOUS
  <2>1. /\ known = {} /\ messages = <<>> /\ DOMAIN messages = {}
        /\ connection.number = 1
    BY DEF UcsInit
  <2> QED BY <2>1 DEF UcsInv, Spoken
<1>2. UcsInv => NeverAnotherChannel
  BY ApartIsNotClose DEF UcsInv, IsClose, NeverAnotherChannel
<1> QED BY <1>1, <1>2, NextUcs, PTL DEF UcsSpec

-----------------------------------------------------------------------------
(* What is learned stays, unless a word like it is read in the clear.  c   *)
(* is a name that no other channel shares four last letters with.          *)

LEMMA TailEnd ==
  ASSUME NEW S, NEW s \in Seq(S), s # <<>>
  PROVE  SameEnd(Len(s) - 1, Tail(s), s) /\ Len(Tail(s)) = Len(s) - 1 /\ Len(s) \in Nat \ {0}
<1>1. Len(s) \in Nat \ {0} /\ Len(Tail(s)) = Len(s) - 1 /\ Tail(s) \in Seq(S)
  OBVIOUS
<1>2. \A i \in 1 .. Len(Tail(s)) : Tail(s)[i] = s[i + 1]
  BY <1>1
<1> QED BY <1>1, <1>2 DEF SameEnd

LEMMA OneOfAKindType ==
  ASSUME NEW c \in OneOfAKind
  PROVE  /\ c \in Channels /\ c \in ToldApart /\ Len(c) \in Nat /\ Len(c) >= 6
         /\ \A d \in Channels \ {c} : ~SameEnd(4, c, d) /\ ~SameEnd(5, c, d)
<1>1. /\ c \in ToldApart /\ Len(c) > 5
      /\ \A d \in Channels \ {c} : ~(SharedSuffixLen(c, d) >= 4)
  <2>1. /\ c \in ToldApart /\ Len(c) > 5
        /\ \A d \in Channels \ {c} : SharedSuffixLen(c, d) < 4
    BY DEF OneOfAKind, MinSuffix
  <2>2. c \in Channels
    BY <2>1 DEF ToldApart
  <2>3. \A d \in Channels : SharedSuffixLen(c, d) \in Nat
    BY <2>2, Spelled, SharedSuffix
  <2> QED BY <2>1, <2>3
<1>2. c \in Channels /\ Len(c) \in Nat
  BY <1>1, Spelled DEF ToldApart
<1>3. ASSUME NEW d \in Channels \ {c} PROVE ~SameEnd(4, c, d) /\ ~SameEnd(5, c, d)
  <2>1. Len(d) \in Nat
    BY Spelled
  <2>2. ~SameEnd(4, c, d)
    BY <1>1, <1>2, <2>1, SharedSuffix
  <2> QED BY <1>2, <2>1, <2>2, FewerLetters
<1> QED BY <1>1, <1>2, <1>3

LEMMA LearnedAlone ==
  ASSUME NEW c, Len(c) \in Nat, NEW names, Spoken(names)
  PROVE  Learned(c, names) <=> c \in names /\ \A k \in names \ {c} : ~SameEnd(5, k, c)
<1>1. \A k \in names : /\ SharedSuffixLen(k, c) \in Nat
                       /\ SharedSuffixLen(k, c) >= 5 <=> SameEnd(5, k, c)
  BY SharedSuffix DEF Spoken
<1> QED BY <1>1 DEF Learned, Alone, MinSuffix

(* A run with five letters of c is matched to c and nothing else.          *)
LEMMA MatchedAlone ==
  ASSUME NEW c, Len(c) \in Nat, NEW names, Spoken(names), Learned(c, names),
         NEW run, Len(run) \in Nat, SameEnd(5, run, c)
  PROVE  Matched(names, run) = {c}
<1> DEFINE near == {n \in names : SharedSuffixLen(run, n) >= MinSuffix}
           best == {n \in near : \A o \in near : SharedSuffixLen(run, o) <= SharedSuffixLen(run, n)}
<1>1. c \in names /\ \A k \in names \ {c} : ~SameEnd(5, k, c)
  BY LearnedAlone
<1>2. \A n \in names : /\ SharedSuffixLen(run, n) \in Nat
                       /\ SharedSuffixLen(run, n) >= 5 <=> SameEnd(5, run, n)
  BY SharedSuffix DEF Spoken
<1>3. ASSUME NEW n \in names, SameEnd(5, run, n) PROVE n = c
  <2>1. SameEnd(5, n, c)
    BY <1>3, SameEndSymmetric, SameEndTransitive
  <2> QED BY <1>1, <2>1
<1>4. near = {c}
  BY <1>1, <1>2, <1>3 DEF MinSuffix
<1>5. best = {c}
  <2> HIDE DEF near
  <2> QED BY <1>1, <1>2, <1>4
<1>6. Matched(names, run) = {n \in best : \A o \in best \ {n} : Before(o, n)}
  BY DEF Matched
<1> HIDE DEF best
<1> QED BY <1>5, <1>6

(* What a letter is put before, or nothing, is in the run: a name of five  *)
(* letters of c would have made a match, or be of another channel that     *)
(* shares four.                                                            *)
LEMMA RepairedApart ==
  ASSUME NEW c \in OneOfAKind, NEW p, Heard(p), p.channel # c, IsDominant(p),
         ~SameEnd(5, p.run, c), NEW m
  PROVE  ~SameEnd(5, Repaired(p, m), c)
<1> DEFINE k == Repaired(p, m)
           t == Tail(p.channel)
<1> SUFFICES ASSUME SameEnd(5, k, c) PROVE FALSE
  OBVIOUS
<1>1. PICK S : p.run \in Seq(S) /\ p.rest \in Seq(S)
  BY DEF Heard
<1>2. /\ Len(p.run) \in Nat /\ Len(p.rest) \in Nat /\ Len(t) \in Nat
      /\ SameEnd(Len(t), t, p.channel) /\ p.channel \in Channels
  BY HeardLengths DEF Heard
<1>3. Len(c) \in Nat /\ ~SameEnd(4, c, p.channel)
  BY <1>2, OneOfAKindType
<1>4. k = p.rest \/ \E y : k = <<y>> \o p.rest
  BY DEF Repaired
<1>5. /\ Len(k) \in Nat /\ SameEnd(Len(p.rest), k, p.rest)
      /\ k = p.rest \/ Len(k) = Len(p.rest) + 1
  <2>1. CASE k = p.rest
    <3> HIDE DEF k
    <3> QED BY <1>2, <2>1 DEF SameEnd
  <2>2. CASE \E y : k = <<y>> \o p.rest
    <3>1. PICK y : k = <<y>> \o p.rest
      BY <2>2
    <3> HIDE DEF k
    <3>2. Len(k) = Len(p.rest) + 1 /\ SameEnd(Len(p.rest), k, p.rest)
      BY <1>1, <3>1, Lettered
    <3> QED BY <1>2, <3>2
  <2> QED BY <1>4, <2>1, <2>2
<1>6. SameEnd(Len(p.rest), p.rest, p.run)
  <2>1. CASE p.run = p.rest
    BY <1>2, <2>1 DEF SameEnd
  <2>2. CASE Len(p.run) = Len(p.rest) + 1 /\ Tail(p.run) = p.rest
    <3>1. p.run # <<>>
      BY <1>2, <2>2
    <3> QED BY <1>1, <1>2, <2>2, <3>1, TailEnd
  <2> QED BY <2>1, <2>2 DEF IsDominant
<1> HIDE DEF k
<1>7. CASE 5 <= Len(p.rest)
  <2>1. SameEnd(5, k, p.rest) /\ SameEnd(5, p.rest, p.run)
    BY <1>2, <1>5, <1>6, <1>7, FewerLetters
  <2>2. SameEnd(5, p.run, p.rest) /\ SameEnd(5, p.rest, k)
    BY <2>1, SameEndSymmetric
  <2>3. SameEnd(5, p.run, k)
    BY <2>2, SameEndTransitive
  <2>4. SameEnd(5, p.run, c)
    BY <2>3, SameEndTransitive
  <2> QED BY <2>4
<1>8. CASE Len(p.rest) < 5
  <2>1. Len(k) >= 5
    BY DEF SameEnd
  <2>2. Len(p.rest) = 4
    <3> DEFINE a == Len(k)
               b == Len(p.rest)
    <3>1. (a = b \/ a = b + 1) /\ a \in Nat /\ b \in Nat /\ a >= 5 /\ b < 5
      BY <1>2, <1>5, <1>8, <2>1
    <3> HIDE DEF a, b
    <3>2. b = 4
      BY <3>1
    <3> QED BY <3>2 DEF b
  <2>3. SameEnd(4, k, p.rest) /\ SameEnd(4, k, c)
    BY <1>3, <1>5, <2>2, FewerLetters
  <2>4. SameEnd(4, c, p.rest)
    BY <2>3, SameEndSymmetric, SameEndTransitive
  <2>5. SameEnd(4, p.rest, t) /\ Len(t) >= 4
    BY <2>2 DEF Heard, Ends, SameEnd
  <2>6. SameEnd(4, t, p.channel)
    <3> HIDE DEF t
    <3>1. Len(p.channel) \in Nat
      BY <1>2, Spelled
    <3> QED BY <1>2, <2>5, <3>1, FewerLetters
  <2>7. SameEnd(4, c, p.channel)
    <3>1. SameEnd(4, c, t)
      BY <2>4, <2>5, SameEndTransitive
    <3> QED BY <2>6, <3>1, SameEndTransitive
  <2> QED BY <1>3, <2>7
<1> QED BY <1>2, <1>7, <1>8

LEMMA ResolvedLearned ==
  ASSUME NEW c \in OneOfAKind, NEW names, Spoken(names), Learned(c, names),
         NEW p, Heard(p), NEW m
  PROVE  /\ Learned(c, ResolveUcsChannel(p, m, names).known)
         /\ p.channel = c => ResolveUcsChannel(p, m, names).name = c
<1>1. c \in Channels /\ Len(c) \in Nat /\ Len(c) >= 6
  BY OneOfAKindType
<1>2. Len(p.run) \in Nat
  BY HeardLengths
<1>3. CASE SameEnd(5, p.run, c)
  <2>1. Matched(names, p.run) = {c}
    BY <1>1, <1>2, <1>3, MatchedAlone
  <2>2. ResolveUcsChannel(p, m, names) = [name |-> CHOOSE n \in {c} : TRUE, known |-> names]
    BY <2>1 DEF ResolveUcsChannel
  <2>3. (CHOOSE n \in {c} : TRUE) = c
    OBVIOUS
  <2> QED BY <2>2, <2>3
<1>4. CASE ~SameEnd(5, p.run, c)
  <2>1. p.channel # c
    <3> SUFFICES ASSUME p.channel = c PROVE SameEnd(5, p.run, c)
      BY <1>4
    <3>1. /\ Len(Tail(c)) \in Nat /\ Len(Tail(c)) >= 5
          /\ SameEnd(Len(Tail(c)), Tail(c), c) /\ SameEnd(Len(Tail(c)), Tail(c), p.run)
      BY <1>1, HeardLengths DEF Heard, Ends
    <3>2. SameEnd(5, Tail(c), c) /\ SameEnd(5, Tail(c), p.run)
      BY <1>1, <1>2, <3>1, FewerLetters
    <3> QED BY <3>2, SameEndSymmetric, SameEndTransitive
  <2> DEFINE k == Repaired(p, m)
             after == ResolveUcsChannel(p, m, names).known
  <2>2. after = names \/ (IsDominant(p) /\ after = names \cup {k})
    BY DEF ResolveUcsChannel
  <2>3. Spoken(after)
    BY ResolvedSpoken
  <2>4. c \in names /\ \A n \in names \ {c} : ~SameEnd(5, n, c)
    BY <1>1, LearnedAlone
  <2>5. IsDominant(p) => ~SameEnd(5, k, c)
    BY <1>4, <2>1, RepairedApart
  <2> HIDE DEF k, after
  <2>6. c \in after /\ \A n \in after \ {c} : ~SameEnd(5, n, c)
    BY <2>2, <2>4, <2>5
  <2>7. Learned(c, after)
    BY <1>1, <2>3, <2>6, LearnedAlone
  <2> QED BY <2>1, <2>7 DEF after
<1> QED BY <1>3, <1>4

(* c is learned, and every line of its channel so far is published as c.   *)
StillKnown(c, s) ==
  /\ Learned(c, s.known)
  /\ \A i \in 1 .. Len(s.messages) :
        s.messages[i].channel = c => s.messages[i].name = c

LEMMA KeptStep ==
  ASSUME NEW c \in OneOfAKind, NEW s, Listened(s), StillKnown(c, s), NEW record \in Record, NEW m
  PROVE  StillKnown(c, ReadRecord(s, record, m))
<1> DEFINE p == Parsed(record, m)
<1>1. CASE ~IsSound(record, m)
  BY <1>1 DEF ReadRecord
<1>2. CASE IsSound(record, m)
  <2>1. Heard(p)
    BY <1>2, ParsedRecord
  <2> HIDE DEF p
  <2>2. ReadRecord(s, record, m) = UcsChatMessage(s, p)
    BY <1>2 DEF ReadRecord, p
  <2>3. PICK key : /\ UcsChatMessage(s, p).known = ResolveUcsChannel(p, key, s.known).known
                   /\ UcsChatMessage(s, p).messages =
                        Append(s.messages, [channel |-> p.channel,
                                            name |-> ResolveUcsChannel(p, key, s.known).name])
    BY DEF UcsChatMessage
  <2> DEFINE e == [channel |-> p.channel, name |-> ResolveUcsChannel(p, key, s.known).name]
  <2>4. /\ Learned(c, ResolveUcsChannel(p, key, s.known).known)
        /\ p.channel = c => ResolveUcsChannel(p, key, s.known).name = c
    BY <2>1, ResolvedLearned DEF Listened, StillKnown
  <2>5. e.channel = c => e.name = c
    BY <2>4
  <2>6. UcsChatMessage(s, p).messages = Append(s.messages, e)
    BY <2>3
  <2> HIDE DEF e
  <2>7. \A i \in 1 .. Len(Append(s.messages, e)) :
           Append(s.messages, e)[i].channel = c => Append(s.messages, e)[i].name = c
    <3>1. \E S : s.messages \in Seq(S)
      BY DEF Listened
    <3>2. \A i \in 1 .. Len(Append(s.messages, e)) :
             \/ Append(s.messages, e)[i] = e
             \/ i \in 1 .. Len(s.messages) /\ Append(s.messages, e)[i] = s.messages[i]
      BY <3>1, OneMoreLine
    <3> QED BY <2>5, <3>2 DEF StillKnown
  <2> QED BY <2>2, <2>3, <2>4, <2>6, <2>7 DEF StillKnown
<1> QED BY <1>1, <1>2

LEMMA DecodeUcsKept ==
  ASSUME UcsInv, NEW c \in OneOfAKind, Learned(c, known), Alone(c, heard'),
         NEW d, NEW payload \in Payloads, DecodeUcs(d, payload)
  PROVE  Learned(c, known') /\ PublishedAs(c, messages')
<1>1. CASE Refused(d, payload) # ""
  <2>1. known' = known /\ messages' = <<>>
    BY <1>1 DEF DecodeUcs
  <2>2. DOMAIN messages' = {}
    BY <2>1
  <2> QED BY <2>1, <2>2 DEF PublishedAs
<1>2. CASE Refused(d, payload) = ""
  <2> DEFINE s == Listening(payload)
             m == connection.mask
             chat == payload.chat
             L == Len(chat)
  <2>1. /\ known' = ReadChat(s, chat, m).known
        /\ messages' = ReadChat(s, chat, m).messages
        /\ ParseUcsChannels(payload) \subseteq heard'
    BY <1>2 DEF DecodeUcs
  <2>2. /\ L \in Nat /\ Listened(s) /\ chat \in Seq(Record)
        /\ s.known = known \cup ParseUcsChannels(payload) /\ s.messages = <<>>
        /\ Spoken(ParseUcsChannels(payload))
    BY Payload
  <2>3. StillKnown(c, s)
    <3> HIDE DEF s
    <3>1. Spoken(known) /\ Spoken(s.known)
      BY <2>2 DEF Listened, UcsInv
    <3>2. Len(c) \in Nat
      BY OneOfAKindType
    <3>3. c \in known /\ \A k \in known \ {c} : ~SameEnd(5, k, c)
      BY <3>1, <3>2, LearnedAlone
    <3>4. ASSUME NEW k \in ParseUcsChannels(payload) \ {c} PROVE ~SameEnd(5, k, c)
      <4>1. Len(k) \in Nat
        BY <2>2 DEF Spoken
      <4>2. SharedSuffixLen(k, c) \in Nat /\ SharedSuffixLen(k, c) < 5
        BY <2>1, <3>2, <4>1, SharedSuffix DEF Alone, MinSuffix
      <4> QED BY <3>2, <4>1, <4>2, SharedSuffix
    <3>5. c \in s.known /\ \A k \in s.known \ {c} : ~SameEnd(5, k, c)
      BY <2>2, <3>3, <3>4
    <3>6. Learned(c, s.known)
      BY <3>1, <3>2, <3>5, LearnedAlone
    <3>7. Len(s.messages) = 0
      BY <2>2
    <3> QED BY <3>6, <3>7 DEF StillKnown
  <2> HIDE DEF s, m, chat
  <2>4. PICK f : /\ f[0] = s
                 /\ \A n \in 1 .. L : f[n] = ReadRecord(f[n - 1], chat[n], m)
                 /\ ReadChat(s, chat, m) = f[L]
    BY <2>2, ReadChatRuns
  <2> DEFINE S == {n \in Nat : n <= L => Listened(f[n]) /\ StillKnown(c, f[n])}
  <2>5. 0 \in S
    BY <2>2, <2>3, <2>4
  <2>6. ASSUME NEW n \in Nat, n \in S PROVE n + 1 \in S
    <3> SUFFICES ASSUME n + 1 <= L PROVE Listened(f[n + 1]) /\ StillKnown(c, f[n + 1])
      OBVIOUS
    <3>1. n + 1 \in 1 .. L /\ n + 1 - 1 = n /\ Listened(f[n]) /\ StillKnown(c, f[n])
      BY <2>2, <2>6
    <3>2. chat[n + 1] \in Record
      BY <2>2, <3>1, ElementOfSeq
    <3>3. f[n + 1] = ReadRecord(f[n], chat[n + 1], m)
      BY <2>4, <3>1
    <3> QED BY <3>1, <3>2, <3>3, ListenedStep, KeptStep
  <2>7. Nat \subseteq S
    <3> HIDE DEF S
    <3> QED BY <2>5, <2>6, Induction
  <2>8. Listened(f[L]) /\ StillKnown(c, f[L])
    BY <2>2, <2>7
  <2>9. DOMAIN messages' = 1 .. Len(messages')
    BY <2>1, <2>4, <2>8 DEF Listened
  <2>10. /\ Learned(c, known')
         /\ \A i \in 1 .. Len(messages') : messages'[i].channel = c => messages'[i].name = c
    BY <2>1, <2>4, <2>8 DEF StillKnown
  <2> QED BY <2>9, <2>10 DEF PublishedAs
<1> QED BY <1>1, <1>2

(* A learned name is kept until a reset or until a word that ends as it    *)
(* does is read in the clear, and every line of its channel is published   *)
(* under it: it takes five letters to be matched, and neither a record of  *)
(* its channel nor one of another brings a second such name.               *)
THEOREM LearnedNamesAreKept == UcsSpec => LearnedNamesStay
<1>1. UcsInit => UcsInv
  <2> SUFFICES ASSUME UcsInit PROVE UcsInv
    OBVIOUS
  <2>1. /\ known = {} /\ messages = <<>> /\ DOMAIN messages = {}
        /\ connection.number = 1
    BY DEF UcsInit
  <2> QED BY <2>1 DEF UcsInv, Spoken
<1>2. ASSUME UcsInv, [UcsNext]_ucs_vars
      PROVE  [\A c \in OneOfAKind :
                Learned(c, known) /\ Alone(c, heard') /\ ~ResetCommunication
                => /\ Learned(c, known')
                   /\ connection' = connection => PublishedAs(c, messages')]_ucs_vars
  <2> SUFFICES ASSUME UcsNext, NEW c \in OneOfAKind, Learned(c, known),
                      Alone(c, heard'), ~ResetCommunication
               PROVE  /\ Learned(c, known')
                      /\ connection' = connection => PublishedAs(c, messages')
    BY <1>2
  <2>1. CASE \E d \in Directions, p \in Payloads : DecodeUcs(d, p)
    BY <1>2, <2>1, DecodeUcsKept
  <2>2. ASSUME NEW m \in Masks, Reconnect(m)
        PROVE  known' = known /\ connection' # connection
    <3>1. connection.number \in Nat /\ connection'.number = connection.number + 1
      BY <1>2, <2>2 DEF Reconnect, UcsInv
    <3> QED BY <2>2, <3>1 DEF Reconnect
  <2> QED BY <2>1, <2>2 DEF UcsNext
<1> QED BY <1>1, <1>2, NextUcs, PTL DEF UcsSpec, LearnedNamesStay
=============================================================================
