----------------------------- MODULE Progression -----------------------------
(***************************************************************************)
(* What the session knows of the character's progress (ProgressionState,   *)
(* seq-session/src/lib.rs): items and worn slots, experience and level,    *)
(* and a number of absolute values (purse, skills, AA bar, AA definitions) *)
(* that share one pattern, the facts.  Only what changed is published.     *)
(* `shown` is what a host that applies the published events shows.         *)
(*                                                                         *)
(* An item keeps its key while it has a serial; without one its place is   *)
(* part of the key.  `item.charges` stands for every other field.  EQL     *)
(* sends whole inventories, Live and Test single items.  Who the player is *)
(* is PlayerSession's; here the identity record is its level.              *)
(***************************************************************************)
EXTENDS Integers, Sequences

CONSTANTS Serials,   \* item serials; 0 is "none"
          Places,    \* where an item can be
          WornPlaces,\* the places that are worn slots
          Charges,   \* everything else an item record says
          ItemSets,  \* inventories on the wire: sequences of items
          Skills,    \* skill ids
          OtherFacts,\* the other absolute values: "money", "aa", "definition"
          Values,    \* what a fact can be; 0 is "not learned" for a skill
          Exps,      \* experience
          Levels     \* levels

ASSUME SerialsAssumption == Serials \subseteq Nat
ASSUME WornAssumption == WornPlaces \subseteq Places
ASSUME FactsAssumption ==
  Skills \cap OtherFacts = {} /\ OtherFacts \subseteq {"money", "aa", "definition"}

VARIABLES
  feed,     \* the backend: "eql" or "live"
  progress, \* Session.progression
  identity, \* the level in Session.player_identity, if there is one
  shown     \* history: what a host shows

progressVars == <<feed, progress, identity, shown>>

Item == [serial : Serials, place : Places, charges : Charges]
ASSUME ItemSetsAssumption == ItemSets \subseteq Seq(Item)

Key(item) == IF item.serial # 0 THEN <<"serial", item.serial>> ELSE <<"place", item.place>>
IsWorn(item) == item.place \in WornPlaces

Facts == Skills \cup OtherFacts

Nothing == [x \in {} |-> 0]
NoProgress == [inventory |-> Nothing, equipment |-> Nothing, facts |-> Nothing,
               experience |-> {}, level |-> {}]
NothingShown == [inventory |-> Nothing, worn |-> Nothing, facts |-> Nothing, bar |-> {}]

With(f, x, v) == [y \in DOMAIN f \cup {x} |-> IF y = x THEN v ELSE f[y]]
Over(f, g) == [y \in DOMAIN f \cup DOMAIN g |-> IF y \in DOMAIN g THEN g[y] ELSE f[y]]
Only(f, S) == [y \in DOMAIN f \cap S |-> f[y]]

-----------------------------------------------------------------------------
(* Items                                                                   *)

(* Of several records with one key the last one counts.                    *)
Canonical(items) ==
  {items[i] : i \in {k \in DOMAIN items :
                       \A l \in DOMAIN items : Key(items[l]) = Key(items[k]) => l <= k}}

InventoryMap(items) ==
  [key \in {Key(i) : i \in items} |-> CHOOSE i \in items : Key(i) = key]

(* The last item of a slot, in the canonical order, is the worn one.       *)
EquipmentMap(items) ==
  [place \in {i.place : i \in {j \in items : IsWorn(j)}} |->
     Key(CHOOSE i \in items :
           i.place = place /\ \A j \in items : j.place = place => j.serial <= i.serial)]

Worn(p) == [place \in DOMAIN p.equipment |-> p.inventory[p.equipment[place]]]

ItemSet(items) ==
  /\ feed = "eql"
  /\ LET set == Canonical(items)
         inventory == InventoryMap(set)
         next == [progress EXCEPT !.inventory = inventory, !.equipment = EquipmentMap(set)]
     IN  IF items = <<>> THEN UNCHANGED <<progress, shown>>
         ELSE /\ progress' = next
              /\ shown' = IF inventory = progress.inventory THEN shown
                          ELSE [shown EXCEPT !.inventory = inventory, !.worn = Worn(next)]
  /\ UNCHANGED <<feed, identity>>

(* A slip: the slot is cleared whoever is in it now.                       *)
VacatedWhoeverIsThere(item) ==
  {progress.inventory[key].place : key \in
     {k \in DOMAIN progress.inventory \cap {Key(item)} :
        LET old == progress.inventory[k]
        IN  /\ IsWorn(old)
            /\ ~IsWorn(item) \/ item.place # old.place
            /\ old.place \in DOMAIN progress.equipment}}

(* The worn slot that an item, known before, leaves with its new record.   *)
Vacated(item) ==
  {progress.inventory[key].place : key \in
     {k \in DOMAIN progress.inventory \cap {Key(item)} :
        LET old == progress.inventory[k]
        IN  /\ IsWorn(old)
            /\ ~IsWorn(item) \/ item.place # old.place
            /\ old.place \in DOMAIN progress.equipment
            /\ progress.equipment[old.place] = k}}

ItemLearned(item) ==
  /\ feed = "live"
  /\ IF Key(item) \in DOMAIN progress.inventory /\ progress.inventory[Key(item)] = item
     THEN UNCHANGED <<progress, shown>>
     ELSE LET kept == DOMAIN progress.equipment \ Vacated(item)
              left == Only(progress.equipment, kept)
              still == Only(shown.worn, DOMAIN shown.worn \ Vacated(item))
          IN  /\ progress' = [progress EXCEPT
                   !.inventory = With(@, Key(item), item),
                   !.equipment = IF IsWorn(item) THEN With(left, item.place, Key(item))
                                 ELSE left]
              /\ shown' = [shown EXCEPT
                   !.inventory = With(@, Key(item), item),
                   !.worn = IF IsWorn(item) THEN With(still, item.place, item) ELSE still]
  /\ UNCHANGED <<feed, identity>>

-----------------------------------------------------------------------------
(* Experience, levels and facts                                            *)

Learned(p, fact, value) == [p EXCEPT !.facts = With(@, fact, value)]

(* Money, SkillUpdate, AaExp and AaTable.                                  *)
Learn(fact, value) ==
  LET new == ~(fact \in DOMAIN progress.facts /\ progress.facts[fact] = value)
  IN  /\ progress' = IF new THEN Learned(progress, fact, value) ELSE progress
      /\ shown' = IF new THEN [shown EXCEPT !.facts = With(@, fact, value)] ELSE shown
      /\ UNCHANGED <<feed, identity>>

Bar(exp, level) == {[exp |-> exp, level |-> level]}

Exp(exp) ==
  /\ progress' = [progress EXCEPT !.experience = {exp}]
  /\ shown' = IF progress.experience = {exp} THEN shown
              ELSE [shown EXCEPT !.bar = Bar(exp, progress.level)]
  /\ UNCHANGED <<feed, identity>>

LevelUpdate(level, exp) ==
  /\ progress' = [progress EXCEPT !.level = {level}, !.experience = {exp}]
  /\ identity' = {level : known \in identity}
  /\ shown' = IF progress.level = {level} /\ progress.experience = {exp} THEN shown
              ELSE [shown EXCEPT !.bar = Bar(exp, {level})]
  /\ UNCHANGED feed

(* A self spawn record, which shows the level the character has.           *)
ZoneEntry(level) ==
  /\ IF identity # {} THEN identity = {level} ELSE progress.level \subseteq {level}
  /\ identity' = {level}
  /\ UNCHANGED <<feed, progress, shown>>

(* A loadout swap of the player: an EQL loadout has a level of its own.    *)
LoadoutSwap(level) ==
  /\ feed = "eql"
  /\ identity' = {level}
  /\ UNCHANGED <<feed, progress, shown>>

-----------------------------------------------------------------------------
(* Boundaries                                                              *)

ResetKeepingFacts == [NoProgress EXCEPT !.facts = progress.facts]
ResetProgress == NoProgress

(* A profile, after its reset, is published with its purse, skills and AA; *)
(* skills of value 0 are not learned.                                      *)
PlayerProfile(level, facts) ==
  LET learned == Only(facts, OtherFacts \cup {s \in Skills : facts[s] # 0})
      p == Over(ResetProgress.facts, learned)
  IN  /\ progress' = [ResetProgress EXCEPT !.level = {level}, !.facts = p]
      /\ shown' = [NothingShown EXCEPT !.facts = learned]
      /\ identity' = {level}
      /\ UNCHANGED feed

(* Re-entry: another character's identity is not known yet.                *)
EnterWorld(same) ==
  /\ progress' = ResetProgress
  /\ shown' = NothingShown
  /\ identity' = IF same THEN identity ELSE {}
  /\ UNCHANGED feed

(* A zone transition, or a flush.                                          *)
ForgetProgress ==
  /\ progress' = ResetProgress
  /\ shown' = NothingShown
  /\ UNCHANGED <<feed, identity>>

ProgressInit ==
  /\ feed \in {"eql", "live"}
  /\ progress = NoProgress
  /\ identity = {}
  /\ shown = NothingShown

(* What a profile carries: a purse, the AA bar and every skill.            *)
ProfileFacts == [Skills \cup (OtherFacts \ {"definition"}) -> Values]

ProgressPacket ==
  \/ \E items \in ItemSets : ItemSet(items)
  \/ \E item \in Item : ItemLearned(item)
  \/ \E fact \in Facts, value \in Values : Learn(fact, value)
  \/ \E exp \in Exps : Exp(exp)
  \/ \E level \in Levels, exp \in Exps : LevelUpdate(level, exp)
  \/ \E level \in Levels : ZoneEntry(level)
  \/ \E level \in Levels : LoadoutSwap(level)

ProgressBoundary ==
  \/ \E level \in Levels, facts \in ProfileFacts : PlayerProfile(level, facts)
  \/ \E same \in BOOLEAN : EnterWorld(same)

-----------------------------------------------------------------------------
(* Properties                                                              *)

(* Of the types: items are under their keys, and a worn slot names one     *)
(* that the session has, and has there.                                    *)
WornIsWhereItSays ==
  /\ \A key \in DOMAIN progress.inventory :
       progress.inventory[key] \in Item /\ Key(progress.inventory[key]) = key
  /\ \A place \in DOMAIN progress.equipment :
       /\ place \in WornPlaces
       /\ progress.equipment[place] \in DOMAIN progress.inventory
       /\ progress.inventory[progress.equipment[place]].place = place

(* A worn slot names an item that is there, and is not empty after a step  *)
(* that leaves the item's record saying so.                                *)
SlotsAreKept ==
  \A place \in DOMAIN progress.equipment :
    LET key == progress.equipment[place]
        SaysSo(inventory) == key \in DOMAIN inventory /\ inventory[key].place = place
    IN  /\ SaysSo(progress.inventory)
        /\ SaysSo(progress'.inventory) => place \in DOMAIN progress'.equipment

(* A worn slot names an item that the session has, and has in that slot,   *)
(* and it is not cleared as long as that item's record says so, though it  *)
(* may be given to another: in whatever order the records of a swap of     *)
(* worn items come in, the item that one left a slot to is not taken off   *)
(* when the other's record moves on (lib.rs:1154-1189).                    *)
WornUntilMoved == [][SlotsAreKept]_progressVars

(* Although only changes are published, a host that applies them shows the *)
(* session's items, worn slots, values and experience, across profiles,    *)
(* re-entries and resets (lib.rs:994-1152, 2151).                          *)
HostFollowsProgress ==
  /\ shown.inventory = progress.inventory
  /\ shown.worn = Worn(progress)
  /\ shown.facts = progress.facts
  /\ shown.bar = {[exp |-> e, level |-> progress.level] : e \in progress.experience}
=============================================================================
