----------------------------- MODULE EntityIndex -----------------------------
(***************************************************************************)
(* The session's index of the spawns in the zone (EntityIndex,             *)
(* seq-session/src/lib.rs): names by id, ids by name and kinds, from which *)
(* a rename packet, which names no id, is attributed to a spawn.  `world`  *)
(* is what the server has: a spawn may be there without its record having  *)
(* been seen (the session attached later, or the record was the player's   *)
(* own, which is not indexed), but a removal is always seen.  The kind     *)
(* tells player corpses, whose position is transposed, from others.        *)
(***************************************************************************)
EXTENDS Integers

CONSTANTS SpawnIds,   \* ids of spawns
          SpawnNames, \* names the server gives
          Kinds       \* spawn kinds; 0 is the default

ASSUME KindsAssumption == 0 \in Kinds

VARIABLES
  index,   \* Session.entities
  world,   \* the world: for each id the spawn that has it, if any
  doubt,   \* history: since the last boundary one of two namesakes was renamed
  listed   \* history: the names a host lists, from the published events

entityVars == <<index, world, doubt, listed>>

Spawn == [name : SpawnNames, kind : Kinds]

Empty == [names |-> [id \in {} |-> ""], ids |-> [name \in {} |-> {}],
          kinds |-> [id \in {} |-> 0]]

(* f without x, and f with v at x.                                         *)
Drop(f, x) == [y \in DOMAIN f \ {x} |-> f[y]]
Put(f, x, v) == [y \in DOMAIN f \cup {x} |-> IF y = x THEN v ELSE f[y]]

RemoveWithoutName(e, id) ==
  IF id \notin DOMAIN e.names THEN e
  ELSE [e EXCEPT !.names = Drop(@, id), !.kinds = Drop(@, id)]

(* An id leaves the three maps; a name without ids leaves its own.         *)
Remove(e, id) ==
  IF id \notin DOMAIN e.names
  THEN [names |-> e.names, ids |-> e.ids, kinds |-> Drop(e.kinds, id)]
  ELSE LET name == e.names[id]
           left == e.ids[name] \ {id}
       IN  [names |-> Drop(e.names, id),
            ids   |-> IF left = {} THEN Drop(e.ids, name) ELSE Put(e.ids, name, left),
            kinds |-> Drop(e.kinds, id)]

IdsNamed(e, name) == IF name \in DOMAIN e.ids THEN e.ids[name] ELSE {}

Add(e, id, name, kind) ==
  LET r == Remove(e, id)
  IN  [names |-> Put(r.names, id, name),
       ids   |-> Put(r.ids, name, IdsNamed(r, name) \cup {id}),
       kinds |-> Put(r.kinds, id, kind)]

(* The id a name stands for: only one id, or none.                         *)
UniqueId(e, name) ==
  {id \in IdsNamed(e, name) : IdsNamed(e, name) = {id}}

KindOf(e, id) == IF id \in DOMAIN e.kinds THEN e.kinds[id] ELSE 0

RenameAfterRemoval(e, id, name) == LET r == Remove(e, id) IN Add(r, id, name, KindOf(r, id))

(* The new name keeps the kind, which has to be read first.                *)
Rename(e, id, name) == Add(Remove(e, id), id, name, KindOf(e, id))

-----------------------------------------------------------------------------
(* Packets.  `listed` is the host's list after the published event.        *)

(* A spawn whose record is not seen, or is the player's.                   *)
Unseen(id, spawn) ==
  /\ world[id] = {}
  /\ world' = [world EXCEPT ![id] = {spawn}]
  /\ UNCHANGED <<index, doubt, listed>>

SpawnAdded(id, spawn) ==
  /\ world' = [world EXCEPT ![id] = {spawn}]
  /\ index' = Add(index, id, spawn.name, spawn.kind)
  /\ listed' = Put(listed, id, spawn.name)
  /\ UNCHANGED doubt

SpawnRemoved(id) ==
  /\ world[id] # {}
  /\ world' = [world EXCEPT ![id] = {}]
  /\ index' = Remove(index, id)
  /\ listed' = Drop(listed, id)
  /\ UNCHANGED doubt

Namesakes(id) ==
  {other \in SpawnIds \ {id} : \E s \in world[id], t \in world[other] : s.name = t.name}

(* The server renames one spawn; the packet carries the two names.         *)
SpawnRenamed(id, name) ==
  \E spawn \in world[id] :
    LET resolved == UniqueId(index, spawn.name)
    IN  /\ world' = [world EXCEPT ![id] = {[spawn EXCEPT !.name = name]}]
        /\ doubt' = (doubt \/ Namesakes(id) # {})
        /\ IF resolved = {} THEN UNCHANGED <<index, listed>>
           ELSE \E known \in resolved :
                  /\ index' = Rename(index, known, name)
                  /\ listed' = Put(listed, known, name)

ClearNothing ==
  /\ listed' = Empty.names
  /\ doubt' = FALSE
  /\ UNCHANGED index

(* The session's part of every reset; a host empties its list with it.     *)
ClearEntities ==
  /\ index' = Empty
  /\ listed' = Empty.names
  /\ doubt' = FALSE

(* At a zone change the server's spawns go; at an explicit reset they stay.*)
LeaveZone == ClearEntities /\ world' = [id \in SpawnIds |-> {}]
StayInZone == ClearEntities /\ UNCHANGED world

EntityInit ==
  /\ index = Empty
  /\ listed = Empty.names
  /\ doubt = FALSE
  /\ world = [id \in SpawnIds |-> {}]

EntityPacket ==
  \/ \E id \in SpawnIds, spawn \in Spawn : Unseen(id, spawn)
  \/ \E id \in SpawnIds, spawn \in Spawn : SpawnAdded(id, spawn)
  \/ \E id \in SpawnIds : SpawnRemoved(id)
  \/ \E id \in SpawnIds, name \in SpawnNames : SpawnRenamed(id, name)

EntityNext == EntityPacket \/ LeaveZone \/ StayInZone

-----------------------------------------------------------------------------
(* Properties                                                              *)

Agrees(e) ==
  /\ DOMAIN e.names \subseteq SpawnIds
  /\ \A id \in DOMAIN e.names : e.names[id] \in SpawnNames
  /\ DOMAIN e.kinds = DOMAIN e.names
  /\ \A id \in DOMAIN e.kinds : e.kinds[id] \in Kinds
  /\ \A name \in DOMAIN e.ids :
       /\ e.ids[name] # {}
       /\ \A id \in e.ids[name] : id \in DOMAIN e.names /\ e.names[id] = name
  /\ \A id \in DOMAIN e.names :
       e.names[id] \in DOMAIN e.ids /\ id \in e.ids[e.names[id]]

(* The three maps mirror each other after any sequence of records,         *)
(* removals, renames and resets: no id is left under a name it lost, no    *)
(* empty entry stays, every listed id has a kind (lib.rs:225-277).         *)
IndexAgrees == Agrees(index)

(* docs/architecture.md, "Entity identity": a rename gets an id only when  *)
(* exactly one active spawn has the old name.  As long as no spawn with a  *)
(* namesake was renamed, every indexed spawn has the name and the kind the *)
(* server gave it, whichever spawns were never seen (lib.rs:973-982).      *)
IndexIsTrue ==
  ~doubt =>
    \A id \in DOMAIN index.names :
      world[id] = {[name |-> index.names[id], kind |-> index.kinds[id]]}

(* A host that applies the published additions, removals, renames with an  *)
(* id and resets lists the spawns under the session's names                *)
(* (lib.rs:969-989, 2148).                                                 *)
HostFollowsSpawns == listed = index.names
=============================================================================
