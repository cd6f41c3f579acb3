------------------------- MODULE SessionCachesProofs -------------------------
(***************************************************************************)
(* The entity index for any ids, names and kinds: its three maps mirror    *)
(* each other, a host follows it, and without a renamed namesake it says   *)
(* what the server has.  And the progression for any items, places and     *)
(* values: a worn slot names an item that is there, and a host that        *)
(* applies the changes has the session's.  The steps that one of the two   *)
(* takes alone leave the other as it is.                                   *)
(***************************************************************************)
EXTENDS SessionCaches, WellFoundedInduction, TLAPS

-----------------------------------------------------------------------------
(* The operations                                                          *)

LEMMA RemoveEntries ==
  ASSUME NEW e, NEW id, Agrees(e)
  PROVE  LET r == Remove(e, id)
         IN  /\ DOMAIN r.names = DOMAIN e.names \ {id}
             /\ DOMAIN r.kinds = DOMAIN e.names \ {id}
             /\ \A other \in DOMAIN r.names : /\ r.names[other] = e.names[other]
                                              /\ r.kinds[other] = e.kinds[other]
  BY DEF Remove, Drop, Agrees

LEMMA RemoveAgrees ==
  ASSUME NEW e, NEW id, Agrees(e)
  PROVE  Agrees(Remove(e, id))
<1> DEFINE r == Remove(e, id)
<1>1. CASE id \notin DOMAIN e.names
  BY <1>1 DEF Remove, Drop, Agrees
<1>2. CASE id \in DOMAIN e.names
  <2> DEFINE name == e.names[id]
             left == e.ids[name] \ {id}
  <2>1. /\ name \in DOMAIN e.ids
        /\ r.ids = IF left = {} THEN Drop(e.ids, name) ELSE Put(e.ids, name, left)
    BY <1>2 DEF Remove, Agrees
  <2>2. \A n \in DOMAIN r.ids : /\ n \in DOMAIN e.ids
                                /\ r.ids[n] = e.ids[n] \ {id}
                                /\ r.ids[n] # {}
    <3> SUFFICES ASSUME NEW n \in DOMAIN r.ids
                 PROVE  /\ n \in DOMAIN e.ids
                        /\ r.ids[n] = e.ids[n] \ {id}
                        /\ r.ids[n] # {}
      OBVIOUS
    <3>1. CASE n = name
      BY <3>1, <2>1 DEF Drop, Put
    <3>2. CASE n # name
      <4>1. n \in DOMAIN e.ids /\ r.ids[n] = e.ids[n]
        BY <3>2, <2>1 DEF Drop, Put
      <4> QED BY <4>1, <3>2 DEF Agrees
    <3> QED BY <3>1, <3>2
  <2>3. \A n \in DOMAIN e.ids : e.ids[n] \ {id} # {} => n \in DOMAIN r.ids
    BY <2>1 DEF Drop, Put
  <2>4. /\ DOMAIN r.names = DOMAIN e.names \ {id}
        /\ DOMAIN r.kinds = DOMAIN e.names \ {id}
        /\ \A other \in DOMAIN r.names : /\ r.names[other] = e.names[other]
                                         /\ r.kinds[other] = e.kinds[other]
    BY RemoveEntries
  <2> HIDE DEF r, name, left
  <2>5. Agrees(r)
    BY <2>2, <2>3, <2>4 DEF Agrees
  <2> QED BY <2>5 DEF r
<1> QED BY <1>1, <1>2

LEMMA AddEntries ==
  ASSUME NEW e, NEW id, NEW name, NEW kind, Agrees(e)
  PROVE  LET a == Add(e, id, name, kind)
         IN  /\ DOMAIN a.names = DOMAIN e.names \cup {id}
             /\ DOMAIN a.kinds = DOMAIN e.names \cup {id}
             /\ a.names[id] = name /\ a.kinds[id] = kind
             /\ \A other \in DOMAIN e.names \ {id} :
                  /\ a.names[other] = e.names[other]
                  /\ a.kinds[other] = e.kinds[other]
  BY RemoveEntries DEF Add, Put

LEMMA AddAgrees ==
  ASSUME NEW e, NEW id \in SpawnIds, NEW name \in SpawnNames, NEW kind \in Kinds,
         Agrees(e)
  PROVE  Agrees(Add(e, id, name, kind))
<1> DEFINE r == Remove(e, id)
           a == Add(e, id, name, kind)
<1>1. Agrees(r) /\ id \notin DOMAIN r.names /\ DOMAIN r.names \subseteq DOMAIN e.names
  BY RemoveAgrees, RemoveEntries
<1>2. /\ a.names = Put(r.names, id, name)
      /\ a.ids = Put(r.ids, name, IdsNamed(r, name) \cup {id})
      /\ a.kinds = Put(r.kinds, id, kind)
  BY DEF Add
<1> HIDE DEF r, a
<1>3. /\ DOMAIN a.names = DOMAIN r.names \cup {id}
      /\ DOMAIN a.kinds = DOMAIN r.kinds \cup {id}
      /\ a.names[id] = name /\ a.kinds[id] = kind
      /\ \A other \in DOMAIN r.names : a.names[other] = r.names[other]
      /\ \A other \in DOMAIN r.kinds \ {id} : a.kinds[other] = r.kinds[other]
  BY <1>1, <1>2 DEF Put
<1>4. /\ DOMAIN a.ids = DOMAIN r.ids \cup {name}
      /\ a.ids[name] = IdsNamed(r, name) \cup {id}
      /\ \A n \in DOMAIN r.ids \ {name} : a.ids[n] = r.ids[n]
  BY <1>2 DEF Put
<1>5. \A other \in IdsNamed(r, name) : other \in DOMAIN r.names /\ r.names[other] = name
  BY <1>1 DEF IdsNamed, Agrees
<1>6. \A other \in DOMAIN r.names : r.names[other] = name => other \in IdsNamed(r, name)
  BY <1>1 DEF IdsNamed, Agrees
<1>7. Agrees(a)
  <2>1. /\ DOMAIN a.names \subseteq SpawnIds
        /\ \A other \in DOMAIN a.names : a.names[other] \in SpawnNames
        /\ DOMAIN a.kinds = DOMAIN a.names
        /\ \A other \in DOMAIN a.kinds : a.kinds[other] \in Kinds
    BY <1>1, <1>3 DEF Agrees
  <2>2. ASSUME NEW n \in DOMAIN a.ids
        PROVE  /\ a.ids[n] # {}
               /\ \A other \in a.ids[n] : other \in DOMAIN a.names /\ a.names[other] = n
    <3>1. CASE n = name
      BY <3>1, <1>3, <1>4, <1>5
    <3>2. CASE n # name
      BY <3>2, <1>1, <1>3, <1>4 DEF Agrees
    <3> QED BY <3>1, <3>2
  <2>3. ASSUME NEW other \in DOMAIN a.names
        PROVE  a.names[other] \in DOMAIN a.ids /\ other \in a.ids[a.names[other]]
    <3>1. CASE other = id
      BY <3>1, <1>3, <1>4
    <3>2. CASE other # id /\ r.names[other] = name
      BY <3>2, <1>3, <1>4, <1>6
    <3>3. CASE other # id /\ r.names[other] # name
      BY <3>3, <1>1, <1>3, <1>4 DEF Agrees
    <3> QED BY <3>1, <3>2, <3>3
  <2> QED BY <2>1, <2>2, <2>3 DEF Agrees
<1> QED BY <1>7 DEF a

LEMMA EmptyAgrees == Agrees(Empty)
  BY DEF Agrees, Empty

LEMMA RenameIsAdd ==
  ASSUME NEW e, NEW id \in SpawnIds, NEW name \in SpawnNames, Agrees(e),
         id \in DOMAIN e.names
  PROVE  /\ Agrees(Rename(e, id, name))
         /\ DOMAIN Rename(e, id, name).names = DOMAIN e.names
         /\ Rename(e, id, name).names[id] = name
         /\ Rename(e, id, name).kinds[id] = e.kinds[id]
         /\ \A other \in DOMAIN e.names \ {id} :
              /\ Rename(e, id, name).names[other] = e.names[other]
              /\ Rename(e, id, name).kinds[other] = e.kinds[other]
<1>1. KindOf(e, id) = e.kinds[id] /\ e.kinds[id] \in Kinds
  BY DEF KindOf, Agrees
<1>2. Agrees(Remove(e, id))
  BY RemoveAgrees
<1> DEFINE r == Remove(e, id)
<1>3. /\ DOMAIN r.names = DOMAIN e.names \ {id}
      /\ \A other \in DOMAIN r.names : /\ r.names[other] = e.names[other]
                                       /\ r.kinds[other] = e.kinds[other]
  BY RemoveEntries
<1>4. Rename(e, id, name) = Add(r, id, name, e.kinds[id])
  BY <1>1 DEF Rename
<1> HIDE DEF r
<1>5. Agrees(Add(r, id, name, e.kinds[id]))
  BY <1>1, <1>2, AddAgrees DEF r
<1>6. /\ DOMAIN Add(r, id, name, e.kinds[id]).names = DOMAIN r.names \cup {id}
      /\ Add(r, id, name, e.kinds[id]).names[id] = name
      /\ Add(r, id, name, e.kinds[id]).kinds[id] = e.kinds[id]
      /\ \A other \in DOMAIN r.names \ {id} :
           /\ Add(r, id, name, e.kinds[id]).names[other] = r.names[other]
           /\ Add(r, id, name, e.kinds[id]).kinds[other] = r.kinds[other]
  BY <1>2, AddEntries DEF r
<1> QED BY <1>3, <1>4, <1>5, <1>6

(* A name that stands for one id is that id's.                             *)
LEMMA UniqueIsNamed ==
  ASSUME NEW e, NEW name, NEW id \in UniqueId(e, name), Agrees(e)
  PROVE  id \in DOMAIN e.names /\ e.names[id] = name /\ id \in SpawnIds
  BY DEF UniqueId, IdsNamed, Agrees

-----------------------------------------------------------------------------
(* The inductive invariant                                                 *)

IsMap(f) == f = [x \in DOMAIN f |-> f[x]]

LEMMA MapsStayMaps ==
  /\ \A f, x : IsMap(Drop(f, x))
  /\ \A f, x, v : IsMap(Put(f, x, v))
  BY DEF IsMap, Drop, Put

(* Who looks a spawn up by its name has to know that the index mirrors     *)
(* itself; a removal of an unknown id leaves names alone if it is a map.   *)
IndexInv ==
  /\ world \in [SpawnIds -> SUBSET Spawn]
  /\ IsMap(index.names)
  /\ IndexAgrees
  /\ HostFollowsSpawns
  /\ IndexIsTrue

LEMMA InitInv ==
  ASSUME EntityInit
  PROVE  IndexInv
  BY EmptyAgrees DEF EntityInit, IndexInv, IndexAgrees, HostFollowsSpawns, IndexIsTrue,
         Empty, IsMap

LEMMA UnseenInv ==
  ASSUME IndexInv, NEW id \in SpawnIds, NEW spawn \in Spawn, Unseen(id, spawn)
  PROVE  IndexInv'
<1>1. index' = index /\ listed' = listed /\ doubt' = doubt
  BY DEF Unseen
<1>2. world' \in [SpawnIds -> SUBSET Spawn]
  BY DEF IndexInv, Unseen
<1>3. ASSUME ~doubt', NEW other \in DOMAIN index'.names
      PROVE  world'[other] = {[name |-> index'.names[other], kind |-> index'.kinds[other]]}
  <2>1. other \in SpawnIds
    BY <1>1, <1>3 DEF IndexInv, IndexAgrees, Agrees
  <2>2. world[other] = {[name |-> index.names[other], kind |-> index.kinds[other]]}
    BY <1>1, <1>3 DEF IndexInv, IndexIsTrue
  <2>3. other # id
    BY <2>2 DEF Unseen
  <2> QED BY <1>1, <2>1, <2>2, <2>3 DEF Unseen, IndexInv
<1> QED BY <1>1, <1>2, <1>3 DEF IndexInv, IndexAgrees, Agrees, HostFollowsSpawns, IndexIsTrue

LEMMA SpawnAddedInv ==
  ASSUME IndexInv, NEW id \in SpawnIds, NEW spawn \in Spawn, SpawnAdded(id, spawn)
  PROVE  IndexInv'
<1>1. spawn.name \in SpawnNames /\ spawn.kind \in Kinds
      /\ spawn = [name |-> spawn.name, kind |-> spawn.kind]
  BY DEF Spawn
<1>2. Agrees(index)
  BY DEF IndexInv, IndexAgrees
<1>3. Agrees(index')
  BY <1>1, <1>2, AddAgrees DEF SpawnAdded
<1>4. /\ DOMAIN index'.names = DOMAIN index.names \cup {id}
      /\ index'.names[id] = spawn.name /\ index'.kinds[id] = spawn.kind
      /\ \A other \in DOMAIN index.names \ {id} :
           /\ index'.names[other] = index.names[other]
           /\ index'.kinds[other] = index.kinds[other]
  BY <1>2, AddEntries DEF SpawnAdded
<1>5. world' \in [SpawnIds -> SUBSET Spawn]
  BY DEF IndexInv, SpawnAdded
<1>6. listed' = index'.names
  <2>1. listed' = Put(index.names, id, spawn.name)
    BY DEF SpawnAdded, IndexInv, HostFollowsSpawns
  <2>2. index'.names = Put(Remove(index, id).names, id, spawn.name)
    BY DEF SpawnAdded, Add
  <2>3. /\ DOMAIN Remove(index, id).names = DOMAIN index.names \ {id}
        /\ \A other \in DOMAIN index.names \ {id} :
             Remove(index, id).names[other] = index.names[other]
    BY <1>2, RemoveEntries
  <2> QED BY <2>1, <2>2, <2>3 DEF Put
<1>7. ASSUME ~doubt', NEW other \in DOMAIN index'.names
      PROVE  world'[other] = {[name |-> index'.names[other], kind |-> index'.kinds[other]]}
  <2>1. CASE other = id
    BY <2>1, <1>1, <1>4 DEF SpawnAdded, IndexInv
  <2>2. CASE other # id
    <3>1. other \in DOMAIN index.names /\ other \in SpawnIds
      BY <2>2, <1>2, <1>4, <1>7 DEF Agrees
    <3>2. world[other] = {[name |-> index.names[other], kind |-> index.kinds[other]]}
      BY <3>1, <1>7 DEF SpawnAdded, IndexInv, IndexIsTrue
    <3> QED BY <2>2, <3>1, <3>2, <1>4 DEF SpawnAdded, IndexInv
  <2> QED BY <2>1, <2>2
<1>8. IsMap(index'.names)
  BY MapsStayMaps DEF SpawnAdded, Add
<1> QED BY <1>3, <1>5, <1>6, <1>7, <1>8 DEF IndexInv, IndexAgrees, Agrees, HostFollowsSpawns, IndexIsTrue

LEMMA SpawnRemovedInv ==
  ASSUME IndexInv, NEW id \in SpawnIds, SpawnRemoved(id)
  PROVE  IndexInv'
<1>1. Agrees(index)
  BY DEF IndexInv, IndexAgrees
<1>2. Agrees(index')
  BY <1>1, RemoveAgrees DEF SpawnRemoved
<1>3. /\ DOMAIN index'.names = DOMAIN index.names \ {id}
      /\ \A other \in DOMAIN index'.names : /\ index'.names[other] = index.names[other]
                                            /\ index'.kinds[other] = index.kinds[other]
  BY <1>1, RemoveEntries DEF SpawnRemoved
<1>4. world' \in [SpawnIds -> SUBSET Spawn]
  BY DEF IndexInv, SpawnRemoved
<1>5. listed' = index'.names
  <2>1. listed' = Drop(index.names, id)
    BY DEF SpawnRemoved, IndexInv, HostFollowsSpawns
  <2>2. CASE id \in DOMAIN index.names
    BY <2>1, <2>2 DEF SpawnRemoved, Remove
  <2>3. CASE id \notin DOMAIN index.names
    <3>1. index'.names = index.names
      BY <2>3 DEF SpawnRemoved, Remove
    <3> QED BY <3>1, <2>1, <2>3 DEF Drop, IndexInv, IsMap
  <2> QED BY <2>2, <2>3
<1>6. ASSUME ~doubt', NEW other \in DOMAIN index'.names
      PROVE  world'[other] = {[name |-> index'.names[other], kind |-> index'.kinds[other]]}
  <2>1. other # id /\ other \in DOMAIN index.names /\ other \in SpawnIds
    BY <1>1, <1>3, <1>6 DEF Agrees
  <2>2. world[other] = {[name |-> index.names[other], kind |-> index.kinds[other]]}
    BY <2>1, <1>6 DEF SpawnRemoved, IndexInv, IndexIsTrue
  <2> QED BY <2>1, <2>2, <1>3 DEF SpawnRemoved, IndexInv
<1>7. IsMap(index'.names)
  BY MapsStayMaps DEF SpawnRemoved, Remove, IndexInv
<1> QED BY <1>2, <1>4, <1>5, <1>6, <1>7 DEF IndexInv, IndexAgrees, Agrees, HostFollowsSpawns, IndexIsTrue

LEMMA SpawnRenamedInv ==
  ASSUME IndexInv, NEW id \in SpawnIds, NEW name \in SpawnNames, SpawnRenamed(id, name)
  PROVE  IndexInv'
<1>1. Agrees(index)
  BY DEF IndexInv, IndexAgrees
<1>2. PICK spawn \in world[id] :
        LET resolved == UniqueId(index, spawn.name)
        IN  /\ world' = [world EXCEPT ![id] = {[spawn EXCEPT !.name = name]}]
            /\ doubt' = (doubt \/ Namesakes(id) # {})
            /\ IF resolved = {} THEN UNCHANGED <<index, listed>>
               ELSE \E known \in resolved :
                      /\ index' = Rename(index, known, name)
                      /\ listed' = Put(listed, known, name)
  BY DEF SpawnRenamed
<1>3. /\ spawn.name \in SpawnNames /\ spawn.kind \in Kinds
      /\ [spawn EXCEPT !.name = name] = [name |-> name, kind |-> spawn.kind]
      /\ [spawn EXCEPT !.name = name] \in Spawn
  BY <1>2 DEF IndexInv, Spawn
<1>4. world' \in [SpawnIds -> SUBSET Spawn]
  BY <1>2, <1>3 DEF IndexInv
<1>5. /\ world'[id] = {[name |-> name, kind |-> spawn.kind]}
      /\ \A other \in SpawnIds \ {id} : world'[other] = world[other]
  BY <1>2, <1>3 DEF IndexInv
(* Before an unambiguous rename, what has the old name is the spawn.       *)
<1>6. ASSUME ~doubt', NEW known \in DOMAIN index.names, index.names[known] = spawn.name
      PROVE  known = id /\ index.kinds[id] = spawn.kind
  <2>1. known \in SpawnIds
    BY <1>1 DEF Agrees
  <2>2. world[known] = {[name |-> spawn.name, kind |-> index.kinds[known]]}
    BY <1>2, <1>6 DEF IndexInv, IndexIsTrue
  <2>3. known = id
    <3> SUFFICES ASSUME known # id PROVE FALSE
      OBVIOUS
    <3> DEFINE twin == [name |-> spawn.name, kind |-> index.kinds[known]]
    <3>0. twin \in world[known] /\ twin.name = spawn.name
      BY <2>2
    <3>1. known \in Namesakes(id)
      BY <1>2, <2>1, <3>0 DEF Namesakes
    <3> QED BY <3>1, <1>2, <1>6
  <2> QED BY <1>2, <2>2, <2>3
<1>7. CASE UniqueId(index, spawn.name) = {}
  <2>1. index' = index /\ listed' = listed
    BY <1>2, <1>7
  <2>2. ASSUME ~doubt', NEW other \in DOMAIN index.names
        PROVE  world'[other] = {[name |-> index.names[other], kind |-> index.kinds[other]]}
    <3>1. other \in SpawnIds
      BY <1>1 DEF Agrees
    <3>2. world[other] = {[name |-> index.names[other], kind |-> index.kinds[other]]}
      BY <1>2, <2>2 DEF IndexInv, IndexIsTrue
    <3>3. other # id
      <4> SUFFICES ASSUME other = id PROVE FALSE
        OBVIOUS
      <4>1. index.names[id] = spawn.name
        BY <1>2, <3>2
      <4>2. id \in IdsNamed(index, spawn.name)
        BY <1>1, <4>1 DEF Agrees, IdsNamed
      <4>3. \A twin \in IdsNamed(index, spawn.name) : twin = id
        BY <1>1, <1>6, <2>2 DEF Agrees, IdsNamed
      <4> QED BY <1>7, <4>2, <4>3 DEF UniqueId
    <3> QED BY <1>5, <3>1, <3>2, <3>3
  <2> QED BY <1>4, <2>1, <2>2 DEF IndexInv, IndexAgrees, Agrees, HostFollowsSpawns, IndexIsTrue
<1>8. CASE UniqueId(index, spawn.name) # {}
  <2>1. PICK known \in UniqueId(index, spawn.name) :
          /\ index' = Rename(index, known, name)
          /\ listed' = Put(listed, known, name)
    BY <1>2, <1>8
  <2>2. known \in DOMAIN index.names /\ index.names[known] = spawn.name /\ known \in SpawnIds
    BY <1>1, UniqueIsNamed
  <2>3. /\ Agrees(index')
        /\ DOMAIN index'.names = DOMAIN index.names
        /\ index'.names[known] = name
        /\ index'.kinds[known] = index.kinds[known]
        /\ \A other \in DOMAIN index.names \ {known} :
             /\ index'.names[other] = index.names[other]
             /\ index'.kinds[other] = index.kinds[other]
    BY <1>1, <2>1, <2>2, RenameIsAdd
  <2>4. IsMap(index'.names)
    BY <2>1, MapsStayMaps DEF Rename, Add
  <2>5. listed' = index'.names
    <3>1. listed' = Put(index.names, known, name)
      BY <2>1 DEF IndexInv, HostFollowsSpawns
    <3> QED BY <3>1, <2>2, <2>3, <2>4 DEF Put, IsMap
  <2>6. ASSUME ~doubt', NEW other \in DOMAIN index'.names
        PROVE  world'[other] = {[name |-> index'.names[other], kind |-> index'.kinds[other]]}
    <3>1. known = id /\ index.kinds[id] = spawn.kind
      BY <1>6, <2>2, <2>6
    <3>2. CASE other = id
      BY <3>1, <3>2, <1>5, <2>3
    <3>3. CASE other # id
      <4>1. other \in DOMAIN index.names /\ other \in SpawnIds
        BY <1>1, <2>3, <2>6 DEF Agrees
      <4>2. world[other] = {[name |-> index.names[other], kind |-> index.kinds[other]]}
        BY <1>2, <2>6, <4>1 DEF IndexInv, IndexIsTrue
      <4> QED BY <3>1, <3>3, <4>1, <4>2, <1>5, <2>3
    <3> QED BY <3>2, <3>3
  <2> QED BY <1>4, <2>3, <2>4, <2>5, <2>6
          DEF IndexInv, IndexAgrees, Agrees, HostFollowsSpawns, IndexIsTrue
<1> QED BY <1>7, <1>8

LEMMA ClearInv ==
  ASSUME IndexInv, ClearEntities, world' \in [SpawnIds -> SUBSET Spawn]
  PROVE  IndexInv'
  BY EmptyAgrees DEF ClearEntities, IndexInv, IndexAgrees, Agrees, HostFollowsSpawns,
                     IndexIsTrue, Empty, IsMap

LEMMA NextInv == IndexInv /\ [EntityNext]_entityVars => IndexInv'
<1> SUFFICES ASSUME IndexInv, [EntityNext]_entityVars PROVE IndexInv'
  OBVIOUS
<1>1. ASSUME NEW id \in SpawnIds, NEW spawn \in Spawn, Unseen(id, spawn) PROVE IndexInv'
  BY <1>1, UnseenInv
<1>2. ASSUME NEW id \in SpawnIds, NEW spawn \in Spawn, SpawnAdded(id, spawn) PROVE IndexInv'
  BY <1>2, SpawnAddedInv
<1>3. ASSUME NEW id \in SpawnIds, SpawnRemoved(id) PROVE IndexInv'
  BY <1>3, SpawnRemovedInv
<1>4. ASSUME NEW id \in SpawnIds, NEW name \in SpawnNames, SpawnRenamed(id, name)
      PROVE  IndexInv'
  BY <1>4, SpawnRenamedInv
<1>5. CASE LeaveZone
  BY <1>5, ClearInv DEF LeaveZone
<1>6. CASE StayInZone
  BY <1>6, ClearInv DEF StayInZone, IndexInv
<1>7. CASE UNCHANGED entityVars
  BY <1>7 DEF entityVars, IndexInv, IsMap, IndexAgrees, Agrees, HostFollowsSpawns, IndexIsTrue
<1> QED BY <1>1, <1>2, <1>3, <1>4, <1>5, <1>6, <1>7 DEF EntityNext, EntityPacket

LEMMA StepsOfTheIndex == [Next]_vars => [EntityNext]_entityVars
<1> SUFFICES ASSUME [Next]_vars PROVE [EntityNext]_entityVars
  OBVIOUS
<1>1. CASE EntityPacket
  BY <1>1 DEF EntityNext
<1>2. CASE LeaveZone \/ StayInZone
  BY <1>2 DEF EntityNext
<1>3. CASE UNCHANGED entityVars
  BY <1>3
<1> QED BY <1>1, <1>2, <1>3 DEF Next, Enter, ZoneTransition, Flush, vars

LEMMA InvAlways == Spec => []IndexInv
<1>1. Init => IndexInv
  BY InitInv DEF Init
<1> QED BY <1>1, NextInv, StepsOfTheIndex, PTL DEF Spec

-----------------------------------------------------------------------------
(* Progression: inventories                                                *)

IsProgress(p) ==
  p = [inventory |-> p.inventory, equipment |-> p.equipment, facts |-> p.facts,
       experience |-> p.experience, level |-> p.level]
IsShown(s) ==
  s = [inventory |-> s.inventory, worn |-> s.worn, facts |-> s.facts, bar |-> s.bar]

(* On EQL the worn slots are those of the inventory that is kept, so that  *)
(* the same inventory again changes none: only then may the session be     *)
(* silent about it.                                                        *)
WornFollowsInventory ==
  feed = "eql" =>
    progress.equipment =
      EquipmentMap({progress.inventory[key] : key \in DOMAIN progress.inventory})

(* The inductive invariant.                                                *)
ProgressInv ==
  /\ IsProgress(progress) /\ IsShown(shown)
  /\ WornIsWhereItSays
  /\ HostFollowsProgress
  /\ WornFollowsInventory

(* A set with zero, and with the successor of each number in it, has them  *)
(* all: a least number missing would have a predecessor.                   *)
LEMMA Induction ==
  ASSUME NEW S, 0 \in S, \A n \in Nat : n \in S => n + 1 \in S
  PROVE  Nat \subseteq S
<1> DEFINE Less == {p \in Nat \X Nat : p[1] < p[2]}
           Missing == Nat \ S
<1>1. IsWellFoundedOn(Less, Nat)
  BY NatLessThanWellFounded DEF OpToRel
<1>2. SUFFICES ASSUME Missing # {} PROVE FALSE
  OBVIOUS
<1>3. PICK n \in Missing : \A m \in Missing : ~(<<m, n>> \in Less)
  <2> HIDE DEF Less
  <2> QED BY <1>1, <1>2, WFMin
<1>4. n \in Nat /\ n # 0 /\ n - 1 \in Nat /\ (n - 1) + 1 = n
  OBVIOUS
<1>5. <<n - 1, n>> \in Less
  BY <1>4
<1>6. n - 1 \in S
  <2> HIDE DEF Less
  <2> QED BY <1>3, <1>4, <1>5
<1> QED BY <1>3, <1>4, <1>6

(* Of the records of an inventory, one counts for each key.                *)
LEMMA CanonicalItems ==
  ASSUME NEW items \in Seq(Item)
  PROVE  /\ \A i \in Canonical(items) : i \in Item
         /\ \A i, j \in Canonical(items) : Key(i) = Key(j) => i = j
<1>1. ASSUME NEW k \in DOMAIN items PROVE items[k] \in Item
  OBVIOUS
<1>2. DOMAIN items \subseteq Int
  OBVIOUS
<1>3. ASSUME NEW i \in Canonical(items), NEW j \in Canonical(items), Key(i) = Key(j)
      PROVE  i = j
  <2>1. PICK k \in DOMAIN items :
          items[k] = i /\ \A m \in DOMAIN items : Key(items[m]) = Key(items[k]) => m <= k
    BY DEF Canonical
  <2>2. PICK l \in DOMAIN items :
          items[l] = j /\ \A m \in DOMAIN items : Key(items[m]) = Key(items[l]) => m <= l
    BY DEF Canonical
  <2>3. k <= l /\ l <= k
    BY <1>3, <2>1, <2>2
  <2>4. k = l
    BY <1>2, <2>3
  <2> QED BY <2>1, <2>2, <2>4
<1> QED BY <1>1, <1>3 DEF Canonical

(* Some numbers of a list: one of those marked is the greatest.            *)
LEMMA Greatest ==
  ASSUME NEW L \in Nat, NEW s \in [1 .. L -> Nat], NEW K \in SUBSET (1 .. L), K # {}
  PROVE  \E k \in K : \A l \in K : s[l] <= s[k]
<1> DEFINE Below(n) == {k \in K : k <= n}
           S == {n \in Nat : Below(n) # {} =>
                               \E k \in Below(n) : \A l \in Below(n) : s[l] <= s[k]}
<1>1. /\ \A k \in K : k \in Nat /\ 1 <= k /\ k <= L /\ s[k] \in Nat
      /\ \A n, k : k \in Below(n) <=> k \in K /\ k <= n
  OBVIOUS
<1>2. \A k : k \notin Below(0)
  <2>1. \A k \in K : k \in Nat /\ 1 <= k
    BY <1>1
  <2>2. \A k \in K : ~(k <= 0)
    BY <2>1
  <2> QED BY <2>2
<1>3. Below(L) = K
  BY <1>1
<1>4. ASSUME NEW n \in Nat
      PROVE  /\ \A k \in Below(n) : k \in Below(n + 1)
             /\ \A k \in Below(n + 1) : k \in Below(n) \/ k = n + 1
             /\ n + 1 \in K => n + 1 \in Below(n + 1)
  BY <1>1
<1>5. \A n : Below(n) \subseteq K
  BY <1>1
<1> HIDE DEF Below
<1>6. ASSUME NEW n \in Nat, n \in S PROVE n + 1 \in S
  <2>1. CASE n + 1 \notin Below(n + 1)
    <3>1. \A k \in Below(n + 1) : k \in Below(n)
      BY <1>4, <2>1
    <3> QED BY <1>4, <1>6, <3>1
  <2>2. CASE n + 1 \in Below(n + 1) /\ Below(n) = {}
    <3>1. \A k \in Below(n + 1) : k = n + 1
      BY <1>4, <2>2
    <3>2. s[n + 1] \in Nat
      BY <1>1, <1>5, <2>2
    <3>3. \A l \in Below(n + 1) : s[l] <= s[n + 1]
      BY <3>1, <3>2
    <3> QED BY <2>2, <3>3
  <2>3. CASE n + 1 \in Below(n + 1) /\ Below(n) # {}
    <3>1. PICK k \in Below(n) : \A l \in Below(n) : s[l] <= s[k]
      BY <1>6, <2>3
    <3>2. k \in Below(n + 1)
      BY <1>4
    <3>3. s[n + 1] \in Nat /\ s[k] \in Nat /\ \A l \in Below(n) : s[l] \in Nat
      BY <1>1, <1>5, <2>3
    <3>4. CASE s[n + 1] <= s[k]
      <4>1. \A l \in Below(n + 1) : s[l] <= s[k]
        BY <1>4, <3>1, <3>4
      <4> QED BY <3>2, <4>1
    <3>5. CASE s[k] < s[n + 1]
      <4>1. \A l \in Below(n) : s[l] <= s[n + 1]
        BY <3>1, <3>3, <3>5
      <4>2. \A l \in Below(n + 1) : s[l] <= s[n + 1]
        <5> SUFFICES ASSUME NEW l \in Below(n + 1) PROVE s[l] <= s[n + 1]
          OBVIOUS
        <5>1. CASE l \in Below(n)
          BY <4>1, <5>1
        <5>2. CASE l = n + 1
          BY <3>3, <5>2
        <5> QED BY <1>4, <5>1, <5>2
      <4> QED BY <2>3, <4>2
    <3> QED BY <3>3, <3>4, <3>5
  <2> QED BY <2>1, <2>2, <2>3
<1>7. 0 \in S
  BY <1>2
<1> HIDE DEF S
<1>8. L \in S
  BY <1>6, <1>7, Induction
<1> QED BY <1>3, <1>8 DEF S

(* A worn slot of a published inventory has an item of it to wear.         *)
LEMMA GreatestSerial ==
  ASSUME NEW items \in Seq(Item), NEW place,
         \E i \in Canonical(items) : i.place = place
  PROVE  \E i \in Canonical(items) :
           i.place = place /\ \A j \in Canonical(items) : j.place = place =>
                                                            j.serial <= i.serial
<1> DEFINE L == Len(items)
           s == [k \in 1 .. L |-> items[k].serial]
           K == {k \in 1 .. L : items[k] \in Canonical(items) /\ items[k].place = place}
<1>1. L \in Nat /\ DOMAIN items = 1 .. L /\ \A k \in 1 .. L : items[k] \in Item
  OBVIOUS
<1>2. s \in [1 .. L -> Nat]
  <2>1. \A k \in 1 .. L : items[k].serial \in Nat
    BY <1>1, SerialsAssumption DEF Item
  <2> QED BY <2>1
<1>3. \A i \in Canonical(items) : \E k \in 1 .. L : items[k] = i
  BY <1>1 DEF Canonical
<1>4. K # {}
  BY <1>3
<1>5. PICK k \in K : \A l \in K : s[l] <= s[k]
  <2>1. K \in SUBSET (1 .. L)
    OBVIOUS
  <2> HIDE DEF K, s, L
  <2> QED BY <1>1, <1>2, <1>4, <2>1, Greatest
<1>6. ASSUME NEW j \in Canonical(items), j.place = place PROVE j.serial <= items[k].serial
  <2>1. PICK l \in 1 .. L : items[l] = j
    BY <1>3
  <2> QED BY <1>5, <1>6, <2>1
<1> QED BY <1>5, <1>6

(* The maps made of an inventory: each key has an item with that key, and  *)
(* each worn slot has an item that says it is there.                       *)
LEMMA MapsOfItems ==
  ASSUME NEW items \in Seq(Item)
  PROVE  LET set == Canonical(items)
             inventory == InventoryMap(set)
             equipment == EquipmentMap(set)
         IN  /\ set = {inventory[key] : key \in DOMAIN inventory}
             /\ \A key \in DOMAIN inventory : /\ inventory[key] \in Item
                                              /\ Key(inventory[key]) = key
             /\ \A place \in DOMAIN equipment :
                  /\ place \in WornPlaces
                  /\ equipment[place] \in DOMAIN inventory
                  /\ inventory[equipment[place]].place = place
<1> DEFINE set == Canonical(items)
           inventory == InventoryMap(set)
           equipment == EquipmentMap(set)
<1>1. /\ \A i \in set : i \in Item
      /\ \A i, j \in set : Key(i) = Key(j) => i = j
  BY CanonicalItems
<1>2. ASSUME NEW place, \E i \in set : i.place = place
      PROVE  \E i \in set : i.place = place /\ \A j \in set : j.place = place =>
                                                                 j.serial <= i.serial
  BY <1>2, GreatestSerial
<1> HIDE DEF set
<1>3. DOMAIN inventory = {Key(i) : i \in set}
  BY DEF InventoryMap
<1>4. \A i \in set : Key(i) \in DOMAIN inventory /\ inventory[Key(i)] = i
  BY <1>1 DEF InventoryMap
<1>5. \A key \in DOMAIN inventory : inventory[key] \in set /\ Key(inventory[key]) = key
  BY <1>3, <1>4
<1>6. ASSUME NEW place \in DOMAIN equipment
      PROVE  /\ place \in WornPlaces
             /\ equipment[place] \in DOMAIN inventory
             /\ inventory[equipment[place]].place = place
  <2>1. PICK i \in set : IsWorn(i) /\ i.place = place
    BY DEF EquipmentMap
  <2>2. PICK j \in set : /\ j.place = place
                         /\ equipment[place] = Key(j)
    <3> DEFINE worn == CHOOSE j \in set :
                 j.place = place /\ \A k \in set : k.place = place => k.serial <= j.serial
    <3>1. worn \in set /\ worn.place = place
      BY <1>2, <2>1
    <3>2. equipment[place] = Key(worn)
      BY DEF EquipmentMap
    <3> QED BY <3>1, <3>2
  <2> QED BY <1>4, <2>1, <2>2 DEF IsWorn
<1> HIDE DEF inventory, equipment
<1>7. set = {inventory[key] : key \in DOMAIN inventory}
  BY <1>4, <1>5
<1>8. \A key \in DOMAIN inventory : inventory[key] \in Item /\ Key(inventory[key]) = key
  BY <1>1, <1>5
<1> QED BY <1>6, <1>7, <1>8 DEF set, inventory, equipment

-----------------------------------------------------------------------------
(* Progression: the steps                                                  *)

LEMMA SameProgress ==
  ProgressInv /\ UNCHANGED <<feed, progress, shown>> => ProgressInv'
  BY SMTT(30) DEF ProgressInv, IsProgress, IsShown, WornIsWhereItSays, HostFollowsProgress,
         WornFollowsInventory, Worn, EquipmentMap, IsWorn, Item

(* A step that keeps items and worn slots, here and at the host, keeps     *)
(* what is said of them.                                                   *)
LEMMA ItemsKept ==
  ASSUME ProgressInv, feed' = feed,
         progress'.inventory = progress.inventory,
         progress'.equipment = progress.equipment,
         shown'.inventory = shown.inventory, shown'.worn = shown.worn
  PROVE  /\ WornIsWhereItSays' /\ WornFollowsInventory'
         /\ shown'.inventory = progress'.inventory /\ shown'.worn = Worn(progress')
<1>1. WornIsWhereItSays'
  BY DEF ProgressInv, WornIsWhereItSays
<1>2. WornFollowsInventory'
  BY DEF ProgressInv, WornFollowsInventory
<1>3. Worn(progress') = Worn(progress)
  BY DEF Worn
<1> QED BY <1>1, <1>2, <1>3 DEF ProgressInv, HostFollowsProgress

(* Nothing known, nothing worn: the state after a boundary.                *)
LEMMA NothingKnown ==
  ASSUME IsProgress(progress'), IsShown(shown'),
         progress'.inventory = Nothing, progress'.equipment = Nothing,
         shown'.inventory = Nothing, shown'.worn = Nothing,
         shown'.facts = progress'.facts,
         shown'.bar = {}, progress'.experience = {}
  PROVE  ProgressInv'
<1>1. DOMAIN Nothing = {}
  BY DEF Nothing
<1>2. WornIsWhereItSays'
  BY <1>1 DEF WornIsWhereItSays
<1>3. Worn(progress') = Nothing
  BY <1>1 DEF Worn, Nothing
<1>4. {progress'.inventory[key] : key \in DOMAIN progress'.inventory} = {}
  BY <1>1
<1>5. EquipmentMap({}) = Nothing
  BY DEF EquipmentMap, Nothing
<1>6. WornFollowsInventory'
  BY <1>4, <1>5 DEF WornFollowsInventory
<1>7. HostFollowsProgress'
  BY <1>3 DEF HostFollowsProgress
<1> QED BY <1>2, <1>6, <1>7 DEF ProgressInv

LEMMA ProgressInitInv == ProgressInit => ProgressInv
<1> SUFFICES ASSUME ProgressInit PROVE ProgressInv
  OBVIOUS
<1>1. /\ progress = NoProgress /\ shown = NothingShown
      /\ progress.inventory = Nothing /\ progress.equipment = Nothing
      /\ shown.inventory = Nothing /\ shown.worn = Nothing
      /\ shown.facts = progress.facts /\ shown.bar = {} /\ progress.experience = {}
  BY DEF ProgressInit, NoProgress, NothingShown
<1>2. IsProgress(progress) /\ IsShown(shown)
  BY <1>1 DEF IsProgress, IsShown, NoProgress, NothingShown
<1>3. DOMAIN Nothing = {}
  BY DEF Nothing
<1>4. WornIsWhereItSays
  BY <1>1, <1>3 DEF WornIsWhereItSays
<1>5. Worn(progress) = Nothing
  BY <1>1, <1>3 DEF Worn, Nothing
<1>6. {progress.inventory[key] : key \in DOMAIN progress.inventory} = {}
  BY <1>1, <1>3
<1>7. EquipmentMap({}) = Nothing
  BY DEF EquipmentMap, Nothing
<1>8. WornFollowsInventory
  BY <1>1, <1>6, <1>7 DEF WornFollowsInventory
<1>9. HostFollowsProgress
  BY <1>1, <1>5 DEF HostFollowsProgress
<1> QED BY <1>2, <1>4, <1>8, <1>9 DEF ProgressInv

LEMMA NewItems ==
  ASSUME NEW p, IsProgress(p), NEW inventory, NEW equipment, NEW next,
         next = [p EXCEPT !.inventory = inventory, !.equipment = equipment]
  PROVE  /\ next.inventory = inventory /\ next.equipment = equipment
         /\ next.facts = p.facts /\ next.experience = p.experience
         /\ next.level = p.level /\ IsProgress(next)
  BY DEF IsProgress

LEMMA ItemSetInv ==
  ASSUME ProgressInv, NEW items \in ItemSets, ItemSet(items)
  PROVE  ProgressInv'
<1> DEFINE set == Canonical(items)
           inventory == InventoryMap(set)
           equipment == EquipmentMap(set)
           next == [progress EXCEPT !.inventory = inventory, !.equipment = equipment]
<1>1. CASE items = <<>>
  BY <1>1, SameProgress DEF ItemSet
<1>2. CASE items # <<>>
  <2>1. /\ progress' = next
        /\ shown' = IF inventory = progress.inventory THEN shown
                    ELSE [shown EXCEPT !.inventory = inventory, !.worn = Worn(next)]
        /\ feed' = feed /\ feed = "eql"
    BY <1>2 DEF ItemSet
  <2>2. /\ next.inventory = inventory /\ next.equipment = equipment
        /\ next.facts = progress.facts /\ next.experience = progress.experience
        /\ next.level = progress.level /\ IsProgress(next)
    <3> HIDE DEF inventory, equipment
    <3> QED BY NewItems DEF ProgressInv
  <2>3. /\ set = {inventory[key] : key \in DOMAIN inventory}
        /\ \A key \in DOMAIN inventory : /\ inventory[key] \in Item
                                         /\ Key(inventory[key]) = key
        /\ \A place \in DOMAIN equipment :
             /\ place \in WornPlaces
             /\ equipment[place] \in DOMAIN inventory
             /\ inventory[equipment[place]].place = place
    BY MapsOfItems, ItemSetsAssumption
  <2>4. WornFollowsInventory'
    BY <2>1, <2>2, <2>3 DEF WornFollowsInventory
  <2> HIDE DEF next, inventory, equipment, set
  <2>5. WornIsWhereItSays'
    BY <2>1, <2>2, <2>3 DEF WornIsWhereItSays
  <2>6. CASE inventory = progress.inventory
    <3>1. progress.equipment = EquipmentMap(set)
      BY <2>1, <2>3, <2>6 DEF ProgressInv, WornFollowsInventory
    <3>2. progress'.equipment = progress.equipment /\ progress'.inventory = progress.inventory
      BY <2>1, <2>2, <2>6, <3>1 DEF equipment
    <3>3. Worn(progress') = Worn(progress)
      BY <3>2 DEF Worn
    <3>4. HostFollowsProgress'
      BY <2>1, <2>2, <2>6, <3>2, <3>3 DEF ProgressInv, HostFollowsProgress
    <3> QED BY <2>1, <2>2, <2>4, <2>5, <2>6, <3>4 DEF ProgressInv
  <2>7. CASE inventory # progress.inventory
    <3>1. /\ IsShown(shown') /\ shown'.inventory = inventory /\ shown'.worn = Worn(next)
          /\ shown'.facts = shown.facts /\ shown'.bar = shown.bar
      BY <2>1, <2>7 DEF ProgressInv, IsShown
    <3>2. HostFollowsProgress'
      BY <2>1, <2>2, <3>1 DEF ProgressInv, HostFollowsProgress
    <3> QED BY <2>1, <2>2, <2>4, <2>5, <3>1, <3>2 DEF ProgressInv
  <2> QED BY <2>6, <2>7
<1> QED BY <1>1, <1>2

(* The record of one item: a worn slot that names it, and is not the one   *)
(* it says it is in, is one that it leaves.                                *)
LEMMA ItemLearnedInv ==
  ASSUME ProgressInv, NEW item \in Item, ItemLearned(item)
  PROVE  ProgressInv'
<1> DEFINE k == Key(item)
           kept == DOMAIN progress.equipment \ Vacated(item)
           left == Only(progress.equipment, kept)
           still == Only(shown.worn, DOMAIN shown.worn \ Vacated(item))
<1>1. CASE k \in DOMAIN progress.inventory /\ progress.inventory[k] = item
  BY <1>1, SameProgress DEF ItemLearned
<1>2. CASE ~(k \in DOMAIN progress.inventory /\ progress.inventory[k] = item)
  <2>1. /\ progress' = [progress EXCEPT
             !.inventory = With(progress.inventory, k, item),
             !.equipment = IF IsWorn(item) THEN With(left, item.place, k) ELSE left]
        /\ shown' = [shown EXCEPT
             !.inventory = With(shown.inventory, k, item),
             !.worn = IF IsWorn(item) THEN With(still, item.place, item) ELSE still]
        /\ feed = "live" /\ feed' = feed
    BY <1>2 DEF ItemLearned
  <2>2. /\ IsProgress(progress')
        /\ progress'.inventory = With(progress.inventory, k, item)
        /\ progress'.equipment = IF IsWorn(item) THEN With(left, item.place, k) ELSE left
        /\ progress'.facts = progress.facts /\ progress'.experience = progress.experience
        /\ progress'.level = progress.level
    BY <2>1 DEF ProgressInv, IsProgress
  <2>3. /\ IsShown(shown')
        /\ shown'.inventory = With(progress.inventory, k, item)
        /\ shown'.worn = IF IsWorn(item) THEN With(still, item.place, item) ELSE still
        /\ shown'.facts = shown.facts /\ shown'.bar = shown.bar
    BY <2>1 DEF ProgressInv, IsShown, HostFollowsProgress
  <2>4. WornFollowsInventory'
    BY <2>1 DEF WornFollowsInventory
  <2>5. /\ DOMAIN progress'.inventory = DOMAIN progress.inventory \cup {k}
        /\ progress'.inventory[k] = item
        /\ \A key \in DOMAIN progress.inventory \ {k} :
             progress'.inventory[key] = progress.inventory[key]
    BY <2>2 DEF With
  <2>6. /\ DOMAIN left = kept
        /\ \A place \in kept : left[place] = progress.equipment[place]
    BY DEF Only
  <2>7. /\ DOMAIN shown.worn = DOMAIN progress.equipment
        /\ \A place \in DOMAIN progress.equipment :
             shown.worn[place] = progress.inventory[progress.equipment[place]]
    BY DEF ProgressInv, HostFollowsProgress, Worn
  <2>8. /\ DOMAIN still = kept
        /\ \A place \in kept : still[place] = progress.inventory[progress.equipment[place]]
    BY <2>7 DEF Only
  <2>9. ASSUME NEW place \in kept
        PROVE  /\ place \in DOMAIN progress.equipment /\ place \in WornPlaces
               /\ progress.equipment[place] \in DOMAIN progress.inventory
               /\ progress.inventory[progress.equipment[place]].place = place
               /\ progress.equipment[place] = k => IsWorn(item) /\ item.place = place
    <3>1. /\ place \in DOMAIN progress.equipment /\ place \in WornPlaces
          /\ progress.equipment[place] \in DOMAIN progress.inventory
          /\ progress.inventory[progress.equipment[place]].place = place
      BY DEF ProgressInv, WornIsWhereItSays
    <3>2. ASSUME progress.equipment[place] = k, ~(IsWorn(item) /\ item.place = place)
          PROVE  place \in Vacated(item)
      <4>1. /\ k \in DOMAIN progress.inventory \cap {Key(item)}
            /\ progress.inventory[k].place = place /\ IsWorn(progress.inventory[k])
        BY <3>1, <3>2 DEF IsWorn
      <4> QED BY <3>1, <3>2, <4>1 DEF Vacated
    <3> QED BY <3>1, <3>2
  <2> HIDE DEF k, kept, left, still
  <2>10. /\ \A place \in DOMAIN progress'.equipment :
              \/ IsWorn(item) /\ place = item.place /\ progress'.equipment[place] = k
              \/ /\ place \in kept /\ ~(IsWorn(item) /\ place = item.place)
                 /\ progress'.equipment[place] = progress.equipment[place]
                 /\ shown'.worn[place] = progress.inventory[progress.equipment[place]]
         /\ DOMAIN shown'.worn = DOMAIN progress'.equipment
         /\ IsWorn(item) => shown'.worn[item.place] = item
    <3>1. CASE IsWorn(item)
      <4>1. /\ progress'.equipment = With(left, item.place, k)
            /\ shown'.worn = With(still, item.place, item)
        BY <2>2, <2>3, <3>1
      <4> QED BY <3>1, <4>1, <2>6, <2>8 DEF With
    <3>2. CASE ~IsWorn(item)
      <4>1. progress'.equipment = left /\ shown'.worn = still
        BY <2>2, <2>3, <3>2
      <4> QED BY <3>2, <4>1, <2>6, <2>8
    <3> QED BY <3>1, <3>2
  <2>11. WornIsWhereItSays'
    <3>1. ASSUME NEW key \in DOMAIN progress'.inventory
          PROVE  progress'.inventory[key] \in Item /\ Key(progress'.inventory[key]) = key
      BY <2>5 DEF ProgressInv, WornIsWhereItSays, k
    <3>2. ASSUME NEW place \in DOMAIN progress'.equipment
          PROVE  /\ place \in WornPlaces
                 /\ progress'.equipment[place] \in DOMAIN progress'.inventory
                 /\ progress'.inventory[progress'.equipment[place]].place = place
      <4>1. CASE IsWorn(item) /\ place = item.place /\ progress'.equipment[place] = k
        BY <4>1, <2>5 DEF IsWorn
      <4>2. CASE /\ place \in kept /\ ~(IsWorn(item) /\ place = item.place)
                 /\ progress'.equipment[place] = progress.equipment[place]
        BY <4>2, <2>5, <2>9
      <4> QED BY <2>10, <4>1, <4>2
    <3> QED BY <3>1, <3>2 DEF WornIsWhereItSays
  <2>12. shown'.worn = Worn(progress')
    <3>1. ASSUME NEW place \in DOMAIN progress'.equipment
          PROVE  shown'.worn[place] = progress'.inventory[progress'.equipment[place]]
      <4>1. CASE IsWorn(item) /\ place = item.place /\ progress'.equipment[place] = k
        BY <4>1, <2>5, <2>10
      <4>2. CASE /\ place \in kept /\ ~(IsWorn(item) /\ place = item.place)
                 /\ progress'.equipment[place] = progress.equipment[place]
                 /\ shown'.worn[place] = progress.inventory[progress.equipment[place]]
        BY <4>2, <2>5, <2>9
      <4> QED BY <2>10, <4>1, <4>2
    <3>2. shown'.worn = [place \in DOMAIN shown'.worn |-> shown'.worn[place]]
      <4>1. CASE IsWorn(item)
        BY <4>1, <2>3 DEF With
      <4>2. CASE ~IsWorn(item)
        BY <4>2, <2>3 DEF still, Only
      <4> QED BY <4>1, <4>2
    <3> QED BY <2>10, <3>1, <3>2 DEF Worn
  <2>13. HostFollowsProgress'
    BY <2>2, <2>3, <2>12 DEF ProgressInv, HostFollowsProgress
  <2> QED BY <2>2, <2>3, <2>4, <2>11, <2>13 DEF ProgressInv
<1> QED BY <1>1, <1>2

LEMMA LearnInv ==
  ASSUME ProgressInv, NEW fact, NEW value, Learn(fact, value)
  PROVE  ProgressInv'
<1>1. CASE fact \in DOMAIN progress.facts /\ progress.facts[fact] = value
  BY <1>1, SameProgress DEF Learn
<1>2. CASE ~(fact \in DOMAIN progress.facts /\ progress.facts[fact] = value)
  <2>1. /\ progress' = [progress EXCEPT !.facts = With(progress.facts, fact, value)]
        /\ shown' = [shown EXCEPT !.facts = With(shown.facts, fact, value)]
        /\ feed' = feed
    BY <1>2 DEF Learn, Learned
  <2>2. /\ IsProgress(progress') /\ progress'.facts = With(progress.facts, fact, value)
        /\ progress'.inventory = progress.inventory
        /\ progress'.equipment = progress.equipment
        /\ progress'.experience = progress.experience /\ progress'.level = progress.level
    BY <2>1 DEF ProgressInv, IsProgress
  <2>3. /\ IsShown(shown') /\ shown'.facts = With(shown.facts, fact, value)
        /\ shown'.inventory = shown.inventory /\ shown'.worn = shown.worn
        /\ shown'.bar = shown.bar
    BY <2>1 DEF ProgressInv, IsShown
  <2>4. HostFollowsProgress'
    BY <2>1, <2>2, <2>3, ItemsKept DEF ProgressInv, HostFollowsProgress
  <2> QED BY <2>1, <2>2, <2>3, <2>4, ItemsKept DEF ProgressInv
<1> QED BY <1>1, <1>2

(* Experience and level, which the host shows together.                    *)
LEMMA BarKept ==
  ASSUME ProgressInv, NEW exp, NEW level, feed' = feed,
         progress' = [progress EXCEPT !.level = level, !.experience = {exp}],
         shown' = IF progress.level = level /\ progress.experience = {exp} THEN shown
                  ELSE [shown EXCEPT !.bar = Bar(exp, level)]
  PROVE  ProgressInv'
<1>1. /\ IsProgress(progress') /\ progress'.facts = progress.facts
      /\ progress'.inventory = progress.inventory
      /\ progress'.equipment = progress.equipment
      /\ progress'.experience = {exp} /\ progress'.level = level
  BY DEF ProgressInv, IsProgress
<1>2. /\ IsShown(shown') /\ shown'.facts = shown.facts
      /\ shown'.inventory = shown.inventory /\ shown'.worn = shown.worn
  BY DEF ProgressInv, IsShown
<1>3. shown'.bar = Bar(exp, level)
  <2>1. CASE progress.level = level /\ progress.experience = {exp}
    BY <2>1 DEF ProgressInv, HostFollowsProgress, Bar
  <2>2. CASE ~(progress.level = level /\ progress.experience = {exp})
    BY <2>2 DEF ProgressInv, IsShown
  <2> QED BY <2>1, <2>2
<1>4. {[exp |-> e, level |-> progress'.level] : e \in progress'.experience} = Bar(exp, level)
  BY <1>1 DEF Bar
<1>5. HostFollowsProgress'
  BY <1>1, <1>2, <1>3, <1>4, ItemsKept DEF ProgressInv, HostFollowsProgress
<1> QED BY <1>1, <1>2, <1>5, ItemsKept DEF ProgressInv

LEMMA ExpInv ==
  ASSUME ProgressInv, NEW exp, Exp(exp)
  PROVE  ProgressInv'
<1>1. progress' = [progress EXCEPT !.level = progress.level, !.experience = {exp}]
  BY DEF Exp, ProgressInv, IsProgress
<1> QED BY <1>1, BarKept DEF Exp

LEMMA LevelUpdateInv ==
  ASSUME ProgressInv, NEW level, NEW exp, LevelUpdate(level, exp)
  PROVE  ProgressInv'
  BY BarKept DEF LevelUpdate

(* A profile publishes what it kept of its purse, skills and AA.           *)
LEMMA PlayerProfileInv ==
  ASSUME NEW level, NEW facts, PlayerProfile(level, facts)
  PROVE  ProgressInv'
<1> DEFINE learned == Only(facts, OtherFacts \cup {s \in Skills : facts[s] # 0})
           p == Over(ResetProgress.facts, learned)
<1>1. /\ progress' = [ResetProgress EXCEPT !.level = {level}, !.facts = p]
      /\ shown' = [NothingShown EXCEPT !.facts = learned]
  BY DEF PlayerProfile
<1>2. p = learned
  <2>1. ResetProgress.facts = Nothing /\ DOMAIN Nothing = {}
    BY DEF ResetProgress, NoProgress, Nothing
  <2> QED BY <2>1 DEF Over, Only
<1> HIDE DEF learned, p
<1>3. /\ IsProgress(progress') /\ progress'.inventory = Nothing
      /\ progress'.equipment = Nothing /\ progress'.facts = p
      /\ progress'.experience = {}
  BY <1>1 DEF IsProgress, ResetProgress, NoProgress
<1>4. /\ IsShown(shown') /\ shown'.inventory = Nothing /\ shown'.worn = Nothing
      /\ shown'.facts = learned /\ shown'.bar = {}
  BY <1>1 DEF IsShown, NothingShown
<1> QED BY <1>2, <1>3, <1>4, NothingKnown

LEMMA ForgottenInv ==
  ASSUME progress' = ResetProgress, shown' = NothingShown
  PROVE  ProgressInv'
<1>1. /\ IsProgress(progress') /\ progress'.inventory = Nothing
      /\ progress'.equipment = Nothing /\ progress'.facts = Nothing
      /\ progress'.experience = {}
  BY DEF IsProgress, ResetProgress, NoProgress
<1>2. /\ IsShown(shown') /\ shown'.inventory = Nothing /\ shown'.worn = Nothing
      /\ shown'.facts = Nothing /\ shown'.bar = {}
  BY DEF IsShown, NothingShown
<1> QED BY <1>1, <1>2, NothingKnown

LEMMA NextProgressInv == ProgressInv /\ [Next]_vars => ProgressInv'
<1> SUFFICES ASSUME ProgressInv, [Next]_vars PROVE ProgressInv'
  OBVIOUS
<1>1. CASE ProgressPacket
  <2>1. ASSUME NEW items \in ItemSets, ItemSet(items) PROVE ProgressInv'
    BY <2>1, ItemSetInv
  <2>2. ASSUME NEW item \in Item, ItemLearned(item) PROVE ProgressInv'
    BY <2>2, ItemLearnedInv
  <2>3. ASSUME NEW fact \in Facts, NEW value \in Values, Learn(fact, value)
        PROVE  ProgressInv'
    BY <2>3, LearnInv
  <2>4. ASSUME NEW exp \in Exps, Exp(exp) PROVE ProgressInv'
    BY <2>4, ExpInv
  <2>5. ASSUME NEW level \in Levels, NEW exp \in Exps, LevelUpdate(level, exp)
        PROVE  ProgressInv'
    BY <2>5, LevelUpdateInv
  <2>6. ASSUME NEW level \in Levels, ZoneEntry(level) \/ LoadoutSwap(level)
        PROVE  ProgressInv'
    BY <2>6, SameProgress DEF ZoneEntry, LoadoutSwap
  <2> QED BY <1>1, <2>1, <2>2, <2>3, <2>4, <2>5, <2>6 DEF ProgressPacket
<1>2. CASE ProgressBoundary
  <2>1. ASSUME NEW level \in Levels, NEW facts \in ProfileFacts, PlayerProfile(level, facts)
        PROVE  ProgressInv'
    BY <2>1, PlayerProfileInv
  <2>2. ASSUME NEW same \in BOOLEAN, EnterWorld(same) PROVE ProgressInv'
    BY <2>2, ForgottenInv DEF EnterWorld
  <2> QED BY <1>2, <2>1, <2>2 DEF ProgressBoundary
<1>3. CASE ForgetProgress
  BY <1>3, ForgottenInv DEF ForgetProgress
<1>4. CASE UNCHANGED progressVars
  BY <1>4, SameProgress DEF progressVars
<1> QED BY <1>1, <1>2, <1>3, <1>4 DEF Next, Enter, ZoneTransition, Flush, vars

-----------------------------------------------------------------------------
(* Progression: worn slots from step to step                               *)

LEMMA SlotsAsTheyWere ==
  ASSUME ProgressInv, progress'.equipment = progress.equipment
  PROVE  SlotsAreKept
BY DEF ProgressInv, WornIsWhereItSays, SlotsAreKept

LEMMA SlotsForgotten ==
  ASSUME ProgressInv, progress'.inventory = Nothing
  PROVE  SlotsAreKept
BY DEF ProgressInv, WornIsWhereItSays, SlotsAreKept, Nothing

(* In a whole inventory, a slot that an item says it is in is worn.        *)
LEMMA ItemSetKeepsSlots ==
  ASSUME ProgressInv, NEW items \in ItemSets, ItemSet(items)
  PROVE  SlotsAreKept
<1> DEFINE set == Canonical(items)
           inventory == InventoryMap(set)
           equipment == EquipmentMap(set)
<1>1. CASE items = <<>>
  BY <1>1, SlotsAsTheyWere DEF ItemSet
<1>2. CASE items # <<>>
  <2>1. progress'.inventory = inventory /\ progress'.equipment = equipment
    <3>1. progress' = [progress EXCEPT !.inventory = inventory, !.equipment = equipment]
      BY <1>2 DEF ItemSet
    <3>2. IsProgress(progress)
      BY DEF ProgressInv
    <3> HIDE DEF inventory, equipment
    <3> QED BY <3>1, <3>2 DEF IsProgress
  <2>2. set = {inventory[key] : key \in DOMAIN inventory}
    BY MapsOfItems, ItemSetsAssumption
  <2> HIDE DEF set, inventory
  <2>3. ASSUME NEW key \in DOMAIN inventory, inventory[key].place \in WornPlaces
        PROVE  inventory[key].place \in DOMAIN equipment
    <3>1. inventory[key] \in {j \in set : IsWorn(j)}
      BY <2>2, <2>3 DEF IsWorn
    <3> QED BY <3>1 DEF EquipmentMap
  <2> HIDE DEF equipment
  <2> QED BY <2>1, <2>3 DEF SlotsAreKept, ProgressInv, WornIsWhereItSays
<1> QED BY <1>1, <1>2

(* The record of one item clears only the slot that names it.              *)
LEMMA ItemLearnedKeepsSlots ==
  ASSUME ProgressInv, NEW item \in Item, ItemLearned(item)
  PROVE  SlotsAreKept
<1> DEFINE k == Key(item)
           kept == DOMAIN progress.equipment \ Vacated(item)
           left == Only(progress.equipment, kept)
<1>1. CASE k \in DOMAIN progress.inventory /\ progress.inventory[k] = item
  BY <1>1, SlotsAsTheyWere DEF ItemLearned
<1>2. CASE ~(k \in DOMAIN progress.inventory /\ progress.inventory[k] = item)
  <2>1. /\ progress'.inventory = With(progress.inventory, k, item)
        /\ progress'.equipment = IF IsWorn(item) THEN With(left, item.place, k) ELSE left
    BY <1>2 DEF ItemLearned, ProgressInv, IsProgress
  <2>2. progress'.inventory[k] = item
    BY <2>1 DEF With
  <2>3. kept \subseteq DOMAIN progress'.equipment
    BY <2>1 DEF With, Only
  <2>4. ASSUME NEW place \in DOMAIN progress.equipment, place \in Vacated(item)
        PROVE  progress.equipment[place] = k /\ (IsWorn(item) => item.place # place)
    BY <2>4 DEF Vacated
  <2>5. ASSUME NEW place \in DOMAIN progress.equipment
        PROVE  /\ place \in WornPlaces
               /\ progress.equipment[place] \in DOMAIN progress.inventory
               /\ progress.inventory[progress.equipment[place]].place = place
    BY DEF ProgressInv, WornIsWhereItSays
  <2>6. ASSUME NEW place \in DOMAIN progress.equipment, place \in Vacated(item)
        PROVE  progress'.inventory[progress.equipment[place]].place # place
    BY <2>2, <2>4, <2>5, <2>6 DEF IsWorn
  <2> HIDE DEF k, left
  <2> QED BY <2>3, <2>5, <2>6 DEF SlotsAreKept
<1> QED BY <1>1, <1>2

LEMMA SlotsStep == ProgressInv /\ [Next]_vars => [SlotsAreKept]_progressVars
<1> SUFFICES ASSUME ProgressInv, [Next]_vars PROVE SlotsAreKept \/ UNCHANGED progressVars
  OBVIOUS
<1>1. CASE ProgressPacket
  <2>1. ASSUME NEW items \in ItemSets, ItemSet(items) PROVE SlotsAreKept
    BY <2>1, ItemSetKeepsSlots
  <2>2. ASSUME NEW item \in Item, ItemLearned(item) PROVE SlotsAreKept
    BY <2>2, ItemLearnedKeepsSlots
  <2>3. ASSUME NEW fact \in Facts, NEW value \in Values, Learn(fact, value)
        PROVE  SlotsAreKept
    <3>1. progress'.equipment = progress.equipment
      BY <2>3 DEF Learn, Learned, ProgressInv, IsProgress
    <3> QED BY <3>1, SlotsAsTheyWere
  <2>4. ASSUME NEW exp \in Exps, Exp(exp) PROVE SlotsAreKept
    BY <2>4, SlotsAsTheyWere DEF Exp, ProgressInv, IsProgress
  <2>5. ASSUME NEW level \in Levels, NEW exp \in Exps, LevelUpdate(level, exp)
        PROVE  SlotsAreKept
    BY <2>5, SlotsAsTheyWere DEF LevelUpdate, ProgressInv, IsProgress
  <2>6. ASSUME NEW level \in Levels, ZoneEntry(level) \/ LoadoutSwap(level)
        PROVE  SlotsAreKept
    BY <2>6, SlotsAsTheyWere DEF ZoneEntry, LoadoutSwap
  <2> QED BY <1>1, <2>1, <2>2, <2>3, <2>4, <2>5, <2>6 DEF ProgressPacket
<1>2. CASE ProgressBoundary \/ ForgetProgress
  <2>1. progress'.inventory = Nothing
    <3>1. ASSUME NEW level \in Levels, NEW facts \in ProfileFacts, PlayerProfile(level, facts)
          PROVE  progress'.inventory = Nothing
      BY <3>1 DEF PlayerProfile, ResetProgress, NoProgress
    <3>2. ASSUME progress' = ResetProgress PROVE progress'.inventory = Nothing
      BY <3>2 DEF ResetProgress, NoProgress
    <3> QED BY <1>2, <3>1, <3>2 DEF ProgressBoundary, EnterWorld, ForgetProgress
  <2> QED BY <2>1, SlotsForgotten
<1>3. CASE UNCHANGED progressVars
  BY <1>3
<1> QED BY <1>1, <1>2, <1>3 DEF Next, Enter, ZoneTransition, Flush, vars

LEMMA ProgressInvAlways == Spec => []ProgressInv
<1>1. Init => ProgressInv
  BY ProgressInitInv DEF Init
<1> QED BY <1>1, NextProgressInv, PTL DEF Spec

-----------------------------------------------------------------------------
(* Theorems                                                                *)

(* Names by id, ids by name and kinds mirror each other, whatever records, *)
(* removals, renames and resets come (EntityIndex, lib.rs:218-277).        *)
THEOREM MapsAgree == Spec => []IndexAgrees
<1>1. IndexInv => IndexAgrees
  BY DEF IndexInv
<1> QED BY <1>1, InvAlways, PTL

(* A host that follows the published events lists the same spawns under    *)
(* the same names (lib.rs:969-989).                                        *)
THEOREM HostAgrees == Spec => []HostFollowsSpawns
<1>1. IndexInv => HostFollowsSpawns
  BY DEF IndexInv
<1> QED BY <1>1, InvAlways, PTL

(* Unless one of two namesakes was renamed since the last boundary, every  *)
(* indexed spawn has the server's name and kind: no rename is given to the *)
(* wrong spawn, even while some are unseen (lib.rs:250-264, 973-983).      *)
THEOREM RenamesAreRight == Spec => []IndexIsTrue
<1>1. IndexInv => IndexIsTrue
  BY DEF IndexInv
<1> QED BY <1>1, InvAlways, PTL

(* A worn slot names an item that is there, and it is not cleared as long  *)
(* as that item's record says so, whatever inventories and items come in   *)
(* whatever order (lib.rs:1154-1189).                                      *)
THEOREM WornSlotsAreRight == Spec => WornUntilMoved
BY ProgressInvAlways, SlotsStep, PTL DEF Spec, WornUntilMoved

(* A host that applies the published changes shows the session's items,    *)
(* worn slots, values and experience (lib.rs:994-1152, 2151).              *)
THEOREM HostHasTheProgress == Spec => []HostFollowsProgress
<1>1. ProgressInv => HostFollowsProgress
  BY DEF ProgressInv
<1> QED BY <1>1, ProgressInvAlways, PTL
=============================================================================
