------------------------------- MODULE MapStore -------------------------------
(***************************************************************************)
(* What a hash map promises its caller: an object behind a handle has      *)
(* entries, a hasher it came by with them, and the allocator it was built  *)
(* with; a call does what its header says or reports NO_MEM and leaves     *)
(* every entry of every object as it was. Nothing here is about buckets,   *)
(* nodes or hashes.                                                        *)
(***************************************************************************)
EXTENDS Naturals

CONSTANTS
  Handles, Als, Keys, Vals, Hashers,
  Null,
  OK, NoMem

VARIABLES
  objs,    \* handle -> [al, hasher, entries], or Null
  status   \* what the last call returned

mVars == <<objs, status>>

(* Entries are a function on the keys that are there.                      *)
NoEntries == [k \in {} |-> Null]
Put(e, k, v) == [x \in DOMAIN e \cup {k} |-> IF x = k THEN v ELSE e[x]]
Without(e, k) == [x \in DOMAIN e \ {k} |-> e[x]]

Alive(h) == objs[h] # Null

MapInit ==
  /\ objs = [h \in Handles |-> Null]
  /\ status = OK

Refused ==
  /\ status' = NoMem
  /\ UNCHANGED objs

Done ==
  /\ status' = OK
  /\ UNCHANGED objs

Becomes(h, e) ==
  /\ objs' = [objs EXCEPT ![h].entries = e]
  /\ status' = OK

-----------------------------------------------------------------------------
MapNew(h, o) ==
  /\ ~Alive(h)
  /\ \/ /\ objs' = [objs EXCEPT ![h] = o]
        /\ status' = OK
     \/ Refused

MapDrop(h) ==
  /\ Alive(h)
  /\ objs' = [objs EXCEPT ![h] = Null]
  /\ status' = OK

MapCopyWith(h, g, a) ==
  /\ Alive(h)
  /\ MapNew(g, [objs[h] EXCEPT !.al = a])

(* The target keeps its own allocator, and takes the hasher over.          *)
MapCopyAssign(h, g) ==
  /\ Alive(h) /\ Alive(g)
  /\ \/ /\ objs' = [objs EXCEPT ![g] = [objs[h] EXCEPT !.al = objs[g].al]]
        /\ status' = OK
     \/ Refused

(* The source is left empty, with its own hasher or the target's.          *)
MapMoveAssign(h, g) ==
  /\ Alive(h) /\ Alive(g)
  /\ \/ /\ h = g
        /\ Done
     \/ /\ h # g
        /\ \E hs \in {objs[h].hasher, objs[g].hasher} :
             objs' = [objs EXCEPT
                        ![g] = [objs[h] EXCEPT !.al = objs[g].al],
                        ![h] = [al |-> objs[h].al, hasher |-> hs, entries |-> NoEntries]]
        /\ status' = OK
     \/ Refused

MapSwap(h, g) ==
  /\ Alive(h) /\ Alive(g)
  /\ objs[h].al = objs[g].al
  /\ objs' = [objs EXCEPT ![h] = objs[g], ![g] = objs[h]]
  /\ status' = OK

-----------------------------------------------------------------------------
MapInsert(h, k, v) ==
  /\ Alive(h)
  /\ \/ Becomes(h, Put(objs[h].entries, k, v))
     \/ /\ k \notin DOMAIN objs[h].entries
        /\ Refused

MapGetOrInsert(h, k, v) ==
  /\ Alive(h)
  /\ \/ /\ k \in DOMAIN objs[h].entries
        /\ Done
     \/ /\ k \notin DOMAIN objs[h].entries
        /\ \/ Becomes(h, Put(objs[h].entries, k, v))
           \/ Refused

MapWrite(h, k, v) ==
  /\ Alive(h)
  /\ k \in DOMAIN objs[h].entries
  /\ Becomes(h, Put(objs[h].entries, k, v))

MapRemove(h, k) ==
  /\ Alive(h)
  /\ Becomes(h, Without(objs[h].entries, k))

MapClear(h) ==
  /\ Alive(h)
  /\ Becomes(h, NoEntries)

(* reserve, shrink_to_fit, and whatever was refused.                       *)
MapHousekeeping ==
  /\ Done \/ Refused
  /\ \E h \in Handles : Alive(h)

(* What leaves every object as it was comes first: most calls do.          *)
MapNext ==
  \/ MapHousekeeping
  \/ \E h \in Handles :
       \/ \E k \in Keys, v \in Vals :
            MapInsert(h, k, v) \/ MapGetOrInsert(h, k, v) \/ MapWrite(h, k, v)
       \/ \E k \in Keys : MapRemove(h, k)
       \/ MapClear(h)
       \/ MapDrop(h)
       \/ \E g \in Handles :
            \/ MapSwap(h, g)
            \/ MapMoveAssign(h, g)
            \/ MapCopyAssign(h, g)
            \/ \E a \in Als : MapCopyWith(h, g, a)
       \/ \E a \in Als, hs \in Hashers :
            MapNew(h, [al |-> a, hasher |-> hs, entries |-> NoEntries])

MapSpec == MapInit /\ [][MapNext]_mVars
=============================================================================
