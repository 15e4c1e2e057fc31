-------------------------------- MODULE HSet --------------------------------
(***************************************************************************)
(* ds/hset: a header of its own around a map whose values take no room,    *)
(* and whose calls it forwards without them; and what maps and sets answer *)
(* when two of them are compared.                                          *)
(*                                                                         *)
(* The map pointer of a set is written once, by wrap, so that a set and    *)
(* its map go by one handle.                                               *)
(***************************************************************************)
EXTENDS HMap

CONSTANT NoVal  \* the value of an entry whose val_size is 0

ASSUME NoValAssumption == NoVal \in Vals

VARIABLE set  \* handle -> the allocator that lent its set's header, or Null

setVars == <<set, vars>>

IsSet(h) == set[h] # Null

SetInit == Init /\ set = [h \in Handles |-> Null]

GivenUp_HeaderOnly(r) == r.m
(* A map whose wrapper was refused is dropped, nodes and all.              *)
GivenUp(r) == ReleasedMem(r.d, r.m)

(* A constructor: the map first, as r says, then wrap; n headers are lent. *)
Wrap(g, a, r, n) ==
  /\ ~Alive(g)
  /\ \/ /\ n = 0
        /\ Refuse
        /\ UNCHANGED set
     \/ /\ n > 0 /\ r.st = NoMem
        /\ mem' = r.m
        /\ hdrs' = ReturnHdr(TakeHdr(hdrs, a), a)
        /\ status' = NoMem
        /\ UNCHANGED <<map, set>>
     \/ /\ n = 1 /\ r.st = OK
        /\ mem' = GivenUp(r)
        /\ hdrs' = ReturnHdr(TakeHdr(hdrs, a), a)
        /\ status' = NoMem
        /\ UNCHANGED <<map, set>>
     \/ /\ n = 2 /\ r.st = OK
        /\ map' = [map EXCEPT ![g] = r.d]
        /\ mem' = r.m
        /\ hdrs' = TakeHdr(hdrs, a)
        /\ set' = [set EXCEPT ![g] = a]
        /\ status' = OK

SetNew(g, cap, hs, a, n, room) == Wrap(g, a, NewRaw(cap, hs, a, mem, room), n)

SetCopyWith(h, g, a, n, room, grants) ==
  /\ IsSet(h)
  /\ Wrap(g, a, Clone(map[h], a, mem, room, grants), n)

(* The allocator is read before the map, which knows it, is dropped; to    *)
(* another one than lent it, the header does not go back.                  *)
SetDrop(h) ==
  /\ IsSet(h)
  /\ Drop(h)
  /\ set' = IF set[h] = map[h].al THEN [set EXCEPT ![h] = Null] ELSE set

SetAssign(h, g, ans) ==
  /\ IsSet(h) /\ IsSet(g)
  /\ CopyAssign(h, g, ans[1], ans[2], ans[3]) \/ MoveAssign(h, g, ans[1], ans[2], ans[3])
  /\ UNCHANGED set

SetForwards(h) ==
  /\ IsSet(h)
  /\ UNCHANGED set
  /\ \/ \E room \in Rooms :
          \/ \E key \in Keys, granted \in BOOLEAN : Insert(h, key, NoVal, room, granted)
          \/ \E cap \in Caps : ReserveCap(h, cap, room)
          \/ ShrinkToFit(h, room)
     \/ \E key \in Keys : Remove(h, key)
     \/ Clear(h)

SetSwap(h, g) ==
  /\ IsSet(h) /\ IsSet(g)
  /\ Swap(h, g)
  /\ UNCHANGED set

SetStep(h) ==
  \/ SetDrop(h)
  \/ SetForwards(h)
  \/ \E a \in Als, hs \in Hashers, cap \in Caps, n \in 0 .. 2, room \in Rooms :
       SetNew(h, cap, hs, a, n, room)
  \/ \E g \in Handles :
       \/ SetSwap(h, g)
       \/ \E ans \in Answers(h) :
            \/ SetAssign(h, g, ans)
            \/ \E a \in Als, n \in 0 .. 2 : ans[1] /\ SetCopyWith(h, g, a, n, ans[2], ans[3])

(* What the program does to maps of its own it does to no set's.           *)
LooseStep ==
  /\ Next
  /\ UNCHANGED set
  /\ \A h \in Handles : IsSet(h) => map'[h] = map[h]

SetNext == LooseStep \/ \E h \in Handles : SetStep(h)

SetSpec == SetInit /\ [][SetNext]_setVars

-----------------------------------------------------------------------------
(* Comparing two objects: what one walk meets is looked up in the other,   *)
(* under the other's hasher. One pass is enough for equal lengths.         *)

Contains(d, m, key) == FindNode(d, m, key) # Null

HSetEq_OnePass(d, e, m) ==
  \A i \in DOMAIN WalkOrder(d, m) : Contains(e, m, m[WalkOrder(d, m)[i]].key)

HSetEq(d, e, m) ==
  /\ d.len = e.len
  /\ \A i \in DOMAIN WalkOrder(d, m) : Contains(e, m, m[WalkOrder(d, m)[i]].key)

(* tda_hmap_get, null when the key is not there.                           *)
Get(d, m, key) == IF Contains(d, m, key) THEN m[FindNode(d, m, key)].val ELSE Null

EqImpl(d, e, m, alike) ==
  /\ d.len = e.len
  /\ \A i \in DOMAIN WalkOrder(d, m) :
       LET x == WalkOrder(d, m)[i]
           y == Get(e, m, m[x].key)
       IN  Contains(e, m, m[x].key) /\ (m[x].val = y \/ {m[x].val, y} \subseteq alike)

(* By bytes; by a val_eq that takes the values of "alike" for one.         *)
HMapEq(d, e, m)          == EqImpl(d, e, m, {})
HMapEqBy(d, e, m, alike) == EqImpl(d, e, m, alike)

(* Two maps are equal when their entries are and two sets when their keys  *)
(* are, whatever their hashers, their bucket counts and the order in which *)
(* the entries came; and the walk meets exactly what a lookup finds.       *)
EqualByContents ==
  \A h, g \in Handles : Alive(h) /\ Alive(g) =>
    /\ HMapEq(map[h], map[g], mem) <=> Entries(h) = Entries(g)
    /\ HMapEqBy(map[h], map[g], mem, Vals) <=> DOMAIN Entries(h) = DOMAIN Entries(g)
    /\ HSetEq(map[h], map[g], mem) <=> DOMAIN Entries(h) = DOMAIN Entries(g)

(* Every wrapper header was lent by the allocator its map is on now, which *)
(* is where it will be given back.                                         *)
WrappersStayWithTheirMap ==
  \A h \in Handles : IsSet(h) => Alive(h) /\ set[h] = map[h].al
=============================================================================
