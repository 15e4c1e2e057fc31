------------------------------- MODULE MCHMap -------------------------------
(***************************************************************************)
(* HMap on a small instance: one object with arrays of 2, 4 and 8 buckets  *)
(* and keys that collide in some of them or in all.                        *)
(***************************************************************************)
EXTENDS HMap, TLC

CONSTANTS k1, k2, k3, k4

(* k1 and k2 have one hash; k3 leaves their bucket in an array of 8 only.  *)
Colliding == [k \in Keys |-> IF k = k3 THEN 5 ELSE IF k = k4 THEN 2 ELSE 1]

MCHashers  == {Colliding}

(* The lowest address that is free.                                        *)
MCLends ==
  [S \in SUBSET (Arrays \cup Nodes) |->
     IF S = {} THEN Null ELSE CHOOSE x \in S : \A y \in S : x <= y]

MCArrays  == 1 .. 2
MCNodes   == 11 .. 14
MCCaps   == {0, 3, 5, 9}
MCRooms  == {0, 8}

(* States that differ in the last answer or in the addresses of nodes and  *)
(* arrays go on alike, and are taken for one: what is seen of a map is its *)
(* struct and the nodes of each chain, of its memory what is lent to whom. *)
SeenChain(x) ==
  LET chain == Chain(mem, x)
  IN  [k \in DOMAIN chain |-> [mem[chain[k]] EXCEPT !.next = Null]]

SeenMap(h) ==
  IF ~Alive(h) THEN Null
  ELSE <<[map[h] EXCEPT !.buckets = Null],
         IF map[h].buckets = Null \/ mem[map[h].buckets] = Null THEN Null
         ELSE [i \in DOMAIN mem[map[h].buckets].slots |-> SeenChain(mem[map[h].buckets].slots[i])]>>

LentArrays(a, n) == Cardinality({b \in Arrays : mem[b] # Null /\ mem[b].al = a /\ Cardinality(DOMAIN mem[b].slots) = n})
LentNodes(a)     == Cardinality({x \in Nodes : mem[x] # Null /\ mem[x].al = a})

View ==
  <<[h \in Handles |-> SeenMap(h)], hdrs,
    [a \in Als |-> LentNodes(a)], [a \in Als, n \in Pow2s |-> LentArrays(a, n)]>>

Symm == Permutations(Vals)
=============================================================================
