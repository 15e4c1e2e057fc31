------------------------------ MODULE PrioStore ------------------------------
(***************************************************************************)
(* What a priority queue promises: objects that hold a bag of elems, their *)
(* order and the allocator they were built with; the elem on top is one    *)
(* that none outranks, and that is the one a pop removes. Calls do what    *)
(* their header says or report NO_MEM and change nothing.                  *)
(***************************************************************************)
EXTENDS Integers, Sequences, FiniteSets, Bags

CONSTANTS Handles, Als, Vals, Inputs, Orders, Null, OK, NoMem

VARIABLES
  objs,     \* handle -> its object, [al, cmp, bag, top], or Null
  status    \* what the last call returned

pVars == <<objs, status>>

Alive(h) == objs[h] # Null

BagOf(s) == [v \in {s[i] : i \in DOMAIN s} |-> Cardinality({i \in DOMAIN s : s[i] = v})]

(* The elems of a bag that none of it outranks.                            *)
Greatest(bag, cmp) == {v \in BagToSet(bag) : \A w \in BagToSet(bag) : cmp[v, w] >= 0}

(* What may be behind a handle that holds the bag under cmp.               *)
Objects(a, cmp, bag) ==
  {[al |-> a, cmp |-> cmp, bag |-> bag, top |-> t] :
     t \in IF bag = EmptyBag THEN {Null} ELSE Greatest(bag, cmp)}

Refused ==
  /\ status' = NoMem
  /\ UNCHANGED objs

Done ==
  /\ status' = OK
  /\ UNCHANGED objs

(* Now h holds the bag under cmp.                                          *)
Becomes(h, a, cmp, bag) ==
  /\ \E o \in Objects(a, cmp, bag) : objs' = [objs EXCEPT ![h] = o]
  /\ status' = OK

PrioInit ==
  /\ objs = [h \in Handles |-> Null]
  /\ status = OK

PrioNew(h, a, cmp, s) ==
  /\ ~Alive(h)
  /\ Becomes(h, a, cmp, BagOf(s)) \/ Refused

(* A drop, or the elems handed over as a vec.                              *)
PrioEnd(h) ==
  /\ Alive(h)
  /\ objs' = [objs EXCEPT ![h] = Null]
  /\ status' = OK

PrioCopyWith(h, g, a) ==
  /\ Alive(h) /\ ~Alive(g)
  /\ Becomes(g, a, objs[h].cmp, objs[h].bag) \/ Refused

PrioPush(h, v) ==
  /\ Alive(h)
  /\ Becomes(h, objs[h].al, objs[h].cmp, objs[h].bag (+) SetToBag({v})) \/ Refused

(* The elem that goes is the one that was on top.                          *)
PrioPop(h) ==
  /\ Alive(h)
  /\ objs[h].bag # EmptyBag
  /\ Becomes(h, objs[h].al, objs[h].cmp, objs[h].bag (-) SetToBag({objs[h].top}))

PrioClear(h) ==
  /\ Alive(h)
  /\ Becomes(h, objs[h].al, objs[h].cmp, EmptyBag)

(* Elems and order go together; the target keeps its allocator.            *)
PrioCopyAssign(h, g) ==
  /\ Alive(h) /\ Alive(g)
  /\ Becomes(g, objs[g].al, objs[h].cmp, objs[h].bag) \/ Refused

PrioMoveAssign(h, g) ==
  /\ Alive(h) /\ Alive(g)
  /\ h # g
  /\ \/ /\ objs' = [objs EXCEPT ![g] = [objs[h] EXCEPT !.al = objs[g].al],
                                ![h] = [objs[h] EXCEPT !.bag = EmptyBag, !.top = Null]]
        /\ status' = OK
     \/ Refused

PrioSwap(h, g) ==
  /\ Alive(h) /\ Alive(g)
  /\ objs[h].al = objs[g].al
  /\ objs' = [objs EXCEPT ![g] = objs[h], ![h] = objs[g]]
  /\ status' = OK

PrioNext ==
  \/ Done
  \/ Refused
  \/ \E h \in Handles :
       \/ PrioEnd(h)
       \/ PrioPop(h)
       \/ PrioClear(h)
       \/ \E v \in Vals : PrioPush(h, v)
       \/ \E g \in Handles :
            \/ PrioCopyAssign(h, g)
            \/ PrioMoveAssign(h, g)
            \/ PrioSwap(h, g)
            \/ \E a \in Als : PrioCopyWith(h, g, a)
       \/ \E a \in Als, cmp \in Orders, s \in Inputs : PrioNew(h, a, cmp, s)

PrioSpec == PrioInit /\ [][PrioNext]_pVars
=============================================================================
