------------------------------ MODULE ListStore ------------------------------
(***************************************************************************)
(* What a linked list promises its caller: an object behind a handle is an *)
(* allocator and a sequence of nodes, a node keeps its elem and its place  *)
(* in memory whatever list it is moved to, and a call does what its header *)
(* says or reports NO_MEM and changes nothing. Nothing here is about links.*)
(*                                                                         *)
(* Which nodes a call that makes some will make is read off the state it   *)
(* leads to.                                                               *)
(***************************************************************************)
EXTENDS Integers, Sequences

CONSTANTS
  Handles, Als, Nodes,
  Vals,    \* elems, ordered by <=
  Inputs,  \* arrays of elems a caller hands over
  Null,
  OK, NoMem, Yes, No

VARIABLES
  objs,    \* handle -> [al, nodes], or Null
  elem,    \* the elem of each node there is
  status   \* what the last call answered

lVars == <<objs, elem, status>>

Alive(h) == objs[h] # Null

NodesIn(s) == {s[i] : i \in DOMAIN s}
Elems(s) == [i \in DOMAIN s |-> elem[s[i]]]
PlaceOf(s, x) == CHOOSE i \in DOMAIN s : s[i] = x
FirstN(s, n) == SubSeq(s, 1, n)
AfterN(s, n) == SubSeq(s, n + 1, Len(s))
Except(s, x) == SelectSeq(s, LAMBDA y : y # x)

(* The nodes h has after the step.                                         *)
After(h) == IF objs'[h] = Null THEN <<>> ELSE objs'[h].nodes

(* The nodes of s are new ones, to hold vs.                                *)
AreNew(s, vs) ==
  /\ Len(s) = Len(vs)
  /\ NodesIn(s) \cap DOMAIN elem = {}
  /\ \A i, j \in DOMAIN s : i # j => s[i] # s[j]

(* The elems once the nodes of s hold vs and those of gone are gone.       *)
Holding(s, vs, gone) ==
  [x \in (DOMAIN elem \cup NodesIn(s)) \ gone |->
     IF x \in NodesIn(s) THEN vs[PlaceOf(s, x)] ELSE elem[x]]

IsSorted(s, e) == \A i, j \in DOMAIN s : i < j => e[s[i]] <= e[s[j]]

(* t has the nodes of s by elem, and among equals in the order of s.       *)
IsStableSort(t, s, e) ==
  /\ Len(t) = Len(s)
  /\ NodesIn(t) = NodesIn(s)
  /\ IsSorted(t, e)
  /\ \A i, j \in DOMAIN t : i < j /\ e[t[i]] = e[t[j]] => PlaceOf(s, t[i]) < PlaceOf(s, t[j])

ListInit ==
  /\ objs = [h \in Handles |-> Null]
  /\ elem = [x \in {} |-> Null]
  /\ status = OK

Refused ==
  /\ status' = NoMem
  /\ UNCHANGED <<objs, elem>>

Done ==
  /\ status' = OK
  /\ UNCHANGED <<objs, elem>>

Becomes(h, s) ==
  /\ status' = OK
  /\ objs' = [objs EXCEPT ![h].nodes = s]

-----------------------------------------------------------------------------
(* Lifetime and assignment.                                                *)

ListNew(h, a, vs) ==
  /\ ~Alive(h)
  /\ status' = OK
  /\ LET s == After(h)
     IN  /\ AreNew(s, vs)
         /\ objs' = [objs EXCEPT ![h] = [al |-> a, nodes |-> s]]
         /\ elem' = Holding(s, vs, {})

ListDrop(h) ==
  /\ Alive(h)
  /\ status' = OK
  /\ objs' = [objs EXCEPT ![h] = Null]
  /\ elem' = Holding(<<>>, <<>>, NodesIn(objs[h].nodes))

(* The nodes the target has are used again as far as they go.              *)
ListCopyAssign(h, g) ==
  /\ Alive(h) /\ Alive(g)
  /\ LET old  == objs[g].nodes
         vs   == Elems(objs[h].nodes)
         kept == FirstN(old, IF Len(vs) < Len(old) THEN Len(vs) ELSE Len(old))
         more == AfterN(After(g), Len(kept))
     IN  /\ AreNew(more, AfterN(vs, Len(kept)))
         /\ Becomes(g, kept \o more)
         /\ elem' = Holding(kept \o more, vs, NodesIn(AfterN(old, Len(kept))))

ListMoveAssign(h, g) ==
  /\ Alive(h) /\ Alive(g)
  /\ h # g
  /\ status' = OK
  /\ LET s == After(g)
     IN  /\ objs' = [objs EXCEPT ![g].nodes = s, ![h].nodes = <<>>]
         /\ \/ /\ objs[h].al = objs[g].al
               /\ s = objs[h].nodes
               /\ elem' = Holding(<<>>, <<>>, NodesIn(objs[g].nodes))
            \/ /\ objs[h].al # objs[g].al
               /\ AreNew(s, Elems(objs[h].nodes))
               /\ elem' = Holding(s, Elems(objs[h].nodes),
                                  NodesIn(objs[g].nodes \o objs[h].nodes))

ListSwap(h, g) ==
  /\ Alive(h) /\ Alive(g)
  /\ objs[h].al = objs[g].al
  /\ status' = OK
  /\ objs' = [objs EXCEPT ![h] = objs[g], ![g] = objs[h]]
  /\ UNCHANGED elem

-----------------------------------------------------------------------------
(* From one list to another. The nodes themselves go over if the lists are *)
(* of one allocator, new ones with their elems if not.                     *)

(* The nodes of s, from the list g, have come to h as those of t.          *)
GoOver(h, g, s, t) ==
  \/ /\ objs[h].al = objs[g].al
     /\ t = s
     /\ UNCHANGED elem
  \/ /\ objs[h].al # objs[g].al
     /\ AreNew(t, Elems(s))
     /\ elem' = Holding(t, Elems(s), NodesIn(s))

(* What h has now and did not have.                                        *)
Arrived(h) == SelectSeq(After(h), LAMBDA x : x \notin NodesIn(objs[h].nodes))

ListTakeAll(h, g) ==
  /\ Alive(h) /\ Alive(g)
  /\ h # g
  /\ status' = OK
  /\ LET t   == Arrived(h)
         now == After(h)
     IN  /\ GoOver(h, g, objs[g].nodes, t)
         /\ objs' = [objs EXCEPT ![h].nodes = now, ![g].nodes = <<>>]
         /\ \/ now = t \o objs[h].nodes
            \/ now = objs[h].nodes \o t
            \/ /\ IsSorted(objs[h].nodes, elem)
               /\ IsSorted(objs[g].nodes, elem)
               /\ IsStableSort(now, objs[h].nodes \o t, elem')

(* One node, put before another one or at the end.                         *)
ListTakeOne(h, g, x) ==
  /\ Alive(h) /\ Alive(g)
  /\ h # g
  /\ x \in NodesIn(objs[g].nodes)
  /\ status' = OK
  /\ GoOver(h, g, <<x>>, Arrived(h))
  /\ \E i \in 0 .. Len(objs[h].nodes) :
       objs' = [objs EXCEPT
                  ![h].nodes = FirstN(@, i) \o Arrived(h) \o AfterN(@, i),
                  ![g].nodes = Except(@, x)]

ListMoveWithin(h, x) ==
  /\ Alive(h)
  /\ x \in NodesIn(objs[h].nodes)
  /\ UNCHANGED elem
  /\ LET rest == Except(objs[h].nodes, x)
     IN  \E i \in 0 .. Len(rest) : Becomes(h, FirstN(rest, i) \o <<x>> \o AfterN(rest, i))

-----------------------------------------------------------------------------
(* One list.                                                               *)

ListInsert(h, x, v) ==
  /\ Alive(h)
  /\ x \notin DOMAIN elem
  /\ elem' = Holding(<<x>>, <<v>>, {})
  /\ \E i \in 0 .. Len(objs[h].nodes) :
       Becomes(h, FirstN(objs[h].nodes, i) \o <<x>> \o AfterN(objs[h].nodes, i))

ListRemove(h, x) ==
  /\ Alive(h)
  /\ x \in NodesIn(objs[h].nodes)
  /\ elem' = Holding(<<>>, <<>>, {x})
  /\ Becomes(h, Except(objs[h].nodes, x))

ListClear(h) ==
  /\ Alive(h)
  /\ elem' = Holding(<<>>, <<>>, NodesIn(objs[h].nodes))
  /\ Becomes(h, <<>>)

ListReverse(h) ==
  /\ Alive(h)
  /\ UNCHANGED elem
  /\ LET s == objs[h].nodes
     IN  Becomes(h, [i \in DOMAIN s |-> s[Len(s) + 1 - i]])

ListSort(h) ==
  /\ Alive(h)
  /\ UNCHANGED elem
  /\ LET t == After(h)
     IN  /\ Becomes(h, t)
         /\ IsStableSort(t, objs[h].nodes, elem)

ListOverwrite(h, vs) ==
  /\ Alive(h)
  /\ Len(vs) = Len(objs[h].nodes)
  /\ status' = OK
  /\ elem' = Holding(objs[h].nodes, vs, {})
  /\ UNCHANGED objs

ListWrite(h, x, v) ==
  /\ Alive(h)
  /\ x \in NodesIn(objs[h].nodes)
  /\ status' = OK
  /\ elem' = [elem EXCEPT ![x] = v]
  /\ UNCHANGED objs

(* Are the elems of two the same, where those of "alike" are?              *)
ListCompare(h, g, alike) ==
  LET s == Elems(objs[h].nodes)
      t == Elems(objs[g].nodes)
      same == /\ Len(s) = Len(t)
              /\ \A i \in DOMAIN s : s[i] = t[i] \/ {s[i], t[i]} \subseteq alike
  IN  /\ Alive(h) /\ Alive(g)
      /\ status' = (IF same THEN Yes ELSE No)
      /\ UNCHANGED <<objs, elem>>

(* The answer is the first node with the elem, or null if none has it.     *)
ListFind(h, v, alike) ==
  LET s == objs[h].nodes
      hits == {i \in DOMAIN s : elem[s[i]] = v \/ {elem[s[i]], v} \subseteq alike}
  IN  /\ Alive(h)
      /\ \/ hits = {} /\ status' = Null
         \/ \E i \in hits : (\A j \in hits : i <= j) /\ status' = s[i]
      /\ UNCHANGED <<objs, elem>>

-----------------------------------------------------------------------------
(* Calls that call for memory may be refused at any time.                  *)
ListNext ==
  \/ Refused
  \/ Done
  \/ \E h \in Handles :
       \/ \E x \in Nodes :
            \/ ListRemove(h, x)
            \/ ListMoveWithin(h, x)
            \/ \E v \in Vals : ListInsert(h, x, v) \/ ListWrite(h, x, v)
       \/ \E g \in Handles, alike \in {{}, Vals} : ListCompare(h, g, alike)
       \/ \E v \in Vals, alike \in {{}, Vals} : ListFind(h, v, alike)
       \/ ListClear(h)
       \/ ListReverse(h)
       \/ ListSort(h)
       \/ ListDrop(h)
       \/ \E vs \in Inputs : ListOverwrite(h, vs)
       \/ \E g \in Handles :
            \/ ListTakeAll(h, g)
            \/ \E x \in Nodes : ListTakeOne(h, g, x)
            \/ ListSwap(h, g)
            \/ ListMoveAssign(h, g)
            \/ ListCopyAssign(h, g)
            \/ /\ Alive(g)
               /\ \E a \in Als : ListNew(h, a, Elems(objs[g].nodes))
       \/ \E a \in Als, vs \in {<<>>} \cup Inputs : ListNew(h, a, vs)

ListSpec == ListInit /\ [][ListNext]_lVars
=============================================================================
