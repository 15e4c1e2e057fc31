----------------------------- MODULE Containers -----------------------------
(***************************************************************************)
(* Vec, Arr, Stack and PQueue in one program, over one memory. A behaviour *)
(* is one program, chosen at the start: the kinds of objects it uses, the  *)
(* handles they are behind, the largest blocks it is lent and the places   *)
(* it gets at. A vec that belongs to a stack or a queue is called through  *)
(* its owner alone.                                                        *)
(***************************************************************************)
EXTENDS PQueue, Arr

CONSTANT Programs  \* records [kinds, uses, rooms, places]

ObjectKinds == {"vec", "arr", "stack", "pqueue"}

ASSUME ContainersAssumption ==
  /\ \A p \in Programs : p.uses \subseteq Handles /\ p.rooms \cup p.places \subseteq Nat
  /\ ObjectKinds \subseteq Kinds

(* Null is no struct, no order, no block and no object.                    *)
ASSUME ContainersNullAssumption ==
  /\ Null \notin Vecs \cup Arrs \cup Orders
  /\ \A n \in 0 .. SizeMax :
       Null \notin [al : Als, bytes : Nat, cells : [0 .. n - 1 -> Vals \cup {Zero, Junk}]]
  /\ Null \notin [al : Als, elems : Seq(Vals \cup {Zero, Junk})]

VARIABLE prog  \* the program

vars == <<vec, mem, status, arr, stk, order, prog>>

(* The handles of vecs that have no owner, and of nothing.                 *)
Loose == {h \in Handles : h \notin stk /\ ~IsQueue(h)}

Init ==
  /\ VecInit
  /\ arr = [h \in Handles |-> Null]
  /\ stk = {}
  /\ order = [h \in Handles |-> Null]
  /\ prog \in Programs

Next ==
  /\ UNCHANGED prog
  /\ \/ /\ "vec" \in prog.kinds
        /\ VecStep(prog.uses \cap Loose, prog.rooms, prog.places)
        /\ UNCHANGED <<arr, stk, order>>
     \/ /\ "arr" \in prog.kinds
        /\ ArrStep(prog.uses, prog.rooms)
        /\ UNCHANGED <<vec, stk, order>>
     \/ /\ "stack" \in prog.kinds
        /\ StackStep({h \in prog.uses : ~IsQueue(h)}, prog.rooms)
        /\ UNCHANGED <<arr, order>>
     \/ /\ "pqueue" \in prog.kinds
        /\ PQStep(prog.uses \ stk, prog.rooms)
        /\ UNCHANGED <<arr, stk>>

Spec == Init /\ [][Next]_vars

-----------------------------------------------------------------------------
(* Properties.                                                             *)

(* The live objects of a kind, and the structs with their allocators.      *)
AllOf(kind) ==
  CASE kind = "vec"    -> {h \in Handles : VecAlive(h)}
    [] kind = "arr"    -> {h \in Handles : ArrAlive(h)}
    [] kind = "stack"  -> stk
    [] kind = "pqueue" -> {h \in Handles : IsQueue(h)}

StructOf(kind, h) == IF kind = "arr" THEN arr[h] ELSE vec[h]

Holders(b) ==
  {o \in {"vec", "arr"} \X Handles : o[2] \in AllOf(o[1]) /\ StructOf(o[1], o[2]).data = b}

(* The objects and what is lent agree: each is well formed, what it points *)
(* to is lent to it by its own allocator and at the size it will go back   *)
(* with, no two share it, nothing else is lent, and every header - a       *)
(* wrapper's own included - is one of a live object of its allocator.      *)
BooksBalance ==
  /\ \A h \in AllOf("vec") : VecSound(vec[h], mem)
  /\ \A h \in AllOf("arr") : ArrSound(arr[h], mem)
  /\ \A b \in Blocks : Cardinality(Holders(b)) = IF mem.lent[b] = Null THEN 0 ELSE 1
  /\ \A a \in Als, kind \in ObjectKinds :
       mem.hdrs[<<a, kind>>] = Cardinality({h \in AllOf(kind) : StructOf(kind, h).al = a})

(* Programs of sequences only: vecs and stacks, or arrs.                   *)
UsesVecs == prog.kinds \subseteq {"vec", "stack"}
UsesArrs == prog.kinds = {"arr"}

SeqOf(d) == [al |-> d.al, elems |-> ToSpan(d, mem)]

Seqs ==
  [h \in Handles |->
     IF UsesArrs /\ ArrAlive(h) THEN SeqOf(arr[h])
     ELSE IF UsesVecs /\ VecAlive(h) THEN SeqOf(vec[h])
     ELSE Null]

(* Vecs, stacks and arrs are sequences: each call does to the contents     *)
(* what its header says, whatever moved and whatever was refused.          *)
SS == INSTANCE SeqStore WITH
       objs <- Seqs, status <- IF UsesVecs \/ UsesArrs THEN status ELSE OK

ImplementsSeqStore == SS!SeqSpec
=============================================================================
