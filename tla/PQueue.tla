------------------------------- MODULE PQueue -------------------------------
(***************************************************************************)
(* ds/pqueue: a vec kept in heap order, and the order it is kept in.       *)
(*                                                                         *)
(* As with Stack a queue and its vec go by one handle; "order" is the cmp  *)
(* of each queue. Orders are functions from pairs of elems to integers.    *)
(***************************************************************************)
EXTENDS Stack, Heap

CONSTANT Orders

VARIABLE order  \* handle -> the cmp of the queue behind it, or Null

pqVars == <<order, vecVars>>

IsQueue(h) == order[h] # Null

PQTop(h) == ElemAt(vec[h], mem, 0)

(* The elems of a vec replaced by those f makes of them.                   *)
Rearranged(r, cells) == IF r.st = NoMem THEN r ELSE Result(OK, r.d, SetCells(r.d, r.m, cells))

PQBirth(g, r, cmp, hdr) ==
  /\ Birth(g, Wrapped(r, "pqueue", hdr))
  /\ order' = IF status' = OK THEN [order EXCEPT ![g] = cmp] ELSE order

(* from_data: the elems copied, then made a heap of.                       *)
HeapFromData(m, a, s, cmp, hdr, room) ==
  LET r == FromData(m, a, s, hdr, room)
  IN  Rearranged(r, MakeHeap(CellsOf(r.d, r.m), Len(s), cmp))

PQBirthStep(g, hdr, room) ==
  \E a \in Als :
    \/ \E cmp \in Orders :
         \/ PQBirth(g, NewImpl(mem, a, 0, 0, hdr, room), cmp, hdr)
         \/ \E n \in Counts : PQBirth(g, NewImpl(mem, a, 0, n, hdr, room), cmp, hdr)
         \/ \E s \in Inputs : PQBirth(g, HeapFromData(mem, a, s, cmp, hdr, room), cmp, hdr)
    \/ \E h \in Handles :
         IsQueue(h) /\ PQBirth(g, CopyWith(vec[h], mem, a, hdr, room), order[h], hdr)

PQDrop(h) ==
  /\ IsQueue(h)
  /\ Commit(h, Result(OK, Null, ReturnHdr(Dropped(vec[h], mem), vec[h].al, "pqueue")))
  /\ order' = [order EXCEPT ![h] = Null]

PQIntoVec(h) ==
  /\ IsQueue(h)
  /\ Commit(h, Result(OK, vec[h], ReturnHdr(mem, vec[h].al, "pqueue")))
  /\ order' = [order EXCEPT ![h] = Null]

(* The new elem is the last one, from where it is sifted up.               *)
PQPush(h, v, room) ==
  LET r == Pushed(vec[h], mem, v, room)
  IN  /\ IsQueue(h)
      /\ Commit(h, Rearranged(r, PushHeap(CellsOf(r.d, r.m), r.d.len, order[h])))
      /\ UNCHANGED order

(* The greatest elem is parked last, and popped from there.                *)
PQPop(h) ==
  LET d == vec[h]
  IN  /\ IsQueue(h)
      /\ d.len > 0
      /\ Commit(h, Popped(d, SetCells(d, mem, PopHeap(CellsOf(d, mem), d.len, order[h]))))
      /\ UNCHANGED order

PQForwards(h, room) ==
  /\ IsQueue(h)
  /\ UNCHANGED order
  /\ \/ Clear(h)
     \/ \E n \in Counts : ReserveCap(h, n, room)
     \/ ShrinkToFit(h, room)

AssignedOrder_KeepsOwn(h, g) == order
(* An assignment that was not refused takes the order along.               *)
AssignedOrder(h, g) == [order EXCEPT ![g] = order[h]]

PQAssign(h, g, hdr, room) ==
  /\ IsQueue(h) /\ IsQueue(g)
  /\ \/ CopyAssign(h, g, room)
     \/ MoveAssign(h, g, hdr, room)
  /\ order' = IF status' = OK THEN AssignedOrder(h, g) ELSE order

PQSwap(h, g) ==
  /\ IsQueue(h) /\ IsQueue(g)
  /\ Swap(h, g)
  /\ order' = [order EXCEPT ![h] = order[g], ![g] = order[h]]

PQStep(H, rooms) ==
  \E h \in H :
    \/ PQDrop(h)
    \/ PQIntoVec(h)
    \/ PQPop(h)
    \/ ~IsQueue(h) /\ Drop(h) /\ UNCHANGED order
    \/ \E g \in H : PQSwap(h, g)
    \/ \E room \in rooms :
         \/ PQForwards(h, room)
         \/ \E v \in Vals : PQPush(h, v, room)
         \/ \E hdr \in 0 .. 2 :
              \/ PQBirthStep(h, hdr, room)
              \/ \E g \in H : PQAssign(h, g, hdr, room)
=============================================================================
