----------------------------- MODULE QueueProofs ----------------------------
(***************************************************************************)
(* What MCQueue checks of two queues and two allocators, for any number of *)
(* queues and of deques the program keeps beside them.                     *)
(*                                                                         *)
(* A call of a queue is one of its deque, whose proofs cover it, or builds *)
(* or dissolves the pair. Two things are left to say: a constructor that   *)
(* is refused the second header leaves nothing of the deque it had built,  *)
(* and no call but a drop takes a deque out of its queue or moves it to    *)
(* another allocator.                                                      *)
(***************************************************************************)
EXTENDS Queue, DequeProofs

(* The queues and deques of the program are sound, and every queue has its *)
(* header where its deque says it goes back.                               *)
QueueInv ==
  /\ IInv
  /\ que \in [Handles -> Als \cup {Null}]
  /\ WrappersStayWithTheirDeque

(* The deque of f lives on, on its allocator.                              *)
StaysOn(f) == Alive(f) => dq'[f] # Null /\ dq'[f].al = dq[f].al

-----------------------------------------------------------------------------
(* Who lives on.                                                           *)

(* A call that gives one deque another struct of its own allocator lets    *)
(* all of them live.                                                       *)
LEMMA OneStays ==
  ASSUME IInv, NEW h \in Handles, NEW d \in Deques,
         Alive(h) => d.al = dq[h].al, dq' = [dq EXCEPT ![h] = d]
  PROVE  \A f \in Handles : StaysOn(f)
<1>1. dq \in [Handles -> Deques \cup {Null}] /\ d # Null
  BY NullAssumption DEF IInv, Sound
<1>2. dq'[h] = d /\ \A f \in Handles : f # h => dq'[f] = dq[f]
  BY <1>1
<1>3. QED
  BY <1>1, <1>2 DEF StaysOn, Alive

(* So does one that gives two deques such structs.                         *)
LEMMA TwoStay ==
  ASSUME IInv, NEW h \in Handles, NEW g \in Handles, NEW d \in Deques, NEW e \in Deques,
         d.al = dq[h].al, e.al = dq[g].al, dq' = [dq EXCEPT ![g] = e, ![h] = d]
  PROVE  \A f \in Handles : StaysOn(f)
<1>1. dq \in [Handles -> Deques \cup {Null}] /\ d # Null /\ e # Null
  BY NullAssumption DEF IInv, Sound
<1>2. /\ dq'[h] = d /\ (g # h => dq'[g] = e)
      /\ \A f \in Handles : f # h /\ f # g => dq'[f] = dq[f]
  BY <1>1
<1>3. QED
  BY <1>1, <1>2 DEF StaysOn, Alive

(* And one that changes no struct.                                         *)
LEMMA NoneLeaves ==
  ASSUME dq' = dq
  PROVE  \A f \in Handles : StaysOn(f)
  BY DEF StaysOn, Alive

(* What a granted request for room makes is a struct of the same allocator.*)
LEMMA MadeStays ==
  ASSUME NEW d0, NEW m0, NEW n, NEW r, Makes(r, d0, m0, n), r.st = OK
  PROVE  r.d \in Deques /\ r.d.al = d0.al
<1>1. Exchanges(d0, m0, r.d, r.m)
  BY DEF Makes
<1>2. QED
  BY <1>1, MadeFacts DEF Exchanges

(* The calls a queue forwards.                                             *)
LEMMA ForwardsStay ==
  ASSUME IInv, NEW h \in Handles, NEW room \in Rooms, NEW b \in Blocks,
         QueueForwards(h, room, b)
  PROVE  \A f \in Handles : StaysOn(f)
<1>1. CASE dq' = dq
  BY <1>1, NoneLeaves
<1>2. ASSUME NEW d \in Deques, d.al = dq[h].al, NEW m, Commit(h, d, m)
      PROVE  \A f \in Handles : StaysOn(f)
  BY <1>2, OneStays DEF Commit
<1>3. ASSUME Alive(h)
      PROVE  dq[h] \in Deques /\ IsMemory(mem) /\ StructOK(dq[h], mem)
             /\ dq[h].len \in Nat /\ dq[h].cap \in Nat /\ dq[h].head \in Nat
  BY <1>3, LiveFacts
<1>4. ASSUME NEW v, PushBack(h, v, room, b)
      PROVE  \A f \in Handles : StaysOn(f)
  <2>1. Alive(h) /\ mem[b] = Null
    BY <1>4 DEF PushBack, Fresh
  <2>2. PICK r : r = ReserveOne(dq[h], mem, room, b)
    OBVIOUS
  <2>3. Makes(r, dq[h], mem, dq[h].len + 1)
    BY <1>3, <2>1, <2>2, ReserveOneOK
  <2>4. CASE Refuse
    BY <1>1, <2>4 DEF Refuse
  <2>5. PICK d : d = [r.d EXCEPT !.len = @ + 1]
    OBVIOUS
  <2>6. ASSUME r.st = OK, NEW cells, CommitCells(h, d, r.m, cells)
        PROVE  \A f \in Handles : StaysOn(f)
    <3>1. r.d \in Deques /\ r.d.al = dq[h].al
      BY <2>3, <2>6, MadeStays
    <3>2. d \in Deques /\ d.al = dq[h].al
      BY <2>5, <3>1 DEF Deques
    <3>3. QED
      BY <1>2, <2>6, <3>2 DEF CommitCells
  <2>7. QED
    BY <1>4, <2>2, <2>4, <2>5, <2>6 DEF PushBack
<1>5. ASSUME NEW i, NEW v, Set(h, i, v)
      PROVE  \A f \in Handles : StaysOn(f)
  <2>1. PICK m : Commit(h, dq[h], m)
    BY <1>5 DEF Set, CommitCells
  <2>2. QED
    BY <1>2, <1>3, <1>5, <2>1 DEF Set
<1>6. ASSUME PopFront(h)
      PROVE  \A f \in Handles : StaysOn(f)
  <2>1. Alive(h) /\ dq[h].len > 0
    BY <1>6 DEF PopFront
  <2>2. dq[h].len - 1 \in Nat /\ StepOn(dq[h]) \in Nat
    BY <1>3, <2>1 DEF StepOn
  <2>3. PICK d : d = [dq[h] EXCEPT !.head = StepOn(dq[h]), !.len = dq[h].len - 1]
    OBVIOUS
  <2>4. d \in Deques /\ d.al = dq[h].al
    BY <1>3, <2>1, <2>2, <2>3 DEF Deques
  <2>5. QED
    BY <1>2, <1>6, <2>3, <2>4 DEF PopFront
<1>7. ASSUME Clear(h)
      PROVE  \A f \in Handles : StaysOn(f)
  <2>1. PICK d : d = [dq[h] EXCEPT !.len = 0, !.head = 0]
    OBVIOUS
  <2>2. d \in Deques /\ d.al = dq[h].al
    BY <1>3, <1>7, <2>1 DEF Clear, Deques
  <2>3. QED
    BY <1>2, <1>7, <2>1, <2>2 DEF Clear
<1>8. ASSUME NEW n \in Nat, ReserveCap(h, n, room, b)
      PROVE  \A f \in Handles : StaysOn(f)
  <2>1. Alive(h) /\ mem[b] = Null
    BY <1>8 DEF ReserveCap, Fresh
  <2>2. PICK r : r = Reserve(dq[h], mem, n, room, b)
    OBVIOUS
  <2>3. Makes(r, dq[h], mem, n)
    BY <1>3, <2>1, <2>2, ReserveOK
  <2>4. ASSUME r.st = OK, Commit(h, r.d, r.m)
        PROVE  \A f \in Handles : StaysOn(f)
    <3>1. r.d \in Deques /\ r.d.al = dq[h].al
      BY <2>3, <2>4, MadeStays
    <3>2. QED
      BY <1>2, <2>4, <3>1
  <2>5. QED
    BY <1>1, <1>8, <2>2, <2>4 DEF ReserveCap, Refuse
<1>9. ASSUME ShrinkToFit(h, room, b)
      PROVE  \A f \in Handles : StaysOn(f)
  <2>1. Alive(h)
    BY <1>9 DEF ShrinkToFit
  <2>2. PICK d : d = [dq[h] EXCEPT !.data = b, !.cap = dq[h].len, !.head = 0]
    OBVIOUS
  <2>3. Relocate(dq[h], mem, dq[h].len, b).d = d
    BY <2>2 DEF Relocate
  <2>4. d \in Deques /\ d.al = dq[h].al
    BY <1>3, <2>1, <2>2 DEF Deques
  <2>5. PICK e : e = Released(dq[h])
    OBVIOUS
  <2>6. e \in Deques /\ e.al = dq[h].al
    BY <1>3, <2>1, <2>5, ReleasedFacts
  <2>7. ASSUME NEW m, Commit(h, e, m)
        PROVE  \A f \in Handles : StaysOn(f)
    BY <1>2, <2>6, <2>7
  <2>8. ASSUME NEW m, Commit(h, d, m)
        PROVE  \A f \in Handles : StaysOn(f)
    BY <1>2, <2>4, <2>8
  <2>9. QED
    BY <1>1, <1>9, <2>3, <2>5, <2>7, <2>8 DEF ShrinkToFit, Nothing, Refuse
<1>10. QED
  BY <1>4, <1>5, <1>6, <1>7, <1>8, <1>9, DequeAssumption DEF QueueForwards

(* A call of a queue that is one of its deque.                             *)
DequeCall(h) ==
  \/ PlainStep(h)
  \/ \E room \in Rooms, b \in Blocks :
       \/ GrowStep(h, room, b)
       \/ \E g \in Handles : PairStep(h, g, room, b)

(* What a deque's call keeps and does.                                     *)
LEMMA DequeCalls ==
  ASSUME IInv, NEW h \in Handles, DequeCall(h)
  PROVE  IInv' /\ S!SeqNext
<1>1. CASE PlainStep(h)
  BY <1>1, PlainStepKeeps, PlainStepRefines
<1>2. ASSUME NEW room \in Rooms, NEW b \in Blocks, GrowStep(h, room, b)
      PROVE  IInv' /\ S!SeqNext
  BY <1>2, GrowStepKeeps, GrowStepRefines
<1>3. ASSUME NEW room \in Rooms, NEW b \in Blocks, NEW g \in Handles, PairStep(h, g, room, b)
      PROVE  IInv' /\ S!SeqNext
  <2>1. IInv'
    BY <1>3, BirthAndPairStepsKeep
  <2>2. QED
    BY <1>3, <2>1, PairStepRefines
<1>4. QED
  BY <1>1, <1>2, <1>3 DEF DequeCall

(* The queues whose deques all live on, and whose headers stay.            *)
LEMMA WrappersKept ==
  ASSUME QueueInv, IInv', que' = que, \A f \in Handles : IsQueue(f) => StaysOn(f)
  PROVE  QueueInv'
<1>1. \A f \in Handles : IsQueue(f) => Alive(f) /\ que[f] = dq[f].al
  BY DEF QueueInv, WrappersStayWithTheirDeque
<1>2. WrappersStayWithTheirDeque'
  BY <1>1 DEF WrappersStayWithTheirDeque, StaysOn, Alive, IsQueue
<1>3. QED
  BY <1>2 DEF QueueInv

(* queue_push, _pop, _front_mut, _back_mut, _clear, _reserve and           *)
(* _shrink_to_fit.                                                         *)
LEMMA ForwardsKeep ==
  ASSUME QueueInv, NEW h \in Handles, NEW room \in Rooms, NEW b \in Blocks,
         QueueForwards(h, room, b)
  PROVE  QueueInv' /\ S!SeqNext
<1>1. IInv
  BY DEF QueueInv
<1>2. ASSUME NEW i, NEW v \in Vals, Set(h, i, v)
      PROVE  i \in Idxs(h)
  <2>1. Alive(h) /\ i \in 0 .. dq[h].len - 1
    BY <1>2 DEF Set
  <2>2. dq[h].len \in Nat
    BY <1>1, <2>1, LiveFacts
  <2>3. QED
    BY <2>1, <2>2 DEF Idxs
<1>3. ASSUME NEW i, NEW v \in Vals, Set(h, i, v)
      PROVE  PlainStep(h)
  BY <1>2, <1>3 DEF PlainStep
<1>4. PlainStep(h) \/ GrowStep(h, room, b)
  BY <1>3 DEF QueueForwards, PlainStep, GrowStep
<1>5. DequeCall(h)
  BY <1>4 DEF DequeCall
<1>6. IInv' /\ S!SeqNext
  BY <1>1, <1>5, DequeCalls
<1>7. \A f \in Handles : StaysOn(f)
  BY <1>1, ForwardsStay
<1>8. que' = que
  BY DEF QueueForwards
<1>9. QED
  BY <1>6, <1>7, <1>8, WrappersKept

(* An assignment of deques: the target keeps its allocator, and so does    *)
(* what it takes from.                                                     *)
LEMMA AssignStays ==
  ASSUME IInv, NEW h \in Handles, NEW g \in Handles, NEW room \in Rooms, NEW b \in Blocks
  PROVE  /\ CopyAssign(h, g, room, b) => \A f \in Handles : StaysOn(f)
         /\ \A hdr : MoveAssign(h, g, hdr, room, b) => \A f \in Handles : StaysOn(f)
<1>1. dq' = dq => \A f \in Handles : StaysOn(f)
  BY ZenonT(40), NoneLeaves
<1>2. ASSUME NEW f \in Handles, Alive(f)
      PROVE  dq[f] \in Deques /\ IsMemory(mem) /\ StructOK(dq[f], mem)
             /\ dq[f].len \in Nat /\ dq[f].al \in Als
  <2>1. dq[f] \in Deques /\ IsMemory(mem) /\ StructOK(dq[f], mem) /\ dq[f].len \in Nat
    BY <1>2, LiveFacts
  <2>2. QED
    BY <2>1 DEF Deques
<1>3. ASSUME CopyAssign(h, g, room, b)
      PROVE  \A f \in Handles : StaysOn(f)
  <2>1. Alive(h) /\ Alive(g) /\ mem[b] = Null
    BY <1>3 DEF CopyAssign, Fresh
  <2>2. PICK n \in Nat : n = dq[h].len
    BY <1>2, <2>1
  <2>3. PICK r : r = Reserve(dq[g], mem, n, room, b)
    OBVIOUS
  <2>4. Makes(r, dq[g], mem, n)
    BY <1>2, <2>1, <2>3, ReserveOK
  <2>5. PICK d : d = FromSlotZero(r.d, n)
    OBVIOUS
  <2>6. ASSUME r.st = OK, NEW m, Commit(g, d, m)
        PROVE  \A f \in Handles : StaysOn(f)
    <3>1. r.d \in Deques /\ r.d.al = dq[g].al
      BY <2>4, <2>6, MadeStays
    <3>2. d \in Deques /\ d.al = dq[g].al
      BY <2>5, <3>1 DEF FromSlotZero, Deques
    <3>3. QED
      BY <2>6, <3>2, OneStays DEF Commit
  <2>7. QED
    BY ZenonT(40), <1>1, <1>3, <2>2, <2>3, <2>5, <2>6 DEF CopyAssign, CommitCells, Nothing, Refuse
<1>4. ASSUME NEW hdr, MoveAssign(h, g, hdr, room, b)
      PROVE  \A f \in Handles : StaysOn(f)
  <2>1. Alive(h) /\ Alive(g)
    BY <1>4 DEF MoveAssign
  <2>2. ASSUME NEW f \in Handles, Alive(f)
        PROVE  Released(dq[f]) \in Deques /\ Released(dq[f]).al = dq[f].al
    BY <1>2, <2>2, ReleasedFacts
  <2>3. CASE HandOver(h, g) /\ dq[h].al = dq[g].al
    <3>1. PICK d : d = Released(dq[g])
      OBVIOUS
    <3>2. d \in Deques /\ d.al = dq[h].al /\ dq[h] \in Deques
      BY <1>2, <2>1, <2>2, <2>3, <3>1
    <3>3. dq' = [dq EXCEPT ![g] = dq[h], ![h] = d]
      BY <2>3, <3>1 DEF HandOver
    <3>4. QED
      BY <2>3, <3>2, <3>3, TwoStay
  <2>4. CASE MoveACopy(h, g, hdr, room, b)
    <3>1. PICK n \in Nat : n = dq[h].len
      BY <1>2, <2>1
    <3>2. PICK e : e = NewStruct(dq[g].al, n, n, b)
      OBVIOUS
    <3>3. e \in Deques /\ e.al = dq[g].al
      BY <1>2, <2>1, <3>1, <3>2 DEF NewStruct, Deques
    <3>4. PICK d : d = Released(dq[h])
      OBVIOUS
    <3>5. d \in Deques /\ d.al = dq[h].al
      BY <2>1, <2>2, <3>4
    <3>6. dq' = dq \/ dq' = [dq EXCEPT ![g] = e, ![h] = d]
      <4>1. \/ dq' = dq
            \/ dq' = [dq EXCEPT ![g] = NewStruct(dq[g].al, dq[h].len, dq[h].len, b),
                               ![h] = Released(dq[h])]
        BY <2>4 DEF MoveACopy, Refuse
      <4>2. QED
        BY <3>1, <3>2, <3>4, <4>1
    <3>7. QED
      BY <1>1, <3>3, <3>5, <3>6, TwoStay
  <2>5. QED
    BY <1>1, <1>4, <2>3, <2>4 DEF MoveAssign, Nothing
<1>5. QED
  BY <1>3, <1>4

(* queue_copy_assign and queue_move_assign.                                *)
LEMMA QueueAssignKeeps ==
  ASSUME QueueInv, NEW h \in Handles, NEW g \in Handles, NEW hdr \in BOOLEAN,
         NEW room \in Rooms, NEW b \in Blocks, QueueAssign(h, g, hdr, room, b)
  PROVE  QueueInv' /\ S!SeqNext
<1>1. IInv /\ que' = que
  BY DEF QueueInv, QueueAssign
<1>2. CopyAssign(h, g, room, b) \/ MoveAssign(h, g, hdr, room, b)
  BY DEF QueueAssign
<1>3. DequeCall(h)
  BY <1>2 DEF DequeCall, PairStep
<1>4. \A f \in Handles : StaysOn(f)
  BY <1>1, <1>2, AssignStays
<1>5. QED
  BY <1>1, <1>3, <1>4, DequeCalls, WrappersKept

(* queue_swap and the comparisons.                                         *)
LEMMA QueuePairsKeep ==
  ASSUME QueueInv, NEW h \in Handles, NEW g \in Handles
  PROVE  /\ QueueSwap(h, g) => QueueInv' /\ S!SeqNext
         /\ \A alike \in {{}, Elems} : QueueCompare(h, g, alike) => QueueInv' /\ S!SeqNext
<1>1. IInv
  BY DEF QueueInv
<1>2. ASSUME QueueSwap(h, g)
      PROVE  QueueInv' /\ S!SeqNext
  <2>1. Swap(h, g) /\ que' = que
    BY <1>2 DEF QueueSwap
  <2>2. DequeCall(h)
    BY <2>1 DEF DequeCall, PlainStep
  <2>3. dq[h] \in Deques /\ dq[g] \in Deques
    BY <1>1, <2>1, LiveFacts DEF Swap
  <2>4. dq[h].al = dq[g].al /\ dq' = [dq EXCEPT ![h] = dq[g], ![g] = dq[h]]
    BY <2>1 DEF Swap
  <2>5. \A f \in Handles : StaysOn(f)
    BY <1>1, <2>3, <2>4, TwoStay
  <2>6. QED
    BY <1>1, <2>1, <2>2, <2>5, DequeCalls, WrappersKept
<1>3. ASSUME NEW alike \in {{}, Elems}, QueueCompare(h, g, alike)
      PROVE  QueueInv' /\ S!SeqNext
  <2>1. Compare(h, g, alike) /\ que' = que /\ dq' = dq
    BY <1>3 DEF QueueCompare, Compare
  <2>2. DequeCall(h)
    BY <2>1 DEF DequeCall, PlainStep
  <2>3. QED
    BY <1>1, <2>1, <2>2, DequeCalls, NoneLeaves, WrappersKept
<1>4. QED
  BY <1>2, <1>3

(* queue_drop, queue_into_deque, and the drop of a deque that left its     *)
(* queue.                                                                  *)
LEMMA EndsKeep ==
  ASSUME QueueInv, NEW h \in Handles
  PROVE  /\ QueueDrop(h) => QueueInv' /\ S!SeqNext
         /\ IntoDeque(h) => QueueInv' /\ S!SeqNext
         /\ ~IsQueue(h) /\ Drop(h) /\ UNCHANGED que => QueueInv' /\ S!SeqNext
<1>1. /\ IInv /\ dq \in [Handles -> Deques \cup {Null}]
      /\ que \in [Handles -> Als \cup {Null}]
      /\ \A f \in Handles : IsQueue(f) => Alive(f) /\ que[f] = dq[f].al
  BY DEF QueueInv, IInv, Sound, WrappersStayWithTheirDeque
<1>2. ASSUME Drop(h)
      PROVE  IInv' /\ S!SeqNext /\ \A f \in Handles : f # h => StaysOn(f)
  <2>1. DequeCall(h)
    BY <1>2 DEF DequeCall, PlainStep
  <2>2. dq' = [dq EXCEPT ![h] = Null]
    BY <1>2 DEF Drop
  <2>3. \A f \in Handles : f # h => dq'[f] = dq[f]
    BY <1>1, <2>2
  <2>4. QED
    BY <1>1, <2>1, <2>3, DequeCalls DEF StaysOn, Alive
<1>3. ASSUME IsQueue(h), que' = HeaderBack(h), IInv', \A f \in Handles : f # h => StaysOn(f)
      PROVE  QueueInv'
  <2>1. que' = [que EXCEPT ![h] = Null]
    BY <1>1, <1>3 DEF HeaderBack
  <2>2. /\ que' \in [Handles -> Als \cup {Null}] /\ que'[h] = Null
        /\ \A f \in Handles : f # h => que'[f] = que[f]
    BY <1>1, <2>1
  <2>3. WrappersStayWithTheirDeque'
    BY <1>1, <1>3, <2>2 DEF WrappersStayWithTheirDeque, StaysOn, Alive, IsQueue
  <2>4. QED
    BY <1>3, <2>2, <2>3 DEF QueueInv
<1>4. ASSUME QueueDrop(h)
      PROVE  QueueInv' /\ S!SeqNext
  BY <1>2, <1>3, <1>4 DEF QueueDrop
<1>5. ASSUME IntoDeque(h)
      PROVE  QueueInv' /\ S!SeqNext
  <2>1. UNCHANGED <<dq, mem, hdrs>> /\ status' = OK /\ Alive(h)
    BY <1>1, <1>5 DEF IntoDeque, Nothing
  <2>2. IInv'
    BY <1>1, <2>1, StandStill DEF Answers
  <2>3. S!SeqHousekeeping(h)
    <3>1. Objs' = Objs
      BY <1>1, <2>1, <2>2, Standing
    <3>2. QED
      BY <1>1, <2>1, <3>1, LiveObject DEF S!SeqHousekeeping, S!Done
  <2>4. QED
    BY <1>3, <1>5, <2>1, <2>2, <2>3, NoneLeaves DEF IntoDeque, S!SeqNext
<1>6. ASSUME ~IsQueue(h), Drop(h), que' = que
      PROVE  QueueInv' /\ S!SeqNext
  <2>1. \A f \in Handles : IsQueue(f) => StaysOn(f)
    BY <1>2, <1>6
  <2>2. QED
    BY <1>2, <1>6, <2>1, WrappersKept
<1>7. QED
  BY <1>4, <1>5, <1>6

(* queue_new and its kin build a deque and wrap it: a queue of the elems   *)
(* of s, or nothing at all, whichever of the three requests is refused.    *)
LEMMA WrapKeeps ==
  ASSUME QueueInv, NEW g \in Handles, NEW a \in Als, NEW len \in Nat, NEW cap \in Nat,
         len <= cap, NEW cells \in [0 .. cap - 1 -> Cells], NEW n, NEW room \in Rooms,
         NEW b \in Blocks, Wrap(g, a, len, cap, cells, n, room, b),
         NEW s, Fills(s, cells, len)
  PROVE  QueueInv' /\ S!SeqNew(g, a, s)
<1>1. /\ IInv /\ dq \in [Handles -> Deques \cup {Null}] /\ IsMemory(mem)
      /\ hdrs \in [Als -> Nat] /\ que \in [Handles -> Als \cup {Null}]
      /\ \A f \in Handles : IsQueue(f) => Alive(f) /\ que[f] = dq[f].al
  BY DEF QueueInv, IInv, Sound, HeadersCounted, WrappersStayWithTheirDeque
<1>2. ASSUME NEW hdr, NewImpl(g, a, len, cap, cells, hdr, room, b)
      PROVE  IInv' /\ S!SeqNew(g, a, s)
  <2>1. IInv'
    BY <1>1, <1>2, NewImplKeeps
  <2>2. QED
    BY <1>1, <1>2, <2>1, NewImplRefines
<1>3. CASE /\ NewImpl(g, a, len, cap, cells, n > 0, room, b)
           /\ status' = NoMem
           /\ UNCHANGED que
  <2>1. dq' = dq
    BY <1>3, DequeAssumption DEF NewImpl, Refuse
  <2>2. QED
    BY <1>2, <1>3, <2>1, NoneLeaves, WrappersKept
<1>4. CASE /\ NewImpl(g, a, len, cap, cells, TRUE, room, b)
           /\ status' = OK
           /\ que' = [que EXCEPT ![g] = a]
  <2>1. PICK d : d = NewStruct(a, len, cap, b)
    OBVIOUS
  <2>2. dq' = [dq EXCEPT ![g] = d] /\ ~Alive(g)
    BY <1>4, <2>1, DequeAssumption DEF NewImpl
  <2>3. d \in Deques /\ d.al = a
    BY <2>1 DEF NewStruct, Deques
  <2>4. \A f \in Handles : StaysOn(f)
    BY <1>1, <2>2, <2>3, OneStays
  <2>5. dq'[g] = d /\ d # Null
    BY <1>1, <2>2, <2>3, NullAssumption
  <2>6. /\ que' \in [Handles -> Als \cup {Null}] /\ que'[g] = a
        /\ \A f \in Handles : f # g => que'[f] = que[f]
    BY <1>1, <1>4
  <2>7. WrappersStayWithTheirDeque'
    BY <1>1, <2>3, <2>4, <2>5, <2>6
    DEF WrappersStayWithTheirDeque, StaysOn, Alive, IsQueue
  <2>8. QED
    BY <1>2, <1>4, <2>6, <2>7 DEF QueueInv
<1>5. CASE /\ ~Alive(g) /\ Fresh(b)
           /\ cap = 0 \/ ~BytesRefused(cap, room)
           /\ mem' = GivenUp(NewStruct(a, len, cap, b), NewMem(mem, a, cap, b, cells))
           /\ hdrs' = ReturnHdr(TakeHdr(hdrs, a), a)
           /\ status' = NoMem
           /\ UNCHANGED <<dq, que>>
  <2>1. cap * ElemSize <= SizeMax \div 2
    <3>1. CASE cap = 0
      BY <3>1, HalfAndHalf, DequeAssumption
    <3>2. CASE cap # 0
      BY <1>5, <3>2, GrantedBytes
    <3>3. QED
      BY <3>1, <3>2
  <2>2. PICK d : d = NewStruct(a, len, cap, b)
    OBVIOUS
  <2>3. PICK full : full = NewMem(mem, a, cap, b, cells)
    OBVIOUS
  <2>4. /\ d.data = IF cap = 0 THEN Null ELSE b
        /\ IsMemory(full) /\ StructOK(d, full)
        /\ \A c \in Blocks : c # d.data => full[c] = mem[c]
    BY <1>1, <2>1, <2>2, <2>3, NewStructFacts
  <2>5. PICK m : m = GiveBack(full, d.data, d.al, CapBytes(d))
    OBVIOUS
  <2>6. IsMemory(m) /\ \A c \in Blocks : m[c] = IF c = d.data THEN Null ELSE full[c]
    BY <2>4, <2>5, GivingBack
  <2>7. m = mem
    <3>1. mem[b] = Null
      BY <1>5 DEF Fresh
    <3>2. \A c \in Blocks : m[c] = mem[c]
      BY <2>4, <2>6, <3>1, NullAssumption
    <3>3. m = [c \in Blocks |-> m[c]] /\ mem = [c \in Blocks |-> mem[c]]
      BY <1>1, <2>6 DEF IsMemory
    <3>4. [c \in Blocks |-> m[c]] = [c \in Blocks |-> mem[c]]
      BY <3>2
    <3>5. QED
      BY <3>3, <3>4
  <2>8. mem' = mem
    BY <1>5, <2>2, <2>3, <2>5, <2>7 DEF GivenUp
  <2>9. hdrs' = hdrs
    BY <1>1, <1>5, TakenAndReturned
  <2>10. IInv'
    BY <1>1, <1>5, <2>8, <2>9, StandStill DEF Answers
  <2>11. QueueInv'
    BY <1>5, <2>10, NoneLeaves, WrappersKept
  <2>12. S!SeqNew(g, a, s)
    <3>1. Objs' = Objs
      BY <1>1, <1>5, <2>8, <2>10, Standing
    <3>2. QED
      BY <1>1, <1>5, <3>1, LiveObject DEF S!SeqNew, S!Refused
  <2>13. QED
    BY <2>11, <2>12
<1>6. QED
  BY <1>3, <1>4, <1>5 DEF Wrap

(* The constructors, one by one.                                           *)
LEMMA QueueBirthKeeps ==
  ASSUME QueueInv, NEW g \in Handles, NEW n, NEW room \in Rooms, NEW b \in Blocks,
         QueueBirthStep(g, n, room, b)
  PROVE  QueueInv' /\ S!SeqNext
<1>1. IInv /\ \A f \in Handles : IsQueue(f) => Alive(f)
  BY DEF QueueInv, WrappersStayWithTheirDeque
<1>2. PICK none : none = <<>>
  OBVIOUS
<1>3. none \in S!Starts /\ Inputs \subseteq S!Starts /\ \A cells : Fills(none, cells, 0)
  BY <1>2 DEF S!Starts, Fills
<1>4. ASSUME NEW a \in Als, NEW s \in S!Starts, S!SeqNew(g, a, s) PROVE S!SeqNext
  BY <1>4 DEF S!SeqNext
<1>5. ASSUME NEW a \in Als, NEW c \in Nat, Wrap(g, a, 0, c, Raw(c), n, room, b)
      PROVE  QueueInv' /\ S!SeqNext
  <2>1. Raw(c) \in [0 .. c - 1 -> Cells]
    BY RawIsCells
  <2>2. QueueInv' /\ S!SeqNew(g, a, none)
    BY <1>3, <1>5, <2>1, WrapKeeps
  <2>3. QED
    BY <1>3, <1>4, <2>2
<1>6. ASSUME NEW a \in Als, NEW s \in Inputs,
             Wrap(g, a, Len(s), Len(s), [i \in 0 .. Len(s) - 1 |-> s[i + 1]], n, room, b)
      PROVE  QueueInv' /\ S!SeqNext
  <2>1. s \in Seq(Vals)
    BY DequeAssumption
  <2>2. PICK k \in Nat : k = Len(s)
    BY <2>1
  <2>3. PICK cells : cells = [i \in 0 .. k - 1 |-> s[i + 1]]
    OBVIOUS
  <2>4. cells \in [0 .. k - 1 -> Cells]
    <3>1. \A i \in 0 .. k - 1 : s[i + 1] \in Cells
      BY <2>1, <2>2 DEF Cells, Elems
    <3>2. QED
      BY <2>3, <3>1
  <2>5. Fills(s, cells, k)
    <3>1. s \in Seq(Cells)
      BY <2>1 DEF Cells, Elems
    <3>2. \A i \in 1 .. k : s[i] = cells[i - 1]
      BY <2>2, <2>3
    <3>3. QED
      BY <2>2, <3>1, <3>2 DEF Fills
  <2>6. Wrap(g, a, k, k, cells, n, room, b)
    BY <1>6, <2>2, <2>3
  <2>7. QueueInv' /\ S!SeqNew(g, a, s)
    BY <2>4, <2>5, <2>6, WrapKeeps
  <2>8. QED
    BY <1>3, <1>4, <2>7
<1>7. ASSUME NEW a \in Als, NEW h \in Handles, IsQueue(h),
             Wrap(g, a, dq[h].len, dq[h].len,
                  CopyOut(dq[h], mem, Raw(dq[h].len)), n, room, b)
      PROVE  QueueInv' /\ S!SeqNext
  <2>1. Alive(h) /\ StructOK(dq[h], mem)
    BY <1>1, <1>7, LiveFacts
  <2>2. PICK k \in Nat : k = dq[h].len
    BY <1>1, <2>1, LiveFacts
  <2>3. PICK cells : cells = CopyOut(dq[h], mem, Raw(k))
    OBVIOUS
  <2>4. Raw(k) \in [0 .. k - 1 -> Cells]
    BY RawIsCells
  <2>5. cells \in [0 .. k - 1 -> Cells]
    BY <2>1, <2>3, <2>4, CopyOutIsCells
  <2>6. PICK s : s = ElemsOf(dq[h], mem)
    OBVIOUS
  <2>7. Fills(s, cells, k)
    BY <2>1, <2>2, <2>3, <2>4, <2>6, CopyHolds
  <2>8. Wrap(g, a, k, k, cells, n, room, b)
    BY <1>7, <2>2, <2>3
  <2>9. QueueInv' /\ S!SeqNew(g, a, s)
    BY <2>5, <2>7, <2>8, WrapKeeps
  <2>10. S!Alive(h) /\ Objs[h].elems = s
    BY <1>1, <2>1, <2>6, LiveObject
  <2>11. S!SeqCopyWith(h, g, a)
    BY <2>9, <2>10 DEF S!SeqCopyWith
  <2>12. QED
    BY <2>9, <2>11 DEF S!SeqNext
<1>8. QED
  BY <1>5, <1>6, <1>7, DequeAssumption DEF QueueBirthStep

-----------------------------------------------------------------------------
(* The invariant, and what follows from it.                                *)

(* QueueInv is inductive, and every step is one of the sequence container. *)
LEMMA QueueInductive ==
  ASSUME QueueInv, [QueueNext]_queueVars
  PROVE  QueueInv' /\ [S!SeqNext]_S!sVars
<1>1. IInv
  BY DEF QueueInv
<1>2. CASE UNCHANGED queueVars
  <2>1. UNCHANGED <<dq, mem, hdrs>> /\ status' = status /\ que' = que
    BY <1>2 DEF queueVars, vars
  <2>2. IInv'
    BY <1>1, <2>1, StandStill DEF IInv
  <2>3. QueueInv'
    BY <2>1, <2>2, NoneLeaves, WrappersKept
  <2>4. Objs' = Objs
    BY <1>1, <2>1, <2>2, Standing
  <2>5. QED
    BY <2>1, <2>3, <2>4 DEF S!sVars
<1>3. CASE LooseStep
  <2>1. Next /\ que' = que /\ \A f \in Handles : IsQueue(f) => dq'[f] = dq[f]
    BY <1>3 DEF LooseStep
  <2>2. IInv' /\ [S!SeqNext]_S!sVars
    BY <1>1, <2>1, Inductive, NextRefines
  <2>3. \A f \in Handles : IsQueue(f) => StaysOn(f)
    BY <2>1 DEF StaysOn, Alive
  <2>4. QED
    BY <2>1, <2>2, <2>3, WrappersKept
<1>4. CASE \E h \in Handles : QueueStep(h)
  <2>1. PICK h \in Handles : QueueStep(h)
    BY <1>4
  <2>2. CASE \/ QueueDrop(h)
             \/ IntoDeque(h)
             \/ ~IsQueue(h) /\ Drop(h) /\ UNCHANGED que
    BY <2>2, EndsKeep
  <2>3. ASSUME NEW g \in Handles,
               QueueSwap(h, g) \/ \E alike \in {{}, Elems} : QueueCompare(h, g, alike)
        PROVE  QueueInv' /\ S!SeqNext
    BY <2>3, QueuePairsKeep
  <2>4. ASSUME NEW room \in Rooms, NEW b \in Blocks, QueueForwards(h, room, b)
        PROVE  QueueInv' /\ S!SeqNext
    BY <2>4, ForwardsKeep
  <2>5. ASSUME NEW room \in Rooms, NEW b \in Blocks, NEW n, QueueBirthStep(h, n, room, b)
        PROVE  QueueInv' /\ S!SeqNext
    BY <2>5, QueueBirthKeeps
  <2>6. ASSUME NEW room \in Rooms, NEW b \in Blocks, NEW g \in Handles, NEW hdr \in BOOLEAN,
               QueueAssign(h, g, hdr, room, b)
        PROVE  QueueInv' /\ S!SeqNext
    BY <2>6, QueueAssignKeeps
  <2>7. QED
    BY <2>1, <2>2, <2>3, <2>4, <2>5, <2>6 DEF QueueStep
<1>5. QED
  BY <1>2, <1>3, <1>4 DEF QueueNext

(* A program of queues and deques begins with none.                        *)
LEMMA NoQueues ==
  QueueInit => QueueInv /\ S!SeqInit
<1>1. SUFFICES ASSUME QueueInit PROVE QueueInv /\ S!SeqInit
  OBVIOUS
<1>2. Init /\ IInv /\ que = [h \in Handles |-> Null]
  BY <1>1, InitSound DEF QueueInit
<1>3. QED
  BY <1>2, InitRefines DEF QueueInv, WrappersStayWithTheirDeque, IsQueue

(* In every program of queues, deques and allocators, the queues keep      *)
(* their deques and the structs their blocks.                              *)
THEOREM QueuesAreSound ==
  QueueSpec => []QueueInv
<1>1. QueueInit => QueueInv
  BY NoQueues
<1>2. QueueInv /\ [QueueNext]_queueVars => QueueInv'
  BY QueueInductive
<1>3. QED
  BY <1>1, <1>2, PTL DEF QueueSpec

(* Every wrapper header was lent by the allocator its deque is on, which   *)
(* is where it goes back.                                                  *)
THEOREM WrappersGoHome ==
  QueueSpec => []WrappersStayWithTheirDeque
<1>1. QueueInv => WrappersStayWithTheirDeque
  BY DEF QueueInv
<1>2. QED
  BY <1>1, QueuesAreSound, PTL

(* Whatever a constructor was refused half way, what allocators have lent  *)
(* is what deques, in queues or loose, hold.                               *)
THEOREM QueuesBalance ==
  QueueSpec => []BooksBalance
<1>1. QueueInv => BooksBalance
  BY SoundBalances DEF QueueInv
<1>2. QED
  BY <1>1, QueuesAreSound, PTL

(* Queues, too, are sequence containers.                                   *)
THEOREM QueueIsASequence ==
  QueueSpec => ImplementsSeqStore
<1>1. QueueInit => S!SeqInit
  BY NoQueues
<1>2. QueueInv /\ [QueueNext]_queueVars => [S!SeqNext]_S!sVars
  BY QueueInductive
<1>3. QED
  BY <1>1, <1>2, QueuesAreSound, PTL DEF QueueSpec, ImplementsSeqStore, S!SeqSpec
=============================================================================
