-------------------------------- MODULE Queue --------------------------------
(***************************************************************************)
(* ds/queue: a header of its own around a deque, whose calls it forwards   *)
(* by the end they act on.                                                 *)
(*                                                                         *)
(* The deque pointer of a queue is written once, by wrap, so that a queue  *)
(* and its deque go by one handle. A deque that left its queue is the      *)
(* program's own.                                                          *)
(***************************************************************************)
EXTENDS Deque

VARIABLE que  \* handle -> the allocator that lent its queue's header, or Null

queueVars == <<que, vars>>

IsQueue(h) == que[h] # Null

QueueInit ==
  /\ Init
  /\ que = [h \in Handles |-> Null]

(* What of a deque is not its header goes back.                            *)
GivenUp_Nothing(d, m) == m
GivenUp(d, m) == GiveBack(m, d.data, d.al, CapBytes(d))

(* A constructor: the deque first, then wrap. When the second header is    *)
(* refused the deque that was built is dropped. "n" headers are lent.      *)
Wrap(g, a, len, cap, cells, n, room, b) ==
  \/ /\ NewImpl(g, a, len, cap, cells, n > 0, room, b)
     /\ status' = NoMem
     /\ UNCHANGED que
  \/ /\ n = 2
     /\ NewImpl(g, a, len, cap, cells, TRUE, room, b)
     /\ status' = OK
     /\ que' = [que EXCEPT ![g] = a]
  \/ /\ n = 1
     /\ ~Alive(g) /\ Fresh(b)
     /\ cap = 0 \/ ~BytesRefused(cap, room)
     /\ mem' = GivenUp(NewStruct(a, len, cap, b), NewMem(mem, a, cap, b, cells))
     /\ hdrs' = ReturnHdr(TakeHdr(hdrs, a), a)
     /\ status' = NoMem
     /\ UNCHANGED <<dq, que>>

QueueBirthStep(g, n, room, b) ==
  \E a \in Als :
    \/ Wrap(g, a, 0, 0, Raw(0), n, room, b)
    \/ \E c \in Counts : Wrap(g, a, 0, c, Raw(c), n, room, b)
    \/ \E s \in Inputs :
         Wrap(g, a, Len(s), Len(s), [i \in 0 .. Len(s) - 1 |-> s[i + 1]], n, room, b)
    \/ \E h \in {x \in Handles : IsQueue(x)} :
         Wrap(g, a, dq[h].len, dq[h].len, CopyOut(dq[h], mem, Raw(dq[h].len)), n, room, b)

(* The header goes back to the allocator the deque names; to another one   *)
(* than lent it, it does not.                                              *)
HeaderBack(h) == IF que[h] = dq[h].al THEN [que EXCEPT ![h] = Null] ELSE que

(* The allocator is read before the deque, which knows it, is dropped.     *)
QueueDrop(h) ==
  /\ IsQueue(h)
  /\ Drop(h)
  /\ que' = HeaderBack(h)

IntoDeque(h) ==
  /\ IsQueue(h)
  /\ Nothing
  /\ que' = HeaderBack(h)

(* front_mut and back_mut let the elem they lead to be written.            *)
QueueForwards(h, room, b) ==
  /\ IsQueue(h)
  /\ UNCHANGED que
  /\ \/ \E v \in Vals : PushBack(h, v, room, b) \/ Set(h, 0, v) \/ Set(h, dq[h].len - 1, v)
     \/ PopFront(h)
     \/ Clear(h)
     \/ \E c \in Counts : ReserveCap(h, c, room, b)
     \/ ShrinkToFit(h, room, b)

QueueAssign(h, g, hdr, room, b) ==
  /\ IsQueue(h) /\ IsQueue(g)
  /\ CopyAssign(h, g, room, b) \/ MoveAssign(h, g, hdr, room, b)
  /\ UNCHANGED que

QueueSwap(h, g) ==
  /\ IsQueue(h) /\ IsQueue(g)
  /\ Swap(h, g)
  /\ UNCHANGED que

QueueCompare(h, g, alike) ==
  /\ IsQueue(h) /\ IsQueue(g)
  /\ Compare(h, g, alike)
  /\ UNCHANGED que

QueueStep(h) ==
  \/ QueueDrop(h)
  \/ IntoDeque(h)
  \/ ~IsQueue(h) /\ Drop(h) /\ UNCHANGED que
  \/ \E g \in Handles : QueueSwap(h, g) \/ \E alike \in {{}, Elems} : QueueCompare(h, g, alike)
  \/ \E room \in Rooms, b \in Blocks :
       \/ QueueForwards(h, room, b)
       \/ \E n \in 0 .. 2 : QueueBirthStep(h, n, room, b)
       \/ \E g \in Handles, hdr \in BOOLEAN : QueueAssign(h, g, hdr, room, b)

(* What the program does to deques of its own it does to no queue's.       *)
LooseStep ==
  /\ Next
  /\ UNCHANGED que
  /\ \A h \in Handles : IsQueue(h) => dq'[h] = dq[h]

QueueNext == LooseStep \/ \E h \in Handles : QueueStep(h)

QueueSpec == QueueInit /\ [][QueueNext]_queueVars

-----------------------------------------------------------------------------
(* Every wrapper header was lent by the allocator its deque is on now,     *)
(* which is where it will be given back: no refused wrap and no assignment *)
(* or swap ever parts the two.                                             *)
WrappersStayWithTheirDeque ==
  \A h \in Handles : IsQueue(h) => Alive(h) /\ que[h] = dq[h].al
=============================================================================
