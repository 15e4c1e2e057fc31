-------------------------------- MODULE Deque --------------------------------
(***************************************************************************)
(* ds/deque: a growable ring over one block of an allocator.               *)
(*                                                                         *)
(* A deque object is the struct of the code: the block, how many elems     *)
(* there are, how many fit, the slot of the front elem and the allocator.  *)
(* The blocks are cells of elems, kept apart from the objects so that two  *)
(* objects could come to share one, lose one, or read what nobody wrote:   *)
(* that they do not is what the properties say.                            *)
(*                                                                         *)
(* Names that end in _No..., _Only... and the like are wrong on purpose:   *)
(* each is the definition after it with one slip, kept so that the         *)
(* property that notices the slip can be seen to notice it.                *)
(*                                                                         *)
(* A call that may allocate takes two more parameters: "room", the size in *)
(* bytes of the largest block the allocator would lend during the call,    *)
(* and "b", the address it would lend it at. Every call of the code takes  *)
(* at most one block beside the header, so one address is enough.          *)
(***************************************************************************)
EXTENDS Integers, Sequences, FiniteSets

CONSTANTS
  Handles,  \* object variables of the calling program
  Als,      \* allocators
  Blocks,   \* addresses of blocks
  Vals,     \* values a caller stores
  Zero,     \* the elem memset leaves: all bytes zero
  Junk,     \* what a block holds before anyone writes to it
  Null,
  OK, NoMem,
  Inputs,   \* arrays a caller hands over
  Counts,   \* lengths and capacities a caller asks for
  Rooms,    \* sizes of the largest block an allocator can lend
  ElemSize, \* bytes of one elem
  SizeMax   \* SIZE_MAX

ASSUME DequeAssumption ==
  /\ Inputs \subseteq Seq(Vals)
  /\ Counts \subseteq Nat
  /\ ElemSize \in Nat \ {0}
  /\ SizeMax \in Nat
  /\ Junk \notin Vals \cup {Zero}
  /\ OK # NoMem

(* No allocator lends more than half the address space: malloc stops at    *)
(* PTRDIFF_MAX, and a C object may not be larger.                          *)
ASSUME RoomAssumption == Rooms \subseteq 0 .. (SizeMax \div 2)

VARIABLES
  dq,      \* handle -> the struct tda_Deque behind it, or Null
  mem,     \* block address -> the block lent at it, or Null
  hdrs,    \* allocator -> how many headers (struct tda_Deque) it has lent
  status   \* what the last call answered

vars == <<dq, mem, hdrs, status>>

Elems == Vals \cup {Zero}
Cells == Elems \cup {Junk}

(* A lent block of n elems: by whom, how many bytes were asked for, and    *)
(* what it holds.                                                          *)
LentBlock(n) == [al : Als, bytes : {n * ElemSize}, cells : [0 .. n - 1 -> Cells]]

Deques ==
  [data : Blocks \cup {Null}, len : Nat, cap : Nat, head : Nat, al : Als]

(* A tda_Status, or the answer of a comparison.                            *)
Answers == {OK, NoMem} \cup BOOLEAN

(* Null is an address that is no block's, no struct, no lent block and no  *)
(* object as a caller sees it.                                             *)
ASSUME NullAssumption ==
  /\ Null \notin Blocks
  /\ Null \notin Deques
  /\ \A n \in 0 .. SizeMax : Null \notin LentBlock(n)
  /\ Null \notin [al : Als, elems : Seq(Cells)]

Alive(h) == dq[h] # Null

-----------------------------------------------------------------------------
(* The allocator, as deque.c uses it.                                      *)

(* A block of n elems nobody has written to.                               *)
Raw(n) == [i \in 0 .. n - 1 |-> Junk]

(* tda_alloc: a request for nothing is never granted.                      *)
Granted(bytes, room) == 0 < bytes /\ bytes <= room

Lend(m, b, a, bytes, cells) ==
  [m EXCEPT ![b] = [al |-> a, bytes |-> bytes, cells |-> cells]]

(* tda_dealloc: null is a no-op. A block given back to another allocator   *)
(* or with another size than it was lent with settles no debt: it stays in *)
(* the books, which is what NothingLeaks and EveryBlockIsOwned would see.  *)
GiveBack(m, b, a, bytes) ==
  IF b # Null /\ m[b] # Null /\ m[b].al = a /\ m[b].bytes = bytes
  THEN [m EXCEPT ![b] = Null]
  ELSE m

-----------------------------------------------------------------------------
(* The ring.                                                               *)

CapBytes(d) == d.cap * ElemSize
LenBytes(d) == d.len * ElemSize

SlotOf(d, i) ==
  LET raw == d.head + i
  IN  IF raw < d.cap THEN raw ELSE raw - d.cap

StepOn_NoWrap(d)   == d.head + 1

StepBack(d) == IF d.head = 0 THEN d.cap - 1 ELSE d.head - 1
StepOn(d)   == IF d.head + 1 = d.cap THEN 0 ELSE d.head + 1

FirstRun(d) ==
  LET toEnd == d.cap - d.head
  IN  IF toEnd < d.len THEN toEnd ELSE d.len

(* copy_out: the run from head to the end of the block, then the run from  *)
(* slot 0, over the first len cells of dst.                                *)
CopyOut(d, m, dst) ==
  [i \in DOMAIN dst |->
     IF i < FirstRun(d) THEN m[d.data].cells[d.head + i]
     ELSE IF i < d.len THEN m[d.data].cells[i - FirstRun(d)]
     ELSE dst[i]]

(* copy_in: the elems of s over the same two runs.                         *)
CopyIn(d, cells, s) ==
  [k \in DOMAIN cells |->
     IF d.head <= k /\ k < d.head + FirstRun(d) THEN s[k - d.head + 1]
     ELSE IF k < d.len - FirstRun(d) THEN s[FirstRun(d) + k + 1]
     ELSE cells[k]]

(* A run of move_elem calls: for every idx of "to", the elem at idx + by   *)
(* of the ring d goes to idx. The loops run in the direction in which no   *)
(* elem is read after it was overwritten, so they amount to moving all of  *)
(* them at once, which is what LoopsReadBeforeTheyWrite says.              *)
ShiftRun(d, cells, to, by) ==
  [k \in DOMAIN cells |->
     IF \E i \in to : SlotOf(d, i) = k
     THEN cells[SlotOf(d, (CHOOSE i \in to : SlotOf(d, i) = k) + by)]
     ELSE cells[k]]

(* The shifting loops of insert and remove, one move_elem after another.   *)

(* move_elem: one elem copied from place i + by to place i of the ring.    *)
MoveElem(d, cells, i, by) ==
  [cells EXCEPT ![SlotOf(d, i)] = cells[SlotOf(d, i + by)]]

(* n moves, to "first" and the places after it, or before it.              *)
MovesUpward(d, cells, first, n, by) ==
  LET after[k \in 0 .. n] ==
        IF k = 0 THEN cells ELSE MoveElem(d, after[k - 1], first + (k - 1), by)
  IN  after[n]

MovesDownward(d, cells, first, n, by) ==
  LET after[k \in 0 .. n] ==
        IF k = 0 THEN cells ELSE MoveElem(d, after[k - 1], first - (k - 1), by)
  IN  after[n]

InsertBackLoop_Upward(d, cells, idx) ==
  MovesUpward(d, cells, idx + 1, d.len - 1 - idx, -1)

InsertFrontLoop(d, cells, idx) == MovesUpward(d, cells, 0, idx, 1)
InsertBackLoop(d, cells, idx)  == MovesDownward(d, cells, d.len - 1, d.len - 1 - idx, -1)
RemoveFrontLoop(d, cells, idx) == MovesDownward(d, cells, idx, idx, -1)
RemoveBackLoop(d, cells, idx)  == MovesUpward(d, cells, idx, d.len - 1 - idx, 1)

(* Writing the slot of one elem, or zeroing the slots of several.          *)
PutElem(d, cells, i, v) == [cells EXCEPT ![SlotOf(d, i)] = v]

ZeroRun_OneMemset(d, cells, idxs) ==
  [k \in DOMAIN cells |-> IF k - d.head \in idxs THEN Zero ELSE cells[k]]

ZeroRun(d, cells, idxs) ==
  [k \in DOMAIN cells |->
     IF \E i \in idxs : SlotOf(d, i) = k THEN Zero ELSE cells[k]]

-----------------------------------------------------------------------------
(* Growth. A result is [st, d, m]: the status, the struct, the memory.     *)

NextCap(d) ==
  IF d.cap = 0 THEN 1
  ELSE IF d.cap * 2 > SizeMax THEN SizeMax ELSE d.cap * 2

(* ckd_mul refuses the product, or the allocator refuses the block.        *)
BytesRefused(n, room) == n * ElemSize > SizeMax \/ ~Granted(n * ElemSize, room)

(* The contents go, unrolled, into a fresh block of n elems and the old    *)
(* block is given back.                                                    *)
Relocate(d, m, n, b) ==
  LET full == Lend(m, b, d.al, n * ElemSize, CopyOut(d, m, Raw(n)))
  IN  [st |-> OK,
       d  |-> [d EXCEPT !.data = b, !.cap = n, !.head = 0],
       m  |-> GiveBack(full, d.data, d.al, CapBytes(d))]

Untouched(st, d, m) == [st |-> st, d |-> d, m |-> m]

Reserve_WithinLen(d, m, n, room, b) ==
  IF n <= d.len THEN Untouched(OK, d, m)
  ELSE IF BytesRefused(n, room) THEN Untouched(NoMem, d, m)
  ELSE Relocate(d, m, n, b)

Reserve(d, m, n, room, b) ==
  IF n <= d.cap THEN Untouched(OK, d, m)
  ELSE IF BytesRefused(n, room) THEN Untouched(NoMem, d, m)
  ELSE Relocate(d, m, n, b)

Grow_EagerOnly(d, m, room, b) ==
  IF d.cap = SizeMax THEN Untouched(NoMem, d, m)
  ELSE Reserve(d, m, NextCap(d), room, b)

(* The eager request first; the exact one when it is refused.              *)
Grow(d, m, room, b) ==
  LET eager == Reserve(d, m, NextCap(d), room, b)
  IN  IF d.cap = SizeMax THEN Untouched(NoMem, d, m)
      ELSE IF eager.st = OK \/ NextCap(d) <= d.cap + 1 THEN eager
      ELSE Reserve(d, m, d.cap + 1, room, b)

ReserveOne(d, m, room, b) ==
  IF d.len = d.cap THEN Grow(d, m, room, b) ELSE Untouched(OK, d, m)

ReserveFor(d, m, n, room, b) ==
  LET eager == Reserve(d, m, NextCap(d), room, b)
  IN  IF NextCap(d) > n /\ eager.st = OK THEN eager
      ELSE Reserve(d, m, n, room, b)

-----------------------------------------------------------------------------
(* How a call ends.                                                        *)

(* A refused call: out is not written, nothing else changes.               *)
Refuse ==
  /\ status' = NoMem
  /\ UNCHANGED <<dq, mem, hdrs>>

(* The struct behind h and the memory are now d and m.                     *)
Commit(h, d, m) ==
  /\ dq' = [dq EXCEPT ![h] = d]
  /\ mem' = m
  /\ status' = OK
  /\ UNCHANGED hdrs

(* As Commit, with the cells of d's own block replaced.                    *)
CommitCells(h, d, m, cells) ==
  Commit(h, d, [m EXCEPT ![d.data].cells = cells])

Fresh(b) == b \in Blocks /\ mem[b] = Null

-----------------------------------------------------------------------------
(* Lifetime.                                                               *)

TakeHdr(H, a)   == [H EXCEPT ![a] = @ + 1]
ReturnHdr(H, a) == [H EXCEPT ![a] = @ - 1]

NewStruct(a, len, cap, b) ==
  [data |-> IF cap = 0 THEN Null ELSE b,
   len |-> len, cap |-> cap, head |-> 0, al |-> a]

NewMem(m, a, cap, b, cells) ==
  IF cap = 0 THEN m ELSE Lend(m, b, a, cap * ElemSize, cells)

(* new_impl: the header first, then the block. "hdr" says whether the      *)
(* allocator lends the header. A refused block returns the header.         *)
NewImpl(g, a, len, cap, cells, hdr, room, b) ==
  LET blockRefused == cap > 0 /\ BytesRefused(cap, room)
  IN  /\ ~Alive(g)
      /\ Fresh(b)
      /\ \/ /\ ~hdr
            /\ Refuse
         \/ /\ hdr
            /\ blockRefused
            /\ hdrs' = ReturnHdr(TakeHdr(hdrs, a), a)
            /\ status' = NoMem
            /\ UNCHANGED <<dq, mem>>
         \/ /\ hdr
            /\ ~blockRefused
            /\ hdrs' = TakeHdr(hdrs, a)
            /\ dq' = [dq EXCEPT ![g] = NewStruct(a, len, cap, b)]
            /\ mem' = NewMem(mem, a, cap, b, cells)
            /\ status' = OK

New(g, a, hdr, room, b) == NewImpl(g, a, 0, 0, Raw(0), hdr, room, b)

NewLen(g, a, n, hdr, room, b) ==
  NewImpl(g, a, n, n, [i \in 0 .. n - 1 |-> Zero], hdr, room, b)

NewCap(g, a, n, hdr, room, b) == NewImpl(g, a, 0, n, Raw(n), hdr, room, b)

FromData(g, a, s, hdr, room, b) ==
  NewImpl(g, a, Len(s), Len(s), [i \in 0 .. Len(s) - 1 |-> s[i + 1]], hdr, room, b)

Drop(h) ==
  /\ Alive(h)
  /\ dq' = [dq EXCEPT ![h] = Null]
  /\ mem' = GiveBack(mem, dq[h].data, dq[h].al, CapBytes(dq[h]))
  /\ hdrs' = ReturnHdr(hdrs, dq[h].al)
  /\ status' = OK

CopyWith(h, g, a, hdr, room, b) ==
  /\ Alive(h)
  /\ NewImpl(g, a, dq[h].len, dq[h].len,
             CopyOut(dq[h], mem, Raw(dq[h].len)), hdr, room, b)

(* An assignment of an object to itself.                                   *)
Nothing ==
  /\ status' = OK
  /\ UNCHANGED <<dq, mem, hdrs>>

(* What the target held is gone: its ring starts again from slot 0.        *)
FromSlotZero_KeepsHead(d, n) == [d EXCEPT !.len = n]
FromSlotZero(d, n) == [d EXCEPT !.head = 0, !.len = n]

CopyAssign(h, g, room, b) ==
  LET src == dq[h]
      r   == Reserve(dq[g], mem, src.len, room, b)
      dst == FromSlotZero(r.d, src.len)
  IN  /\ Alive(h) /\ Alive(g)
      /\ Fresh(b)
      /\ \/ /\ h = g
            /\ Nothing
         \/ /\ h # g
            /\ r.st = NoMem
            /\ Refuse
         \/ /\ h # g
            /\ r.st = OK
            /\ src.len = 0
            /\ Commit(g, dst, r.m)
         \/ /\ h # g
            /\ r.st = OK
            /\ src.len > 0
            /\ CommitCells(g, dst, r.m, CopyOut(src, r.m, r.m[dst.data].cells))

Released(d) == [d EXCEPT !.data = Null, !.len = 0, !.cap = 0, !.head = 0]

(* One allocator: the structs change places and what g held is released    *)
(* from h.                                                                 *)
HandOver(h, g) ==
  /\ dq' = [dq EXCEPT ![g] = dq[h], ![h] = Released(dq[g])]
  /\ mem' = GiveBack(mem, dq[g].data, dq[g].al, CapBytes(dq[g]))
  /\ status' = OK
  /\ UNCHANGED hdrs

(* Two allocators: a whole copy is built on the target's, takes the place  *)
(* of the target's struct, and carries the old one away. The copy's header *)
(* is lent and given back within the call, so the count stands.            *)
MoveACopy(h, g, hdr, room, b) ==
  LET n    == dq[h].len
      al   == dq[g].al
      full == NewMem(mem, al, n, b, CopyOut(dq[h], mem, Raw(n)))
      rid  == GiveBack(full, dq[g].data, al, CapBytes(dq[g]))
  IN  \/ /\ ~hdr \/ (n > 0 /\ BytesRefused(n, room))
         /\ Refuse
      \/ /\ hdr
         /\ n = 0 \/ ~BytesRefused(n, room)
         /\ dq' = [dq EXCEPT ![g] = NewStruct(al, n, n, b), ![h] = Released(dq[h])]
         /\ mem' = GiveBack(rid, dq[h].data, dq[h].al, CapBytes(dq[h]))
         /\ status' = OK
         /\ UNCHANGED hdrs

MoveAssign_AsIfOneAllocator(h, g, hdr, room, b) ==
  /\ Alive(h) /\ Alive(g)
  /\ Fresh(b)
  /\ IF h = g THEN Nothing ELSE HandOver(h, g)

MoveAssign(h, g, hdr, room, b) ==
  /\ Alive(h) /\ Alive(g)
  /\ Fresh(b)
  /\ \/ /\ h = g
        /\ Nothing
     \/ /\ h # g
        /\ dq[h].al = dq[g].al
        /\ HandOver(h, g)
     \/ /\ dq[h].al # dq[g].al
        /\ MoveACopy(h, g, hdr, room, b)

(* The caller answers for the two being of one allocator.                  *)
Swap(h, g) ==
  /\ Alive(h) /\ Alive(g)
  /\ dq[h].al = dq[g].al
  /\ dq' = [dq EXCEPT ![h] = dq[g], ![g] = dq[h]]
  /\ status' = OK
  /\ UNCHANGED <<mem, hdrs>>

-----------------------------------------------------------------------------
(* Calls on one object.                                                    *)

Set(h, i, v) ==
  /\ Alive(h)
  /\ i \in 0 .. dq[h].len - 1
  /\ CommitCells(h, dq[h], mem, PutElem(dq[h], mem[dq[h].data].cells, i, v))

PushFront(h, v, room, b) ==
  LET r == ReserveOne(dq[h], mem, room, b)
      d == [r.d EXCEPT !.head = StepBack(r.d), !.len = @ + 1]
  IN  /\ Alive(h)
      /\ Fresh(b)
      /\ \/ /\ r.st = NoMem
            /\ Refuse
         \/ /\ r.st = OK
            /\ CommitCells(h, d, r.m, PutElem(d, r.m[d.data].cells, 0, v))

PushBack(h, v, room, b) ==
  LET r == ReserveOne(dq[h], mem, room, b)
      d == [r.d EXCEPT !.len = @ + 1]
  IN  /\ Alive(h)
      /\ Fresh(b)
      /\ \/ /\ r.st = NoMem
            /\ Refuse
         \/ /\ r.st = OK
            /\ CommitCells(h, d, r.m, PutElem(r.d, r.m[d.data].cells, r.d.len, v))

PopFront(h) ==
  /\ Alive(h)
  /\ dq[h].len > 0
  /\ Commit(h, [dq[h] EXCEPT !.head = StepOn(dq[h]), !.len = @ - 1], mem)

PopBack(h) ==
  /\ Alive(h)
  /\ dq[h].len > 0
  /\ Commit(h, [dq[h] EXCEPT !.len = @ - 1], mem)

(* The shorter side makes room: the front one slides back over the slot    *)
(* before the head, the back one slides on.                                *)
Insert(h, idx, v, room, b) ==
  LET r       == ReserveOne(dq[h], mem, room, b)
      cells   == r.m[r.d.data].cells
      front   == [r.d EXCEPT !.head = StepBack(r.d), !.len = @ + 1]
      back    == [r.d EXCEPT !.len = @ + 1]
      atFront == ShiftRun(front, cells, 0 .. idx - 1, 1)
      atBack  == ShiftRun(back, cells, idx + 1 .. r.d.len, -1)
  IN  /\ Alive(h)
      /\ Fresh(b)
      /\ idx \in 0 .. dq[h].len
      /\ \/ /\ r.st = NoMem
            /\ Refuse
         \/ /\ r.st = OK
            /\ idx <= r.d.len \div 2
            /\ CommitCells(h, front, r.m, PutElem(front, atFront, idx, v))
         \/ /\ r.st = OK
            /\ idx > r.d.len \div 2
            /\ CommitCells(h, back, r.m, PutElem(back, atBack, idx, v))

(* The shorter side closes the hole.                                       *)
Remove(h, idx) ==
  LET d     == dq[h]
      cells == mem[d.data].cells
  IN  /\ Alive(h)
      /\ idx \in 0 .. d.len - 1
      /\ \/ /\ idx < d.len - idx - 1
            /\ CommitCells(h, [d EXCEPT !.head = StepOn(d), !.len = @ - 1], mem,
                           ShiftRun(d, cells, 1 .. idx, -1))
         \/ /\ idx >= d.len - idx - 1
            /\ CommitCells(h, [d EXCEPT !.len = @ - 1], mem,
                           ShiftRun(d, cells, idx .. d.len - 2, 1))

Clear(h) ==
  /\ Alive(h)
  /\ Commit(h, [dq[h] EXCEPT !.len = 0, !.head = 0], mem)

ReserveCap(h, n, room, b) ==
  LET r == Reserve(dq[h], mem, n, room, b)
  IN  /\ Alive(h)
      /\ Fresh(b)
      /\ \/ /\ r.st = NoMem
            /\ Refuse
         \/ /\ r.st = OK
            /\ Commit(h, r.d, r.m)

ShrinkToFit(h, room, b) ==
  LET d == dq[h]
      r == Relocate(d, mem, d.len, b)
  IN  /\ Alive(h)
      /\ Fresh(b)
      /\ \/ /\ d.len = d.cap
            /\ Nothing
         \/ /\ 0 = d.len
            /\ d.len < d.cap
            /\ Commit(h, Released(d), GiveBack(mem, d.data, d.al, CapBytes(d)))
         \/ /\ 0 < d.len
            /\ d.len < d.cap
            /\ ~Granted(LenBytes(d), room)
            /\ Refuse
         \/ /\ 0 < d.len
            /\ d.len < d.cap
            /\ Granted(LenBytes(d), room)
            /\ Commit(h, r.d, r.m)

(* A shorter length cuts the tail off; a longer one appends zeroed elems.  *)
Resize(h, n, room, b) ==
  LET d == dq[h]
      r == IF n > d.cap THEN ReserveFor(d, mem, n, room, b) ELSE Untouched(OK, d, mem)
      longer == [r.d EXCEPT !.len = n]
  IN  /\ Alive(h)
      /\ Fresh(b)
      /\ \/ /\ n <= d.len
            /\ Commit(h, [d EXCEPT !.len = n], mem)
         \/ /\ n > d.len
            /\ r.st = NoMem
            /\ Refuse
         \/ /\ n > d.len
            /\ r.st = OK
            /\ CommitCells(h, longer, r.m,
                           ZeroRun(r.d, r.m[r.d.data].cells, d.len .. n - 1))

SwapElems(h, i, j) ==
  LET d     == dq[h]
      cells == mem[d.data].cells
  IN  /\ Alive(h)
      /\ {i, j} \subseteq 0 .. d.len - 1
      /\ CommitCells(h, d, mem,
           [cells EXCEPT ![SlotOf(d, i)] = cells[SlotOf(d, j)],
                         ![SlotOf(d, j)] = cells[SlotOf(d, i)]])

CopyFromSpan(h, s) ==
  /\ Alive(h)
  /\ Len(s) = dq[h].len
  /\ \/ /\ s = <<>>
        /\ Nothing
     \/ /\ s # <<>>
        /\ CommitCells(h, dq[h], mem, CopyIn(dq[h], mem[dq[h].data].cells, s))

-----------------------------------------------------------------------------
(* Questions.                                                              *)

(* elem_at, which get, front and back and their writable kin lead to.      *)
ElemAt(d, m, i) == m[d.data].cells[SlotOf(d, i)]

(* copy_to_span, over a span as long as the contents.                      *)
CopyToSpan(d, m) == CopyOut(d, m, Raw(d.len))

(* eq and eq_by go by place and not by slot: two rings that hold the same  *)
(* begin at different ones. The equality cannot tell the elems of "alike"  *)
(* apart; that of eq, which compares bytes, has none such.                 *)
Compare(h, g, alike) ==
  LET a == dq[h]
      b == dq[g]
      Same(i) ==
        LET x == ElemAt(a, mem, i)
            y == ElemAt(b, mem, i)
        IN  x = y \/ {x, y} \subseteq alike
  IN  /\ Alive(h) /\ Alive(g)
      /\ status' = (h = g \/ (a.len = b.len /\ \A i \in 0 .. a.len - 1 : Same(i)))
      /\ UNCHANGED <<dq, mem, hdrs>>

-----------------------------------------------------------------------------
Init ==
  /\ dq = [h \in Handles |-> Null]
  /\ mem = [b \in Blocks |-> Null]
  /\ hdrs = [a \in Als |-> 0]
  /\ status = OK

(* Places in the contents of h, the one behind the last included.          *)
Idxs(h) == IF Alive(h) THEN 0 .. dq[h].len ELSE {}

(* Calls that take and give back blocks, and may be refused.               *)
BirthStep(g, room, b) ==
  /\ ~Alive(g)
  /\ \E a \in Als, hdr \in BOOLEAN :
       \/ New(g, a, hdr, room, b)
       \/ \E n \in Counts : NewLen(g, a, n, hdr, room, b) \/ NewCap(g, a, n, hdr, room, b)
       \/ \E s \in Inputs : FromData(g, a, s, hdr, room, b)
       \/ \E h \in Handles : CopyWith(h, g, a, hdr, room, b)

PairStep(h, g, room, b) ==
  \/ CopyAssign(h, g, room, b)
  \/ \E hdr \in BOOLEAN : MoveAssign(h, g, hdr, room, b)

GrowStep(h, room, b) ==
  \/ \E v \in Vals : PushFront(h, v, room, b) \/ PushBack(h, v, room, b)
  \/ \E v \in Vals, i \in Idxs(h) : Insert(h, i, v, room, b)
  \/ \E n \in Counts : ReserveCap(h, n, room, b) \/ Resize(h, n, room, b)
  \/ ShrinkToFit(h, room, b)

(* Calls that cannot fail.                                                 *)
PlainStep(h) ==
  \/ Drop(h)
  \/ \E g \in Handles : Swap(h, g) \/ \E alike \in {{}, Elems} : Compare(h, g, alike)
  \/ PopFront(h)
  \/ PopBack(h)
  \/ Clear(h)
  \/ \E i \in Idxs(h) :
       \/ Remove(h, i)
       \/ \E v \in Vals : Set(h, i, v)
       \/ \E j \in Idxs(h) : SwapElems(h, i, j)
  \/ \E s \in Inputs : CopyFromSpan(h, s)

Next ==
  \E h \in Handles :
    \/ PlainStep(h)
    \/ \E room \in Rooms, b \in Blocks :
         \/ BirthStep(h, room, b)
         \/ GrowStep(h, room, b)
         \/ \E g \in Handles : PairStep(h, g, room, b)

Spec == Init /\ [][Next]_vars

-----------------------------------------------------------------------------
(* Properties.                                                             *)

TypeOK ==
  /\ dq \in [Handles -> Deques \cup {Null}]
  /\ mem = [b \in Blocks |-> mem[b]]
  /\ \A b \in Blocks : mem[b] = Null \/ \E n \in 0 .. SizeMax : mem[b] \in LentBlock(n)
  /\ hdrs \in [Als -> Nat]
  /\ status \in Answers

(* What ASSERT_DEQUE checks on the way into and out of every call: the     *)
(* contents fit, there is a block exactly when there is capacity, and the  *)
(* head is a slot of it. With it, the products the code does not check     *)
(* (cap_bytes, len_bytes) and the sum in slot_of stay within a size_t.     *)
RingOK(d) ==
  /\ d.len <= d.cap
  /\ d.cap = 0 <=> d.data = Null
  /\ d.cap = 0 => d.head = 0
  /\ d.cap > 0 => d.head < d.cap
  /\ CapBytes(d) <= SizeMax
  /\ d.head + d.cap <= SizeMax

RingInv == \A h \in Handles : Alive(h) => RingOK(dq[h])

(* The block of a deque is lent to it by its own allocator, at the size    *)
(* the deque will give it back with. A deque that forgot which allocator,  *)
(* or which capacity, its block came with breaks this.                     *)
OwnsItsBlock(h) ==
  LET d == dq[h]
  IN  d.cap > 0 =>
        /\ d.data # Null
        /\ mem[d.data] # Null
        /\ mem[d.data].al = d.al
        /\ mem[d.data].bytes = CapBytes(d)
        /\ DOMAIN mem[d.data].cells = 0 .. d.cap - 1

EveryBlockIsOwned ==
  /\ \A h \in Handles : Alive(h) => OwnsItsBlock(h)
  /\ \A h, g \in Handles :
       h # g /\ Alive(h) /\ Alive(g) /\ dq[h].data # Null => dq[h].data # dq[g].data

(* Nothing an allocator has lent is ever out of reach: every block belongs *)
(* to a live deque, and every allocator has lent as many headers as there  *)
(* are live deques on it, whatever mix of calls failed half way.           *)
NothingLeaks ==
  /\ \A b \in Blocks : mem[b] # Null => \E h \in Handles : Alive(h) /\ dq[h].data = b
  /\ \A a \in Als : hdrs[a] = Cardinality({h \in Handles : Alive(h) /\ dq[h].al = a})

(* Both: what is lent and what deques hold are the same.                   *)
BooksBalance == EveryBlockIsOwned /\ NothingLeaks

(* Each loop runs in the direction in which no elem is read after it was   *)
(* overwritten: whatever the ring holds and wherever its seam is, the loop *)
(* leaves what moving all of its elems at once would leave.                *)
LoopsReadBeforeTheyWrite ==
  \A h \in Handles : Alive(h) /\ dq[h].len > 0 =>
    LET d     == dq[h]
        cells == mem[d.data].cells
    IN  \A idx \in 0 .. d.len - 1 :
          /\ InsertFrontLoop(d, cells, idx) = ShiftRun(d, cells, 0 .. idx - 1, 1)
          /\ InsertBackLoop(d, cells, idx) = ShiftRun(d, cells, idx + 1 .. d.len - 1, -1)
          /\ RemoveFrontLoop(d, cells, idx) = ShiftRun(d, cells, 1 .. idx, -1)
          /\ RemoveBackLoop(d, cells, idx) = ShiftRun(d, cells, idx .. d.len - 2, 1)

(* A growth is refused only when it has to be: a push on a full deque when *)
(* not even one slot more can be had, a resize when the length asked for   *)
(* cannot. The eager request being refused is not a reason (grow,          *)
(* reserve_for).                                                           *)
RefusedOnlyForNeed ==
  \A h \in Handles, room \in Rooms, b \in Blocks :
    Alive(h) /\ Fresh(b) =>
      LET d == dq[h]
      IN  /\ ReserveOne(d, mem, room, b).st = NoMem
               <=> d.len = d.cap /\ BytesRefused(d.cap + 1, room)
          /\ \A n \in Counts : n > d.cap =>
               (ReserveFor(d, mem, n, room, b).st = NoMem <=> BytesRefused(n, room))

(* Capacity, once reserved, is kept: no call leaves a deque with less than *)
(* it had unless it fits the block to the contents, empties it for good    *)
(* (move_assign), or hands it another deque's struct.                      *)
CapacityIsKept ==
  [][\A h \in Handles :
       Alive(h) /\ dq'[h] # Null /\ dq'[h].cap < dq[h].cap =>
         \/ dq'[h].len = dq'[h].cap
         \/ \E g \in Handles : g # h /\ dq'[h] = dq[g]]_vars

(* The contents of a deque, front to back, as a caller reads them: elem by *)
(* elem through the ring, or, of an object that wraps, in its two runs.    *)
Contents(h) ==
  LET d == dq[h]
  IN  [i \in 1 .. d.len |->
         IF d.head + d.len <= d.cap THEN ElemAt(d, mem, i - 1) ELSE CopyToSpan(d, mem)[i - 1]]

(* The objects behind the handles, as their callers see them.              *)
Objs ==
  [h \in Handles |->
     IF Alive(h) THEN [al |-> dq[h].al, elems |-> Contents(h)] ELSE Null]

(* The ring is a sequence container: every call does to the contents what  *)
(* its header says, to no other object anything, and a refused call does   *)
(* nothing.                                                                *)
S == INSTANCE SeqStore WITH objs <- Objs

ImplementsSeqStore == S!SeqSpec
=============================================================================
