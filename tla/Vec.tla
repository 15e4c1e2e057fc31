--------------------------------- MODULE Vec ---------------------------------
(***************************************************************************)
(* ds/vec: a growable run of elems over one block of an allocator.         *)
(*                                                                         *)
(* What the code's functions do to a vec is written as operators from a    *)
(* struct and a memory to a result, [st, d, m]: the status, the struct and *)
(* the memory they leave. Stack and PQueue, which own a vec, build on the  *)
(* same operators. "hdr" is how many headers the allocator would lend      *)
(* during a call, "room" its largest block.                                *)
(*                                                                         *)
(* A definition named after another one with a suffix (Reserve_..., ...)   *)
(* is that one with a slip in it, there for a property to notice.          *)
(***************************************************************************)
EXTENDS Memory

CONSTANTS
  Handles,  \* object variables of the calling program
  Vals,     \* elems a caller stores
  Zero,     \* the elem memset leaves
  Inputs,   \* arrays of elems a caller hands over
  Counts,   \* lengths and capacities a caller asks for
  ElemSize  \* bytes of one elem

ASSUME VecAssumption ==
  /\ Inputs \subseteq Seq(Vals)
  /\ Counts \subseteq Nat
  /\ ElemSize \in Nat \ {0}
  /\ Junk \notin Vals \cup {Zero}

VARIABLES
  vec,     \* handle -> the struct tda_Vec behind it, or Null
  mem,     \* what is lent
  status   \* what the last call answered

vecVars == <<vec, mem, status>>

Vecs == [data : Blocks \cup {Null}, len : Nat, cap : Nat, al : Als]

VecAlive(h) == vec[h] # Null

Result(st, d, m) == [st |-> st, d |-> d, m |-> m]

CapBytes(d) == d.cap * ElemSize
LenBytes(d) == d.len * ElemSize

CellsOf(d, m) == IF d.data = Null THEN Raw(0) ELSE m.lent[d.data].cells

SetCells(d, m, cells) ==
  IF d.data = Null THEN m ELSE [m EXCEPT !.lent[d.data].cells = cells]

(* What data, get, front and back lead to; as a sequence, to_span.         *)
ElemAt(d, m, i) == CellsOf(d, m)[i]
ToSpan(d, m)    == [i \in 1 .. d.len |-> ElemAt(d, m, i - 1)]

(* memcpy of the elems of s to the places from idx on.                     *)
Written(cells, idx, s) ==
  [i \in DOMAIN cells |-> IF i - idx + 1 \in DOMAIN s THEN s[i - idx + 1] ELSE cells[i]]

(* memmove of n elems from one place to another.                           *)
Moved(cells, to, from, n) ==
  [i \in DOMAIN cells |-> IF i \in to .. to + n - 1 THEN cells[from + (i - to)] ELSE cells[i]]

-----------------------------------------------------------------------------
(* Room.                                                                   *)

NextCap(d) ==
  IF d.cap = 0 THEN 1 ELSE IF Overflows(d.cap, 2) THEN SizeMax ELSE d.cap * 2

Reserve(d, m, n, room) ==
  LET new == Realloc(m, d.data, CapBytes(d), d.al, n, ElemSize, room)
  IN  IF n <= d.cap THEN Result(OK, d, m)
      ELSE IF Overflows(n, ElemSize) \/ new.b = Null THEN Result(NoMem, d, m)
      ELSE Result(OK, [d EXCEPT !.data = new.b, !.cap = n], new.m)

(* The eager request first; the exact one when it is refused.              *)
Grow(d, m, room) ==
  LET eager == Reserve(d, m, NextCap(d), room)
  IN  IF d.cap = SizeMax THEN Result(NoMem, d, m)
      ELSE IF eager.st = OK \/ NextCap(d) <= d.cap + 1 THEN eager
      ELSE Reserve(d, m, d.cap + 1, room)

ReserveOne(d, m, room) == IF d.len = d.cap THEN Grow(d, m, room) ELSE Result(OK, d, m)

ReserveFor(d, m, n, room) ==
  LET eager == Reserve(d, m, NextCap(d), room)
  IN  IF NextCap(d) > n /\ eager.st = OK THEN eager ELSE Reserve(d, m, n, room)

Released(d, m) ==
  Result(OK, [d EXCEPT !.data = Null, !.len = 0, !.cap = 0],
         GiveBack(m, d.data, d.al, CapBytes(d)))

-----------------------------------------------------------------------------
(* Birth and death.                                                        *)

NewStruct(a, len, cap, b) == [data |-> b, len |-> len, cap |-> cap, al |-> a]

(* The header first, then the block; a refused block returns the header.   *)
NewImpl(m, a, len, cap, hdr, room) ==
  LET t   == TakeHdr(m, a, "vec")
      blk == IF cap = 0 THEN Answer(Null, t) ELSE Alloc(t, a, cap, ElemSize, room)
  IN  IF hdr = 0 THEN Result(NoMem, Null, m)
      ELSE IF cap > 0 /\ (Overflows(cap, ElemSize) \/ blk.b = Null)
      THEN Result(NoMem, Null, ReturnHdr(t, a, "vec"))
      ELSE Result(OK, NewStruct(a, len, cap, blk.b), blk.m)

Filled(r, s) ==
  IF r.st = NoMem THEN r
  ELSE Result(OK, r.d, SetCells(r.d, r.m, Written(CellsOf(r.d, r.m), 0, s)))

FromData(m, a, s, hdr, room) == Filled(NewImpl(m, a, Len(s), Len(s), hdr, room), s)

NewLen(m, a, n, hdr, room) ==
  Filled(NewImpl(m, a, n, n, hdr, room), [i \in 1 .. n |-> Zero])

CopyWith(d, m, a, hdr, room) == FromData(m, a, ToSpan(d, m), hdr, room)

Dropped(d, m) == ReturnHdr(GiveBack(m, d.data, d.al, CapBytes(d)), d.al, "vec")

-----------------------------------------------------------------------------
(* Assignment.                                                             *)

(* copy_assign: e takes the elems of d.                                    *)
CopyAssigned(d, e, m, room) ==
  LET r == Reserve(e, m, d.len, room)
  IN  IF r.st = NoMem THEN r
      ELSE Result(OK, [r.d EXCEPT !.len = d.len],
                  SetCells(r.d, r.m, Written(CellsOf(r.d, r.m), 0, ToSpan(d, m))))

(* move_assign, [st, d, e, m]: with one allocator the structs change       *)
(* places; with two, a copy takes the place of e and carries it away. What *)
(* the source is left with is released.                                    *)
MoveAssigned(d, e, m, hdr, room) ==
  LET copy == CopyWith(d, m, e.al, hdr, room)
      from == IF d.al = e.al THEN Released(e, m) ELSE Released(d, Dropped(e, copy.m))
  IN  IF d.al # e.al /\ copy.st = NoMem
      THEN [st |-> NoMem, d |-> d, e |-> e, m |-> copy.m]
      ELSE [st |-> OK, d |-> from.d, e |-> IF d.al = e.al THEN d ELSE copy.d, m |-> from.m]

-----------------------------------------------------------------------------
(* Elems.                                                                  *)

(* insert: room, the tail moved up, the elem written.                      *)
Inserted(d, m, idx, v, room) ==
  LET r == ReserveOne(d, m, room)
      up == Moved(CellsOf(r.d, r.m), idx + 1, idx, d.len - idx)
  IN  IF r.st = NoMem THEN r
      ELSE Result(OK, [r.d EXCEPT !.len = @ + 1], SetCells(r.d, r.m, Written(up, idx, <<v>>)))

Pushed(d, m, v, room) ==
  LET r == ReserveOne(d, m, room)
  IN  IF r.st = NoMem THEN r
      ELSE Result(OK, [r.d EXCEPT !.len = @ + 1],
                  SetCells(r.d, r.m, Written(CellsOf(r.d, r.m), r.d.len, <<v>>)))

Popped(d, m) == Result(OK, [d EXCEPT !.len = @ - 1], m)

InsertedSpan_TailStays(d, m, idx, s, room) ==
  LET r == IF d.len + Len(s) > d.cap THEN ReserveFor(d, m, d.len + Len(s), room) ELSE Result(OK, d, m)
  IN  IF s = <<>> THEN Result(OK, d, m)
      ELSE IF Overflows(d.len + Len(s), 1) \/ r.st = NoMem THEN Result(NoMem, d, m)
      ELSE Result(OK, [r.d EXCEPT !.len = d.len + Len(s)],
                  SetCells(r.d, r.m, Moved(Written(CellsOf(r.d, r.m), idx, s), idx + Len(s), idx, d.len - idx)))

(* extend and insert_span: the tail moves up before the run is written.    *)
InsertedSpan(d, m, idx, s, room) ==
  LET r  == IF d.len + Len(s) > d.cap THEN ReserveFor(d, m, d.len + Len(s), room) ELSE Result(OK, d, m)
      up == Moved(CellsOf(r.d, r.m), idx + Len(s), idx, d.len - idx)
  IN  IF s = <<>> THEN Result(OK, d, m)
      ELSE IF Overflows(d.len + Len(s), 1) \/ r.st = NoMem THEN Result(NoMem, d, m)
      ELSE Result(OK, [r.d EXCEPT !.len = d.len + Len(s)], SetCells(r.d, r.m, Written(up, idx, s)))

(* remove is remove_range of one elem.                                     *)
RemovedRange(d, m, idx, n) ==
  Result(OK, [d EXCEPT !.len = @ - n],
         SetCells(d, m, Moved(CellsOf(d, m), idx, idx + n, d.len - idx - n)))

Shrunk(d, m, room) ==
  LET new == Realloc(m, d.data, CapBytes(d), d.al, d.len, ElemSize, room)
  IN  IF d.len = d.cap THEN Result(OK, d, m)
      ELSE IF d.len = 0 THEN Released(d, m)
      ELSE IF new.b = Null THEN Result(NoMem, d, m)
      ELSE Result(OK, [d EXCEPT !.data = new.b, !.cap = d.len], new.m)

Resized(d, m, n, room) ==
  LET r == IF n > d.cap THEN ReserveFor(d, m, n, room) ELSE Result(OK, d, m)
  IN  IF n <= d.len THEN Result(OK, [d EXCEPT !.len = n], m)
      ELSE IF r.st = NoMem THEN r
      ELSE Result(OK, [r.d EXCEPT !.len = n],
                  SetCells(r.d, r.m, Written(CellsOf(r.d, r.m), d.len, [i \in 1 .. n - d.len |-> Zero])))

-----------------------------------------------------------------------------
(* The calls.                                                              *)

Commit(h, r) ==
  /\ vec' = [vec EXCEPT ![h] = r.d]
  /\ mem' = r.m
  /\ status' = r.st

Nothing ==
  /\ status' = OK
  /\ UNCHANGED <<vec, mem>>

(* A constructor, which writes to "out" only when nothing was refused.     *)
Birth(g, r) == ~VecAlive(g) /\ Commit(g, r)

BirthStep(g, hdr, room) ==
  \E a \in Als :
    \/ Birth(g, NewImpl(mem, a, 0, 0, hdr, room))
    \/ \E n \in Counts : Birth(g, NewLen(mem, a, n, hdr, room)) \/ Birth(g, NewImpl(mem, a, 0, n, hdr, room))
    \/ \E s \in Inputs : Birth(g, FromData(mem, a, s, hdr, room))
    \/ \E h \in Handles : VecAlive(h) /\ Birth(g, CopyWith(vec[h], mem, a, hdr, room))

Drop(h) ==
  /\ VecAlive(h)
  /\ Commit(h, Result(OK, Null, Dropped(vec[h], mem)))

CopyAssign(h, g, room) ==
  /\ VecAlive(h) /\ VecAlive(g)
  /\ \/ h = g /\ Nothing
     \/ h # g /\ Commit(g, CopyAssigned(vec[h], vec[g], mem, room))

MoveAssign(h, g, hdr, room) ==
  LET r == MoveAssigned(vec[h], vec[g], mem, hdr, room)
  IN  /\ VecAlive(h) /\ VecAlive(g)
      /\ \/ h = g /\ Nothing
         \/ /\ h # g
            /\ vec' = [vec EXCEPT ![h] = r.d, ![g] = r.e]
            /\ mem' = r.m
            /\ status' = r.st

(* Both of one allocator, as the caller answers for.                       *)
Swap(h, g) ==
  /\ VecAlive(h) /\ VecAlive(g)
  /\ vec[h].al = vec[g].al
  /\ vec' = [vec EXCEPT ![h] = vec[g], ![g] = vec[h]]
  /\ status' = OK
  /\ UNCHANGED mem

(* eq and eq_by over the spans of two: lengths first, then elem by elem,   *)
(* under an equality that cannot tell the elems of "alike" apart; that of  *)
(* eq has none such.                                                       *)
SameElems(s, t, alike) ==
  /\ Len(s) = Len(t)
  /\ \A i \in DOMAIN s : s[i] = t[i] \/ {s[i], t[i]} \subseteq alike

Compare(h, g, alike) ==
  /\ VecAlive(h) /\ VecAlive(g)
  /\ status' = SameElems(ToSpan(vec[h], mem), ToSpan(vec[g], mem), alike)
  /\ UNCHANGED <<vec, mem>>

PairStep(h, g, hdr, room) ==
  \/ CopyAssign(h, g, room)
  \/ MoveAssign(h, g, hdr, room)
  \/ Swap(h, g)
  \/ \E alike \in {{}, Vals \cup {Zero}} : Compare(h, g, alike)

(* set, and a store through a pointer from get_mut, front_mut or data_mut. *)
SetElem(h, i, v) ==
  Commit(h, Result(OK, vec[h], SetCells(vec[h], mem, Written(CellsOf(vec[h], mem), i, <<v>>))))

SwapElems(h, i, j) ==
  LET c == CellsOf(vec[h], mem)
  IN  Commit(h, Result(OK, vec[h], SetCells(vec[h], mem, [c EXCEPT ![i] = c[j], ![j] = c[i]])))

Push(h, v, room)    == VecAlive(h) /\ Commit(h, Pushed(vec[h], mem, v, room))
Pop(h)              == VecAlive(h) /\ vec[h].len > 0 /\ Commit(h, Popped(vec[h], mem))
Clear(h)            == VecAlive(h) /\ Commit(h, Result(OK, [vec[h] EXCEPT !.len = 0], mem))
ReserveCap(h, n, room) == VecAlive(h) /\ Commit(h, Reserve(vec[h], mem, n, room))
ShrinkToFit(h, room) == VecAlive(h) /\ Commit(h, Shrunk(vec[h], mem, room))
Resize(h, n, room)  == VecAlive(h) /\ Commit(h, Resized(vec[h], mem, n, room))

(* Calls at a place of the contents, or at the one behind them.            *)
PlaceStep(h, i, room) ==
  \/ \E v \in Vals : Commit(h, Inserted(vec[h], mem, i, v, room))
  \/ \E s \in Inputs : Commit(h, InsertedSpan(vec[h], mem, i, s, room))
  \/ \E n \in 0 .. vec[h].len - i : Commit(h, RemovedRange(vec[h], mem, i, n))
  \/ /\ i < vec[h].len
     /\ \/ \E v \in Vals : SetElem(h, i, v)
        \/ \E j \in 0 .. vec[h].len - 1 : SwapElems(h, i, j)

ElemStep(h, room, places) ==
  \/ \E v \in Vals : Push(h, v, room)
  \/ Pop(h)
  \/ Clear(h)
  \/ ShrinkToFit(h, room)
  \/ \E n \in Counts : ReserveCap(h, n, room) \/ Resize(h, n, room)
  \/ VecAlive(h) /\ \E i \in places \cap (0 .. vec[h].len) : PlaceStep(h, i, room)

VecInit ==
  /\ vec = [h \in Handles |-> Null]
  /\ mem = Empty
  /\ status = OK

(* Objects of H, the largest blocks that may be lent during a call, and the*)
(* places a caller gets at.                                                *)
VecStep(H, rooms, places) ==
  \E h \in H :
    \/ Drop(h)
    \/ \E room \in rooms :
         \/ ElemStep(h, room, places)
         \/ \E hdr \in 0 .. 1 :
              \/ BirthStep(h, hdr, room)
              \/ \E g \in H : PairStep(h, g, hdr, room)

-----------------------------------------------------------------------------
(* What ASSERT_VEC asserts, and that the block is the vec's own, lent by   *)
(* the allocator and at the size it will go back with.                     *)
VecSound(d, m) ==
  /\ d.len <= d.cap
  /\ d.cap = 0 <=> d.data = Null
  /\ d.cap > 0 => IsLent(m, d.data, d.al, d.cap, ElemSize)
=============================================================================
