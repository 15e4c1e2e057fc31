--------------------------------- MODULE Arr ---------------------------------
(***************************************************************************)
(* ds/arr: a run of elems as long as its block, which only an assignment   *)
(* or its end ever changes the length of. Written with Vec's operators on  *)
(* cells; "bytes" in the code is the length times ElemSize.                *)
(***************************************************************************)
EXTENDS Vec

VARIABLE arr  \* handle -> the struct tda_Arr behind it, or Null

arrVars == <<arr, mem, status>>

Arrs == [data : Blocks \cup {Null}, len : Nat, al : Als]

ArrAlive(h) == arr[h] # Null

(* new_impl: the header, then a block, zeroed or not, when there are elems.*)
ArrImpl(m, a, n, zeroed, hdr, room) ==
  LET t   == TakeHdr(m, a, "arr")
      blk == IF zeroed THEN Calloc(t, a, n, ElemSize, room, Zero) ELSE Alloc(t, a, n, ElemSize, room)
  IN  IF hdr = 0 THEN Result(NoMem, Null, m)
      ELSE IF n > 0 /\ (Overflows(n, ElemSize) \/ blk.b = Null)
      THEN Result(NoMem, Null, ReturnHdr(t, a, "arr"))
      ELSE Result(OK, [data |-> blk.b, len |-> n, al |-> a], blk.m)

ArrFromData(m, a, s, hdr, room) == Filled(ArrImpl(m, a, Len(s), FALSE, hdr, room), s)

ArrCopyWith(d, m, a, hdr, room) == ArrFromData(m, a, ToSpan(d, m), hdr, room)

ArrReleased(d, m) ==
  Result(OK, [d EXCEPT !.data = Null, !.len = 0], GiveBack(m, d.data, d.al, LenBytes(d)))

ArrDropped(d, m) == ReturnHdr(GiveBack(m, d.data, d.al, LenBytes(d)), d.al, "arr")

(* Between two lengths the block is reallocated, and null is an answer     *)
(* when there is nothing to hold any more.                                 *)
ArrCopyAssigned(d, e, m, room) ==
  LET new == Realloc(m, e.data, LenBytes(e), e.al, d.len, ElemSize, room)
      r   == IF d.len = e.len THEN Result(OK, e, m)
             ELSE IF d.len > 0 /\ new.b = Null THEN Result(NoMem, e, new.m)
             ELSE Result(OK, [e EXCEPT !.data = new.b, !.len = d.len], new.m)
  IN  Filled(r, ToSpan(d, m))

ArrMoveAssigned(d, e, m, hdr, room) ==
  LET copy == ArrCopyWith(d, m, e.al, hdr, room)
      from == IF d.al = e.al THEN ArrReleased(e, m) ELSE ArrReleased(d, ArrDropped(e, copy.m))
  IN  IF d.al # e.al /\ copy.st = NoMem
      THEN [st |-> NoMem, d |-> d, e |-> e, m |-> copy.m]
      ELSE [st |-> OK, d |-> from.d, e |-> IF d.al = e.al THEN d ELSE copy.d, m |-> from.m]

-----------------------------------------------------------------------------
CommitArr(h, r) ==
  /\ arr' = [arr EXCEPT ![h] = r.d]
  /\ mem' = r.m
  /\ status' = r.st

ArrBirth(g, r) == ~ArrAlive(g) /\ CommitArr(g, r)

ArrBirthStep(g, hdr, room) ==
  \E a \in Als :
    \/ \E n \in Counts : ArrBirth(g, ArrImpl(mem, a, n, TRUE, hdr, room))
    \/ \E s \in Inputs : ArrBirth(g, ArrFromData(mem, a, s, hdr, room))
    \/ \E h \in Handles : ArrAlive(h) /\ ArrBirth(g, ArrCopyWith(arr[h], mem, a, hdr, room))

ArrDrop(h) == ArrAlive(h) /\ CommitArr(h, Result(OK, Null, ArrDropped(arr[h], mem)))

ArrCopyAssign(h, g, room) ==
  /\ ArrAlive(h) /\ ArrAlive(g)
  /\ CommitArr(g, IF h = g THEN Result(OK, arr[g], mem) ELSE ArrCopyAssigned(arr[h], arr[g], mem, room))

ArrMoveAssign(h, g, hdr, room) ==
  LET r == IF h = g THEN [st |-> OK, d |-> arr[g], e |-> arr[g], m |-> mem]
           ELSE ArrMoveAssigned(arr[h], arr[g], mem, hdr, room)
  IN  /\ ArrAlive(h) /\ ArrAlive(g)
      /\ arr' = [arr EXCEPT ![h] = r.d, ![g] = r.e]
      /\ mem' = r.m
      /\ status' = r.st

ArrSwap(h, g) ==
  /\ ArrAlive(h) /\ ArrAlive(g)
  /\ arr[h].al = arr[g].al
  /\ arr' = [arr EXCEPT ![h] = arr[g], ![g] = arr[h]]
  /\ status' = OK
  /\ UNCHANGED mem

ArrCompare(h, g, alike) ==
  /\ ArrAlive(h) /\ ArrAlive(g)
  /\ status' = SameElems(ToSpan(arr[h], mem), ToSpan(arr[g], mem), alike)
  /\ UNCHANGED <<arr, mem>>

(* set, and a store through get_mut, front_mut, back_mut or data_mut.      *)
ArrElemStep(h, i, v) ==
  CommitArr(h, Result(OK, arr[h], SetCells(arr[h], mem, Written(CellsOf(arr[h], mem), i, <<v>>))))

ArrSwapElems(h, i, j) ==
  LET c == CellsOf(arr[h], mem)
  IN  CommitArr(h, Result(OK, arr[h], SetCells(arr[h], mem, [c EXCEPT ![i] = c[j], ![j] = c[i]])))

ArrStep(H, rooms) ==
  \E h \in H :
    \/ ArrDrop(h)
    \/ /\ ArrAlive(h)
       /\ \E i \in 0 .. arr[h].len - 1 :
            \/ \E v \in Vals : ArrElemStep(h, i, v)
            \/ \E j \in 0 .. arr[h].len - 1 : ArrSwapElems(h, i, j)
    \/ \E g \in H : ArrSwap(h, g) \/ \E alike \in {{}, Vals \cup {Zero}} : ArrCompare(h, g, alike)
    \/ \E room \in rooms, hdr \in 0 .. 1 :
         \/ ArrBirthStep(h, hdr, room)
         \/ \E g \in H : ArrCopyAssign(h, g, room) \/ ArrMoveAssign(h, g, hdr, room)

ArrSound(d, m) ==
  /\ d.len = 0 <=> d.data = Null
  /\ d.len > 0 => IsLent(m, d.data, d.al, d.len, ElemSize)
=============================================================================
