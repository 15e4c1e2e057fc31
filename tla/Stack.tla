-------------------------------- MODULE Stack --------------------------------
(***************************************************************************)
(* ds/stack: a header of its own around a vec, whose calls it forwards.    *)
(*                                                                         *)
(* The vec pointer of a stack is written once, by wrap, so that a stack    *)
(* and its vec go by one handle: "stk" is the handles whose vec belongs to *)
(* a stack. A vec that left its stack (into_vec) is the program's own.     *)
(***************************************************************************)
EXTENDS Vec

VARIABLE stk  \* the handles of stacks

stackVars == <<stk, vecVars>>

Wrapped_KeepsVec(r, kind, hdr) ==
  IF r.st = NoMem THEN r
  ELSE IF hdr < 2 THEN Result(NoMem, Null, r.m)
  ELSE Result(OK, r.d, TakeHdr(r.m, r.d.al, kind))

(* wrap: when the second header is refused the vec is dropped.             *)
Wrapped(r, kind, hdr) ==
  IF r.st = NoMem THEN r
  ELSE IF hdr < 2 THEN Result(NoMem, Null, Dropped(r.d, r.m))
  ELSE Result(OK, r.d, TakeHdr(r.m, r.d.al, kind))

StackBirth(g, r, hdr) ==
  /\ Birth(g, Wrapped(r, "stack", hdr))
  /\ stk' = IF status' = OK THEN stk \cup {g} ELSE stk

StackBirthStep(g, hdr, room) ==
  \E a \in Als :
    \/ StackBirth(g, NewImpl(mem, a, 0, 0, hdr, room), hdr)
    \/ \E n \in Counts : StackBirth(g, NewImpl(mem, a, 0, n, hdr, room), hdr)
    \/ \E s \in Inputs : StackBirth(g, FromData(mem, a, s, hdr, room), hdr)
    \/ \E h \in stk : StackBirth(g, CopyWith(vec[h], mem, a, hdr, room), hdr)

(* The allocator is read before the vec, which knows it, is dropped.       *)
StackDrop(h) ==
  /\ h \in stk
  /\ Commit(h, Result(OK, Null, ReturnHdr(Dropped(vec[h], mem), vec[h].al, "stack")))
  /\ stk' = stk \ {h}

IntoVec(h) ==
  /\ h \in stk
  /\ Commit(h, Result(OK, vec[h], ReturnHdr(mem, vec[h].al, "stack")))
  /\ stk' = stk \ {h}

(* What top leads to may be written through top_mut.                       *)
StackForwards(h, room) ==
  /\ h \in stk
  /\ UNCHANGED stk
  /\ \/ \E v \in Vals : Push(h, v, room)
     \/ Pop(h)
     \/ \E v \in Vals : vec[h].len > 0 /\ SetElem(h, vec[h].len - 1, v)
     \/ Clear(h)
     \/ \E n \in Counts : ReserveCap(h, n, room)
     \/ ShrinkToFit(h, room)

StackPairStep(h, g, hdr, room) ==
  /\ {h, g} \subseteq stk
  /\ PairStep(h, g, hdr, room)
  /\ UNCHANGED stk

StackStep(H, rooms) ==
  \E h \in H :
    \/ StackDrop(h)
    \/ IntoVec(h)
    \/ h \notin stk /\ Drop(h) /\ UNCHANGED stk
    \/ \E room \in rooms :
         \/ StackForwards(h, room)
         \/ \E hdr \in 0 .. 2 :
              \/ StackBirthStep(h, hdr, room)
              \/ \E g \in H : StackPairStep(h, g, hdr, room)
=============================================================================
