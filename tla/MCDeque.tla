------------------------------ MODULE MCDeque -------------------------------
(***************************************************************************)
(* Deque on small instances, with room for the long shifts.                *)
(***************************************************************************)
EXTENDS Deque, TLC

SE == INSTANCE SequencesExt

(* Arrays a caller hands over, and lengths asked for. 11 elems of 3 bytes  *)
(* are more than a size_t of 0 .. 31 counts.                               *)
MCInputs  == SE!BoundedSeq(Vals, 3)
MCCounts  == {0, 1, 3, 5, 11}
MCRooms   == {0, 3, 9, 15}

Symm == Permutations(Vals)

(* States that differ in the last answer, in slots outside the contents or *)
(* in the addresses of blocks go on alike, and are taken for one.          *)
SeenElem(d, i) ==
  LET cells == IF mem[d.data] = Null THEN <<>> ELSE mem[d.data].cells
      at    == SlotOf(d, i)
  IN  IF at \in DOMAIN cells THEN cells[at] ELSE Null

Seen(h) ==
  LET d == dq[h]
  IN  IF ~Alive(h) THEN Null
      ELSE <<[d EXCEPT !.data = (@ = Null)], [i \in 0 .. d.len - 1 |-> SeenElem(d, i)]>>

LentOf(a, n) == Cardinality({b \in Blocks : mem[b] # Null /\ mem[b].al = a /\ mem[b].bytes = n})

View ==
  <<[h \in Handles |-> Seen(h)], hdrs, [a \in Als, n \in 1 .. SizeMax |-> LentOf(a, n)]>>

=============================================================================
