------------------------------- MODULE Memory -------------------------------
(***************************************************************************)
(* alloc/alloc.c as the containers over one block use it: tda_alloc,       *)
(* tda_calloc, tda_realloc and tda_dealloc on tables that may refuse any   *)
(* request, as operators on a value that says what is lent at the moment.  *)
(*                                                                         *)
(* A memory is [lent, hdrs]: what is lent at each address (by whom, at how *)
(* many bytes, with which cells) and how many header structs of each kind  *)
(* each allocator has lent. "room" is the size of the largest block that   *)
(* would be lent at the moment, "n" and "size" a number of cells and their *)
(* bytes. A realloc always moves: a block that grows in place is the case  *)
(* in which a pointer that was not updated does no harm.                   *)
(***************************************************************************)
EXTENDS Integers, Sequences, FiniteSets

CONSTANTS
  Als,      \* allocators
  Blocks,   \* addresses of blocks
  Lends,    \* the address that is lent next when those of a set are free
  Kinds,    \* kinds of header structs
  Junk,     \* what a block holds before anyone writes to it
  Null,
  OK, NoMem,
  SizeMax   \* SIZE_MAX

ASSUME MemoryAssumption ==
  /\ \A S \in SUBSET Blocks : S # {} => Lends[S] \in S
  /\ Null \notin Blocks
  /\ OK # NoMem
  /\ SizeMax \in Nat

Empty == [lent |-> [b \in Blocks |-> Null], hdrs |-> [p \in Als \X Kinds |-> 0]]

FreeOf(m) == {b \in Blocks : m.lent[b] = Null}

Raw(n) == [i \in 0 .. n - 1 |-> Junk]

(* ckd_mul of a number of cells and their size.                            *)
Overflows(n, size) == n * size > SizeMax

Granted(m, bytes, room) == 0 < bytes /\ bytes <= room /\ FreeOf(m) # {}

(* The answer of a call that asked for a block: its address and the memory.*)
Answer(b, m) == [b |-> b, m |-> m]

Lend(m, a, bytes, cells) ==
  LET b == Lends[FreeOf(m)]
  IN  Answer(b, [m EXCEPT !.lent[b] = [al |-> a, bytes |-> bytes, cells |-> cells]])

(* tda_alloc of n cells, whose product the caller has checked.             *)
Alloc(m, a, n, size, room) ==
  IF Granted(m, n * size, room) THEN Lend(m, a, n * size, Raw(n)) ELSE Answer(Null, m)

(* tda_calloc checks the product itself.                                   *)
Calloc(m, a, n, size, room, zero) ==
  IF Overflows(n, size) \/ ~Granted(m, n * size, room) THEN Answer(Null, m)
  ELSE Lend(m, a, n * size, [i \in 0 .. n - 1 |-> zero])

(* tda_dealloc: null is a no-op. A block that goes back to another         *)
(* allocator or at another size stays in the books.                        *)
GiveBack(m, b, a, bytes) ==
  IF b # Null /\ m.lent[b] # Null /\ m.lent[b].al = a /\ m.lent[b].bytes = bytes
  THEN [m EXCEPT !.lent[b] = Null]
  ELSE m

(* tda_realloc from a block of "old" bytes to one of n cells: of nothing   *)
(* it is an alloc, to nothing a dealloc; a refusal leaves the block alone. *)
Realloc(m, b, old, a, n, size, room) ==
  LET kept  == IF b = Null THEN Raw(0) ELSE m.lent[b].cells
      cells == [i \in 0 .. n - 1 |-> IF i \in DOMAIN kept THEN kept[i] ELSE Junk]
      new   == Lend(m, a, n * size, cells)
  IN  IF n * size = 0 THEN Answer(Null, GiveBack(m, b, a, old))
      ELSE IF ~Granted(m, n * size, room) THEN Answer(Null, m)
      ELSE Answer(new.b, GiveBack(new.m, b, a, old))

TakeHdr(m, a, kind)   == [m EXCEPT !.hdrs[<<a, kind>>] = @ + 1]
ReturnHdr(m, a, kind) == [m EXCEPT !.hdrs[<<a, kind>>] = @ - 1]

(* A block as its owner remembers it.                                      *)
IsLent(m, b, a, n, size) ==
  /\ b # Null
  /\ m.lent[b] # Null
  /\ m.lent[b].al = a
  /\ m.lent[b].bytes = n * size
  /\ DOMAIN m.lent[b].cells = 0 .. n - 1
=============================================================================
