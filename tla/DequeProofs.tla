---------------------------- MODULE DequeProofs -----------------------------
(***************************************************************************)
(* What MCDeque checks of the structs and the blocks of a few deques, for  *)
(* any number of deques, allocators and blocks of any size.                *)
(*                                                                         *)
(* The argument is about one struct at a time. Every call of one deque     *)
(* exchanges the struct and the block it had for the ones it has after     *)
(* it, and touches no other block (Exchanges); the deques together stay    *)
(* sound when one of them is exchanged, born or dropped, or two change     *)
(* places.                                                                 *)
(*                                                                         *)
(* Deque implements SeqStore by the same argument. No other deque reads    *)
(* the block a call exchanges, so the others read what they read before,   *)
(* and what this one reads is a matter of slots: which slots of its ring   *)
(* the call wrote, and whose they are afterwards.                          *)
(*                                                                         *)
(* That a shift is written as one step, though the code moves one elem     *)
(* after another, is justified at the end: the loops leave the same.       *)
(***************************************************************************)
EXTENDS Deque, FiniteSetTheorems, SequenceTheorems, WellFoundedInduction, TLAPS

(* What a block of the deque d holds, and by whom it was lent.             *)
BlockOf(d) ==
  [al : {d.al}, bytes : {CapBytes(d)}, cells : [0 .. d.cap - 1 -> Cells]]

(* RingOK, the block, and one thing more: a block is at most half of what  *)
(* a size_t counts, which is what keeps head + cap within it.              *)
StructOK(d, m) ==
  /\ d \in Deques
  /\ d.len <= d.cap
  /\ d.cap = 0 <=> d.data = Null
  /\ d.cap = 0 => d.head = 0
  /\ d.cap > 0 => d.head < d.cap
  /\ CapBytes(d) <= SizeMax \div 2
  /\ d.cap > 0 => m[d.data] \in BlockOf(d)

IsMemory(m) == m = [b \in Blocks |-> m[b]]

(* The structs D and the blocks m fit together: every struct has its own   *)
(* block, and there are no other blocks.                                   *)
Sound(D, m) ==
  /\ D \in [Handles -> Deques \cup {Null}]
  /\ IsMemory(m)
  /\ \A h \in Handles : D[h] # Null => StructOK(D[h], m)
  /\ \A h, g \in Handles :
       h # g /\ D[h] # Null /\ D[g] # Null /\ D[h].data # Null => D[h].data # D[g].data
  /\ \A b \in Blocks : m[b] # Null => \E h \in Handles : D[h] # Null /\ D[h].data = b

Live(D, a) == {h \in Handles : D[h] # Null /\ D[h].al = a}

HeadersCounted(D, H) ==
  /\ H \in [Als -> Nat]
  /\ \A a \in Als : IsFiniteSet(Live(D, a)) /\ H[a] = Cardinality(Live(D, a))

(* The inductive invariant. RingInv and EveryBlockIsOwned do not stand     *)
(* alone: that a growth leaves a well-formed ring needs the bound on the   *)
(* block, that its copy is of cells needs the block to be the struct's,    *)
(* and that a fresh block is nobody else's needs every lent one to be      *)
(* somebody's.                                                             *)
IInv ==
  /\ Sound(dq, mem)
  /\ HeadersCounted(dq, hdrs)
  /\ status \in Answers

-----------------------------------------------------------------------------
(* Arithmetic the provers do not find by themselves.                       *)

(* n elems are at least n bytes.                                           *)
LEMMA CapWithinBytes ==
  ASSUME NEW n \in Nat
  PROVE  /\ n * ElemSize \in Nat
         /\ n <= n * ElemSize
         /\ n > 0 => n * ElemSize > 0
<1>1. PICK e \in Nat : ElemSize = e + 1
  BY DequeAssumption
<1>2. n * ElemSize = n * e + n /\ n * e \in Nat
  BY <1>1
<1>3. QED
  BY <1>2

(* More elems are more bytes.                                              *)
LEMMA BytesInOrder ==
  ASSUME NEW n \in Nat, NEW k \in Nat, n <= k
  PROVE  n * ElemSize <= k * ElemSize
<1>1. PICK j \in Nat : k = n + j
  BY DequeAssumption
<1>2. k * ElemSize = n * ElemSize + j * ElemSize
  BY <1>1, DequeAssumption
<1>3. QED
  BY <1>2, CapWithinBytes

(* Two halves of the address space fit in it.                              *)
LEMMA HalfAndHalf ==
  /\ SizeMax \div 2 \in Nat
  /\ SizeMax \div 2 <= SizeMax
  /\ (SizeMax \div 2) + (SizeMax \div 2) <= SizeMax
  BY DequeAssumption

(* The record a deque's block is, told from Null.                          *)
LEMMA BlockIsNotNull ==
  ASSUME NEW d \in Deques, CapBytes(d) <= SizeMax, NEW x \in BlockOf(d)
  PROVE  x # Null /\ x \in LentBlock(d.cap) /\ d.cap \in 0 .. SizeMax
<1>1. d.cap \in Nat /\ d.al \in Als
  BY DEF Deques
<1>2. d.cap \in 0 .. SizeMax
  BY <1>1, CapWithinBytes, DequeAssumption DEF CapBytes
<1>3. x \in LentBlock(d.cap)
  BY <1>1 DEF BlockOf, LentBlock, CapBytes
<1>4. QED
  BY <1>2, <1>3, NullAssumption

(* What StructOK says of the fields, and of the block when there is one.   *)
LEMMA StructFacts ==
  ASSUME NEW d, NEW m, StructOK(d, m)
  PROVE  /\ d \in Deques /\ d # Null
         /\ d.len \in Nat /\ d.cap \in Nat /\ d.head \in Nat /\ d.al \in Als
         /\ d.data \in Blocks \cup {Null}
         /\ CapBytes(d) \in Nat
         /\ d.data # Null => /\ d.data \in Blocks /\ d.cap > 0
                             /\ m[d.data] \in BlockOf(d) /\ m[d.data] # Null
<1>1. d \in Deques /\ CapBytes(d) <= SizeMax \div 2
  BY DEF StructOK
<1>2. d.len \in Nat /\ d.cap \in Nat /\ d.head \in Nat /\ d.al \in Als /\ d.data \in Blocks \cup {Null}
  BY <1>1 DEF Deques
<1>3. CapBytes(d) \in Nat /\ CapBytes(d) <= SizeMax
  BY <1>1, <1>2, CapWithinBytes, HalfAndHalf, DequeAssumption DEF CapBytes
<1>4. d.data # Null => d.cap > 0 /\ m[d.data] \in BlockOf(d)
  BY <1>2 DEF StructOK
<1>5. QED
  BY <1>1, <1>2, <1>3, <1>4, BlockIsNotNull, NullAssumption

-----------------------------------------------------------------------------
(* One deque exchanges d0 and its block for d and its block.               *)
Exchanges(d0, m0, d, m) ==
  /\ IsMemory(m)
  /\ StructOK(d, m)
  /\ d.al = d0.al
  /\ \A b \in Blocks : b # d.data /\ b # d0.data => m[b] = m0[b]
  /\ d.data # d0.data =>
       /\ d.data # Null => m0[d.data] = Null
       /\ d0.data # Null => m[d0.data] = Null

(* A call on one deque leaves all of them sound.                           *)
LEMMA ExchangeIsSound ==
  ASSUME NEW D, NEW m0, Sound(D, m0), NEW h \in Handles, D[h] # Null,
         NEW d, NEW m, Exchanges(D[h], m0, d, m)
  PROVE  Sound([D EXCEPT ![h] = d], m)
<1>1. StructOK(d, m) /\ IsMemory(m) /\ d \in Deques /\ d # Null
      /\ d.data \in Blocks \cup {Null} /\ (d.data # Null => m[d.data] # Null)
  BY StructFacts DEF Exchanges
<1>2. PICK E \in [Handles -> Deques \cup {Null}] :
        /\ E = [D EXCEPT ![h] = d] /\ E[h] = d
        /\ \A g \in Handles : g # h => E[g] = D[g]
  <2>1. D \in [Handles -> Deques \cup {Null}]
    BY DEF Sound
  <2>2. [D EXCEPT ![h] = d] \in [Handles -> Deques \cup {Null}]
    BY <1>1, <2>1
  <2>3. QED
    BY <2>1, <2>2
<1>3. \A g \in Handles : D[g] # Null =>
        /\ StructOK(D[g], m0)
        /\ D[g].data \in Blocks \cup {Null}
        /\ D[g].data # Null => m0[D[g].data] # Null
  BY StructFacts DEF Sound
<1>4. \A g \in Handles : g # h /\ D[g] # Null /\ D[g].data # Null =>
        D[g].data # d.data /\ D[g].data # D[h].data /\ m[D[g].data] = m0[D[g].data]
  <2>1. TAKE g \in Handles
  <2>2. HAVE g # h /\ D[g] # Null /\ D[g].data # Null
  <2>3. D[g].data # D[h].data
    BY <2>2 DEF Sound
  <2>4. D[g].data # d.data
    BY <1>3, <2>2, <2>3 DEF Exchanges
  <2>5. QED
    BY <1>3, <2>2, <2>3, <2>4 DEF Exchanges
<1>5. ASSUME NEW g \in Handles, E[g] # Null
      PROVE  StructOK(E[g], m)
  <2>1. CASE g = h
    BY <1>1, <1>2, <2>1
  <2>2. CASE g # h
    <3>1. E[g] = D[g] /\ StructOK(D[g], m0)
      BY <1>2, <1>3, <1>5, <2>2
    <3>2. CASE D[g].data = Null
      BY <3>1, <3>2, StructFacts DEF StructOK
    <3>3. CASE D[g].data # Null
      BY <1>4, <1>5, <2>2, <3>1, <3>3 DEF StructOK
    <3>4. QED
      BY <3>2, <3>3
  <2>3. QED
    BY <2>1, <2>2
<1>6. \A f, g \in Handles :
        f # g /\ E[f] # Null /\ E[g] # Null /\ E[f].data # Null => E[f].data # E[g].data
  <2>1. TAKE f, g \in Handles
  <2>2. HAVE f # g /\ E[f] # Null /\ E[g] # Null /\ E[f].data # Null
  <2>3. CASE f = h
    BY <1>2, <1>4, <2>2, <2>3
  <2>4. CASE g = h
    BY <1>2, <1>4, <2>2, <2>4
  <2>5. CASE f # h /\ g # h
    BY <1>2, <2>2, <2>5 DEF Sound
  <2>6. QED
    BY <2>3, <2>4, <2>5
<1>7. ASSUME NEW b \in Blocks, m[b] # Null
      PROVE  \E g \in Handles : E[g] # Null /\ E[g].data = b
  <2>1. CASE b = d.data
    BY <1>1, <1>2, <2>1
  <2>2. CASE b # d.data
    <3>1. b # D[h].data
      BY <1>1, <1>7, <2>2, NullAssumption DEF Exchanges
    <3>2. m0[b] # Null
      BY <1>7, <2>2, <3>1 DEF Exchanges
    <3>3. PICK g \in Handles : D[g] # Null /\ D[g].data = b
      BY <3>2 DEF Sound
    <3>4. QED
      BY <1>2, <3>1, <3>3
  <2>3. QED
    BY <2>1, <2>2
<1>8. Sound(E, m)
  BY <1>1, <1>2, <1>5, <1>6, <1>7 DEF Sound
<1>9. QED
  BY <1>2, <1>8

-----------------------------------------------------------------------------
(* Blocks lent, given back and written to.                                 *)

(* A block lent changes one address.                                       *)
LEMMA Lending ==
  ASSUME NEW m, IsMemory(m), NEW b \in Blocks, NEW a, NEW bytes, NEW cells
  PROVE  /\ IsMemory(Lend(m, b, a, bytes, cells))
         /\ \A c \in Blocks : Lend(m, b, a, bytes, cells)[c] =
              IF c = b THEN [al |-> a, bytes |-> bytes, cells |-> cells] ELSE m[c]
<1>1. PICK x : x = [al |-> a, bytes |-> bytes, cells |-> cells]
  OBVIOUS
<1>2. Lend(m, b, a, bytes, cells) = [c \in Blocks |-> IF c = b THEN x ELSE m[c]]
  BY <1>1 DEF Lend, IsMemory
<1>3. QED
  BY <1>1, <1>2 DEF IsMemory

(* A struct's block, given back, leaves its address empty and no other.    *)
LEMMA GivingBack ==
  ASSUME NEW d, NEW m, IsMemory(m), StructOK(d, m)
  PROVE  /\ IsMemory(GiveBack(m, d.data, d.al, CapBytes(d)))
         /\ \A c \in Blocks : GiveBack(m, d.data, d.al, CapBytes(d))[c] =
              IF c = d.data THEN Null ELSE m[c]
<1>1. CASE d.data = Null
  <2>1. GiveBack(m, d.data, d.al, CapBytes(d)) = m
    BY <1>1 DEF GiveBack
  <2>2. QED
    BY <1>1, <2>1, NullAssumption
<1>2. CASE d.data # Null
  <2>1. d.data \in Blocks /\ m[d.data] # Null /\ m[d.data] \in BlockOf(d)
    BY <1>2, StructFacts
  <2>2. m[d.data].al = d.al /\ m[d.data].bytes = CapBytes(d)
    BY <2>1 DEF BlockOf
  <2>3. GiveBack(m, d.data, d.al, CapBytes(d)) = [m EXCEPT ![d.data] = Null]
    BY <1>2, <2>1, <2>2 DEF GiveBack
  <2>4. [m EXCEPT ![d.data] = Null] = [c \in Blocks |-> IF c = d.data THEN Null ELSE m[c]]
    BY <2>1 DEF IsMemory
  <2>5. QED
    BY <2>3, <2>4 DEF IsMemory
<1>3. QED
  BY <1>1, <1>2

(* New cells in a block keep who lent it and how large it is.              *)
LEMMA Rewriting ==
  ASSUME NEW m, IsMemory(m), NEW b \in Blocks, NEW cells,
         NEW d \in Deques, m[b] \in BlockOf(d)
  PROVE  /\ IsMemory([m EXCEPT ![b].cells = cells])
         /\ [m EXCEPT ![b].cells = cells][b] =
              [al |-> d.al, bytes |-> CapBytes(d), cells |-> cells]
         /\ \A c \in Blocks : c # b => [m EXCEPT ![b].cells = cells][c] = m[c]
<1>1. PICK x : x = [m[b] EXCEPT !.cells = cells]
  OBVIOUS
<1>2. x = [al |-> d.al, bytes |-> CapBytes(d), cells |-> cells]
  BY <1>1 DEF BlockOf
<1>3. [m EXCEPT ![b].cells = cells] = [c \in Blocks |-> IF c = b THEN x ELSE m[c]]
  BY <1>1 DEF IsMemory
<1>4. QED
  BY <1>2, <1>3 DEF IsMemory

(* The elems of d, front to back, when its block holds these cells, and    *)
(* when it is the one in m.                                                *)
Reads(d, cells) == [i \in 1 .. d.len |-> cells[SlotOf(d, i - 1)]]
ElemsOf(d, m)   == Reads(d, m[d.data].cells)

(* The two runs of copy_out take the elems in the order of the ring.       *)
LEMMA CopyOutReads ==
  ASSUME NEW d, NEW m, StructOK(d, m), NEW dst, NEW i \in Nat, i \in DOMAIN dst
  PROVE  CopyOut(d, m, dst)[i] =
           IF i < d.len THEN m[d.data].cells[SlotOf(d, i)] ELSE dst[i]
<1>1. d.len \in Nat /\ d.cap \in Nat /\ d.head \in Nat /\ d.len <= d.cap
      /\ (d.cap > 0 => d.head < d.cap)
  BY StructFacts DEF StructOK
<1>2. CASE i < FirstRun(d)
  <2>1. i < d.len /\ SlotOf(d, i) = d.head + i
    BY <1>1, <1>2 DEF FirstRun, SlotOf
  <2>2. QED
    BY <1>2, <2>1 DEF CopyOut
<1>3. CASE ~(i < FirstRun(d)) /\ i < d.len
  <2>1. SlotOf(d, i) = i - FirstRun(d)
    BY <1>1, <1>3 DEF FirstRun, SlotOf
  <2>2. QED
    BY <1>3, <2>1 DEF CopyOut
<1>4. CASE ~(i < FirstRun(d)) /\ ~(i < d.len)
  BY <1>4 DEF CopyOut
<1>5. QED
  BY <1>1, <1>2, <1>3, <1>4

(* What a copy out of a ring reads is in its block.                        *)
LEMMA CopyOutIsCells ==
  ASSUME NEW d, NEW m, StructOK(d, m), NEW k \in Nat, NEW dst \in [0 .. k - 1 -> Cells]
  PROVE  CopyOut(d, m, dst) \in [0 .. k - 1 -> Cells]
<1>1. d.len \in Nat /\ d.cap \in Nat /\ d.head \in Nat /\ d.len <= d.cap
      /\ (d.cap > 0 => d.head < d.cap)
  BY StructFacts DEF StructOK
<1>2. FirstRun(d) \in Int /\ FirstRun(d) <= d.len /\ (d.cap > 0 => FirstRun(d) <= d.cap - d.head /\ FirstRun(d) >= 0)
  BY <1>1 DEF FirstRun
<1>3. d.cap > 0 => m[d.data].cells \in [0 .. d.cap - 1 -> Cells]
  BY DEF StructOK, BlockOf
<1>4. ASSUME NEW i \in 0 .. k - 1
      PROVE  CopyOut(d, m, dst)[i] \in Cells
  <2>1. CASE i < FirstRun(d)
    <3>1. d.cap > 0 /\ d.head + i \in 0 .. d.cap - 1
      BY <1>1, <1>2, <2>1
    <3>2. QED
      BY <1>3, <2>1, <3>1 DEF CopyOut
  <2>2. CASE ~(i < FirstRun(d)) /\ i < d.len
    <3>1. d.cap > 0 /\ i - FirstRun(d) \in 0 .. d.cap - 1
      BY <1>1, <1>2, <2>2
    <3>2. QED
      BY <1>3, <2>2, <3>1 DEF CopyOut
  <2>3. CASE ~(i < FirstRun(d)) /\ ~(i < d.len)
    BY <2>3 DEF CopyOut
  <2>4. QED
    BY <2>1, <2>2, <2>3
<1>5. QED
  BY <1>4 DEF CopyOut

(* A block nobody wrote to is a block.                                     *)
LEMMA RawIsCells ==
  ASSUME NEW n \in Nat
  PROVE  Raw(n) \in [0 .. n - 1 -> Cells]
  BY DEF Raw, Cells

-----------------------------------------------------------------------------
(* Growth.                                                                 *)

(* A block an allocator lent is within the bound of StructOK.              *)
LEMMA GrantedBytes ==
  ASSUME NEW n \in Nat, NEW room \in Rooms, ~BytesRefused(n, room)
  PROVE  n > 0 /\ n * ElemSize <= SizeMax \div 2
<1>1. room \in Nat /\ room <= SizeMax \div 2
  BY RoomAssumption, HalfAndHalf
<1>2. 0 < n * ElemSize /\ n * ElemSize <= room /\ n * ElemSize \in Nat
  BY CapWithinBytes DEF BytesRefused, Granted
<1>3. n # 0
  BY <1>2, DequeAssumption
<1>4. QED
  BY <1>1, <1>2, <1>3, HalfAndHalf

(* Moved to a granted block, the ring keeps its contents and owns the new  *)
(* block, and the old one is gone.                                         *)
LEMMA RelocateOK ==
  ASSUME NEW d, NEW m, IsMemory(m), StructOK(d, m),
         NEW n \in Nat, n > 0, d.len <= n, n * ElemSize <= SizeMax \div 2,
         NEW b \in Blocks, m[b] = Null
  PROVE  LET r == Relocate(d, m, n, b)
         IN  /\ r.st = OK
             /\ Exchanges(d, m, r.d, r.m)
             /\ r.d.len = d.len /\ r.d.cap = n
             /\ ElemsOf(r.d, r.m) = ElemsOf(d, m)
<1>1. PICK cells : cells = CopyOut(d, m, Raw(n))
  OBVIOUS
<1>2. cells \in [0 .. n - 1 -> Cells]
  BY <1>1, RawIsCells, CopyOutIsCells
<1>3. PICK full : full = Lend(m, b, d.al, n * ElemSize, cells)
  OBVIOUS
<1>4. /\ IsMemory(full)
      /\ \A c \in Blocks : full[c] =
           IF c = b THEN [al |-> d.al, bytes |-> n * ElemSize, cells |-> cells] ELSE m[c]
  BY <1>3, Lending
<1>5. /\ d \in Deques /\ d.data \in Blocks \cup {Null} /\ d.data # b
      /\ d.al \in Als /\ d.len \in Nat
  BY StructFacts, NullAssumption
<1>6. StructOK(d, full)
  <2>1. d.cap > 0 => full[d.data] = m[d.data]
    BY <1>4, <1>5 DEF StructOK
  <2>2. QED
    BY <2>1 DEF StructOK
<1>7. PICK after : after = GiveBack(full, d.data, d.al, CapBytes(d))
  OBVIOUS
<1>8. /\ IsMemory(after)
      /\ \A c \in Blocks : after[c] = IF c = d.data THEN Null ELSE full[c]
  BY <1>4, <1>6, <1>7, GivingBack
<1>9. PICK e : e = [d EXCEPT !.data = b, !.cap = n, !.head = 0]
  OBVIOUS
<1>10. /\ e \in Deques /\ e.data = b /\ e.cap = n /\ e.head = 0
       /\ e.len = d.len /\ e.al = d.al
  BY <1>5, <1>9 DEF Deques
<1>11. after[b] = [al |-> d.al, bytes |-> n * ElemSize, cells |-> cells]
  BY <1>4, <1>5, <1>8
<1>12. StructOK(e, after)
  <2>1. after[b] \in BlockOf(e)
    BY <1>2, <1>10, <1>11 DEF BlockOf, CapBytes
  <2>2. b # Null
    BY NullAssumption
  <2>3. QED
    BY <1>10, <2>1, <2>2 DEF StructOK, CapBytes
<1>13. Exchanges(d, m, e, after)
  BY <1>4, <1>5, <1>8, <1>10, <1>12 DEF Exchanges
<1>14. Relocate(d, m, n, b) = [st |-> OK, d |-> e, m |-> after]
  BY <1>1, <1>3, <1>7, <1>9 DEF Relocate
<1>15. ElemsOf(e, after) = ElemsOf(d, m)
  <2>1. ASSUME NEW i \in 1 .. d.len
        PROVE  cells[SlotOf(e, i - 1)] = m[d.data].cells[SlotOf(d, i - 1)]
    <3>1. i - 1 \in 0 .. n - 1 /\ i - 1 < d.len /\ i - 1 \in Nat
      BY <1>5
    <3>2. SlotOf(e, i - 1) = i - 1
      BY <1>10, <3>1 DEF SlotOf
    <3>3. i - 1 \in DOMAIN Raw(n)
      BY <3>1 DEF Raw
    <3>4. QED
      BY <1>1, <3>1, <3>2, <3>3, CopyOutReads
  <2>2. after[e.data].cells = cells
    BY <1>10, <1>11
  <2>3. QED
    BY <1>10, <2>1, <2>2 DEF ElemsOf, Reads
<1>16. QED
  BY <1>10, <1>13, <1>14, <1>15

(* Doing nothing is an exchange.                                           *)
LEMMA NoExchange ==
  ASSUME NEW d, NEW m, IsMemory(m), StructOK(d, m)
  PROVE  Exchanges(d, m, d, m)
  BY DEF Exchanges

(* What a request for room answers: no, or a ring with the same contents   *)
(* and at least that much of it.                                           *)
Makes(r, d, m, n) ==
  /\ r.st \in {OK, NoMem}
  /\ r.st = OK => /\ Exchanges(d, m, r.d, r.m)
                  /\ r.d.len = d.len
                  /\ r.d.cap >= n /\ r.d.cap >= d.cap
                  /\ ElemsOf(r.d, r.m) = ElemsOf(d, m)

(* deque_reserve: enough room, or a refusal.                               *)
LEMMA ReserveOK ==
  ASSUME NEW d, NEW m, IsMemory(m), StructOK(d, m), NEW n \in Nat,
         NEW room \in Rooms, NEW b \in Blocks, m[b] = Null
  PROVE  Makes(Reserve(d, m, n, room, b), d, m, n)
<1>1. d.cap \in Nat /\ d.len \in Nat /\ d.len <= d.cap
  BY StructFacts DEF StructOK
<1>2. CASE n <= d.cap
  <2>1. Reserve(d, m, n, room, b) = [st |-> OK, d |-> d, m |-> m]
    BY <1>2 DEF Reserve, Untouched
  <2>2. QED
    BY <1>1, <1>2, <2>1, NoExchange DEF Makes
<1>3. CASE ~(n <= d.cap) /\ BytesRefused(n, room)
  <2>1. Reserve(d, m, n, room, b) = [st |-> NoMem, d |-> d, m |-> m]
    BY <1>3 DEF Reserve, Untouched
  <2>2. QED
    BY <2>1, DequeAssumption DEF Makes
<1>4. CASE ~(n <= d.cap) /\ ~BytesRefused(n, room)
  <2>1. Reserve(d, m, n, room, b) = Relocate(d, m, n, b)
    BY <1>4 DEF Reserve
  <2>2. d.len <= n /\ n >= d.cap /\ n > 0 /\ n * ElemSize <= SizeMax \div 2
    BY <1>1, <1>4, GrantedBytes
  <2>3. /\ Relocate(d, m, n, b).st = OK
        /\ Exchanges(d, m, Relocate(d, m, n, b).d, Relocate(d, m, n, b).m)
        /\ Relocate(d, m, n, b).d.len = d.len /\ Relocate(d, m, n, b).d.cap = n
        /\ ElemsOf(Relocate(d, m, n, b).d, Relocate(d, m, n, b).m) = ElemsOf(d, m)
    BY <2>2, RelocateOK
  <2>4. QED
    BY <2>1, <2>2, <2>3 DEF Makes
<1>5. QED
  BY <1>2, <1>3, <1>4

(* The eager capacity is a capacity.                                       *)
LEMMA NextCapOK ==
  ASSUME NEW d, NEW m, StructOK(d, m)
  PROVE  NextCap(d) \in Nat
  BY StructFacts, DequeAssumption DEF NextCap

(* grow: one more slot, eagerly or exactly, or a refusal.                  *)
LEMMA GrowOK ==
  ASSUME NEW d, NEW m, IsMemory(m), StructOK(d, m),
         NEW room \in Rooms, NEW b \in Blocks, m[b] = Null
  PROVE  Makes(Grow(d, m, room, b), d, m, d.cap + 1)
<1>1. d.cap \in Nat /\ NextCap(d) \in Nat
  BY StructFacts, NextCapOK
<1>2. PICK eager : eager = Reserve(d, m, NextCap(d), room, b)
  OBVIOUS
<1>3. Makes(eager, d, m, NextCap(d)) /\ Makes(Reserve(d, m, d.cap + 1, room, b), d, m, d.cap + 1)
  BY <1>1, <1>2, ReserveOK
<1>4. CASE d.cap = SizeMax
  <2>1. Grow(d, m, room, b) = [st |-> NoMem, d |-> d, m |-> m]
    BY <1>4 DEF Grow, Untouched
  <2>2. QED
    BY <2>1, DequeAssumption DEF Makes
<1>5. CASE d.cap # SizeMax /\ (eager.st = OK \/ NextCap(d) <= d.cap + 1)
  <2>1. Grow(d, m, room, b) = eager
    BY <1>2, <1>5 DEF Grow
  <2>2. NextCap(d) >= d.cap + 1
    <3>1. d.cap <= SizeMax \div 2
      BY <1>1, CapWithinBytes, HalfAndHalf, DequeAssumption DEF StructOK, CapBytes
    <3>2. QED
      BY <1>1, <1>5, <3>1, HalfAndHalf, DequeAssumption DEF NextCap
  <2>3. QED
    BY <1>1, <1>3, <2>1, <2>2, StructFacts DEF Makes, Exchanges
<1>6. CASE d.cap # SizeMax /\ ~(eager.st = OK \/ NextCap(d) <= d.cap + 1)
  <2>1. Grow(d, m, room, b) = Reserve(d, m, d.cap + 1, room, b)
    BY <1>2, <1>6 DEF Grow
  <2>2. QED
    BY <1>3, <2>1
<1>7. QED
  BY <1>4, <1>5, <1>6

(* reserve_one: room for one more elem, or a refusal.                      *)
LEMMA ReserveOneOK ==
  ASSUME NEW d, NEW m, IsMemory(m), StructOK(d, m),
         NEW room \in Rooms, NEW b \in Blocks, m[b] = Null
  PROVE  Makes(ReserveOne(d, m, room, b), d, m, d.len + 1)
<1>1. d.cap \in Nat /\ d.len \in Nat /\ d.len <= d.cap
  BY StructFacts DEF StructOK
<1>2. CASE d.len = d.cap
  BY <1>2, GrowOK DEF ReserveOne
<1>3. CASE d.len # d.cap
  <2>1. ReserveOne(d, m, room, b) = [st |-> OK, d |-> d, m |-> m]
    BY <1>3 DEF ReserveOne, Untouched
  <2>2. QED
    BY <1>1, <1>3, <2>1, NoExchange DEF Makes
<1>4. QED
  BY <1>2, <1>3

(* reserve_for: room for n elems, or a refusal.                            *)
LEMMA ReserveForOK ==
  ASSUME NEW d, NEW m, IsMemory(m), StructOK(d, m), NEW n \in Nat,
         NEW room \in Rooms, NEW b \in Blocks, m[b] = Null
  PROVE  Makes(ReserveFor(d, m, n, room, b), d, m, n)
<1>1. d.cap \in Nat /\ NextCap(d) \in Nat
  BY StructFacts, NextCapOK
<1>2. PICK eager : eager = Reserve(d, m, NextCap(d), room, b)
  OBVIOUS
<1>3. Makes(eager, d, m, NextCap(d)) /\ Makes(Reserve(d, m, n, room, b), d, m, n)
  BY <1>1, <1>2, ReserveOK
<1>4. CASE NextCap(d) > n /\ eager.st = OK
  <2>1. ReserveFor(d, m, n, room, b) = eager
    BY <1>2, <1>4 DEF ReserveFor
  <2>2. eager.d.cap \in Nat
    BY <1>3, <1>4, StructFacts DEF Makes, Exchanges
  <2>3. QED
    BY <1>1, <1>3, <1>4, <2>1, <2>2 DEF Makes
<1>5. CASE ~(NextCap(d) > n /\ eager.st = OK)
  <2>1. ReserveFor(d, m, n, room, b) = Reserve(d, m, n, room, b)
    BY <1>2, <1>5 DEF ReserveFor
  <2>2. QED
    BY <1>3, <2>1
<1>6. QED
  BY <1>4, <1>5

-----------------------------------------------------------------------------
(* Writing to the ring.                                                    *)

(* A place in the ring, the one behind the last included, is a slot.       *)
LEMMA SlotIsInBlock ==
  ASSUME NEW d, d.cap \in Nat, d.head \in Nat, d.head < d.cap, NEW i \in 0 .. d.cap
  PROVE  SlotOf(d, i) \in 0 .. d.cap - 1
  BY DEF SlotOf

(* Storing one elem leaves cells.                                          *)
LEMMA PutElemIsCells ==
  ASSUME NEW n \in Nat, NEW cells \in [0 .. n - 1 -> Cells], NEW d, NEW i, NEW v \in Vals
  PROVE  PutElem(d, cells, i, v) \in [0 .. n - 1 -> Cells]
  BY DEF PutElem, Cells, Elems

(* Zeroing slots leaves cells.                                             *)
LEMMA ZeroRunIsCells ==
  ASSUME NEW n \in Nat, NEW cells \in [0 .. n - 1 -> Cells], NEW d, NEW idxs
  PROVE  ZeroRun(d, cells, idxs) \in [0 .. n - 1 -> Cells]
  BY DEF ZeroRun, Cells, Elems

(* A shift that reads no place beyond the ring leaves cells.               *)
LEMMA ShiftRunIsCells ==
  ASSUME NEW d, d.cap \in Nat, d.head \in Nat, d.head < d.cap,
         NEW cells \in [0 .. d.cap - 1 -> Cells],
         NEW to, NEW by, \A i \in to : i + by \in 0 .. d.cap
  PROVE  ShiftRun(d, cells, to, by) \in [0 .. d.cap - 1 -> Cells]
<1>1. ASSUME NEW k \in 0 .. d.cap - 1
      PROVE  ShiftRun(d, cells, to, by)[k] \in Cells
  <2>1. CASE \E i \in to : SlotOf(d, i) = k
    <3>1. PICK j : j = CHOOSE i \in to : SlotOf(d, i) = k
      OBVIOUS
    <3>2. j \in to
      BY <2>1, <3>1
    <3>3. SlotOf(d, j + by) \in 0 .. d.cap - 1
      BY <3>2, SlotIsInBlock
    <3>4. ShiftRun(d, cells, to, by)[k] = cells[SlotOf(d, j + by)]
      BY <2>1, <3>1 DEF ShiftRun
    <3>5. QED
      BY <3>3, <3>4
  <2>2. CASE ~ \E i \in to : SlotOf(d, i) = k
    BY <2>2 DEF ShiftRun
  <2>3. QED
    BY <2>1, <2>2
<1>2. QED
  BY <1>1 DEF ShiftRun

(* Copying an array of the deque's length in leaves cells.                 *)
LEMMA CopyInIsCells ==
  ASSUME NEW d, d.cap \in Nat, d.head \in Nat, d.head < d.cap,
         NEW cells \in [0 .. d.cap - 1 -> Cells],
         NEW s \in Seq(Vals), Len(s) = d.len
  PROVE  CopyIn(d, cells, s) \in [0 .. d.cap - 1 -> Cells]
<1>1. /\ d.len \in Nat /\ FirstRun(d) \in Nat /\ FirstRun(d) <= d.len
      /\ \A i \in 1 .. d.len : s[i] \in Cells
  BY DEF FirstRun, Cells, Elems
<1>2. ASSUME NEW k \in 0 .. d.cap - 1
      PROVE  CopyIn(d, cells, s)[k] \in Cells
  <2>1. CASE d.head <= k /\ k < d.head + FirstRun(d)
    <3>1. k - d.head + 1 \in 1 .. d.len
      BY <1>1, <2>1
    <3>2. QED
      BY <1>1, <2>1, <3>1 DEF CopyIn
  <2>2. CASE ~(d.head <= k /\ k < d.head + FirstRun(d)) /\ k < d.len - FirstRun(d)
    <3>1. FirstRun(d) + k + 1 \in 1 .. d.len
      BY <1>1, <2>2
    <3>2. QED
      BY <1>1, <2>2, <3>1 DEF CopyIn
  <2>3. CASE ~(d.head <= k /\ k < d.head + FirstRun(d)) /\ ~(k < d.len - FirstRun(d))
    BY <2>3 DEF CopyIn
  <2>4. QED
    BY <2>1, <2>2, <2>3
<1>3. QED
  BY <1>2 DEF CopyIn

(* Moving the ends of the ring within the block it has.                    *)
LEMMA EndsMoved ==
  ASSUME NEW d0, NEW m0, NEW d1, NEW m1, Exchanges(d0, m0, d1, m1),
         NEW d \in Deques, d.data = d1.data, d.cap = d1.cap, d.al = d1.al,
         d.len <= d.cap, d.cap = 0 => d.head = 0, d.cap > 0 => d.head < d.cap
  PROVE  Exchanges(d0, m0, d, m1)
<1>1. StructOK(d, m1)
  BY DEF Exchanges, StructOK, CapBytes, BlockOf
<1>2. QED
  BY <1>1 DEF Exchanges

(* Moving them and writing to the block.                                   *)
LEMMA CellsWritten ==
  ASSUME NEW d0, d0.data \in Blocks \cup {Null}, NEW m0,
         NEW d1, NEW m1, Exchanges(d0, m0, d1, m1),
         NEW d \in Deques, d.data = d1.data, d.cap = d1.cap, d.al = d1.al,
         d.len <= d.cap, d.cap > 0, d.head < d.cap,
         NEW cells \in [0 .. d.cap - 1 -> Cells]
  PROVE  Exchanges(d0, m0, d, [m1 EXCEPT ![d.data].cells = cells])
<1>1. Exchanges(d0, m0, d, m1)
  BY EndsMoved
<1>2. StructOK(d, m1) /\ IsMemory(m1)
  BY <1>1 DEF Exchanges
<1>3. d.data # Null /\ d.data \in Blocks /\ m1[d.data] \in BlockOf(d)
  BY <1>2, StructFacts DEF StructOK
<1>31. PICK blk \in Blocks : blk = d.data
  BY <1>3
<1>4. PICK m : m = [m1 EXCEPT ![blk].cells = cells]
  OBVIOUS
<1>5. /\ IsMemory(m)
      /\ m[d.data] = [al |-> d.al, bytes |-> CapBytes(d), cells |-> cells]
      /\ \A c \in Blocks : c # d.data => m[c] = m1[c]
  <2>1. m1[blk] \in BlockOf(d)
    BY <1>3, <1>31
  <2>2. /\ IsMemory([m1 EXCEPT ![blk].cells = cells])
        /\ [m1 EXCEPT ![blk].cells = cells][blk] =
             [al |-> d.al, bytes |-> CapBytes(d), cells |-> cells]
        /\ \A c \in Blocks : c # blk => [m1 EXCEPT ![blk].cells = cells][c] = m1[c]
    BY <1>2, <2>1, Rewriting
  <2>3. QED
    BY <1>31, <1>4, <2>2
<1>6. m[d.data] \in BlockOf(d)
  BY <1>5 DEF BlockOf
<1>7. StructOK(d, m)
  BY <1>2, <1>6 DEF StructOK
<1>8. d0.data # d.data /\ d0.data # Null => m[d0.data] = Null
  <2>1. HAVE d0.data # d.data /\ d0.data # Null
  <2>2. m1[d0.data] = Null
    BY <1>1, <2>1 DEF Exchanges
  <2>3. QED
    BY <1>5, <2>1, <2>2
<1>9. Exchanges(d0, m0, d, m)
  BY <1>1, <1>5, <1>7, <1>8 DEF Exchanges
<1>10. QED
  BY <1>31, <1>4, <1>9

-----------------------------------------------------------------------------
(* The deques together, when some of them change.                          *)

(* The deques of C, and no others, were changed: the deques are sound when *)
(* the new structs are, no deque left out lost its block or shares it, and *)
(* every block there is was somebody else's or is one of theirs.           *)
LEMMA ChangeIsSound ==
  ASSUME NEW D, NEW m0, Sound(D, m0), NEW C \in SUBSET Handles,
         NEW E \in [Handles -> Deques \cup {Null}], NEW m, IsMemory(m),
         \A g \in Handles : g \notin C => E[g] = D[g],
         \A g \in C : E[g] # Null => StructOK(E[g], m),
         \A f, g \in C :
           f # g /\ E[f] # Null /\ E[g] # Null /\ E[f].data # Null => E[f].data # E[g].data,
         \A g \in Handles : g \notin C /\ D[g] # Null /\ D[g].data # Null =>
           /\ m[D[g].data] = m0[D[g].data]
           /\ \A c \in C : E[c] # Null => E[c].data # D[g].data,
         \A b \in Blocks : m[b] # Null =>
           \/ \E c \in C : E[c] # Null /\ E[c].data = b
           \/ m0[b] # Null /\ \A c \in C : D[c] # Null => D[c].data # b
  PROVE  Sound(E, m)
<1>1. ASSUME NEW g \in Handles, E[g] # Null
      PROVE  StructOK(E[g], m)
  <2>1. CASE g \in C
    BY <1>1, <2>1
  <2>2. CASE g \notin C
    <3>1. E[g] = D[g] /\ StructOK(D[g], m0) /\ D[g] # Null
      BY <1>1, <2>2 DEF Sound
    <3>2. CASE D[g].data = Null
      BY <3>1, <3>2, StructFacts DEF StructOK
    <3>3. CASE D[g].data # Null
      BY <2>2, <3>1, <3>3 DEF StructOK
    <3>4. QED
      BY <3>2, <3>3
  <2>3. QED
    BY <2>1, <2>2
<1>2. \A f, g \in Handles :
        f # g /\ E[f] # Null /\ E[g] # Null /\ E[f].data # Null => E[f].data # E[g].data
  <2>1. TAKE f, g \in Handles
  <2>2. HAVE f # g /\ E[f] # Null /\ E[g] # Null /\ E[f].data # Null
  <2>3. CASE f \in C /\ g \in C
    BY <2>2, <2>3
  <2>4. CASE f \in C /\ g \notin C
    BY <2>2, <2>4
  <2>5. CASE f \notin C /\ g \in C
    BY <2>2, <2>5
  <2>6. CASE f \notin C /\ g \notin C
    BY <2>2, <2>6 DEF Sound
  <2>7. QED
    BY <2>3, <2>4, <2>5, <2>6
<1>3. ASSUME NEW b \in Blocks, m[b] # Null
      PROVE  \E g \in Handles : E[g] # Null /\ E[g].data = b
  <2>1. CASE \E c \in C : E[c] # Null /\ E[c].data = b
    BY <2>1
  <2>2. CASE m0[b] # Null /\ \A c \in C : D[c] # Null => D[c].data # b
    <3>1. PICK g \in Handles : D[g] # Null /\ D[g].data = b
      BY <2>2 DEF Sound
    <3>2. g \notin C
      BY <2>2, <3>1
    <3>3. QED
      BY <3>1, <3>2
  <2>3. QED
    BY <1>3, <2>1, <2>2
<1>4. QED
  BY <1>1, <1>2, <1>3 DEF Sound

(* What soundness says of one deque and of two.                            *)
LEMMA SoundFacts ==
  ASSUME NEW D, NEW m, Sound(D, m), NEW h \in Handles, D[h] # Null
  PROVE  /\ D \in [Handles -> Deques \cup {Null}] /\ IsMemory(m)
         /\ D[h] \in Deques /\ StructOK(D[h], m)
         /\ D[h].data \in Blocks \cup {Null}
         /\ D[h].data # Null => m[D[h].data] # Null
         /\ \A g \in Handles :
              g # h /\ D[g] # Null /\ D[g].data # Null =>
                /\ D[g].data # D[h].data
                /\ D[g].data \in Blocks /\ m[D[g].data] # Null
  BY StructFacts DEF Sound

(* A new deque has a block nobody had.                                     *)
LEMMA BirthIsSound ==
  ASSUME NEW D, NEW m0, Sound(D, m0), NEW h \in Handles, D[h] = Null,
         NEW d, NEW m, IsMemory(m), StructOK(d, m),
         \A b \in Blocks : b # d.data => m[b] = m0[b],
         d.data # Null => m0[d.data] = Null
  PROVE  Sound([D EXCEPT ![h] = d], m)
<1>1. D \in [Handles -> Deques \cup {Null}]
  BY DEF Sound
<1>2. d \in Deques /\ d # Null
  BY StructFacts
<1>3. PICK E \in [Handles -> Deques \cup {Null}] :
        E = [D EXCEPT ![h] = d] /\ E[h] = d /\ \A g \in Handles : g # h => E[g] = D[g]
  <2>1. [D EXCEPT ![h] = d] \in [Handles -> Deques \cup {Null}]
    BY <1>1, <1>2
  <2>2. QED
    BY <1>1, <2>1
<1>4. PICK C \in SUBSET Handles : C = {h}
  OBVIOUS
<1>5. \A g \in Handles : D[g] # Null /\ D[g].data # Null =>
        D[g].data \in Blocks /\ m0[D[g].data] # Null
  BY SoundFacts
<1>6. \A g \in Handles : g \notin C /\ D[g] # Null /\ D[g].data # Null =>
        /\ m[D[g].data] = m0[D[g].data]
        /\ \A c \in C : E[c] # Null => E[c].data # D[g].data
  BY <1>3, <1>4, <1>5
<1>7. \A b \in Blocks : m[b] # Null =>
        \/ \E c \in C : E[c] # Null /\ E[c].data = b
        \/ m0[b] # Null /\ \A c \in C : D[c] # Null => D[c].data # b
  BY <1>2, <1>3, <1>4
<1>8. /\ \A g \in Handles : g \notin C => E[g] = D[g]
      /\ \A g \in C : E[g] # Null => StructOK(E[g], m)
      /\ \A f, g \in C : f = g
  BY <1>3, <1>4
<1>9. Sound(E, m)
  BY <1>6, <1>7, <1>8, ChangeIsSound
<1>10. QED
  BY <1>3, <1>9

(* A dropped deque takes its block with it.                                *)
LEMMA DropIsSound ==
  ASSUME NEW D, NEW m0, Sound(D, m0), NEW h \in Handles, D[h] # Null, NEW m, IsMemory(m),
         \A b \in Blocks : m[b] = IF b = D[h].data THEN Null ELSE m0[b]
  PROVE  Sound([D EXCEPT ![h] = Null], m)
<1>1. D \in [Handles -> Deques \cup {Null}]
  BY DEF Sound
<1>2. PICK E \in [Handles -> Deques \cup {Null}] :
        E = [D EXCEPT ![h] = Null] /\ E[h] = Null /\ \A g \in Handles : g # h => E[g] = D[g]
  <2>1. [D EXCEPT ![h] = Null] \in [Handles -> Deques \cup {Null}]
    BY <1>1
  <2>2. QED
    BY <1>1, <2>1
<1>3. PICK C \in SUBSET Handles : C = {h}
  OBVIOUS
<1>4. \A g \in Handles : g \notin C /\ D[g] # Null /\ D[g].data # Null =>
        /\ m[D[g].data] = m0[D[g].data]
        /\ \A c \in C : E[c] # Null => E[c].data # D[g].data
  BY <1>2, <1>3, SoundFacts
<1>5. \A b \in Blocks : m[b] # Null =>
        \/ \E c \in C : E[c] # Null /\ E[c].data = b
        \/ m0[b] # Null /\ \A c \in C : D[c] # Null => D[c].data # b
  BY <1>3
<1>6. /\ \A g \in Handles : g \notin C => E[g] = D[g]
      /\ \A g \in C : E[g] = Null
  BY <1>2, <1>3
<1>7. Sound(E, m)
  BY <1>4, <1>5, <1>6, ChangeIsSound
<1>8. QED
  BY <1>2, <1>7

(* Two deques got new structs: each has its old block, the other's, a      *)
(* fresh one or none, and a block neither has any more was given back.     *)
LEMMA PairIsSound ==
  ASSUME NEW D, NEW m0, Sound(D, m0),
         NEW h \in Handles, NEW g \in Handles, h # g, D[h] # Null, D[g] # Null,
         NEW dg, NEW dh, NEW m, IsMemory(m), StructOK(dg, m), StructOK(dh, m),
         dg.data # Null => dg.data # dh.data,
         \A b \in Blocks : b \notin {D[g].data, D[h].data, dg.data, dh.data} => m[b] = m0[b],
         \A b \in Blocks : b \in {D[g].data, D[h].data} \ {dg.data, dh.data} => m[b] = Null,
         \A b \in Blocks : b \in {dg.data, dh.data} \ {D[g].data, D[h].data} => m0[b] = Null
  PROVE  Sound([D EXCEPT ![g] = dg, ![h] = dh], m)
<1>1. D \in [Handles -> Deques \cup {Null}]
  BY DEF Sound
<1>2. dg \in Deques /\ dg # Null /\ dh \in Deques /\ dh # Null
      /\ dg.data \in Blocks \cup {Null} /\ dh.data \in Blocks \cup {Null}
  BY StructFacts
<1>3. PICK E \in [Handles -> Deques \cup {Null}] :
        /\ E = [D EXCEPT ![g] = dg, ![h] = dh] /\ E[h] = dh /\ E[g] = dg
        /\ \A f \in Handles : f # h /\ f # g => E[f] = D[f]
  <2>1. [D EXCEPT ![g] = dg, ![h] = dh] \in [Handles -> Deques \cup {Null}]
    BY <1>1, <1>2
  <2>2. QED
    BY <1>1, <2>1
<1>4. PICK C \in SUBSET Handles : C = {h, g}
  OBVIOUS
<1>5. \A f \in Handles : f \notin C /\ D[f] # Null /\ D[f].data # Null =>
        /\ D[f].data \in Blocks /\ m0[D[f].data] # Null
        /\ D[f].data # D[h].data /\ D[f].data # D[g].data
  BY <1>4, SoundFacts
<1>6. \A f \in Handles : f \notin C /\ D[f] # Null /\ D[f].data # Null =>
        D[f].data # dg.data /\ D[f].data # dh.data
  BY <1>5
<1>7. \A f \in Handles : f \notin C /\ D[f] # Null /\ D[f].data # Null =>
        /\ m[D[f].data] = m0[D[f].data]
        /\ \A c \in C : E[c] # Null => E[c].data # D[f].data
  BY <1>3, <1>4, <1>5, <1>6
<1>8. \A b \in Blocks : m[b] # Null =>
        \/ \E c \in C : E[c] # Null /\ E[c].data = b
        \/ m0[b] # Null /\ \A c \in C : D[c] # Null => D[c].data # b
  <2>1. TAKE b \in Blocks
  <2>2. HAVE m[b] # Null
  <2>3. CASE b = dg.data
    BY <1>2, <1>3, <1>4, <2>3
  <2>4. CASE b = dh.data
    BY <1>2, <1>3, <1>4, <2>4
  <2>5. CASE b # dg.data /\ b # dh.data
    <3>1. b # D[g].data /\ b # D[h].data
      BY <2>2, <2>5
    <3>2. QED
      BY <1>4, <2>2, <2>5, <3>1
  <2>6. QED
    BY <2>3, <2>4, <2>5
<1>9. \A f \in Handles : f \notin C => E[f] = D[f]
  BY <1>3, <1>4
<1>10. \A f \in C : E[f] # Null => StructOK(E[f], m)
  BY <1>3, <1>4
<1>11. \A e, f \in C :
         e # f /\ E[e] # Null /\ E[f] # Null /\ E[e].data # Null => E[e].data # E[f].data
  BY <1>3, <1>4
<1>12. Sound(E, m)
  BY <1>7, <1>8, <1>9, <1>10, <1>11, ChangeIsSound
<1>13. QED
  BY <1>3, <1>12

(* The headers stand as long as no deque is born, dropped, or moved to     *)
(* another allocator.                                                      *)
LEMMA HeadersStand ==
  ASSUME NEW D, NEW H, HeadersCounted(D, H), NEW E,
         \A h \in Handles : E[h] = Null <=> D[h] = Null,
         \A h \in Handles : D[h] # Null => E[h].al = D[h].al
  PROVE  HeadersCounted(E, H)
<1>1. \A a \in Als : Live(E, a) = Live(D, a)
  BY DEF Live
<1>2. QED
  BY <1>1 DEF HeadersCounted

(* A deque is born with one header.                                        *)
LEMMA HeaderTaken ==
  ASSUME NEW D \in [Handles -> Deques \cup {Null}], NEW H, HeadersCounted(D, H),
         NEW h \in Handles, D[h] = Null, NEW d \in Deques
  PROVE  HeadersCounted([D EXCEPT ![h] = d], TakeHdr(H, d.al))
<1>1. d.al \in Als /\ d # Null
  BY NullAssumption DEF Deques
<1>2. PICK E : E = [D EXCEPT ![h] = d]
  OBVIOUS
<1>3. E[h] = d /\ \A g \in Handles : g # h => E[g] = D[g]
  BY <1>2
<1>4. ASSUME NEW a \in Als, a # d.al
      PROVE  Live(E, a) = Live(D, a)
  BY <1>3, <1>4 DEF Live
<1>5. Live(E, d.al) = Live(D, d.al) \cup {h} /\ h \notin Live(D, d.al)
  BY <1>1, <1>3 DEF Live
<1>6. H \in [Als -> Nat] /\ \A a \in Als : IsFiniteSet(Live(D, a)) /\ H[a] = Cardinality(Live(D, a))
  BY DEF HeadersCounted
<1>7. /\ IsFiniteSet(Live(E, d.al))
      /\ Cardinality(Live(E, d.al)) = H[d.al] + 1
  BY <1>1, <1>5, <1>6, FS_AddElement
<1>8. PICK K : K = TakeHdr(H, d.al)
  OBVIOUS
<1>9. K \in [Als -> Nat] /\ K[d.al] = H[d.al] + 1 /\ \A a \in Als : a # d.al => K[a] = H[a]
  BY <1>1, <1>6, <1>8 DEF TakeHdr
<1>10. HeadersCounted(E, K)
  BY <1>4, <1>6, <1>7, <1>9 DEF HeadersCounted
<1>11. QED
  BY <1>2, <1>8, <1>10

(* A dropped deque returns its header.                                     *)
LEMMA HeaderReturned ==
  ASSUME NEW D \in [Handles -> Deques \cup {Null}], NEW H, HeadersCounted(D, H),
         NEW h \in Handles, D[h] # Null
  PROVE  HeadersCounted([D EXCEPT ![h] = Null], ReturnHdr(H, D[h].al))
<1>1. PICK al \in Als : al = D[h].al
  BY DEF Deques
<1>2. PICK E : E = [D EXCEPT ![h] = Null]
  OBVIOUS
<1>3. E[h] = Null /\ \A g \in Handles : g # h => E[g] = D[g]
  BY <1>2
<1>4. ASSUME NEW a \in Als, a # al
      PROVE  Live(E, a) = Live(D, a)
  BY <1>1, <1>3, <1>4 DEF Live
<1>5. Live(E, al) = Live(D, al) \ {h} /\ h \in Live(D, al)
  BY <1>1, <1>3 DEF Live
<1>6. H \in [Als -> Nat] /\ \A a \in Als : IsFiniteSet(Live(D, a)) /\ H[a] = Cardinality(Live(D, a))
  BY DEF HeadersCounted
<1>7. /\ IsFiniteSet(Live(E, al))
      /\ Cardinality(Live(E, al)) = H[al] - 1
  BY <1>5, <1>6, FS_RemoveElement
<1>8. Cardinality(Live(E, al)) \in Nat
  BY <1>7, FS_CardinalityType
<1>9. PICK K : K = ReturnHdr(H, al)
  OBVIOUS
<1>10. K \in [Als -> Nat] /\ K[al] = H[al] - 1 /\ \A a \in Als : a # al => K[a] = H[a]
  BY <1>6, <1>7, <1>8, <1>9 DEF ReturnHdr
<1>11. HeadersCounted(E, K)
  BY <1>4, <1>6, <1>7, <1>10 DEF HeadersCounted
<1>12. QED
  BY <1>1, <1>2, <1>9, <1>11

-----------------------------------------------------------------------------
(* How calls end.                                                          *)

(* The invariant holds of no deques at all.                                *)
LEMMA InitSound ==
  Init => IInv
<1>1. SUFFICES ASSUME Init PROVE IInv
  OBVIOUS
<1>2. Sound(dq, mem)
  BY <1>1 DEF Init, Sound, IsMemory
<1>3. ASSUME NEW a \in Als
      PROVE  Live(dq, a) = {}
  BY <1>1 DEF Init, Live
<1>4. HeadersCounted(dq, hdrs)
  BY <1>1, <1>3, FS_EmptySet DEF Init, HeadersCounted
<1>5. QED
  BY <1>1, <1>2, <1>4 DEF Init, IInv, Answers

(* A refused call, and one that has nothing to do, change no state.        *)
LEMMA StandStill ==
  ASSUME IInv, UNCHANGED <<dq, mem, hdrs>>, status' \in Answers
  PROVE  IInv'
<1>1. Sound(dq, mem)' /\ HeadersCounted(dq, hdrs)'
  BY DEF IInv, Sound, StructOK, IsMemory, HeadersCounted, Live, Answers
<1>2. QED
  BY <1>1 DEF IInv

(* A call on one deque that exchanges its struct and its block.            *)
LEMMA CommitKeeps ==
  ASSUME IInv, NEW h \in Handles, Alive(h), NEW d, NEW m,
         Exchanges(dq[h], mem, d, m), Commit(h, d, m)
  PROVE  IInv'
<1>1. Sound(dq, mem) /\ dq[h] # Null /\ HeadersCounted(dq, hdrs)
  BY DEF IInv, Alive
<1>2. Sound(dq', mem')
  BY <1>1, ExchangeIsSound DEF Commit
<1>3. dq \in [Handles -> Deques \cup {Null}]
  BY <1>1 DEF Sound
<1>4. d # Null /\ d.al = dq[h].al
  BY StructFacts DEF Exchanges
<1>5. HeadersCounted(dq', hdrs)
  BY <1>1, <1>3, <1>4, HeadersStand DEF Commit
<1>6. status' \in Answers /\ hdrs' = hdrs
  BY DEF Commit, Answers
<1>7. QED
  BY <1>2, <1>5, <1>6 DEF IInv

(* The same, when it also writes to the block it ends with.                *)
LEMMA CommitCellsKeeps ==
  ASSUME IInv, NEW h \in Handles, Alive(h), NEW d1, NEW m1,
         Exchanges(dq[h], mem, d1, m1),
         NEW d \in Deques, d.data = d1.data, d.cap = d1.cap, d.al = d1.al,
         d.len <= d.cap, d.cap > 0, d.head < d.cap,
         NEW cells \in [0 .. d.cap - 1 -> Cells], CommitCells(h, d, m1, cells)
  PROVE  IInv'
<1>1. dq[h].data \in Blocks \cup {Null}
  BY SoundFacts DEF IInv, Alive
<1>2. Exchanges(dq[h], mem, d, [m1 EXCEPT ![d.data].cells = cells])
  BY <1>1, CellsWritten
<1>3. QED
  BY <1>2, CommitKeeps DEF CommitCells

(* The struct e is d with its ends moved.                                  *)
SameBlock(d, e, k, n) ==
  /\ e \in Deques
  /\ e.data = d.data /\ e.cap = d.cap /\ e.al = d.al
  /\ e.head = k /\ e.len = n

(* What the invariant says of a live deque.                                *)
LEMMA LiveFacts ==
  ASSUME IInv, NEW h \in Handles, Alive(h)
  PROVE  /\ IsMemory(mem) /\ StructOK(dq[h], mem) /\ dq[h] \in Deques
         /\ dq[h].len \in Nat /\ dq[h].cap \in Nat /\ dq[h].head \in Nat
         /\ dq[h].len <= dq[h].cap
         /\ dq[h].cap > 0 =>
              /\ dq[h].head < dq[h].cap
              /\ mem[dq[h].data].cells \in [0 .. dq[h].cap - 1 -> Cells]
         /\ Exchanges(dq[h], mem, dq[h], mem)
<1>1. IsMemory(mem) /\ StructOK(dq[h], mem) /\ dq[h] \in Deques
  BY SoundFacts DEF IInv, Alive
<1>2. QED
  BY <1>1, StructFacts, NoExchange DEF StructOK, BlockOf

(* And of the ring a granted request for room makes.                       *)
LEMMA MadeFacts ==
  ASSUME NEW d0, NEW m0, NEW d, NEW m, Exchanges(d0, m0, d, m)
  PROVE  /\ d \in Deques /\ StructOK(d, m)
         /\ d.len \in Nat /\ d.cap \in Nat /\ d.head \in Nat
         /\ d.cap > 0 =>
              /\ d.head < d.cap
              /\ m[d.data].cells \in [0 .. d.cap - 1 -> Cells]
<1>1. StructOK(d, m)
  BY DEF Exchanges
<1>2. QED
  BY <1>1, StructFacts DEF StructOK, BlockOf

-----------------------------------------------------------------------------
(* Calls on one object, one by one.                                        *)

(* deque_set.                                                              *)
LEMMA SetKeeps ==
  ASSUME IInv, NEW h \in Handles, NEW i, NEW v \in Vals, Set(h, i, v)
  PROVE  IInv'
<1>1. Alive(h) /\ i \in 0 .. dq[h].len - 1
  BY DEF Set
<1>2. dq[h].cap > 0
  BY <1>1, LiveFacts
<1>3. PICK cells : cells = PutElem(dq[h], mem[dq[h].data].cells, i, v)
  OBVIOUS
<1>4. cells \in [0 .. dq[h].cap - 1 -> Cells]
  BY <1>1, <1>2, <1>3, LiveFacts, PutElemIsCells
<1>5. CommitCells(h, dq[h], mem, cells)
  BY <1>3 DEF Set
<1>6. QED
  BY <1>1, <1>2, <1>4, <1>5, LiveFacts, CommitCellsKeeps

(* What a slide of the front end gives is a slot.                          *)
LEMMA StepsAreSlots ==
  ASSUME NEW d, d.cap \in Nat, d.head \in Nat, d.head < d.cap
  PROVE  /\ StepBack(d) \in Nat /\ StepBack(d) < d.cap
         /\ StepOn(d) \in Nat /\ StepOn(d) < d.cap
  BY DEF StepBack, StepOn

(* deque_push_front.                                                       *)
LEMMA PushFrontKeeps ==
  ASSUME IInv, NEW h \in Handles, NEW v \in Vals, NEW room \in Rooms, NEW b \in Blocks,
         PushFront(h, v, room, b)
  PROVE  IInv'
<1>1. Alive(h) /\ mem[b] = Null
  BY DEF PushFront, Fresh
<1>2. PICK r : r = ReserveOne(dq[h], mem, room, b)
  OBVIOUS
<1>3. Makes(r, dq[h], mem, dq[h].len + 1)
  BY <1>1, <1>2, LiveFacts, ReserveOneOK
<1>4. CASE r.st = NoMem
  BY <1>2, <1>4, DequeAssumption, StandStill DEF PushFront, Makes, Refuse, CommitCells, Commit, Answers
<1>5. CASE r.st = OK
  <2>1. /\ Exchanges(dq[h], mem, r.d, r.m) /\ r.d \in Deques
        /\ r.d.len + 1 <= r.d.cap /\ r.d.cap > 0
        /\ r.d.len \in Nat /\ r.d.cap \in Nat /\ r.d.head \in Nat /\ r.d.head < r.d.cap
        /\ r.m[r.d.data].cells \in [0 .. r.d.cap - 1 -> Cells]
    BY SMTT(40), <1>1, <1>3, <1>5, LiveFacts, MadeFacts DEF Makes
  <2>2. PICK k \in Nat : k = StepBack(r.d) /\ k < r.d.cap
    BY <2>1, StepsAreSlots
  <2>21. PICK n \in Nat : n = r.d.len + 1
    BY <2>1
  <2>22. PICK d : d = [r.d EXCEPT !.head = k, !.len = n]
    OBVIOUS
  <2>3. SameBlock(r.d, d, k, n)
    BY <2>1, <2>22 DEF SameBlock, Deques
  <2>4. PICK cells : cells = PutElem(d, r.m[d.data].cells, 0, v)
    OBVIOUS
  <2>5. cells \in [0 .. d.cap - 1 -> Cells]
    BY <2>1, <2>3, <2>4, PutElemIsCells DEF SameBlock
  <2>6. CommitCells(h, d, r.m, cells)
    BY <1>2, <1>5, <2>2, <2>21, <2>22, <2>4, DequeAssumption DEF PushFront
  <2>7. QED
    BY <1>1, <2>1, <2>2, <2>21, <2>3, <2>5, <2>6, CommitCellsKeeps DEF SameBlock
<1>6. QED
  BY <1>3, <1>4, <1>5 DEF Makes

(* deque_push_back.                                                        *)
LEMMA PushBackKeeps ==
  ASSUME IInv, NEW h \in Handles, NEW v \in Vals, NEW room \in Rooms, NEW b \in Blocks,
         PushBack(h, v, room, b)
  PROVE  IInv'
<1>1. Alive(h) /\ mem[b] = Null
  BY DEF PushBack, Fresh
<1>2. PICK r : r = ReserveOne(dq[h], mem, room, b)
  OBVIOUS
<1>3. Makes(r, dq[h], mem, dq[h].len + 1)
  BY <1>1, <1>2, LiveFacts, ReserveOneOK
<1>4. CASE r.st = NoMem
  BY <1>2, <1>4, DequeAssumption, StandStill DEF PushBack, Makes, Refuse, CommitCells, Commit, Answers
<1>5. CASE r.st = OK
  <2>1. /\ Exchanges(dq[h], mem, r.d, r.m) /\ r.d \in Deques
        /\ r.d.len + 1 <= r.d.cap /\ r.d.cap > 0
        /\ r.d.len \in Nat /\ r.d.cap \in Nat /\ r.d.head \in Nat /\ r.d.head < r.d.cap
        /\ r.m[r.d.data].cells \in [0 .. r.d.cap - 1 -> Cells]
    BY <1>1, <1>3, <1>5, LiveFacts, MadeFacts DEF Makes
  <2>2. PICK d : d = [r.d EXCEPT !.len = r.d.len + 1]
    OBVIOUS
  <2>3. SameBlock(r.d, d, r.d.head, r.d.len + 1)
    BY <2>1, <2>2 DEF SameBlock, Deques
  <2>4. PICK cells : cells = PutElem(r.d, r.m[d.data].cells, r.d.len, v)
    OBVIOUS
  <2>5. cells \in [0 .. d.cap - 1 -> Cells]
    BY <2>1, <2>3, <2>4, PutElemIsCells DEF SameBlock
  <2>6. CommitCells(h, d, r.m, cells)
    BY <1>2, <1>5, <2>2, <2>4, DequeAssumption DEF PushBack
  <2>7. QED
    BY <1>1, <2>1, <2>3, <2>5, <2>6, CommitCellsKeeps DEF SameBlock
<1>6. QED
  BY <1>3, <1>4, <1>5 DEF Makes

(* Only the ends of a deque are moved: deque_pop_front, deque_pop_back,    *)
(* deque_clear and a shorter deque_resize.                                 *)
LEMMA EndsMovedKeeps ==
  ASSUME IInv, NEW h \in Handles, Alive(h), NEW k \in Nat, NEW n \in Nat,
         n <= dq[h].cap, dq[h].cap = 0 => k = 0, dq[h].cap > 0 => k < dq[h].cap,
         NEW d, SameBlock(dq[h], d, k, n), Commit(h, d, mem)
  PROVE  IInv'
<1>1. Exchanges(dq[h], mem, d, mem)
  BY LiveFacts, EndsMoved DEF SameBlock
<1>2. QED
  BY <1>1, CommitKeeps

(* deque_pop_front.                                                        *)
LEMMA PopFrontKeeps ==
  ASSUME IInv, NEW h \in Handles, PopFront(h)
  PROVE  IInv'
<1>1. Alive(h) /\ dq[h].len > 0
  BY DEF PopFront
<1>2. /\ dq[h] \in Deques /\ dq[h].len - 1 \in Nat /\ dq[h].len - 1 <= dq[h].cap
      /\ dq[h].cap > 0
      /\ dq[h].cap \in Nat /\ StepOn(dq[h]) \in Nat /\ StepOn(dq[h]) < dq[h].cap
  BY <1>1, LiveFacts, StepsAreSlots
<1>3. PICK d : d = [dq[h] EXCEPT !.head = StepOn(dq[h]), !.len = dq[h].len - 1]
  OBVIOUS
<1>4. SameBlock(dq[h], d, StepOn(dq[h]), dq[h].len - 1)
  BY <1>2, <1>3 DEF SameBlock, Deques
<1>5. Commit(h, d, mem)
  BY <1>3 DEF PopFront
<1>6. QED
  BY <1>1, <1>2, <1>4, <1>5, EndsMovedKeeps

(* deque_pop_back.                                                         *)
LEMMA PopBackKeeps ==
  ASSUME IInv, NEW h \in Handles, PopBack(h)
  PROVE  IInv'
<1>1. Alive(h) /\ dq[h].len > 0
  BY DEF PopBack
<1>2. /\ dq[h] \in Deques /\ dq[h].len - 1 \in Nat /\ dq[h].len - 1 <= dq[h].cap
      /\ dq[h].cap > 0
      /\ dq[h].cap \in Nat /\ dq[h].head \in Nat /\ dq[h].head < dq[h].cap
  BY <1>1, LiveFacts
<1>3. PICK d : d = [dq[h] EXCEPT !.len = dq[h].len - 1]
  OBVIOUS
<1>4. SameBlock(dq[h], d, dq[h].head, dq[h].len - 1)
  BY <1>2, <1>3 DEF SameBlock, Deques
<1>5. Commit(h, d, mem)
  BY <1>3 DEF PopBack
<1>6. QED
  BY <1>1, <1>2, <1>4, <1>5, EndsMovedKeeps

(* deque_clear.                                                            *)
LEMMA ClearKeeps ==
  ASSUME IInv, NEW h \in Handles, Clear(h)
  PROVE  IInv'
<1>1. Alive(h)
  BY DEF Clear
<1>2. dq[h] \in Deques /\ dq[h].cap \in Nat
  BY <1>1, LiveFacts
<1>3. PICK d : d = [dq[h] EXCEPT !.len = 0, !.head = 0]
  OBVIOUS
<1>4. SameBlock(dq[h], d, 0, 0)
  BY <1>2, <1>3 DEF Deques, SameBlock
<1>5. Commit(h, d, mem)
  BY <1>3 DEF Clear
<1>6. QED
  BY <1>1, <1>2, <1>4, <1>5, EndsMovedKeeps

(* deque_insert: at the front half, at the back half, or refused.          *)
LEMMA InsertKeeps ==
  ASSUME IInv, NEW h \in Handles, NEW idx, NEW v \in Vals, NEW room \in Rooms,
         NEW b \in Blocks, Insert(h, idx, v, room, b)
  PROVE  IInv'
<1>1. Alive(h) /\ mem[b] = Null /\ idx \in 0 .. dq[h].len
  BY DEF Insert, Fresh
<1>2. PICK r : r = ReserveOne(dq[h], mem, room, b)
  OBVIOUS
<1>3. Makes(r, dq[h], mem, dq[h].len + 1)
  BY SMTT(40), <1>1, <1>2, LiveFacts, ReserveOneOK
<1>4. CASE r.st = NoMem
  BY <1>2, <1>4, DequeAssumption, StandStill DEF Insert, Makes, Refuse, CommitCells, Commit, Answers
<1>5. CASE r.st = OK
  <2>1. /\ Exchanges(dq[h], mem, r.d, r.m) /\ r.d \in Deques
        /\ r.d.len + 1 <= r.d.cap /\ r.d.cap > 0 /\ r.d.len = dq[h].len
        /\ r.d.len \in Nat /\ r.d.cap \in Nat /\ r.d.head \in Nat /\ r.d.head < r.d.cap
        /\ r.m[r.d.data].cells \in [0 .. r.d.cap - 1 -> Cells]
    BY SMTT(40), <1>1, <1>3, <1>5, LiveFacts, MadeFacts DEF Makes
  <2>2. PICK k \in Nat : k = StepBack(r.d) /\ k < r.d.cap
    BY <2>1, StepsAreSlots
  <2>3. PICK n \in Nat : n = r.d.len + 1
    BY <2>1
  <2>4. PICK front : front = [r.d EXCEPT !.head = k, !.len = n]
    OBVIOUS
  <2>5. PICK back : back = [r.d EXCEPT !.len = n]
    OBVIOUS
  <2>6. SameBlock(r.d, front, k, n) /\ SameBlock(r.d, back, r.d.head, n)
    <3>1. SameBlock(r.d, front, k, n)
      BY <2>1, <2>4 DEF SameBlock, Deques
    <3>2. SameBlock(r.d, back, r.d.head, n)
      BY <2>1, <2>5 DEF SameBlock, Deques
    <3>3. QED
      BY <3>1, <3>2
  <2>7. PICK cells : cells = r.m[r.d.data].cells
    OBVIOUS
  <2>8. PICK atFront :
          atFront = PutElem(front, ShiftRun(front, cells, 0 .. idx - 1, 1), idx, v)
    OBVIOUS
  <2>9. PICK atBack :
          atBack = PutElem(back, ShiftRun(back, cells, idx + 1 .. r.d.len, -1), idx, v)
    OBVIOUS
  <2>10. atFront \in [0 .. front.cap - 1 -> Cells]
    <3>1. \A i \in 0 .. idx - 1 : i + 1 \in 0 .. front.cap
      BY <1>1, <2>1, <2>6 DEF SameBlock
    <3>2. ShiftRun(front, cells, 0 .. idx - 1, 1) \in [0 .. front.cap - 1 -> Cells]
      BY <2>1, <2>2, <2>6, <2>7, <3>1, ShiftRunIsCells DEF SameBlock
    <3>3. QED
      BY <2>1, <2>6, <2>8, <3>2, PutElemIsCells DEF SameBlock
  <2>11. atBack \in [0 .. back.cap - 1 -> Cells]
    <3>1. \A i \in idx + 1 .. r.d.len : i + -1 \in 0 .. back.cap
      BY <1>1, <2>1, <2>6 DEF SameBlock
    <3>2. ShiftRun(back, cells, idx + 1 .. r.d.len, -1) \in [0 .. back.cap - 1 -> Cells]
      BY ZenonT(40), <2>1, <2>6, <2>7, <3>1, ShiftRunIsCells DEF SameBlock
    <3>3. QED
      BY <2>1, <2>6, <2>9, <3>2, PutElemIsCells DEF SameBlock
  <2>12. \/ CommitCells(h, front, r.m, atFront)
         \/ CommitCells(h, back, r.m, atBack)
    BY ZenonT(40), <1>2, <1>5, <2>2, <2>3, <2>4, <2>5, <2>7, <2>8, <2>9, DequeAssumption DEF Insert
  <2>13. CASE CommitCells(h, front, r.m, atFront)
    BY <1>1, <2>1, <2>2, <2>3, <2>6, <2>10, <2>13, CommitCellsKeeps DEF SameBlock
  <2>14. CASE CommitCells(h, back, r.m, atBack)
    BY <1>1, <2>1, <2>3, <2>6, <2>11, <2>14, CommitCellsKeeps DEF SameBlock
  <2>15. QED
    BY <2>12, <2>13, <2>14
<1>6. QED
  BY <1>3, <1>4, <1>5 DEF Makes

(* deque_remove.                                                           *)
LEMMA RemoveKeeps ==
  ASSUME IInv, NEW h \in Handles, NEW idx, Remove(h, idx)
  PROVE  IInv'
<1>1. PICK d : d = dq[h]
  OBVIOUS
<1>2. Alive(h) /\ idx \in 0 .. d.len - 1
  BY <1>1 DEF Remove
<1>3. /\ d \in Deques /\ d.len \in Nat /\ d.cap \in Nat /\ d.head \in Nat
      /\ d.len <= d.cap /\ d.cap > 0 /\ d.head < d.cap
      /\ mem[d.data].cells \in [0 .. d.cap - 1 -> Cells]
      /\ Exchanges(dq[h], mem, d, mem)
  BY <1>1, <1>2, LiveFacts
<1>4. PICK k \in Nat : k = StepOn(d) /\ k < d.cap
  BY <1>3, StepsAreSlots
<1>5. PICK n \in Nat : n = d.len - 1
  BY <1>2, <1>3
<1>6. PICK front : front = [d EXCEPT !.head = k, !.len = n]
  OBVIOUS
<1>7. PICK back : back = [d EXCEPT !.len = n]
  OBVIOUS
<1>8. SameBlock(d, front, k, n)
  BY <1>3, <1>6 DEF SameBlock, Deques
<1>9. SameBlock(d, back, d.head, n)
  BY <1>3, <1>7 DEF SameBlock, Deques
<1>10. PICK atFront : atFront = ShiftRun(d, mem[d.data].cells, 1 .. idx, -1)
  OBVIOUS
<1>11. PICK atBack : atBack = ShiftRun(d, mem[d.data].cells, idx .. d.len - 2, 1)
  OBVIOUS
<1>12. atFront \in [0 .. d.cap - 1 -> Cells]
  <2>1. \A i \in 1 .. idx : i + -1 \in 0 .. d.cap
    BY <1>2, <1>3
  <2>2. QED
    BY <1>3, <1>10, <2>1, ShiftRunIsCells
<1>13. atBack \in [0 .. d.cap - 1 -> Cells]
  <2>1. \A i \in idx .. d.len - 2 : i + 1 \in 0 .. d.cap
    BY <1>2, <1>3
  <2>2. QED
    BY <1>3, <1>11, <2>1, ShiftRunIsCells
<1>14. CommitCells(h, front, mem, atFront) \/ CommitCells(h, back, mem, atBack)
  BY <1>1, <1>4, <1>5, <1>6, <1>7, <1>10, <1>11 DEF Remove
<1>15. CASE CommitCells(h, front, mem, atFront)
  BY SMTT(40), <1>2, <1>3, <1>4, <1>5, <1>8, <1>12, <1>15, CommitCellsKeeps DEF SameBlock
<1>16. CASE CommitCells(h, back, mem, atBack)
  BY <1>2, <1>3, <1>5, <1>9, <1>13, <1>16, CommitCellsKeeps DEF SameBlock
<1>17. QED
  BY <1>14, <1>15, <1>16

(* deque_reserve.                                                          *)
LEMMA ReserveCapKeeps ==
  ASSUME IInv, NEW h \in Handles, NEW n \in Nat, NEW room \in Rooms, NEW b \in Blocks,
         ReserveCap(h, n, room, b)
  PROVE  IInv'
<1>1. Alive(h) /\ mem[b] = Null
  BY DEF ReserveCap, Fresh
<1>2. PICK r : r = Reserve(dq[h], mem, n, room, b)
  OBVIOUS
<1>3. Makes(r, dq[h], mem, n)
  BY <1>1, <1>2, LiveFacts, ReserveOK
<1>4. CASE r.st = NoMem
  BY <1>2, <1>4, DequeAssumption, StandStill DEF ReserveCap, Refuse, Answers
<1>5. CASE r.st = OK
  <2>1. Commit(h, r.d, r.m) /\ Exchanges(dq[h], mem, r.d, r.m)
    BY <1>2, <1>3, <1>5, DequeAssumption DEF ReserveCap, Makes
  <2>2. QED
    BY <1>1, <2>1, CommitKeeps
<1>6. QED
  BY <1>3, <1>4, <1>5 DEF Makes

(* deque_resize.                                                           *)
LEMMA ResizeKeeps ==
  ASSUME IInv, NEW h \in Handles, NEW n \in Nat, NEW room \in Rooms, NEW b \in Blocks,
         Resize(h, n, room, b)
  PROVE  IInv'
<1>1. Alive(h) /\ mem[b] = Null
  BY DEF Resize, Fresh
<1>2. PICK d : d = dq[h]
  OBVIOUS
<1>3. /\ d \in Deques /\ d.len \in Nat /\ d.cap \in Nat /\ d.head \in Nat /\ d.len <= d.cap
      /\ d.cap > 0 => d.head < d.cap
      /\ Exchanges(dq[h], mem, d, mem) /\ StructOK(d, mem) /\ IsMemory(mem)
  BY <1>1, <1>2, LiveFacts
<1>4. CASE n <= d.len
  <2>1. PICK e : e = [d EXCEPT !.len = n]
    OBVIOUS
  <2>2. SameBlock(d, e, d.head, n)
    BY <1>3, <2>1 DEF SameBlock, Deques
  <2>3. Commit(h, e, mem)
    BY <1>2, <1>3, <1>4, <2>1 DEF Resize
  <2>4. d.cap = 0 => d.head = 0
    BY <1>3 DEF StructOK
  <2>5. QED
    BY <1>1, <1>2, <1>3, <1>4, <2>2, <2>3, <2>4, EndsMovedKeeps
<1>5. CASE ~(n <= d.len)
  <2>1. PICK r : r = IF n > d.cap THEN ReserveFor(d, mem, n, room, b) ELSE Untouched(OK, d, mem)
    OBVIOUS
  <2>2. Makes(r, d, mem, n)
    <3>1. CASE n > d.cap
      BY <1>1, <1>3, <2>1, <3>1, ReserveForOK
    <3>2. CASE ~(n > d.cap)
      <4>1. r = [st |-> OK, d |-> d, m |-> mem]
        BY <2>1, <3>2 DEF Untouched
      <4>2. QED
        BY <1>2, <1>3, <3>2, <4>1 DEF Makes
    <3>3. QED
      BY <3>1, <3>2
  <2>3. CASE r.st = NoMem
    <3>1. Refuse
      BY <1>2, <1>3, <1>5, <2>1, <2>3, DequeAssumption DEF Resize
    <3>2. QED
      BY <3>1, StandStill DEF Refuse, Answers
  <2>4. CASE r.st = OK
    <3>1. Exchanges(dq[h], mem, r.d, r.m) /\ r.d.cap >= n
      BY <1>2, <2>2, <2>4 DEF Makes
    <3>2. /\ r.d \in Deques /\ r.d.cap \in Nat /\ r.d.cap > 0
          /\ r.d.head \in Nat /\ r.d.head < r.d.cap
          /\ r.m[r.d.data].cells \in [0 .. r.d.cap - 1 -> Cells]
      BY SMTT(40), <1>3, <1>5, <3>1, MadeFacts
    <3>3. PICK e : e = [r.d EXCEPT !.len = n]
      OBVIOUS
    <3>4. SameBlock(r.d, e, r.d.head, n)
      BY ZenonT(40), <3>2, <3>3 DEF SameBlock, Deques
    <3>5. PICK cells : cells = ZeroRun(r.d, r.m[r.d.data].cells, d.len .. n - 1)
      OBVIOUS
    <3>6. cells \in [0 .. e.cap - 1 -> Cells]
      BY ZenonT(40), <3>2, <3>4, <3>5, ZeroRunIsCells DEF SameBlock
    <3>7. CommitCells(h, e, r.m, cells)
      BY ZenonT(40), <1>2, <1>3, <1>5, <2>1, <2>4, <3>3, <3>5, DequeAssumption DEF Resize
    <3>8. QED
      BY <1>1, <3>1, <3>2, <3>4, <3>6, <3>7, CommitCellsKeeps DEF SameBlock
  <2>5. QED
    BY <2>2, <2>3, <2>4 DEF Makes
<1>6. QED
  BY <1>4, <1>5

(* An emptied struct owns nothing.                                         *)
LEMMA ReleasedFacts ==
  ASSUME NEW d, NEW m0, StructOK(d, m0), NEW m
  PROVE  /\ StructOK(Released(d), m)
         /\ Released(d) \in Deques /\ Released(d).data = Null /\ Released(d).al = d.al
<1>1. PICK e : e = Released(d)
  OBVIOUS
<1>2. d \in Deques
  BY DEF StructOK
<1>3. /\ e \in Deques /\ e.data = Null /\ e.len = 0 /\ e.cap = 0 /\ e.head = 0
      /\ e.al = d.al
  BY <1>1, <1>2 DEF Released, Deques
<1>4. CapBytes(e) <= SizeMax \div 2
  BY <1>3, HalfAndHalf, DequeAssumption DEF CapBytes
<1>5. StructOK(e, m)
  BY <1>3, <1>4 DEF StructOK
<1>6. QED
  BY <1>1, <1>3, <1>5

(* deque_shrink_to_fit: nothing to do, everything to give back, refused,   *)
(* or a tighter block.                                                     *)
LEMMA ShrinkToFitKeeps ==
  ASSUME IInv, NEW h \in Handles, NEW room \in Rooms, NEW b \in Blocks,
         ShrinkToFit(h, room, b)
  PROVE  IInv'
<1>1. Alive(h) /\ mem[b] = Null
  BY DEF ShrinkToFit, Fresh
<1>2. PICK d : d = dq[h]
  OBVIOUS
<1>3. d \in Deques /\ d.len \in Nat /\ StructOK(d, mem) /\ IsMemory(mem)
      /\ d.data \in Blocks \cup {Null}
  BY <1>1, <1>2, LiveFacts, StructFacts
<1>4. CASE Nothing \/ Refuse
  BY <1>4, StandStill DEF Nothing, Refuse, Answers
<1>5. CASE Commit(h, Released(d), GiveBack(mem, d.data, d.al, CapBytes(d)))
  <2>1. PICK m : m = GiveBack(mem, d.data, d.al, CapBytes(d))
    OBVIOUS
  <2>2. IsMemory(m) /\ \A c \in Blocks : m[c] = IF c = d.data THEN Null ELSE mem[c]
    BY <1>3, <2>1, GivingBack
  <2>3. PICK e : e = Released(d)
    OBVIOUS
  <2>4. StructOK(e, m) /\ e.data = Null /\ e.al = d.al
    BY <1>3, <2>3, ReleasedFacts
  <2>5. Exchanges(d, mem, e, m)
    BY <1>3, <2>2, <2>4 DEF Exchanges
  <2>6. QED
    BY <1>1, <1>2, <1>5, <2>1, <2>3, <2>5, CommitKeeps
<1>6. CASE /\ 0 < d.len /\ Granted(LenBytes(d), room)
           /\ Commit(h, Relocate(d, mem, d.len, b).d, Relocate(d, mem, d.len, b).m)
  <2>1. d.len * ElemSize <= SizeMax \div 2
    <3>1. room \in Nat /\ room <= SizeMax \div 2
      BY RoomAssumption, HalfAndHalf
    <3>2. d.len * ElemSize <= room /\ d.len * ElemSize \in Nat
      BY <1>3, <1>6, CapWithinBytes DEF Granted, LenBytes
    <3>3. QED
      BY <3>1, <3>2, HalfAndHalf
  <2>2. Exchanges(d, mem, Relocate(d, mem, d.len, b).d, Relocate(d, mem, d.len, b).m)
    BY <1>1, <1>3, <1>6, <2>1, RelocateOK
  <2>3. QED
    BY <1>1, <1>2, <1>6, <2>2, CommitKeeps
<1>7. QED
  BY <1>2, <1>4, <1>5, <1>6 DEF ShrinkToFit

(* deque_swap_elems.                                                       *)
LEMMA SwapElemsKeeps ==
  ASSUME IInv, NEW h \in Handles, NEW i, NEW j, SwapElems(h, i, j)
  PROVE  IInv'
<1>1. PICK d : d = dq[h]
  OBVIOUS
<1>2. Alive(h) /\ i \in 0 .. d.len - 1 /\ j \in 0 .. d.len - 1
  BY <1>1 DEF SwapElems
<1>3. /\ d \in Deques /\ d.len \in Nat /\ d.cap \in Nat /\ d.head \in Nat
      /\ d.len <= d.cap /\ d.cap > 0 /\ d.head < d.cap
      /\ mem[d.data].cells \in [0 .. d.cap - 1 -> Cells]
      /\ Exchanges(dq[h], mem, d, mem)
  BY <1>1, <1>2, LiveFacts
<1>4. PICK x \in 0 .. d.cap - 1 : x = SlotOf(d, i)
  BY <1>2, <1>3, SlotIsInBlock
<1>5. PICK y \in 0 .. d.cap - 1 : y = SlotOf(d, j)
  BY SMTT(40), <1>2, <1>3, SlotIsInBlock
<1>6. PICK old \in [0 .. d.cap - 1 -> Cells] : old = mem[d.data].cells
  BY <1>3
<1>7. PICK cells : cells = [old EXCEPT ![x] = old[y], ![y] = old[x]]
  OBVIOUS
<1>8. cells \in [0 .. d.cap - 1 -> Cells]
  BY <1>7
<1>9. CommitCells(h, d, mem, cells)
  BY <1>1, <1>4, <1>5, <1>6, <1>7 DEF SwapElems
<1>10. QED
  BY <1>2, <1>3, <1>8, <1>9, CommitCellsKeeps

(* deque_copy_from_span.                                                   *)
LEMMA CopyFromSpanKeeps ==
  ASSUME IInv, NEW h \in Handles, NEW s \in Inputs, CopyFromSpan(h, s)
  PROVE  IInv'
<1>1. Alive(h) /\ Len(s) = dq[h].len /\ s \in Seq(Vals)
  BY DequeAssumption DEF CopyFromSpan
<1>2. CASE Nothing
  BY <1>2, StandStill DEF Nothing, Answers
<1>3. CASE s # <<>> /\ CommitCells(h, dq[h], mem, CopyIn(dq[h], mem[dq[h].data].cells, s))
  <2>1. Len(s) > 0
    BY <1>1, <1>3
  <2>2. dq[h].cap > 0
    BY <1>1, <2>1, LiveFacts
  <2>3. PICK cells : cells = CopyIn(dq[h], mem[dq[h].data].cells, s)
    OBVIOUS
  <2>4. cells \in [0 .. dq[h].cap - 1 -> Cells]
    BY <1>1, <2>2, <2>3, LiveFacts, CopyInIsCells
  <2>5. QED
    BY <1>1, <1>3, <2>2, <2>3, <2>4, LiveFacts, CommitCellsKeeps
<1>4. QED
  BY <1>2, <1>3 DEF CopyFromSpan

-----------------------------------------------------------------------------
(* Lifetime.                                                               *)

(* deque_drop.                                                             *)
LEMMA DropKeeps ==
  ASSUME IInv, NEW h \in Handles, Drop(h)
  PROVE  IInv'
<1>1. Alive(h) /\ dq[h] # Null /\ Sound(dq, mem) /\ HeadersCounted(dq, hdrs)
  BY DEF Drop, IInv, Alive
<1>2. PICK m : m = GiveBack(mem, dq[h].data, dq[h].al, CapBytes(dq[h]))
  OBVIOUS
<1>3. IsMemory(m) /\ \A c \in Blocks : m[c] = IF c = dq[h].data THEN Null ELSE mem[c]
  BY <1>1, <1>2, LiveFacts, GivingBack
<1>4. dq \in [Handles -> Deques \cup {Null}]
  BY <1>1 DEF Sound
<1>5. Sound([dq EXCEPT ![h] = Null], m)
  BY <1>1, <1>3, DropIsSound
<1>6. HeadersCounted([dq EXCEPT ![h] = Null], ReturnHdr(hdrs, dq[h].al))
  BY <1>1, <1>4, HeaderReturned
<1>7. QED
  BY <1>2, <1>5, <1>6 DEF Drop, IInv, Answers

(* What a new struct of n elems and its block are.                         *)
LEMMA NewStructFacts ==
  ASSUME NEW m, IsMemory(m), NEW a \in Als, NEW cap \in Nat,
         NEW len \in Nat, len <= cap, cap * ElemSize <= SizeMax \div 2,
         NEW b \in Blocks, NEW cells \in [0 .. cap - 1 -> Cells]
  PROVE  LET d == NewStruct(a, len, cap, b)
             full == NewMem(m, a, cap, b, cells)
         IN  /\ d \in Deques /\ d.al = a
             /\ d.data = IF cap = 0 THEN Null ELSE b
             /\ IsMemory(full) /\ StructOK(d, full)
             /\ \A c \in Blocks : c # d.data => full[c] = m[c]
<1>1. PICK d : d = NewStruct(a, len, cap, b)
  OBVIOUS
<1>2. PICK full : full = NewMem(m, a, cap, b, cells)
  OBVIOUS
<1>3. /\ d \in Deques /\ d.al = a /\ d.data = IF cap = 0 THEN Null ELSE b
      /\ d.len = len /\ d.cap = cap /\ d.head = 0
  BY <1>1 DEF NewStruct, Deques
<1>4. CASE cap = 0
  <2>1. full = m
    BY <1>2, <1>4 DEF NewMem
  <2>2. StructOK(d, full)
    BY <1>3, <1>4 DEF StructOK, CapBytes
  <2>3. QED
    BY <1>1, <1>2, <1>3, <2>1, <2>2
<1>5. CASE cap # 0
  <2>1. full = Lend(m, b, a, cap * ElemSize, cells)
    BY <1>2, <1>5 DEF NewMem
  <2>2. /\ IsMemory(full)
        /\ \A c \in Blocks : full[c] =
             IF c = b THEN [al |-> a, bytes |-> cap * ElemSize, cells |-> cells] ELSE m[c]
    BY <2>1, Lending
  <2>3. full[d.data] \in BlockOf(d)
    BY <1>3, <1>5, <2>2 DEF BlockOf, CapBytes
  <2>4. StructOK(d, full)
    BY <1>3, <1>5, <2>3, NullAssumption DEF StructOK, CapBytes
  <2>5. QED
    BY <1>1, <1>2, <1>3, <1>5, <2>2, <2>4
<1>6. QED
  BY <1>4, <1>5

(* A header taken and given back within a call was never there.            *)
LEMMA TakenAndReturned ==
  ASSUME NEW H \in [Als -> Nat], NEW a \in Als
  PROVE  ReturnHdr(TakeHdr(H, a), a) = H
<1>1. PICK K : K = TakeHdr(H, a)
  OBVIOUS
<1>2. K = [c \in Als |-> IF c = a THEN H[a] + 1 ELSE H[c]]
  BY <1>1 DEF TakeHdr
<1>3. PICK L : L = ReturnHdr(K, a)
  OBVIOUS
<1>4. L = [c \in Als |-> IF c = a THEN K[a] - 1 ELSE K[c]]
  BY <1>2, <1>3 DEF ReturnHdr
<1>5. \A c \in Als : L[c] = H[c]
  BY <1>2, <1>4
<1>6. L = H
  BY <1>4, <1>5
<1>7. QED
  BY <1>1, <1>3, <1>6

(* new_impl: no header, no block, or a deque.                              *)
LEMMA NewImplKeeps ==
  ASSUME IInv, NEW g \in Handles, NEW a \in Als, NEW len \in Nat, NEW cap \in Nat, len <= cap,
         NEW cells \in [0 .. cap - 1 -> Cells], NEW hdr, NEW room \in Rooms, NEW b \in Blocks,
         NewImpl(g, a, len, cap, cells, hdr, room, b)
  PROVE  IInv'
<1>1. dq[g] = Null /\ mem[b] = Null /\ Sound(dq, mem) /\ HeadersCounted(dq, hdrs)
  BY DEF NewImpl, Fresh, Alive, IInv
<1>2. dq \in [Handles -> Deques \cup {Null}] /\ IsMemory(mem) /\ hdrs \in [Als -> Nat]
  BY <1>1 DEF Sound, HeadersCounted
<1>3. CASE UNCHANGED <<dq, mem>> /\ status' = NoMem
           /\ (hdrs' = hdrs \/ hdrs' = ReturnHdr(TakeHdr(hdrs, a), a))
  <2>1. ReturnHdr(TakeHdr(hdrs, a), a) = hdrs
    BY <1>2, TakenAndReturned
  <2>2. QED
    BY <1>3, <2>1, StandStill DEF Answers
<1>4. CASE /\ ~(cap > 0 /\ BytesRefused(cap, room))
           /\ hdrs' = TakeHdr(hdrs, a)
           /\ dq' = [dq EXCEPT ![g] = NewStruct(a, len, cap, b)]
           /\ mem' = NewMem(mem, a, cap, b, cells)
           /\ status' = OK
  <2>1. cap * ElemSize <= SizeMax \div 2
    <3>1. CASE cap = 0
      BY <3>1, HalfAndHalf, DequeAssumption
    <3>2. CASE cap # 0
      BY <1>4, <3>2, GrantedBytes
    <3>3. QED
      BY <3>1, <3>2
  <2>2. PICK d : d = NewStruct(a, len, cap, b)
    OBVIOUS
  <2>3. PICK full : full = NewMem(mem, a, cap, b, cells)
    OBVIOUS
  <2>4. /\ d \in Deques /\ d.al = a
        /\ d.data = IF cap = 0 THEN Null ELSE b
        /\ IsMemory(full) /\ StructOK(d, full)
        /\ \A c \in Blocks : c # d.data => full[c] = mem[c]
    BY <1>2, <2>1, <2>2, <2>3, NewStructFacts
  <2>5. d.data # Null => mem[d.data] = Null
    BY <1>1, <2>4
  <2>6. Sound([dq EXCEPT ![g] = d], full)
    BY <1>1, <2>4, <2>5, BirthIsSound
  <2>7. HeadersCounted([dq EXCEPT ![g] = d], TakeHdr(hdrs, a))
    BY <1>1, <1>2, <2>4, HeaderTaken
  <2>8. QED
    BY <1>4, <2>2, <2>3, <2>6, <2>7 DEF IInv, Answers
<1>5. QED
  BY <1>3, <1>4 DEF NewImpl, Refuse

(* deque_new, _new_len, _new_cap and _from_data.                           *)
LEMMA BirthKeeps ==
  ASSUME IInv, NEW g \in Handles, NEW a \in Als, NEW hdr, NEW room \in Rooms, NEW b \in Blocks
  PROVE  /\ New(g, a, hdr, room, b) => IInv'
         /\ \A n \in Nat : NewLen(g, a, n, hdr, room, b) => IInv'
         /\ \A n \in Nat : NewCap(g, a, n, hdr, room, b) => IInv'
         /\ \A s \in Seq(Vals) : FromData(g, a, s, hdr, room, b) => IInv'
<1>1. New(g, a, hdr, room, b) => IInv'
  <2>1. Raw(0) \in [0 .. 0 - 1 -> Cells]
    BY RawIsCells
  <2>2. QED
    BY <2>1, NewImplKeeps DEF New
<1>2. ASSUME NEW n \in Nat, NewLen(g, a, n, hdr, room, b)
      PROVE  IInv'
  <2>1. PICK cells : cells = [i \in 0 .. n - 1 |-> Zero]
    OBVIOUS
  <2>2. cells \in [0 .. n - 1 -> Cells]
    BY <2>1 DEF Cells, Elems
  <2>3. NewImpl(g, a, n, n, cells, hdr, room, b)
    BY <1>2, <2>1 DEF NewLen
  <2>4. QED
    BY <2>2, <2>3, NewImplKeeps
<1>3. ASSUME NEW n \in Nat, NewCap(g, a, n, hdr, room, b)
      PROVE  IInv'
  BY <1>3, RawIsCells, NewImplKeeps DEF NewCap
<1>4. ASSUME NEW s \in Seq(Vals), FromData(g, a, s, hdr, room, b)
      PROVE  IInv'
  <2>1. PICK n \in Nat : n = Len(s)
    OBVIOUS
  <2>2. PICK cells : cells = [i \in 0 .. n - 1 |-> s[i + 1]]
    OBVIOUS
  <2>3. cells \in [0 .. n - 1 -> Cells]
    <3>1. \A i \in 0 .. n - 1 : s[i + 1] \in Cells
      BY <2>1 DEF Cells, Elems
    <3>2. QED
      BY <2>2, <3>1
  <2>4. NewImpl(g, a, n, n, cells, hdr, room, b)
    BY <1>4, <2>1, <2>2 DEF FromData
  <2>5. QED
    BY <2>3, <2>4, NewImplKeeps
<1>5. QED
  BY <1>1, <1>2, <1>3, <1>4

(* deque_copy, deque_copy_with.                                            *)
LEMMA CopyWithKeeps ==
  ASSUME IInv, NEW h \in Handles, NEW g \in Handles, NEW a \in Als, NEW hdr,
         NEW room \in Rooms, NEW b \in Blocks, CopyWith(h, g, a, hdr, room, b)
  PROVE  IInv'
<1>1. Alive(h)
  BY DEF CopyWith
<1>2. PICK n \in Nat : n = dq[h].len
  BY <1>1, LiveFacts
<1>3. PICK cells : cells = CopyOut(dq[h], mem, Raw(n))
  OBVIOUS
<1>4. cells \in [0 .. n - 1 -> Cells]
  BY <1>1, <1>3, LiveFacts, RawIsCells, CopyOutIsCells
<1>5. NewImpl(g, a, n, n, cells, hdr, room, b)
  BY <1>2, <1>3 DEF CopyWith
<1>6. QED
  BY <1>4, <1>5, NewImplKeeps

(* deque_copy_assign.                                                      *)
LEMMA CopyAssignKeeps ==
  ASSUME IInv, NEW h \in Handles, NEW g \in Handles, NEW room \in Rooms, NEW b \in Blocks,
         CopyAssign(h, g, room, b)
  PROVE  IInv'
<1>1. Alive(h) /\ Alive(g) /\ mem[b] = Null
  BY DEF CopyAssign, Fresh
<1>2. PICK n \in Nat : n = dq[h].len
  BY <1>1, LiveFacts
<1>3. PICK r : r = Reserve(dq[g], mem, n, room, b)
  OBVIOUS
<1>4. Makes(r, dq[g], mem, n)
  BY <1>1, <1>3, LiveFacts, ReserveOK
<1>5. PICK dst : dst = FromSlotZero(r.d, n)
  OBVIOUS
<1>6. CASE Nothing \/ Refuse
  BY <1>6, StandStill DEF Nothing, Refuse, Answers
<1>7. ASSUME r.st = OK
      PROVE  /\ Exchanges(dq[g], mem, r.d, r.m) /\ StructOK(r.d, r.m)
             /\ SameBlock(r.d, dst, 0, n) /\ n <= r.d.cap /\ r.d.cap \in Nat
  <2>1. /\ Exchanges(dq[g], mem, r.d, r.m) /\ StructOK(r.d, r.m) /\ r.d \in Deques
        /\ n <= r.d.cap /\ r.d.cap \in Nat
    BY <1>4, <1>7, MadeFacts DEF Makes
  <2>2. SameBlock(r.d, dst, 0, n)
    BY <1>5, <2>1 DEF SameBlock, FromSlotZero, Deques
  <2>3. QED
    BY <2>1, <2>2
<1>8. CASE r.st = OK /\ Commit(g, dst, r.m)
  <2>1. Exchanges(dq[g], mem, dst, r.m)
    BY <1>7, <1>8, EndsMoved DEF SameBlock
  <2>2. QED
    BY <1>1, <1>8, <2>1, CommitKeeps
<1>9. CASE /\ h # g /\ r.st = OK /\ n > 0
           /\ CommitCells(g, dst, r.m, CopyOut(dq[h], r.m, r.m[dst.data].cells))
  <2>1. StructOK(dq[h], r.m)
    <3>1. StructOK(dq[h], mem) /\ dq[h].data \in Blocks \cup {Null}
          /\ (dq[h].data # Null => mem[dq[h].data] # Null)
      BY <1>1, SoundFacts DEF Alive, IInv
    <3>2. dq[h].data # Null => dq[h].data # dq[g].data
      BY <1>1, <1>9 DEF Alive, IInv, Sound
    <3>3. dq[h].data # Null => r.m[dq[h].data] = mem[dq[h].data]
      BY <1>7, <1>9, <3>1, <3>2 DEF Exchanges
    <3>4. QED
      BY <3>1, <3>3 DEF StructOK
  <2>2. r.m[r.d.data].cells \in [0 .. r.d.cap - 1 -> Cells] /\ r.d.cap > 0
    BY <1>7, <1>9, MadeFacts
  <2>3. PICK old \in [0 .. r.d.cap - 1 -> Cells] : old = r.m[dst.data].cells
    BY <1>7, <1>9, <2>2 DEF SameBlock
  <2>4. PICK cells : cells = CopyOut(dq[h], r.m, old)
    OBVIOUS
  <2>5. cells \in [0 .. r.d.cap - 1 -> Cells]
    BY <1>7, <1>9, <2>1, <2>4, CopyOutIsCells
  <2>6. QED
    BY <1>1, <1>7, <1>9, <2>2, <2>3, <2>4, <2>5, CommitCellsKeeps DEF SameBlock
<1>10. QED
  BY <1>2, <1>3, <1>4, <1>5, <1>6, <1>8, <1>9 DEF CopyAssign, Makes

(* deque_swap, of two deques or of one with itself.                        *)
LEMMA SwapKeeps ==
  ASSUME IInv, NEW h \in Handles, NEW g \in Handles, Swap(h, g)
  PROVE  IInv'
<1>1. /\ Alive(h) /\ Alive(g) /\ dq[h].al = dq[g].al
      /\ dq' = [dq EXCEPT ![h] = dq[g], ![g] = dq[h]]
      /\ status' = OK /\ mem' = mem /\ hdrs' = hdrs
  BY DEF Swap
<1>2. dq \in [Handles -> Deques \cup {Null}] /\ Sound(dq, mem) /\ HeadersCounted(dq, hdrs)
  BY DEF IInv, Sound
<1>3. CASE h = g
  <2>1. dq' = dq
    BY <1>1, <1>2, <1>3
  <2>2. QED
    BY <1>1, <2>1, StandStill DEF Answers
<1>4. CASE h # g
  <2>1. /\ StructOK(dq[h], mem) /\ StructOK(dq[g], mem) /\ IsMemory(mem)
        /\ dq[h].data # Null => dq[h].data # dq[g].data
        /\ dq[h] # Null /\ dq[g] # Null
    BY <1>1, <1>4, LiveFacts DEF IInv, Sound, Alive
  <2>2. Sound([dq EXCEPT ![g] = dq[h], ![h] = dq[g]], mem)
    <3>1. PICK D, m, dg, dh : D = dq /\ m = mem /\ dg = dq[h] /\ dh = dq[g]
      OBVIOUS
    <3>2. /\ Sound(D, m) /\ D[h] # Null /\ D[g] # Null /\ IsMemory(m)
          /\ StructOK(dg, m) /\ StructOK(dh, m) /\ (dg.data # Null => dg.data # dh.data)
      BY <1>2, <2>1, <3>1
    <3>3. /\ \A c \in Blocks :
              c \notin {D[g].data, D[h].data, dg.data, dh.data} => m[c] = m[c]
          /\ \A c \in Blocks : c \in {D[g].data, D[h].data} \ {dg.data, dh.data} => m[c] = Null
          /\ \A c \in Blocks : c \in {dg.data, dh.data} \ {D[g].data, D[h].data} => m[c] = Null
      BY <3>1
    <3>4. Sound([D EXCEPT ![g] = dg, ![h] = dh], m)
      BY <1>4, <3>2, <3>3, PairIsSound
    <3>5. QED
      BY <3>1, <3>4
  <2>3. dq' = [dq EXCEPT ![g] = dq[h], ![h] = dq[g]]
    BY <1>1, <1>2, <1>4
  <2>4. HeadersCounted(dq', hdrs)
    BY <1>1, <1>2, <1>4, <2>1, HeadersStand
  <2>5. QED
    BY <1>1, <2>2, <2>3, <2>4 DEF IInv, Answers
<1>5. QED
  BY <1>3, <1>4

(* deque_move_assign within one allocator.                                 *)
LEMMA HandOverKeeps ==
  ASSUME IInv, NEW h \in Handles, NEW g \in Handles, h # g, Alive(h), Alive(g),
         dq[h].al = dq[g].al, HandOver(h, g)
  PROVE  IInv'
<1>1. PICK D, m0, dg, dh, m :
        /\ D = dq /\ m0 = mem /\ dg = dq[h] /\ dh = Released(dq[g])
        /\ m = GiveBack(mem, dq[g].data, dq[g].al, CapBytes(dq[g]))
  OBVIOUS
<1>2. /\ Sound(D, m0) /\ HeadersCounted(D, hdrs) /\ D \in [Handles -> Deques \cup {Null}]
      /\ D[h] # Null /\ D[g] # Null
      /\ StructOK(D[h], m0) /\ StructOK(D[g], m0) /\ IsMemory(m0)
      /\ D[h].data \in Blocks \cup {Null}
      /\ D[h].data # Null => D[h].data # D[g].data
  BY <1>1, SoundFacts DEF IInv, Alive, Sound
<1>3. IsMemory(m) /\ \A c \in Blocks : m[c] = IF c = D[g].data THEN Null ELSE m0[c]
  BY <1>1, <1>2, GivingBack
<1>4. StructOK(dh, m) /\ dh.data = Null /\ dh.al = D[g].al /\ dh # Null
  BY <1>1, <1>2, ReleasedFacts, StructFacts
<1>5. StructOK(dg, m)
  <2>1. D[h].data # Null => m[D[h].data] = m0[D[h].data]
    BY <1>2, <1>3
  <2>2. QED
    BY <1>1, <1>2, <2>1 DEF StructOK
<1>6. /\ dg.data # Null => dg.data # dh.data
      /\ \A c \in Blocks :
           c \notin {D[g].data, D[h].data, dg.data, dh.data} => m[c] = m0[c]
      /\ \A c \in Blocks : c \in {D[g].data, D[h].data} \ {dg.data, dh.data} => m[c] = Null
      /\ \A c \in Blocks : c \in {dg.data, dh.data} \ {D[g].data, D[h].data} => m0[c] = Null
  BY <1>1, <1>3, <1>4, NullAssumption
<1>61. /\ Sound(D, m0) /\ D[h] # Null /\ D[g] # Null /\ IsMemory(m)
       /\ StructOK(dg, m) /\ StructOK(dh, m)
  BY <1>2, <1>3, <1>4, <1>5
<1>7. Sound([D EXCEPT ![g] = dg, ![h] = dh], m)
  BY SMTT(40), <1>6, <1>61, PairIsSound
<1>8. HeadersCounted([D EXCEPT ![g] = dg, ![h] = dh], hdrs)
  BY ZenonT(40), <1>1, <1>2, <1>4, HeadersStand
<1>9. /\ dq' = [D EXCEPT ![g] = dg, ![h] = dh]
      /\ mem' = m /\ hdrs' = hdrs /\ status' \in Answers
  BY <1>1 DEF HandOver, Answers
<1>10. QED
  BY <1>7, <1>8, <1>9 DEF IInv

(* And between two: a copy replaces the target, and both old blocks go.    *)
LEMMA MoveACopyKeeps ==
  ASSUME IInv, NEW h \in Handles, NEW g \in Handles, h # g, Alive(h), Alive(g),
         NEW hdr, NEW room \in Rooms, NEW b \in Blocks, mem[b] = Null,
         MoveACopy(h, g, hdr, room, b)
  PROVE  IInv'
<1>1. PICK D, m0, n, al :
        D = dq /\ m0 = mem /\ n = dq[h].len /\ al = dq[g].al
  OBVIOUS
<1>2. /\ Sound(D, m0) /\ HeadersCounted(D, hdrs) /\ D \in [Handles -> Deques \cup {Null}]
      /\ D[h] # Null /\ D[g] # Null
      /\ StructOK(D[h], m0) /\ StructOK(D[g], m0) /\ IsMemory(m0)
      /\ n \in Nat /\ al \in Als
  BY <1>1, SoundFacts, StructFacts DEF IInv, Alive, Sound
<1>3. /\ D[h].data \in Blocks \cup {Null} /\ D[g].data \in Blocks \cup {Null}
      /\ D[h].data # Null => m0[D[h].data] # Null
      /\ D[g].data # Null => m0[D[g].data] # Null
  BY <1>2, SoundFacts
<1>4. PICK cells : cells = CopyOut(D[h], m0, Raw(n))
  OBVIOUS
<1>5. cells \in [0 .. n - 1 -> Cells]
  BY <1>2, <1>4, RawIsCells, CopyOutIsCells
<1>6. PICK full : full = NewMem(m0, al, n, b, cells)
  OBVIOUS
<1>7. PICK dg : dg = NewStruct(al, n, n, b)
  OBVIOUS
<1>8. PICK dh : dh = Released(D[h])
  OBVIOUS
<1>9. PICK rid : rid = GiveBack(full, D[g].data, D[g].al, CapBytes(D[g]))
  OBVIOUS
<1>10. PICK m : m = GiveBack(rid, D[h].data, D[h].al, CapBytes(D[h]))
  OBVIOUS
<1>11. CASE Refuse
  BY <1>11, StandStill DEF Refuse, Answers
<1>12. CASE n = 0 \/ ~BytesRefused(n, room)
  <2>1. n * ElemSize <= SizeMax \div 2
    <3>1. CASE n = 0
      BY <3>1, HalfAndHalf, DequeAssumption
    <3>2. CASE n # 0
      BY <1>2, <1>12, <3>2, GrantedBytes
    <3>3. QED
      BY <3>1, <3>2
  <2>2. /\ dg \in Deques /\ dg.al = al
        /\ dg.data = IF n = 0 THEN Null ELSE b
        /\ IsMemory(full) /\ StructOK(dg, full)
        /\ \A c \in Blocks : c # dg.data => full[c] = m0[c]
    BY <1>2, <1>5, <1>6, <1>7, <2>1, NewStructFacts
  <2>3. /\ m0[b] = Null /\ b # Null
        /\ D[h].data # Null => D[h].data # b /\ D[h].data # dg.data
        /\ D[g].data # Null => D[g].data # b /\ D[g].data # dg.data
    BY <1>1, <1>3, <2>2, NullAssumption
  <2>4. StructOK(D[g], full) /\ StructOK(D[h], full)
    <3>1. /\ D[g].data # Null => full[D[g].data] = m0[D[g].data]
          /\ D[h].data # Null => full[D[h].data] = m0[D[h].data]
      BY <1>3, <2>2, <2>3
    <3>2. QED
      BY <1>2, <3>1 DEF StructOK
  <2>5. IsMemory(rid) /\ \A c \in Blocks : rid[c] = IF c = D[g].data THEN Null ELSE full[c]
    BY <1>9, <2>2, <2>4, GivingBack
  <2>6. D[h].data # Null => D[h].data # D[g].data
    BY <1>2 DEF Sound
  <2>7. StructOK(D[h], rid)
    <3>1. D[h].data # Null => rid[D[h].data] = full[D[h].data]
      BY <1>3, <2>5, <2>6
    <3>2. QED
      BY <2>4, <3>1 DEF StructOK
  <2>8. IsMemory(m) /\ \A c \in Blocks : m[c] = IF c = D[h].data THEN Null ELSE rid[c]
    BY <1>10, <2>5, <2>7, GivingBack
  <2>9. StructOK(dh, m) /\ dh.data = Null /\ dh.al = D[h].al /\ dh # Null
    BY <1>2, <1>8, ReleasedFacts, StructFacts
  <2>10. StructOK(dg, m)
    <3>1. dg.data # Null => m[dg.data] = full[dg.data]
      BY <2>2, <2>3, <2>5, <2>8
    <3>2. QED
      BY <2>2, <3>1 DEF StructOK
  <2>11. /\ dg.data # Null => dg.data # dh.data
         /\ \A c \in Blocks :
              c \notin {D[g].data, D[h].data, dg.data, dh.data} => m[c] = m0[c]
         /\ \A c \in Blocks : c \in {D[g].data, D[h].data} \ {dg.data, dh.data} => m[c] = Null
         /\ \A c \in Blocks : c \in {dg.data, dh.data} \ {D[g].data, D[h].data} => m0[c] = Null
    BY <2>2, <2>3, <2>5, <2>8, <2>9, NullAssumption
  <2>111. /\ Sound(D, m0) /\ D[h] # Null /\ D[g] # Null /\ IsMemory(m)
          /\ StructOK(dg, m) /\ StructOK(dh, m)
    BY <1>2, <2>8, <2>9, <2>10
  <2>12. Sound([D EXCEPT ![g] = dg, ![h] = dh], m)
    BY <2>11, <2>111, PairIsSound
  <2>13. HeadersCounted([D EXCEPT ![g] = dg, ![h] = dh], hdrs)
    BY ZenonT(40), <1>1, <1>2, <2>2, <2>9, NullAssumption, HeadersStand
  <2>14. \/ Refuse
         \/ /\ dq' = [D EXCEPT ![g] = dg, ![h] = dh]
            /\ mem' = m /\ hdrs' = hdrs /\ status' = OK
    BY <1>1, <1>4, <1>6, <1>7, <1>8, <1>9, <1>10 DEF MoveACopy
  <2>15. QED
    BY <1>11, <2>12, <2>13, <2>14 DEF IInv, Answers
<1>13. QED
  BY <1>1, <1>11, <1>12 DEF MoveACopy

(* deque_move_assign.                                                      *)
LEMMA MoveAssignKeeps ==
  ASSUME IInv, NEW h \in Handles, NEW g \in Handles, NEW hdr, NEW room \in Rooms,
         NEW b \in Blocks, MoveAssign(h, g, hdr, room, b)
  PROVE  IInv'
<1>1. Alive(h) /\ Alive(g) /\ mem[b] = Null
  BY DEF MoveAssign, Fresh
<1>2. CASE Nothing
  BY <1>2, StandStill DEF Nothing, Answers
<1>3. CASE h # g /\ dq[h].al = dq[g].al /\ HandOver(h, g)
  BY <1>1, <1>3, HandOverKeeps
<1>4. CASE dq[h].al # dq[g].al /\ MoveACopy(h, g, hdr, room, b)
  <2>1. h # g
    BY <1>4
  <2>2. QED
    BY <1>1, <1>4, <2>1, MoveACopyKeeps
<1>5. QED
  BY <1>2, <1>3, <1>4 DEF MoveAssign

-----------------------------------------------------------------------------
(* The invariant, and what follows from it.                                *)

(* A call that may be refused, on one deque, keeps it.                     *)
LEMMA GrowStepKeeps ==
  ASSUME IInv, NEW h \in Handles, NEW room \in Rooms, NEW b \in Blocks, GrowStep(h, room, b)
  PROVE  IInv'
<1>1. ASSUME NEW v \in Vals, PushFront(h, v, room, b) PROVE IInv'
  BY <1>1, PushFrontKeeps
<1>2. ASSUME NEW v \in Vals, PushBack(h, v, room, b) PROVE IInv'
  BY <1>2, PushBackKeeps
<1>3. ASSUME NEW v \in Vals, NEW i \in Idxs(h), Insert(h, i, v, room, b) PROVE IInv'
  BY <1>3, InsertKeeps
<1>4. ASSUME NEW n \in Counts, ReserveCap(h, n, room, b) PROVE IInv'
  BY <1>4, ReserveCapKeeps, DequeAssumption
<1>5. ASSUME NEW n \in Counts, Resize(h, n, room, b) PROVE IInv'
  BY <1>5, ResizeKeeps, DequeAssumption
<1>6. ASSUME ShrinkToFit(h, room, b) PROVE IInv'
  BY <1>6, ShrinkToFitKeeps
<1>7. QED
  BY <1>1, <1>2, <1>3, <1>4, <1>5, <1>6 DEF GrowStep

(* So does one that cannot be.                                             *)
LEMMA PlainStepKeeps ==
  ASSUME IInv, NEW h \in Handles, PlainStep(h)
  PROVE  IInv'
<1>1. ASSUME Drop(h) PROVE IInv'
  BY <1>1, DropKeeps
<1>2. ASSUME NEW g \in Handles, Swap(h, g) PROVE IInv'
  BY <1>2, SwapKeeps
<1>3. ASSUME PopFront(h) PROVE IInv'
  BY <1>3, PopFrontKeeps
<1>4. ASSUME PopBack(h) PROVE IInv'
  BY <1>4, PopBackKeeps
<1>5. ASSUME Clear(h) PROVE IInv'
  BY <1>5, ClearKeeps
<1>6. ASSUME NEW i \in Idxs(h), Remove(h, i) PROVE IInv'
  BY <1>6, RemoveKeeps
<1>7. ASSUME NEW i \in Idxs(h), NEW v \in Vals, Set(h, i, v) PROVE IInv'
  BY <1>7, SetKeeps
<1>8. ASSUME NEW i \in Idxs(h), NEW j \in Idxs(h), SwapElems(h, i, j) PROVE IInv'
  BY <1>8, SwapElemsKeeps
<1>9. ASSUME NEW s \in Inputs, CopyFromSpan(h, s) PROVE IInv'
  BY <1>9, CopyFromSpanKeeps
<1>10. ASSUME NEW g \in Handles, NEW alike, Compare(h, g, alike) PROVE IInv'
  BY <1>10, StandStill DEF Compare, Answers
<1>11. QED
  BY <1>1, <1>2, <1>3, <1>4, <1>5, <1>6, <1>7, <1>8, <1>9, <1>10 DEF PlainStep

(* So do the births and the calls on two deques.                           *)
LEMMA BirthAndPairStepsKeep ==
  ASSUME IInv, NEW g \in Handles, NEW room \in Rooms, NEW b \in Blocks
  PROVE  /\ BirthStep(g, room, b) => IInv'
         /\ \A h \in Handles : PairStep(h, g, room, b) => IInv'
<1>1. ASSUME NEW a \in Als, NEW hdr \in BOOLEAN, New(g, a, hdr, room, b) PROVE IInv'
  BY <1>1, BirthKeeps
<1>2. ASSUME NEW a \in Als, NEW hdr \in BOOLEAN, NEW n \in Counts,
             NewLen(g, a, n, hdr, room, b) \/ NewCap(g, a, n, hdr, room, b)
      PROVE  IInv'
  BY <1>2, BirthKeeps, DequeAssumption
<1>3. ASSUME NEW a \in Als, NEW hdr \in BOOLEAN, NEW s \in Inputs,
             FromData(g, a, s, hdr, room, b)
      PROVE  IInv'
  BY <1>3, BirthKeeps, DequeAssumption
<1>4. ASSUME NEW a \in Als, NEW hdr \in BOOLEAN, NEW h \in Handles,
             CopyWith(h, g, a, hdr, room, b)
      PROVE  IInv'
  BY <1>4, CopyWithKeeps
<1>5. BirthStep(g, room, b) => IInv'
  BY <1>1, <1>2, <1>3, <1>4 DEF BirthStep
<1>6. ASSUME NEW h \in Handles, PairStep(h, g, room, b) PROVE IInv'
  BY <1>6, CopyAssignKeeps, MoveAssignKeeps DEF PairStep
<1>7. QED
  BY <1>5, <1>6

(* IInv is inductive: every call of every deque, granted or refused, of a  *)
(* good state makes a good state.                                          *)
LEMMA Inductive ==
  ASSUME IInv, [Next]_vars
  PROVE  IInv'
<1>1. CASE UNCHANGED vars
  <2>1. UNCHANGED <<dq, mem, hdrs>> /\ status' = status
    BY <1>1 DEF vars
  <2>2. QED
    BY <2>1, StandStill DEF IInv
<1>2. CASE Next
  <2>1. PICK h \in Handles :
          \/ PlainStep(h)
          \/ \E room \in Rooms, b \in Blocks :
               \/ BirthStep(h, room, b)
               \/ GrowStep(h, room, b)
               \/ \E g \in Handles : PairStep(h, g, room, b)
    BY <1>2 DEF Next
  <2>2. CASE PlainStep(h)
    BY <2>2, PlainStepKeeps
  <2>3. ASSUME NEW room \in Rooms, NEW b \in Blocks,
               \/ BirthStep(h, room, b)
               \/ GrowStep(h, room, b)
               \/ \E g \in Handles : PairStep(h, g, room, b)
        PROVE  IInv'
    BY <2>3, GrowStepKeeps, BirthAndPairStepsKeep
  <2>4. QED
    BY <2>1, <2>2, <2>3
<1>3. QED
  BY <1>1, <1>2

(* In every reachable state of any number of deques, structs and blocks    *)
(* fit together and every header is accounted for.                         *)
THEOREM AlwaysSound ==
  Spec => []IInv
<1>1. Init => IInv
  BY InitSound
<1>2. IInv /\ [Next]_vars => IInv'
  BY Inductive
<1>3. QED
  BY <1>1, <1>2, PTL DEF Spec

(* The variables keep their types: a struct is a struct, a lent block is   *)
(* as many cells as it was asked for, and no count of headers goes below   *)
(* zero.                                                                   *)
THEOREM TypeCorrect ==
  Spec => []TypeOK
<1>1. IInv => TypeOK
  <2>1. SUFFICES ASSUME IInv PROVE TypeOK
    OBVIOUS
  <2>2. ASSUME NEW b \in Blocks, mem[b] # Null
        PROVE  \E n \in 0 .. SizeMax : mem[b] \in LentBlock(n)
    <3>1. PICK h \in Handles : dq[h] # Null /\ dq[h].data = b
      BY <2>1, <2>2 DEF IInv, Sound
    <3>2. StructOK(dq[h], mem) /\ dq[h] \in Deques
      BY <2>1, <3>1, SoundFacts DEF IInv
    <3>3. mem[b] \in BlockOf(dq[h]) /\ CapBytes(dq[h]) <= SizeMax
      <4>1. mem[b] \in BlockOf(dq[h]) /\ CapBytes(dq[h]) \in Nat
        BY <3>1, <3>2, StructFacts, NullAssumption
      <4>2. QED
        BY <3>2, <4>1, HalfAndHalf, DequeAssumption DEF StructOK
    <3>4. QED
      BY <3>2, <3>3, BlockIsNotNull
  <2>3. QED
    BY <2>1, <2>2 DEF IInv, Sound, HeadersCounted, TypeOK, IsMemory
<1>2. QED
  BY <1>1, AlwaysSound, PTL

(* What ASSERT_DEQUE states holds between any two calls, and neither the   *)
(* unchecked products nor head + i leave a size_t.                         *)
THEOREM RingsAreWellFormed ==
  Spec => []RingInv
<1>1. IInv => RingInv
  <2>1. SUFFICES ASSUME IInv, NEW h \in Handles, Alive(h) PROVE RingOK(dq[h])
    BY DEF RingInv
  <2>2. PICK d : d = dq[h]
    OBVIOUS
  <2>3. StructOK(d, mem) /\ d.cap \in Nat /\ d.head \in Nat /\ CapBytes(d) \in Nat
    BY <2>1, <2>2, LiveFacts, StructFacts
  <2>4. d.cap <= CapBytes(d) /\ CapBytes(d) <= SizeMax \div 2
    BY <2>3, CapWithinBytes DEF StructOK, CapBytes
  <2>5. d.head <= d.cap
    BY <2>3 DEF StructOK
  <2>6. CapBytes(d) <= SizeMax /\ d.head + d.cap <= SizeMax
    BY <2>3, <2>4, <2>5, HalfAndHalf, DequeAssumption
  <2>7. QED
    BY <2>2, <2>3, <2>6 DEF StructOK, RingOK
<1>2. QED
  BY <1>1, AlwaysSound, PTL

(* A good state owes every block to one deque.                             *)
LEMMA SoundOwns ==
  IInv => EveryBlockIsOwned
<1>1. SUFFICES ASSUME IInv PROVE EveryBlockIsOwned
  OBVIOUS
<1>2. ASSUME NEW h \in Handles, Alive(h)
      PROVE  OwnsItsBlock(h)
  <2>1. PICK d : d = dq[h]
    OBVIOUS
  <2>2. CASE d.cap > 0
    <3>1. StructOK(d, mem) /\ d.cap \in Nat /\ d.data # Null
      BY <1>1, <1>2, <2>1, <2>2, LiveFacts DEF StructOK
    <3>2. mem[d.data] \in BlockOf(d) /\ mem[d.data] # Null
      BY <3>1, StructFacts
    <3>3. /\ mem[d.data].al = d.al /\ mem[d.data].bytes = CapBytes(d)
          /\ DOMAIN mem[d.data].cells = 0 .. d.cap - 1
      BY <3>2 DEF BlockOf
    <3>4. QED
      BY <2>1, <3>1, <3>2, <3>3 DEF OwnsItsBlock
  <2>3. CASE ~(d.cap > 0)
    BY <2>1, <2>3 DEF OwnsItsBlock
  <2>4. QED
    BY <2>2, <2>3
<1>3. QED
  BY <1>1, <1>2 DEF EveryBlockIsOwned, IInv, Sound, Alive

(* And has lost none.                                                      *)
LEMMA SoundBalances ==
  IInv => NothingLeaks /\ BooksBalance
<1>1. IInv => NothingLeaks
  BY DEF IInv, Sound, HeadersCounted, Live, NothingLeaks, Alive
<1>2. QED
  BY <1>1, SoundOwns DEF BooksBalance

(* Every deque has its own block, of its own allocator, and knows its      *)
(* size: whatever is given back is given back as it was lent.              *)
THEOREM BlocksAreOwned ==
  Spec => []EveryBlockIsOwned
  BY SoundOwns, AlwaysSound, PTL

(* No block and no header is ever lost, whatever was refused half way.     *)
THEOREM NothingIsLost ==
  Spec => []NothingLeaks
  BY SoundBalances, AlwaysSound, PTL

(* So the books balance: what is lent is what deques hold, block for block *)
(* and size for size.                                                      *)
THEOREM BooksAreBalanced ==
  Spec => []BooksBalance
  BY SoundBalances, AlwaysSound, PTL

-----------------------------------------------------------------------------
(* Requests for room are refused only when they have to be.                *)

(* reserve is refused exactly when it needs a block and cannot have it.    *)
LEMMA ReserveRefused ==
  ASSUME NEW d, NEW m, NEW n, NEW room, NEW b
  PROVE  /\ Reserve(d, m, n, room, b).st = NoMem <=> ~(n <= d.cap) /\ BytesRefused(n, room)
         /\ Reserve(d, m, n, room, b).st \in {OK, NoMem}
  BY DequeAssumption DEF Reserve, Untouched, Relocate

(* Who can have more elems can have fewer.                                 *)
LEMMA FewerAreGranted ==
  ASSUME NEW n \in Nat, NEW k \in Nat, 0 < n, n <= k, NEW room \in Rooms,
         ~BytesRefused(k, room)
  PROVE  ~BytesRefused(n, room)
<1>1. room \in Nat
  BY RoomAssumption, HalfAndHalf
<1>2. PICK x, y : x = n * ElemSize /\ y = k * ElemSize
  OBVIOUS
<1>3. x \in Nat /\ y \in Nat /\ 0 < x /\ x <= y
  BY <1>2, CapWithinBytes, BytesInOrder
<1>4. y <= SizeMax /\ y <= room
  BY <1>1, <1>2, <1>3, DequeAssumption DEF BytesRefused, Granted
<1>5. QED
  BY <1>1, <1>2, <1>3, <1>4, DequeAssumption DEF BytesRefused, Granted

(* reserve_one: a full ring, and not even one slot more to be had.         *)
LEMMA ReserveOneRefused ==
  ASSUME NEW d, NEW m, StructOK(d, m), NEW room \in Rooms, NEW b
  PROVE  ReserveOne(d, m, room, b).st = NoMem
           <=> d.len = d.cap /\ BytesRefused(d.cap + 1, room)
<1>1. d.cap \in Nat /\ NextCap(d) \in Nat /\ d.cap <= SizeMax \div 2
  <2>1. d.cap \in Nat /\ NextCap(d) \in Nat /\ CapBytes(d) <= SizeMax \div 2
    BY StructFacts, NextCapOK DEF StructOK
  <2>2. QED
    BY <2>1, CapWithinBytes, HalfAndHalf, DequeAssumption DEF CapBytes
<1>2. PICK eager : eager = Reserve(d, m, NextCap(d), room, b)
  OBVIOUS
<1>3. PICK exact : exact = Reserve(d, m, d.cap + 1, room, b)
  OBVIOUS
<1>4. CASE d.len # d.cap
  BY <1>4, DequeAssumption DEF ReserveOne, Untouched
<1>5. CASE d.len = d.cap /\ d.cap = SizeMax
  <2>1. ReserveOne(d, m, room, b).st = NoMem
    BY <1>5 DEF ReserveOne, Grow, Untouched
  <2>2. d.cap + 1 <= (d.cap + 1) * ElemSize /\ (d.cap + 1) * ElemSize \in Nat
    BY <1>1, CapWithinBytes
  <2>3. BytesRefused(d.cap + 1, room)
    BY <1>1, <1>5, <2>2 DEF BytesRefused
  <2>4. QED
    BY <1>5, <2>1, <2>3
<1>6. CASE d.len = d.cap /\ d.cap # SizeMax
  <2>1. NextCap(d) >= d.cap + 1
    BY <1>1, <1>6, HalfAndHalf, DequeAssumption DEF NextCap
  <2>2. eager.st = NoMem <=> BytesRefused(NextCap(d), room)
    BY <1>1, <1>2, <2>1, ReserveRefused
  <2>3. exact.st = NoMem <=> BytesRefused(d.cap + 1, room)
    BY <1>1, <1>3, ReserveRefused
  <2>4. BytesRefused(d.cap + 1, room) => BytesRefused(NextCap(d), room)
    BY <1>1, <2>1, FewerAreGranted
  <2>5. CASE eager.st = OK \/ NextCap(d) <= d.cap + 1
    <3>1. ReserveOne(d, m, room, b) = eager
      BY <1>2, <1>6, <2>5 DEF ReserveOne, Grow
    <3>2. NextCap(d) <= d.cap + 1 => NextCap(d) = d.cap + 1
      BY <1>1, <2>1
    <3>3. QED
      BY <1>6, <2>2, <2>4, <2>5, <3>1, <3>2, DequeAssumption
  <2>6. CASE ~(eager.st = OK \/ NextCap(d) <= d.cap + 1)
    <3>1. ReserveOne(d, m, room, b) = exact
      BY <1>2, <1>3, <1>6, <2>6 DEF ReserveOne, Grow
    <3>2. QED
      BY <1>6, <2>3, <3>1
  <2>7. QED
    BY <2>5, <2>6
<1>7. QED
  BY <1>4, <1>5, <1>6

(* reserve_for: the length asked for cannot be had.                        *)
LEMMA ReserveForRefused ==
  ASSUME NEW d, NEW m, StructOK(d, m), NEW n \in Nat, n > d.cap, NEW room \in Rooms, NEW b
  PROVE  ReserveFor(d, m, n, room, b).st = NoMem <=> BytesRefused(n, room)
<1>1. d.cap \in Nat /\ NextCap(d) \in Nat
  BY StructFacts, NextCapOK
<1>2. PICK eager : eager = Reserve(d, m, NextCap(d), room, b)
  OBVIOUS
<1>3. CASE NextCap(d) > n /\ eager.st = OK
  <2>1. ReserveFor(d, m, n, room, b) = eager
    BY <1>2, <1>3 DEF ReserveFor
  <2>2. ~BytesRefused(NextCap(d), room)
    <3>1. ~(NextCap(d) <= d.cap)
      BY <1>1, <1>3
    <3>2. QED
      BY <1>2, <1>3, <3>1, ReserveRefused, DequeAssumption
  <2>3. ~BytesRefused(n, room)
    BY <1>1, <1>3, <2>2, FewerAreGranted
  <2>4. QED
    BY <1>3, <2>1, <2>3, DequeAssumption
<1>4. CASE ~(NextCap(d) > n /\ eager.st = OK)
  <2>1. ReserveFor(d, m, n, room, b) = Reserve(d, m, n, room, b)
    BY <1>2, <1>4 DEF ReserveFor
  <2>2. QED
    BY <1>1, <2>1, ReserveRefused
<1>5. QED
  BY <1>3, <1>4

(* A push on a full deque, and a resize, are refused only for need: the    *)
(* eager request being refused is never the reason.                        *)
THEOREM RefusalsAreNeeded ==
  Spec => []RefusedOnlyForNeed
<1>1. IInv => RefusedOnlyForNeed
  <2>1. SUFFICES ASSUME IInv, NEW h \in Handles, NEW room \in Rooms, NEW b \in Blocks, Alive(h)
                 PROVE  /\ ReserveOne(dq[h], mem, room, b).st = NoMem
                             <=> dq[h].len = dq[h].cap /\ BytesRefused(dq[h].cap + 1, room)
                        /\ \A n \in Counts : n > dq[h].cap =>
                             (ReserveFor(dq[h], mem, n, room, b).st = NoMem
                                <=> BytesRefused(n, room))
    BY DEF RefusedOnlyForNeed
  <2>2. StructOK(dq[h], mem) /\ Counts \subseteq Nat
    BY <2>1, LiveFacts, DequeAssumption
  <2>3. QED
    BY <2>1, <2>2, ReserveOneRefused, ReserveForRefused
<1>2. QED
  BY <1>1, AlwaysSound, PTL

-----------------------------------------------------------------------------
(* Capacity is kept.                                                       *)

(* The step leaves the deque f with the room it had, fitted, or with the   *)
(* struct of another.                                                      *)
RoomKept(f) ==
  Alive(f) /\ dq'[f] # Null /\ dq'[f].cap < dq[f].cap =>
    \/ dq'[f].len = dq'[f].cap
    \/ \E g \in Handles : g # f /\ dq'[f] = dq[g]

(* The struct e has no less room than d, or none to spare.                 *)
AsRoomy(d, e) == e.len = e.cap \/ (e.cap \in Nat /\ e.cap >= d.cap)

(* A call that changes one struct, for one as roomy, does.                 *)
LEMMA OneChanged ==
  ASSUME IInv, NEW h \in Handles, NEW d, dq' = [dq EXCEPT ![h] = d],
         Alive(h) => AsRoomy(dq[h], d)
  PROVE  \A f \in Handles : RoomKept(f)
<1>1. dq \in [Handles -> Deques \cup {Null}]
  BY DEF IInv, Sound
<1>2. ASSUME NEW f \in Handles, Alive(f), dq'[f].cap < dq[f].cap
      PROVE  dq'[f].len = dq'[f].cap
  <2>1. dq[f].cap \in Nat
    BY <1>2, LiveFacts
  <2>2. f = h
    BY <1>1, <1>2, <2>1
  <2>3. dq'[f] = d
    BY <1>1, <2>2
  <2>4. QED
    BY <1>2, <2>1, <2>2, <2>3 DEF AsRoomy
<1>3. QED
  BY <1>2 DEF RoomKept

(* A call that changes none does.                                          *)
LEMMA NoneChanged ==
  ASSUME IInv, dq' = dq
  PROVE  \A f \in Handles : RoomKept(f)
<1>1. ASSUME NEW f \in Handles, Alive(f) PROVE ~(dq'[f].cap < dq[f].cap)
  BY <1>1, LiveFacts
<1>2. QED
  BY <1>1 DEF RoomKept

(* A call that cannot fail keeps the room there is.                        *)
LEMMA PlainStepKeepsRoom ==
  ASSUME IInv, NEW h \in Handles, PlainStep(h)
  PROVE  \A f \in Handles : RoomKept(f)
<1>1. Alive(h) => dq[h] \in Deques /\ dq[h].cap \in Nat
  BY LiveFacts
<1>2. ASSUME Drop(h) PROVE \A f \in Handles : RoomKept(f)
  <2>1. dq' = [dq EXCEPT ![h] = Null] /\ dq \in [Handles -> Deques \cup {Null}]
    BY <1>2 DEF Drop, IInv, Sound
  <2>2. ASSUME NEW f \in Handles, Alive(f), dq'[f] # Null PROVE ~(dq'[f].cap < dq[f].cap)
    <3>1. dq'[f] = dq[f] /\ dq[f].cap \in Nat
      BY <2>1, <2>2, LiveFacts
    <3>2. QED
      BY <3>1
  <2>3. QED
    BY <2>2 DEF RoomKept
<1>3. ASSUME NEW g \in Handles, Swap(h, g) PROVE \A f \in Handles : RoomKept(f)
  <2>1. /\ dq' = [dq EXCEPT ![h] = dq[g], ![g] = dq[h]]
        /\ dq \in [Handles -> Deques \cup {Null}]
    BY <1>3 DEF Swap, IInv, Sound
  <2>2. CASE h = g
    <3>1. dq' = dq
      BY <2>1, <2>2
    <3>2. QED
      BY <3>1, NoneChanged
  <2>3. CASE h # g
    <3>1. \A f \in Handles : dq'[f] = IF f = h THEN dq[g] ELSE IF f = g THEN dq[h] ELSE dq[f]
      BY <2>1, <2>3
    <3>2. \A f \in Handles : Alive(f) => dq[f].cap \in Nat
      BY LiveFacts
    <3>3. QED
      BY <2>3, <3>1, <3>2 DEF RoomKept
  <2>4. QED
    BY <2>2, <2>3
<1>4. ASSUME PopFront(h) PROVE \A f \in Handles : RoomKept(f)
  <2>1. PICK d : d = [dq[h] EXCEPT !.head = StepOn(dq[h]), !.len = @ - 1]
    OBVIOUS
  <2>2. Alive(h) => AsRoomy(dq[h], d)
    BY <1>1, <2>1 DEF Deques, AsRoomy
  <2>3. dq' = [dq EXCEPT ![h] = d]
    BY <1>4, <2>1 DEF PopFront, Commit
  <2>4. QED
    BY <2>2, <2>3, OneChanged
<1>5. ASSUME PopBack(h) PROVE \A f \in Handles : RoomKept(f)
  <2>1. PICK d : d = [dq[h] EXCEPT !.len = @ - 1]
    OBVIOUS
  <2>2. Alive(h) => AsRoomy(dq[h], d)
    BY <1>1, <2>1 DEF Deques, AsRoomy
  <2>3. dq' = [dq EXCEPT ![h] = d]
    BY <1>5, <2>1 DEF PopBack, Commit
  <2>4. QED
    BY <2>2, <2>3, OneChanged
<1>6. ASSUME Clear(h) PROVE \A f \in Handles : RoomKept(f)
  <2>1. PICK d : d = [dq[h] EXCEPT !.len = 0, !.head = 0]
    OBVIOUS
  <2>2. Alive(h) => AsRoomy(dq[h], d)
    BY <1>1, <2>1 DEF Deques, AsRoomy
  <2>3. dq' = [dq EXCEPT ![h] = d]
    BY <1>6, <2>1 DEF Clear, Commit
  <2>4. QED
    BY <2>2, <2>3, OneChanged
<1>7. ASSUME NEW i, Remove(h, i) PROVE \A f \in Handles : RoomKept(f)
  <2>1. PICK front : front = [dq[h] EXCEPT !.head = StepOn(dq[h]), !.len = @ - 1]
    OBVIOUS
  <2>2. PICK back : back = [dq[h] EXCEPT !.len = @ - 1]
    OBVIOUS
  <2>3. Alive(h) => AsRoomy(dq[h], front) /\ AsRoomy(dq[h], back)
    BY <1>1, <2>1, <2>2 DEF Deques, AsRoomy
  <2>4. dq' = [dq EXCEPT ![h] = front] \/ dq' = [dq EXCEPT ![h] = back]
    BY <1>7, <2>1, <2>2 DEF Remove, CommitCells, Commit
  <2>5. QED
    BY <2>3, <2>4, OneChanged
<1>8. ASSUME dq' = [dq EXCEPT ![h] = dq[h]] PROVE \A f \in Handles : RoomKept(f)
  <2>1. Alive(h) => AsRoomy(dq[h], dq[h])
    BY <1>1 DEF AsRoomy
  <2>2. QED
    BY <1>8, <2>1, OneChanged
<1>9. ASSUME NEW i, NEW v, Set(h, i, v) PROVE \A f \in Handles : RoomKept(f)
  BY <1>8, <1>9 DEF Set, CommitCells, Commit
<1>10. ASSUME NEW i, NEW j, SwapElems(h, i, j) PROVE \A f \in Handles : RoomKept(f)
  BY <1>8, <1>10 DEF SwapElems, CommitCells, Commit
<1>11. ASSUME NEW s, CopyFromSpan(h, s) PROVE \A f \in Handles : RoomKept(f)
  BY <1>8, <1>11, NoneChanged DEF CopyFromSpan, CommitCells, Commit, Nothing
<1>12. ASSUME NEW g, NEW alike, Compare(h, g, alike) PROVE \A f \in Handles : RoomKept(f)
  BY <1>12, NoneChanged DEF Compare
<1>13. QED
  BY <1>2, <1>3, <1>4, <1>5, <1>6, <1>7, <1>9, <1>10, <1>11, <1>12 DEF PlainStep

(* What a granted request for room leads to has no less of it.             *)
LEMMA MadeRoom ==
  ASSUME IInv, NEW h \in Handles, Alive(h), NEW n, NEW r, Makes(r, dq[h], mem, n), r.st = OK
  PROVE  r.d \in Deques /\ r.d.cap \in Nat /\ r.d.cap >= dq[h].cap /\ AsRoomy(dq[h], r.d)
<1>1. Exchanges(dq[h], mem, r.d, r.m) /\ r.d.cap >= dq[h].cap
  BY DEF Makes
<1>2. QED
  BY <1>1, MadeFacts DEF AsRoomy

(* Nor does a call that may be refused, on one deque, lose any.            *)
LEMMA GrowStepKeepsRoom ==
  ASSUME IInv, NEW h \in Handles, NEW room \in Rooms, NEW b \in Blocks, GrowStep(h, room, b)
  PROVE  \A f \in Handles : RoomKept(f)
<1>1. CASE Refuse
  BY <1>1, NoneChanged DEF Refuse
<1>2. PICK one : one = ReserveOne(dq[h], mem, room, b)
  OBVIOUS
<1>3. ASSUME Alive(h), mem[b] = Null, one.st = OK
      PROVE  one.d \in Deques /\ one.d.cap \in Nat /\ one.d.cap >= dq[h].cap
  <2>1. Makes(one, dq[h], mem, dq[h].len + 1)
    BY <1>2, <1>3, LiveFacts, ReserveOneOK
  <2>2. QED
    BY <1>3, <2>1, MadeRoom
<1>4. ASSUME NEW d, dq' = [dq EXCEPT ![h] = d], Alive(h), mem[b] = Null, one.st = OK,
             \/ d = [one.d EXCEPT !.head = StepBack(one.d), !.len = @ + 1]
             \/ d = [one.d EXCEPT !.len = @ + 1]
      PROVE  \A f \in Handles : RoomKept(f)
  <2>1. d.cap = one.d.cap
    BY <1>3, <1>4 DEF Deques
  <2>2. AsRoomy(dq[h], d)
    BY SMTT(40), <1>3, <1>4, <2>1 DEF AsRoomy
  <2>3. QED
    BY <1>4, <2>2, OneChanged
<1>5. ASSUME NEW v, PushFront(h, v, room, b) PROVE \A f \in Handles : RoomKept(f)
  BY <1>1, <1>2, <1>4, <1>5 DEF PushFront, CommitCells, Commit, Fresh
<1>6. ASSUME NEW v, PushBack(h, v, room, b) PROVE \A f \in Handles : RoomKept(f)
  BY SMTT(40), <1>1, <1>2, <1>4, <1>6 DEF PushBack, CommitCells, Commit, Fresh
<1>7. ASSUME NEW v, NEW i, Insert(h, i, v, room, b) PROVE \A f \in Handles : RoomKept(f)
  BY Zenon, <1>1, <1>2, <1>4, <1>7 DEF Insert, CommitCells, Commit, Fresh
<1>8. ASSUME NEW n \in Nat, ReserveCap(h, n, room, b) PROVE \A f \in Handles : RoomKept(f)
  <2>1. PICK r : r = Reserve(dq[h], mem, n, room, b)
    OBVIOUS
  <2>2. Alive(h) /\ mem[b] = Null
    BY <1>8 DEF ReserveCap, Fresh
  <2>3. Makes(r, dq[h], mem, n)
    BY <2>1, <2>2, LiveFacts, ReserveOK
  <2>4. CASE r.st = OK /\ dq' = [dq EXCEPT ![h] = r.d]
    BY <2>2, <2>3, <2>4, MadeRoom, OneChanged
  <2>5. QED
    BY <1>1, <1>8, <2>1, <2>4 DEF ReserveCap, Commit
<1>9. ASSUME NEW n \in Nat, Resize(h, n, room, b) PROVE \A f \in Handles : RoomKept(f)
  <2>1. PICK r : r = IF n > dq[h].cap THEN ReserveFor(dq[h], mem, n, room, b)
                     ELSE Untouched(OK, dq[h], mem)
    OBVIOUS
  <2>2. Alive(h) /\ mem[b] = Null /\ dq[h] \in Deques /\ dq[h].cap \in Nat
    BY <1>9, LiveFacts DEF Resize, Fresh
  <2>3. r.st = OK => r.d \in Deques /\ r.d.cap \in Nat /\ r.d.cap >= dq[h].cap
    <3>1. CASE n > dq[h].cap
      <4>1. Makes(r, dq[h], mem, n)
        BY <2>1, <2>2, <3>1, LiveFacts, ReserveForOK
      <4>2. QED
        BY <2>2, <4>1, MadeRoom
    <3>2. CASE ~(n > dq[h].cap)
      <4>1. r.d = dq[h]
        BY <2>1, <3>2 DEF Untouched
      <4>2. QED
        BY <2>2, <4>1
    <3>3. QED
      BY <3>1, <3>2
  <2>4. CASE dq' = [dq EXCEPT ![h] = [dq[h] EXCEPT !.len = n]]
    <3>1. PICK d : d = [dq[h] EXCEPT !.len = n]
      OBVIOUS
    <3>2. AsRoomy(dq[h], d)
      BY <2>2, <3>1 DEF Deques, AsRoomy
    <3>3. QED
      BY <2>4, <3>1, <3>2, OneChanged
  <2>5. CASE r.st = OK /\ dq' = [dq EXCEPT ![h] = [r.d EXCEPT !.len = n]]
    <3>1. PICK d : d = [r.d EXCEPT !.len = n]
      OBVIOUS
    <3>2. AsRoomy(dq[h], d)
      BY <2>3, <2>5, <3>1 DEF Deques, AsRoomy
    <3>3. QED
      BY <2>5, <3>1, <3>2, OneChanged
  <2>6. QED
    BY Zenon, <1>1, <1>9, <2>1, <2>4, <2>5 DEF Resize, CommitCells, Commit
<1>10. ASSUME ShrinkToFit(h, room, b) PROVE \A f \in Handles : RoomKept(f)
  <2>1. Alive(h) /\ dq[h] \in Deques
    BY <1>10, LiveFacts DEF ShrinkToFit
  <2>2. PICK e : e = Released(dq[h])
    OBVIOUS
  <2>3. PICK t : t = Relocate(dq[h], mem, dq[h].len, b).d
    OBVIOUS
  <2>4. AsRoomy(dq[h], e) /\ AsRoomy(dq[h], t)
    BY <2>1, <2>2, <2>3 DEF Released, Relocate, Deques, AsRoomy
  <2>5. \/ Refuse \/ Nothing
        \/ dq' = [dq EXCEPT ![h] = e]
        \/ dq' = [dq EXCEPT ![h] = t]
    BY <1>10, <2>2, <2>3 DEF ShrinkToFit, Commit
  <2>6. QED
    BY <1>1, <2>4, <2>5, OneChanged, NoneChanged DEF Nothing
<1>11. QED
  BY <1>5, <1>6, <1>7, <1>8, <1>9, <1>10, DequeAssumption DEF GrowStep

(* Nor does a birth, which changes no deque there is.                      *)
LEMMA BirthStepKeepsRoom ==
  ASSUME IInv, NEW g \in Handles, NEW room, NEW b, BirthStep(g, room, b)
  PROVE  \A f \in Handles : RoomKept(f)
<1>1. ASSUME NEW a, NEW len, NEW cap, NEW cells, NEW hdr,
             NewImpl(g, a, len, cap, cells, hdr, room, b)
      PROVE  \A f \in Handles : RoomKept(f)
  <2>1. ~Alive(g) /\ (dq' = dq \/ dq' = [dq EXCEPT ![g] = NewStruct(a, len, cap, b)])
    BY <1>1 DEF NewImpl, Refuse
  <2>2. QED
    BY <2>1, NoneChanged, OneChanged
<1>2. QED
  BY <1>1 DEF BirthStep, New, NewLen, NewCap, FromData, CopyWith

(* Nor does an assignment, but for what move_assign leaves behind.         *)
LEMMA PairStepKeepsRoom ==
  ASSUME IInv, NEW h \in Handles, NEW g \in Handles, NEW room \in Rooms, NEW b \in Blocks,
         PairStep(h, g, room, b)
  PROVE  \A f \in Handles : RoomKept(f)
<1>1. CASE Refuse
  BY <1>1, NoneChanged DEF Refuse
<1>2. CASE Nothing
  BY <1>2, NoneChanged DEF Nothing
<1>3. Alive(h) /\ Alive(g) /\ mem[b] = Null
  BY DEF PairStep, CopyAssign, MoveAssign, Fresh
<1>4. dq[h] \in Deques /\ dq[g] \in Deques /\ dq[h].len \in Nat
      /\ dq \in [Handles -> Deques \cup {Null}]
  BY SMTT(40), <1>3, LiveFacts DEF IInv, Sound
<1>5. CASE CopyAssign(h, g, room, b)
  <2>1. PICK r : r = Reserve(dq[g], mem, dq[h].len, room, b)
    OBVIOUS
  <2>2. Makes(r, dq[g], mem, dq[h].len)
    BY <1>3, <1>4, <2>1, LiveFacts, ReserveOK
  <2>3. PICK d : d = FromSlotZero(r.d, dq[h].len)
    OBVIOUS
  <2>4. CASE r.st = OK /\ dq' = [dq EXCEPT ![g] = d]
    <3>1. r.d \in Deques /\ r.d.cap \in Nat /\ r.d.cap >= dq[g].cap
      BY <1>3, <2>2, <2>4, MadeRoom
    <3>2. AsRoomy(dq[g], d)
      BY <2>3, <3>1 DEF FromSlotZero, Deques, AsRoomy
    <3>3. QED
      BY <2>4, <3>2, OneChanged
  <2>5. QED
    BY Zenon, <1>1, <1>2, <1>5, <2>1, <2>3, <2>4 DEF CopyAssign, CommitCells, Commit
<1>6. ASSUME NEW dg, NEW dh, h # g, dq' = [dq EXCEPT ![g] = dg, ![h] = dh],
             dg = dq[h] \/ dg.len = dg.cap, dh.len = dh.cap
      PROVE  \A f \in Handles : RoomKept(f)
  <2>1. \A f \in Handles : dq'[f] = IF f = h THEN dh ELSE IF f = g THEN dg ELSE dq[f]
    BY <1>4, <1>6
  <2>2. dq'[h] = dh /\ dq'[g] = dg
    BY <1>6, <2>1
  <2>3. RoomKept(h) /\ RoomKept(g)
    BY <1>6, <2>2 DEF RoomKept
  <2>4. ASSUME NEW f \in Handles, f # h, f # g, Alive(f)
        PROVE  ~(dq'[f].cap < dq[f].cap)
    <3>1. dq'[f] = dq[f] /\ dq[f].cap \in Nat
      BY <2>1, <2>4, LiveFacts
    <3>2. QED
      BY <3>1
  <2>5. QED
    BY <2>3, <2>4 DEF RoomKept
<1>7. ASSUME h # g, HandOver(h, g) PROVE \A f \in Handles : RoomKept(f)
  <2>1. PICK dh : dh = Released(dq[g])
    OBVIOUS
  <2>2. dh.len = dh.cap
    BY <1>4, <2>1 DEF Released, Deques
  <2>3. dq' = [dq EXCEPT ![g] = dq[h], ![h] = dh]
    BY <1>7, <2>1 DEF HandOver
  <2>4. QED
    BY <1>6, <1>7, <2>2, <2>3
<1>8. ASSUME NEW hdr, h # g, MoveACopy(h, g, hdr, room, b)
      PROVE  \A f \in Handles : RoomKept(f)
  <2>1. PICK dg, dh : /\ dg = NewStruct(dq[g].al, dq[h].len, dq[h].len, b)
                      /\ dh = Released(dq[h])
    OBVIOUS
  <2>2. dg.len = dg.cap /\ dh.len = dh.cap
    BY <1>4, <2>1 DEF NewStruct, Released, Deques
  <2>3. Refuse \/ dq' = [dq EXCEPT ![g] = dg, ![h] = dh]
    BY <1>8, <2>1 DEF MoveACopy
  <2>4. QED
    BY <1>1, <1>6, <1>8, <2>2, <2>3
<1>9. ASSUME NEW hdr, MoveAssign(h, g, hdr, room, b)
      PROVE  \A f \in Handles : RoomKept(f)
  BY <1>2, <1>7, <1>8, <1>9 DEF MoveAssign
<1>10. QED
  BY <1>5, <1>9 DEF PairStep

(* No call takes capacity away from a deque but to fit the block to the    *)
(* contents, to empty it, or to give it another deque's.                   *)
THEOREM CapacityStays ==
  Spec => CapacityIsKept
<1>1. IInv /\ [Next]_vars =>
        [\A h \in Handles :
           Alive(h) /\ dq'[h] # Null /\ dq'[h].cap < dq[h].cap =>
             \/ dq'[h].len = dq'[h].cap
             \/ \E g \in Handles : g # h /\ dq'[h] = dq[g]]_vars
  <2>1. SUFFICES ASSUME IInv, Next PROVE \A h \in Handles : RoomKept(h)
    BY DEF RoomKept
  <2>2. PICK h \in Handles :
          \/ PlainStep(h)
          \/ \E room \in Rooms, b \in Blocks :
               \/ BirthStep(h, room, b)
               \/ GrowStep(h, room, b)
               \/ \E g \in Handles : PairStep(h, g, room, b)
    BY <2>1 DEF Next
  <2>3. CASE PlainStep(h)
    BY <2>1, <2>3, PlainStepKeepsRoom
  <2>4. ASSUME NEW room \in Rooms, NEW b \in Blocks,
               \/ BirthStep(h, room, b)
               \/ GrowStep(h, room, b)
               \/ \E g \in Handles : PairStep(h, g, room, b)
        PROVE  \A f \in Handles : RoomKept(f)
    BY <2>1, <2>4, BirthStepKeepsRoom, GrowStepKeepsRoom, PairStepKeepsRoom
  <2>5. QED
    BY <2>2, <2>3, <2>4
<1>2. QED
  BY <1>1, AlwaysSound, PTL DEF Spec, CapacityIsKept

-----------------------------------------------------------------------------
(* The sequence a deque is.                                                *)

(* The object behind the struct d, as its caller sees it.                  *)
ObjectOf(d, m) ==
  IF d = Null THEN Null ELSE [al |-> d.al, elems |-> ElemsOf(d, m)]

-----------------------------------------------------------------------------
(* What sequences are.                                                     *)

(* s with v inserted at i, with the elem at i removed, made l longer.      *)
Inserted(s, i, v) == S!FirstN(s, i) \o <<v>> \o S!AfterN(s, i)
Removed(s, i)     == S!FirstN(s, i) \o S!AfterN(s, i + 1)
Extended(s, l)    == s \o S!ZeroSeq(l)

(* A function from the first n places is a sequence of n.                  *)
LEMMA FunctionIsSeq ==
  ASSUME NEW T, NEW n \in Nat, NEW f \in [1 .. n -> T]
  PROVE  f \in Seq(T) /\ Len(f) = n /\ DOMAIN f = 1 .. n
  OBVIOUS

(* One sequence behind another.                                            *)
LEMMA Joined ==
  ASSUME NEW T, NEW n \in Nat, NEW s \in Seq(T), Len(s) = n,
         NEW l \in Nat, NEW t \in Seq(T), Len(t) = l
  PROVE  /\ s \o t \in Seq(T)
         /\ Len(s \o t) = n + l
         /\ \A k \in 1 .. n + l : (s \o t)[k] = IF k <= n THEN s[k] ELSE t[k - n]
  BY ConcatProperties

(* One elem in front.                                                      *)
LEMMA PrefixReads ==
  ASSUME NEW T, NEW n \in Nat, NEW s \in Seq(T), Len(s) = n, NEW v \in T
  PROVE  /\ <<v>> \o s \in Seq(T) /\ Len(<<v>> \o s) = n + 1
         /\ \A k \in 1 .. n + 1 : (<<v>> \o s)[k] = IF k = 1 THEN v ELSE s[k - 1]
<1>1. PICK o : o = <<v>>
  OBVIOUS
<1>2. o \in Seq(T) /\ Len(o) = 1 /\ o[1] = v
  BY <1>1
<1>3. PICK u : u = o \o s
  OBVIOUS
<1>4. /\ u \in Seq(T) /\ Len(u) = Len(o) + Len(s)
      /\ \A k \in 1 .. Len(o) + Len(s) : u[k] = IF k <= Len(o) THEN o[k] ELSE s[k - Len(o)]
  BY <1>2, <1>3, ConcatProperties
<1>5. u \in Seq(T) /\ Len(u) = n + 1
      /\ \A k \in 1 .. n + 1 : u[k] = IF k = 1 THEN v ELSE s[k - 1]
  BY <1>2, <1>4
<1>6. QED
  BY <1>1, <1>3, <1>5

(* One elem at the back.                                                   *)
LEMMA AppendReads ==
  ASSUME NEW T, NEW n \in Nat, NEW s \in Seq(T), Len(s) = n, NEW v \in T
  PROVE  /\ Append(s, v) \in Seq(T) /\ Len(Append(s, v)) = n + 1
         /\ \A k \in 1 .. n + 1 : Append(s, v)[k] = IF k = n + 1 THEN v ELSE s[k]
  BY AppendProperties

(* The first n, and what is behind them.                                   *)
LEMMA CutAt ==
  ASSUME NEW T, NEW s \in Seq(T), NEW n \in 0 .. Len(s)
  PROVE  /\ S!FirstN(s, n) \in Seq(T) /\ Len(S!FirstN(s, n)) = n
         /\ \A k \in 1 .. n : S!FirstN(s, n)[k] = s[k]
         /\ S!AfterN(s, n) \in Seq(T) /\ Len(S!AfterN(s, n)) = Len(s) - n
         /\ \A k \in 1 .. Len(s) - n : S!AfterN(s, n)[k] = s[n + k]
<1>1. Len(s) \in Nat /\ \A k \in 1 .. Len(s) : s[k] \in T
  BY LenProperties
<1>2. /\ SubSeq(s, 1, n) \in Seq(T)
      /\ Len(SubSeq(s, 1, n)) = IF 1 <= n THEN n - 1 + 1 ELSE 0
      /\ \A k \in 1 .. n - 1 + 1 : SubSeq(s, 1, n)[k] = s[1 + k - 1]
  BY <1>1, SubSeqProperties
<1>3. /\ SubSeq(s, n + 1, Len(s)) \in Seq(T)
      /\ Len(SubSeq(s, n + 1, Len(s))) = IF n + 1 <= Len(s) THEN Len(s) - (n + 1) + 1 ELSE 0
      /\ \A k \in 1 .. Len(s) - (n + 1) + 1 :
           SubSeq(s, n + 1, Len(s))[k] = s[(n + 1) + k - 1]
  BY <1>1, SubSeqProperties
<1>4. QED
  BY <1>1, <1>2, <1>3 DEF S!FirstN, S!AfterN

(* The first n alone.                                                      *)
LEMMA CutOff ==
  ASSUME NEW T, NEW s \in Seq(T), NEW n \in 0 .. Len(s), NEW t \in Seq(T), Len(t) = n,
         \A k \in 1 .. n : t[k] = s[k]
  PROVE  t = S!FirstN(s, n)
<1>1. PICK p : p = S!FirstN(s, n)
  OBVIOUS
<1>2. p \in Seq(T) /\ Len(p) = n /\ \A k \in 1 .. n : p[k] = s[k]
  BY <1>1, CutAt
<1>3. t = p
  BY <1>2, SeqEqual
<1>4. QED
  BY <1>1, <1>3

(* One elem between the first i and the others.                            *)
LEMMA InsertionReads ==
  ASSUME NEW T, NEW n \in Nat, NEW s \in Seq(T), Len(s) = n, NEW v \in T, NEW i \in 0 .. n
  PROVE  /\ Inserted(s, i, v) \in Seq(T) /\ Len(Inserted(s, i, v)) = n + 1
         /\ \A k \in 1 .. i : Inserted(s, i, v)[k] = s[k]
         /\ Inserted(s, i, v)[i + 1] = v
         /\ \A k \in i + 1 .. n : Inserted(s, i, v)[k + 1] = s[k]
<1>1. PICK p : p = S!FirstN(s, i)
  OBVIOUS
<1>2. p \in Seq(T) /\ Len(p) = i
  BY <1>1, CutAt
<1>3. \A k \in 1 .. i : p[k] = s[k]
  BY <1>1, CutAt
<1>4. PICK q : q = S!AfterN(s, i)
  OBVIOUS
<1>5. q \in Seq(T) /\ Len(q) = n - i
  BY <1>4, CutAt
<1>6. \A k \in 1 .. n - i : q[k] = s[i + k]
  BY <1>4, CutAt
<1>7. PICK o : o = <<v>>
  OBVIOUS
<1>8. o \in Seq(T) /\ Len(o) = 1 /\ o[1] = v
  BY <1>7
<1>9. PICK po : po = p \o o
  OBVIOUS
<1>10. /\ po \in Seq(T) /\ Len(po) = i + 1
       /\ \A k \in 1 .. i + 1 : po[k] = IF k <= i THEN p[k] ELSE o[k - i]
  <2>1. p \in Seq(T) /\ o \in Seq(T)
    BY <1>2, <1>8
  <2>2. /\ po \in Seq(T) /\ Len(po) = Len(p) + Len(o)
        /\ \A k \in 1 .. Len(p) + Len(o) :
             po[k] = IF k <= Len(p) THEN p[k] ELSE o[k - Len(p)]
    BY <1>9, <2>1, ConcatProperties
  <2>3. QED
    BY <1>2, <1>8, <2>2
<1>11. po \in Seq(T) /\ Len(po) = i + 1
  BY <1>10
<1>12. PICK u : u = po \o q
  OBVIOUS
<1>13. i + 1 \in Nat /\ n - i \in Nat /\ i + 1 + (n - i) = n + 1
  OBVIOUS
<1>14. /\ u \in Seq(T) /\ Len(u) = n + 1
       /\ \A k \in 1 .. n + 1 : u[k] = IF k <= i + 1 THEN po[k] ELSE q[k - (i + 1)]
  <2>1. po \in Seq(T) /\ q \in Seq(T)
    BY <1>5, <1>11
  <2>2. /\ u \in Seq(T) /\ Len(u) = Len(po) + Len(q)
        /\ \A k \in 1 .. Len(po) + Len(q) :
             u[k] = IF k <= Len(po) THEN po[k] ELSE q[k - Len(po)]
    BY <1>12, <2>1, ConcatProperties
  <2>3. QED
    BY <1>5, <1>11, <1>13, <2>2
<1>15. ASSUME NEW k \in 1 .. i
       PROVE  u[k] = s[k]
  BY <1>3, <1>10, <1>14
<1>16. u[i + 1] = v
  BY <1>8, <1>10, <1>14
<1>17. ASSUME NEW k \in i + 1 .. n
       PROVE  u[k + 1] = s[k]
  <2>1. k - i \in 1 .. n - i /\ i + (k - i) = k /\ k + 1 - (i + 1) = k - i
        /\ k + 1 \in 1 .. n + 1 /\ ~(k + 1 <= i + 1)
    OBVIOUS
  <2>2. u[k + 1] = q[k - i]
    BY <1>14, <2>1
  <2>3. q[k - i] = s[k]
    BY <1>6, <2>1
  <2>4. QED
    BY <2>2, <2>3
<1>18. u = Inserted(s, i, v)
  BY <1>1, <1>4, <1>7, <1>9, <1>12 DEF Inserted
<1>19. QED
  BY <1>14, <1>15, <1>16, <1>17, <1>18

(* All but the elem behind the first i.                                    *)
LEMMA RemovalReads ==
  ASSUME NEW T, NEW n \in Nat, NEW s \in Seq(T), Len(s) = n, NEW i \in 0 .. n - 1
  PROVE  /\ Removed(s, i) \in Seq(T) /\ Len(Removed(s, i)) = n - 1
         /\ \A k \in 1 .. n - 1 : Removed(s, i)[k] = IF k <= i THEN s[k] ELSE s[k + 1]
<1>1. PICK p : p = S!FirstN(s, i)
  OBVIOUS
<1>2. p \in Seq(T) /\ Len(p) = i
  BY <1>1, CutAt
<1>3. \A k \in 1 .. i : p[k] = s[k]
  BY <1>1, CutAt
<1>4. PICK j \in 0 .. n : j = i + 1
  OBVIOUS
<1>5. PICK q : q = S!AfterN(s, j)
  OBVIOUS
<1>6. q \in Seq(T) /\ Len(q) = n - j
  BY <1>5, CutAt
<1>7. \A k \in 1 .. n - j : q[k] = s[j + k]
  BY <1>5, CutAt
<1>8. i \in Nat /\ n - j \in Nat /\ i + (n - j) = n - 1
  BY <1>4
<1>9. PICK u : u = p \o q
  OBVIOUS
<1>10. /\ u \in Seq(T) /\ Len(u) = n - 1
       /\ \A k \in 1 .. n - 1 : u[k] = IF k <= i THEN p[k] ELSE q[k - i]
  <2>1. p \in Seq(T) /\ q \in Seq(T)
    BY <1>2, <1>6
  <2>2. /\ u \in Seq(T) /\ Len(u) = Len(p) + Len(q)
        /\ \A k \in 1 .. Len(p) + Len(q) : u[k] = IF k <= Len(p) THEN p[k] ELSE q[k - Len(p)]
    BY <1>9, <2>1, ConcatProperties
  <2>3. QED
    BY <1>2, <1>6, <1>8, <2>2
<1>11. ASSUME NEW k \in 1 .. n - 1
       PROVE  u[k] = IF k <= i THEN s[k] ELSE s[k + 1]
  <2>1. CASE k <= i
    BY <1>3, <1>10, <2>1
  <2>2. CASE k > i
    <3>1. k - i \in 1 .. n - j /\ j + (k - i) = k + 1
      BY <1>4, <2>2
    <3>2. u[k] = q[k - i]
      BY <1>10, <2>2
    <3>3. q[k - i] = s[k + 1]
      BY <1>7, <3>1
    <3>4. QED
      BY <2>2, <3>2, <3>3
  <2>3. QED
    BY <2>1, <2>2
<1>12. u = Removed(s, i)
  BY <1>1, <1>4, <1>5, <1>9 DEF Removed
<1>13. QED
  BY <1>10, <1>11, <1>12

(* Zeroed elems behind the last.                                           *)
LEMMA ExtensionReads ==
  ASSUME NEW T, Zero \in T, NEW l \in Nat, NEW s \in Seq(T), Len(s) = l,
         NEW n \in Nat, n >= l
  PROVE  /\ Extended(s, n - l) \in Seq(T) /\ Len(Extended(s, n - l)) = n
         /\ \A k \in 1 .. n : Extended(s, n - l)[k] = IF k <= l THEN s[k] ELSE Zero
<1>1. n - l \in Nat /\ l + (n - l) = n
  OBVIOUS
<1>2. PICK z : z = S!ZeroSeq(n - l)
  OBVIOUS
<1>3. z \in [1 .. n - l -> T] /\ \A k \in 1 .. n - l : z[k] = Zero
  BY <1>2 DEF S!ZeroSeq
<1>4. z \in Seq(T) /\ Len(z) = n - l
  <2>1. z \in [1 .. n - l -> T]
    BY <1>3
  <2>2. QED
    BY <1>1, <2>1, FunctionIsSeq
<1>5. PICK u : u = s \o z
  OBVIOUS
<1>6. /\ u \in Seq(T) /\ Len(u) = n
      /\ \A k \in 1 .. n : u[k] = IF k <= l THEN s[k] ELSE z[k - l]
  BY <1>1, <1>4, <1>5, Joined
<1>7. ASSUME NEW k \in 1 .. n
      PROVE  u[k] = IF k <= l THEN s[k] ELSE Zero
  <2>1. k > l => k - l \in 1 .. n - l
    OBVIOUS
  <2>2. QED
    BY <1>3, <1>6, <2>1
<1>8. QED
  BY <1>2, <1>5, <1>6, <1>7 DEF Extended

-----------------------------------------------------------------------------
(* The slots of a ring.                                                    *)

IsRing(d) == d.cap \in Nat /\ d.head \in Nat /\ d.head < d.cap

(* Two places of a ring have two slots, and every slot is of a place.      *)
LEMMA SlotsDiffer ==
  ASSUME NEW d, IsRing(d), NEW i \in 0 .. d.cap - 1, NEW j \in 0 .. d.cap - 1,
         SlotOf(d, i) = SlotOf(d, j)
  PROVE  i = j
<1>1. d.cap \in Nat /\ d.head \in Nat
  BY DEF IsRing
<1>2. QED
  BY <1>1 DEF SlotOf

(* A place is a slot.                                                      *)
LEMMA PlaceIsSlot ==
  ASSUME NEW d, IsRing(d), NEW i \in 0 .. d.cap
  PROVE  SlotOf(d, i) \in 0 .. d.cap - 1
  BY SlotIsInBlock DEF IsRing

(* An elem stored is read at its place, and at no other.                   *)
LEMMA PutReads ==
  ASSUME NEW d, IsRing(d), NEW cells, DOMAIN cells = 0 .. d.cap - 1,
         NEW i \in 0 .. d.cap - 1, NEW j \in 0 .. d.cap - 1, NEW v
  PROVE  PutElem(d, cells, i, v)[SlotOf(d, j)] = IF j = i THEN v ELSE cells[SlotOf(d, j)]
<1>1. SlotOf(d, j) \in DOMAIN cells /\ SlotOf(d, i) \in DOMAIN cells
  BY PlaceIsSlot DEF IsRing
<1>2. j # i => SlotOf(d, j) # SlotOf(d, i)
  BY SlotsDiffer
<1>3. QED
  BY <1>1, <1>2 DEF PutElem

(* The places of a run read what was "by" places on, the others what they  *)
(* read before.                                                            *)
LEMMA ShiftReads ==
  ASSUME NEW d, IsRing(d), NEW cells, DOMAIN cells = 0 .. d.cap - 1,
         NEW to \in SUBSET (0 .. d.cap - 1), NEW by, NEW j \in 0 .. d.cap - 1
  PROVE  ShiftRun(d, cells, to, by)[SlotOf(d, j)] =
           IF j \in to THEN cells[SlotOf(d, j + by)] ELSE cells[SlotOf(d, j)]
<1>1. SlotOf(d, j) \in DOMAIN cells
  BY PlaceIsSlot DEF IsRing
<1>2. \A i \in to : SlotOf(d, i) = SlotOf(d, j) => i = j
  BY SlotsDiffer
<1>3. CASE j \in to
  <2>1. PICK i : i = CHOOSE n \in to : SlotOf(d, n) = SlotOf(d, j)
    OBVIOUS
  <2>2. i \in to /\ SlotOf(d, i) = SlotOf(d, j)
    BY <1>3, <2>1
  <2>3. i = j
    BY <1>2, <2>2
  <2>4. ShiftRun(d, cells, to, by)[SlotOf(d, j)] = cells[SlotOf(d, i + by)]
    BY <1>1, <1>3, <2>1 DEF ShiftRun
  <2>5. QED
    BY <1>3, <2>3, <2>4
<1>4. CASE j \notin to
  BY <1>1, <1>2, <1>4 DEF ShiftRun
<1>5. QED
  BY <1>3, <1>4

(* Zeroed places read zero, the others what they read before.              *)
LEMMA ZeroReads ==
  ASSUME NEW d, IsRing(d), NEW cells, DOMAIN cells = 0 .. d.cap - 1,
         NEW idxs \in SUBSET (0 .. d.cap - 1), NEW j \in 0 .. d.cap - 1
  PROVE  ZeroRun(d, cells, idxs)[SlotOf(d, j)] =
           IF j \in idxs THEN Zero ELSE cells[SlotOf(d, j)]
<1>1. SlotOf(d, j) \in DOMAIN cells
  BY PlaceIsSlot DEF IsRing
<1>2. \A i \in idxs : SlotOf(d, i) = SlotOf(d, j) => i = j
  BY SlotsDiffer
<1>3. QED
  BY <1>1, <1>2 DEF ZeroRun

(* An array copied in over the two runs is read back.                      *)
LEMMA CopyInReads ==
  ASSUME NEW d, IsRing(d), d.len \in Nat, d.len <= d.cap,
         NEW cells, DOMAIN cells = 0 .. d.cap - 1, NEW s, NEW j \in 0 .. d.len - 1
  PROVE  CopyIn(d, cells, s)[SlotOf(d, j)] = s[j + 1]
<1>1. d.cap \in Nat /\ d.head \in Nat /\ d.head < d.cap
  BY DEF IsRing
<1>2. SlotOf(d, j) \in DOMAIN cells
  BY <1>1, PlaceIsSlot
<1>3. CASE j < FirstRun(d)
  <2>1. SlotOf(d, j) = d.head + j
    BY <1>1, <1>3 DEF FirstRun, SlotOf
  <2>2. d.head <= SlotOf(d, j) /\ SlotOf(d, j) < d.head + FirstRun(d)
        /\ SlotOf(d, j) - d.head + 1 = j + 1
    BY <1>1, <1>3, <2>1 DEF FirstRun
  <2>3. QED
    BY <1>2, <2>2 DEF CopyIn
<1>4. CASE ~(j < FirstRun(d))
  <2>1. FirstRun(d) = d.cap - d.head /\ d.cap - d.head < d.len
    BY <1>1, <1>4 DEF FirstRun
  <2>2. SlotOf(d, j) = j - FirstRun(d)
    BY <1>1, <1>4, <2>1 DEF SlotOf
  <2>3. SlotOf(d, j) < d.head /\ SlotOf(d, j) < d.len - FirstRun(d)
        /\ FirstRun(d) + SlotOf(d, j) + 1 = j + 1
    BY <1>1, <2>1, <2>2
  <2>4. ~(d.head <= SlotOf(d, j))
    BY <1>1, <2>1, <2>2, <2>3
  <2>5. QED
    BY <1>2, <2>3, <2>4 DEF CopyIn
<1>5. QED
  BY <1>3, <1>4

(* A front end that slides back makes a place before the first, one that   *)
(* slides on makes the second the first.                                   *)
LEMMA SlideReads ==
  ASSUME NEW d, IsRing(d), NEW e, e.cap = d.cap, NEW i \in 0 .. d.cap - 1
  PROVE  /\ e.head = StepBack(d) /\ i > 0 => SlotOf(e, i) = SlotOf(d, i - 1)
         /\ e.head = StepOn(d) /\ i + 1 < d.cap => SlotOf(e, i) = SlotOf(d, i + 1)
<1>1. d.cap \in Nat /\ d.head \in Nat /\ d.head < d.cap
  BY DEF IsRing
<1>2. e.head = StepBack(d) /\ i > 0 => SlotOf(e, i) = SlotOf(d, i - 1)
  BY <1>1 DEF StepBack, SlotOf
<1>3. e.head = StepOn(d) /\ i + 1 < d.cap => SlotOf(e, i) = SlotOf(d, i + 1)
  BY <1>1 DEF StepOn, SlotOf
<1>4. QED
  BY <1>2, <1>3

-----------------------------------------------------------------------------
(* What a deque reads.                                                     *)

(* The elems of d in these cells are those of s.                           *)
Holds(d, cells, s) ==
  /\ d.len <= d.cap
  /\ s \in Seq(Cells) /\ Len(s) = d.len
  /\ \A i \in 1 .. d.len : s[i] = cells[SlotOf(d, i - 1)]

(* What it takes to say so.                                                *)
LEMMA Held ==
  ASSUME NEW e, NEW cells, NEW n, e.len = n, e.len <= e.cap, NEW t \in Seq(Cells), Len(t) = n,
         \A i \in 1 .. n : t[i] = cells[SlotOf(e, i - 1)]
  PROVE  Holds(e, cells, t)
  BY DEF Holds

(* The ends of a ring, set.                                                *)
LEMMA EndsSet ==
  ASSUME NEW d \in Deques, NEW k \in Nat, NEW n \in Nat
  PROVE  /\ SameBlock(d, [d EXCEPT !.head = k, !.len = n], k, n)
         /\ SameBlock(d, [d EXCEPT !.len = n], d.head, n)
<1>1. SameBlock(d, [d EXCEPT !.head = k, !.len = n], k, n)
  BY DEF SameBlock, Deques
<1>2. SameBlock(d, [d EXCEPT !.len = n], d.head, n)
  BY DEF SameBlock, Deques
<1>3. QED
  BY <1>1, <1>2

(* One more elem in front.                                                 *)
LEMMA PushFrontHolds ==
  ASSUME NEW d, IsRing(d), NEW cells \in [0 .. d.cap - 1 -> Cells], NEW s,
         Holds(d, cells, s), d.len < d.cap, NEW v \in Vals,
         NEW e, SameBlock(d, e, StepBack(d), d.len + 1)
  PROVE  LET new == PutElem(e, cells, 0, v)
         IN  /\ IsRing(e) /\ new \in [0 .. e.cap - 1 -> Cells]
             /\ Holds(e, new, <<v>> \o s)
<1>1. PICK n \in Nat : n = d.len
  BY DEF Holds
<1>2. /\ d.cap \in Nat /\ d.head \in Nat /\ d.head < d.cap /\ n < d.cap
      /\ e.cap = d.cap /\ e.head = StepBack(d) /\ e.len = n + 1
      /\ s \in Seq(Cells) /\ Len(s) = n
  BY <1>1 DEF IsRing, SameBlock, Holds
<1>3. IsRing(e)
  BY <1>2, StepsAreSlots DEF IsRing
<1>4. PICK new : new = PutElem(e, cells, 0, v)
  OBVIOUS
<1>5. new \in [0 .. e.cap - 1 -> Cells]
  BY <1>2, <1>4, PutElemIsCells
<1>6. PICK t : t = <<v>> \o s
  OBVIOUS
<1>7. /\ t \in Seq(Cells) /\ Len(t) = n + 1
      /\ \A i \in 1 .. n + 1 : t[i] = IF i = 1 THEN v ELSE s[i - 1]
  BY <1>2, <1>6, PrefixReads DEF Cells, Elems
<1>8. ASSUME NEW i \in 1 .. n + 1
      PROVE  t[i] = new[SlotOf(e, i - 1)]
  <2>1. i - 1 \in 0 .. e.cap - 1 /\ 0 \in 0 .. e.cap - 1
    BY <1>2
  <2>2. new[SlotOf(e, i - 1)] = IF i - 1 = 0 THEN v ELSE cells[SlotOf(e, i - 1)]
    BY <1>2, <1>3, <1>4, <2>1, PutReads
  <2>3. CASE i = 1
    BY <1>7, <2>2, <2>3
  <2>4. CASE i # 1
    <3>1. SlotOf(e, i - 1) = SlotOf(d, i - 1 - 1)
      BY <1>2, <2>1, <2>4, SlideReads
    <3>2. i - 1 \in 1 .. n
      BY <2>4
    <3>3. s[i - 1] = cells[SlotOf(d, i - 1 - 1)]
      BY <1>1, <3>2 DEF Holds
    <3>4. QED
      BY <1>7, <2>2, <2>4, <3>1, <3>3
  <2>5. QED
    BY <2>3, <2>4
<1>9. Holds(e, new, t)
  BY <1>2, <1>7, <1>8 DEF Holds
<1>10. QED
  BY <1>3, <1>4, <1>5, <1>6, <1>9

(* Equal heads and capacities, equal slots.                                *)
LEMMA SameSlots ==
  ASSUME NEW d, NEW e, NEW k, NEW n, SameBlock(d, e, k, n), k = d.head, NEW i
  PROVE  SlotOf(e, i) = SlotOf(d, i)
  BY DEF SameBlock, SlotOf

(* What the lemmas below need of a ring and its cells, all in one place.   *)
LEMMA RingFacts ==
  ASSUME NEW d, IsRing(d), NEW cells, NEW s, Holds(d, cells, s),
         NEW e, NEW k \in Nat, NEW n \in Nat, SameBlock(d, e, k, n), k < d.cap
  PROVE  /\ d.cap \in Nat /\ d.head \in Nat /\ d.head < d.cap /\ d.len \in Nat
         /\ d.len <= d.cap /\ s \in Seq(Cells) /\ Len(s) = d.len
         /\ IsRing(e) /\ e.cap = d.cap /\ e.head = k /\ e.len = n
<1>1. Len(s) \in Nat /\ Len(s) = d.len
  BY LenProperties DEF Holds
<1>2. /\ d.cap \in Nat /\ d.head \in Nat /\ d.head < d.cap /\ d.len <= d.cap
      /\ s \in Seq(Cells)
  BY DEF IsRing, Holds
<1>3. e.cap = d.cap /\ e.head = k /\ e.len = n
  BY DEF SameBlock
<1>4. QED
  BY <1>1, <1>2, <1>3 DEF IsRing

(* One more elem at the back.                                              *)
LEMMA PushBackHolds ==
  ASSUME NEW d, IsRing(d), NEW cells \in [0 .. d.cap - 1 -> Cells], NEW s,
         Holds(d, cells, s), NEW n \in Nat, n = d.len + 1, n <= d.cap, NEW v \in Vals,
         NEW e, SameBlock(d, e, d.head, n)
  PROVE  LET new == PutElem(d, cells, d.len, v)
         IN  /\ IsRing(e) /\ new \in [0 .. e.cap - 1 -> Cells]
             /\ Holds(e, new, Append(s, v))
<1>1. PICK l \in Nat : l = d.len
  BY RingFacts DEF IsRing
<1>2. /\ d.cap \in Nat /\ d.head \in Nat /\ d.head < d.cap /\ l < d.cap /\ n = l + 1
      /\ s \in Seq(Cells) /\ Len(s) = l
      /\ IsRing(e) /\ e.cap = d.cap /\ e.len = n
  BY <1>1, RingFacts DEF IsRing
<1>3. PICK new : new = PutElem(d, cells, l, v)
  OBVIOUS
<1>4. new \in [0 .. e.cap - 1 -> Cells]
  BY <1>2, <1>3, PutElemIsCells
<1>5. PICK t : t = Append(s, v)
  OBVIOUS
<1>6. /\ t \in Seq(Cells) /\ Len(t) = n
      /\ \A i \in 1 .. n : t[i] = IF i = n THEN v ELSE s[i]
  BY <1>2, <1>5, AppendReads DEF Cells, Elems
<1>7. ASSUME NEW i \in 1 .. n
      PROVE  t[i] = new[SlotOf(e, i - 1)]
  <2>1. i - 1 \in 0 .. d.cap - 1 /\ l \in 0 .. d.cap - 1
    BY <1>2
  <2>2. new[SlotOf(d, i - 1)] = IF i - 1 = l THEN v ELSE cells[SlotOf(d, i - 1)]
    <3>1. DOMAIN cells = 0 .. d.cap - 1
      OBVIOUS
    <3>2. PICK j \in 0 .. d.cap - 1 : j = i - 1
      BY <2>1
    <3>3. PutElem(d, cells, l, v)[SlotOf(d, j)] = IF j = l THEN v ELSE cells[SlotOf(d, j)]
      BY <1>2, <2>1, <3>1, PutReads
    <3>4. QED
      BY <1>3, <3>2, <3>3
  <2>3. SlotOf(e, i - 1) = SlotOf(d, i - 1)
    BY SameSlots
  <2>4. i # n => s[i] = cells[SlotOf(d, i - 1)]
    BY <1>1, <1>2 DEF Holds
  <2>5. QED
    BY <1>2, <1>6, <2>2, <2>3, <2>4
<1>8. Holds(e, new, t)
  BY <1>2, <1>6, <1>7 DEF Holds
<1>9. QED
  BY <1>1, <1>2, <1>3, <1>4, <1>5, <1>8

(* The front elem gone.                                                    *)
LEMMA PopFrontHolds ==
  ASSUME NEW d, IsRing(d), NEW cells, NEW s, Holds(d, cells, s), d.len > 0,
         NEW k \in Nat, k = StepOn(d), NEW n \in Nat, n = d.len - 1,
         NEW e, SameBlock(d, e, k, n)
  PROVE  Holds(e, cells, Tail(s))
<1>1. k < d.cap
  BY StepsAreSlots DEF IsRing
<1>2. /\ d.cap \in Nat /\ d.len \in Nat /\ n + 1 = d.len /\ d.len <= d.cap
      /\ s \in Seq(Cells) /\ Len(s) = n + 1 /\ e.cap = d.cap /\ e.head = k /\ e.len = n
  BY <1>1, RingFacts
<1>3. s # <<>>
  BY <1>2
<1>4. PICK t : t = Tail(s)
  OBVIOUS
<1>5. t \in Seq(Cells) /\ Len(t) = n /\ \A i \in 1 .. n : t[i] = s[i + 1]
  BY <1>2, <1>3, <1>4, HeadTailProperties
<1>6. ASSUME NEW i \in 1 .. n
      PROVE  t[i] = cells[SlotOf(e, i - 1)]
  <2>1. i - 1 \in 0 .. d.cap - 1 /\ i - 1 + 1 < d.cap /\ i - 1 + 1 = i + 1 - 1
        /\ i + 1 \in 1 .. d.len
    BY <1>2
  <2>2. SlotOf(e, i - 1) = SlotOf(d, i - 1 + 1)
    BY <1>2, <2>1, SlideReads
  <2>3. s[i + 1] = cells[SlotOf(d, i + 1 - 1)]
    BY <2>1 DEF Holds
  <2>4. QED
    BY <1>5, <2>1, <2>2, <2>3
<1>7. Holds(e, cells, t)
  <2>1. e.len = n /\ e.len <= e.cap /\ t \in Seq(Cells) /\ Len(t) = n
    BY <1>2, <1>5
  <2>2. QED
    BY <1>6, <2>1, Held
<1>8. QED
  BY <1>4, <1>7

(* Only the first n left, of a deque with or without a block.              *)
LEMMA CutHolds ==
  ASSUME NEW d, NEW cells, NEW s, Holds(d, cells, s), NEW n \in Nat, n <= d.len,
         d.len \in Nat, d.cap \in Nat, NEW e, SameBlock(d, e, d.head, n)
  PROVE  Holds(e, cells, S!FirstN(s, n))
<1>1. s \in Seq(Cells) /\ Len(s) = d.len /\ d.len <= d.cap /\ n \in 0 .. Len(s)
  BY DEF Holds
<1>2. PICK t : t = S!FirstN(s, n)
  OBVIOUS
<1>3. t \in Seq(Cells) /\ Len(t) = n /\ \A i \in 1 .. n : t[i] = s[i]
  BY <1>1, <1>2, CutAt
<1>4. ASSUME NEW i \in 1 .. n
      PROVE  t[i] = cells[SlotOf(e, i - 1)]
  <2>1. s[i] = cells[SlotOf(d, i - 1)]
    BY DEF Holds
  <2>2. QED
    BY <1>3, <2>1, SameSlots
<1>5. e.len = n /\ e.len <= e.cap /\ t \in Seq(Cells) /\ Len(t) = n
  BY <1>1, <1>3 DEF SameBlock
<1>6. Holds(e, cells, t)
  BY <1>4, <1>5, Held
<1>7. QED
  BY <1>2, <1>6

(* An empty deque holds the empty sequence, wherever its head is.          *)
LEMMA NothingHeld ==
  ASSUME NEW d, d.len = 0, d.cap \in Nat, NEW cells
  PROVE  Holds(d, cells, <<>>)
<1>1. <<>> \in Seq(Cells) /\ Len(<<>>) = 0
  OBVIOUS
<1>2. QED
  BY <1>1 DEF Holds

(* An elem inserted at idx: the ones before it slid back by one place, or  *)
(* the ones behind it slid on.                                             *)
LEMMA InsertFrontHolds ==
  ASSUME NEW d, IsRing(d), NEW cells \in [0 .. d.cap - 1 -> Cells], NEW s,
         Holds(d, cells, s), NEW n \in Nat, n = d.len + 1, n <= d.cap, NEW v \in Vals,
         NEW k \in Nat, k = StepBack(d), NEW e, SameBlock(d, e, k, n), NEW idx \in 0 .. n - 1
  PROVE  LET new == PutElem(e, ShiftRun(e, cells, 0 .. idx - 1, 1), idx, v)
         IN  /\ IsRing(e) /\ new \in [0 .. e.cap - 1 -> Cells]
             /\ Holds(e, new, Inserted(s, idx, v))
<1>1. k < d.cap /\ d.cap \in Nat
  BY StepsAreSlots DEF IsRing
<1>2. PICK l \in Nat : l = d.len
  BY <1>1, RingFacts
<1>3. /\ d.cap \in Nat /\ d.head \in Nat /\ d.head < d.cap /\ n = l + 1
      /\ s \in Seq(Cells) /\ Len(s) = l
      /\ e.cap = d.cap /\ e.cap \in Nat /\ e.len = n /\ e.head = k /\ idx \in 0 .. l
  <2>1. /\ d.cap \in Nat /\ d.head \in Nat /\ d.head < d.cap
        /\ s \in Seq(Cells) /\ Len(s) = d.len
    BY DEF IsRing, Holds
  <2>2. e.cap = d.cap /\ e.head = k /\ e.len = n
    BY DEF SameBlock
  <2>3. n = l + 1 /\ idx \in 0 .. l
    BY <1>2
  <2>4. QED
    BY <1>2, <2>1, <2>2, <2>3
<1>4. IsRing(e)
  BY <1>1, RingFacts
<1>5. PICK slid : slid = ShiftRun(e, cells, 0 .. idx - 1, 1)
  OBVIOUS
<1>6. slid \in [0 .. e.cap - 1 -> Cells]
  <2>1. \A i \in 0 .. idx - 1 : i + 1 \in 0 .. e.cap
    BY <1>3
  <2>2. e.head \in Nat /\ e.head < e.cap /\ cells \in [0 .. e.cap - 1 -> Cells]
    BY <1>1, <1>3
  <2>3. QED
    BY <1>3, <1>5, <2>1, <2>2, ShiftRunIsCells
<1>7. PICK new : new = PutElem(e, slid, idx, v)
  OBVIOUS
<1>8. new \in [0 .. e.cap - 1 -> Cells]
  BY <1>3, <1>6, <1>7, PutElemIsCells
<1>9. PICK t : t = Inserted(s, idx, v)
  OBVIOUS
<1>10. /\ t \in Seq(Cells) /\ Len(t) = n
       /\ \A i \in 1 .. idx : t[i] = s[i]
       /\ t[idx + 1] = v
       /\ \A i \in idx + 1 .. l : t[i + 1] = s[i]
  <2>1. v \in Cells /\ d.cap \in Nat /\ s \in Seq(Cells) /\ Len(s) = l /\ idx \in 0 .. l
    BY <1>3 DEF Cells, Elems
  <2>2. Inserted(s, idx, v) \in Seq(Cells) /\ Len(Inserted(s, idx, v)) = l + 1
    BY <2>1, InsertionReads
  <2>3. \A i \in 1 .. idx : Inserted(s, idx, v)[i] = s[i]
    BY <2>1, InsertionReads
  <2>4. Inserted(s, idx, v)[idx + 1] = v
    BY <2>1, InsertionReads
  <2>5. \A i \in idx + 1 .. l : Inserted(s, idx, v)[i + 1] = s[i]
    BY <2>1, InsertionReads
  <2>6. n = l + 1
    BY <1>3
  <2>7. QED
    BY <1>9, <2>2, <2>3, <2>4, <2>5, <2>6
<1>11. ASSUME NEW i \in 1 .. n
       PROVE  t[i] = new[SlotOf(e, i - 1)]
  <2>1. PICK j \in 0 .. e.cap - 1 : j = i - 1
    BY <1>3
  <2>2. new[SlotOf(e, j)] = IF j = idx THEN v ELSE slid[SlotOf(e, j)]
    <3>1. idx \in 0 .. e.cap - 1 /\ DOMAIN slid = 0 .. e.cap - 1
      BY <1>3, <1>6
    <3>2. QED
      BY <1>3, <1>4, <1>7, <3>1, PutReads
  <2>3. slid[SlotOf(e, j)] =
          IF j \in 0 .. idx - 1 THEN cells[SlotOf(e, j + 1)] ELSE cells[SlotOf(e, j)]
    <3>1. PICK to \in SUBSET (0 .. e.cap - 1) : to = 0 .. idx - 1
      BY <1>3
    <3>2. DOMAIN cells = 0 .. e.cap - 1 /\ e.cap \in Nat /\ d.cap \in Nat
      BY <1>3
    <3>3. ShiftRun(e, cells, to, 1)[SlotOf(e, j)] =
            IF j \in to THEN cells[SlotOf(e, j + 1)] ELSE cells[SlotOf(e, j)]
      BY SMTT(40), <1>4, <3>2, ShiftReads
    <3>4. QED
      BY <1>5, <3>1, <3>3
  <2>4. ASSUME NEW q \in 1 .. l
        PROVE  s[q] = cells[SlotOf(e, q)]
    <3>1. q \in 0 .. d.cap - 1 /\ q > 0
      BY <1>3
    <3>2. SlotOf(e, q) = SlotOf(d, q - 1)
      BY <1>3, <3>1, SlideReads
    <3>3. QED
      BY <1>2, <3>2 DEF Holds
  <2>5. CASE i <= idx
    <3>1. i \in 1 .. l /\ j \in 0 .. idx - 1 /\ j # idx /\ j + 1 = i
      BY <1>3, <2>1, <2>5
    <3>2. new[SlotOf(e, j)] = cells[SlotOf(e, i)]
      BY <2>2, <2>3, <3>1
    <3>3. t[i] = s[i]
      BY <1>10, <2>5
    <3>4. QED
      BY <2>1, <2>4, <3>1, <3>2, <3>3
  <2>6. CASE i = idx + 1
    BY <1>10, <2>1, <2>2, <2>6
  <2>7. CASE i > idx + 1
    <3>1. j \in 1 .. l /\ j \notin 0 .. idx - 1 /\ j # idx
      BY <1>3, <2>1, <2>7
    <3>2. new[SlotOf(e, j)] = cells[SlotOf(e, j)]
      BY <2>2, <2>3, <3>1
    <3>3. t[i] = s[j]
      <4>1. j \in idx + 1 .. l /\ i = j + 1
        BY <1>3, <2>1, <2>7
      <4>2. QED
        BY <1>10, <4>1
    <3>4. QED
      BY <2>1, <2>4, <3>1, <3>2, <3>3
  <2>8. QED
    BY <2>5, <2>6, <2>7
<1>12. Holds(e, new, t)
  BY <1>3, <1>10, <1>11, Held
<1>13. QED
  BY <1>4, <1>5, <1>7, <1>8, <1>9, <1>12

(* The same at the back.                                                   *)
LEMMA InsertBackHolds ==
  ASSUME NEW d, IsRing(d), NEW cells \in [0 .. d.cap - 1 -> Cells], NEW s,
         Holds(d, cells, s), NEW n \in Nat, n = d.len + 1, n <= d.cap, NEW v \in Vals,
         NEW e, SameBlock(d, e, d.head, n), NEW idx \in 0 .. n - 1
  PROVE  LET new == PutElem(e, ShiftRun(e, cells, idx + 1 .. d.len, -1), idx, v)
         IN  /\ IsRing(e) /\ new \in [0 .. e.cap - 1 -> Cells]
             /\ Holds(e, new, Inserted(s, idx, v))
<1>1. d.head \in Nat /\ d.head < d.cap /\ d.cap \in Nat
  BY DEF IsRing
<1>2. PICK l \in Nat : l = d.len
  BY <1>1, RingFacts
<1>3. /\ d.cap \in Nat /\ n = l + 1
      /\ s \in Seq(Cells) /\ Len(s) = l
      /\ e.cap = d.cap /\ e.cap \in Nat /\ e.len = n /\ e.head = d.head /\ idx \in 0 .. l
  <2>1. /\ d.cap \in Nat /\ s \in Seq(Cells) /\ Len(s) = d.len
        /\ e.cap = d.cap /\ e.head = d.head /\ e.len = n
    BY <1>1, RingFacts
  <2>2. n = l + 1 /\ idx \in 0 .. l
    BY <1>2
  <2>3. QED
    BY <1>2, <2>1, <2>2
<1>4. IsRing(e)
  BY <1>1, RingFacts
<1>5. PICK slid : slid = ShiftRun(e, cells, idx + 1 .. l, -1)
  OBVIOUS
<1>6. slid \in [0 .. e.cap - 1 -> Cells]
  <2>1. \A i \in idx + 1 .. l : i + -1 \in 0 .. e.cap
    BY <1>3
  <2>2. e.head \in Nat /\ e.head < e.cap /\ cells \in [0 .. e.cap - 1 -> Cells]
    BY <1>1, <1>3
  <2>3. QED
    BY <1>3, <1>5, <2>1, <2>2, ShiftRunIsCells
<1>7. PICK new : new = PutElem(e, slid, idx, v)
  OBVIOUS
<1>8. new \in [0 .. e.cap - 1 -> Cells]
  BY <1>3, <1>6, <1>7, PutElemIsCells
<1>9. PICK t : t = Inserted(s, idx, v)
  OBVIOUS
<1>10. /\ t \in Seq(Cells) /\ Len(t) = n
       /\ \A i \in 1 .. idx : t[i] = s[i]
       /\ t[idx + 1] = v
       /\ \A i \in idx + 1 .. l : t[i + 1] = s[i]
  <2>1. v \in Cells /\ d.cap \in Nat /\ s \in Seq(Cells) /\ Len(s) = l /\ idx \in 0 .. l
    BY <1>3 DEF Cells, Elems
  <2>2. Inserted(s, idx, v) \in Seq(Cells) /\ Len(Inserted(s, idx, v)) = l + 1
    BY <2>1, InsertionReads
  <2>3. \A i \in 1 .. idx : Inserted(s, idx, v)[i] = s[i]
    BY <2>1, InsertionReads
  <2>4. Inserted(s, idx, v)[idx + 1] = v
    BY <2>1, InsertionReads
  <2>5. \A i \in idx + 1 .. l : Inserted(s, idx, v)[i + 1] = s[i]
    BY <2>1, InsertionReads
  <2>6. n = l + 1
    BY <1>3
  <2>7. QED
    BY <1>9, <2>2, <2>3, <2>4, <2>5, <2>6
<1>11. ASSUME NEW i \in 1 .. n
       PROVE  t[i] = new[SlotOf(e, i - 1)]
  <2>1. PICK j \in 0 .. e.cap - 1 : j = i - 1
    BY <1>3
  <2>2. new[SlotOf(e, j)] = IF j = idx THEN v ELSE slid[SlotOf(e, j)]
    <3>1. idx \in 0 .. e.cap - 1 /\ DOMAIN slid = 0 .. e.cap - 1
      BY <1>3, <1>6
    <3>2. QED
      BY <1>3, <1>4, <1>7, <3>1, PutReads
  <2>3. slid[SlotOf(e, j)] =
          IF j \in idx + 1 .. l THEN cells[SlotOf(e, j + -1)] ELSE cells[SlotOf(e, j)]
    <3>1. PICK to \in SUBSET (0 .. e.cap - 1) : to = idx + 1 .. l
      BY <1>3
    <3>2. DOMAIN cells = 0 .. e.cap - 1 /\ e.cap \in Nat /\ d.cap \in Nat
      BY <1>3
    <3>3. PICK by : by = -1
      OBVIOUS
    <3>4. ShiftRun(e, cells, to, by)[SlotOf(e, j)] =
            IF j \in to THEN cells[SlotOf(e, j + by)] ELSE cells[SlotOf(e, j)]
      BY SMTT(40), <1>4, <3>2, ShiftReads
    <3>5. QED
      BY <1>5, <3>1, <3>3, <3>4
  <2>4. ASSUME NEW q \in 1 .. l
        PROVE  s[q] = cells[SlotOf(e, q - 1)]
    <3>1. SlotOf(e, q - 1) = SlotOf(d, q - 1)
      BY SameSlots
    <3>2. QED
      BY <1>2, <3>1 DEF Holds
  <2>5. CASE i <= idx
    <3>1. i \in 1 .. l /\ j \notin idx + 1 .. l /\ j # idx
      BY <1>3, <2>1, <2>5
    <3>2. new[SlotOf(e, j)] = cells[SlotOf(e, i - 1)]
      BY <2>1, <2>2, <2>3, <3>1
    <3>3. t[i] = s[i]
      BY <1>10, <2>5
    <3>4. QED
      BY <2>1, <2>4, <3>1, <3>2, <3>3
  <2>6. CASE i = idx + 1
    BY <1>10, <2>1, <2>2, <2>6
  <2>7. CASE i > idx + 1
    <3>1. j \in 1 .. l /\ j \in idx + 1 .. l /\ j # idx /\ j + -1 = j - 1
      BY <1>3, <2>1, <2>7
    <3>2. new[SlotOf(e, j)] = cells[SlotOf(e, j - 1)]
      BY <2>2, <2>3, <3>1
    <3>3. t[i] = s[j]
      <4>1. j \in idx + 1 .. l /\ i = j + 1
        BY <1>3, <2>1, <2>7
      <4>2. QED
        BY <1>10, <4>1
    <3>4. QED
      BY <2>1, <2>4, <3>1, <3>2, <3>3
  <2>8. QED
    BY <2>5, <2>6, <2>7
<1>12. Holds(e, new, t)
  BY <1>3, <1>10, <1>11, Held
<1>13. QED
  BY <1>2, <1>4, <1>5, <1>7, <1>8, <1>9, <1>12

(* An elem removed at idx: the ones before it slid on by one place, or the *)
(* ones behind it slid back.                                               *)
LEMMA RemoveFrontHolds ==
  ASSUME NEW d, IsRing(d), NEW cells \in [0 .. d.cap - 1 -> Cells], NEW s,
         Holds(d, cells, s), NEW n \in Nat, d.len = n + 1,
         NEW k \in Nat, k = StepOn(d), NEW e, SameBlock(d, e, k, n), NEW idx \in 0 .. n
  PROVE  LET new == ShiftRun(d, cells, 1 .. idx, -1)
         IN  /\ IsRing(e) /\ new \in [0 .. e.cap - 1 -> Cells]
             /\ Holds(e, new, Removed(s, idx))
<1>1. k < d.cap /\ d.cap \in Nat /\ d.head \in Nat /\ d.head < d.cap
  BY StepsAreSlots DEF IsRing
<1>2. PICK l \in Nat : l = n + 1
  OBVIOUS
<1>3. /\ d.cap \in Nat /\ l = n + 1 /\ l <= d.cap
      /\ s \in Seq(Cells) /\ Len(s) = l
      /\ e.cap = d.cap /\ e.cap \in Nat /\ e.len = n /\ e.head = k /\ idx \in 0 .. l - 1
  <2>1. s \in Seq(Cells) /\ Len(s) = l /\ l <= d.cap
    BY <1>2 DEF Holds
  <2>2. e.cap = d.cap /\ e.head = k /\ e.len = n
    BY DEF SameBlock
  <2>3. l = n + 1 /\ idx \in 0 .. l - 1
    BY <1>2
  <2>4. QED
    BY <1>1, <2>1, <2>2, <2>3
<1>4. IsRing(e)
  BY <1>1, RingFacts
<1>5. PICK by : by = -1
  OBVIOUS
<1>6. PICK to \in SUBSET (0 .. d.cap - 1) : to = 1 .. idx
  BY <1>3
<1>7. PICK new : new = ShiftRun(d, cells, to, by)
  OBVIOUS
<1>8. new \in [0 .. e.cap - 1 -> Cells]
  <2>1. \A i \in to : i + by \in 0 .. d.cap
    BY <1>3, <1>5, <1>6
  <2>2. new \in [0 .. d.cap - 1 -> Cells]
    BY <1>1, <1>7, <2>1, ShiftRunIsCells
  <2>3. QED
    BY <1>3, <2>2
<1>9. PICK t : t = Removed(s, idx)
  OBVIOUS
<1>10. /\ t \in Seq(Cells) /\ Len(t) = n
       /\ \A i \in 1 .. n : t[i] = IF i <= idx THEN s[i] ELSE s[i + 1]
  <2>1. s \in Seq(Cells) /\ Len(s) = l /\ d.cap \in Nat /\ idx \in 0 .. l - 1
    BY <1>3
  <2>2. Removed(s, idx) \in Seq(Cells) /\ Len(Removed(s, idx)) = l - 1
    BY <2>1, RemovalReads
  <2>3. ASSUME NEW i \in 1 .. l - 1
        PROVE  Removed(s, idx)[i] = IF i <= idx THEN s[i] ELSE s[i + 1]
    BY <2>1, RemovalReads
  <2>4. n = l - 1
    BY <1>3
  <2>5. QED
    BY <1>9, <2>2, <2>3, <2>4
<1>11. ASSUME NEW i \in 1 .. n
       PROVE  t[i] = new[SlotOf(e, i - 1)]
  <2>1. i \in 0 .. d.cap - 1 /\ i - 1 \in 0 .. d.cap - 1 /\ i - 1 + 1 = i
    BY <1>3
  <2>2. SlotOf(e, i - 1) = SlotOf(d, i)
    BY <1>3, <2>1, SlideReads
  <2>3. new[SlotOf(d, i)] =
          IF i \in to THEN cells[SlotOf(d, i + by)] ELSE cells[SlotOf(d, i)]
    <3>1. DOMAIN cells = 0 .. d.cap - 1 /\ d.cap \in Nat
      BY <1>3
    <3>2. QED
      BY SMTT(40), <1>7, <2>1, <3>1, ShiftReads
  <2>4. ASSUME NEW q \in 1 .. l
        PROVE  s[q] = cells[SlotOf(d, q - 1)]
    BY <1>3 DEF Holds
  <2>5. CASE i <= idx
    <3>1. i \in to /\ i + by = i - 1 /\ i \in 1 .. l
      BY <1>3, <1>5, <1>6, <2>5
    <3>2. QED
      BY <1>10, <2>2, <2>3, <2>4, <2>5, <3>1
  <2>6. CASE i > idx
    <3>1. i \notin to /\ i + 1 \in 1 .. l /\ i + 1 - 1 = i
      BY <1>3, <1>6, <2>6
    <3>2. s[i + 1] = cells[SlotOf(d, i)]
      BY <2>4, <3>1
    <3>3. QED
      BY <1>10, <2>2, <2>3, <2>6, <3>1, <3>2
  <2>7. QED
    BY <2>5, <2>6
<1>12. Holds(e, new, t)
  <2>1. e.len = n /\ e.len <= e.cap /\ t \in Seq(Cells) /\ Len(t) = n
    BY <1>3, <1>10
  <2>2. QED
    BY <1>11, <2>1, Held
<1>13. QED
  BY <1>4, <1>5, <1>6, <1>7, <1>8, <1>9, <1>12

(* The same at the back.                                                   *)
LEMMA RemoveBackHolds ==
  ASSUME NEW d, IsRing(d), NEW cells \in [0 .. d.cap - 1 -> Cells], NEW s,
         Holds(d, cells, s), NEW n \in Nat, d.len = n + 1,
         NEW e, SameBlock(d, e, d.head, n), NEW idx \in 0 .. n
  PROVE  LET new == ShiftRun(d, cells, idx .. n - 1, 1)
         IN  /\ IsRing(e) /\ new \in [0 .. e.cap - 1 -> Cells]
             /\ Holds(e, new, Removed(s, idx))
<1>1. d.cap \in Nat /\ d.head \in Nat /\ d.head < d.cap
  BY DEF IsRing
<1>2. PICK l \in Nat : l = n + 1
  OBVIOUS
<1>3. /\ d.cap \in Nat /\ l = n + 1 /\ l <= d.cap
      /\ s \in Seq(Cells) /\ Len(s) = l
      /\ e.cap = d.cap /\ e.cap \in Nat /\ e.len = n /\ e.head = d.head /\ idx \in 0 .. l - 1
  <2>1. s \in Seq(Cells) /\ Len(s) = l /\ l <= d.cap
    BY <1>2 DEF Holds
  <2>2. e.cap = d.cap /\ e.head = d.head /\ e.len = n
    BY DEF SameBlock
  <2>3. l = n + 1 /\ idx \in 0 .. l - 1
    BY <1>2
  <2>4. QED
    BY <1>1, <2>1, <2>2, <2>3
<1>4. IsRing(e)
  BY <1>1, RingFacts
<1>5. PICK to \in SUBSET (0 .. d.cap - 1) : to = idx .. n - 1
  BY <1>3
<1>6. PICK new : new = ShiftRun(d, cells, to, 1)
  OBVIOUS
<1>7. new \in [0 .. e.cap - 1 -> Cells]
  <2>1. \A i \in to : i + 1 \in 0 .. d.cap
    BY <1>3, <1>5
  <2>2. new \in [0 .. d.cap - 1 -> Cells]
    BY <1>1, <1>6, <2>1, ShiftRunIsCells
  <2>3. QED
    BY <1>3, <2>2
<1>8. PICK t : t = Removed(s, idx)
  OBVIOUS
<1>9. /\ t \in Seq(Cells) /\ Len(t) = n
      /\ \A i \in 1 .. n : t[i] = IF i <= idx THEN s[i] ELSE s[i + 1]
  <2>1. s \in Seq(Cells) /\ Len(s) = l /\ d.cap \in Nat /\ idx \in 0 .. l - 1
    BY <1>3
  <2>2. Removed(s, idx) \in Seq(Cells) /\ Len(Removed(s, idx)) = l - 1
    BY <2>1, RemovalReads
  <2>3. ASSUME NEW i \in 1 .. l - 1
        PROVE  Removed(s, idx)[i] = IF i <= idx THEN s[i] ELSE s[i + 1]
    BY <2>1, RemovalReads
  <2>4. n = l - 1
    BY <1>3
  <2>5. QED
    BY <1>8, <2>2, <2>3, <2>4
<1>10. ASSUME NEW i \in 1 .. n
       PROVE  t[i] = new[SlotOf(e, i - 1)]
  <2>1. PICK j \in 0 .. d.cap - 1 : j = i - 1
    BY <1>3
  <2>2. SlotOf(e, j) = SlotOf(d, j)
    BY SameSlots
  <2>3. new[SlotOf(d, j)] =
          IF j \in to THEN cells[SlotOf(d, j + 1)] ELSE cells[SlotOf(d, j)]
    <3>1. DOMAIN cells = 0 .. d.cap - 1 /\ d.cap \in Nat
      BY <1>3
    <3>2. QED
      BY SMTT(40), <1>6, <3>1, ShiftReads
  <2>4. ASSUME NEW q \in 1 .. l
        PROVE  s[q] = cells[SlotOf(d, q - 1)]
    BY <1>3 DEF Holds
  <2>5. CASE i <= idx
    <3>1. j \notin to /\ i \in 1 .. l
      BY <1>3, <1>5, <2>1, <2>5
    <3>2. QED
      BY <1>9, <2>1, <2>2, <2>3, <2>4, <2>5, <3>1
  <2>6. CASE i > idx
    <3>1. j \in to /\ i + 1 \in 1 .. l /\ i + 1 - 1 = j + 1
      BY <1>3, <1>5, <2>1, <2>6
    <3>2. s[i + 1] = cells[SlotOf(d, j + 1)]
      BY <2>4, <3>1
    <3>3. QED
      BY <1>9, <2>1, <2>2, <2>3, <2>6, <3>1, <3>2
  <2>7. QED
    BY <2>5, <2>6
<1>11. Holds(e, new, t)
  <2>1. e.len = n /\ e.len <= e.cap /\ t \in Seq(Cells) /\ Len(t) = n
    BY <1>3, <1>9
  <2>2. QED
    BY <1>10, <2>1, Held
<1>12. QED
  BY <1>4, <1>5, <1>6, <1>7, <1>8, <1>11

(* A deque made longer, its new places zeroed.                             *)
LEMMA ResizeHolds ==
  ASSUME NEW d, IsRing(d), NEW cells \in [0 .. d.cap - 1 -> Cells], NEW s,
         Holds(d, cells, s), NEW l \in Nat, d.len = l, NEW n \in Nat, n > l, n <= d.cap,
         NEW e, SameBlock(d, e, d.head, n)
  PROVE  LET new == ZeroRun(d, cells, l .. n - 1)
         IN  /\ IsRing(e) /\ new \in [0 .. e.cap - 1 -> Cells]
             /\ Holds(e, new, Extended(s, n - l))
<1>1. d.cap \in Nat /\ d.head \in Nat /\ d.head < d.cap
  BY DEF IsRing
<1>2. /\ s \in Seq(Cells) /\ Len(s) = l
      /\ e.cap = d.cap /\ e.len = n /\ e.len <= e.cap
  BY DEF Holds, SameBlock
<1>3. IsRing(e)
  BY <1>1, RingFacts
<1>4. PICK idxs \in SUBSET (0 .. d.cap - 1) : idxs = l .. n - 1
  BY <1>1
<1>5. PICK new : new = ZeroRun(d, cells, idxs)
  OBVIOUS
<1>6. new \in [0 .. e.cap - 1 -> Cells]
  BY <1>1, <1>2, <1>5, ZeroRunIsCells
<1>7. PICK t : t = Extended(s, n - l)
  OBVIOUS
<1>8. /\ t \in Seq(Cells) /\ Len(t) = n
      /\ \A i \in 1 .. n : t[i] = IF i <= l THEN s[i] ELSE Zero
  <2>1. Zero \in Cells /\ n >= l
    BY DEF Cells, Elems
  <2>2. s \in Seq(Cells) /\ Len(s) = l
    BY <1>2
  <2>3. QED
    BY <1>7, <2>1, <2>2, ExtensionReads
<1>9. ASSUME NEW i \in 1 .. n
      PROVE  t[i] = new[SlotOf(e, i - 1)]
  <2>1. PICK j \in 0 .. d.cap - 1 : j = i - 1
    BY <1>1
  <2>2. SlotOf(e, j) = SlotOf(d, j)
    BY SameSlots
  <2>3. new[SlotOf(d, j)] = IF j \in idxs THEN Zero ELSE cells[SlotOf(d, j)]
    <3>1. DOMAIN cells = 0 .. d.cap - 1 /\ d.cap \in Nat
      BY <1>1
    <3>2. QED
      BY <1>5, <3>1, ZeroReads
  <2>4. i <= l => s[i] = cells[SlotOf(d, j)]
    BY <2>1 DEF Holds
  <2>5. j \in idxs <=> ~(i <= l)
    BY <1>4, <2>1
  <2>6. QED
    BY <1>8, <2>1, <2>2, <2>3, <2>4, <2>5
<1>10. Holds(e, new, t)
  BY <1>2, <1>8, <1>9, Held
<1>11. QED
  BY <1>3, <1>4, <1>5, <1>6, <1>7, <1>10

(* One elem written over another.                                          *)
LEMMA SetHolds ==
  ASSUME NEW d, IsRing(d), NEW cells \in [0 .. d.cap - 1 -> Cells], NEW s,
         Holds(d, cells, s), NEW l \in Nat, d.len = l, NEW v \in Vals, NEW p \in 0 .. l - 1
  PROVE  Holds(d, PutElem(d, cells, p, v), [s EXCEPT ![p + 1] = v])
<1>1. d.cap \in Nat /\ d.len = l /\ l <= d.cap /\ s \in Seq(Cells) /\ Len(s) = l
  BY DEF IsRing, Holds
<1>2. PICK new : new = PutElem(d, cells, p, v)
  OBVIOUS
<1>3. PICK t : t = [s EXCEPT ![p + 1] = v]
  OBVIOUS
<1>4. v \in Cells
  BY DEF Cells, Elems
<1>5. t \in Seq(Cells) /\ Len(t) = l /\ \A i \in 1 .. l : t[i] = IF i = p + 1 THEN v ELSE s[i]
  BY <1>1, <1>3, <1>4
<1>6. ASSUME NEW i \in 1 .. l
      PROVE  t[i] = new[SlotOf(d, i - 1)]
  <2>1. PICK j \in 0 .. d.cap - 1 : j = i - 1
    BY <1>1
  <2>2. new[SlotOf(d, j)] = IF j = p THEN v ELSE cells[SlotOf(d, j)]
    <3>1. DOMAIN cells = 0 .. d.cap - 1 /\ d.cap \in Nat /\ p \in 0 .. d.cap - 1
      BY <1>1
    <3>2. QED
      BY <1>2, <3>1, PutReads
  <2>3. s[i] = cells[SlotOf(d, j)]
    BY <2>1 DEF Holds
  <2>4. QED
    BY <1>5, <2>1, <2>2, <2>3
<1>7. Holds(d, new, t)
  BY <1>1, <1>5, <1>6, Held
<1>8. QED
  BY <1>2, <1>3, <1>7

(* Two elems changed places.                                               *)
LEMMA SwapElemsHolds ==
  ASSUME NEW d, IsRing(d), NEW cells \in [0 .. d.cap - 1 -> Cells], NEW s,
         Holds(d, cells, s), NEW l \in Nat, d.len = l, NEW p \in 0 .. l - 1, NEW q \in 0 .. l - 1
  PROVE  LET new == [cells EXCEPT ![SlotOf(d, p)] = cells[SlotOf(d, q)],
                                  ![SlotOf(d, q)] = cells[SlotOf(d, p)]]
         IN  Holds(d, new, [s EXCEPT ![p + 1] = s[q + 1], ![q + 1] = s[p + 1]])
<1>1. d.cap \in Nat /\ d.len = l /\ l <= d.cap /\ s \in Seq(Cells) /\ Len(s) = l
  BY DEF IsRing, Holds
<1>2. PICK x \in 0 .. d.cap - 1 : x = SlotOf(d, p)
  BY SMTT(40), <1>1, PlaceIsSlot
<1>3. PICK y \in 0 .. d.cap - 1 : y = SlotOf(d, q)
  BY SMTT(40), <1>1, PlaceIsSlot
<1>4. PICK new : new = [cells EXCEPT ![x] = cells[y], ![y] = cells[x]]
  OBVIOUS
<1>5. PICK t : t = [s EXCEPT ![p + 1] = s[q + 1], ![q + 1] = s[p + 1]]
  OBVIOUS
<1>6. s[p + 1] \in Cells /\ s[q + 1] \in Cells /\ p + 1 \in 1 .. l /\ q + 1 \in 1 .. l
  BY <1>1
<1>7. t \in Seq(Cells) /\ Len(t) = l
  BY <1>1, <1>5, <1>6
<1>8. \A i \in 1 .. l :
        t[i] = IF i = q + 1 THEN s[p + 1] ELSE IF i = p + 1 THEN s[q + 1] ELSE s[i]
  BY <1>1, <1>5, <1>6
<1>9. s[p + 1] = cells[x] /\ s[q + 1] = cells[y]
  <2>1. p + 1 - 1 = p /\ q + 1 - 1 = q
    OBVIOUS
  <2>2. s[p + 1] = cells[SlotOf(d, p + 1 - 1)] /\ s[q + 1] = cells[SlotOf(d, q + 1 - 1)]
    BY <1>1, <1>6 DEF Holds
  <2>3. QED
    BY <1>2, <1>3, <2>1, <2>2
<1>10. ASSUME NEW i \in 1 .. l
       PROVE  t[i] = new[SlotOf(d, i - 1)]
  <2>1. PICK j \in 0 .. d.cap - 1 : j = i - 1
    BY <1>1
  <2>2. PICK z \in 0 .. d.cap - 1 : z = SlotOf(d, j)
    BY <1>1, PlaceIsSlot
  <2>3. p \in 0 .. d.cap - 1 /\ q \in 0 .. d.cap - 1
    BY <1>1
  <2>4. (z = x <=> j = p) /\ (z = y <=> j = q)
    BY <1>1, <1>2, <1>3, <2>2, <2>3, SlotsDiffer
  <2>5. new[z] = IF z = y THEN cells[x] ELSE IF z = x THEN cells[y] ELSE cells[z]
    BY <1>4
  <2>6. s[i] = cells[z]
    BY <2>1, <2>2 DEF Holds
  <2>7. (i = p + 1 <=> j = p) /\ (i = q + 1 <=> j = q)
    BY <2>1
  <2>8. QED
    BY <1>8, <1>9, <2>1, <2>2, <2>4, <2>5, <2>6, <2>7
<1>11. Holds(d, new, t)
  BY <1>1, <1>7, <1>10, Held
<1>12. QED
  BY <1>2, <1>3, <1>4, <1>5, <1>11

(* Every elem overwritten.                                                 *)
LEMMA CopyInHolds ==
  ASSUME NEW d, IsRing(d), NEW cells \in [0 .. d.cap - 1 -> Cells],
         NEW l \in Nat, d.len = l, l <= d.cap, NEW s \in Seq(Cells), Len(s) = l
  PROVE  Holds(d, CopyIn(d, cells, s), s)
<1>1. d.cap \in Nat
  BY DEF IsRing
<1>2. PICK new : new = CopyIn(d, cells, s)
  OBVIOUS
<1>3. ASSUME NEW i \in 1 .. l
      PROVE  s[i] = new[SlotOf(d, i - 1)]
  <2>1. PICK j \in 0 .. l - 1 : j = i - 1
    OBVIOUS
  <2>2. d.len \in Nat /\ d.len <= d.cap /\ j \in 0 .. d.len - 1 /\ DOMAIN cells = 0 .. d.cap - 1
    OBVIOUS
  <2>3. CopyIn(d, cells, s)[SlotOf(d, j)] = s[j + 1]
    BY <1>1, <2>2, CopyInReads
  <2>4. QED
    BY <1>2, <2>1, <2>3
<1>4. Holds(d, new, s)
  BY <1>3, Held
<1>5. QED
  BY <1>2, <1>4

(* A struct reads a sequence of cells.                                     *)
LEMMA ElemsAreSeq ==
  ASSUME NEW d, NEW m, StructOK(d, m)
  PROVE  /\ ElemsOf(d, m) \in Seq(Cells)
         /\ Len(ElemsOf(d, m)) = d.len
         /\ DOMAIN ElemsOf(d, m) = 1 .. d.len
         /\ \A i \in 1 .. d.len : ElemsOf(d, m)[i] = m[d.data].cells[SlotOf(d, i - 1)]
<1>1. d.len \in Nat /\ d.cap \in Nat /\ d.head \in Nat /\ d.len <= d.cap
      /\ (d.cap > 0 => d.head < d.cap /\ m[d.data].cells \in [0 .. d.cap - 1 -> Cells])
  BY StructFacts DEF StructOK, BlockOf
<1>2. ASSUME NEW i \in 1 .. d.len
      PROVE  m[d.data].cells[SlotOf(d, i - 1)] \in Cells
  <2>1. d.cap > 0 /\ i - 1 \in 0 .. d.cap
    BY <1>1
  <2>2. SlotOf(d, i - 1) \in 0 .. d.cap - 1
    BY <1>1, <2>1, SlotIsInBlock
  <2>3. QED
    BY <1>1, <2>1, <2>2
<1>3. ElemsOf(d, m) \in [1 .. d.len -> Cells]
  BY <1>2 DEF ElemsOf, Reads
<1>4. QED
  BY <1>1, <1>3, FunctionIsSeq DEF ElemsOf, Reads

(* A struct holds what it reads, and nothing else.                         *)
LEMMA HeldElems ==
  ASSUME NEW d, NEW m, StructOK(d, m), NEW s
  PROVE  Holds(d, m[d.data].cells, s) <=> s = ElemsOf(d, m)
<1>1. d.len <= d.cap
  BY DEF StructOK
<1>2. PICK t : t = ElemsOf(d, m)
  OBVIOUS
<1>3. t \in Seq(Cells) /\ Len(t) = d.len
      /\ \A i \in 1 .. d.len : t[i] = m[d.data].cells[SlotOf(d, i - 1)]
  BY <1>2, ElemsAreSeq
<1>4. Holds(d, m[d.data].cells, t)
  BY <1>1, <1>3 DEF Holds
<1>5. ASSUME Holds(d, m[d.data].cells, s)
      PROVE  s = t
  <2>1. s \in Seq(Cells) /\ Len(s) = Len(t) /\ \A i \in 1 .. Len(s) : s[i] = t[i]
    BY <1>3, <1>5 DEF Holds
  <2>2. t \in Seq(Cells)
    BY <1>3
  <2>3. QED
    BY <2>1, <2>2, SeqEqual
<1>6. QED
  BY <1>2, <1>4, <1>5

(* The object behind a struct is an object.                                *)
LEMMA ObjectFacts ==
  ASSUME NEW d, NEW m, StructOK(d, m)
  PROVE  /\ ObjectOf(d, m) = [al |-> d.al, elems |-> ElemsOf(d, m)]
         /\ ObjectOf(d, m) # Null
<1>1. d # Null /\ d.al \in Als
  BY StructFacts
<1>2. [al |-> d.al, elems |-> ElemsOf(d, m)] \in [al : Als, elems : Seq(Cells)]
  BY <1>1, ElemsAreSeq
<1>3. QED
  BY <1>1, <1>2, NullAssumption DEF ObjectOf

(* What a caller reads, in one piece or in two runs, is what is in the     *)
(* slots.                                                                  *)
LEMMA ObjsAreObjects ==
  IInv => Objs = [h \in Handles |-> ObjectOf(dq[h], mem)]
<1>1. ASSUME IInv, NEW h \in Handles, Alive(h)
      PROVE  Contents(h) = ElemsOf(dq[h], mem)
  <2>1. PICK d : d = dq[h]
    OBVIOUS
  <2>2. StructOK(d, mem) /\ d.len \in Nat
    BY <1>1, <2>1, LiveFacts
  <2>3. ASSUME NEW i \in 1 .. d.len
        PROVE  (IF d.head + d.len <= d.cap THEN ElemAt(d, mem, i - 1)
                ELSE CopyToSpan(d, mem)[i - 1]) = mem[d.data].cells[SlotOf(d, i - 1)]
    <3>1. i - 1 \in Nat /\ i - 1 < d.len /\ i - 1 \in DOMAIN Raw(d.len)
      BY <2>2 DEF Raw
    <3>2. CopyToSpan(d, mem)[i - 1] = mem[d.data].cells[SlotOf(d, i - 1)]
      BY <2>2, <3>1, CopyOutReads DEF CopyToSpan
    <3>3. QED
      BY <3>2 DEF ElemAt
  <2>4. QED
    BY <2>1, <2>3 DEF Contents, ElemsOf, Reads
<1>2. QED
  BY <1>1 DEF Objs, ObjectOf, Alive

(* And after a step.                                                       *)
LEMMA ObjsAfter ==
  IInv' => Objs' = [h \in Handles |-> ObjectOf(dq'[h], mem')]
<1>1. (IInv => Objs = [h \in Handles |-> ObjectOf(dq[h], mem)])'
  BY ObjsAreObjects, PTL
<1>2. QED
  BY <1>1 DEF ObjectOf, ElemsOf, Reads, SlotOf

-----------------------------------------------------------------------------
(* One call, one step of the sequence container.                           *)

(* What the abstraction says of a live deque: its elems.                   *)
LEMMA LiveObject ==
  ASSUME IInv, NEW h \in Handles
  PROVE  /\ S!Alive(h) <=> Alive(h)
         /\ Alive(h) =>
              /\ Objs[h] = [al |-> dq[h].al, elems |-> ElemsOf(dq[h], mem)]
              /\ Objs[h].al = dq[h].al
              /\ Objs[h].elems = ElemsOf(dq[h], mem)
              /\ Holds(dq[h], mem[dq[h].data].cells, Objs[h].elems)
<1>1. Objs[h] = ObjectOf(dq[h], mem)
  BY ObjsAreObjects
<1>2. Alive(h) => StructOK(dq[h], mem)
  BY LiveFacts
<1>3. S!Alive(h) <=> Objs[h] # Null
  BY DEF S!Alive
<1>4. S!Alive(h) <=> Alive(h)
  BY <1>1, <1>2, <1>3, ObjectFacts DEF Alive, ObjectOf
<1>5. Alive(h) => Objs[h] = [al |-> dq[h].al, elems |-> ElemsOf(dq[h], mem)]
  BY <1>1, <1>2, ObjectFacts
<1>6. Alive(h) => Objs[h].al = dq[h].al /\ Objs[h].elems = ElemsOf(dq[h], mem)
  BY <1>5
<1>7. Alive(h) => Holds(dq[h], mem[dq[h].data].cells, Objs[h].elems)
  BY <1>2, <1>6, HeldElems
<1>8. QED
  BY <1>4, <1>5, <1>6, <1>7

(* A struct whose block was left alone reads what it read.                 *)
LEMMA SameObject ==
  ASSUME NEW d, NEW m0, NEW m, StructOK(d, m0), d.data # Null => m[d.data] = m0[d.data]
  PROVE  ObjectOf(d, m) = ObjectOf(d, m0)
<1>1. CASE d.data = Null
  <2>1. d.len = 0
    BY <1>1, StructFacts DEF StructOK
  <2>2. QED
    BY <2>1 DEF ObjectOf, ElemsOf, Reads
<1>2. CASE d.data # Null
  BY <1>2 DEF ObjectOf, ElemsOf
<1>3. QED
  BY <1>1, <1>2

(* A call on one deque is none on another: no other deque reads its block. *)
LEMMA OthersRead ==
  ASSUME IInv, NEW h \in Handles, Alive(h),
         NEW d, NEW m, Exchanges(dq[h], mem, d, m), NEW g \in Handles, g # h
  PROVE  ObjectOf(dq[g], m) = ObjectOf(dq[g], mem)
<1>1. CASE dq[g] = Null
  BY <1>1 DEF ObjectOf
<1>2. CASE dq[g] # Null
  <2>1. StructOK(dq[g], mem)
    BY <1>2, LiveFacts DEF Alive
  <2>2. dq[g].data # Null => m[dq[g].data] = mem[dq[g].data]
    <3>1. HAVE dq[g].data # Null
    <3>2. dq[g].data # dq[h].data /\ dq[g].data \in Blocks /\ mem[dq[g].data] # Null
      BY <1>2, <3>1, SoundFacts DEF IInv, Alive
    <3>3. dq[g].data # d.data
      BY <3>2, NullAssumption DEF Exchanges
    <3>4. QED
      BY <3>2, <3>3 DEF Exchanges
  <2>3. QED
    BY <2>1, <2>2, SameObject
<1>3. QED
  BY <1>1, <1>2

(* A call that exchanges the struct and block of one deque gives it the    *)
(* elems of the new ring and leaves the other objects alone.               *)
LEMMA Becoming ==
  ASSUME IInv, IInv', NEW h \in Handles, Alive(h), NEW d, NEW m,
         Exchanges(dq[h], mem, d, m), Commit(h, d, m)
  PROVE  S!Becomes(h, ElemsOf(d, m))
<1>1. Sound(dq, mem) /\ dq[h] # Null /\ dq \in [Handles -> Deques \cup {Null}]
  BY DEF IInv, Alive, Sound
<1>2. dq' = [dq EXCEPT ![h] = d] /\ mem' = m /\ status' = OK
  BY DEF Commit
<1>3. PICK O : O = Objs
  OBVIOUS
<1>4. O = [g \in Handles |-> ObjectOf(dq[g], mem)]
  BY <1>3, ObjsAreObjects
<1>5. Objs' = [g \in Handles |-> ObjectOf(dq'[g], m)]
  BY <1>2, ObjsAfter
<1>6. ASSUME NEW g \in Handles, g # h
      PROVE  ObjectOf(dq'[g], m) = O[g]
  <2>1. dq'[g] = dq[g]
    BY <1>1, <1>2, <1>6
  <2>2. ObjectOf(dq[g], m) = ObjectOf(dq[g], mem)
    BY <1>6, OthersRead
  <2>3. QED
    BY <1>4, <2>1, <2>2
<1>7. ObjectOf(dq'[h], m) = [O[h] EXCEPT !.elems = ElemsOf(d, m)]
  <2>1. dq'[h] = d
    BY <1>1, <1>2
  <2>2. StructOK(d, m) /\ d.al = dq[h].al
    BY DEF Exchanges
  <2>3. ObjectOf(d, m) = [al |-> dq[h].al, elems |-> ElemsOf(d, m)]
    BY <2>2, ObjectFacts
  <2>4. O[h] = [al |-> dq[h].al, elems |-> ElemsOf(dq[h], mem)]
    BY <1>3, LiveObject
  <2>5. QED
    BY <2>1, <2>3, <2>4
<1>8. Objs' = [O EXCEPT ![h].elems = ElemsOf(d, m)]
  <2>1. Objs' = [g \in Handles |->
                  IF g = h THEN [O[h] EXCEPT !.elems = ElemsOf(d, m)] ELSE O[g]]
    BY <1>5, <1>6, <1>7
  <2>2. DOMAIN O = Handles
    BY <1>4
  <2>3. QED
    BY <1>4, <2>1
<1>9. QED
  BY <1>2, <1>3, <1>8 DEF S!Becomes

(* The same, when it also writes to the block it ends with: the new elems  *)
(* are those in the cells.                                                 *)
LEMMA Writing ==
  ASSUME IInv, IInv', NEW h \in Handles, Alive(h), NEW d1, NEW m1,
         Exchanges(dq[h], mem, d1, m1), NEW d, IsRing(d), SameBlock(d1, d, d.head, d.len),
         NEW cells \in [0 .. d.cap - 1 -> Cells], CommitCells(h, d, m1, cells),
         NEW s, Holds(d, cells, s)
  PROVE  S!Becomes(h, s)
<1>1. dq[h].data \in Blocks \cup {Null}
  BY SoundFacts DEF IInv, Alive
<1>2. /\ d \in Deques /\ d.data = d1.data /\ d.cap = d1.cap /\ d.al = d1.al
      /\ d.len <= d.cap /\ d.cap > 0 /\ d.head < d.cap
  BY DEF SameBlock, IsRing, Holds
<1>3. Exchanges(dq[h], mem, d, [m1 EXCEPT ![d.data].cells = cells])
  BY <1>1, <1>2, CellsWritten
<1>4. PICK blk : blk = d.data
  OBVIOUS
<1>5. PICK m : m = [m1 EXCEPT ![blk].cells = cells]
  OBVIOUS
<1>6. Exchanges(dq[h], mem, d, m) /\ Commit(h, d, m)
  BY <1>3, <1>4, <1>5 DEF CommitCells
<1>7. S!Becomes(h, ElemsOf(d, m))
  BY <1>6, Becoming
<1>8. m[d.data].cells = cells
  <2>1. Exchanges(dq[h], mem, d, m1)
    BY <1>2, EndsMoved
  <2>2. StructOK(d, m1) /\ IsMemory(m1) /\ d.data # Null
    BY <1>2, <2>1 DEF Exchanges, StructOK
  <2>3. blk \in Blocks /\ m1[blk] \in BlockOf(d)
    BY <1>4, <2>2, StructFacts
  <2>4. m[blk] = [al |-> d.al, bytes |-> CapBytes(d), cells |-> cells]
    BY <1>2, <1>5, <2>2, <2>3, Rewriting
  <2>5. m[blk].cells = cells
    BY <2>4
  <2>6. QED
    BY <1>4, <2>5
<1>9. ElemsOf(d, m) = s
  <2>1. StructOK(d, m)
    BY <1>6 DEF Exchanges
  <2>2. Holds(d, m[d.data].cells, s)
    BY <1>8
  <2>3. QED
    BY <2>1, <2>2, HeldElems
<1>10. QED
  BY <1>7, <1>9

(* The same, when it only moves the ends within the block it has.          *)
LEMMA Moving ==
  ASSUME IInv, IInv', NEW h \in Handles, Alive(h), NEW k \in Nat, NEW n \in Nat,
         n <= dq[h].cap, dq[h].cap = 0 => k = 0, dq[h].cap > 0 => k < dq[h].cap,
         NEW d, SameBlock(dq[h], d, k, n), Commit(h, d, mem),
         NEW s, Holds(d, mem[d.data].cells, s)
  PROVE  S!Becomes(h, s)
<1>1. Exchanges(dq[h], mem, d, mem)
  BY LiveFacts, EndsMoved DEF SameBlock
<1>2. S!Becomes(h, ElemsOf(d, mem))
  BY <1>1, Becoming
<1>3. StructOK(d, mem)
  BY <1>1 DEF Exchanges
<1>4. ElemsOf(d, mem) = s
  BY <1>3, HeldElems
<1>5. QED
  BY <1>2, <1>4

(* A refused call changes no object, nor does one with nothing to do.      *)
LEMMA Standing ==
  ASSUME IInv, IInv', UNCHANGED <<dq, mem>>
  PROVE  Objs' = Objs
<1>1. Objs' = [h \in Handles |-> ObjectOf(dq[h], mem)]
  BY ObjsAfter
<1>2. QED
  BY <1>1, ObjsAreObjects

(* So a refusal is one.                                                    *)
LEMMA Refusing ==
  ASSUME IInv, IInv', Refuse
  PROVE  S!Refused
  BY Standing DEF Refuse, S!Refused

(* What a request for room that was granted leaves to read: the same.      *)
LEMMA MadeReads ==
  ASSUME IInv, NEW h \in Handles, Alive(h),
         NEW n, NEW r, Makes(r, dq[h], mem, n), r.st = OK
  PROVE  Holds(r.d, r.m[r.d.data].cells, Objs[h].elems)
<1>1. StructOK(r.d, r.m) /\ ElemsOf(r.d, r.m) = ElemsOf(dq[h], mem)
  BY DEF Makes, Exchanges
<1>2. Holds(r.d, r.m[r.d.data].cells, ElemsOf(r.d, r.m))
  BY <1>1, HeldElems
<1>3. Objs[h].elems = ElemsOf(dq[h], mem)
  BY LiveObject
<1>4. QED
  BY <1>1, <1>2, <1>3

(* And a ring with room for one elem more.                                 *)
LEMMA RoomForOne ==
  ASSUME IInv, NEW h \in Handles, Alive(h), NEW room \in Rooms, NEW b \in Blocks,
         mem[b] = Null, NEW r, r = ReserveOne(dq[h], mem, room, b)
  PROVE  /\ r.st \in {OK, NoMem}
         /\ r.st = OK =>
              /\ Exchanges(dq[h], mem, r.d, r.m) /\ r.d \in Deques /\ IsRing(r.d)
              /\ r.d.len = dq[h].len /\ r.d.len < r.d.cap
              /\ r.m[r.d.data].cells \in [0 .. r.d.cap - 1 -> Cells]
              /\ Holds(r.d, r.m[r.d.data].cells, Objs[h].elems)
<1>1. Makes(r, dq[h], mem, dq[h].len + 1)
  BY SMTT(40), LiveFacts, ReserveOneOK
<1>2. CASE r.st = OK
  <2>1. /\ Exchanges(dq[h], mem, r.d, r.m) /\ r.d.len = dq[h].len
        /\ r.d.cap >= dq[h].len + 1
    BY <1>1, <1>2 DEF Makes
  <2>2. /\ r.d \in Deques /\ r.d.len \in Nat /\ r.d.cap \in Nat /\ r.d.head \in Nat
        /\ r.d.cap > 0 => /\ r.d.head < r.d.cap
                          /\ r.m[r.d.data].cells \in [0 .. r.d.cap - 1 -> Cells]
    BY <2>1, MadeFacts
  <2>3. /\ r.d \in Deques /\ IsRing(r.d) /\ r.d.len < r.d.cap /\ r.d.len <= r.d.cap
        /\ r.m[r.d.data].cells \in [0 .. r.d.cap - 1 -> Cells]
    BY <2>1, <2>2 DEF IsRing
  <2>4. Holds(r.d, r.m[r.d.data].cells, Objs[h].elems)
    BY <1>1, <1>2, MadeReads
  <2>5. QED
    BY <1>2, <2>1, <2>3, <2>4
<1>3. QED
  BY <1>1, <1>2 DEF Makes

-----------------------------------------------------------------------------
(* Call by call.                                                           *)

(* deque_push_front.                                                       *)
LEMMA PushFrontRefines ==
  ASSUME IInv, IInv', NEW h \in Handles, NEW v \in Vals, NEW room \in Rooms,
         NEW b \in Blocks, PushFront(h, v, room, b)
  PROVE  S!SeqPushFront(h, v)
<1>1. Alive(h) /\ mem[b] = Null /\ S!Alive(h)
  BY LiveObject DEF PushFront, Fresh
<1>2. PICK r : r = ReserveOne(dq[h], mem, room, b)
  OBVIOUS
<1>3. CASE r.st = NoMem
  <2>1. Refuse
    BY <1>2, <1>3, DequeAssumption DEF PushFront
  <2>2. QED
    BY <1>1, <2>1, Refusing DEF S!SeqPushFront
<1>4. CASE r.st = OK
  <2>1. /\ Exchanges(dq[h], mem, r.d, r.m) /\ r.d \in Deques /\ IsRing(r.d)
        /\ r.d.len < r.d.cap /\ r.m[r.d.data].cells \in [0 .. r.d.cap - 1 -> Cells]
        /\ Holds(r.d, r.m[r.d.data].cells, Objs[h].elems)
    BY <1>1, <1>2, <1>4, RoomForOne
  <2>2. PICK k \in Nat : k = StepBack(r.d)
    BY <2>1, StepsAreSlots DEF IsRing
  <2>3. PICK n \in Nat : n = r.d.len + 1
    BY <2>1 DEF Deques
  <2>4. PICK d : d = [r.d EXCEPT !.head = k, !.len = n]
    OBVIOUS
  <2>5. SameBlock(r.d, d, k, n)
    BY <2>1, <2>4, EndsSet
  <2>6. PICK cells : cells = PutElem(d, r.m[r.d.data].cells, 0, v)
    OBVIOUS
  <2>7. /\ IsRing(d) /\ cells \in [0 .. d.cap - 1 -> Cells]
        /\ Holds(d, cells, <<v>> \o Objs[h].elems)
    BY <2>1, <2>2, <2>3, <2>5, <2>6, PushFrontHolds
  <2>8. CommitCells(h, d, r.m, cells)
    BY <1>2, <1>4, <2>2, <2>3, <2>4, <2>5, <2>6, DequeAssumption DEF PushFront, SameBlock
  <2>9. S!Becomes(h, <<v>> \o Objs[h].elems)
    BY <1>1, <2>1, <2>5, <2>7, <2>8, Writing DEF SameBlock
  <2>10. QED
    BY <1>1, <2>9 DEF S!SeqPushFront
<1>5. QED
  BY SMTT(40), <1>1, <1>2, <1>3, <1>4, RoomForOne

(* deque_push_back.                                                        *)
LEMMA PushBackRefines ==
  ASSUME IInv, IInv', NEW h \in Handles, NEW v \in Vals, NEW room \in Rooms,
         NEW b \in Blocks, PushBack(h, v, room, b)
  PROVE  S!SeqPushBack(h, v)
<1>1. Alive(h) /\ mem[b] = Null /\ S!Alive(h)
  BY LiveObject DEF PushBack, Fresh
<1>2. PICK r : r = ReserveOne(dq[h], mem, room, b)
  OBVIOUS
<1>3. CASE r.st = NoMem
  <2>1. Refuse
    BY <1>2, <1>3, DequeAssumption DEF PushBack
  <2>2. QED
    BY <1>1, <2>1, Refusing DEF S!SeqPushBack
<1>4. CASE r.st = OK
  <2>1. /\ Exchanges(dq[h], mem, r.d, r.m) /\ r.d \in Deques /\ IsRing(r.d)
        /\ r.d.len < r.d.cap /\ r.m[r.d.data].cells \in [0 .. r.d.cap - 1 -> Cells]
        /\ Holds(r.d, r.m[r.d.data].cells, Objs[h].elems)
    BY SMTT(40), <1>1, <1>2, <1>4, RoomForOne
  <2>2. PICK n \in Nat : n = r.d.len + 1 /\ n <= r.d.cap
    BY <2>1 DEF Deques
  <2>3. PICK d : d = [r.d EXCEPT !.len = n]
    OBVIOUS
  <2>4. SameBlock(r.d, d, r.d.head, n)
    BY <2>1, <2>3, EndsSet
  <2>5. PICK cells : cells = PutElem(r.d, r.m[r.d.data].cells, r.d.len, v)
    OBVIOUS
  <2>6. /\ IsRing(d) /\ cells \in [0 .. d.cap - 1 -> Cells]
        /\ Holds(d, cells, Append(Objs[h].elems, v))
    BY <2>1, <2>2, <2>4, <2>5, PushBackHolds
  <2>7. CommitCells(h, d, r.m, cells)
    BY <1>2, <1>4, <2>2, <2>3, <2>4, <2>5, DequeAssumption DEF PushBack, SameBlock
  <2>8. S!Becomes(h, Append(Objs[h].elems, v))
    BY <1>1, <2>1, <2>4, <2>6, <2>7, Writing DEF SameBlock
  <2>9. QED
    BY <1>1, <2>8 DEF S!SeqPushBack
<1>5. QED
  BY SMTT(40), <1>1, <1>2, <1>3, <1>4, RoomForOne

(* deque_pop_front.                                                        *)
LEMMA PopFrontRefines ==
  ASSUME IInv, IInv', NEW h \in Handles, PopFront(h)
  PROVE  S!SeqPopFront(h)
<1>1. PICK d : d = dq[h]
  OBVIOUS
<1>2. PICK s : s = Objs[h].elems
  OBVIOUS
<1>3. PICK cells : cells = mem[d.data].cells
  OBVIOUS
<1>4. Alive(h) /\ d.len > 0 /\ S!Alive(h) /\ Holds(d, cells, s)
  BY <1>1, <1>2, <1>3, LiveObject DEF PopFront
<1>5. /\ d \in Deques /\ d.len \in Nat /\ d.cap \in Nat /\ d.head \in Nat
      /\ d.len <= d.cap /\ d.cap > 0 /\ d.head < d.cap
  BY <1>1, <1>4, LiveFacts
<1>6. PICK k \in Nat : k = StepOn(d) /\ k < d.cap
  BY <1>5, StepsAreSlots
<1>7. PICK n \in Nat : n = d.len - 1 /\ n <= d.cap
  BY <1>4, <1>5
<1>8. PICK e : e = [d EXCEPT !.head = k, !.len = n]
  OBVIOUS
<1>9. SameBlock(d, e, k, n)
  BY <1>5, <1>8, EndsSet
<1>10. Commit(h, e, mem)
  BY <1>1, <1>5, <1>6, <1>7, <1>8 DEF PopFront
<1>11. Holds(e, cells, Tail(s))
  BY <1>4, <1>5, <1>6, <1>7, <1>9, PopFrontHolds DEF IsRing
<1>12. Holds(e, mem[e.data].cells, Tail(s))
  BY <1>3, <1>9, <1>11 DEF SameBlock
<1>13. S!Becomes(h, Tail(s))
  BY <1>1, <1>4, <1>5, <1>6, <1>7, <1>9, <1>10, <1>12, Moving
<1>14. s # <<>>
  <2>1. Len(s) > 0
    BY <1>4 DEF Holds
  <2>2. QED
    BY <2>1
<1>15. QED
  BY <1>2, <1>4, <1>13, <1>14 DEF S!SeqPopFront

(* deque_pop_back.                                                         *)
LEMMA PopBackRefines ==
  ASSUME IInv, IInv', NEW h \in Handles, PopBack(h)
  PROVE  S!SeqPopBack(h)
<1>1. PICK d : d = dq[h]
  OBVIOUS
<1>2. PICK s : s = Objs[h].elems
  OBVIOUS
<1>3. PICK cells : cells = mem[d.data].cells
  OBVIOUS
<1>4. Alive(h) /\ d.len > 0 /\ S!Alive(h) /\ Holds(d, cells, s)
  BY <1>1, <1>2, <1>3, LiveObject DEF PopBack
<1>5. /\ d \in Deques /\ d.len \in Nat /\ d.cap \in Nat /\ d.head \in Nat
      /\ d.len <= d.cap /\ d.cap > 0 /\ d.head < d.cap
  BY <1>1, <1>4, LiveFacts
<1>6. PICK n \in Nat : n = d.len - 1 /\ n <= d.cap /\ n <= d.len
  BY <1>4, <1>5
<1>7. PICK e : e = [d EXCEPT !.len = n]
  OBVIOUS
<1>8. SameBlock(d, e, d.head, n)
  BY <1>5, <1>7, EndsSet
<1>9. Commit(h, e, mem)
  BY <1>1, <1>5, <1>6, <1>7 DEF PopBack
<1>10. Holds(e, cells, S!FirstN(s, n))
  BY <1>4, <1>5, <1>6, <1>8, CutHolds
<1>11. Holds(e, mem[e.data].cells, S!FirstN(s, n))
  BY <1>3, <1>8, <1>10 DEF SameBlock
<1>12. S!Becomes(h, S!FirstN(s, n))
  BY <1>1, <1>4, <1>5, <1>6, <1>8, <1>9, <1>11, Moving
<1>13. Len(s) = d.len
  BY <1>4 DEF Holds
<1>14. s # <<>>
  BY <1>4, <1>13
<1>15. S!Becomes(h, S!FirstN(s, Len(s) - 1))
  BY <1>6, <1>12, <1>13
<1>16. QED
  BY <1>2, <1>4, <1>14, <1>15 DEF S!SeqPopBack

(* deque_clear.                                                            *)
LEMMA ClearRefines ==
  ASSUME IInv, IInv', NEW h \in Handles, Clear(h)
  PROVE  S!SeqClear(h)
<1>1. Alive(h) /\ S!Alive(h)
  BY LiveObject DEF Clear
<1>2. dq[h] \in Deques /\ dq[h].cap \in Nat
  BY <1>1, LiveFacts
<1>3. PICK e : e = [dq[h] EXCEPT !.head = 0, !.len = 0]
  OBVIOUS
<1>4. SameBlock(dq[h], e, 0, 0)
  BY <1>2, <1>3, EndsSet
<1>5. Commit(h, e, mem)
  <2>1. e = [dq[h] EXCEPT !.len = 0, !.head = 0]
    BY <1>2, <1>3 DEF Deques
  <2>2. QED
    BY <2>1 DEF Clear
<1>6. Holds(e, mem[e.data].cells, <<>>)
  BY <1>2, <1>4, NothingHeld DEF SameBlock
<1>7. S!Becomes(h, <<>>)
  BY <1>1, <1>2, <1>4, <1>5, <1>6, Moving
<1>8. QED
  BY <1>1, <1>7 DEF S!SeqClear

(* deque_set.                                                              *)
LEMMA SetRefines ==
  ASSUME IInv, IInv', NEW h \in Handles, NEW i, NEW v \in Vals, Set(h, i, v)
  PROVE  S!SeqSet(h, i, v)
<1>1. PICK d : d = dq[h]
  OBVIOUS
<1>2. PICK s : s = Objs[h].elems
  OBVIOUS
<1>3. PICK cells : cells = mem[d.data].cells
  OBVIOUS
<1>4. Alive(h) /\ S!Alive(h) /\ i \in 0 .. d.len - 1 /\ Holds(d, cells, s)
  BY <1>1, <1>2, <1>3, LiveObject DEF Set
<1>5. /\ d \in Deques /\ d.len \in Nat /\ d.cap \in Nat /\ d.head \in Nat
      /\ d.len <= d.cap /\ d.cap > 0 /\ d.head < d.cap
      /\ cells \in [0 .. d.cap - 1 -> Cells] /\ Exchanges(dq[h], mem, d, mem)
  BY <1>1, <1>3, <1>4, LiveFacts
<1>6. IsRing(d)
  BY <1>5 DEF IsRing
<1>7. PICK l \in Nat : l = d.len
  BY <1>5
<1>8. PICK new : new = PutElem(d, cells, i, v)
  OBVIOUS
<1>9. Holds(d, new, [s EXCEPT ![i + 1] = v])
  BY <1>4, <1>5, <1>6, <1>7, <1>8, SetHolds
<1>10. new \in [0 .. d.cap - 1 -> Cells]
  BY <1>5, <1>8, PutElemIsCells
<1>11. CommitCells(h, d, mem, new)
  BY <1>1, <1>3, <1>8 DEF Set
<1>12. SameBlock(d, d, d.head, d.len)
  BY <1>5 DEF SameBlock
<1>13. S!Becomes(h, [s EXCEPT ![i + 1] = v])
  BY <1>4, <1>5, <1>6, <1>9, <1>10, <1>11, <1>12, Writing
<1>14. i \in 0 .. Len(s) - 1
  BY <1>4 DEF Holds
<1>15. QED
  BY <1>2, <1>4, <1>13, <1>14 DEF S!SeqSet

(* deque_swap_elems.                                                       *)
LEMMA SwapElemsRefines ==
  ASSUME IInv, IInv', NEW h \in Handles, NEW i, NEW j, SwapElems(h, i, j)
  PROVE  S!SeqSwapElems(h, i, j)
<1>1. PICK d : d = dq[h]
  OBVIOUS
<1>2. PICK s : s = Objs[h].elems
  OBVIOUS
<1>3. PICK cells : cells = mem[d.data].cells
  OBVIOUS
<1>4. Alive(h) /\ S!Alive(h) /\ i \in 0 .. d.len - 1 /\ j \in 0 .. d.len - 1
      /\ Holds(d, cells, s)
  BY <1>1, <1>2, <1>3, LiveObject DEF SwapElems
<1>5. /\ d \in Deques /\ d.len \in Nat /\ d.cap \in Nat /\ d.head \in Nat
      /\ d.len <= d.cap /\ d.cap > 0 /\ d.head < d.cap
      /\ cells \in [0 .. d.cap - 1 -> Cells] /\ Exchanges(dq[h], mem, d, mem)
  BY <1>1, <1>3, <1>4, LiveFacts
<1>6. IsRing(d)
  BY <1>5 DEF IsRing
<1>7. PICK l \in Nat : l = d.len
  BY <1>5
<1>8. PICK new : new = [cells EXCEPT ![SlotOf(d, i)] = cells[SlotOf(d, j)],
                                     ![SlotOf(d, j)] = cells[SlotOf(d, i)]]
  OBVIOUS
<1>9. Holds(d, new, [s EXCEPT ![i + 1] = s[j + 1], ![j + 1] = s[i + 1]])
  BY <1>4, <1>5, <1>6, <1>7, <1>8, SwapElemsHolds
<1>10. new \in [0 .. d.cap - 1 -> Cells]
  <2>1. SlotOf(d, i) \in 0 .. d.cap - 1 /\ SlotOf(d, j) \in 0 .. d.cap - 1
    BY <1>4, <1>5, SlotIsInBlock
  <2>2. QED
    BY <1>5, <1>8, <2>1
<1>11. CommitCells(h, d, mem, new)
  BY <1>1, <1>3, <1>8 DEF SwapElems
<1>12. SameBlock(d, d, d.head, d.len)
  BY <1>5 DEF SameBlock
<1>13. S!Becomes(h, [s EXCEPT ![i + 1] = s[j + 1], ![j + 1] = s[i + 1]])
  BY <1>4, <1>5, <1>6, <1>9, <1>10, <1>11, <1>12, Writing
<1>14. {i, j} \subseteq 0 .. Len(s) - 1
  BY <1>4 DEF Holds
<1>15. QED
  BY <1>2, <1>4, <1>13, <1>14 DEF S!SeqSwapElems

(* deque_copy_from_span.                                                   *)
LEMMA CopyFromSpanRefines ==
  ASSUME IInv, IInv', NEW h \in Handles, NEW s \in Inputs, CopyFromSpan(h, s)
  PROVE  S!SeqOverwrite(h, s)
<1>1. PICK d : d = dq[h]
  OBVIOUS
<1>2. PICK cells : cells = mem[d.data].cells
  OBVIOUS
<1>3. Alive(h) /\ S!Alive(h) /\ Holds(d, cells, Objs[h].elems) /\ Len(s) = d.len
  BY <1>1, <1>2, LiveObject DEF CopyFromSpan
<1>4. s \in Seq(Cells)
  BY DequeAssumption DEF Cells, Elems
<1>5. Len(s) = Len(Objs[h].elems)
  BY <1>3 DEF Holds
<1>6. CASE s = <<>>
  <2>1. d.len = 0 /\ d.cap \in Nat
    BY <1>1, <1>3, <1>6, LiveFacts
  <2>2. Nothing
    BY <1>6 DEF CopyFromSpan
  <2>3. Objs' = Objs /\ status' = OK
    BY <2>2, Standing DEF Nothing
  <2>4. Objs[h] = [al |-> d.al, elems |-> Objs[h].elems] /\ Objs[h].elems = s
    <3>1. Holds(d, cells, s)
      BY <1>6, <2>1, NothingHeld
    <3>2. StructOK(d, mem)
      BY <1>1, <1>3, LiveFacts
    <3>3. s = ElemsOf(d, mem)
      BY <1>2, <3>1, <3>2, HeldElems
    <3>4. QED
      BY <1>1, <1>3, <3>3, LiveObject
  <2>5. Objs = [Objs EXCEPT ![h].elems = s]
    <3>1. Objs = [g \in Handles |-> Objs[g]]
      BY ObjsAreObjects
    <3>2. Objs[h] = [Objs[h] EXCEPT !.elems = s]
      BY <2>4
    <3>3. QED
      BY <3>1, <3>2
  <2>6. QED
    BY <1>3, <1>5, <2>3, <2>5 DEF S!SeqOverwrite, S!Becomes
<1>7. CASE s # <<>>
  <2>1. d.len > 0
    BY <1>3, <1>4, <1>7
  <2>2. /\ d \in Deques /\ d.len \in Nat /\ d.cap \in Nat /\ d.head \in Nat
        /\ d.len <= d.cap /\ d.cap > 0 /\ d.head < d.cap
        /\ cells \in [0 .. d.cap - 1 -> Cells] /\ Exchanges(dq[h], mem, d, mem)
    BY <1>1, <1>2, <1>3, <2>1, LiveFacts
  <2>3. IsRing(d)
    BY <2>2 DEF IsRing
  <2>4. PICK new : new = CopyIn(d, cells, s)
    OBVIOUS
  <2>5. Holds(d, new, s)
    BY <1>3, <1>4, <2>2, <2>3, <2>4, CopyInHolds
  <2>6. new \in [0 .. d.cap - 1 -> Cells]
    BY <1>3, <2>2, <2>4, CopyInIsCells, DequeAssumption
  <2>7. CommitCells(h, d, mem, new)
    BY <1>1, <1>2, <1>7, <2>4 DEF CopyFromSpan
  <2>8. SameBlock(d, d, d.head, d.len)
    BY <2>2 DEF SameBlock
  <2>9. S!Becomes(h, s)
    BY <1>3, <2>2, <2>3, <2>5, <2>6, <2>7, <2>8, Writing
  <2>10. QED
    BY <1>3, <1>5, <2>9 DEF S!SeqOverwrite
<1>8. QED
  BY <1>6, <1>7

(* deque_insert.                                                           *)
LEMMA InsertRefines ==
  ASSUME IInv, IInv', NEW h \in Handles, NEW idx, NEW v \in Vals, NEW room \in Rooms,
         NEW b \in Blocks, Insert(h, idx, v, room, b)
  PROVE  S!SeqInsert(h, idx, v)
<1>1. Alive(h) /\ mem[b] = Null /\ S!Alive(h) /\ idx \in 0 .. dq[h].len
      /\ Holds(dq[h], mem[dq[h].data].cells, Objs[h].elems)
  BY LiveObject DEF Insert, Fresh
<1>2. PICK r : r = ReserveOne(dq[h], mem, room, b)
  OBVIOUS
<1>3. idx \in 0 .. Len(Objs[h].elems)
  BY <1>1 DEF Holds
<1>4. CASE r.st = NoMem
  <2>1. Refuse
    BY <1>2, <1>4, DequeAssumption DEF Insert
  <2>2. QED
    BY <1>1, <1>3, <2>1, Refusing DEF S!SeqInsert
<1>5. CASE r.st = OK
  <2>1. PICK s : s = Objs[h].elems
    OBVIOUS
  <2>2. /\ Exchanges(dq[h], mem, r.d, r.m) /\ r.d \in Deques /\ IsRing(r.d)
        /\ r.d.len = dq[h].len
        /\ r.d.len < r.d.cap /\ r.m[r.d.data].cells \in [0 .. r.d.cap - 1 -> Cells]
        /\ Holds(r.d, r.m[r.d.data].cells, s)
    BY SMTT(40), <1>1, <1>2, <1>5, <2>1, RoomForOne
  <2>3. PICK k \in Nat : k = StepBack(r.d)
    BY <2>2, StepsAreSlots DEF IsRing
  <2>4. PICK n \in Nat : n = r.d.len + 1 /\ n <= r.d.cap /\ idx \in 0 .. n - 1
    BY <1>1, <2>2 DEF Deques
  <2>5. PICK front : front = [r.d EXCEPT !.head = k, !.len = n]
    OBVIOUS
  <2>6. PICK back : back = [r.d EXCEPT !.len = n]
    OBVIOUS
  <2>7. SameBlock(r.d, front, k, n) /\ SameBlock(r.d, back, r.d.head, n)
    BY <2>2, <2>5, <2>6, EndsSet DEF Deques
  <2>8. PICK cells : cells = r.m[r.d.data].cells
    OBVIOUS
  <2>9. PICK atFront :
          atFront = PutElem(front, ShiftRun(front, cells, 0 .. idx - 1, 1), idx, v)
    OBVIOUS
  <2>10. PICK atBack :
           atBack = PutElem(back, ShiftRun(back, cells, idx + 1 .. r.d.len, -1), idx, v)
    OBVIOUS
  <2>11. /\ IsRing(front) /\ atFront \in [0 .. front.cap - 1 -> Cells]
         /\ Holds(front, atFront, Inserted(s, idx, v))
    BY <2>2, <2>3, <2>4, <2>7, <2>8, <2>9, InsertFrontHolds
  <2>12. /\ IsRing(back) /\ atBack \in [0 .. back.cap - 1 -> Cells]
         /\ Holds(back, atBack, Inserted(s, idx, v))
    BY <2>2, <2>4, <2>7, <2>8, <2>10, InsertBackHolds
  <2>13. CommitCells(h, front, r.m, atFront) \/ CommitCells(h, back, r.m, atBack)
    BY ZenonT(40), <1>2, <1>5, <2>3, <2>4, <2>5, <2>6, <2>8, <2>9, <2>10, DequeAssumption
       DEF Insert
  <2>14. CASE CommitCells(h, front, r.m, atFront)
    <3>1. SameBlock(r.d, front, front.head, front.len)
      BY <2>7 DEF SameBlock
    <3>2. S!Becomes(h, Inserted(s, idx, v))
      BY <1>1, <2>2, <2>11, <2>14, <3>1, Writing
    <3>3. QED
      BY <1>1, <1>3, <2>1, <3>2 DEF S!SeqInsert, Inserted
  <2>15. CASE CommitCells(h, back, r.m, atBack)
    <3>1. SameBlock(r.d, back, back.head, back.len)
      BY <2>7 DEF SameBlock
    <3>2. S!Becomes(h, Inserted(s, idx, v))
      BY <1>1, <2>2, <2>12, <2>15, <3>1, Writing
    <3>3. QED
      BY <1>1, <1>3, <2>1, <3>2 DEF S!SeqInsert, Inserted
  <2>16. QED
    BY <2>13, <2>14, <2>15
<1>6. QED
  BY SMTT(40), <1>1, <1>2, <1>4, <1>5, RoomForOne

(* deque_remove.                                                           *)
LEMMA RemoveRefines ==
  ASSUME IInv, IInv', NEW h \in Handles, NEW idx, Remove(h, idx)
  PROVE  S!SeqRemove(h, idx)
<1>1. PICK d : d = dq[h]
  OBVIOUS
<1>2. PICK s : s = Objs[h].elems
  OBVIOUS
<1>3. PICK cells : cells = mem[d.data].cells
  OBVIOUS
<1>4. Alive(h) /\ S!Alive(h) /\ idx \in 0 .. d.len - 1 /\ Holds(d, cells, s)
  BY <1>1, <1>2, <1>3, LiveObject DEF Remove
<1>5. /\ d \in Deques /\ d.len \in Nat /\ d.cap \in Nat /\ d.head \in Nat
      /\ d.len <= d.cap /\ d.cap > 0 /\ d.head < d.cap
      /\ cells \in [0 .. d.cap - 1 -> Cells] /\ Exchanges(dq[h], mem, d, mem)
  BY <1>1, <1>3, <1>4, LiveFacts
<1>6. IsRing(d)
  BY <1>5 DEF IsRing
<1>7. PICK k \in Nat : k = StepOn(d)
  BY <1>5, StepsAreSlots
<1>8. PICK n \in Nat : d.len = n + 1 /\ n = d.len - 1 /\ idx \in 0 .. n /\ n - 1 = d.len - 2
  <2>1. d.len - 1 \in Nat
    BY <1>4, <1>5
  <2>2. PICK n \in Nat : n = d.len - 1
    BY <2>1
  <2>3. QED
    BY <1>4, <1>5, <2>2
<1>9. PICK front : front = [d EXCEPT !.head = k, !.len = n]
  OBVIOUS
<1>10. PICK back : back = [d EXCEPT !.len = n]
  OBVIOUS
<1>11. SameBlock(d, front, k, n) /\ SameBlock(d, back, d.head, n)
  BY <1>5, <1>9, <1>10, EndsSet
<1>12. PICK atFront : atFront = ShiftRun(d, cells, 1 .. idx, -1)
  OBVIOUS
<1>13. PICK atBack : atBack = ShiftRun(d, cells, idx .. n - 1, 1)
  OBVIOUS
<1>14. /\ IsRing(front) /\ atFront \in [0 .. front.cap - 1 -> Cells]
       /\ Holds(front, atFront, Removed(s, idx))
  BY <1>4, <1>5, <1>6, <1>7, <1>8, <1>11, <1>12, RemoveFrontHolds
<1>15. /\ IsRing(back) /\ atBack \in [0 .. back.cap - 1 -> Cells]
       /\ Holds(back, atBack, Removed(s, idx))
  BY <1>4, <1>5, <1>6, <1>8, <1>11, <1>13, RemoveBackHolds
<1>16. CommitCells(h, front, mem, atFront) \/ CommitCells(h, back, mem, atBack)
  BY <1>1, <1>3, <1>7, <1>8, <1>9, <1>10, <1>12, <1>13 DEF Remove
<1>17. S!Becomes(h, Removed(s, idx))
  <2>1. CASE CommitCells(h, front, mem, atFront)
    <3>1. SameBlock(d, front, front.head, front.len)
      BY <1>11 DEF SameBlock
    <3>2. QED
      BY <1>4, <1>5, <1>14, <2>1, <3>1, Writing
  <2>2. CASE CommitCells(h, back, mem, atBack)
    <3>1. SameBlock(d, back, back.head, back.len)
      BY <1>11 DEF SameBlock
    <3>2. QED
      BY <1>4, <1>5, <1>15, <2>2, <3>1, Writing
  <2>3. QED
    BY <1>16, <2>1, <2>2
<1>18. idx \in 0 .. Len(s) - 1
  BY <1>4 DEF Holds
<1>19. QED
  BY <1>2, <1>4, <1>17, <1>18 DEF S!SeqRemove, Removed

(* An object given the elems it has is the object it was.                  *)
LEMMA SameElems ==
  ASSUME IInv, NEW h \in Handles, Alive(h)
  PROVE  Objs = [Objs EXCEPT ![h].elems = Objs[h].elems]
<1>1. Objs = [g \in Handles |-> Objs[g]]
  BY ObjsAreObjects
<1>2. Objs[h] = [Objs[h] EXCEPT !.elems = Objs[h].elems]
  <2>1. PICK o : o = Objs[h]
    OBVIOUS
  <2>2. o = [al |-> dq[h].al, elems |-> ElemsOf(dq[h], mem)]
    BY <2>1, LiveObject
  <2>3. o = [o EXCEPT !.elems = o.elems]
    BY <2>2
  <2>4. QED
    BY <2>1, <2>2, <2>3
<1>3. QED
  BY <1>1, <1>2

(* A call after which the elems are what they were has kept house.         *)
LEMMA Keeping ==
  ASSUME IInv, NEW h \in Handles, Alive(h), S!Becomes(h, Objs[h].elems)
  PROVE  S!SeqHousekeeping(h)
  BY LiveObject, SameElems DEF S!Becomes, S!SeqHousekeeping, S!Done

(* deque_reserve.                                                          *)
LEMMA ReserveCapRefines ==
  ASSUME IInv, IInv', NEW h \in Handles, NEW n \in Nat, NEW room \in Rooms, NEW b \in Blocks,
         ReserveCap(h, n, room, b)
  PROVE  S!SeqHousekeeping(h)
<1>1. Alive(h) /\ mem[b] = Null /\ S!Alive(h)
  BY LiveObject DEF ReserveCap, Fresh
<1>2. PICK r : r = Reserve(dq[h], mem, n, room, b)
  OBVIOUS
<1>3. Makes(r, dq[h], mem, n)
  BY <1>1, <1>2, LiveFacts, ReserveOK
<1>4. CASE r.st = NoMem
  <2>1. Refuse
    BY <1>2, <1>4, DequeAssumption DEF ReserveCap
  <2>2. QED
    BY <1>1, <2>1, Refusing DEF S!SeqHousekeeping
<1>5. CASE r.st = OK
  <2>1. /\ Commit(h, r.d, r.m) /\ Exchanges(dq[h], mem, r.d, r.m)
        /\ ElemsOf(r.d, r.m) = ElemsOf(dq[h], mem)
    BY <1>2, <1>3, <1>5, DequeAssumption DEF ReserveCap, Makes
  <2>2. S!Becomes(h, ElemsOf(r.d, r.m))
    BY <1>1, <2>1, Becoming
  <2>3. S!Becomes(h, Objs[h].elems)
    BY <1>1, <2>1, <2>2, LiveObject
  <2>4. QED
    BY <1>1, <2>3, Keeping
<1>6. QED
  BY <1>3, <1>4, <1>5 DEF Makes

(* deque_shrink_to_fit.                                                    *)
LEMMA ShrinkToFitRefines ==
  ASSUME IInv, IInv', NEW h \in Handles, NEW room \in Rooms, NEW b \in Blocks,
         ShrinkToFit(h, room, b)
  PROVE  S!SeqHousekeeping(h)
<1>1. Alive(h) /\ mem[b] = Null /\ S!Alive(h)
  BY LiveObject DEF ShrinkToFit, Fresh
<1>2. PICK d : d = dq[h]
  OBVIOUS
<1>3. d \in Deques /\ d.len \in Nat /\ StructOK(d, mem) /\ IsMemory(mem)
      /\ d.data \in Blocks \cup {Null}
  BY <1>1, <1>2, LiveFacts, StructFacts
<1>4. CASE Nothing
  <2>1. Objs' = Objs
    BY <1>4, Standing DEF Nothing
  <2>2. QED
    BY <1>1, <1>4, <2>1 DEF Nothing, S!SeqHousekeeping, S!Done
<1>5. CASE Refuse
  BY <1>1, <1>5, Refusing DEF S!SeqHousekeeping
<1>6. CASE /\ 0 = d.len
           /\ Commit(h, Released(d), GiveBack(mem, d.data, d.al, CapBytes(d)))
  <2>1. PICK m : m = GiveBack(mem, d.data, d.al, CapBytes(d))
    OBVIOUS
  <2>2. IsMemory(m) /\ \A c \in Blocks : m[c] = IF c = d.data THEN Null ELSE mem[c]
    BY <1>3, <2>1, GivingBack
  <2>3. PICK e : e = Released(d)
    OBVIOUS
  <2>4. StructOK(e, m) /\ e.data = Null /\ e.al = d.al
    BY <1>3, <2>3, ReleasedFacts
  <2>5. Exchanges(d, mem, e, m)
    BY <1>3, <2>2, <2>4 DEF Exchanges
  <2>6. Commit(h, e, m)
    BY <1>6, <2>1, <2>3
  <2>7. S!Becomes(h, ElemsOf(e, m))
    BY <1>1, <1>2, <2>5, <2>6, Becoming
  <2>8. ElemsOf(e, m) = ElemsOf(d, mem)
    <3>1. e.len = 0
      BY <1>3, <2>3 DEF Released, Deques
    <3>2. QED
      BY <1>6, <3>1 DEF ElemsOf, Reads
  <2>9. S!Becomes(h, Objs[h].elems)
    BY <1>1, <1>2, <2>7, <2>8, LiveObject
  <2>10. QED
    BY <1>1, <2>9, Keeping
<1>7. CASE /\ 0 < d.len /\ Granted(LenBytes(d), room)
           /\ Commit(h, Relocate(d, mem, d.len, b).d, Relocate(d, mem, d.len, b).m)
  <2>1. d.len * ElemSize <= SizeMax \div 2
    <3>1. room \in Nat /\ room <= SizeMax \div 2
      BY RoomAssumption, HalfAndHalf
    <3>2. d.len * ElemSize <= room /\ d.len * ElemSize \in Nat
      BY <1>3, <1>7, CapWithinBytes DEF Granted, LenBytes
    <3>3. QED
      BY <3>1, <3>2, HalfAndHalf
  <2>2. PICK r : r = Relocate(d, mem, d.len, b)
    OBVIOUS
  <2>3. Exchanges(d, mem, r.d, r.m) /\ ElemsOf(r.d, r.m) = ElemsOf(d, mem)
    BY <1>1, <1>3, <1>7, <2>1, <2>2, RelocateOK
  <2>4. S!Becomes(h, ElemsOf(r.d, r.m))
    BY <1>1, <1>2, <1>7, <2>2, <2>3, Becoming
  <2>5. S!Becomes(h, Objs[h].elems)
    BY <1>1, <1>2, <2>3, <2>4, LiveObject
  <2>6. QED
    BY <1>1, <2>5, Keeping
<1>8. QED
  BY <1>2, <1>4, <1>5, <1>6, <1>7 DEF ShrinkToFit

(* deque_resize.                                                           *)
LEMMA ResizeRefines ==
  ASSUME IInv, IInv', NEW h \in Handles, NEW n \in Nat, NEW room \in Rooms, NEW b \in Blocks,
         Resize(h, n, room, b)
  PROVE  S!SeqResize(h, n)
<1>1. Alive(h) /\ mem[b] = Null /\ S!Alive(h)
  BY LiveObject DEF Resize, Fresh
<1>2. PICK d : d = dq[h]
  OBVIOUS
<1>3. PICK s : s = Objs[h].elems
  OBVIOUS
<1>4. /\ d \in Deques /\ d.len \in Nat /\ d.cap \in Nat /\ d.head \in Nat /\ d.len <= d.cap
      /\ d.cap > 0 => d.head < d.cap
      /\ Exchanges(dq[h], mem, d, mem) /\ StructOK(d, mem) /\ IsMemory(mem)
  BY <1>1, <1>2, LiveFacts
<1>5. Holds(d, mem[d.data].cells, s) /\ s = ElemsOf(d, mem)
  BY <1>1, <1>2, <1>3, LiveObject
<1>6. Len(s) = d.len
  BY <1>5 DEF Holds
<1>7. CASE n <= d.len
  <2>1. PICK e : e = [d EXCEPT !.len = n]
    OBVIOUS
  <2>2. SameBlock(d, e, d.head, n)
    BY <1>4, <2>1, EndsSet
  <2>3. Commit(h, e, mem)
    BY <1>2, <1>4, <1>7, <2>1 DEF Resize
  <2>4. d.cap = 0 => d.head = 0
    BY <1>4 DEF StructOK
  <2>5. Holds(e, mem[e.data].cells, S!FirstN(s, n))
    <3>1. PICK cells : cells = mem[d.data].cells
      OBVIOUS
    <3>2. Holds(e, cells, S!FirstN(s, n))
      BY <1>4, <1>5, <1>7, <2>2, <3>1, CutHolds
    <3>3. QED
      BY <2>2, <3>1, <3>2 DEF SameBlock
  <2>6. S!Becomes(h, S!FirstN(s, n))
    BY <1>1, <1>2, <1>4, <1>7, <2>2, <2>3, <2>4, <2>5, Moving
  <2>7. QED
    BY <1>1, <1>3, <1>6, <1>7, <2>6 DEF S!SeqResize
<1>8. CASE ~(n <= d.len)
  <2>1. PICK r : r = IF n > d.cap THEN ReserveFor(d, mem, n, room, b) ELSE Untouched(OK, d, mem)
    OBVIOUS
  <2>2. n > Len(s)
    BY <1>4, <1>6, <1>8
  <2>3. Makes(r, d, mem, n)
    <3>1. CASE n > d.cap
      BY <1>1, <1>4, <2>1, <3>1, ReserveForOK
    <3>2. CASE ~(n > d.cap)
      <4>1. r = [st |-> OK, d |-> d, m |-> mem]
        BY <2>1, <3>2 DEF Untouched
      <4>2. QED
        BY <1>2, <1>4, <3>2, <4>1 DEF Makes
    <3>3. QED
      BY <3>1, <3>2
  <2>4. CASE r.st = NoMem
    <3>1. Refuse
      BY <1>2, <1>4, <1>8, <2>1, <2>4, DequeAssumption DEF Resize
    <3>2. QED
      BY <1>1, <1>3, <2>2, <3>1, Refusing DEF S!SeqResize
  <2>5. CASE r.st = OK
    <3>1. /\ Exchanges(dq[h], mem, r.d, r.m) /\ r.d.cap >= n /\ r.d.len = d.len
          /\ ElemsOf(r.d, r.m) = s
      BY <1>2, <1>5, <2>3, <2>5 DEF Makes
    <3>2. /\ r.d \in Deques /\ r.d.cap \in Nat /\ r.d.cap > 0 /\ StructOK(r.d, r.m)
          /\ r.d.head \in Nat /\ r.d.head < r.d.cap
          /\ r.m[r.d.data].cells \in [0 .. r.d.cap - 1 -> Cells]
      BY SMTT(40), <1>4, <1>8, <3>1, MadeFacts
    <3>3. PICK e : e = [r.d EXCEPT !.len = n]
      OBVIOUS
    <3>4. SameBlock(r.d, e, r.d.head, n)
      BY <3>2, <3>3, EndsSet
    <3>5. PICK old : old = r.m[r.d.data].cells
      OBVIOUS
    <3>6. PICK l \in Nat : l = d.len /\ n > l
      BY <1>4, <1>8
    <3>7. PICK cells : cells = ZeroRun(r.d, old, l .. n - 1)
      OBVIOUS
    <3>8. Holds(r.d, old, s)
      BY <3>1, <3>2, <3>5, HeldElems
    <3>9. /\ IsRing(e) /\ cells \in [0 .. e.cap - 1 -> Cells]
          /\ Holds(e, cells, Extended(s, n - l))
      <4>1. IsRing(r.d) /\ n <= r.d.cap /\ r.d.len = l
        BY <3>1, <3>2, <3>6 DEF IsRing
      <4>2. old \in [0 .. r.d.cap - 1 -> Cells]
        BY SMTT(40), <3>2, <3>5
      <4>3. QED
        BY <3>4, <3>6, <3>7, <3>8, <4>1, <4>2, ResizeHolds
    <3>10. CommitCells(h, e, r.m, cells)
      BY ZenonT(40), <1>2, <1>4, <1>8, <2>1, <2>5, <3>3, <3>5, <3>6, <3>7, DequeAssumption DEF Resize
    <3>11. SameBlock(r.d, e, e.head, e.len)
      BY <3>4 DEF SameBlock
    <3>12. S!Becomes(h, Extended(s, n - l))
      BY <1>1, <3>1, <3>9, <3>10, <3>11, Writing
    <3>13. S!Becomes(h, s \o S!ZeroSeq(n - Len(s)))
      BY <1>6, <3>6, <3>12 DEF Extended
    <3>14. QED
      BY <1>1, <1>3, <2>2, <3>13 DEF S!SeqResize
  <2>6. QED
    BY <2>3, <2>4, <2>5 DEF Makes
<1>9. QED
  BY <1>7, <1>8

-----------------------------------------------------------------------------
(* Lifetime and whole-object calls.                                        *)

(* When the blocks of all deques but those of C stand, so do the objects   *)
(* of all but those.                                                       *)
LEMMA OthersStand ==
  ASSUME IInv, IInv', NEW C \in SUBSET Handles,
         \A f \in Handles : f \notin C => dq'[f] = dq[f],
         \A f \in Handles : f \notin C /\ dq[f] # Null /\ dq[f].data # Null =>
           mem'[dq[f].data] = mem[dq[f].data]
  PROVE  Objs' = [f \in Handles |-> IF f \in C THEN ObjectOf(dq'[f], mem') ELSE Objs[f]]
<1>1. Objs = [f \in Handles |-> ObjectOf(dq[f], mem)]
  BY ObjsAreObjects
<1>2. Objs' = [f \in Handles |-> ObjectOf(dq'[f], mem')]
  BY ObjsAfter
<1>3. ASSUME NEW f \in Handles, f \notin C
      PROVE  ObjectOf(dq'[f], mem') = Objs[f]
  <2>1. dq'[f] = dq[f] /\ Objs[f] = ObjectOf(dq[f], mem)
    BY <1>1, <1>3
  <2>2. CASE dq[f] = Null
    BY <2>1, <2>2 DEF ObjectOf
  <2>3. CASE dq[f] # Null
    <3>1. StructOK(dq[f], mem)
      BY <2>3, LiveFacts DEF Alive
    <3>2. dq[f].data # Null => mem'[dq[f].data] = mem[dq[f].data]
      BY <1>3, <2>3
    <3>3. PICK m : m = mem'
      OBVIOUS
    <3>4. ObjectOf(dq[f], m) = ObjectOf(dq[f], mem)
      BY <3>1, <3>2, <3>3, SameObject
    <3>5. QED
      BY <2>1, <3>3, <3>4
  <2>4. QED
    BY <2>2, <2>3
<1>4. QED
  BY <1>2, <1>3

(* deque_drop.                                                             *)
LEMMA DropRefines ==
  ASSUME IInv, IInv', NEW h \in Handles, Drop(h)
  PROVE  S!SeqDrop(h)
<1>1. Alive(h) /\ S!Alive(h) /\ status' = OK
  BY LiveObject DEF Drop
<1>2. PICK m : m = GiveBack(mem, dq[h].data, dq[h].al, CapBytes(dq[h]))
  OBVIOUS
<1>3. IsMemory(m) /\ \A c \in Blocks : m[c] = IF c = dq[h].data THEN Null ELSE mem[c]
  BY <1>1, <1>2, LiveFacts, GivingBack
<1>4. dq \in [Handles -> Deques \cup {Null}]
  BY DEF IInv, Sound
<1>5. dq' = [dq EXCEPT ![h] = Null] /\ mem' = m
  BY <1>2 DEF Drop
<1>6. PICK C \in SUBSET Handles : C = {h}
  OBVIOUS
<1>7. \A f \in Handles : f \notin C => dq'[f] = dq[f]
  BY <1>4, <1>5, <1>6
<1>8. \A f \in Handles : f \notin C /\ dq[f] # Null /\ dq[f].data # Null =>
        mem'[dq[f].data] = mem[dq[f].data]
  BY <1>1, <1>3, <1>5, <1>6, SoundFacts DEF IInv, Alive
<1>9. Objs' = [f \in Handles |-> IF f \in C THEN ObjectOf(dq'[f], mem') ELSE Objs[f]]
  BY <1>7, <1>8, OthersStand
<1>10. dq'[h] = Null
  BY <1>4, <1>5
<1>11. ObjectOf(dq'[h], mem') = Null
  BY <1>10 DEF ObjectOf
<1>12. Objs' = [f \in Handles |-> IF f = h THEN Null ELSE Objs[f]]
  BY <1>6, <1>9, <1>11
<1>13. Objs' = [Objs EXCEPT ![h] = Null]
  BY <1>12, ObjsAreObjects
<1>14. QED
  BY <1>1, <1>13 DEF S!SeqDrop

(* The n elems of s are in the cells, from slot 0 on.                      *)
Fills(s, cells, n) ==
  s \in Seq(Cells) /\ Len(s) = n /\ \A i \in 1 .. n : s[i] = cells[i - 1]

(* A new struct reads what its block was filled with.                      *)
LEMMA NewReads ==
  ASSUME NEW m, IsMemory(m), NEW a \in Als, NEW cap \in Nat,
         NEW len \in Nat, len <= cap, cap * ElemSize <= SizeMax \div 2,
         NEW b \in Blocks, NEW cells \in [0 .. cap - 1 -> Cells],
         NEW s, Fills(s, cells, len)
  PROVE  ObjectOf(NewStruct(a, len, cap, b), NewMem(m, a, cap, b, cells)) =
           [al |-> a, elems |-> s]
<1>1. PICK d : d = NewStruct(a, len, cap, b)
  OBVIOUS
<1>2. PICK full : full = NewMem(m, a, cap, b, cells)
  OBVIOUS
<1>3. d \in Deques /\ d.al = a /\ StructOK(d, full)
  BY <1>1, <1>2, NewStructFacts
<1>4. d.len = len /\ d.cap = cap /\ d.head = 0 /\ (cap # 0 => d.data = b)
  BY <1>1 DEF NewStruct
<1>5. Holds(d, full[d.data].cells, s)
  <2>1. CASE cap = 0
    <3>1. s = <<>> /\ d.len = 0 /\ d.cap \in Nat
      BY <1>4, <2>1 DEF Fills
    <3>2. QED
      BY <3>1, NothingHeld
  <2>2. CASE cap # 0
    <3>1. full = Lend(m, b, a, cap * ElemSize, cells)
      BY <1>2, <2>2 DEF NewMem
    <3>2. full[b] = [al |-> a, bytes |-> cap * ElemSize, cells |-> cells]
      BY <3>1, Lending
    <3>3. full[d.data].cells = cells
      BY <1>4, <2>2, <3>2
    <3>4. ASSUME NEW i \in 1 .. len
          PROVE  s[i] = cells[SlotOf(d, i - 1)]
      <4>1. SlotOf(d, i - 1) = i - 1
        BY <1>4 DEF SlotOf
      <4>2. QED
        BY <4>1 DEF Fills
    <3>5. d.len = len /\ d.len <= d.cap /\ s \in Seq(Cells) /\ Len(s) = len
      BY <1>4 DEF Fills
    <3>6. QED
      BY <3>3, <3>4, <3>5, Held
  <2>3. QED
    BY <2>1, <2>2
<1>6. s = ElemsOf(d, full)
  BY <1>3, <1>5, HeldElems
<1>7. ObjectOf(d, full) = [al |-> a, elems |-> s]
  BY <1>3, <1>6, ObjectFacts
<1>8. QED
  BY <1>1, <1>2, <1>7

(* new_impl, of a sequence of values: its object, or none.                 *)
LEMMA NewImplRefines ==
  ASSUME IInv, IInv', NEW g \in Handles, NEW a \in Als, NEW len \in Nat, NEW cap \in Nat,
         len <= cap, NEW cells \in [0 .. cap - 1 -> Cells], NEW hdr, NEW room \in Rooms,
         NEW b \in Blocks, NewImpl(g, a, len, cap, cells, hdr, room, b),
         NEW s, Fills(s, cells, len)
  PROVE  S!SeqNew(g, a, s)
<1>1. ~Alive(g) /\ ~S!Alive(g) /\ mem[b] = Null /\ dq[g] = Null
  BY LiveObject DEF NewImpl, Fresh, Alive
<1>2. dq \in [Handles -> Deques \cup {Null}] /\ IsMemory(mem)
  BY DEF IInv, Sound
<1>3. CASE UNCHANGED <<dq, mem>> /\ status' = NoMem
  <2>1. Objs' = Objs
    BY <1>3, Standing
  <2>2. QED
    BY <1>1, <1>3, <2>1 DEF S!SeqNew, S!Refused
<1>4. CASE /\ ~(cap > 0 /\ BytesRefused(cap, room))
           /\ dq' = [dq EXCEPT ![g] = NewStruct(a, len, cap, b)]
           /\ mem' = NewMem(mem, a, cap, b, cells)
           /\ status' = OK
  <2>1. cap * ElemSize <= SizeMax \div 2
    <3>1. CASE cap = 0
      BY <3>1, HalfAndHalf, DequeAssumption
    <3>2. CASE cap # 0
      BY <1>4, <3>2, GrantedBytes
    <3>3. QED
      BY <3>1, <3>2
  <2>2. PICK d : d = NewStruct(a, len, cap, b)
    OBVIOUS
  <2>3. PICK full : full = NewMem(mem, a, cap, b, cells)
    OBVIOUS
  <2>4. /\ d.data = IF cap = 0 THEN Null ELSE b
        /\ \A c \in Blocks : c # d.data => full[c] = mem[c]
    BY <1>2, <2>1, <2>2, <2>3, NewStructFacts
  <2>5. ObjectOf(d, full) = [al |-> a, elems |-> s]
    BY <1>2, <2>1, <2>2, <2>3, NewReads
  <2>6. dq' = [dq EXCEPT ![g] = d] /\ mem' = full
    BY <1>4, <2>2, <2>3
  <2>7. PICK C \in SUBSET Handles : C = {g}
    OBVIOUS
  <2>8. \A f \in Handles : f \notin C => dq'[f] = dq[f]
    BY <1>2, <2>6, <2>7
  <2>9. ASSUME NEW f \in Handles, f \notin C, dq[f] # Null, dq[f].data # Null
        PROVE  mem'[dq[f].data] = mem[dq[f].data]
    <3>1. dq[f].data \in Blocks /\ mem[dq[f].data] # Null
      BY <2>9, SoundFacts DEF IInv
    <3>2. dq[f].data # d.data
      BY <1>1, <2>4, <2>9, <3>1
    <3>3. QED
      BY <2>4, <2>6, <3>1, <3>2
  <2>10. Objs' = [f \in Handles |-> IF f \in C THEN ObjectOf(dq'[f], mem') ELSE Objs[f]]
    BY <2>8, <2>9, OthersStand
  <2>11. ObjectOf(dq'[g], mem') = [al |-> a, elems |-> s]
    BY <1>2, <2>5, <2>6
  <2>12. Objs' = [f \in Handles |-> IF f = g THEN [al |-> a, elems |-> s] ELSE Objs[f]]
    BY <2>7, <2>10, <2>11
  <2>13. Objs' = [Objs EXCEPT ![g] = [al |-> a, elems |-> s]]
    BY <2>12, ObjsAreObjects
  <2>14. QED
    BY <1>1, <1>4, <2>13 DEF S!SeqNew
<1>5. QED
  BY <1>3, <1>4 DEF NewImpl, Refuse

(* deque_new, _new_len, _new_cap and _from_data: each starts from one of   *)
(* the beginnings of the sequence container.                               *)
LEMMA BirthRefines ==
  ASSUME IInv, IInv', NEW g \in Handles, NEW a \in Als, NEW hdr, NEW room \in Rooms,
         NEW b \in Blocks
  PROVE  /\ New(g, a, hdr, room, b) => S!SeqNew(g, a, <<>>)
         /\ \A n \in Nat : NewLen(g, a, n, hdr, room, b) => S!SeqNew(g, a, S!ZeroSeq(n))
         /\ \A n \in Nat : NewCap(g, a, n, hdr, room, b) => S!SeqNew(g, a, <<>>)
         /\ \A s \in Seq(Vals) : FromData(g, a, s, hdr, room, b) => S!SeqNew(g, a, s)
<1>1. PICK none : none = <<>>
  OBVIOUS
<1>2. ASSUME NEW cells
      PROVE  Fills(none, cells, 0)
  BY <1>1 DEF Fills
<1>3. New(g, a, hdr, room, b) => S!SeqNew(g, a, none)
  <2>1. Raw(0) \in [0 .. 0 - 1 -> Cells]
    BY RawIsCells
  <2>2. QED
    BY <1>1, <1>2, <2>1, NewImplRefines DEF New
<1>4. ASSUME NEW n \in Nat, NewLen(g, a, n, hdr, room, b)
      PROVE  S!SeqNew(g, a, S!ZeroSeq(n))
  <2>1. PICK cells : cells = [i \in 0 .. n - 1 |-> Zero]
    OBVIOUS
  <2>2. cells \in [0 .. n - 1 -> Cells]
    BY <2>1 DEF Cells, Elems
  <2>3. NewImpl(g, a, n, n, cells, hdr, room, b)
    BY <1>4, <2>1 DEF NewLen
  <2>4. PICK s : s = S!ZeroSeq(n)
    OBVIOUS
  <2>5. s \in [1 .. n -> Cells] /\ \A i \in 1 .. n : s[i] = cells[i - 1]
    BY <2>1, <2>4 DEF S!ZeroSeq, Cells, Elems
  <2>6. s \in Seq(Cells) /\ Len(s) = n
    BY <2>5, FunctionIsSeq
  <2>7. Fills(s, cells, n)
    BY <2>5, <2>6 DEF Fills
  <2>8. S!SeqNew(g, a, s)
    BY <2>2, <2>3, <2>7, NewImplRefines
  <2>9. QED
    BY <2>4, <2>8
<1>5. ASSUME NEW n \in Nat, NewCap(g, a, n, hdr, room, b)
      PROVE  S!SeqNew(g, a, none)
  <2>1. NewImpl(g, a, 0, n, Raw(n), hdr, room, b) /\ Raw(n) \in [0 .. n - 1 -> Cells]
    BY <1>5, RawIsCells DEF NewCap
  <2>2. QED
    BY <1>1, <1>2, <2>1, NewImplRefines
<1>6. ASSUME NEW s \in Seq(Vals), FromData(g, a, s, hdr, room, b)
      PROVE  S!SeqNew(g, a, s)
  <2>1. PICK n \in Nat : n = Len(s)
    OBVIOUS
  <2>2. PICK cells : cells = [i \in 0 .. n - 1 |-> s[i + 1]]
    OBVIOUS
  <2>3. cells \in [0 .. n - 1 -> Cells]
    <3>1. \A i \in 0 .. n - 1 : s[i + 1] \in Cells
      BY <2>1 DEF Cells, Elems
    <3>2. QED
      BY <2>2, <3>1
  <2>4. NewImpl(g, a, n, n, cells, hdr, room, b)
    BY <1>6, <2>1, <2>2 DEF FromData
  <2>5. s \in Seq(Cells)
    BY DEF Cells, Elems
  <2>6. \A i \in 1 .. n : s[i] = cells[i - 1]
    BY <2>1, <2>2
  <2>7. Fills(s, cells, n)
    BY <2>1, <2>5, <2>6 DEF Fills
  <2>8. QED
    BY <2>3, <2>4, <2>7, NewImplRefines
<1>7. QED
  BY <1>1, <1>3, <1>4, <1>5, <1>6

(* What a copy of a deque into slot 0 and on reads.                        *)
LEMMA CopyHolds ==
  ASSUME NEW d, NEW m, StructOK(d, m), NEW k \in Nat, d.len <= k,
         NEW dst \in [0 .. k - 1 -> Cells]
  PROVE  Fills(ElemsOf(d, m), CopyOut(d, m, dst), d.len)
<1>1. ElemsOf(d, m) \in Seq(Cells) /\ Len(ElemsOf(d, m)) = d.len
  BY ElemsAreSeq
<1>2. d.len \in Nat
  BY StructFacts
<1>3. ASSUME NEW i \in 1 .. d.len
      PROVE  ElemsOf(d, m)[i] = CopyOut(d, m, dst)[i - 1]
  <2>1. PICK j \in Nat : j = i - 1
    BY <1>2
  <2>2. j < d.len /\ j \in DOMAIN dst
    BY <1>2, <2>1
  <2>3. CopyOut(d, m, dst)[j] = m[d.data].cells[SlotOf(d, j)]
    BY <2>2, CopyOutReads
  <2>4. ElemsOf(d, m)[i] = m[d.data].cells[SlotOf(d, i - 1)]
    BY ElemsAreSeq
  <2>5. QED
    BY <2>1, <2>3, <2>4
<1>4. QED
  BY <1>1, <1>3 DEF Fills

(* deque_copy, deque_copy_with.                                            *)
LEMMA CopyWithRefines ==
  ASSUME IInv, IInv', NEW h \in Handles, NEW g \in Handles, NEW a \in Als, NEW hdr,
         NEW room \in Rooms, NEW b \in Blocks, CopyWith(h, g, a, hdr, room, b)
  PROVE  S!SeqCopyWith(h, g, a)
<1>1. Alive(h) /\ S!Alive(h) /\ Objs[h].elems = ElemsOf(dq[h], mem)
  BY LiveObject DEF CopyWith
<1>2. PICK n \in Nat : n = dq[h].len
  BY <1>1, LiveFacts
<1>3. StructOK(dq[h], mem) /\ Raw(n) \in [0 .. n - 1 -> Cells]
  BY <1>1, LiveFacts, RawIsCells
<1>4. PICK cells : cells = CopyOut(dq[h], mem, Raw(n))
  OBVIOUS
<1>5. cells \in [0 .. n - 1 -> Cells]
  BY <1>3, <1>4, CopyOutIsCells
<1>6. NewImpl(g, a, n, n, cells, hdr, room, b)
  BY <1>2, <1>4 DEF CopyWith
<1>7. PICK s : s = ElemsOf(dq[h], mem)
  OBVIOUS
<1>8. Fills(s, cells, n)
  BY <1>2, <1>3, <1>4, <1>7, CopyHolds
<1>9. S!SeqNew(g, a, s)
  BY <1>5, <1>6, <1>8, NewImplRefines
<1>10. QED
  BY <1>1, <1>7, <1>9 DEF S!SeqCopyWith

(* deque_copy_assign.                                                      *)
LEMMA CopyAssignRefines ==
  ASSUME IInv, IInv', NEW h \in Handles, NEW g \in Handles, NEW room \in Rooms, NEW b \in Blocks,
         CopyAssign(h, g, room, b)
  PROVE  S!SeqCopyAssign(h, g)
<1>1. /\ Alive(h) /\ Alive(g) /\ mem[b] = Null /\ S!Alive(h) /\ S!Alive(g)
      /\ Objs[h].elems = ElemsOf(dq[h], mem)
  BY LiveObject DEF CopyAssign, Fresh
<1>2. PICK n \in Nat : n = dq[h].len
  BY <1>1, LiveFacts
<1>3. PICK r : r = Reserve(dq[g], mem, n, room, b)
  OBVIOUS
<1>4. Makes(r, dq[g], mem, n)
  BY <1>1, <1>3, LiveFacts, ReserveOK
<1>5. PICK dst : dst = FromSlotZero(r.d, n)
  OBVIOUS
<1>6. CASE h = g /\ Nothing
  <2>1. Objs' = Objs
    BY <1>6, Standing DEF Nothing
  <2>2. Objs = [Objs EXCEPT ![g].elems = Objs[g].elems]
    BY <1>1, SameElems
  <2>3. S!Becomes(g, Objs[h].elems)
    BY <1>6, <2>1, <2>2 DEF S!Becomes, Nothing
  <2>4. QED
    BY <1>1, <2>3 DEF S!SeqCopyAssign
<1>7. CASE Refuse
  BY <1>1, <1>7, Refusing DEF S!SeqCopyAssign
<1>8. ASSUME r.st = OK
      PROVE  /\ Exchanges(dq[g], mem, r.d, r.m) /\ StructOK(r.d, r.m)
             /\ SameBlock(r.d, dst, 0, n) /\ n <= r.d.cap /\ r.d.cap \in Nat
  <2>1. /\ Exchanges(dq[g], mem, r.d, r.m) /\ StructOK(r.d, r.m) /\ r.d \in Deques
        /\ n <= r.d.cap /\ r.d.cap \in Nat
    BY <1>4, <1>8, MadeFacts DEF Makes
  <2>2. SameBlock(r.d, dst, 0, n)
    BY <1>5, <2>1 DEF SameBlock, FromSlotZero, Deques
  <2>3. QED
    BY <2>1, <2>2
<1>9. CASE r.st = OK /\ n = 0 /\ Commit(g, dst, r.m)
  <2>1. Exchanges(dq[g], mem, dst, r.m)
    BY <1>8, <1>9, EndsMoved DEF SameBlock
  <2>2. S!Becomes(g, ElemsOf(dst, r.m))
    BY <1>1, <1>9, <2>1, Becoming
  <2>3. ElemsOf(dst, r.m) = ElemsOf(dq[h], mem)
    BY <1>2, <1>8, <1>9 DEF SameBlock, ElemsOf, Reads
  <2>4. QED
    BY <1>1, <2>2, <2>3 DEF S!SeqCopyAssign
<1>10. CASE /\ h # g /\ r.st = OK /\ n > 0
            /\ CommitCells(g, dst, r.m, CopyOut(dq[h], r.m, r.m[dst.data].cells))
  <2>1. StructOK(dq[h], r.m) /\ ElemsOf(dq[h], r.m) = ElemsOf(dq[h], mem)
    <3>1. StructOK(dq[h], mem) /\ dq[h].data \in Blocks \cup {Null}
          /\ (dq[h].data # Null => mem[dq[h].data] # Null)
      BY <1>1, SoundFacts DEF Alive, IInv
    <3>2. dq[h].data # Null => dq[h].data # dq[g].data
      BY <1>1, <1>10 DEF Alive, IInv, Sound
    <3>3. dq[h].data # Null => r.m[dq[h].data] = mem[dq[h].data]
      BY <1>8, <1>10, <3>1, <3>2 DEF Exchanges
    <3>4. dq[h].cap > 0 /\ dq[h].data # Null
      BY <1>2, <1>10, <3>1, StructFacts DEF StructOK
    <3>5. StructOK(dq[h], r.m)
      BY <3>1, <3>3 DEF StructOK
    <3>6. QED
      BY <3>3, <3>4, <3>5 DEF ElemsOf
  <2>2. r.m[r.d.data].cells \in [0 .. r.d.cap - 1 -> Cells] /\ r.d.cap > 0
    BY <1>8, <1>10, MadeFacts
  <2>3. PICK old \in [0 .. r.d.cap - 1 -> Cells] : old = r.m[dst.data].cells
    BY <1>8, <1>10, <2>2 DEF SameBlock
  <2>4. PICK cells : cells = CopyOut(dq[h], r.m, old)
    OBVIOUS
  <2>5. cells \in [0 .. r.d.cap - 1 -> Cells]
    BY <1>8, <1>10, <2>1, <2>4, CopyOutIsCells
  <2>6. PICK s : s = ElemsOf(dq[h], r.m)
    OBVIOUS
  <2>7. Fills(s, cells, n)
    BY <1>2, <1>8, <1>10, <2>1, <2>4, <2>6, CopyHolds
  <2>8. /\ dst.head = 0 /\ dst.len = n /\ dst.cap = r.d.cap /\ dst.data = r.d.data
        /\ dst \in Deques /\ SameBlock(r.d, dst, dst.head, dst.len)
    BY <1>8, <1>10 DEF SameBlock
  <2>9. ASSUME NEW i \in 1 .. n
        PROVE  s[i] = cells[SlotOf(dst, i - 1)]
    <3>1. SlotOf(dst, i - 1) = i - 1
      BY <1>8, <1>10, <2>8 DEF SlotOf
    <3>2. QED
      BY <2>7, <3>1 DEF Fills
  <2>10. s \in Seq(Cells) /\ Len(s) = n /\ dst.len = n /\ dst.len <= dst.cap
    BY <1>8, <1>10, <2>7, <2>8 DEF Fills
  <2>11. Holds(dst, cells, s)
    BY <2>9, <2>10, Held
  <2>12. IsRing(dst)
    BY <1>8, <1>10, <2>2, <2>8 DEF IsRing
  <2>13. CommitCells(g, dst, r.m, cells)
    BY <1>10, <2>3, <2>4
  <2>14. Exchanges(dq[g], mem, r.d, r.m)
    BY <1>8, <1>10
  <2>15. cells \in [0 .. dst.cap - 1 -> Cells]
    BY <2>5, <2>8
  <2>16. S!Becomes(g, s)
    BY <1>1, <2>8, <2>11, <2>12, <2>13, <2>14, <2>15, Writing
  <2>17. QED
    BY <1>1, <2>1, <2>6, <2>16 DEF S!SeqCopyAssign
<1>11. QED
  BY <1>2, <1>3, <1>4, <1>5, <1>6, <1>7, <1>9, <1>10 DEF CopyAssign, Makes

(* deque_eq, deque_eq_by.                                                  *)
LEMMA CompareRefines ==
  ASSUME IInv, IInv', NEW h \in Handles, NEW g \in Handles, NEW alike, Compare(h, g, alike)
  PROVE  S!SeqCompare(h, g, alike)
<1>1. /\ Alive(h) /\ Alive(g) /\ S!Alive(h) /\ S!Alive(g)
      /\ Objs[h].elems = ElemsOf(dq[h], mem) /\ Objs[g].elems = ElemsOf(dq[g], mem)
      /\ StructOK(dq[h], mem) /\ StructOK(dq[g], mem)
      /\ dq[h].len \in Nat /\ dq[g].len \in Nat
  BY LiveObject, LiveFacts DEF Compare
<1>2. PICK s : s = Objs[h].elems
  OBVIOUS
<1>3. PICK t : t = Objs[g].elems
  OBVIOUS
<1>4. /\ Len(s) = dq[h].len /\ DOMAIN s = 1 .. dq[h].len
      /\ \A i \in 1 .. dq[h].len : s[i] = ElemAt(dq[h], mem, i - 1)
  BY <1>1, <1>2, ElemsAreSeq DEF ElemAt
<1>5. /\ Len(t) = dq[g].len /\ DOMAIN t = 1 .. dq[g].len
      /\ \A i \in 1 .. dq[g].len : t[i] = ElemAt(dq[g], mem, i - 1)
  BY <1>1, <1>3, ElemsAreSeq DEF ElemAt
<1>6. PICK x, y : x = [i \in Nat |-> ElemAt(dq[h], mem, i)]
                  /\ y = [i \in Nat |-> ElemAt(dq[g], mem, i)]
  OBVIOUS
<1>7. PICK a, b : a = dq[h].len /\ b = dq[g].len
  OBVIOUS
<1>8. (\A i \in 0 .. a - 1 :
         \/ ElemAt(dq[h], mem, i) = ElemAt(dq[g], mem, i)
         \/ {ElemAt(dq[h], mem, i), ElemAt(dq[g], mem, i)} \subseteq alike)
      <=> (\A i \in 0 .. a - 1 : x[i] = y[i] \/ {x[i], y[i]} \subseteq alike)
  BY <1>1, <1>6, <1>7
<1>9. /\ a \in Nat /\ b \in Nat
      /\ \A i \in 1 .. a : s[i] = x[i - 1]
      /\ \A i \in 1 .. b : t[i] = y[i - 1]
  BY <1>1, <1>4, <1>5, <1>6, <1>7
<1>10. a = b => ((\A i \in 0 .. a - 1 : x[i] = y[i] \/ {x[i], y[i]} \subseteq alike)
                 <=> (\A i \in 1 .. a : s[i] = t[i] \/ {s[i], t[i]} \subseteq alike))
  <2>1. SUFFICES ASSUME a = b
                 PROVE  (\A i \in 0 .. a - 1 : x[i] = y[i] \/ {x[i], y[i]} \subseteq alike)
                        <=> (\A i \in 1 .. a : s[i] = t[i] \/ {s[i], t[i]} \subseteq alike)
    OBVIOUS
  <2>2. ASSUME \A i \in 0 .. a - 1 : x[i] = y[i] \/ {x[i], y[i]} \subseteq alike,
               NEW i \in 1 .. a
        PROVE  s[i] = t[i] \/ {s[i], t[i]} \subseteq alike
    <3>1. i - 1 \in 0 .. a - 1
      BY <1>9
    <3>2. s[i] = x[i - 1] /\ t[i] = y[i - 1]
      BY <1>9, <2>1
    <3>3. QED
      BY <2>2, <3>1, <3>2
  <2>3. ASSUME \A i \in 1 .. a : s[i] = t[i] \/ {s[i], t[i]} \subseteq alike,
               NEW i \in 0 .. a - 1
        PROVE  x[i] = y[i] \/ {x[i], y[i]} \subseteq alike
    <3>1. PICK j \in 1 .. a : j = i + 1
      BY <1>9
    <3>2. s[j] = x[i] /\ t[j] = y[i]
      <4>1. j - 1 = i
        BY <1>9, <3>1
      <4>2. QED
        BY <1>9, <2>1, <4>1
    <3>3. QED
      BY <2>3, <3>2
  <2>4. QED
    BY <2>2, <2>3
<1>11. h = g => s = t /\ a = b
  BY <1>2, <1>3, <1>7
<1>12. status' = (h = g \/ (a = b /\ \A i \in 0 .. a - 1 :
                                       \/ ElemAt(dq[h], mem, i) = ElemAt(dq[g], mem, i)
                                       \/ {ElemAt(dq[h], mem, i), ElemAt(dq[g], mem, i)}
                                            \subseteq alike))
  BY <1>7 DEF Compare
<1>13. (h = g \/ (a = b /\ \A i \in 0 .. a - 1 :
                             \/ ElemAt(dq[h], mem, i) = ElemAt(dq[g], mem, i)
                             \/ {ElemAt(dq[h], mem, i), ElemAt(dq[g], mem, i)} \subseteq alike))
       <=> (a = b /\ \A i \in 1 .. a : s[i] = t[i] \/ {s[i], t[i]} \subseteq alike)
  BY <1>8, <1>10, <1>11
<1>14. status' = (a = b /\ \A i \in 1 .. a : s[i] = t[i] \/ {s[i], t[i]} \subseteq alike)
  BY <1>12, <1>13
<1>15. Objs' = Objs
  BY Standing DEF Compare
<1>16. /\ Len(Objs[h].elems) = a /\ Len(Objs[g].elems) = b /\ DOMAIN Objs[h].elems = 1 .. a
       /\ Objs[h].elems = s /\ Objs[g].elems = t
  BY <1>2, <1>3, <1>4, <1>5, <1>7
<1>17. QED
  BY <1>1, <1>14, <1>15, <1>16 DEF S!SeqCompare

(* deque_swap, of two deques or of one with itself.                        *)
LEMMA SwapRefines ==
  ASSUME IInv, IInv', NEW h \in Handles, NEW g \in Handles, Swap(h, g)
  PROVE  S!SeqSwap(h, g)
<1>1. /\ Alive(h) /\ Alive(g) /\ S!Alive(h) /\ S!Alive(g)
      /\ Objs[h].al = dq[h].al /\ Objs[g].al = dq[g].al /\ dq[h].al = dq[g].al
      /\ dq' = [dq EXCEPT ![h] = dq[g], ![g] = dq[h]] /\ mem' = mem /\ status' = OK
  BY LiveObject DEF Swap
<1>2. dq \in [Handles -> Deques \cup {Null}]
  BY DEF IInv, Sound
<1>3. Objs = [f \in Handles |-> ObjectOf(dq[f], mem)]
  BY ObjsAreObjects
<1>4. Objs' = [f \in Handles |-> ObjectOf(dq'[f], mem)]
  BY <1>1, ObjsAfter
<1>5. \A f \in Handles : dq'[f] = IF f = h THEN dq[g] ELSE IF f = g THEN dq[h] ELSE dq[f]
  BY <1>1, <1>2
<1>6. Objs' = [f \in Handles |-> IF f = h THEN Objs[g] ELSE IF f = g THEN Objs[h] ELSE Objs[f]]
  BY <1>3, <1>4, <1>5
<1>7. Objs' = [Objs EXCEPT ![g] = Objs[h], ![h] = Objs[g]]
  BY <1>3, <1>6
<1>8. QED
  BY <1>1, <1>7 DEF S!SeqSwap

(* Two deques that change their structs, one into a ring with the elems of *)
(* the other and that one into an empty ring, move the elems.              *)
LEMMA MovedOver ==
  ASSUME IInv, IInv', NEW h \in Handles, NEW g \in Handles, h # g, Alive(h), Alive(g),
         NEW dg, NEW dh, dq' = [dq EXCEPT ![g] = dg, ![h] = dh], status' = OK,
         \A f \in Handles : f \notin {g, h} /\ dq[f] # Null /\ dq[f].data # Null =>
           mem'[dq[f].data] = mem[dq[f].data],
         ObjectOf(dg, mem') = [al |-> dq[g].al, elems |-> ElemsOf(dq[h], mem)],
         ObjectOf(dh, mem') = [al |-> dq[h].al, elems |-> <<>>]
  PROVE  S!SeqMoveAssign(h, g)
<1>1. /\ S!Alive(h) /\ S!Alive(g)
      /\ Objs[h] = [al |-> dq[h].al, elems |-> ElemsOf(dq[h], mem)]
      /\ Objs[g] = [al |-> dq[g].al, elems |-> ElemsOf(dq[g], mem)]
  BY LiveObject
<1>2. dq \in [Handles -> Deques \cup {Null}]
  BY DEF IInv, Sound
<1>3. PICK C \in SUBSET Handles : C = {g, h}
  OBVIOUS
<1>4. \A f \in Handles : f \notin C => dq'[f] = dq[f]
  BY <1>2, <1>3
<1>5. Objs' = [f \in Handles |-> IF f \in C THEN ObjectOf(dq'[f], mem') ELSE Objs[f]]
  BY <1>3, <1>4, OthersStand
<1>6. dq'[g] = dg /\ dq'[h] = dh
  BY <1>2
<1>7. PICK O : O = Objs
  OBVIOUS
<1>8. O = [f \in Handles |-> O[f]]
  BY <1>7, ObjsAreObjects
<1>9. PICK none : none = <<>>
  OBVIOUS
<1>10. PICK new : new = ElemsOf(dq[h], mem)
  OBVIOUS
<1>11. /\ ObjectOf(dq'[g], mem') = [O[g] EXCEPT !.elems = new]
       /\ ObjectOf(dq'[h], mem') = [O[h] EXCEPT !.elems = none]
       /\ O[h].elems = new
  BY <1>1, <1>6, <1>7, <1>9, <1>10
<1>12. Objs' = [f \in Handles |-> IF f = g THEN [O[g] EXCEPT !.elems = new]
                                  ELSE IF f = h THEN [O[h] EXCEPT !.elems = none] ELSE O[f]]
  BY <1>3, <1>5, <1>7, <1>11
<1>13. Objs' = [O EXCEPT ![g].elems = new, ![h].elems = none]
  BY <1>8, <1>12
<1>14. Objs' = [Objs EXCEPT ![g].elems = Objs[h].elems, ![h].elems = <<>>]
  BY <1>7, <1>9, <1>11, <1>13
<1>15. QED
  BY <1>1, <1>14 DEF S!SeqMoveAssign

(* An emptied struct is an empty object, in any memory.                    *)
LEMMA ReleasedReads ==
  ASSUME NEW d, NEW m0, StructOK(d, m0), NEW m
  PROVE  ObjectOf(Released(d), m) = [al |-> d.al, elems |-> <<>>]
<1>1. PICK e : e = Released(d)
  OBVIOUS
<1>2. StructOK(e, m) /\ e.al = d.al
  BY <1>1, ReleasedFacts
<1>3. e.len = 0
  BY <1>1, StructFacts DEF Released, Deques
<1>4. ElemsOf(e, m) = <<>>
  BY <1>3 DEF ElemsOf, Reads
<1>5. QED
  BY <1>1, <1>2, <1>4, ObjectFacts

(* deque_move_assign within one allocator: the structs change places.      *)
LEMMA HandOverRefines ==
  ASSUME IInv, IInv', NEW h \in Handles, NEW g \in Handles, h # g, Alive(h), Alive(g),
         dq[h].al = dq[g].al, HandOver(h, g)
  PROVE  S!SeqMoveAssign(h, g)
<1>1. PICK dg : dg = dq[h]
  OBVIOUS
<1>2. PICK dh : dh = Released(dq[g])
  OBVIOUS
<1>3. PICK m : m = GiveBack(mem, dq[g].data, dq[g].al, CapBytes(dq[g]))
  OBVIOUS
<1>4. /\ StructOK(dq[h], mem) /\ StructOK(dq[g], mem) /\ IsMemory(mem)
      /\ dq[h].data \in Blocks \cup {Null}
      /\ dq[h].data # Null => dq[h].data # dq[g].data
  BY SoundFacts DEF IInv, Alive, Sound
<1>5. IsMemory(m) /\ \A c \in Blocks : m[c] = IF c = dq[g].data THEN Null ELSE mem[c]
  BY <1>3, <1>4, GivingBack
<1>6. dq' = [dq EXCEPT ![g] = dg, ![h] = dh] /\ mem' = m /\ status' = OK
  BY <1>1, <1>2, <1>3 DEF HandOver
<1>7. ASSUME NEW f \in Handles, f \notin {g, h}, dq[f] # Null, dq[f].data # Null
      PROVE  mem'[dq[f].data] = mem[dq[f].data]
  <2>1. dq[f].data \in Blocks
    BY <1>7, SoundFacts DEF IInv
  <2>2. dq[f].data # dq[g].data
    BY <1>7 DEF IInv, Sound, Alive
  <2>3. QED
    BY <1>5, <1>6, <2>1, <2>2
<1>8. ObjectOf(dg, m) = [al |-> dq[g].al, elems |-> ElemsOf(dq[h], mem)]
  <2>1. dg.data # Null => m[dg.data] = mem[dg.data]
    BY <1>1, <1>4, <1>5
  <2>2. ObjectOf(dg, m) = ObjectOf(dg, mem)
    BY <1>1, <1>4, <2>1, SameObject
  <2>3. ObjectOf(dg, mem) = [al |-> dq[h].al, elems |-> ElemsOf(dq[h], mem)]
    BY <1>1, <1>4, ObjectFacts
  <2>4. QED
    BY <2>2, <2>3
<1>9. ObjectOf(dh, m) = [al |-> dq[h].al, elems |-> <<>>]
  BY <1>2, <1>4, ReleasedReads
<1>10. QED
  BY <1>6, <1>7, <1>8, <1>9, MovedOver

(* And between two: a copy takes the target's place, and both old blocks   *)
(* go.                                                                     *)
LEMMA MoveACopyRefines ==
  ASSUME IInv, IInv', NEW h \in Handles, NEW g \in Handles, h # g, Alive(h), Alive(g),
         NEW hdr, NEW room \in Rooms, NEW b \in Blocks, mem[b] = Null,
         MoveACopy(h, g, hdr, room, b)
  PROVE  S!SeqMoveAssign(h, g)
<1>1. PICK n, al : n = dq[h].len /\ al = dq[g].al
  OBVIOUS
<1>2. /\ StructOK(dq[h], mem) /\ StructOK(dq[g], mem) /\ IsMemory(mem)
      /\ n \in Nat /\ al \in Als
      /\ dq[h].data \in Blocks \cup {Null} /\ dq[g].data \in Blocks \cup {Null}
      /\ dq[h].data # Null => mem[dq[h].data] # Null /\ dq[h].data # dq[g].data
      /\ dq[g].data # Null => mem[dq[g].data] # Null
  <2>1. /\ StructOK(dq[h], mem) /\ StructOK(dq[g], mem) /\ IsMemory(mem)
        /\ dq[h].data # Null => mem[dq[h].data] # Null
        /\ dq[g].data # Null => mem[dq[g].data] # Null
        /\ dq[h].data \in Blocks \cup {Null} /\ dq[g].data \in Blocks \cup {Null}
    BY SoundFacts DEF IInv, Alive, Sound
  <2>2. n \in Nat /\ al \in Als
    BY <1>1, <2>1, StructFacts
  <2>3. dq[h].data # Null => dq[h].data # dq[g].data
    BY DEF IInv, Alive, Sound
  <2>4. QED
    BY <2>1, <2>2, <2>3
<1>3. PICK cells : cells = CopyOut(dq[h], mem, Raw(n))
  OBVIOUS
<1>4. Raw(n) \in [0 .. n - 1 -> Cells] /\ cells \in [0 .. n - 1 -> Cells]
  BY <1>2, <1>3, RawIsCells, CopyOutIsCells
<1>5. PICK full : full = NewMem(mem, al, n, b, cells)
  OBVIOUS
<1>6. PICK dg : dg = NewStruct(al, n, n, b)
  OBVIOUS
<1>7. PICK dh : dh = Released(dq[h])
  OBVIOUS
<1>8. PICK rid : rid = GiveBack(full, dq[g].data, dq[g].al, CapBytes(dq[g]))
  OBVIOUS
<1>9. PICK m : m = GiveBack(rid, dq[h].data, dq[h].al, CapBytes(dq[h]))
  OBVIOUS
<1>10. CASE Refuse
  <2>1. S!Alive(h) /\ S!Alive(g)
    BY LiveObject
  <2>2. QED
    BY <1>10, <2>1, Refusing DEF S!SeqMoveAssign
<1>11. CASE /\ n = 0 \/ ~BytesRefused(n, room)
            /\ dq' = [dq EXCEPT ![g] = dg, ![h] = dh] /\ mem' = m /\ status' = OK
  <2>1. n * ElemSize <= SizeMax \div 2
    <3>1. CASE n = 0
      BY <3>1, HalfAndHalf, DequeAssumption
    <3>2. CASE n # 0
      BY <1>2, <1>11, <3>2, GrantedBytes
    <3>3. QED
      BY <3>1, <3>2
  <2>2. /\ dg \in Deques /\ dg.al = al
        /\ dg.data = IF n = 0 THEN Null ELSE b
        /\ IsMemory(full) /\ StructOK(dg, full)
        /\ \A c \in Blocks : c # dg.data => full[c] = mem[c]
    BY <1>2, <1>4, <1>5, <1>6, <2>1, NewStructFacts
  <2>3. /\ b # Null
        /\ dq[h].data # Null => dq[h].data # b /\ dq[h].data # dg.data
        /\ dq[g].data # Null => dq[g].data # b /\ dq[g].data # dg.data
    BY <1>2, <2>2, NullAssumption
  <2>4. StructOK(dq[g], full) /\ StructOK(dq[h], full)
    <3>1. /\ dq[g].data # Null => full[dq[g].data] = mem[dq[g].data]
          /\ dq[h].data # Null => full[dq[h].data] = mem[dq[h].data]
      BY <1>2, <2>2, <2>3
    <3>2. QED
      BY <1>2, <3>1 DEF StructOK
  <2>5. IsMemory(rid) /\ \A c \in Blocks : rid[c] = IF c = dq[g].data THEN Null ELSE full[c]
    BY <1>8, <2>2, <2>4, GivingBack
  <2>6. StructOK(dq[h], rid)
    <3>1. dq[h].data # Null => rid[dq[h].data] = full[dq[h].data]
      BY <1>2, <2>5
    <3>2. QED
      BY <2>4, <3>1 DEF StructOK
  <2>7. IsMemory(m) /\ \A c \in Blocks : m[c] = IF c = dq[h].data THEN Null ELSE rid[c]
    BY <1>9, <2>5, <2>6, GivingBack
  <2>8. ASSUME NEW f \in Handles, f \notin {g, h}, dq[f] # Null, dq[f].data # Null
        PROVE  mem'[dq[f].data] = mem[dq[f].data]
    <3>1. dq[f].data \in Blocks /\ mem[dq[f].data] # Null
      BY <2>8, SoundFacts DEF IInv
    <3>2. dq[f].data # dq[g].data /\ dq[f].data # dq[h].data
      BY <2>8 DEF IInv, Sound, Alive
    <3>3. dq[f].data # dg.data
      BY <2>2, <2>8, <3>1
    <3>4. QED
      BY <1>11, <2>2, <2>5, <2>7, <3>1, <3>2, <3>3
  <2>9. ObjectOf(dg, m) = [al |-> dq[g].al, elems |-> ElemsOf(dq[h], mem)]
    <3>1. PICK s : s = ElemsOf(dq[h], mem)
      OBVIOUS
    <3>2. n <= n /\ dq[h].len <= n
      BY <1>1, <1>2
    <3>3. Fills(s, cells, n)
      BY <1>1, <1>2, <1>3, <1>4, <3>1, <3>2, CopyHolds
    <3>4. ObjectOf(dg, full) = [al |-> al, elems |-> s]
      BY <1>2, <1>4, <1>5, <1>6, <2>1, <3>2, <3>3, NewReads
    <3>5. dg.data # Null => m[dg.data] = full[dg.data]
      BY <2>2, <2>3, <2>5, <2>7
    <3>6. ObjectOf(dg, m) = ObjectOf(dg, full)
      BY <2>2, <3>5, SameObject
    <3>7. QED
      BY <1>1, <3>1, <3>4, <3>6
  <2>10. ObjectOf(dh, m) = [al |-> dq[h].al, elems |-> <<>>]
    BY <1>2, <1>7, ReleasedReads
  <2>11. QED
    BY <1>11, <2>8, <2>9, <2>10, MovedOver
<1>12. QED
  BY <1>1, <1>3, <1>5, <1>6, <1>7, <1>8, <1>9, <1>10, <1>11 DEF MoveACopy

(* deque_move_assign.                                                      *)
LEMMA MoveAssignRefines ==
  ASSUME IInv, IInv', NEW h \in Handles, NEW g \in Handles, NEW hdr, NEW room \in Rooms,
         NEW b \in Blocks, MoveAssign(h, g, hdr, room, b)
  PROVE  S!SeqMoveAssign(h, g)
<1>1. Alive(h) /\ Alive(g) /\ mem[b] = Null /\ S!Alive(h) /\ S!Alive(g)
  BY LiveObject DEF MoveAssign, Fresh
<1>2. CASE h = g /\ Nothing
  <2>1. Objs' = Objs
    BY <1>2, Standing DEF Nothing
  <2>2. QED
    BY <1>1, <1>2, <2>1 DEF Nothing, S!SeqMoveAssign, S!Done
<1>3. CASE h # g /\ dq[h].al = dq[g].al /\ HandOver(h, g)
  BY <1>1, <1>3, HandOverRefines
<1>4. CASE dq[h].al # dq[g].al /\ MoveACopy(h, g, hdr, room, b)
  <2>1. h # g
    BY <1>4
  <2>2. QED
    BY <1>1, <1>4, <2>1, MoveACopyRefines
<1>5. QED
  BY <1>2, <1>3, <1>4 DEF MoveAssign

-----------------------------------------------------------------------------
(* The ring implements the sequence container.                             *)

(* The places of the deque are those of its elems.                         *)
LEMMA PlacesAreIdxs ==
  ASSUME IInv, NEW h \in Handles, NEW i \in Idxs(h)
  PROVE  S!Alive(h) /\ i \in 0 .. Len(Objs[h].elems)
<1>1. Alive(h) /\ i \in 0 .. dq[h].len
  BY DEF Idxs
<1>2. S!Alive(h) /\ Objs[h].elems = ElemsOf(dq[h], mem) /\ StructOK(dq[h], mem)
  BY <1>1, LiveObject, LiveFacts
<1>3. QED
  BY <1>1, <1>2, ElemsAreSeq

(* A call that cannot fail is a step of the sequence container.            *)
LEMMA PlainStepRefines ==
  ASSUME IInv, IInv', NEW h \in Handles, PlainStep(h)
  PROVE  S!SeqNext
<1>1. ASSUME Drop(h) PROVE S!SeqNext
  <2>1. S!SeqDrop(h)
    BY <1>1, DropRefines
  <2>2. QED
    BY <2>1 DEF S!SeqNext
<1>2. ASSUME NEW g \in Handles, Swap(h, g) PROVE S!SeqNext
  <2>1. S!SeqSwap(h, g)
    BY <1>2, SwapRefines
  <2>2. QED
    BY <2>1 DEF S!SeqNext
<1>3. ASSUME NEW g \in Handles, NEW alike \in {{}, Elems}, Compare(h, g, alike)
      PROVE  S!SeqNext
  <2>1. S!SeqCompare(h, g, alike)
    BY <1>3, CompareRefines
  <2>2. alike \in {{}, S!Elems}
    BY DEF Elems, S!Elems
  <2>3. QED
    BY <2>1, <2>2 DEF S!SeqNext
<1>4. ASSUME PopFront(h) PROVE S!SeqNext
  <2>1. S!SeqPopFront(h)
    BY <1>4, PopFrontRefines
  <2>2. QED
    BY <2>1 DEF S!SeqNext
<1>5. ASSUME PopBack(h) PROVE S!SeqNext
  <2>1. S!SeqPopBack(h)
    BY <1>5, PopBackRefines
  <2>2. QED
    BY <2>1 DEF S!SeqNext
<1>6. ASSUME Clear(h) PROVE S!SeqNext
  <2>1. S!SeqClear(h)
    BY <1>6, ClearRefines
  <2>2. QED
    BY <2>1 DEF S!SeqNext
<1>7. ASSUME NEW i \in Idxs(h)
      PROVE  S!Alive(h) /\ i \in 0 .. Len(Objs[h].elems)
  BY <1>7, PlacesAreIdxs
<1>8. ASSUME NEW i \in Idxs(h), Remove(h, i) PROVE S!SeqNext
  <2>1. S!SeqRemove(h, i)
    BY <1>8, RemoveRefines
  <2>2. QED
    BY <1>7, <2>1 DEF S!SeqNext
<1>9. ASSUME NEW i \in Idxs(h), NEW v \in Vals, Set(h, i, v) PROVE S!SeqNext
  <2>1. S!SeqSet(h, i, v)
    BY <1>9, SetRefines
  <2>2. QED
    BY <1>7, <2>1 DEF S!SeqNext
<1>10. ASSUME NEW i \in Idxs(h), NEW j \in Idxs(h), SwapElems(h, i, j) PROVE S!SeqNext
  <2>1. S!SeqSwapElems(h, i, j)
    BY <1>10, SwapElemsRefines
  <2>2. QED
    BY <1>7, <2>1 DEF S!SeqNext
<1>11. ASSUME NEW s \in Inputs, CopyFromSpan(h, s) PROVE S!SeqNext
  <2>1. S!SeqOverwrite(h, s)
    BY <1>11, CopyFromSpanRefines
  <2>2. QED
    BY <2>1 DEF S!SeqNext
<1>12. QED
  BY <1>1, <1>2, <1>3, <1>4, <1>5, <1>6, <1>8, <1>9, <1>10, <1>11 DEF PlainStep

(* So is one that may be refused, on one deque.                            *)
LEMMA GrowStepRefines ==
  ASSUME IInv, IInv', NEW h \in Handles, NEW room \in Rooms, NEW b \in Blocks,
         GrowStep(h, room, b)
  PROVE  S!SeqNext
<1>1. ASSUME NEW v \in Vals, PushFront(h, v, room, b) PROVE S!SeqNext
  <2>1. S!SeqPushFront(h, v)
    BY <1>1, PushFrontRefines
  <2>2. QED
    BY <2>1 DEF S!SeqNext
<1>2. ASSUME NEW v \in Vals, PushBack(h, v, room, b) PROVE S!SeqNext
  <2>1. S!SeqPushBack(h, v)
    BY <1>2, PushBackRefines
  <2>2. QED
    BY <2>1 DEF S!SeqNext
<1>3. ASSUME NEW v \in Vals, NEW i \in Idxs(h), Insert(h, i, v, room, b) PROVE S!SeqNext
  <2>1. S!SeqInsert(h, i, v)
    BY <1>3, InsertRefines
  <2>2. S!Alive(h) /\ i \in 0 .. Len(Objs[h].elems)
    BY PlacesAreIdxs
  <2>3. QED
    BY <2>1, <2>2 DEF S!SeqNext
<1>4. ASSUME NEW n \in Counts, ReserveCap(h, n, room, b) PROVE S!SeqNext
  <2>1. S!SeqHousekeeping(h)
    BY <1>4, ReserveCapRefines, DequeAssumption
  <2>2. QED
    BY <2>1 DEF S!SeqNext
<1>5. ASSUME NEW n \in Counts, Resize(h, n, room, b) PROVE S!SeqNext
  <2>1. S!SeqResize(h, n)
    BY <1>5, ResizeRefines, DequeAssumption
  <2>2. QED
    BY <2>1 DEF S!SeqNext
<1>6. ASSUME ShrinkToFit(h, room, b) PROVE S!SeqNext
  <2>1. S!SeqHousekeeping(h)
    BY <1>6, ShrinkToFitRefines
  <2>2. QED
    BY <2>1 DEF S!SeqNext
<1>7. QED
  BY <1>1, <1>2, <1>3, <1>4, <1>5, <1>6 DEF GrowStep

(* So are a birth and a call on two deques.                                *)
LEMMA BirthStepRefines ==
  ASSUME IInv, IInv', NEW g \in Handles, NEW room \in Rooms, NEW b \in Blocks,
         BirthStep(g, room, b)
  PROVE  S!SeqNext
<1>1. ASSUME NEW a \in Als, NEW s \in S!Starts, S!SeqNew(g, a, s) PROVE S!SeqNext
  BY <1>1 DEF S!SeqNext
<1>2. <<>> \in S!Starts /\ Inputs \subseteq S!Starts
      /\ \A n \in Counts : S!ZeroSeq(n) \in S!Starts
  BY DEF S!Starts
<1>3. Inputs \subseteq Seq(Vals) /\ Counts \subseteq Nat
  BY DequeAssumption
<1>4. ASSUME NEW a \in Als, NEW hdr \in BOOLEAN, New(g, a, hdr, room, b) PROVE S!SeqNext
  <2>1. S!SeqNew(g, a, <<>>)
    BY <1>4, BirthRefines
  <2>2. QED
    BY <1>1, <1>2, <2>1
<1>5. ASSUME NEW a \in Als, NEW hdr \in BOOLEAN, NEW n \in Counts, NewLen(g, a, n, hdr, room, b)
      PROVE  S!SeqNext
  <2>1. S!SeqNew(g, a, S!ZeroSeq(n))
    BY <1>3, <1>5, BirthRefines
  <2>2. QED
    BY <1>1, <1>2, <2>1
<1>6. ASSUME NEW a \in Als, NEW hdr \in BOOLEAN, NEW n \in Counts, NewCap(g, a, n, hdr, room, b)
      PROVE  S!SeqNext
  <2>1. S!SeqNew(g, a, <<>>)
    BY <1>3, <1>6, BirthRefines
  <2>2. QED
    BY <1>1, <1>2, <2>1
<1>7. ASSUME NEW a \in Als, NEW hdr \in BOOLEAN, NEW s \in Inputs, FromData(g, a, s, hdr, room, b)
      PROVE  S!SeqNext
  <2>1. S!SeqNew(g, a, s)
    BY <1>3, <1>7, BirthRefines
  <2>2. QED
    BY <1>1, <1>2, <2>1
<1>8. ASSUME NEW a \in Als, NEW hdr \in BOOLEAN, NEW h \in Handles,
             CopyWith(h, g, a, hdr, room, b)
      PROVE  S!SeqNext
  <2>1. S!SeqCopyWith(h, g, a)
    BY <1>8, CopyWithRefines
  <2>2. QED
    BY <2>1 DEF S!SeqNext
<1>9. QED
  BY <1>4, <1>5, <1>6, <1>7, <1>8 DEF BirthStep

(* And an assignment.                                                      *)
LEMMA PairStepRefines ==
  ASSUME IInv, IInv', NEW h \in Handles, NEW g \in Handles, NEW room \in Rooms,
         NEW b \in Blocks, PairStep(h, g, room, b)
  PROVE  S!SeqNext
<1>1. CASE CopyAssign(h, g, room, b)
  <2>1. S!SeqCopyAssign(h, g)
    BY <1>1, CopyAssignRefines
  <2>2. QED
    BY <2>1 DEF S!SeqNext
<1>2. ASSUME NEW hdr \in BOOLEAN, MoveAssign(h, g, hdr, room, b) PROVE S!SeqNext
  <2>1. S!SeqMoveAssign(h, g)
    BY <1>2, MoveAssignRefines
  <2>2. QED
    BY <2>1 DEF S!SeqNext
<1>3. QED
  BY <1>1, <1>2 DEF PairStep

(* No deques are no sequences.                                             *)
LEMMA InitRefines ==
  Init => S!SeqInit
<1>1. SUFFICES ASSUME Init PROVE S!SeqInit
  OBVIOUS
<1>2. Objs = [h \in Handles |-> Null]
  BY <1>1 DEF Init, Objs, Alive
<1>3. QED
  BY <1>1, <1>2 DEF Init, S!SeqInit

(* A step of the deques is one of the sequence container, or none.         *)
LEMMA NextRefines ==
  IInv /\ IInv' /\ [Next]_vars => [S!SeqNext]_S!sVars
<1>1. SUFFICES ASSUME IInv, IInv', [Next]_vars PROVE [S!SeqNext]_S!sVars
  OBVIOUS
<1>2. CASE UNCHANGED vars
  <2>1. Objs' = Objs /\ status' = status
    BY <1>1, <1>2, Standing DEF vars
  <2>2. QED
    BY <2>1 DEF S!sVars
<1>3. CASE Next
  <2>1. PICK h \in Handles :
          \/ PlainStep(h)
          \/ \E room \in Rooms, b \in Blocks :
               \/ BirthStep(h, room, b)
               \/ GrowStep(h, room, b)
               \/ \E g \in Handles : PairStep(h, g, room, b)
    BY <1>3 DEF Next
  <2>2. CASE PlainStep(h)
    BY <1>1, <2>2, PlainStepRefines
  <2>3. ASSUME NEW room \in Rooms, NEW b \in Blocks,
               \/ BirthStep(h, room, b)
               \/ GrowStep(h, room, b)
               \/ \E g \in Handles : PairStep(h, g, room, b)
        PROVE  S!SeqNext
    BY <1>1, <2>3, BirthStepRefines, GrowStepRefines, PairStepRefines
  <2>4. QED
    BY <2>1, <2>2, <2>3
<1>4. QED
  BY <1>1, <1>2, <1>3

(* deque.c implements the sequence container: with any deques, allocators, *)
(* values and sizes, whichever requests are refused, every call does to    *)
(* what callers read what SeqStore says of it, and nothing to any object   *)
(* it was not given.                                                       *)
THEOREM RingIsASequence ==
  Spec => ImplementsSeqStore
  BY InitRefines, NextRefines, AlwaysSound, PTL DEF Spec, ImplementsSeqStore, S!SeqSpec

-----------------------------------------------------------------------------
(* What a caller can read is what a caller wrote.                          *)

(* The cuts, joins and replacements of sequences of elems are sequences of *)
(* elems.                                                                  *)
LEMMA PartsAreSeqs ==
  ASSUME NEW T, NEW s \in Seq(T), NEW t \in Seq(T), NEW x \in T
  PROVE  /\ <<>> \in Seq(T) /\ <<x>> \in Seq(T)
         /\ s \o t \in Seq(T) /\ Append(s, x) \in Seq(T)
         /\ s # <<>> => Tail(s) \in Seq(T)
         /\ \A i \in DOMAIN s : [s EXCEPT ![i] = x] \in Seq(T)
         /\ \A i \in 0 .. Len(s) : S!FirstN(s, i) \in Seq(T) /\ S!AfterN(s, i) \in Seq(T)
<1>1. <<>> \in Seq(T) /\ <<x>> \in Seq(T) /\ s \o t \in Seq(T) /\ Append(s, x) \in Seq(T)
  BY ConcatProperties
<1>2. s # <<>> => Tail(s) \in Seq(T)
  BY HeadTailProperties
<1>3. \A i \in DOMAIN s : [s EXCEPT ![i] = x] \in Seq(T)
  BY ExceptSeq
<1>4. ASSUME NEW i \in 0 .. Len(s)
      PROVE  S!FirstN(s, i) \in Seq(T) /\ S!AfterN(s, i) \in Seq(T)
  <2>1. \A k \in 1 .. i : s[k] \in T
    BY ElementOfSeq
  <2>2. \A k \in i + 1 .. Len(s) : s[k] \in T
    BY ElementOfSeq
  <2>3. i \in Nat /\ Len(s) \in Nat /\ 1 <= i + 1 /\ i + 1 <= Len(s) + 1
    BY LenProperties
  <2>4. SubSeq(s, 1, i) \in Seq(T) /\ SubSeq(s, i + 1, Len(s)) \in Seq(T)
    BY <2>1, <2>2, <2>3, SubSeqProperties
  <2>5. QED
    BY <2>4 DEF S!FirstN, S!AfterN
<1>5. QED
  BY <1>1, <1>2, <1>3, <1>4

(* New elems for one object, when they are elems, keep the objects typed.  *)
LEMMA BecomesTyped ==
  ASSUME S!SeqTypeOK, NEW h \in Handles, S!Alive(h), NEW s \in Seq(S!Elems), S!Becomes(h, s)
  PROVE  S!SeqTypeOK'
<1>1. PICK O : O = Objs
  OBVIOUS
<1>2. O \in [Handles -> S!Objects \cup {Null}] /\ O[h] \in S!Objects
  BY <1>1 DEF S!SeqTypeOK, S!Alive
<1>3. [O[h] EXCEPT !.elems = s] \in S!Objects
  BY <1>2 DEF S!Objects
<1>4. Objs' = [O EXCEPT ![h] = [O[h] EXCEPT !.elems = s]] /\ status' = OK
  BY <1>1 DEF S!Becomes
<1>5. Objs' \in [Handles -> S!Objects \cup {Null}]
  BY <1>2, <1>3, <1>4
<1>6. QED
  BY <1>4, <1>5 DEF S!SeqTypeOK

(* A call that answers and changes no object does.                         *)
LEMMA StandingTyped ==
  ASSUME S!SeqTypeOK, Objs' = Objs, status' \in {OK, NoMem} \cup BOOLEAN
  PROVE  S!SeqTypeOK'
  BY DEF S!SeqTypeOK

(* A new object of elems does.                                             *)
LEMMA NewTyped ==
  ASSUME S!SeqTypeOK, NEW h \in Handles, NEW a \in Als, NEW s \in Seq(S!Elems),
         S!SeqNew(h, a, s)
  PROVE  S!SeqTypeOK'
<1>1. CASE S!Refused
  BY <1>1, StandingTyped DEF S!Refused
<1>2. CASE Objs' = [Objs EXCEPT ![h] = [al |-> a, elems |-> s]] /\ status' = OK
  <2>1. [al |-> a, elems |-> s] \in S!Objects
    BY DEF S!Objects
  <2>2. QED
    BY <1>2, <2>1 DEF S!SeqTypeOK
<1>3. QED
  BY <1>1, <1>2 DEF S!SeqNew

(* What the sequence container says of its objects is an invariant of it.  *)
LEMMA SeqNextTyped ==
  ASSUME S!SeqTypeOK, S!SeqNext
  PROVE  S!SeqTypeOK'
<1>1. PICK h \in Handles :
        \/ \E a \in Als, s \in S!Starts : S!SeqNew(h, a, s)
        \/ S!SeqDrop(h)
        \/ \E g \in Handles :
             \/ \E a \in Als : S!SeqCopyWith(h, g, a)
             \/ S!SeqCopyAssign(h, g)
             \/ S!SeqMoveAssign(h, g)
             \/ S!SeqSwap(h, g)
             \/ \E alike \in {{}, S!Elems} : S!SeqCompare(h, g, alike)
        \/ \E v \in Vals :
             \/ S!SeqPushFront(h, v)
             \/ S!SeqPushBack(h, v)
        \/ S!SeqPopFront(h)
        \/ S!SeqPopBack(h)
        \/ S!SeqClear(h)
        \/ \E n \in Counts : S!SeqResize(h, n)
        \/ \E s \in Inputs : S!SeqOverwrite(h, s)
        \/ S!SeqHousekeeping(h)
        \/ \E i, j, n, v :
             \/ S!SeqRemove(h, i)
             \/ v \in Vals /\ (S!SeqInsert(h, i, v) \/ S!SeqSet(h, i, v))
             \/ S!SeqSwapElems(h, i, j)
             \/ /\ {i, n} \subseteq 0 .. Len(Objs[h].elems)
                /\ S!SeqRemoveRange(h, i, n)
             \/ v \in Inputs /\ S!SeqInsertSpan(h, i, v)
  BY DEF S!SeqNext
<1>2. /\ \A s \in Inputs : s \in Seq(S!Elems)
      /\ \A n \in Nat : S!ZeroSeq(n) \in Seq(S!Elems)
      /\ Counts \subseteq Nat /\ \A v \in Vals : v \in S!Elems
      /\ <<>> \in Seq(S!Elems)
  <2>1. ASSUME NEW n \in Nat PROVE S!ZeroSeq(n) \in Seq(S!Elems)
    <3>1. S!ZeroSeq(n) \in [1 .. n -> S!Elems]
      BY DEF S!ZeroSeq, S!Elems
    <3>2. QED
      BY <3>1, FunctionIsSeq
  <2>2. ASSUME NEW s \in Seq(Vals) PROVE s \in Seq(S!Elems)
    BY DEF S!Elems
  <2>3. \A v \in Vals : v \in S!Elems
    BY DEF S!Elems
  <2>4. QED
    BY <2>1, <2>2, <2>3, DequeAssumption, EmptySeq
<1>3. ASSUME NEW g \in Handles, S!Alive(g)
      PROVE  Objs[g].elems \in Seq(S!Elems) /\ Objs[g].al \in Als /\ Objs[g] \in S!Objects
  BY <1>3 DEF S!SeqTypeOK, S!Alive, S!Objects
<1>4. CASE S!Refused \/ S!Done
  BY <1>4, StandingTyped DEF S!Refused, S!Done
<1>5. ASSUME NEW a \in Als, NEW s \in S!Starts, S!SeqNew(h, a, s) PROVE S!SeqTypeOK'
  <2>1. s \in Seq(S!Elems)
    BY <1>2 DEF S!Starts
  <2>2. QED
    BY <1>5, <2>1, NewTyped
<1>6. ASSUME S!SeqDrop(h) PROVE S!SeqTypeOK'
  BY <1>6 DEF S!SeqDrop, S!SeqTypeOK
<1>7. ASSUME NEW g \in Handles, NEW a \in Als, S!SeqCopyWith(h, g, a) PROVE S!SeqTypeOK'
  BY <1>3, <1>7, NewTyped DEF S!SeqCopyWith
<1>8. ASSUME NEW g \in Handles, S!SeqCopyAssign(h, g) PROVE S!SeqTypeOK'
  BY <1>3, <1>4, <1>8, BecomesTyped DEF S!SeqCopyAssign
<1>9. ASSUME NEW g \in Handles, S!SeqMoveAssign(h, g) PROVE S!SeqTypeOK'
  <2>1. CASE /\ h # g /\ status' = OK
             /\ Objs' = [Objs EXCEPT ![g].elems = Objs[h].elems, ![h].elems = <<>>]
    <3>1. PICK O : O = Objs
      OBVIOUS
    <3>2. PICK og : og = [O[g] EXCEPT !.elems = O[h].elems]
      OBVIOUS
    <3>3. PICK oh : oh = [O[h] EXCEPT !.elems = <<>>]
      OBVIOUS
    <3>4. O[g] \in S!Objects /\ O[h] \in S!Objects /\ O[h].elems \in Seq(S!Elems)
      BY <1>3, <1>9, <3>1 DEF S!SeqMoveAssign
    <3>5. og \in S!Objects /\ oh \in S!Objects
      BY <1>2, <3>2, <3>3, <3>4 DEF S!Objects
    <3>6. O \in [Handles -> S!Objects \cup {Null}]
      BY <3>1 DEF S!SeqTypeOK
    <3>7. Objs' = [O EXCEPT ![g] = og, ![h] = oh]
      BY <2>1, <3>1, <3>2, <3>3, <3>6
    <3>8. Objs' \in [Handles -> S!Objects \cup {Null}]
      BY <3>5, <3>6, <3>7
    <3>9. QED
      BY <2>1, <3>8 DEF S!SeqTypeOK
  <2>2. QED
    BY <1>4, <1>9, <2>1 DEF S!SeqMoveAssign
<1>10. ASSUME NEW g \in Handles, S!SeqSwap(h, g) PROVE S!SeqTypeOK'
  BY <1>10 DEF S!SeqSwap, S!SeqTypeOK
<1>11. ASSUME NEW g, NEW alike, S!SeqCompare(h, g, alike) PROVE S!SeqTypeOK'
  BY <1>11, StandingTyped DEF S!SeqCompare
<1>12. ASSUME S!Alive(h), NEW s \in Seq(S!Elems), S!Becomes(h, s) PROVE S!SeqTypeOK'
  BY <1>12, BecomesTyped
<1>13. PICK s : s = Objs[h].elems
  OBVIOUS
<1>14. S!Alive(h) => s \in Seq(S!Elems) /\ Len(s) \in Nat /\ DOMAIN s = 1 .. Len(s)
  BY <1>3, <1>13, LenProperties
<1>15. ASSUME NEW v \in Vals, S!SeqPushFront(h, v) \/ S!SeqPushBack(h, v) PROVE S!SeqTypeOK'
  <2>1. S!Alive(h)
    BY <1>15 DEF S!SeqPushFront, S!SeqPushBack
  <2>2. <<v>> \in Seq(S!Elems)
    BY <1>2, <1>14, <2>1, PartsAreSeqs
  <2>3. <<v>> \o s \in Seq(S!Elems) /\ Append(s, v) \in Seq(S!Elems)
    BY <1>2, <1>14, <2>1, <2>2, PartsAreSeqs
  <2>4. \/ S!Refused
        \/ S!Becomes(h, <<v>> \o s)
        \/ S!Becomes(h, Append(s, v))
    BY <1>13, <1>15 DEF S!SeqPushFront, S!SeqPushBack
  <2>5. QED
    BY <1>4, <1>12, <2>1, <2>3, <2>4
<1>16. ASSUME S!SeqPopFront(h) PROVE S!SeqTypeOK'
  <2>1. S!Alive(h) /\ s # <<>> /\ S!Becomes(h, Tail(s))
    BY <1>13, <1>16 DEF S!SeqPopFront
  <2>2. Tail(s) \in Seq(S!Elems)
    BY <1>14, <2>1, HeadTailProperties
  <2>3. QED
    BY <1>12, <2>1, <2>2
<1>17. ASSUME NEW i \in 0 .. Len(s), S!Alive(h)
       PROVE  S!FirstN(s, i) \in Seq(S!Elems) /\ S!AfterN(s, i) \in Seq(S!Elems)
  <2>1. s \in Seq(S!Elems) /\ Zero \in S!Elems
    BY <1>14, <1>17 DEF S!Elems
  <2>2. QED
    BY <1>17, <2>1, PartsAreSeqs
<1>18. ASSUME S!SeqPopBack(h) PROVE S!SeqTypeOK'
  <2>1. S!Alive(h) /\ s # <<>> /\ S!Becomes(h, S!FirstN(s, Len(s) - 1))
    BY <1>13, <1>18 DEF S!SeqPopBack
  <2>2. Len(s) - 1 \in 0 .. Len(s)
    BY <1>14, <2>1, EmptySeq
  <2>3. QED
    BY <1>12, <1>17, <2>1, <2>2
<1>19. ASSUME S!SeqClear(h) PROVE S!SeqTypeOK'
  BY <1>2, <1>12, <1>19 DEF S!SeqClear
<1>20. ASSUME NEW n \in Counts, S!SeqResize(h, n) PROVE S!SeqTypeOK'
  <2>1. /\ S!Alive(h) /\ n \in Nat
        /\ \/ n <= Len(s) /\ S!Becomes(h, S!FirstN(s, n))
           \/ n > Len(s) /\ S!Becomes(h, s \o S!ZeroSeq(n - Len(s)))
           \/ S!Refused
    BY <1>2, <1>13, <1>20 DEF S!SeqResize
  <2>2. CASE n <= Len(s) /\ S!Becomes(h, S!FirstN(s, n))
    <3>1. n \in 0 .. Len(s)
      BY <1>14, <2>1, <2>2
    <3>2. QED
      BY <1>12, <1>17, <2>1, <2>2, <3>1
  <2>3. CASE n > Len(s) /\ S!Becomes(h, s \o S!ZeroSeq(n - Len(s)))
    <3>1. n - Len(s) \in Nat
      BY <1>14, <2>1, <2>3
    <3>2. S!ZeroSeq(n - Len(s)) \in Seq(S!Elems) /\ s \in Seq(S!Elems) /\ Zero \in S!Elems
      BY <1>2, <1>14, <2>1, <3>1 DEF S!Elems
    <3>3. s \o S!ZeroSeq(n - Len(s)) \in Seq(S!Elems)
      BY <3>2, ConcatProperties
    <3>4. QED
      BY <1>12, <2>1, <2>3, <3>3
  <2>4. QED
    BY <1>4, <2>1, <2>2, <2>3
<1>21. ASSUME NEW t \in Inputs, S!SeqOverwrite(h, t) PROVE S!SeqTypeOK'
  BY <1>2, <1>12, <1>21 DEF S!SeqOverwrite
<1>22. ASSUME S!SeqHousekeeping(h) PROVE S!SeqTypeOK'
  BY <1>4, <1>22 DEF S!SeqHousekeeping
<1>23. ASSUME S!Alive(h), NEW i \in 0 .. Len(s), NEW k \in 0 .. Len(s), NEW t \in Seq(S!Elems)
       PROVE  /\ S!FirstN(s, i) \o S!AfterN(s, k) \in Seq(S!Elems)
              /\ S!FirstN(s, i) \o t \o S!AfterN(s, k) \in Seq(S!Elems)
  <2>1. PICK p, q : p = S!FirstN(s, i) /\ q = S!AfterN(s, k)
    OBVIOUS
  <2>2. p \in Seq(S!Elems) /\ q \in Seq(S!Elems)
    BY <1>17, <1>23, <2>1
  <2>3. p \o q \in Seq(S!Elems)
    BY <2>2, ConcatProperties
  <2>4. p \o t \in Seq(S!Elems)
    BY <1>23, <2>2, ConcatProperties
  <2>5. (p \o t) \o q \in Seq(S!Elems)
    BY <2>2, <2>4, ConcatProperties
  <2>6. QED
    BY <2>1, <2>3, <2>5
<1>24. ASSUME NEW i, S!SeqRemove(h, i) PROVE S!SeqTypeOK'
  <2>1. /\ S!Alive(h) /\ i \in 0 .. Len(s) - 1
        /\ S!Becomes(h, S!FirstN(s, i) \o S!AfterN(s, i + 1))
    BY <1>13, <1>24 DEF S!SeqRemove
  <2>2. i \in 0 .. Len(s) /\ i + 1 \in 0 .. Len(s)
    BY <1>14, <2>1
  <2>3. QED
    BY <1>2, <1>12, <1>23, <2>1, <2>2
<1>25. ASSUME NEW i \in 0 .. Len(s), NEW n \in 0 .. Len(s), S!SeqRemoveRange(h, i, n)
       PROVE  S!SeqTypeOK'
  <2>1. /\ S!Alive(h) /\ i + n <= Len(s)
        /\ S!Becomes(h, S!FirstN(s, i) \o S!AfterN(s, i + n))
    BY <1>13, <1>25 DEF S!SeqRemoveRange
  <2>2. i + n \in 0 .. Len(s)
    BY <1>14, <1>25, <2>1
  <2>3. QED
    BY <1>2, <1>12, <1>23, <1>25, <2>1, <2>2
<1>26. ASSUME NEW i, NEW t \in Seq(S!Elems), S!Alive(h), i \in 0 .. Len(s),
              S!Refused \/ S!Becomes(h, S!FirstN(s, i) \o t \o S!AfterN(s, i))
       PROVE  S!SeqTypeOK'
  BY <1>4, <1>12, <1>23, <1>26
<1>27. ASSUME NEW i, NEW v \in Vals, S!SeqInsert(h, i, v) PROVE S!SeqTypeOK'
  <2>1. <<v>> \in Seq(S!Elems)
    BY <1>2
  <2>2. QED
    BY <1>13, <1>26, <1>27, <2>1 DEF S!SeqInsert
<1>28. ASSUME NEW i, NEW t \in Inputs, S!SeqInsertSpan(h, i, t) PROVE S!SeqTypeOK'
  BY <1>2, <1>13, <1>26, <1>28 DEF S!SeqInsertSpan
<1>29. ASSUME NEW i, NEW v \in Vals, S!SeqSet(h, i, v) PROVE S!SeqTypeOK'
  <2>1. S!Alive(h) /\ i \in 0 .. Len(s) - 1 /\ S!Becomes(h, [s EXCEPT ![i + 1] = v])
    BY <1>13, <1>29 DEF S!SeqSet
  <2>2. i + 1 \in 1 .. Len(s)
    BY <1>14, <2>1
  <2>3. [s EXCEPT ![i + 1] = v] \in Seq(S!Elems)
    BY <1>2, <1>14, <2>1, <2>2, ExceptSeq
  <2>4. QED
    BY <1>12, <2>1, <2>3
<1>30. ASSUME NEW i, NEW j, S!SeqSwapElems(h, i, j) PROVE S!SeqTypeOK'
  <2>1. /\ S!Alive(h) /\ i \in 0 .. Len(s) - 1 /\ j \in 0 .. Len(s) - 1
        /\ S!Becomes(h, [s EXCEPT ![i + 1] = s[j + 1], ![j + 1] = s[i + 1]])
    BY <1>13, <1>30 DEF S!SeqSwapElems
  <2>2. i + 1 \in 1 .. Len(s) /\ j + 1 \in 1 .. Len(s)
    BY <1>14, <2>1
  <2>3. s[i + 1] \in S!Elems /\ s[j + 1] \in S!Elems
    BY <1>14, <2>1, <2>2, ElementOfSeq
  <2>4. PICK t : t = [s EXCEPT ![i + 1] = s[j + 1]]
    OBVIOUS
  <2>5. t \in Seq(S!Elems) /\ Len(t) = Len(s)
    BY <1>14, <2>1, <2>2, <2>3, <2>4, ExceptSeq
  <2>6. [t EXCEPT ![j + 1] = s[i + 1]] \in Seq(S!Elems)
    BY <2>2, <2>3, <2>5, ExceptSeq
  <2>7. QED
    BY <1>12, <2>1, <2>4, <2>6
<1>31. QED
  BY <1>1, <1>5, <1>6, <1>7, <1>8, <1>9, <1>10, <1>11, <1>13, <1>15, <1>16, <1>18, <1>19,
     <1>20, <1>21, <1>22, <1>24, <1>25, <1>27, <1>28, <1>29, <1>30

(* No call ever lets a caller see what a block held before anyone wrote to *)
(* it: every elem of every deque is one a caller stored or a zeroed one,   *)
(* however the deque grew, shrank, was copied or moved.                    *)
THEOREM NoJunkIsRead ==
  Spec => []S!SeqTypeOK
<1>1. S!SeqInit => S!SeqTypeOK
  BY DEF S!SeqInit, S!SeqTypeOK
<1>2. S!SeqTypeOK /\ [S!SeqNext]_S!sVars => S!SeqTypeOK'
  <2>1. SUFFICES ASSUME S!SeqTypeOK, [S!SeqNext]_S!sVars PROVE S!SeqTypeOK'
    OBVIOUS
  <2>2. CASE UNCHANGED S!sVars
    BY <2>1, <2>2 DEF S!sVars, S!SeqTypeOK
  <2>3. QED
    BY <2>1, <2>2, SeqNextTyped
<1>3. QED
  BY <1>1, <1>2, RingIsASequence, PTL DEF ImplementsSeqStore, S!SeqSpec

-----------------------------------------------------------------------------
(* The shifting loops, one elem after another.                             *)

(* Naturals that are some have a least.                                    *)
LEMMA LeastNatural ==
  ASSUME NEW X \in SUBSET Nat, X # {}
  PROVE  \E n \in X : \A k \in X : n <= k
<1>1. IsWellFoundedOn(OpToRel(<, Nat), Nat)
  BY NatLessThanWellFounded
<1>2. PICK R : R = OpToRel(<, Nat)
  OBVIOUS
<1>3. \A x, y \in Nat : y < x => <<y, x>> \in R
  BY <1>2 DEF OpToRel
<1>4. X \subseteq Nat /\ IsWellFoundedOn(R, Nat)
  BY <1>1, <1>2
<1>5. PICK x \in X : \A y \in X : ~ (<<y, x>> \in R)
  BY <1>4, WFMin
<1>6. ASSUME NEW y \in X
      PROVE  x <= y
  <2>1. x \in Nat /\ y \in Nat
    OBVIOUS
  <2>2. ~ (y < x)
    BY <1>3, <1>5, <2>1, Zenon
  <2>3. QED
    BY <2>1, <2>2
<1>7. QED
  BY <1>6

(* A set of naturals that has zero and a next one for each has them all:   *)
(* induction, over the set of the numbers a formula holds of.              *)
LEMMA Induction ==
  ASSUME NEW X \in SUBSET Nat, 0 \in X, \A n \in X : n + 1 \in X
  PROVE  X = Nat
<1>1. SUFFICES ASSUME Nat \ X # {}
      PROVE  FALSE
  OBVIOUS
<1>2. PICK n \in Nat \ X : \A k \in Nat \ X : n <= k
  BY <1>1, LeastNatural
<1>3. n # 0 /\ n - 1 \in Nat
  OBVIOUS
<1>4. n - 1 \in X
  BY <1>2, <1>3
<1>5. (n - 1) + 1 = n
  OBVIOUS
<1>6. QED
  BY <1>4, <1>5

(* Every slot is the slot of a place.                                      *)
LEMMA SlotHasPlace ==
  ASSUME NEW d, IsRing(d), NEW s \in 0 .. d.cap - 1
  PROVE  \E j \in 0 .. d.cap - 1 : SlotOf(d, j) = s
<1>1. d.cap \in Nat /\ d.head \in Nat /\ d.head < d.cap /\ s \in Nat /\ s < d.cap
  BY DEF IsRing
<1>2. PICK j : j = IF s >= d.head THEN s - d.head ELSE s - d.head + d.cap
  OBVIOUS
<1>3. j \in 0 .. d.cap - 1
  BY <1>1, <1>2
<1>4. SlotOf(d, j) = s
  BY <1>1, <1>2 DEF SlotOf
<1>5. QED
  BY <1>3, <1>4

(* Two blocks of cells that every place reads alike are one.               *)
LEMMA ReadAlike ==
  ASSUME NEW d, IsRing(d), NEW T, NEW x \in [0 .. d.cap - 1 -> T], NEW y \in [0 .. d.cap - 1 -> T],
         \A j \in 0 .. d.cap - 1 : x[SlotOf(d, j)] = y[SlotOf(d, j)]
  PROVE  x = y
<1>1. ASSUME NEW s \in 0 .. d.cap - 1
      PROVE  x[s] = y[s]
  <2>1. PICK j \in 0 .. d.cap - 1 : SlotOf(d, j) = s
    BY SlotHasPlace
  <2>2. QED
    BY <2>1
<1>2. x = [s \in 0 .. d.cap - 1 |-> x[s]] /\ y = [s \in 0 .. d.cap - 1 |-> y[s]]
  OBVIOUS
<1>3. [s \in 0 .. d.cap - 1 |-> x[s]] = [s \in 0 .. d.cap - 1 |-> y[s]]
  BY <1>1
<1>4. QED
  BY <1>2, <1>3

(* What a run leaves at every place.                                       *)
LEMMA RunReads ==
  ASSUME NEW d, IsRing(d), NEW cells \in [0 .. d.cap - 1 -> Cells],
         NEW to \in SUBSET (0 .. d.cap - 1), NEW by
  PROVE  \A j \in 0 .. d.cap - 1 :
           ShiftRun(d, cells, to, by)[SlotOf(d, j)] =
             IF j \in to THEN cells[SlotOf(d, j + by)] ELSE cells[SlotOf(d, j)]
<1>1. d.cap \in Nat /\ DOMAIN cells = 0 .. d.cap - 1
  BY DEF IsRing
<1>2. ASSUME NEW j \in 0 .. d.cap - 1
      PROVE  ShiftRun(d, cells, to, by)[SlotOf(d, j)] =
               IF j \in to THEN cells[SlotOf(d, j + by)] ELSE cells[SlotOf(d, j)]
  BY SMTT(40), <1>1, ShiftReads
<1>3. QED
  BY <1>2, Zenon

(* What a store leaves at every place.                                     *)
LEMMA StoreReads ==
  ASSUME NEW d, IsRing(d), NEW cells \in [0 .. d.cap - 1 -> Cells],
         NEW i \in 0 .. d.cap - 1, NEW v
  PROVE  \A j \in 0 .. d.cap - 1 :
           PutElem(d, cells, i, v)[SlotOf(d, j)] = IF j = i THEN v ELSE cells[SlotOf(d, j)]
<1>1. d.cap \in Nat /\ DOMAIN cells = 0 .. d.cap - 1
  BY DEF IsRing
<1>2. ASSUME NEW j \in 0 .. d.cap - 1
      PROVE  PutElem(d, cells, i, v)[SlotOf(d, j)] = IF j = i THEN v ELSE cells[SlotOf(d, j)]
  BY SMTT(40), <1>1, PutReads
<1>3. QED
  BY <1>2, Zenon

(* When the places of "to" have been moved, neither i nor the place it is  *)
(* to read has been written.                                               *)
NotYetMoved(d, to, i, by) ==
  /\ by \in Int
  /\ to \subseteq 0 .. d.cap - 1 /\ \A j \in to : j + by \in 0 .. d.cap - 1
  /\ i \in (0 .. d.cap - 1) \ to
  /\ i + by \in (0 .. d.cap - 1) \ to

(* A run that has moved the places of "to" and goes on to i has moved i as *)
(* well.                                                                   *)
LEMMA OneMoreMoved ==
  ASSUME NEW d, IsRing(d), NEW cells \in [0 .. d.cap - 1 -> Cells],
         NEW to, NEW i, NEW by, NotYetMoved(d, to, i, by)
  PROVE  MoveElem(d, ShiftRun(d, cells, to, by), i, by) = ShiftRun(d, cells, to \cup {i}, by)
<1>1. /\ by \in Int /\ to \in SUBSET (0 .. d.cap - 1) /\ i \in 0 .. d.cap - 1
      /\ \A j \in to : j + by \in 0 .. d.cap - 1
      /\ i + by \in 0 .. d.cap - 1 /\ i \notin to /\ i + by \notin to
  BY DEF NotYetMoved
<1>2. d.cap \in Nat /\ d.head \in Nat /\ d.head < d.cap
  BY DEF IsRing
<1>3. PICK x : x = ShiftRun(d, cells, to, by)
  OBVIOUS
<1>4. PICK y : y = ShiftRun(d, cells, to \cup {i}, by)
  OBVIOUS
<1>5. PICK both \in SUBSET (0 .. d.cap - 1) : both = to \cup {i}
  BY <1>1
<1>6. x \in [0 .. d.cap - 1 -> Cells]
  <2>1. \A j \in to : j + by \in 0 .. d.cap
    BY <1>1, <1>2
  <2>2. QED
    BY <1>2, <1>3, <2>1, ShiftRunIsCells
<1>7. y \in [0 .. d.cap - 1 -> Cells]
  <2>1. \A j \in both : j + by \in 0 .. d.cap
    BY <1>1, <1>2, <1>5
  <2>2. QED
    BY <1>2, <1>4, <1>5, <2>1, ShiftRunIsCells
<1>8. PICK v : v = x[SlotOf(d, i + by)]
  OBVIOUS
<1>9. \A j \in 0 .. d.cap - 1 :
        x[SlotOf(d, j)] = IF j \in to THEN cells[SlotOf(d, j + by)] ELSE cells[SlotOf(d, j)]
  <2>1. \A j \in 0 .. d.cap - 1 :
          ShiftRun(d, cells, to, by)[SlotOf(d, j)] =
            IF j \in to THEN cells[SlotOf(d, j + by)] ELSE cells[SlotOf(d, j)]
    BY SMTT(40), <1>1, <1>2, RunReads
  <2>2. QED
    BY <1>3, <2>1, Zenon
<1>10. \A j \in 0 .. d.cap - 1 :
        y[SlotOf(d, j)] = IF j \in both THEN cells[SlotOf(d, j + by)] ELSE cells[SlotOf(d, j)]
  <2>1. \A j \in 0 .. d.cap - 1 :
          ShiftRun(d, cells, both, by)[SlotOf(d, j)] =
            IF j \in both THEN cells[SlotOf(d, j + by)] ELSE cells[SlotOf(d, j)]
    BY SMTT(40), <1>2, RunReads
  <2>2. QED
    BY <1>4, <1>5, <2>1, Zenon
<1>11. v = cells[SlotOf(d, i + by)]
  BY <1>1, <1>8, <1>9
<1>12. v \in Cells
  <2>1. PICK k \in 0 .. d.cap - 1 : k = i + by
    BY <1>1
  <2>2. SlotOf(d, k) \in 0 .. d.cap - 1
    BY <1>2, PlaceIsSlot
  <2>3. QED
    BY <1>6, <1>8, <2>1, <2>2
<1>13. PICK z : z = PutElem(d, x, i, v)
  OBVIOUS
<1>14. z \in [0 .. d.cap - 1 -> Cells]
  BY <1>1, <1>6, <1>12, <1>13 DEF PutElem
<1>15. \A j \in 0 .. d.cap - 1 :
         z[SlotOf(d, j)] = IF j = i THEN v ELSE x[SlotOf(d, j)]
  <2>1. \A j \in 0 .. d.cap - 1 :
          PutElem(d, x, i, v)[SlotOf(d, j)] = IF j = i THEN v ELSE x[SlotOf(d, j)]
    BY SMTT(40), <1>1, <1>2, <1>6, StoreReads
  <2>2. QED
    BY <1>13, <2>1, Zenon
<1>16. \A j \in 0 .. d.cap - 1 : z[SlotOf(d, j)] = y[SlotOf(d, j)]
  BY <1>1, <1>5, <1>9, <1>10, <1>11, <1>15
<1>17. z = y
  BY <1>7, <1>14, <1>16, ReadAlike
<1>18. MoveElem(d, x, i, by) = z
  BY <1>8, <1>13 DEF MoveElem, PutElem
<1>19. QED
  BY <1>3, <1>4, <1>17, <1>18

(* A run of no places leaves the cells.                                    *)
LEMMA NoneMoved ==
  ASSUME NEW d, NEW n, NEW cells \in [0 .. n -> Cells], NEW by
  PROVE  ShiftRun(d, cells, {}, by) = cells
<1>1. ShiftRun(d, cells, {}, by) = [s \in DOMAIN cells |-> cells[s]]
  BY DEF ShiftRun
<1>2. QED
  BY <1>1

(* The places a loop has moved after k of its steps.                       *)
Moved(q, k) == {q[j] : j \in 0 .. k - 1}

(* The n places of a loop, in its order: no step writes a place for the    *)
(* second time, or reads one that was written.                             *)
Ordered(d, q, n, by) ==
  /\ by \in Int
  /\ q \in [0 .. n - 1 -> 0 .. d.cap - 1]
  /\ \A k \in 0 .. n - 1 :
       /\ q[k] + by \in 0 .. d.cap - 1
       /\ \A j \in 0 .. k - 1 : q[j] # q[k] /\ q[j] # q[k] + by

(* Such a loop has, after k steps, moved its first k places at once: there *)
(* is a function of k that says what each step leaves, and no other.       *)
LEMMA OneAfterAnother ==
  ASSUME NEW d, IsRing(d), NEW cells \in [0 .. d.cap - 1 -> Cells], NEW n \in Nat,
         NEW q, NEW by, Ordered(d, q, n, by)
  PROVE  LET after == CHOOSE f :
               f = [k \in 0 .. n |-> IF k = 0 THEN cells ELSE MoveElem(d, f[k - 1], q[k - 1], by)]
         IN  after[n] = ShiftRun(d, cells, Moved(q, n), by)
<1>1. d.cap \in Nat
  BY DEF IsRing
<1>2. ShiftRun(d, cells, Moved(q, 0), by) = cells
  <2>1. Moved(q, 0) = {}
    BY DEF Moved
  <2>2. QED
    BY <1>1, <2>1, NoneMoved
<1>3. ASSUME NEW k \in 0 .. n - 1
      PROVE  MoveElem(d, ShiftRun(d, cells, Moved(q, k), by), q[k], by)
               = ShiftRun(d, cells, Moved(q, k + 1), by)
  <2>1. Moved(q, k + 1) = Moved(q, k) \cup {q[k]}
    <3>1. 0 .. (k + 1) - 1 = (0 .. k - 1) \cup {k}
      OBVIOUS
    <3>2. QED
      BY <3>1 DEF Moved
  <2>2. /\ \A j \in 0 .. k - 1 : j \in 0 .. n - 1
        /\ q \in [0 .. n - 1 -> 0 .. d.cap - 1]
    BY DEF Ordered
  <2>3. NotYetMoved(d, Moved(q, k), q[k], by)
    <3>1. Moved(q, k) \subseteq 0 .. d.cap - 1
      BY <2>2 DEF Moved
    <3>2. \A i \in Moved(q, k) : i + by \in 0 .. d.cap - 1
      BY <2>2 DEF Ordered, Moved
    <3>3. q[k] \notin Moved(q, k) /\ q[k] + by \notin Moved(q, k)
      BY DEF Ordered, Moved
    <3>4. q[k] \in 0 .. d.cap - 1 /\ q[k] + by \in 0 .. d.cap - 1 /\ by \in Int
      BY DEF Ordered
    <3>5. QED
      BY <3>1, <3>2, <3>3, <3>4 DEF NotYetMoved
  <2>4. QED
    BY <2>1, <2>3, OneMoreMoved
<1>4. PICK c : c = [k \in 0 .. n |-> ShiftRun(d, cells, Moved(q, k), by)]
  OBVIOUS
<1>5. c = [k \in 0 .. n |-> IF k = 0 THEN cells ELSE MoveElem(d, c[k - 1], q[k - 1], by)]
  <2>1. ASSUME NEW k \in 0 .. n
        PROVE  c[k] = IF k = 0 THEN cells ELSE MoveElem(d, c[k - 1], q[k - 1], by)
    <3>1. CASE k = 0
      BY <1>2, <1>4, <3>1
    <3>2. CASE k # 0
      <4>1. PICK v \in 0 .. n - 1 : v = k - 1
        BY <3>2
      <4>2. v + 1 = k /\ v \in 0 .. n
        BY <4>1
      <4>3. c[k] = ShiftRun(d, cells, Moved(q, k), by) /\ c[v] = ShiftRun(d, cells, Moved(q, v), by)
        BY <1>4, <4>2
      <4>4. QED
        BY <1>3, <3>2, <4>1, <4>2, <4>3
    <3>3. QED
      BY <3>1, <3>2
  <2>2. c = [k \in 0 .. n |-> c[k]]
    BY <1>4
  <2>3. QED
    BY <2>1, <2>2
<1>6. PICK f : f = CHOOSE g :
        g = [k \in 0 .. n |-> IF k = 0 THEN cells ELSE MoveElem(d, g[k - 1], q[k - 1], by)]
  OBVIOUS
<1>7. f = [k \in 0 .. n |-> IF k = 0 THEN cells ELSE MoveElem(d, f[k - 1], q[k - 1], by)]
  BY <1>5, <1>6
<1>8. PICK X : X = {k \in Nat : k <= n => f[k] = ShiftRun(d, cells, Moved(q, k), by)}
  OBVIOUS
<1>9. X = Nat
  <2>1. 0 \in X
    <3>1. 0 \in 0 .. n
      OBVIOUS
    <3>2. f[0] = cells
      BY <1>7, <3>1
    <3>3. QED
      BY <1>2, <1>8, <3>2
  <2>2. ASSUME NEW k \in X
        PROVE  k + 1 \in X
    <3>1. k \in Nat /\ (k <= n => f[k] = ShiftRun(d, cells, Moved(q, k), by))
      BY <1>8
    <3>2. SUFFICES ASSUME k + 1 <= n
                   PROVE  f[k + 1] = ShiftRun(d, cells, Moved(q, k + 1), by)
      BY <1>8, <3>1
    <3>3. k \in 0 .. n - 1 /\ k + 1 \in 0 .. n /\ k + 1 # 0 /\ (k + 1) - 1 = k
      BY <3>1, <3>2
    <3>4. f[k + 1] = MoveElem(d, f[k], q[k], by)
      BY <1>7, <3>3
    <3>5. f[k] = ShiftRun(d, cells, Moved(q, k), by)
      BY <3>1, <3>2
    <3>6. QED
      BY <1>3, <3>3, <3>4, <3>5
  <2>3. X \in SUBSET Nat
    BY <1>8
  <2>4. QED
    BY <2>1, <2>2, <2>3, Induction
<1>10. f[n] = ShiftRun(d, cells, Moved(q, n), by)
  BY <1>8, <1>9
<1>11. QED
  BY <1>6, <1>10

(* A loop that goes up may read the elem behind each place.                *)
LEMMA UpwardMovesAll ==
  ASSUME NEW d, IsRing(d), NEW cells \in [0 .. d.cap - 1 -> Cells],
         NEW first \in Nat, NEW n \in Nat, n > 0 => first + n < d.cap
  PROVE  MovesUpward(d, cells, first, n, 1) = ShiftRun(d, cells, first .. first + n - 1, 1)
<1>1. d.cap \in Nat
  BY DEF IsRing
<1>2. PICK q : q = [k \in 0 .. n - 1 |-> first + k]
  OBVIOUS
<1>3. q \in [0 .. n - 1 -> 0 .. d.cap - 1]
  BY <1>1, <1>2
<1>4. ASSUME NEW k \in 0 .. n - 1
      PROVE  /\ q[k] + 1 \in 0 .. d.cap - 1
             /\ \A j \in 0 .. k - 1 : q[j] # q[k] /\ q[j] # q[k] + 1
  BY <1>1, <1>2
<1>5. Moved(q, n) = first .. first + n - 1
  <2>1. \A i \in first .. first + n - 1 : i - first \in 0 .. n - 1 /\ first + (i - first) = i
    OBVIOUS
  <2>2. \A i \in first .. first + n - 1 : i \in Moved(q, n)
    BY <1>2, <2>1 DEF Moved
  <2>3. \A j \in 0 .. n - 1 : first + j \in first .. first + n - 1
    OBVIOUS
  <2>4. QED
    BY <1>2, <2>2, <2>3 DEF Moved
<1>6. PICK f : f = CHOOSE g :
        g = [k \in 0 .. n |-> IF k = 0 THEN cells ELSE MoveElem(d, g[k - 1], q[k - 1], 1)]
  OBVIOUS
<1>7. f[n] = ShiftRun(d, cells, Moved(q, n), 1)
  <2>1. Ordered(d, q, n, 1)
    BY <1>3, <1>4 DEF Ordered
  <2>2. QED
    BY <1>6, <2>1, OneAfterAnother
<1>8. ASSUME NEW g
      PROVE  [k \in 0 .. n |-> IF k = 0 THEN cells ELSE MoveElem(d, g[k - 1], q[k - 1], 1)]
             = [k \in 0 .. n |-> IF k = 0 THEN cells ELSE MoveElem(d, g[k - 1], first + (k - 1), 1)]
  <2>1. \A k \in 0 .. n : k # 0 => q[k - 1] = first + (k - 1)
    BY <1>2
  <2>2. QED
    BY <2>1
<1>9. f = CHOOSE g :
        g = [k \in 0 .. n |-> IF k = 0 THEN cells ELSE MoveElem(d, g[k - 1], first + (k - 1), 1)]
  BY <1>6, <1>8
<1>10. MovesUpward(d, cells, first, n, 1) = f[n]
  BY <1>9 DEF MovesUpward
<1>11. QED
  BY <1>5, <1>7, <1>10

(* A loop that goes down may read the elem before each place.              *)
LEMMA DownwardMovesAll ==
  ASSUME NEW d, IsRing(d), NEW cells \in [0 .. d.cap - 1 -> Cells],
         NEW first \in Nat, NEW n \in Nat, n > 0 => n <= first /\ first < d.cap
  PROVE  MovesDownward(d, cells, first, n, -1) = ShiftRun(d, cells, first - n + 1 .. first, -1)
<1>1. d.cap \in Nat
  BY DEF IsRing
<1>2. PICK q : q = [k \in 0 .. n - 1 |-> first - k]
  OBVIOUS
<1>3. q \in [0 .. n - 1 -> 0 .. d.cap - 1]
  BY <1>1, <1>2
<1>4. ASSUME NEW k \in 0 .. n - 1
      PROVE  /\ q[k] + -1 \in 0 .. d.cap - 1
             /\ \A j \in 0 .. k - 1 : q[j] # q[k] /\ q[j] # q[k] + -1
  BY <1>1, <1>2
<1>5. Moved(q, n) = first - n + 1 .. first
  <2>1. \A i \in first - n + 1 .. first : first - i \in 0 .. n - 1 /\ first - (first - i) = i
    OBVIOUS
  <2>2. \A i \in first - n + 1 .. first : i \in Moved(q, n)
    BY <1>2, <2>1 DEF Moved
  <2>3. \A j \in 0 .. n - 1 : first - j \in first - n + 1 .. first
    OBVIOUS
  <2>4. QED
    BY <1>2, <2>2, <2>3 DEF Moved
<1>6. PICK f : f = CHOOSE g :
        g = [k \in 0 .. n |-> IF k = 0 THEN cells ELSE MoveElem(d, g[k - 1], q[k - 1], -1)]
  OBVIOUS
<1>7. f[n] = ShiftRun(d, cells, Moved(q, n), -1)
  <2>1. Ordered(d, q, n, -1)
    BY <1>3, <1>4 DEF Ordered
  <2>2. QED
    BY <1>6, <2>1, OneAfterAnother
<1>8. ASSUME NEW g
      PROVE  [k \in 0 .. n |-> IF k = 0 THEN cells ELSE MoveElem(d, g[k - 1], q[k - 1], -1)]
             = [k \in 0 .. n |-> IF k = 0 THEN cells ELSE MoveElem(d, g[k - 1], first - (k - 1), -1)]
  <2>1. \A k \in 0 .. n : k # 0 => q[k - 1] = first - (k - 1)
    BY <1>2
  <2>2. QED
    BY <2>1
<1>9. f = CHOOSE g :
        g = [k \in 0 .. n |-> IF k = 0 THEN cells ELSE MoveElem(d, g[k - 1], first - (k - 1), -1)]
  BY <1>6, <1>8
<1>10. MovesDownward(d, cells, first, n, -1) = f[n]
  BY <1>9 DEF MovesDownward
<1>11. QED
  BY <1>5, <1>7, <1>10

(* No shift of insert or remove reads an elem it has overwritten: however  *)
(* long the loop is, whatever the ring holds and wherever its seam is, it  *)
(* leaves what moving all of its elems at once would leave. So the rest of *)
(* the model may say what a shift does in one step.                        *)
THEOREM LoopsMoveAll ==
  Spec => []LoopsReadBeforeTheyWrite
<1>1. ASSUME IInv, NEW h \in Handles, Alive(h), dq[h].len > 0,
             NEW idx \in 0 .. dq[h].len - 1
      PROVE  LET d     == dq[h]
                 cells == mem[d.data].cells
             IN  /\ InsertFrontLoop(d, cells, idx) = ShiftRun(d, cells, 0 .. idx - 1, 1)
                 /\ InsertBackLoop(d, cells, idx) = ShiftRun(d, cells, idx + 1 .. d.len - 1, -1)
                 /\ RemoveFrontLoop(d, cells, idx) = ShiftRun(d, cells, 1 .. idx, -1)
                 /\ RemoveBackLoop(d, cells, idx) = ShiftRun(d, cells, idx .. d.len - 2, 1)
  <2>1. PICK d : d = dq[h]
    OBVIOUS
  <2>2. PICK cells : cells = mem[d.data].cells
    OBVIOUS
  <2>3. /\ d.len \in Nat /\ d.cap \in Nat /\ d.head \in Nat /\ d.len <= d.cap
        /\ d.cap > 0 /\ d.head < d.cap /\ cells \in [0 .. d.cap - 1 -> Cells]
    BY <1>1, <2>1, <2>2, LiveFacts
  <2>4. IsRing(d)
    BY <2>3 DEF IsRing
  <2>5. /\ idx \in Nat /\ d.len - 1 \in Nat /\ d.len - 1 - idx \in Nat
        /\ idx < d.cap /\ d.len - 1 < d.cap
    BY <1>1, <2>1, <2>3
  <2>6. InsertFrontLoop(d, cells, idx) = ShiftRun(d, cells, 0 .. idx - 1, 1)
    <3>1. 0 + idx < d.cap /\ 0 .. 0 + idx - 1 = 0 .. idx - 1
      BY <2>3, <2>5
    <3>2. MovesUpward(d, cells, 0, idx, 1) = ShiftRun(d, cells, 0 .. 0 + idx - 1, 1)
      BY SMTT(40), <2>3, <2>4, <2>5, <3>1, UpwardMovesAll
    <3>3. QED
      BY <3>1, <3>2 DEF InsertFrontLoop
  <2>7. PICK n \in Nat : n = d.len - 1 - idx
    BY <2>5
  <2>8. PICK last \in Nat : last = d.len - 1
    BY <2>5
  <2>9. /\ idx + n < d.cap /\ n <= last /\ last < d.cap
        /\ last - n + 1 .. last = idx + 1 .. d.len - 1
        /\ idx - idx + 1 .. idx = 1 .. idx
        /\ idx .. idx + n - 1 = idx .. d.len - 2
    BY <2>3, <2>5, <2>7, <2>8
  <2>10. InsertBackLoop(d, cells, idx) = ShiftRun(d, cells, idx + 1 .. d.len - 1, -1)
    <3>1. MovesDownward(d, cells, last, n, -1) = ShiftRun(d, cells, last - n + 1 .. last, -1)
      BY SMTT(40), <2>3, <2>4, <2>9, DownwardMovesAll
    <3>2. InsertBackLoop(d, cells, idx) = MovesDownward(d, cells, last, n, -1)
      BY <2>7, <2>8, Zenon DEF InsertBackLoop
    <3>3. QED
      BY <2>9, <3>1, <3>2
  <2>11. RemoveFrontLoop(d, cells, idx) = ShiftRun(d, cells, 1 .. idx, -1)
    <3>1. MovesDownward(d, cells, idx, idx, -1) = ShiftRun(d, cells, idx - idx + 1 .. idx, -1)
      BY SMTT(40), <2>3, <2>4, <2>5, DownwardMovesAll
    <3>2. QED
      BY <2>9, <3>1 DEF RemoveFrontLoop
  <2>12. RemoveBackLoop(d, cells, idx) = ShiftRun(d, cells, idx .. d.len - 2, 1)
    <3>1. MovesUpward(d, cells, idx, n, 1) = ShiftRun(d, cells, idx .. idx + n - 1, 1)
      BY SMTT(40), <2>3, <2>4, <2>5, <2>9, UpwardMovesAll
    <3>2. QED
      BY <2>7, <2>9, <3>1 DEF RemoveBackLoop
  <2>13. QED
    BY <2>1, <2>2, <2>6, <2>10, <2>11, <2>12
<1>2. IInv => LoopsReadBeforeTheyWrite
  <2>1. SUFFICES ASSUME IInv PROVE LoopsReadBeforeTheyWrite
    OBVIOUS
  <2>2. QED
    BY <1>1, <2>1, Zenon DEF LoopsReadBeforeTheyWrite
<1>3. QED
  BY <1>2, AlwaysSound, PTL

=============================================================================
