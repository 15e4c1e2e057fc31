----------------------------- MODULE ArenaProofs -----------------------------
(***************************************************************************)
(* What the run checks on arenas of up to six words with three owners, for *)
(* any capacity, any alignment and any number of owners.                   *)
(***************************************************************************)
EXTENDS Arena, TLAPS

(* x is a whole number of alignments.                                      *)
Multiple(x) == \E q \in Nat : x = q * Align

(* A block is a record of a place, a size and so many words; the one of    *)
(* no words is nowhere.                                                    *)
IsBlock(x) ==
  \E p, s \in Nat :
    /\ x \in [ptr : {p}, size : {s}, words : [1 .. s -> Values]]
    /\ s = 0 => p = 0

(* What is asserted of a block: it starts aligned and ends before the free *)
(* tail, it is apart from another one, and holds what its owner knows.     *)
EndOf(x) == x.ptr + AlignUp(x.size)

Placed(x, off) == Multiple(x.ptr) /\ (x.size > 0 => EndOf(x) <= off)

Apart(x, y) == x.size > 0 /\ y.size > 0 => EndOf(x) <= y.ptr \/ EndOf(y) <= x.ptr

Intact(x, cells) == \A k \in 1 .. x.size : cells[x.ptr + k - 1] = x.words[k]

(* The arena fits its block.                                               *)
ArenaOK(a, cells) ==
  /\ a \in Arenas
  /\ a.offset <= a.cap
  /\ a.cap <= SizeMax
  /\ Multiple(a.offset)
  /\ cells \in [0 .. a.cap - 1 -> Values]

(* The blocks L fit the arena and one another.                             *)
LentOK(L, a, cells) ==
  /\ L = [c \in Owners |-> L[c]]
  /\ \A c \in Owners : IsBlock(L[c])
  /\ \A c \in Owners : Placed(L[c], a.offset) /\ Intact(L[c], cells)
  /\ \A c, e \in Owners : c # e => Apart(L[c], L[e])

(* The inductive invariant. That a block is apart from the others needs    *)
(* all of them to end before the offset; that its words stay needs it to   *)
(* be apart; and that the offset stays aligned needs the block it is       *)
(* counted back from to start aligned.                                     *)
IInv ==
  /\ Alive => ArenaOK(arena, cell) /\ LentOK(lent, arena, cell)
  /\ ~Alive => lent = [c \in Owners |-> Nowhere]
  /\ ParentIsSquare

-----------------------------------------------------------------------------
(* Rounding up.                                                            *)

(* A size is rounded to a multiple of the alignment that is no smaller,    *)
(* and to nothing only when it is nothing.                                 *)
LEMMA RoundingUp ==
  ASSUME NEW x \in Nat
  PROVE  /\ AlignUp(x) \in Nat /\ AlignUp(x) >= x
         /\ Multiple(AlignUp(x))
<1>1. PICK a \in Nat : a = Align /\ a > 0
  BY ArenaAssumption
<1>2. PICK q, r \in Int : q = (x + a - 1) \div a /\ r = (x + a - 1) % a
  BY <1>1
<1>3. r \in 0 .. a - 1 /\ x + a - 1 = a * q + r
  BY <1>1, <1>2
<1>4. q \in Nat
  <2>1. q >= 0
    BY <1>1, <1>2
  <2>2. QED
    BY <1>2, <2>1
<1>5. q * a = a * q /\ q * a \in Nat
  BY <1>1, <1>4
<1>6. AlignUp(x) = q * a
  BY <1>1, <1>2 DEF AlignUp
<1>7. AlignUp(x) >= x
  BY <1>1, <1>3, <1>4, <1>5, <1>6
<1>8. QED
  BY <1>1, <1>4, <1>5, <1>6, <1>7 DEF Multiple

(* Multiples add up.                                                       *)
LEMMA SumOfMultiples ==
  ASSUME NEW x, NEW y, Multiple(x), Multiple(y)
  PROVE  Multiple(x + y) /\ x \in Nat /\ y \in Nat
<1>1. PICK p \in Nat : x = p * Align
  BY DEF Multiple
<1>2. PICK q \in Nat : y = q * Align
  BY DEF Multiple
<1>3. PICK a \in Nat : a = Align
  BY ArenaAssumption
<1>4. x + y = (p + q) * Align /\ p + q \in Nat /\ x \in Nat /\ y \in Nat
  BY <1>1, <1>2, <1>3
<1>5. QED
  BY <1>4 DEF Multiple

(* A multiple leaves no remainder.                                         *)
LEMMA NoRemainder ==
  ASSUME NEW x, Multiple(x)
  PROVE  x % Align = 0
<1>1. PICK a \in Nat : a = Align /\ a > 0
  BY ArenaAssumption
<1>2. PICK q \in Nat : x = q * a
  BY <1>1 DEF Multiple
<1>3. x \in Nat /\ x % a \in 0 .. a - 1 /\ x = a * (x \div a) + (x % a) /\ x \div a \in Int
  BY <1>1, <1>2
<1>4. x % a = a * (q - (x \div a))
  BY <1>1, <1>2, <1>3
<1>5. q - (x \div a) = 0
  <2>1. CASE q - (x \div a) >= 1
    <3>1. a * (q - (x \div a)) >= a
      BY <1>1, <1>3, <2>1
    <3>2. QED
      BY <1>1, <1>3, <1>4, <3>1
  <2>2. CASE q - (x \div a) <= -1
    <3>1. a * (q - (x \div a)) <= -a
      BY <1>1, <1>3, <2>2
    <3>2. QED
      BY <1>1, <1>3, <1>4, <3>1
  <2>3. QED
    BY <1>2, <1>3, <2>1, <2>2
<1>6. QED
  BY <1>1, <1>4, <1>5

(* Nothing is a multiple, and a null pointer's block is one that starts    *)
(* aligned.                                                                *)
LEMMA NowhereFacts ==
  /\ Multiple(0)
  /\ IsBlock(Nowhere) /\ Nowhere.ptr = 0 /\ Nowhere.size = 0
<1>1. Multiple(0)
  <2>1. 0 = 0 * Align
    BY ArenaAssumption
  <2>2. QED
    BY <2>1 DEF Multiple
<1>2. Nowhere \in [ptr : {0}, size : {0}, words : [1 .. 0 -> Values]]
  BY DEF Nowhere
<1>3. IsBlock(Nowhere)
  BY <1>2 DEF IsBlock
<1>4. QED
  BY <1>1, <1>3 DEF Nowhere

(* A record of a place, a size and so many words is a block.               *)
LEMMA ABlock ==
  ASSUME NEW p \in Nat, NEW s \in Nat \ {0}, NEW w \in [1 .. s -> Values]
  PROVE  IsBlock([ptr |-> p, size |-> s, words |-> w])
<1>1. [ptr |-> p, size |-> s, words |-> w] \in [ptr : {p}, size : {s}, words : [1 .. s -> Values]]
  OBVIOUS
<1>2. QED
  BY <1>1 DEF IsBlock

(* And a block is one.                                                     *)
LEMMA BlockFacts ==
  ASSUME NEW x, IsBlock(x)
  PROVE  /\ x.ptr \in Nat /\ x.size \in Nat /\ x.words \in [1 .. x.size -> Values]
         /\ x = [ptr |-> x.ptr, size |-> x.size, words |-> x.words]
         /\ x.size = 0 => x.ptr = 0
         /\ AlignUp(x.size) \in Nat /\ AlignUp(x.size) >= x.size
         /\ EndOf(x) \in Nat /\ EndOf(x) = x.ptr + AlignUp(x.size)
<1>1. PICK p, s \in Nat : /\ x \in [ptr : {p}, size : {s}, words : [1 .. s -> Values]]
                          /\ s = 0 => p = 0
  BY DEF IsBlock
<1>2. /\ x.ptr \in Nat /\ x.size \in Nat /\ x.words \in [1 .. x.size -> Values]
      /\ x = [ptr |-> x.ptr, size |-> x.size, words |-> x.words]
      /\ x.size = 0 => x.ptr = 0
  BY <1>1
<1>3. AlignUp(x.size) \in Nat /\ AlignUp(x.size) >= x.size
  BY <1>2, RoundingUp
<1>4. QED
  BY <1>2, <1>3 DEF EndOf

-----------------------------------------------------------------------------
(* One block at a time.                                                    *)

(* What has to be shown when the block of one owner becomes x: that x is   *)
(* well placed and apart from the others, and the others undisturbed.      *)
LEMMA OneBlockChanged ==
  ASSUME NEW L, NEW a, NEW cells, LentOK(L, a, cells),
         NEW c \in Owners, NEW x, NEW b, NEW after,
         IsBlock(x), Placed(x, b.offset), Intact(x, after),
         \A e \in Owners : e # c =>
           Placed(L[e], b.offset) /\ Intact(L[e], after) /\ Apart(x, L[e])
  PROVE  LentOK([L EXCEPT ![c] = x], b, after)
<1>1. PICK M : M = [L EXCEPT ![c] = x]
  OBVIOUS
<1>2. L = [e \in Owners |-> L[e]]
  BY DEF LentOK
<1>3. M[c] = x /\ \A e \in Owners : e # c => M[e] = L[e]
  BY <1>1, <1>2
<1>4. M = [e \in Owners |-> M[e]]
  BY <1>1, <1>2
<1>5. ASSUME NEW e \in Owners
      PROVE  IsBlock(M[e]) /\ Placed(M[e], b.offset) /\ Intact(M[e], after)
  <2>1. CASE e = c
    BY <2>1, <1>3
  <2>2. CASE e # c
    BY <2>2, <1>3 DEF LentOK
  <2>3. QED
    BY <2>1, <2>2
<1>6. ASSUME NEW e \in Owners, NEW f \in Owners, e # f
      PROVE  Apart(M[e], M[f])
  <2>1. CASE e = c
    BY <2>1, <1>3, <1>6
  <2>2. CASE f = c
    BY <2>2, <1>3, <1>6 DEF Apart
  <2>3. CASE e # c /\ f # c
    BY <2>3, <1>3, <1>6 DEF LentOK
  <2>4. QED
    BY <2>1, <2>2, <2>3
<1>7. LentOK(M, b, after)
  BY <1>4, <1>5, <1>6 DEF LentOK
<1>8. QED
  BY <1>1, <1>7

(* The new block is the last one: all others end before it, and no word    *)
(* before it has changed.                                                  *)
LEMMA TopBlock ==
  ASSUME NEW L, NEW a, NEW cells, LentOK(L, a, cells),
         NEW c \in Owners, NEW x, NEW b, NEW after,
         IsBlock(x), Multiple(x.ptr), EndOf(x) = b.offset, Intact(x, after),
         \A e \in Owners : e # c /\ L[e].size > 0 => EndOf(L[e]) <= x.ptr,
         \A i \in Nat : i < x.ptr => after[i] = cells[i]
  PROVE  LentOK([L EXCEPT ![c] = x], b, after)
<1>1. ASSUME NEW e \in Owners, e # c
      PROVE  Placed(L[e], b.offset) /\ Intact(L[e], after) /\ Apart(x, L[e])
  <2>1. PICK y : y = L[e]
    OBVIOUS
  <2>2. IsBlock(y) /\ Multiple(y.ptr) /\ Intact(y, cells)
    BY <2>1 DEF LentOK, Placed
  <2>3. /\ y.ptr \in Nat /\ y.size \in Nat /\ EndOf(y) \in Nat
        /\ EndOf(y) = y.ptr + AlignUp(y.size) /\ AlignUp(y.size) \in Nat
        /\ AlignUp(y.size) >= y.size
    BY <2>2, BlockFacts
  <2>4. x.ptr \in Nat /\ EndOf(x) \in Nat /\ EndOf(x) >= x.ptr
    BY BlockFacts
  <2>5. y.size > 0 => EndOf(y) <= x.ptr
    BY <2>1, <1>1
  <2>6. Placed(y, b.offset)
    BY <2>2, <2>3, <2>4, <2>5 DEF Placed
  <2>7. Apart(x, y)
    BY <2>5 DEF Apart
  <2>8. Intact(y, after)
    <3>1. SUFFICES ASSUME NEW k \in 1 .. y.size
                   PROVE  after[y.ptr + k - 1] = y.words[k]
      BY DEF Intact
    <3>2. PICK i \in Nat : i = y.ptr + k - 1
      BY <2>3
    <3>3. i < x.ptr
      BY <2>3, <2>4, <2>5, <3>2
    <3>4. cells[i] = y.words[k]
      BY <2>2, <3>2 DEF Intact
    <3>5. QED
      BY <3>2, <3>3, <3>4
  <2>9. QED
    BY <2>1, <2>6, <2>7, <2>8
<1>2. Placed(x, b.offset)
  <2>1. EndOf(x) \in Nat
    BY BlockFacts
  <2>2. QED
    BY <2>1 DEF Placed
<1>3. QED
  BY <1>1, <1>2, OneBlockChanged

(* Owners that hold nothing.                                               *)
LEMMA NobodyHolds ==
  ASSUME NEW b, NEW cells
  PROVE  LentOK([c \in Owners |-> Nowhere], b, cells)
<1>1. PICK M : M = [c \in Owners |-> Nowhere]
  OBVIOUS
<1>2. M = [c \in Owners |-> M[c]] /\ \A c \in Owners : M[c] = Nowhere
  BY <1>1
<1>3. IsBlock(Nowhere) /\ Multiple(0) /\ Nowhere.ptr = 0 /\ Nowhere.size = 0
  BY NowhereFacts
<1>4. Placed(Nowhere, b.offset) /\ Intact(Nowhere, cells) /\ Apart(Nowhere, Nowhere)
  BY <1>3 DEF Placed, Intact, Apart
<1>5. LentOK(M, b, cells)
  BY <1>2, <1>3, <1>4 DEF LentOK
<1>6. QED
  BY <1>1, <1>5

-----------------------------------------------------------------------------
(* The state before a call and after it.                                   *)

(* What is known of an arena that there is.                                *)
LEMMA LiveState ==
  ASSUME IInv, Alive
  PROVE  /\ ArenaOK(arena, cell) /\ LentOK(lent, arena, cell)
         /\ owed = [ctx |-> 1, data |-> arena.cap, obj |-> 1]
         /\ arena = [cap |-> arena.cap, offset |-> arena.offset]
         /\ arena.cap \in Nat /\ arena.offset \in Nat
         /\ arena.offset <= arena.cap /\ arena.cap <= SizeMax
<1>1. ArenaOK(arena, cell) /\ LentOK(lent, arena, cell)
  BY DEF IInv
<1>2. owed = [ctx |-> 1, data |-> arena.cap, obj |-> 1]
  BY DEF IInv, ParentIsSquare
<1>3. QED
  BY <1>1, <1>2 DEF ArenaOK, Arenas

(* What suffices after a step that leaves an arena.                        *)
LEMMA LiveStep ==
  ASSUME ArenaOK(arena, cell)', LentOK(lent, arena, cell)',
         owed' = [ctx |-> 1, data |-> arena'.cap, obj |-> 1]
  PROVE  IInv'
<1>1. arena' # Null
  BY ArenaAssumption DEF ArenaOK, Arenas
<1>2. QED
  BY <1>1 DEF IInv, Alive, ParentIsSquare

(* The words of a block once they are stored, and all others as they were. *)
LEMMA StoredCells ==
  ASSUME NEW m \in Nat, cell \in [0 .. m - 1 -> Values],
         NEW p \in Nat, NEW n \in Nat, NEW s, p + n <= m,
         \A k \in 1 .. n : s[k] \in Values
  PROVE  /\ Stored(p, s, n) \in [0 .. m - 1 -> Values]
         /\ \A k \in 1 .. n : Stored(p, s, n)[p + k - 1] = s[k]
         /\ \A i \in 0 .. m - 1 : i < p \/ i >= p + n => Stored(p, s, n)[i] = cell[i]
<1>1. PICK f : f = Stored(p, s, n)
  OBVIOUS
<1>2. f = [x \in 0 .. m - 1 |-> IF p <= x /\ x < p + n THEN s[x - p + 1] ELSE cell[x]]
  BY <1>1 DEF Stored
<1>3. ASSUME NEW x \in 0 .. m - 1
      PROVE  f[x] \in Values
  <2>1. CASE p <= x /\ x < p + n
    <3>1. x - p + 1 \in 1 .. n
      BY <2>1
    <3>2. QED
      BY <1>2, <2>1, <3>1
  <2>2. CASE ~(p <= x /\ x < p + n)
    BY <1>2, <2>2
  <2>3. QED
    BY <2>1, <2>2
<1>4. f \in [0 .. m - 1 -> Values]
  BY <1>2, <1>3
<1>5. ASSUME NEW k \in 1 .. n
      PROVE  f[p + k - 1] = s[k]
  <2>1. PICK x \in 0 .. m - 1 : x = p + k - 1
    OBVIOUS
  <2>2. p <= x /\ x < p + n /\ x - p + 1 = k
    BY <2>1
  <2>3. QED
    BY <1>2, <2>1, <2>2
<1>6. ASSUME NEW i \in 0 .. m - 1, i < p \/ i >= p + n
      PROVE  f[i] = cell[i]
  BY <1>2, <1>6
<1>7. QED
  BY <1>1, <1>4, <1>5, <1>6

(* The arena bumped past a block it has room for.                          *)
LEMMA BumpedArena ==
  ASSUME ArenaOK(arena, cell), NEW size \in Nat, ~Refused(size),
         NEW after \in [0 .. arena.cap - 1 -> Values]
  PROVE  /\ ArenaOK(Bumped(size), after)
         /\ Bumped(size) = [cap |-> arena.cap, offset |-> arena.offset + AlignUp(size)]
         /\ size > 0 /\ arena.offset + size <= arena.cap
<1>1. PICK m, o \in Nat : arena = [cap |-> m, offset |-> o]
  BY DEF ArenaOK, Arenas
<1>2. PICK u \in Nat : u = AlignUp(size) /\ u >= size /\ Multiple(u)
  BY RoundingUp
<1>3. size > 0 /\ o + u <= m
  BY <1>1, <1>2 DEF Refused, Fits
<1>4. Bumped(size) = [cap |-> m, offset |-> o + u]
  BY <1>1, <1>2 DEF Bumped
<1>5. Multiple(o) /\ m <= SizeMax
  BY <1>1 DEF ArenaOK
<1>6. Multiple(o + u)
  BY <1>2, <1>5, SumOfMultiples
<1>7. ArenaOK(Bumped(size), after)
  BY <1>1, <1>3, <1>4, <1>5, <1>6 DEF ArenaOK, Arenas
<1>8. QED
  BY <1>1, <1>2, <1>3, <1>4, <1>7

(* The block a bump hands out: its words are w, and nothing before it has  *)
(* changed.                                                                *)
LEMMA BumpedLent ==
  ASSUME ArenaOK(arena, cell), LentOK(lent, arena, cell),
         NEW c \in Owners, NEW size \in Nat, ~Refused(size),
         NEW w \in [1 .. size -> Values],
         NEW after \in [0 .. arena.cap - 1 -> Values],
         \A k \in 1 .. size : after[arena.offset + k - 1] = w[k],
         \A i \in 0 .. arena.cap - 1 : i < arena.offset => after[i] = cell[i]
  PROVE  LentOK([lent EXCEPT ![c] = [ptr |-> arena.offset, size |-> size, words |-> w]],
                Bumped(size), after)
<1>1. PICK m, o \in Nat : arena = [cap |-> m, offset |-> o]
  BY DEF ArenaOK, Arenas
<1>2. PICK b : b = Bumped(size)
  OBVIOUS
<1>3. size > 0 /\ b.offset = o + AlignUp(size)
  BY <1>1, <1>2, BumpedArena
<1>4. PICK x : x = [ptr |-> o, size |-> size, words |-> w]
  OBVIOUS
<1>5. IsBlock(x)
  BY <1>3, <1>4, ABlock
<1>6. x.ptr = o /\ x.size = size /\ x.words = w
  BY <1>4
<1>7. Multiple(x.ptr) /\ o <= m
  BY <1>1, <1>6 DEF ArenaOK
<1>8. EndOf(x) = b.offset
  BY <1>3, <1>6 DEF EndOf
<1>9. Intact(x, after)
  BY <1>1, <1>6 DEF Intact
<1>10. \A e \in Owners : e # c /\ lent[e].size > 0 => EndOf(lent[e]) <= x.ptr
  BY <1>1, <1>6 DEF LentOK, Placed
<1>11. \A i \in Nat : i < x.ptr => after[i] = cell[i]
  <2>1. SUFFICES ASSUME NEW i \in Nat, i < o
                 PROVE  after[i] = cell[i]
    BY <1>6
  <2>2. i \in 0 .. m - 1
    BY <1>7, <2>1
  <2>3. QED
    BY <1>1, <2>1, <2>2
<1>12. LentOK([lent EXCEPT ![c] = x], b, after)
  BY ZenonT(40), <1>5, <1>7, <1>8, <1>9, <1>10, <1>11, TopBlock
<1>13. QED
  BY <1>1, <1>2, <1>4, <1>12

-----------------------------------------------------------------------------
(* The inductive invariant, one action at a time.                          *)

(* A step that is a refusal changes nothing.                               *)
LEMMA NothingChanges ==
  ASSUME IInv, UNCHANGED vars
  PROVE  IInv'
BY DEF IInv, vars, Alive, ParentIsSquare

(* Init.                                                                   *)
LEMMA InitOK ==
  ASSUME Init
  PROVE  IInv
BY DEF Init, IInv, Alive, ParentIsSquare

(* tda_al_arena_new: refused, everything the parent granted is back.       *)
LEMMA NewOK ==
  ASSUME IInv, NEW cap \in Caps, NEW granted \in 0 .. 3, New(cap, granted)
  PROVE  IInv'
<1>1. cap \in Nat /\ cap <= SizeMax /\ cap > 0
  BY ArenaAssumption DEF New
<1>2. ~Alive /\ lent = [c \in Owners |-> Nowhere]
  BY DEF New, IInv
<1>3. CASE granted < 3
  <2>1. owed' = NewRefused(granted, cap) /\ UNCHANGED <<arena, cell, lent>>
    BY <1>3 DEF New
  <2>2. granted = 0 \/ granted = 1 \/ granted = 2
    BY <1>3
  <2>3. NewRefused(granted, cap) = NothingOwed
    <3>1. CASE granted = 0
      BY <3>1 DEF NewRefused
    <3>2. CASE granted = 1
      BY <3>2 DEF NewRefused, NothingOwed, Settle
    <3>3. CASE granted = 2
      BY <3>3 DEF NewRefused, NothingOwed, Settle, ReturnCtx
    <3>4. QED
      BY <2>2, <3>1, <3>2, <3>3
  <2>4. QED
    BY <1>2, <2>1, <2>3 DEF IInv, Alive, ParentIsSquare
<1>4. CASE granted = 3
  <2>1. /\ arena' = [cap |-> cap, offset |-> 0]
        /\ cell' = [x \in 0 .. cap - 1 |-> Junk]
        /\ owed' = [ctx |-> 1, data |-> cap, obj |-> 1]
        /\ lent' = lent
    BY <1>4 DEF New
  <2>2. cell' \in [0 .. cap - 1 -> Values]
    BY <2>1 DEF Values
  <2>3. arena' \in Arenas /\ arena'.cap = cap /\ arena'.offset = 0
    BY <1>1, <2>1 DEF Arenas
  <2>4. ArenaOK(arena', cell')
    BY <1>1, <2>2, <2>3, NowhereFacts, ArenaAssumption DEF ArenaOK
  <2>5. LentOK(lent', arena', cell')
    BY <1>2, <2>1, NobodyHolds
  <2>6. QED
    BY <2>1, <2>3, <2>4, <2>5, LiveStep
<1>5. QED
  BY <1>3, <1>4

(* tda_al_arena_drop.                                                      *)
LEMMA DropOK ==
  ASSUME IInv, Drop
  PROVE  IInv'
<1>1. PICK m \in Nat : arena.cap = m /\ owed = [ctx |-> 1, data |-> m, obj |-> 1]
  BY LiveState DEF Drop
<1>2. owed' = NothingOwed
  BY <1>1 DEF Drop, Settle, ReturnCtx, ReturnObj, NothingOwed
<1>3. QED
  BY <1>2 DEF Drop, IInv, Alive, ParentIsSquare

(* tda_al_arena_reset.                                                     *)
LEMMA ResetOK ==
  ASSUME IInv, Reset
  PROVE  IInv'
<1>1. PICK m, o \in Nat : arena = [cap |-> m, offset |-> o] /\ m <= SizeMax
  BY LiveState DEF Reset
<1>2. cell \in [0 .. m - 1 -> Values] /\ owed = [ctx |-> 1, data |-> m, obj |-> 1]
  BY <1>1, LiveState DEF Reset, ArenaOK
<1>3. arena' = [cap |-> m, offset |-> 0]
  BY <1>1 DEF Reset
<1>4. cell' = cell /\ owed' = owed /\ lent' = [c \in Owners |-> Nowhere]
  BY DEF Reset
<1>5. ArenaOK(arena', cell')
  BY <1>1, <1>2, <1>3, <1>4, NowhereFacts DEF ArenaOK, Arenas
<1>6. LentOK(lent', arena', cell')
  BY <1>4, NobodyHolds
<1>7. QED
  BY <1>2, <1>3, <1>4, <1>5, <1>6, LiveStep

(* arena_alloc: the words of the block are those behind the offset.        *)
LEMMA AllocOK ==
  ASSUME IInv, NEW c \in Owners, NEW size \in Nat, Alloc(c, size)
  PROVE  IInv'
<1>1. CASE UNCHANGED vars
  BY <1>1, NothingChanges
<1>2. CASE ~Refused(size)
  <2>1. /\ ArenaOK(arena, cell) /\ LentOK(lent, arena, cell)
        /\ owed = [ctx |-> 1, data |-> arena.cap, obj |-> 1]
    BY LiveState DEF Alloc
  <2>2. PICK m, o \in Nat : arena = [cap |-> m, offset |-> o]
    BY <2>1 DEF ArenaOK, Arenas
  <2>3. cell \in [0 .. m - 1 -> Values]
    BY <2>1, <2>2 DEF ArenaOK
  <2>4. size > 0 /\ o + size <= m /\ ArenaOK(Bumped(size), cell)
        /\ Bumped(size) = [cap |-> m, offset |-> o + AlignUp(size)]
    BY <1>2, <2>1, <2>2, <2>3, BumpedArena
  <2>5. PICK w : w = [k \in 1 .. size |-> cell[o + k - 1]]
    OBVIOUS
  <2>6. w \in [1 .. size -> Values]
    <3>1. \A k \in 1 .. size : o + k - 1 \in 0 .. m - 1
      BY <2>4
    <3>2. QED
      BY <2>3, <2>5, <3>1
  <2>7. \A k \in 1 .. size : cell[arena.offset + k - 1] = w[k]
    BY <2>2, <2>5
  <2>8. cell \in [0 .. arena.cap - 1 -> Values]
    BY <2>2, <2>3
  <2>9. LentOK([lent EXCEPT ![c] = [ptr |-> arena.offset, size |-> size, words |-> w]],
               Bumped(size), cell)
    BY <1>2, <2>1, <2>6, <2>7, <2>8, BumpedLent
  <2>10. /\ arena' = Bumped(size) /\ cell' = cell /\ owed' = owed
         /\ lent' = [lent EXCEPT ![c] = [ptr |-> arena.offset, size |-> size, words |-> w]]
    BY <1>2, <2>2, <2>5 DEF Alloc, Found
  <2>11. arena'.cap = m
    BY <2>4, <2>10
  <2>12. QED
    BY <2>1, <2>2, <2>4, <2>9, <2>10, <2>11, LiveStep
<1>3. QED
  BY <1>1, <1>2 DEF Alloc

(* tda_calloc: they are zero.                                              *)
LEMMA CallocOK ==
  ASSUME IInv, NEW c \in Owners, NEW size \in Nat, NEW num \in Nat, Calloc(c, num, size)
  PROVE  IInv'
<1>1. CASE UNCHANGED vars
  BY <1>1, NothingChanges
<1>2. PICK t \in Nat : t = num * size
  OBVIOUS
<1>3. CASE t <= SizeMax /\ ~Refused(t) /\ ~UNCHANGED vars
  <2>1. /\ ArenaOK(arena, cell) /\ LentOK(lent, arena, cell)
        /\ owed = [ctx |-> 1, data |-> arena.cap, obj |-> 1]
    BY LiveState DEF Calloc
  <2>2. PICK m, o \in Nat : arena = [cap |-> m, offset |-> o]
    BY <2>1 DEF ArenaOK, Arenas
  <2>3. cell \in [0 .. m - 1 -> Values]
    BY <2>1, <2>2 DEF ArenaOK
  <2>4. PICK w : w = [k \in 1 .. t |-> Zero]
    OBVIOUS
  <2>5. w \in [1 .. t -> Values] /\ \A k \in 1 .. t : w[k] \in Values
    BY <2>4 DEF Values
  <2>6. PICK after : after = Stored(o, w, t)
    OBVIOUS
  <2>7. o + t <= m
    BY <1>3, <2>1, <2>2, <2>3, BumpedArena
  <2>8. /\ after \in [0 .. m - 1 -> Values]
        /\ \A k \in 1 .. t : after[o + k - 1] = w[k]
        /\ \A i \in 0 .. m - 1 : i < o \/ i >= o + t => after[i] = cell[i]
    BY SMTT(40), <2>3, <2>5, <2>6, <2>7, StoredCells
  <2>9. /\ after \in [0 .. arena.cap - 1 -> Values]
        /\ \A k \in 1 .. t : after[arena.offset + k - 1] = w[k]
        /\ \A i \in 0 .. arena.cap - 1 : i < arena.offset => after[i] = cell[i]
    BY <2>2, <2>8
  <2>10. ArenaOK(Bumped(t), after)
         /\ Bumped(t) = [cap |-> arena.cap, offset |-> arena.offset + AlignUp(t)]
    BY <1>3, <2>1, <2>9, BumpedArena
  <2>11. LentOK([lent EXCEPT ![c] = [ptr |-> arena.offset, size |-> t, words |-> w]],
                Bumped(t), after)
    BY <1>3, <2>1, <2>5, <2>9, BumpedLent
  <2>12. /\ arena' = Bumped(t) /\ cell' = after /\ owed' = owed
         /\ lent' = [lent EXCEPT ![c] = [ptr |-> arena.offset, size |-> t, words |-> w]]
    BY <1>2, <1>3, <2>2, <2>4, <2>6 DEF Calloc
  <2>13. arena'.cap = arena.cap
    BY <2>10, <2>12
  <2>14. QED
    BY <2>1, <2>10, <2>11, <2>12, <2>13, LiveStep
<1>4. QED
  BY <1>1, <1>2, <1>3 DEF Calloc

(* arena_dealloc: one owner less.                                          *)
LEMMA DeallocOK ==
  ASSUME IInv, NEW c \in Owners, Dealloc(c)
  PROVE  IInv'
<1>1. /\ ArenaOK(arena, cell) /\ LentOK(lent, arena, cell)
      /\ owed = [ctx |-> 1, data |-> arena.cap, obj |-> 1]
  BY LiveState DEF Dealloc
<1>2. arena' = arena /\ cell' = cell /\ owed' = owed /\ lent' = [lent EXCEPT ![c] = Nowhere]
  BY DEF Dealloc
<1>3. IsBlock(Nowhere) /\ Multiple(Nowhere.ptr) /\ Nowhere.size = 0
  BY NowhereFacts
<1>4. Placed(Nowhere, arena.offset) /\ Intact(Nowhere, cell)
  BY <1>3 DEF Placed, Intact
<1>5. \A e \in Owners : Placed(lent[e], arena.offset) /\ Intact(lent[e], cell)
                        /\ Apart(Nowhere, lent[e])
  BY <1>1, <1>3 DEF LentOK, Apart
<1>6. LentOK([lent EXCEPT ![c] = Nowhere], arena, cell)
  BY <1>1, <1>3, <1>4, <1>5, OneBlockChanged
<1>7. QED
  BY <1>1, <1>2, <1>6, LiveStep

(* A block that grew or shrank where it is: the last one, so that all      *)
(* others end before it.                                                   *)
LEMMA ReallocInPlace ==
  ASSUME IInv, NEW c \in Owners, NEW size \in Nat, Holds(c), Alive, size > 0,
         IsLast(lent[c].ptr, lent[c].size),
         Fits(arena.offset - AlignUp(lent[c].size), size),
         arena' = [arena EXCEPT !.offset =
                     arena.offset - AlignUp(lent[c].size) + AlignUp(size)],
         lent' = [lent EXCEPT ![c] = Kept(lent[c], lent[c].ptr, size)],
         UNCHANGED <<cell, owed>>
  PROVE  IInv'
<1>1. /\ ArenaOK(arena, cell) /\ LentOK(lent, arena, cell)
      /\ owed = [ctx |-> 1, data |-> arena.cap, obj |-> 1]
  BY LiveState
<1>2. PICK m, o \in Nat : arena = [cap |-> m, offset |-> o]
  BY <1>1 DEF ArenaOK, Arenas
<1>3. cell \in [0 .. m - 1 -> Values] /\ o <= m /\ m <= SizeMax
  BY <1>1, <1>2 DEF ArenaOK
<1>4. PICK old : old = lent[c]
  OBVIOUS
<1>5. IsBlock(old) /\ Multiple(old.ptr) /\ Intact(old, cell)
  BY <1>1, <1>4 DEF LentOK, Placed
<1>6. PICK p, s \in Nat : p = old.ptr /\ s = old.size
  BY <1>5, BlockFacts
<1>7. /\ s > 0 /\ old.words \in [1 .. s -> Values]
      /\ AlignUp(s) \in Nat /\ EndOf(old) = p + AlignUp(s)
  BY <1>4, <1>5, <1>6, BlockFacts DEF Holds
<1>8. PICK u \in Nat : u = AlignUp(size) /\ u >= size /\ Multiple(u)
  BY RoundingUp
<1>9. o = p + AlignUp(s) /\ o - AlignUp(s) = p
  BY <1>2, <1>4, <1>6, <1>7 DEF IsLast
<1>10. p + u <= m
  BY <1>2, <1>4, <1>6, <1>8, <1>9 DEF Fits
<1>11. PICK b : b = [cap |-> m, offset |-> p + u]
  OBVIOUS
<1>12. arena' = b
  BY <1>2, <1>4, <1>6, <1>8, <1>9, <1>11
<1>13. ArenaOK(b, cell)
  <2>1. Multiple(p + u)
    BY <1>5, <1>6, <1>8, SumOfMultiples
  <2>2. b.cap = m /\ b.offset = p + u /\ b \in Arenas
    BY <1>11 DEF Arenas
  <2>3. QED
    BY <1>3, <1>10, <2>1, <2>2 DEF ArenaOK
<1>14. PICK w : w = [k \in 1 .. size |->
                       IF k <= Common(old, size) THEN old.words[k] ELSE cell[p + k - 1]]
  OBVIOUS
<1>15. w \in [1 .. size -> Values] /\ \A k \in 1 .. size : cell[p + k - 1] = w[k]
  <2>1. ASSUME NEW k \in 1 .. size
        PROVE  w[k] \in Values /\ cell[p + k - 1] = w[k]
    <3>1. p + k - 1 \in 0 .. m - 1
      BY <1>8, <1>10
    <3>2. cell[p + k - 1] \in Values
      BY <1>3, <3>1
    <3>3. k <= Common(old, size) => k \in 1 .. s
      BY <1>6 DEF Common
    <3>4. k \in 1 .. s => cell[p + k - 1] = old.words[k]
      BY <1>5, <1>6 DEF Intact
    <3>5. QED
      BY <1>14, <3>2, <3>3, <3>4
  <2>2. QED
    BY <1>14, <2>1
<1>16. PICK x : x = [ptr |-> p, size |-> size, words |-> w]
  OBVIOUS
<1>17. x.ptr = p /\ x.size = size /\ x.words = w
  BY <1>16
<1>18. IsBlock(x)
  BY <1>15, <1>16, ABlock
<1>19. EndOf(x) = b.offset
  BY <1>8, <1>11, <1>17 DEF EndOf
<1>20. Intact(x, cell)
  BY <1>15, <1>17 DEF Intact
<1>21. ASSUME NEW e \in Owners, e # c, lent[e].size > 0
       PROVE  EndOf(lent[e]) <= x.ptr
  <2>1. PICK y : y = lent[e]
    OBVIOUS
  <2>2. IsBlock(y) /\ EndOf(y) <= o /\ Apart(old, y)
    BY <1>1, <1>2, <1>4, <1>21, <2>1 DEF LentOK, Placed
  <2>3. /\ y.ptr \in Nat /\ y.size \in Nat /\ EndOf(y) \in Nat
        /\ EndOf(y) = y.ptr + AlignUp(y.size) /\ AlignUp(y.size) \in Nat
        /\ AlignUp(y.size) >= y.size
    BY <2>2, BlockFacts
  <2>4. EndOf(old) <= y.ptr \/ EndOf(y) <= old.ptr
    BY <1>6, <1>7, <1>21, <2>1, <2>2 DEF Apart
  <2>5. QED
    BY SMTT(40), <1>6, <1>7, <1>9, <1>17, <1>21, <2>1, <2>2, <2>3, <2>4
<1>22. LentOK([lent EXCEPT ![c] = x], b, cell)
  <2>1. Multiple(x.ptr)
    BY <1>5, <1>6, <1>17
  <2>2. QED
    BY <1>1, <1>18, <1>19, <1>20, <1>21, <2>1, TopBlock
<1>23. lent' = [lent EXCEPT ![c] = x]
  BY <1>4, <1>6, <1>14, <1>16 DEF Kept
<1>24. owed' = [ctx |-> 1, data |-> arena'.cap, obj |-> 1]
  BY <1>1, <1>2, <1>11, <1>12
<1>25. QED
  BY <1>12, <1>13, <1>22, <1>23, <1>24, LiveStep

(* A block that moved behind all others.                                   *)
LEMMA ReallocMoved ==
  ASSUME IInv, NEW c \in Owners, NEW size \in Nat, Holds(c), Alive, ~Refused(size),
         arena' = Bumped(size),
         cell' = Carried(lent[c], size),
         lent' = [lent EXCEPT ![c] = Kept(lent[c], arena.offset, size)],
         UNCHANGED owed
  PROVE  IInv'
<1>1. /\ ArenaOK(arena, cell) /\ LentOK(lent, arena, cell)
      /\ owed = [ctx |-> 1, data |-> arena.cap, obj |-> 1]
  BY LiveState
<1>2. PICK m, o \in Nat : arena = [cap |-> m, offset |-> o]
  BY <1>1 DEF ArenaOK, Arenas
<1>3. cell \in [0 .. m - 1 -> Values] /\ o <= m
  BY <1>1, <1>2 DEF ArenaOK
<1>4. PICK old : old = lent[c]
  OBVIOUS
<1>5. IsBlock(old) /\ Intact(old, cell) /\ old.size > 0 => EndOf(old) <= o
  BY <1>1, <1>2, <1>4 DEF LentOK, Placed
<1>6. IsBlock(old) /\ Intact(old, cell)
  BY <1>1, <1>4 DEF LentOK
<1>7. PICK p, s \in Nat : p = old.ptr /\ s = old.size
  BY <1>6, BlockFacts
<1>8. old.words \in [1 .. s -> Values] /\ \A k \in 1 .. s : cell[p + k - 1] = old.words[k]
  BY <1>6, <1>7, BlockFacts DEF Intact
<1>9. PICK n \in Nat : n = Common(old, size) /\ n <= s /\ n <= size
  BY <1>7 DEF Common
<1>10. size > 0 /\ o + size <= m
  BY <1>1, <1>2, <1>3, BumpedArena
<1>11. PICK f : f = [k \in 1 .. s |-> cell[p + k - 1]]
  OBVIOUS
<1>12. \A k \in 1 .. n : f[k] \in Values /\ f[k] = old.words[k]
  <2>1. SUFFICES ASSUME NEW k \in 1 .. n
                 PROVE  f[k] \in Values /\ f[k] = old.words[k]
    OBVIOUS
  <2>2. k \in 1 .. s
    BY <1>9
  <2>3. QED
    BY <1>8, <1>11, <2>2
<1>13. PICK after : after = Stored(o, f, n)
  OBVIOUS
<1>14. /\ after \in [0 .. m - 1 -> Values]
       /\ \A k \in 1 .. n : after[o + k - 1] = f[k]
       /\ \A i \in 0 .. m - 1 : i < o \/ i >= o + n => after[i] = cell[i]
  <2>1. o + n <= m
    BY <1>9, <1>10
  <2>2. QED
    BY SMTT(40), <1>3, <1>12, <1>13, <2>1, StoredCells
<1>15. PICK w : w = [k \in 1 .. size |->
                       IF k <= Common(old, size) THEN old.words[k] ELSE cell[o + k - 1]]
  OBVIOUS
<1>16. w \in [1 .. size -> Values] /\ \A k \in 1 .. size : after[o + k - 1] = w[k]
  <2>1. ASSUME NEW k \in 1 .. size
        PROVE  w[k] \in Values /\ after[o + k - 1] = w[k]
    <3>1. PICK i \in 0 .. m - 1 : i = o + k - 1
      BY <1>10
    <3>2. CASE k <= n
      BY <1>9, <1>12, <1>14, <1>15, <3>2
    <3>3. CASE k > n
      <4>1. i >= o + n
        BY <3>1, <3>3
      <4>2. after[i] = cell[i] /\ cell[i] \in Values
        BY <1>3, <1>14, <4>1
      <4>3. QED
        BY <1>9, <1>15, <3>1, <3>3, <4>2
    <3>4. QED
      BY <3>2, <3>3
  <2>2. QED
    BY <1>15, <2>1
<1>17. /\ after \in [0 .. arena.cap - 1 -> Values]
       /\ \A k \in 1 .. size : after[arena.offset + k - 1] = w[k]
       /\ \A i \in 0 .. arena.cap - 1 : i < arena.offset => after[i] = cell[i]
  BY <1>2, <1>14, <1>16
<1>18. ArenaOK(Bumped(size), after)
       /\ Bumped(size) = [cap |-> arena.cap, offset |-> arena.offset + AlignUp(size)]
  BY <1>1, <1>17, BumpedArena
<1>19. LentOK([lent EXCEPT ![c] = [ptr |-> arena.offset, size |-> size, words |-> w]],
              Bumped(size), after)
  BY <1>1, <1>16, <1>17, BumpedLent
<1>20. /\ cell' = after
       /\ lent' = [lent EXCEPT ![c] = [ptr |-> arena.offset, size |-> size, words |-> w]]
  BY <1>2, <1>4, <1>7, <1>9, <1>11, <1>13, <1>15 DEF Kept, Carried
<1>21. owed' = [ctx |-> 1, data |-> arena'.cap, obj |-> 1]
  BY <1>1, <1>18
<1>22. QED
  BY <1>18, <1>19, <1>20, <1>21, LiveStep

(* arena_realloc: refused, a deallocation, in place or moved.              *)
LEMMA ReallocOK ==
  ASSUME IInv, NEW c \in Owners, NEW size \in Nat, Realloc(c, size)
  PROVE  IInv'
<1>1. Alive /\ Holds(c)
  BY DEF Realloc
<1>2. CASE UNCHANGED vars
  BY <1>2, NothingChanges
<1>3. CASE Dealloc(c)
  BY <1>3, DeallocOK
<1>4. CASE /\ size > 0 /\ IsLast(lent[c].ptr, lent[c].size)
           /\ Fits(arena.offset - AlignUp(lent[c].size), size)
           /\ ~UNCHANGED vars
  <2>1. /\ arena' = [arena EXCEPT !.offset =
                       arena.offset - AlignUp(lent[c].size) + AlignUp(size)]
        /\ lent' = [lent EXCEPT ![c] = Kept(lent[c], lent[c].ptr, size)]
        /\ UNCHANGED <<cell, owed>>
    BY <1>4 DEF Realloc
  <2>2. QED
    BY <1>1, <1>4, <2>1, ReallocInPlace
<1>5. CASE /\ size > 0 /\ ~IsLast(lent[c].ptr, lent[c].size) /\ ~Refused(size)
  <2>1. /\ arena' = Bumped(size)
        /\ cell' = Carried(lent[c], size)
        /\ lent' = [lent EXCEPT ![c] = Kept(lent[c], arena.offset, size)]
        /\ UNCHANGED owed
    BY <1>5 DEF Realloc
  <2>2. QED
    BY <1>1, <1>5, <2>1, ReallocMoved
<1>6. QED
  BY <1>2, <1>3, <1>4, <1>5 DEF Realloc

(* An owner writes its own words and nobody else's.                        *)
LEMMA ClientWriteOK ==
  ASSUME IInv, NEW c \in Owners, NEW k \in Int, NEW v \in Words, ClientWrite(c, k, v)
  PROVE  IInv'
<1>1. /\ ArenaOK(arena, cell) /\ LentOK(lent, arena, cell)
      /\ owed = [ctx |-> 1, data |-> arena.cap, obj |-> 1]
  BY LiveState DEF ClientWrite
<1>2. PICK m, o \in Nat : arena = [cap |-> m, offset |-> o]
  BY <1>1 DEF ArenaOK, Arenas
<1>3. cell \in [0 .. m - 1 -> Values] /\ o <= m
  BY <1>1, <1>2 DEF ArenaOK
<1>4. PICK old : old = lent[c]
  OBVIOUS
<1>5. IsBlock(old) /\ Multiple(old.ptr) /\ Intact(old, cell)
      /\ (old.size > 0 => EndOf(old) <= o)
  BY <1>1, <1>2, <1>4 DEF LentOK, Placed
<1>6. PICK p, s \in Nat : p = old.ptr /\ s = old.size
  BY <1>5, BlockFacts
<1>7. PICK w \in [1 .. s -> Values] : w = old.words
  BY <1>5, <1>6, BlockFacts
<1>8. old = [ptr |-> p, size |-> s, words |-> w]
  BY <1>5, <1>6, <1>7, BlockFacts
<1>9. /\ AlignUp(s) \in Nat /\ AlignUp(s) >= s
      /\ EndOf(old) \in Nat /\ EndOf(old) = p + AlignUp(s)
  BY <1>5, <1>6, BlockFacts
<1>10. k \in 1 .. s
  BY <1>4, <1>6 DEF ClientWrite
<1>11. PICK i \in 0 .. m - 1 : i = p + k - 1
  BY <1>3, <1>5, <1>6, <1>9, <1>10
<1>12. PICK after : after = [cell EXCEPT ![i] = v]
  OBVIOUS
<1>13. /\ after \in [0 .. m - 1 -> Values] /\ after[i] = v
       /\ \A j \in 0 .. m - 1 : j # i => after[j] = cell[j]
  BY <1>3, <1>12 DEF Values
<1>14. PICK z : z = [w EXCEPT ![k] = v]
  OBVIOUS
<1>15. z \in [1 .. s -> Values] /\ z[k] = v /\ \A j \in 1 .. s : j # k => z[j] = w[j]
  BY <1>10, <1>14 DEF Values
<1>16. PICK x : x = [ptr |-> p, size |-> s, words |-> z]
  OBVIOUS
<1>17. x.ptr = p /\ x.size = s /\ x.words = z
  BY <1>16
<1>18. IsBlock(x)
  BY <1>10, <1>15, <1>16, ABlock
<1>19. Placed(x, o)
  BY <1>5, <1>6, <1>17 DEF Placed, EndOf
<1>20. Intact(x, after)
  <2>1. SUFFICES ASSUME NEW j \in 1 .. s
                 PROVE  after[p + j - 1] = z[j]
    BY <1>17 DEF Intact
  <2>2. CASE j = k
    BY <1>11, <1>13, <1>15, <2>2
  <2>3. CASE j # k
    <3>1. p + j - 1 \in 0 .. m - 1 /\ p + j - 1 # i
      <4>1. s > 0 /\ p + s <= m
        BY SMTT(40), <1>3, <1>5, <1>6, <1>9, <1>10
      <4>2. QED
        BY <1>11, <1>10, <2>3, <4>1
    <3>2. cell[p + j - 1] = w[j]
      BY <1>5, <1>6, <1>7 DEF Intact
    <3>3. QED
      BY <1>13, <1>15, <2>3, <3>1, <3>2
  <2>4. QED
    BY <2>2, <2>3
<1>21. ASSUME NEW e \in Owners, e # c
       PROVE  Placed(lent[e], o) /\ Intact(lent[e], after) /\ Apart(x, lent[e])
  <2>1. PICK y : y = lent[e]
    OBVIOUS
  <2>2. IsBlock(y) /\ Placed(y, o) /\ Intact(y, cell) /\ Apart(old, y)
    BY <1>1, <1>2, <1>4, <1>21, <2>1 DEF LentOK
  <2>3. /\ y.ptr \in Nat /\ y.size \in Nat /\ EndOf(y) \in Nat
        /\ EndOf(y) = y.ptr + AlignUp(y.size) /\ AlignUp(y.size) \in Nat
        /\ AlignUp(y.size) >= y.size
    BY <2>2, BlockFacts
  <2>4. Apart(x, y)
    BY <1>6, <1>17, <2>2 DEF Apart, EndOf
  <2>5. Intact(y, after)
    <3>1. SUFFICES ASSUME NEW j \in 1 .. y.size
                   PROVE  after[y.ptr + j - 1] = y.words[j]
      BY DEF Intact
    <3>2. EndOf(old) <= y.ptr \/ EndOf(y) <= p
      BY <1>6, <1>10, <2>2, <2>3 DEF Apart
    <3>3. EndOf(y) <= o
      BY <2>2, <2>3 DEF Placed
    <3>4. PICK h \in 0 .. m - 1 : h = y.ptr + j - 1
      BY SMTT(40), <1>3, <2>3, <3>3
    <3>5. h # i
      BY SMTT(40), <1>9, <1>10, <1>11, <2>3, <3>2, <3>4
    <3>6. cell[h] = y.words[j]
      BY <2>2, <3>4 DEF Intact
    <3>7. QED
      BY <1>13, <3>4, <3>5, <3>6
  <2>6. QED
    BY <2>1, <2>2, <2>4, <2>5
<1>22. LentOK([lent EXCEPT ![c] = x], arena, after)
  <2>1. arena.offset = o
    BY <1>2
  <2>2. QED
    BY <1>1, <1>18, <1>19, <1>20, <1>21, <2>1, OneBlockChanged
<1>23. ArenaOK(arena, after)
  <2>1. arena.cap = m
    BY <1>2
  <2>2. QED
    BY <1>1, <1>13, <2>1 DEF ArenaOK
<1>24. arena' = arena /\ owed' = owed /\ cell' = after
  BY <1>4, <1>6, <1>11, <1>12 DEF ClientWrite
<1>25. lent' = [lent EXCEPT ![c] = x]
  <2>1. x = [old EXCEPT !.words[k] = v]
    <3>1. PICK e : e = [old EXCEPT !.words[k] = v]
      OBVIOUS
    <3>2. e = [ptr |-> e.ptr, size |-> e.size, words |-> e.words]
      BY <1>8, <3>1
    <3>3. e.ptr = p /\ e.size = s /\ e.words = z
      BY <1>8, <1>14, <3>1
    <3>4. QED
      BY <1>16, <3>1, <3>2, <3>3
  <2>2. QED
    BY <1>4, <2>1 DEF ClientWrite
<1>26. QED
  BY <1>1, <1>22, <1>23, <1>24, <1>25, LiveStep

(* Every step.                                                             *)
LEMMA StepOK ==
  ASSUME IInv, [Next]_vars
  PROVE  IInv'
<1>1. CASE UNCHANGED vars
  BY <1>1, NothingChanges
<1>2. CASE \E cap \in Caps, granted \in 0 .. 3 : New(cap, granted)
  BY <1>2, NewOK
<1>3. CASE Drop
  BY <1>3, DropOK
<1>4. CASE Reset
  BY <1>4, ResetOK
<1>5. ASSUME NEW c \in Owners, NEW size \in Sizes, Alloc(c, size) \/ Realloc(c, size)
      PROVE  IInv'
  <2>1. size \in Nat
    BY ArenaAssumption
  <2>2. QED
    BY <1>5, <2>1, AllocOK, ReallocOK
<1>6. ASSUME NEW c \in Owners, NEW size \in Sizes, NEW num \in Counts, Calloc(c, num, size)
      PROVE  IInv'
  <2>1. size \in Nat /\ num \in Nat
    BY ArenaAssumption
  <2>2. QED
    BY <1>6, <2>1, CallocOK
<1>7. ASSUME NEW c \in Owners, Dealloc(c)
      PROVE  IInv'
  BY <1>7, DeallocOK
<1>8. ASSUME NEW c \in Owners, NEW k \in WordIds(c), NEW v \in Words, ClientWrite(c, k, v)
      PROVE  IInv'
  <2>1. k \in Int
    BY DEF WordIds
  <2>2. QED
    BY <1>8, <2>1, ClientWriteOK
<1>9. QED
  BY <1>1, <1>2, <1>3, <1>4, <1>5, <1>6, <1>7, <1>8 DEF Next

(* The arena fits its block and the blocks it lent fit the arena, always.  *)
THEOREM AlwaysOK == Spec => []IInv
<1>1. Init => IInv
  BY InitOK
<1>2. IInv /\ [Next]_vars => IInv'
  BY StepOK
<1>3. QED
  BY <1>1, <1>2, PTL DEF Spec

-----------------------------------------------------------------------------
(* What it implies.                                                        *)

(* What is known of an owner's pointer, whether there is an arena or not.  *)
LEMMA OwnerFacts ==
  ASSUME IInv, NEW c \in Owners
  PROVE  /\ IsBlock(lent[c]) /\ Multiple(lent[c].ptr)
         /\ Holds(c) => Alive
         /\ lent = [e \in Owners |-> lent[e]]
<1>1. CASE Alive
  BY <1>1, LiveState DEF LentOK, Placed
<1>2. CASE ~Alive
  BY <1>2, NowhereFacts DEF IInv, Holds
<1>3. QED
  BY <1>1, <1>2

(* arena.h: an offset within the capacity, blocks within it, and words of  *)
(* the kinds that can be there.                                            *)
THEOREM TypeCorrect == Spec => []TypeOK
<1>1. IInv => TypeOK
  <2>1. SUFFICES ASSUME IInv
                 PROVE  TypeOK
    OBVIOUS
  <2>2. ASSUME Alive
        PROVE  ArenaTypeOK
    BY <2>1, <2>2, LiveState DEF ArenaOK, ArenaTypeOK
  <2>3. lent = [c \in Owners |-> lent[c]]
    BY <2>1, LiveState DEF IInv, LentOK
  <2>4. ASSUME NEW c \in Owners
        PROVE  \E p, s \in 0 .. SizeMax :
                 lent[c] \in [ptr : {p}, size : {s}, words : [1 .. s -> Values]]
    <3>1. IsBlock(lent[c]) /\ (Holds(c) => Alive)
      BY <2>1, OwnerFacts
    <3>2. PICK p, s \in Nat :
            /\ lent[c] \in [ptr : {p}, size : {s}, words : [1 .. s -> Values]]
            /\ s = 0 => p = 0
      BY <3>1 DEF IsBlock
    <3>3. lent[c].ptr = p /\ lent[c].size = s
      BY <3>2
    <3>4. p <= SizeMax /\ s <= SizeMax
      <4>1. CASE s = 0
        BY <3>2, <4>1, ArenaAssumption
      <4>2. CASE s # 0
        <5>1. PICK m, o \in Nat : arena.cap = m /\ arena.offset = o /\ o <= m /\ m <= SizeMax
          BY <2>1, <3>1, <3>3, <4>2, LiveState DEF Holds
        <5>2. EndOf(lent[c]) <= o
          BY <2>1, <3>1, <3>3, <4>2, <5>1, LiveState DEF Holds, LentOK, Placed
        <5>3. AlignUp(s) \in Nat /\ AlignUp(s) >= s
          BY RoundingUp
        <5>4. EndOf(lent[c]) = p + AlignUp(s)
          BY <3>3 DEF EndOf
        <5>5. QED
          BY <5>1, <5>2, <5>3, <5>4, ArenaAssumption
      <4>3. QED
        BY <4>1, <4>2
    <3>5. p \in 0 .. SizeMax /\ s \in 0 .. SizeMax
      BY <3>4, ArenaAssumption
    <3>6. QED
      BY <3>2, <3>5
  <2>5. owed \in [ctx : Nat, data : Nat, obj : Nat]
    <3>1. CASE Alive
      BY <2>1, <3>1, LiveState
    <3>2. CASE ~Alive
      BY <2>1, <3>2 DEF IInv, ParentIsSquare, NothingOwed
    <3>3. QED
      BY <3>1, <3>2
  <2>6. QED
    BY <2>2, <2>3, <2>4, <2>5 DEF TypeOK
<1>2. QED
  BY <1>1, AlwaysOK, PTL

(* arena_alloc and arena_realloc: no two blocks overlap, and none reaches  *)
(* into the free tail.                                                     *)
THEOREM BlocksNeverOverlap == Spec => []BlocksApart
<1>1. IInv => BlocksApart
  <2>1. SUFFICES ASSUME IInv
                 PROVE  BlocksApart
    OBVIOUS
  <2>2. ASSUME NEW c \in Owners, Holds(c)
        PROVE  /\ Alive
               /\ lent[c].ptr + AlignUp(lent[c].size) <= arena.offset
    <3>1. Alive /\ IsBlock(lent[c])
      BY <2>1, <2>2, OwnerFacts
    <3>2. lent[c].size \in Nat
      BY <3>1, BlockFacts
    <3>3. EndOf(lent[c]) <= arena.offset
      BY <2>1, <2>2, <3>1, <3>2, LiveState DEF LentOK, Placed, Holds
    <3>4. QED
      BY <3>1, <3>3 DEF EndOf
  <2>3. ASSUME NEW c \in Owners, NEW e \in Owners, c # e, Holds(c), Holds(e)
        PROVE  \/ lent[c].ptr + AlignUp(lent[c].size) <= lent[e].ptr
               \/ lent[e].ptr + AlignUp(lent[e].size) <= lent[c].ptr
    <3>1. Alive /\ IsBlock(lent[c]) /\ IsBlock(lent[e])
      BY <2>1, <2>3, OwnerFacts
    <3>2. lent[c].size > 0 /\ lent[e].size > 0
      BY <2>3, <3>1, BlockFacts DEF Holds
    <3>3. Apart(lent[c], lent[e])
      BY <2>1, <2>3, <3>1, LiveState DEF LentOK
    <3>4. QED
      BY <3>2, <3>3 DEF Apart, EndOf
  <2>4. QED
    BY <2>2, <2>3 DEF BlocksApart
<1>2. QED
  BY <1>1, AlwaysOK, PTL

(* tda_ckd_align_up: every block starts aligned.                           *)
THEOREM BlocksAreAligned == Spec => []StartsAligned
<1>1. IInv => StartsAligned
  <2>1. SUFFICES ASSUME IInv
                 PROVE  StartsAligned
    OBVIOUS
  <2>2. ASSUME NEW c \in Owners
        PROVE  lent[c].ptr % Align = 0
    BY <2>1, OwnerFacts, NoRemainder
  <2>3. ASSUME Alive
        PROVE  arena.offset % Align = 0
    BY <2>1, <2>3, LiveState, NoRemainder DEF ArenaOK
  <2>4. QED
    BY <2>2, <2>3 DEF StartsAligned
<1>2. QED
  BY <1>1, AlwaysOK, PTL

(* arena_realloc: a block keeps what its owner stored in it.               *)
THEOREM WordsAreKept == Spec => []LentBlocksKeepTheirWords
<1>1. IInv => LentBlocksKeepTheirWords
  <2>1. SUFFICES ASSUME IInv, NEW c \in Owners
                 PROVE  \A k \in 1 .. lent[c].size :
                          cell[lent[c].ptr + k - 1] = lent[c].words[k]
    BY DEF LentBlocksKeepTheirWords
  <2>2. CASE Alive
    BY <2>1, <2>2, LiveState DEF LentOK, Intact
  <2>3. CASE ~Alive
    BY <2>1, <2>3, NowhereFacts DEF IInv
  <2>4. QED
    BY <2>2, <2>3
<1>2. QED
  BY <1>1, AlwaysOK, PTL

(* tda_al_arena_new and tda_al_arena_drop: what the parent lent comes back. *)
THEOREM ParentGetsItBack == Spec => []ParentIsSquare
<1>1. IInv => ParentIsSquare
  BY DEF IInv
<1>2. QED
  BY <1>1, AlwaysOK, PTL
=============================================================================
