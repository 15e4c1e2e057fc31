-------------------------- MODULE ContainerProofs ---------------------------
(***************************************************************************)
(* What MCContainers checks of two objects and three blocks, for any       *)
(* number of vecs, arrs, stacks and queues, elems and allocators that      *)
(* refuse whatever they like: the books balance, and vecs, stacks and arrs *)
(* are sequences.                                                          *)
(*                                                                         *)
(* A call exchanges one struct, its block and its header for others. What  *)
(* an exchange is is said of blocks first, then of a struct of either      *)
(* kind; then each operator of Vec, Arr, Stack and PQueue is shown to be   *)
(* one, and to leave the elems its header names; then an exchange at one   *)
(* handle is shown to leave all the others as they were.                   *)
(***************************************************************************)
EXTENDS Containers, FiniteSetTheorems, SequenceTheorems, WellFoundedInduction, TLAPS

-----------------------------------------------------------------------------
(* The allocator's answers, block by block.                                *)

Cells == Vals \cup {Zero, Junk}

(* A memory is a function of blocks and a count of headers.                *)
IsMemory(m) ==
  /\ m = [lent |-> m.lent, hdrs |-> m.hdrs]
  /\ m.lent = [b \in Blocks |-> m.lent[b]]
  /\ m.hdrs \in [Als \X Kinds -> Int]

Lent(a, n, cells) == [al |-> a, bytes |-> n * ElemSize, cells |-> cells]

(* b is a block of n cells that a lent, or no block when there are none.   *)
Claim(b, a, n, m) ==
  /\ a \in Als
  /\ n \in 0 .. SizeMax
  /\ b \in Blocks \cup {Null}
  /\ n = 0 <=> b = Null
  /\ b # Null => \E cells \in [0 .. n - 1 -> Cells] : m.lent[b] = Lent(a, n, cells)

(* The block b was exchanged for c, which was free; all others stand.      *)
Trades(b, m0, c, m) ==
  /\ IsMemory(m)
  /\ {b, c} \subseteq Blocks \cup {Null}
  /\ \A x \in Blocks : x # b /\ x # c => m.lent[x] = m0.lent[x]
  /\ c # b => /\ c # Null => m0.lent[c] = Null
              /\ b # Null => m.lent[b] = Null

(* What a block of n cells takes.                                          *)
LEMMA LentFacts ==
  ASSUME NEW a \in Als, NEW n \in 0 .. SizeMax, NEW cells \in [0 .. n - 1 -> Cells]
  PROVE  /\ n * ElemSize \in Nat /\ n <= n * ElemSize
         /\ n * ElemSize = 0 <=> n = 0
         /\ Lent(a, n, cells) # Null
         /\ Lent(a, n, cells).al = a /\ Lent(a, n, cells).bytes = n * ElemSize
         /\ Lent(a, n, cells).cells = cells
<1>1. n \in Nat
  BY MemoryAssumption
<1>2. PICK e \in Nat : ElemSize = e + 1
  BY VecAssumption
<1>3. n * ElemSize = n * e + n /\ n * e \in Nat
  BY <1>1, <1>2
<1>4. n * ElemSize \in Nat /\ n <= n * ElemSize
  BY <1>1, <1>3
<1>5. n * ElemSize = 0 <=> n = 0
  BY <1>1, <1>3
<1>6. Lent(a, n, cells) \in [al : Als, bytes : Nat, cells : [0 .. n - 1 -> Vals \cup {Zero, Junk}]]
  BY <1>4 DEF Lent, Cells
<1>7. Lent(a, n, cells) # Null
  BY <1>6, ContainersNullAssumption
<1>8. QED
  BY <1>4, <1>5, <1>7 DEF Lent

(* What a claim says of the block it claims.                               *)
LEMMA ClaimFacts ==
  ASSUME NEW m, NEW b, NEW a, NEW n, Claim(b, a, n, m)
  PROVE  /\ a \in Als /\ n \in Nat /\ n <= SizeMax /\ b \in Blocks \cup {Null} /\ (n = 0 <=> b = Null)
         /\ n * ElemSize \in Nat
         /\ b # Null => /\ b \in Blocks /\ n > 0
                        /\ m.lent[b] # Null
                        /\ m.lent[b].al = a /\ m.lent[b].bytes = n * ElemSize
                        /\ m.lent[b].cells \in [0 .. n - 1 -> Cells]
                        /\ m.lent[b] = Lent(a, n, m.lent[b].cells)
<1>1. a \in Als /\ n \in 0 .. SizeMax /\ b \in Blocks \cup {Null} /\ (n = 0 <=> b = Null)
  BY DEF Claim
<1>2. n \in Nat /\ n <= SizeMax
  BY <1>1, MemoryAssumption
<1>3. n * ElemSize \in Nat
  BY <1>2, VecAssumption
<1>4. ASSUME b # Null
      PROVE  /\ b \in Blocks /\ n > 0
             /\ m.lent[b] # Null
             /\ m.lent[b].al = a /\ m.lent[b].bytes = n * ElemSize
             /\ m.lent[b].cells \in [0 .. n - 1 -> Cells]
             /\ m.lent[b] = Lent(a, n, m.lent[b].cells)
  <2>1. PICK cells \in [0 .. n - 1 -> Cells] : m.lent[b] = Lent(a, n, cells)
    BY <1>4 DEF Claim
  <2>2. QED
    BY <1>1, <1>2, <1>4, <2>1, LentFacts
<1>5. QED
  BY <1>1, <1>2, <1>3, <1>4

(* A claim on no cells, and one on a block lent for it.                    *)
LEMMA ClaimMade ==
  ASSUME NEW m, NEW a \in Als
  PROVE  /\ Claim(Null, a, 0, m)
         /\ \A b \in Blocks, n \in 1 .. SizeMax : \A cells \in [0 .. n - 1 -> Cells] :
              m.lent[b] = Lent(a, n, cells) => Claim(b, a, n, m)
<1>1. 0 \in 0 .. SizeMax /\ 1 .. SizeMax \subseteq 0 .. SizeMax /\ \A n \in 1 .. SizeMax : n # 0
  BY MemoryAssumption
<1>2. \A b \in Blocks : b # Null
  BY MemoryAssumption
<1>3. QED
  BY <1>1, <1>2 DEF Claim

(* A claim on a block that stands.                                         *)
LEMMA ClaimStands ==
  ASSUME NEW m, NEW b, NEW a, NEW n, Claim(b, a, n, m), NEW q, b # Null => q.lent[b] = m.lent[b]
  PROVE  Claim(b, a, n, q)
  BY DEF Claim

(* A block is lent that was free.                                          *)
LEMMA Lending ==
  ASSUME NEW m, IsMemory(m), FreeOf(m) # {}, NEW a, NEW bytes, NEW cells
  PROVE  LET l == Lend(m, a, bytes, cells)
         IN  /\ l.b \in Blocks /\ l.b # Null /\ m.lent[l.b] = Null
             /\ IsMemory(l.m) /\ l.m.hdrs = m.hdrs
             /\ l.m.lent[l.b] = [al |-> a, bytes |-> bytes, cells |-> cells]
             /\ \A c \in Blocks : c # l.b => l.m.lent[c] = m.lent[c]
<1>1. PICK b : b = Lends[FreeOf(m)]
  OBVIOUS
<1>2. b \in FreeOf(m)
  BY <1>1, MemoryAssumption DEF FreeOf
<1>3. b \in Blocks /\ b # Null /\ m.lent[b] = Null
  BY <1>2, MemoryAssumption DEF FreeOf
<1>4. PICK rec : rec = [al |-> a, bytes |-> bytes, cells |-> cells]
  OBVIOUS
<1>5. PICK K : K = [m.lent EXCEPT ![b] = rec]
  OBVIOUS
<1>6. K = [c \in Blocks |-> K[c]] /\ K[b] = rec /\ \A c \in Blocks : c # b => K[c] = m.lent[c]
  BY <1>3, <1>5 DEF IsMemory
<1>7. PICK q : q = [m EXCEPT !.lent[b] = rec]
  OBVIOUS
<1>8. q = [lent |-> K, hdrs |-> m.hdrs]
  BY <1>5, <1>7 DEF IsMemory
<1>9. q.lent = K /\ q.hdrs = m.hdrs /\ q = [lent |-> q.lent, hdrs |-> q.hdrs]
  BY <1>8
<1>10. IsMemory(q)
  BY <1>6, <1>9 DEF IsMemory
<1>11. Lend(m, a, bytes, cells) = [b |-> b, m |-> q]
  BY <1>1, <1>4, <1>7 DEF Lend, Answer
<1>12. QED
  BY <1>3, <1>4, <1>6, <1>9, <1>10, <1>11

(* A claimed block goes back; of null, nothing happens.                    *)
LEMMA GivingBack ==
  ASSUME NEW m, IsMemory(m), NEW b, NEW a, NEW n, Claim(b, a, n, m)
  PROVE  LET g == GiveBack(m, b, a, n * ElemSize)
         IN  /\ IsMemory(g) /\ g.hdrs = m.hdrs
             /\ b # Null => g.lent[b] = Null
             /\ \A c \in Blocks : c # b => g.lent[c] = m.lent[c]
<1>1. CASE b = Null
  BY <1>1 DEF GiveBack
<1>2. CASE b # Null
  <2>1. /\ b \in Blocks /\ m.lent[b] # Null
        /\ m.lent[b].al = a /\ m.lent[b].bytes = n * ElemSize
    BY <1>2, ClaimFacts
  <2>2. PICK K : K = [m.lent EXCEPT ![b] = Null]
    OBVIOUS
  <2>3. K = [c \in Blocks |-> K[c]] /\ K[b] = Null /\ \A c \in Blocks : c # b => K[c] = m.lent[c]
    BY <2>1, <2>2 DEF IsMemory
  <2>4. PICK q : q = [m EXCEPT !.lent[b] = Null]
    OBVIOUS
  <2>5. q = [lent |-> K, hdrs |-> m.hdrs]
    BY <2>2, <2>4 DEF IsMemory
  <2>6. q.lent = K /\ q.hdrs = m.hdrs /\ q = [lent |-> q.lent, hdrs |-> q.hdrs]
    BY <2>5
  <2>7. IsMemory(q)
    BY <2>3, <2>6 DEF IsMemory
  <2>8. GiveBack(m, b, a, n * ElemSize) = q
    BY <1>2, <2>1, <2>4 DEF GiveBack
  <2>9. QED
    BY <2>3, <2>6, <2>7, <2>8
<1>3. QED
  BY <1>1, <1>2

(* One exchange after another is one.                                      *)
LEMMA TradesFollow ==
  ASSUME NEW b, NEW m0, NEW c, NEW m1, Trades(b, m0, c, m1), NEW e, NEW m2, Trades(c, m1, e, m2)
  PROVE  Trades(b, m0, e, m2)
<1>1. IsMemory(m2) /\ {b, e} \subseteq Blocks \cup {Null} /\ c \in Blocks \cup {Null}
  BY DEF Trades
<1>2. \A x \in Blocks : x # Null
  BY MemoryAssumption
<1>3. ASSUME NEW x \in Blocks, x # b, x # e
      PROVE  m2.lent[x] = m0.lent[x]
  BY <1>2, <1>3 DEF Trades
<1>4. ASSUME e # b, e # Null
      PROVE  m0.lent[e] = Null
  BY <1>1, <1>4 DEF Trades
<1>5. ASSUME e # b, b # Null
      PROVE  m2.lent[b] = Null
  BY <1>1, <1>5 DEF Trades
<1>6. QED
  BY <1>1, <1>3, <1>4, <1>5 DEF Trades

(* A block taken, and then one that was held before it given back.         *)
LEMMA TradesCross ==
  ASSUME NEW b, NEW m0, NEW c, NEW m1, Trades(Null, m0, c, m1), NEW m2, Trades(b, m1, Null, m2),
         b # Null => m0.lent[b] # Null
  PROVE  Trades(b, m0, c, m2) /\ (c # Null => m2.lent[c] = m1.lent[c])
<1>1. IsMemory(m2) /\ {b, c} \subseteq Blocks \cup {Null}
  BY DEF Trades
<1>2. \A x \in Blocks : x # Null
  BY MemoryAssumption
<1>3. c # Null => c # b /\ m0.lent[c] = Null
  BY DEF Trades
<1>4. ASSUME NEW x \in Blocks, x # b, x # c
      PROVE  m2.lent[x] = m0.lent[x]
  BY <1>2, <1>4 DEF Trades
<1>5. b # Null => m2.lent[b] = Null
  BY DEF Trades
<1>6. c # Null => m2.lent[c] = m1.lent[c]
  BY <1>1, <1>2, <1>3 DEF Trades
<1>7. QED
  BY <1>1, <1>3, <1>4, <1>5, <1>6 DEF Trades

(* What a realloc leaves in a block of n cells.                            *)
Carried(kept, n) == [i \in 0 .. n - 1 |-> IF i \in DOMAIN kept THEN kept[i] ELSE Junk]

(* tda_realloc of a claimed block to another size: refused, or exchanged   *)
(* for one that begins with the same cells.                                *)
LEMMA Reallocated ==
  ASSUME NEW m, IsMemory(m), NEW b, NEW a, NEW k, Claim(b, a, k, m), NEW n \in 0 .. SizeMax, NEW room,
         NEW kept, kept = IF b = Null THEN Raw(0) ELSE m.lent[b].cells
  PROVE  LET new == Realloc(m, b, k * ElemSize, a, n, ElemSize, room)
         IN  \/ n > 0 /\ new.b = Null /\ new.m = m
             \/ /\ (n > 0) = (new.b # Null)
                /\ Trades(b, m, new.b, new.m) /\ new.m.hdrs = m.hdrs
                /\ Claim(new.b, a, n, new.m)
                /\ n > 0 => new.m.lent[new.b].cells = Carried(kept, n)
<1>1. PICK new : new = Realloc(m, b, k * ElemSize, a, n, ElemSize, room)
  OBVIOUS
<1>2. PICK cells : cells = Carried(kept, n)
  OBVIOUS
<1>3. PICK l : l = Lend(m, a, n * ElemSize, cells)
  OBVIOUS
<1>4. new = IF n * ElemSize = 0 THEN Answer(Null, GiveBack(m, b, a, k * ElemSize))
            ELSE IF ~Granted(m, n * ElemSize, room) THEN Answer(Null, m)
            ELSE Answer(l.b, GiveBack(l.m, b, a, k * ElemSize))
  BY <1>1, <1>2, <1>3, Zenon DEF Realloc, Carried
<1>5. /\ a \in Als /\ k \in Nat /\ b \in Blocks \cup {Null} /\ (k = 0 <=> b = Null)
      /\ b # Null => b \in Blocks /\ m.lent[b] # Null
  BY ClaimFacts
<1>6. n \in Nat
  BY MemoryAssumption
<1>7. kept \in [0 .. k - 1 -> Cells]
  <2>1. CASE b = Null
    <3>1. kept = [i \in 0 .. k - 1 |-> Junk]
      BY <1>5, <2>1 DEF Raw
    <3>2. QED
      BY <3>1 DEF Cells
  <2>2. CASE b # Null
    BY <2>2, ClaimFacts
  <2>3. QED
    BY <2>1, <2>2
<1>8. cells \in [0 .. n - 1 -> Cells]
  BY <1>2, <1>6, <1>7 DEF Carried, Cells
<1>9. n * ElemSize = 0 <=> n = 0
  BY <1>5, <1>8, LentFacts
<1>10. CASE n = 0
  <2>1. new.b = Null /\ new.m = GiveBack(m, b, a, k * ElemSize)
    BY <1>4, <1>9, <1>10 DEF Answer
  <2>2. /\ IsMemory(new.m) /\ new.m.hdrs = m.hdrs
        /\ b # Null => new.m.lent[b] = Null
        /\ \A c \in Blocks : c # b => new.m.lent[c] = m.lent[c]
    BY <2>1, GivingBack
  <2>3. Trades(b, m, new.b, new.m)
    BY <1>5, <2>1, <2>2 DEF Trades
  <2>4. Claim(new.b, a, n, new.m)
    BY <1>5, <1>10, <2>1, ClaimMade
  <2>5. QED
    BY <1>1, <1>10, <2>1, <2>2, <2>3, <2>4
<1>11. CASE n # 0 /\ ~Granted(m, n * ElemSize, room)
  <2>1. new.b = Null /\ new.m = m
    BY <1>4, <1>9, <1>11 DEF Answer
  <2>2. QED
    BY <1>1, <1>6, <1>11, <2>1
<1>12. CASE n # 0 /\ Granted(m, n * ElemSize, room)
  <2>1. new.b = l.b /\ new.m = GiveBack(l.m, b, a, k * ElemSize)
    BY <1>4, <1>9, <1>12 DEF Answer
  <2>2. FreeOf(m) # {}
    BY <1>12 DEF Granted
  <2>3. /\ l.b \in Blocks /\ l.b # Null /\ m.lent[l.b] = Null
        /\ IsMemory(l.m) /\ l.m.hdrs = m.hdrs
        /\ l.m.lent[l.b] = Lent(a, n, cells)
        /\ \A c \in Blocks : c # l.b => l.m.lent[c] = m.lent[c]
    BY <1>3, <2>2, Lending DEF Lent
  <2>4. b # Null => b # l.b
    BY <1>5, <2>3
  <2>5. Claim(b, a, k, l.m)
    BY <1>5, <2>3, <2>4, ClaimStands
  <2>6. /\ IsMemory(new.m) /\ new.m.hdrs = l.m.hdrs
        /\ b # Null => new.m.lent[b] = Null
        /\ \A c \in Blocks : c # b => new.m.lent[c] = l.m.lent[c]
    BY <2>1, <2>3, <2>5, GivingBack
  <2>7. new.m.lent[new.b] = Lent(a, n, cells)
    BY <2>1, <2>3, <2>4, <2>6
  <2>8. Trades(b, m, new.b, new.m)
    BY <1>5, <2>1, <2>3, <2>4, <2>6 DEF Trades
  <2>9. n \in 1 .. SizeMax
    BY <1>6, <1>12
  <2>10. Claim(new.b, a, n, new.m)
    BY <1>5, <1>8, <2>1, <2>3, <2>7, <2>9, ClaimMade
  <2>11. new.m.lent[new.b].cells = cells
    BY <2>7 DEF Lent
  <2>12. QED
    BY <1>1, <1>2, <1>6, <1>12, <2>1, <2>3, <2>6, <2>8, <2>10, <2>11
<1>13. QED
  BY <1>10, <1>11, <1>12

-----------------------------------------------------------------------------
(* The structs, and what one of them is exchanged for.                     *)

(* The cells a struct's block has.                                         *)
RoomOf(kind, d) == IF kind = "arr" THEN d.len ELSE d.cap

(* A struct of either kind over a block of its own.                        *)
StructOK(kind, d, m) ==
  /\ d \in IF kind = "arr" THEN Arrs ELSE Vecs
  /\ d.len <= RoomOf(kind, d)
  /\ Claim(d.data, d.al, RoomOf(kind, d), m)

Blk(x)           == IF x = Null THEN Null ELSE x.data
Owes(x, K, a, k) == IF x # Null /\ x.al = a /\ k \in K THEN 1 ELSE 0
Hdrs(m, a, k)    == m.hdrs[<<a, k>>]

(* The headers K of y came and the headers J of x went.                    *)
Pays(x, J, m0, y, K, m) ==
  \A a \in Als, k \in ObjectKinds : Hdrs(m, a, k) = Hdrs(m0, a, k) + Owes(y, K, a, k) - Owes(x, J, a, k)

(* What stood at an owner, Null where there is no object, is exchanged for *)
(* what stands there now.                                                  *)
Exchanges(kind, x, J, m0, y, K, m) ==
  /\ Trades(Blk(x), m0, Blk(y), m)
  /\ Pays(x, J, m0, y, K, m)
  /\ y # Null => StructOK(kind, y, m)

(* A call on a live object that keeps its allocator and its headers.       *)
Turns(kind, d, m, e, q) ==
  /\ StructOK(kind, e, q)
  /\ e.al = d.al
  /\ Trades(d.data, m, e.data, q)
  /\ q.hdrs = m.hdrs

(* What a struct of either kind is.                                        *)
LEMMA StructFacts ==
  ASSUME NEW kind, NEW d, NEW m, StructOK(kind, d, m)
  PROVE  /\ d # Null /\ d.data \in Blocks \cup {Null} /\ d.al \in Als /\ d.len \in Nat
         /\ d \in IF kind = "arr" THEN Arrs ELSE Vecs
         /\ RoomOf(kind, d) \in Nat /\ RoomOf(kind, d) <= SizeMax
         /\ d.len <= RoomOf(kind, d)
         /\ Claim(d.data, d.al, RoomOf(kind, d), m)
         /\ Blk(d) = d.data
         /\ d.data # Null => d.data \in Blocks /\ m.lent[d.data] # Null
         /\ d.data = Null <=> RoomOf(kind, d) = 0
<1>1. d \in Arrs \cup Vecs
  BY DEF StructOK
<1>2. d # Null /\ Blk(d) = d.data
  BY <1>1, ContainersNullAssumption DEF Blk
<1>3. d.data \in Blocks \cup {Null} /\ d.al \in Als /\ d.len \in Nat
  BY <1>1 DEF Arrs, Vecs
<1>4. d.len <= RoomOf(kind, d) /\ Claim(d.data, d.al, RoomOf(kind, d), m)
  BY DEF StructOK
<1>5. /\ RoomOf(kind, d) \in Nat /\ RoomOf(kind, d) <= SizeMax
      /\ d.data # Null => d.data \in Blocks /\ m.lent[d.data] # Null
      /\ d.data = Null <=> RoomOf(kind, d) = 0
  BY <1>4, ClaimFacts
<1>6. QED
  BY <1>2, <1>3, <1>4, <1>5 DEF StructOK

(* The cells of a struct.                                                  *)
LEMMA CellsAre ==
  ASSUME NEW kind, NEW d, NEW m, StructOK(kind, d, m)
  PROVE  CellsOf(d, m) \in [0 .. RoomOf(kind, d) - 1 -> Cells]
<1>1. Claim(d.data, d.al, RoomOf(kind, d), m)
  BY DEF StructOK
<1>2. CASE d.data = Null
  <2>1. RoomOf(kind, d) = 0
    BY <1>1, <1>2 DEF Claim
  <2>2. CellsOf(d, m) = [i \in 0 .. RoomOf(kind, d) - 1 |-> Junk]
    BY <1>2, <2>1 DEF CellsOf, Raw
  <2>3. QED
    BY <2>2 DEF Cells
<1>3. CASE d.data # Null
  BY <1>1, <1>3, ClaimFacts DEF CellsOf
<1>4. QED
  BY <1>2, <1>3

(* Headers are counted in whole numbers, of which a struct owes some.      *)
LEMMA HdrsAreInts ==
  ASSUME NEW m, IsMemory(m), NEW a \in Als, NEW k \in ObjectKinds
  PROVE  Hdrs(m, a, k) \in Int /\ <<a, k>> \in Als \X Kinds
<1>1. <<a, k>> \in Als \X Kinds
  BY ContainersAssumption
<1>2. QED
  BY <1>1 DEF IsMemory, Hdrs

(* A struct owes whole numbers of headers.                                 *)
LEMMA OwesAreInts ==
  ASSUME NEW x, NEW K, NEW a, NEW k
  PROVE  Owes(x, K, a, k) \in Int
  BY DEF Owes

(* A struct whose block stands is what it was, and shows what it showed.   *)
LEMMA StructStands ==
  ASSUME NEW kind, NEW d, NEW m, StructOK(kind, d, m),
         NEW q, d.data # Null => q.lent[d.data] = m.lent[d.data]
  PROVE  StructOK(kind, d, q) /\ CellsOf(d, q) = CellsOf(d, m) /\ ToSpan(d, q) = ToSpan(d, m)
<1>1. StructOK(kind, d, q)
  BY ClaimStands DEF StructOK
<1>2. CellsOf(d, q) = CellsOf(d, m)
  BY DEF CellsOf
<1>3. QED
  BY <1>1, <1>2 DEF ToSpan, ElemAt

(* One call after another.                                                 *)
LEMMA ExchangesFollow ==
  ASSUME NEW kind, NEW x, NEW J, NEW m0, IsMemory(m0), NEW y, NEW K, NEW m1,
         Exchanges(kind, x, J, m0, y, K, m1),
         NEW z, NEW L, NEW m2, Exchanges(kind, y, K, m1, z, L, m2)
  PROVE  Exchanges(kind, x, J, m0, z, L, m2)
<1>1. Trades(Blk(x), m0, Blk(z), m2)
  BY TradesFollow DEF Exchanges
<1>2. ASSUME NEW a \in Als, NEW k \in ObjectKinds
      PROVE  Hdrs(m2, a, k) = Hdrs(m0, a, k) + Owes(z, L, a, k) - Owes(x, J, a, k)
  <2>1. Hdrs(m1, a, k) = Hdrs(m0, a, k) + Owes(y, K, a, k) - Owes(x, J, a, k)
    BY DEF Exchanges, Pays
  <2>2. Hdrs(m2, a, k) = Hdrs(m1, a, k) + Owes(z, L, a, k) - Owes(y, K, a, k)
    BY DEF Exchanges, Pays
  <2>3. /\ Hdrs(m0, a, k) \in Int /\ Owes(x, J, a, k) \in Int
        /\ Owes(y, K, a, k) \in Int /\ Owes(z, L, a, k) \in Int
    BY HdrsAreInts, OwesAreInts
  <2>4. QED
    BY <2>1, <2>2, <2>3
<1>3. QED
  BY <1>1, <1>2 DEF Exchanges, Pays

(* One call after another on an object that stays.                         *)
LEMMA TurnsFollow ==
  ASSUME NEW kind, NEW d, NEW m, NEW e, NEW q, Turns(kind, d, m, e, q),
         NEW f, NEW p, Turns(kind, e, q, f, p)
  PROVE  Turns(kind, d, m, f, p)
  BY TradesFollow DEF Turns

(* A call that keeps the headers, whatever they are.                       *)
LEMMA TurnsExchange ==
  ASSUME NEW kind, NEW d, NEW m, IsMemory(m), StructOK(kind, d, m),
         NEW e, NEW q, Turns(kind, d, m, e, q), NEW K
  PROVE  Exchanges(kind, d, K, m, e, K, q) /\ e # Null
<1>1. d # Null /\ e # Null /\ Blk(d) = d.data /\ Blk(e) = e.data /\ e.al = d.al
  BY StructFacts DEF Turns
<1>2. ASSUME NEW a \in Als, NEW k \in ObjectKinds
      PROVE  Hdrs(q, a, k) = Hdrs(m, a, k) + Owes(e, K, a, k) - Owes(d, K, a, k)
  <2>1. Hdrs(q, a, k) = Hdrs(m, a, k) /\ Owes(e, K, a, k) = Owes(d, K, a, k)
    BY <1>1 DEF Turns, Hdrs, Owes
  <2>2. Hdrs(m, a, k) \in Int /\ Owes(d, K, a, k) \in Int
    BY HdrsAreInts, OwesAreInts
  <2>3. QED
    BY <2>1, <2>2
<1>3. QED
  BY <1>1, <1>2 DEF Exchanges, Turns, Pays

(* A struct that is left alone.                                            *)
LEMMA NothingTurns ==
  ASSUME NEW kind, NEW d, NEW m, IsMemory(m), StructOK(kind, d, m)
  PROVE  Turns(kind, d, m, d, m)
  BY StructFacts DEF Turns, Trades

(* The same block under another length.                                    *)
LEMMA LengthTurns ==
  ASSUME NEW d, NEW m, IsMemory(m), StructOK("vec", d, m), NEW n \in 0 .. d.cap
  PROVE  LET e == [d EXCEPT !.len = n]
         IN  /\ Turns("vec", d, m, e, m)
             /\ e.len = n /\ e.cap = d.cap /\ e.al = d.al /\ e.data = d.data
             /\ CellsOf(e, m) = CellsOf(d, m)
<1>1. PICK e : e = [d EXCEPT !.len = n]
  OBVIOUS
<1>2. /\ d \in Vecs /\ d.cap \in Nat /\ RoomOf("vec", d) = d.cap
      /\ d.data \in Blocks \cup {Null} /\ Claim(d.data, d.al, d.cap, m)
  BY StructFacts DEF RoomOf
<1>3. e \in Vecs /\ e.len = n /\ e.cap = d.cap /\ e.al = d.al /\ e.data = d.data
  BY <1>1, <1>2 DEF Vecs
<1>4. StructOK("vec", e, m)
  BY <1>2, <1>3 DEF StructOK, RoomOf
<1>5. Trades(d.data, m, e.data, m)
  BY <1>2, <1>3 DEF Trades
<1>6. CellsOf(e, m) = CellsOf(d, m)
  BY <1>3 DEF CellsOf
<1>7. QED
  BY <1>1, <1>3, <1>4, <1>5, <1>6 DEF Turns

(* The cells of a struct are written: those of its block, and no others.   *)
LEMMA Writing ==
  ASSUME NEW kind, NEW d, NEW m, IsMemory(m), StructOK(kind, d, m),
         NEW u \in [0 .. RoomOf(kind, d) - 1 -> Cells]
  PROVE  Turns(kind, d, m, d, SetCells(d, m, u)) /\ CellsOf(d, SetCells(d, m, u)) = u
<1>1. PICK a, n, b : a = d.al /\ n = RoomOf(kind, d) /\ b = d.data
  OBVIOUS
<1>2. Claim(b, a, n, m)
  BY <1>1 DEF StructOK
<1>3. CASE b = Null
  <2>1. SetCells(d, m, u) = m
    BY <1>1, <1>3 DEF SetCells
  <2>2. n = 0
    BY <1>2, <1>3 DEF Claim
  <2>3. CellsOf(d, m) = u
    <3>1. CellsOf(d, m) = [i \in 0 .. n - 1 |-> Junk] /\ \A i : i \notin 0 .. n - 1
      BY <1>1, <1>3, <2>2 DEF CellsOf, Raw
    <3>2. u = [i \in 0 .. n - 1 |-> u[i]]
      BY <1>1
    <3>3. QED
      BY <3>1, <3>2
  <2>4. QED
    BY <2>1, <2>3, NothingTurns
<1>4. CASE b # Null
  <2>1. /\ b \in Blocks /\ n > 0 /\ n \in Nat /\ n <= SizeMax /\ a \in Als
        /\ m.lent[b] = Lent(a, n, m.lent[b].cells)
    BY <1>2, <1>4, ClaimFacts
  <2>2. PICK rec : rec = Lent(a, n, u)
    OBVIOUS
  <2>3. [m.lent[b] EXCEPT !.cells = u] = rec
    BY <2>1, <2>2 DEF Lent
  <2>4. PICK L : L = [m.lent EXCEPT ![b] = rec]
    OBVIOUS
  <2>5. L = [c \in Blocks |-> L[c]] /\ L[b] = rec /\ \A c \in Blocks : c # b => L[c] = m.lent[c]
    BY <2>1, <2>4 DEF IsMemory
  <2>6. PICK q : q = [m EXCEPT !.lent[b].cells = u]
    OBVIOUS
  <2>7. q = [m EXCEPT !.lent = [m.lent EXCEPT ![b] = [m.lent[b] EXCEPT !.cells = u]]]
    BY <2>6
  <2>8. q = [lent |-> L, hdrs |-> m.hdrs]
    BY <2>3, <2>4, <2>7 DEF IsMemory
  <2>9. q.lent = L /\ q.hdrs = m.hdrs /\ q = [lent |-> q.lent, hdrs |-> q.hdrs]
    BY <2>8
  <2>10. IsMemory(q)
    BY <2>5, <2>9 DEF IsMemory
  <2>11. SetCells(d, m, u) = q
    BY <1>1, <1>4, <2>6 DEF SetCells
  <2>12. q.lent[b] = Lent(a, n, u) /\ u \in [0 .. n - 1 -> Cells] /\ n \in 1 .. SizeMax
    BY <1>1, <2>1, <2>2, <2>5, <2>9, MemoryAssumption
  <2>13. Claim(b, a, n, q)
    BY <2>1, <2>12, ClaimMade
  <2>14. StructOK(kind, d, q)
    BY <1>1, <2>13 DEF StructOK
  <2>15. Trades(b, m, b, q)
    BY <2>1, <2>5, <2>9, <2>10 DEF Trades
  <2>16. CellsOf(d, q) = u
    BY <1>1, <1>4, <2>12 DEF CellsOf, Lent
  <2>17. QED
    BY <1>1, <2>9, <2>11, <2>14, <2>15, <2>16 DEF Turns
<1>5. QED
  BY <1>3, <1>4

-----------------------------------------------------------------------------
(* Headers.                                                                *)

(* One header of kind k, in the books of a.                                *)
One(a, k, c, j) == IF c = a /\ j = k THEN 1 ELSE 0

(* One more at p and one less again.                                       *)
LEMMA MoreAndLess ==
  ASSUME NEW P, NEW H \in [P -> Int], NEW p \in P
  PROVE  LET T == [H EXCEPT ![p] = @ + 1]
             R == [H EXCEPT ![p] = @ - 1]
         IN  /\ T \in [P -> Int] /\ T[p] = H[p] + 1 /\ \A q \in P : q # p => T[q] = H[q]
             /\ R \in [P -> Int] /\ R[p] = H[p] - 1 /\ \A q \in P : q # p => R[q] = H[q]
             /\ [T EXCEPT ![p] = @ - 1] = H
<1>1. PICK T : T = [H EXCEPT ![p] = @ + 1]
  OBVIOUS
<1>2. T \in [P -> Int] /\ T[p] = H[p] + 1 /\ \A q \in P : q # p => T[q] = H[q]
  BY <1>1
<1>3. PICK R : R = [H EXCEPT ![p] = @ - 1]
  OBVIOUS
<1>4. R \in [P -> Int] /\ R[p] = H[p] - 1 /\ \A q \in P : q # p => R[q] = H[q]
  BY <1>3
<1>5. PICK B0 : B0 = [T EXCEPT ![p] = @ - 1]
  OBVIOUS
<1>6. B0 \in [P -> Int] /\ \A q \in P : B0[q] = H[q]
  BY <1>2, <1>5
<1>7. B0 = H
  BY <1>6
<1>8. QED
  BY <1>1, <1>2, <1>3, <1>4, <1>5, <1>7

(* A header more, or one less: nothing of the blocks.                      *)
LEMMA HeaderMoves ==
  ASSUME NEW m, IsMemory(m), NEW a \in Als, NEW k \in ObjectKinds
  PROVE  LET t == TakeHdr(m, a, k)
             r == ReturnHdr(m, a, k)
         IN  /\ IsMemory(t) /\ t.lent = m.lent /\ IsMemory(r) /\ r.lent = m.lent
             /\ ReturnHdr(t, a, k) = m
             /\ \A c \in Als, j \in ObjectKinds :
                  /\ Hdrs(t, c, j) = Hdrs(m, c, j) + One(a, k, c, j)
                  /\ Hdrs(r, c, j) = Hdrs(m, c, j) - One(a, k, c, j)
<1>1. PICK p, H, L : p = <<a, k>> /\ H = m.hdrs /\ L = m.lent
  OBVIOUS
<1>2. p \in Als \X Kinds /\ H \in [Als \X Kinds -> Int] /\ m = [lent |-> L, hdrs |-> H]
  BY <1>1, HdrsAreInts DEF IsMemory
<1>3. PICK T, R : T = [H EXCEPT ![p] = @ + 1] /\ R = [H EXCEPT ![p] = @ - 1]
  OBVIOUS
<1>4. /\ T \in [Als \X Kinds -> Int] /\ R \in [Als \X Kinds -> Int]
      /\ T[p] = H[p] + 1 /\ R[p] = H[p] - 1
      /\ \A q \in Als \X Kinds : q # p => T[q] = H[q] /\ R[q] = H[q]
      /\ [T EXCEPT ![p] = @ - 1] = H
  BY <1>2, <1>3, MoreAndLess
<1>5. PICK t, r : t = TakeHdr(m, a, k) /\ r = ReturnHdr(m, a, k)
  OBVIOUS
<1>6. t = [lent |-> L, hdrs |-> T] /\ r = [lent |-> L, hdrs |-> R]
  BY <1>1, <1>2, <1>3, <1>5 DEF TakeHdr, ReturnHdr
<1>7. t.lent = L /\ t.hdrs = T /\ r.lent = L /\ r.hdrs = R
  BY <1>6
<1>8. IsMemory(t) /\ IsMemory(r)
  BY <1>1, <1>4, <1>6, <1>7 DEF IsMemory
<1>9. ReturnHdr(t, a, k) = m
  BY <1>1, <1>2, <1>4, <1>6 DEF ReturnHdr
<1>10. ASSUME NEW c \in Als, NEW j \in ObjectKinds
       PROVE  /\ Hdrs(t, c, j) = Hdrs(m, c, j) + One(a, k, c, j)
              /\ Hdrs(r, c, j) = Hdrs(m, c, j) - One(a, k, c, j)
  <2>1. PICK q : q = <<c, j>>
    OBVIOUS
  <2>2. q \in Als \X Kinds /\ H[q] \in Int
    BY <1>2, <2>1, HdrsAreInts
  <2>3. q = p <=> (c = a /\ j = k)
    BY <1>1, <2>1
  <2>4. Hdrs(t, c, j) = T[q] /\ Hdrs(r, c, j) = R[q] /\ Hdrs(m, c, j) = H[q]
    BY <1>1, <1>7, <2>1 DEF Hdrs
  <2>5. CASE q = p
    BY <1>4, <2>3, <2>4, <2>5 DEF One
  <2>6. CASE q # p
    BY <1>4, <2>2, <2>3, <2>4, <2>6 DEF One
  <2>7. QED
    BY <2>5, <2>6
<1>11. QED
  BY <1>1, <1>5, <1>7, <1>8, <1>9, <1>10

(* A wrapper's header comes to a struct, and goes from it.                 *)
LEMMA WrapperMoves ==
  ASSUME NEW kind, NEW d, NEW m, IsMemory(m), StructOK(kind, d, m),
         NEW k \in ObjectKinds, NEW K, k \notin K
  PROVE  LET t == TakeHdr(m, d.al, k)
             r == ReturnHdr(m, d.al, k)
         IN  /\ Exchanges(kind, d, K, m, d, K \cup {k}, t) /\ ToSpan(d, t) = ToSpan(d, m)
             /\ Exchanges(kind, d, K \cup {k}, m, d, K, r) /\ ToSpan(d, r) = ToSpan(d, m)
<1>1. PICK t, r : t = TakeHdr(m, d.al, k) /\ r = ReturnHdr(m, d.al, k)
  OBVIOUS
<1>2. d # Null /\ d.al \in Als /\ d.data \in Blocks \cup {Null} /\ Blk(d) = d.data
  BY StructFacts
<1>3. /\ IsMemory(t) /\ t.lent = m.lent /\ IsMemory(r) /\ r.lent = m.lent
      /\ \A c \in Als, j \in ObjectKinds :
           /\ Hdrs(t, c, j) = Hdrs(m, c, j) + One(d.al, k, c, j)
           /\ Hdrs(r, c, j) = Hdrs(m, c, j) - One(d.al, k, c, j)
  BY <1>1, <1>2, HeaderMoves
<1>4. /\ StructOK(kind, d, t) /\ ToSpan(d, t) = ToSpan(d, m)
      /\ StructOK(kind, d, r) /\ ToSpan(d, r) = ToSpan(d, m)
  BY <1>3, StructStands
<1>5. Trades(d.data, m, d.data, t) /\ Trades(d.data, m, d.data, r)
  BY <1>2, <1>3 DEF Trades
<1>6. ASSUME NEW c \in Als, NEW j \in ObjectKinds
      PROVE  /\ Hdrs(t, c, j) = Hdrs(m, c, j) + Owes(d, K \cup {k}, c, j) - Owes(d, K, c, j)
             /\ Hdrs(r, c, j) = Hdrs(m, c, j) + Owes(d, K, c, j) - Owes(d, K \cup {k}, c, j)
  <2>1. /\ Owes(d, K \cup {k}, c, j) \in Int /\ Owes(d, K, c, j) \in Int
        /\ Owes(d, K \cup {k}, c, j) - Owes(d, K, c, j) = One(d.al, k, c, j)
    BY <1>2 DEF Owes, One
  <2>2. Hdrs(m, c, j) \in Int
    BY HdrsAreInts
  <2>3. QED
    BY <1>3, <2>1, <2>2
<1>7. QED
  BY <1>1, <1>2, <1>4, <1>5, <1>6 DEF Exchanges, Pays

(* A struct's block and headers go back: one header, or two.               *)
LEMMA GoneBack ==
  ASSUME NEW kind, NEW d, NEW m, IsMemory(m), StructOK(kind, d, m), NEW k \in ObjectKinds,
         NEW p, p = ReturnHdr(GiveBack(m, d.data, d.al, RoomOf(kind, d) * ElemSize), d.al, k)
  PROVE  /\ Exchanges(kind, d, {k}, m, Null, {}, p)
         /\ \A j \in ObjectKinds :
              j # k => Exchanges(kind, d, {k, j}, m, Null, {}, ReturnHdr(p, d.al, j))
<1>1. PICK g : g = GiveBack(m, d.data, d.al, RoomOf(kind, d) * ElemSize)
  OBVIOUS
<1>2. d # Null /\ d.al \in Als /\ d.data \in Blocks \cup {Null} /\ Blk(d) = d.data /\ Blk(Null) = Null
  BY StructFacts DEF Blk
<1>3. /\ IsMemory(g) /\ g.hdrs = m.hdrs
      /\ d.data # Null => g.lent[d.data] = Null
      /\ \A c \in Blocks : c # d.data => g.lent[c] = m.lent[c]
  BY <1>1, GivingBack, StructFacts
<1>4. /\ IsMemory(p) /\ p.lent = g.lent
      /\ \A c \in Als, i \in ObjectKinds : Hdrs(p, c, i) = Hdrs(g, c, i) - One(d.al, k, c, i)
  BY <1>1, <1>2, <1>3, HeaderMoves
<1>5. \A c \in Als, i \in ObjectKinds : Hdrs(g, c, i) = Hdrs(m, c, i) /\ Hdrs(m, c, i) \in Int
  BY <1>3, HdrsAreInts DEF Hdrs
<1>6. Exchanges(kind, d, {k}, m, Null, {}, p)
  <2>1. Trades(d.data, m, Null, p)
    BY <1>2, <1>3, <1>4 DEF Trades
  <2>2. ASSUME NEW c \in Als, NEW i \in ObjectKinds
        PROVE  Hdrs(p, c, i) = Hdrs(m, c, i) + Owes(Null, {}, c, i) - Owes(d, {k}, c, i)
    <3>1. /\ Owes(d, {k}, c, i) = One(d.al, k, c, i) /\ Owes(Null, {}, c, i) = 0
          /\ One(d.al, k, c, i) \in Int
      BY <1>2 DEF Owes, One
    <3>2. QED
      BY <1>4, <1>5, <3>1
  <2>3. QED
    BY <1>2, <2>1, <2>2 DEF Exchanges, Pays
<1>7. ASSUME NEW j \in ObjectKinds, j # k
      PROVE  Exchanges(kind, d, {k, j}, m, Null, {}, ReturnHdr(p, d.al, j))
  <2>1. PICK q : q = ReturnHdr(p, d.al, j)
    OBVIOUS
  <2>2. /\ IsMemory(q) /\ q.lent = p.lent
        /\ \A c \in Als, i \in ObjectKinds : Hdrs(q, c, i) = Hdrs(p, c, i) - One(d.al, j, c, i)
    BY <1>2, <1>4, <2>1, HeaderMoves
  <2>3. Trades(d.data, m, Null, q)
    BY <1>2, <1>3, <1>4, <2>2 DEF Trades
  <2>4. ASSUME NEW c \in Als, NEW i \in ObjectKinds
        PROVE  Hdrs(q, c, i) = Hdrs(m, c, i) + Owes(Null, {}, c, i) - Owes(d, {k, j}, c, i)
    <3>1. /\ Owes(d, {k, j}, c, i) = One(d.al, k, c, i) + One(d.al, j, c, i)
          /\ Owes(Null, {}, c, i) = 0
          /\ One(d.al, k, c, i) \in Int /\ One(d.al, j, c, i) \in Int
      BY <1>2, <1>7 DEF Owes, One
    <3>2. QED
      BY <1>4, <1>5, <2>2, <3>1
  <2>5. QED
    BY <1>2, <2>1, <2>3, <2>4 DEF Exchanges, Pays
<1>8. QED
  BY <1>6, <1>7

-----------------------------------------------------------------------------
(* What is read.                                                           *)

(* The first elems of the cells are those of s.                            *)
Reads(u, s) == \A i \in 1 .. Len(s) : s[i] = u[i - 1]

(* A sequence that reads like a struct's cells is what is read of it.      *)
LEMMA SpanIsRead ==
  ASSUME NEW kind, NEW d, NEW m, StructOK(kind, d, m)
  PROVE  /\ ToSpan(d, m) \in Seq(Cells) /\ Len(ToSpan(d, m)) = d.len
         /\ Reads(CellsOf(d, m), ToSpan(d, m))
         /\ \A s \in Seq(Cells) : Len(s) = d.len /\ Reads(CellsOf(d, m), s) => ToSpan(d, m) = s
<1>1. /\ d.len \in Nat /\ d.len <= RoomOf(kind, d) /\ RoomOf(kind, d) \in Nat
      /\ CellsOf(d, m) \in [0 .. RoomOf(kind, d) - 1 -> Cells]
  BY StructFacts, CellsAre
<1>2. PICK t, n, u : t = ToSpan(d, m) /\ n = d.len /\ u = CellsOf(d, m)
  OBVIOUS
<1>3. t = [i \in 1 .. n |-> u[i - 1]]
  BY <1>2 DEF ToSpan, ElemAt
<1>4. \A i \in 1 .. n : u[i - 1] \in Cells
  BY <1>1, <1>2
<1>5. t \in Seq(Cells) /\ Len(t) = n
  BY <1>1, <1>2, <1>3, <1>4
<1>6. Reads(u, t)
  BY <1>3, <1>5 DEF Reads
<1>7. ASSUME NEW s \in Seq(Cells), Len(s) = n, Reads(u, s)
      PROVE  t = s
  <2>1. \A i \in 1 .. n : t[i] = s[i]
    BY <1>3, <1>7 DEF Reads
  <2>2. QED
    BY <1>5, <1>7, <2>1, SeqEqual
<1>8. QED
  BY <1>2, <1>5, <1>6, <1>7

(* Elems a caller hands over.                                              *)
LEMMA InputsAreRuns ==
  ASSUME NEW s \in Inputs
  PROVE  s \in Seq(Cells) /\ Len(s) \in Nat /\ \A i \in 1 .. Len(s) : s[i] \in Cells
<1>1. s \in Seq(Vals)
  BY VecAssumption
<1>2. Len(s) \in Nat /\ \A i \in 1 .. Len(s) : s[i] \in Vals
  BY <1>1, LenProperties
<1>3. s \in Seq(Cells)
  BY <1>1, <1>2 DEF Cells
<1>4. QED
  BY <1>2, <1>3 DEF Cells

(* w is u with s written from idx on; l cells moved in it.                 *)
HasRun(w, n, u, idx, s) ==
  /\ w \in [0 .. n - 1 -> Cells]
  /\ \A i \in 0 .. n - 1 : w[i] = IF idx <= i /\ i < idx + Len(s) THEN s[i - idx + 1] ELSE u[i]

HasMoved(w, n, u, to, from, l) ==
  /\ w \in [0 .. n - 1 -> Cells]
  /\ \A i \in 0 .. n - 1 : w[i] = IF to <= i /\ i < to + l THEN u[from + (i - to)] ELSE u[i]

(* A run written at some places of the cells.                              *)
LEMMA WrittenReads ==
  ASSUME NEW n \in Nat, NEW u \in [0 .. n - 1 -> Cells], NEW idx \in Nat, NEW s \in Seq(Cells)
  PROVE  HasRun(Written(u, idx, s), n, u, idx, s)
<1>1. PICK l : l = Len(s)
  OBVIOUS
<1>2. DOMAIN s = 1 .. l /\ l \in Nat /\ \A k \in 1 .. l : s[k] \in Cells
  BY <1>1, LenProperties
<1>3. \A i \in 0 .. n - 1 : i - idx + 1 \in 1 .. l <=> idx <= i /\ i < idx + l
  BY <1>2
<1>4. PICK w : w = Written(u, idx, s)
  OBVIOUS
<1>5. w = [i \in 0 .. n - 1 |-> IF i - idx + 1 \in DOMAIN s THEN s[i - idx + 1] ELSE u[i]]
  BY <1>4 DEF Written
<1>6. \A i \in 0 .. n - 1 : w[i] = IF idx <= i /\ i < idx + l THEN s[i - idx + 1] ELSE u[i]
  BY <1>2, <1>3, <1>5
<1>7. \A i \in 0 .. n - 1 : w[i] \in Cells
  <2>1. TAKE i \in 0 .. n - 1
  <2>2. i - idx + 1 \in 1 .. l => s[i - idx + 1] \in Cells
    BY <1>2
  <2>3. u[i] \in Cells
    OBVIOUS
  <2>4. QED
    BY <1>2, <1>5, <2>2, <2>3
<1>8. w \in [0 .. n - 1 -> Cells]
  BY <1>5, <1>7
<1>9. QED
  BY <1>1, <1>4, <1>6, <1>8 DEF HasRun

(* A run moved within the cells.                                           *)
LEMMA MovedReads ==
  ASSUME NEW n \in Nat, NEW u \in [0 .. n - 1 -> Cells], NEW to \in Nat, NEW from \in Nat, NEW l \in Nat,
         from + l <= n
  PROVE  HasMoved(Moved(u, to, from, l), n, u, to, from, l)
<1>1. PICK w : w = Moved(u, to, from, l)
  OBVIOUS
<1>2. w = [i \in 0 .. n - 1 |-> IF i \in to .. to + l - 1 THEN u[from + (i - to)] ELSE u[i]]
  BY <1>1 DEF Moved
<1>3. \A i \in 0 .. n - 1 : i \in to .. to + l - 1 <=> to <= i /\ i < to + l
  OBVIOUS
<1>4. \A i \in 0 .. n - 1 : w[i] = IF to <= i /\ i < to + l THEN u[from + (i - to)] ELSE u[i]
  BY <1>2, <1>3
<1>5. \A i \in 0 .. n - 1 : to <= i /\ i < to + l => from + (i - to) \in 0 .. n - 1
  OBVIOUS
<1>6. \A i \in 0 .. n - 1 : w[i] \in Cells
  BY <1>4, <1>5
<1>7. w \in [0 .. n - 1 -> Cells]
  BY <1>2, <1>6
<1>8. QED
  BY <1>1, <1>4, <1>7 DEF HasMoved

-----------------------------------------------------------------------------
(* Vec: room.                                                              *)

(* Room for n: the same elems in a block with as many cells, or refused.   *)
Roomier(d, m, r, n) ==
  /\ r.st = OK
  /\ Turns("vec", d, m, r.d, r.m)
  /\ r.d.len = d.len
  /\ r.d.cap >= d.cap /\ r.d.cap >= n
  /\ \A i \in 0 .. d.cap - 1 : CellsOf(r.d, r.m)[i] = CellsOf(d, m)[i]

GetsRoom(d, m, r, n) == r = Result(NoMem, d, m) \/ Roomier(d, m, r, n)

(* What a struct of a vec is.                                              *)
LEMMA VecFacts ==
  ASSUME NEW d, NEW m, StructOK("vec", d, m)
  PROVE  /\ d \in Vecs /\ d # Null
         /\ d.cap \in Nat /\ d.len \in Nat /\ d.len <= d.cap /\ d.cap <= SizeMax
         /\ d.al \in Als /\ d.data \in Blocks \cup {Null} /\ (d.data = Null <=> d.cap = 0)
         /\ RoomOf("vec", d) = d.cap /\ Claim(d.data, d.al, d.cap, m)
         /\ CellsOf(d, m) \in [0 .. d.cap - 1 -> Cells]
<1>1. RoomOf("vec", d) = d.cap
  BY DEF RoomOf
<1>2. QED
  BY <1>1, StructFacts, CellsAre

OnBlock(d, b, n) == [d EXCEPT !.data = b, !.cap = n]

(* A struct over the block a realloc answered with.                        *)
LEMMA NewBlockTurns ==
  ASSUME NEW d, NEW m, IsMemory(m), StructOK("vec", d, m), NEW n \in 1 .. SizeMax, d.len <= n, NEW room,
         NEW new, new = Realloc(m, d.data, CapBytes(d), d.al, n, ElemSize, room), new.b # Null,
         NEW e, e = OnBlock(d, new.b, n)
  PROVE  /\ Turns("vec", d, m, e, new.m)
         /\ e.len = d.len /\ e.cap = n
         /\ \A i \in 0 .. n - 1 : i < d.cap => CellsOf(e, new.m)[i] = CellsOf(d, m)[i]
<1>1. PICK kept : kept = IF d.data = Null THEN Raw(0) ELSE m.lent[d.data].cells
  BY Zenon
<1>2. /\ d \in Vecs /\ d.len \in Nat /\ d.cap \in Nat /\ d.al \in Als
      /\ Claim(d.data, d.al, d.cap, m) /\ CellsOf(d, m) \in [0 .. d.cap - 1 -> Cells]
      /\ kept = CellsOf(d, m)
  BY <1>1, VecFacts DEF CellsOf
<1>3. n \in 0 .. SizeMax /\ n > 0 /\ n \in Nat
  BY MemoryAssumption
<1>4. /\ Trades(d.data, m, new.b, new.m) /\ new.m.hdrs = m.hdrs
      /\ Claim(new.b, d.al, n, new.m)
      /\ new.m.lent[new.b].cells = Carried(kept, n)
  <2>1. CapBytes(d) = d.cap * ElemSize
    BY DEF CapBytes
  <2>2. \/ n > 0 /\ new.b = Null /\ new.m = m
        \/ /\ Trades(d.data, m, new.b, new.m) /\ new.m.hdrs = m.hdrs
           /\ Claim(new.b, d.al, n, new.m)
           /\ n > 0 => new.m.lent[new.b].cells = Carried(kept, n)
    BY <1>1, <1>2, <1>3, <2>1, Reallocated
  <2>3. QED
    BY <1>3, <2>2
<1>5. new.b \in Blocks
  BY <1>4 DEF Claim
<1>6. e \in Vecs /\ e.data = new.b /\ e.cap = n /\ e.len = d.len /\ e.al = d.al
  BY <1>2, <1>3, <1>5 DEF Vecs, OnBlock
<1>7. StructOK("vec", e, new.m)
  BY <1>4, <1>6 DEF StructOK, RoomOf
<1>8. CellsOf(e, new.m) = Carried(kept, n)
  BY <1>4, <1>6 DEF CellsOf
<1>9. \A i \in 0 .. n - 1 : i < d.cap => CellsOf(e, new.m)[i] = CellsOf(d, m)[i]
  BY <1>2, <1>8 DEF Carried
<1>10. QED
  BY <1>4, <1>6, <1>7, <1>9 DEF Turns

(* tda_vec_reserve.                                                        *)
LEMMA ReserveTurns ==
  ASSUME NEW d, NEW m, IsMemory(m), StructOK("vec", d, m), NEW n \in Nat, NEW room
  PROVE  GetsRoom(d, m, Reserve(d, m, n, room), n)
<1>1. PICK new, r : /\ new = Realloc(m, d.data, CapBytes(d), d.al, n, ElemSize, room)
                    /\ r = Reserve(d, m, n, room)
  OBVIOUS
<1>2. r = IF n <= d.cap THEN Result(OK, d, m)
          ELSE IF Overflows(n, ElemSize) \/ new.b = Null THEN Result(NoMem, d, m)
          ELSE Result(OK, [d EXCEPT !.data = new.b, !.cap = n], new.m)
  BY <1>1, Zenon DEF Reserve
<1>3. d.cap \in Nat /\ d.len \in Nat /\ d.len <= d.cap
  BY VecFacts
<1>4. CASE n <= d.cap
  <2>1. r.st = OK /\ r.d = d /\ r.m = m
    BY <1>2, <1>4 DEF Result
  <2>2. QED
    BY <1>1, <1>3, <1>4, <2>1, NothingTurns DEF GetsRoom, Roomier
<1>5. CASE ~(n <= d.cap) /\ (Overflows(n, ElemSize) \/ new.b = Null)
  BY <1>1, <1>2, <1>5 DEF GetsRoom
<1>6. CASE ~(n <= d.cap) /\ ~Overflows(n, ElemSize) /\ new.b # Null
  <2>1. PICK e : e = OnBlock(d, new.b, n)
    OBVIOUS
  <2>2. r.st = OK /\ r.d = e /\ r.m = new.m
    BY <1>2, <1>6, <2>1 DEF Result, OnBlock
  <2>3. n \in 1 .. SizeMax
    <3>1. PICK k \in Nat : ElemSize = k + 1
      BY VecAssumption
    <3>2. n * ElemSize = n * k + n /\ n * k \in Nat
      BY <3>1
    <3>3. n * ElemSize <= SizeMax /\ SizeMax \in Nat
      BY <1>6, <3>2, MemoryAssumption DEF Overflows
    <3>4. QED
      BY <1>3, <1>6, <3>2, <3>3
  <2>4. /\ Turns("vec", d, m, e, new.m)
        /\ e.len = d.len /\ e.cap = n
        /\ \A i \in 0 .. n - 1 : i < d.cap => CellsOf(e, new.m)[i] = CellsOf(d, m)[i]
    <3>1. d.len <= n
      BY <1>3, <1>6
    <3>2. new = Realloc(m, d.data, CapBytes(d), d.al, n, ElemSize, room) /\ new.b # Null
      BY <1>1, <1>6
    <3>3. QED
      BY <2>1, <2>3, <3>1, <3>2, NewBlockTurns
  <2>5. QED
    BY <1>1, <1>3, <1>6, <2>2, <2>4 DEF GetsRoom, Roomier
<1>7. QED
  BY <1>4, <1>5, <1>6

(* The next capacity is a larger one.                                      *)
LEMMA NextCapIsMore ==
  ASSUME NEW d, d.cap \in Nat, d.cap <= SizeMax
  PROVE  NextCap(d) \in Nat /\ (d.cap # SizeMax => NextCap(d) > d.cap)
  BY MemoryAssumption DEF NextCap, Overflows

(* More room is room for less.                                             *)
LEMMA RoomForLess ==
  ASSUME NEW d, NEW m, StructOK("vec", d, m), NEW r, NEW n \in Nat, Roomier(d, m, r, n), NEW k \in Nat, k <= n
  PROVE  Roomier(d, m, r, k)
<1>1. r.d.cap \in Nat
  BY VecFacts DEF Roomier, Turns
<1>2. QED
  BY <1>1 DEF Roomier

(* grow: the eager capacity or the next one, when there is one.            *)
LEMMA GrowTurns ==
  ASSUME NEW d, NEW m, IsMemory(m), StructOK("vec", d, m), NEW room
  PROVE  GetsRoom(d, m, Grow(d, m, room), d.cap + 1)
<1>1. PICK eager, exact, r : /\ eager = Reserve(d, m, NextCap(d), room)
                             /\ exact = Reserve(d, m, d.cap + 1, room)
                             /\ r = Grow(d, m, room)
  OBVIOUS
<1>2. r = IF d.cap = SizeMax THEN Result(NoMem, d, m)
          ELSE IF eager.st = OK \/ NextCap(d) <= d.cap + 1 THEN eager ELSE exact
  BY <1>1, Zenon DEF Grow
<1>3. d.cap \in Nat /\ d.cap + 1 \in Nat /\ d.cap <= SizeMax /\ NextCap(d) \in Nat
  BY VecFacts, NextCapIsMore
<1>4. GetsRoom(d, m, eager, NextCap(d)) /\ GetsRoom(d, m, exact, d.cap + 1)
  BY <1>1, <1>3, ReserveTurns
<1>5. ASSUME d.cap # SizeMax
      PROVE  GetsRoom(d, m, eager, d.cap + 1)
  <2>1. d.cap + 1 <= NextCap(d)
    BY <1>3, <1>5, NextCapIsMore
  <2>2. QED
    BY <1>3, <1>4, <2>1, RoomForLess DEF GetsRoom
<1>6. QED
  BY <1>1, <1>2, <1>4, <1>5 DEF GetsRoom

(* reserve_one.                                                            *)
LEMMA ReserveOneTurns ==
  ASSUME NEW d, NEW m, IsMemory(m), StructOK("vec", d, m), NEW room
  PROVE  GetsRoom(d, m, ReserveOne(d, m, room), d.len + 1)
<1>1. d.cap \in Nat /\ d.len \in Nat /\ d.len <= d.cap
  BY VecFacts
<1>2. CASE d.len = d.cap
  BY <1>2, GrowTurns DEF ReserveOne
<1>3. CASE d.len # d.cap
  <2>1. PICK r : r = ReserveOne(d, m, room)
    OBVIOUS
  <2>2. r.st = OK /\ r.d = d /\ r.m = m
    BY <1>3, <2>1 DEF ReserveOne, Result
  <2>3. QED
    BY <1>1, <1>3, <2>1, <2>2, NothingTurns DEF GetsRoom, Roomier
<1>4. QED
  BY <1>2, <1>3

(* reserve_for.                                                            *)
LEMMA ReserveForTurns ==
  ASSUME NEW d, NEW m, IsMemory(m), StructOK("vec", d, m), NEW n \in Nat, NEW room
  PROVE  GetsRoom(d, m, ReserveFor(d, m, n, room), n)
<1>1. PICK eager, exact, r : /\ eager = Reserve(d, m, NextCap(d), room)
                             /\ exact = Reserve(d, m, n, room)
                             /\ r = ReserveFor(d, m, n, room)
  OBVIOUS
<1>2. r = IF NextCap(d) > n /\ eager.st = OK THEN eager ELSE exact
  BY <1>1, Zenon DEF ReserveFor
<1>3. d.cap \in Nat /\ d.cap <= SizeMax /\ NextCap(d) \in Nat
  BY VecFacts, NextCapIsMore
<1>4. GetsRoom(d, m, eager, NextCap(d)) /\ GetsRoom(d, m, exact, n)
  BY <1>1, <1>3, ReserveTurns
<1>5. CASE NextCap(d) > n /\ eager.st = OK
  <2>1. Roomier(d, m, eager, NextCap(d))
    BY <1>4, <1>5, MemoryAssumption DEF GetsRoom, Result
  <2>2. Roomier(d, m, eager, n)
    BY <1>3, <1>5, <2>1, RoomForLess
  <2>3. QED
    BY <1>1, <1>2, <1>5, <2>2 DEF GetsRoom
<1>6. CASE ~(NextCap(d) > n /\ eager.st = OK)
  BY <1>1, <1>2, <1>4, <1>6
<1>7. QED
  BY <1>5, <1>6

-----------------------------------------------------------------------------
(* What sequences are.                                                     *)

(* t put into s behind the first i elems, n elems taken out of it there,   *)
(* and zeroed ones behind the last.                                        *)
Spliced(s, i, t) == SS!FirstN(s, i) \o t \o SS!AfterN(s, i)
Cut(s, i, n)     == SS!FirstN(s, i) \o SS!AfterN(s, i + n)
Extended(s, n)   == s \o SS!ZeroSeq(n)

(* The first n, and what is behind them.                                   *)
LEMMA CutAt ==
  ASSUME NEW T, NEW s \in Seq(T), NEW n \in 0 .. Len(s)
  PROVE  /\ SS!FirstN(s, n) \in Seq(T) /\ Len(SS!FirstN(s, n)) = n
         /\ \A k \in 1 .. n : SS!FirstN(s, n)[k] = s[k]
         /\ SS!AfterN(s, n) \in Seq(T) /\ Len(SS!AfterN(s, n)) = Len(s) - n
         /\ \A k \in 1 .. Len(s) - n : SS!AfterN(s, n)[k] = s[n + k]
<1>1. Len(s) \in Nat /\ \A k \in 1 .. Len(s) : s[k] \in T
  BY LenProperties
<1>2. /\ SubSeq(s, 1, n) \in Seq(T)
      /\ Len(SubSeq(s, 1, n)) = IF 1 <= n THEN n - 1 + 1 ELSE 0
      /\ \A k \in 1 .. n - 1 + 1 : SubSeq(s, 1, n)[k] = s[1 + k - 1]
  BY <1>1, SubSeqProperties
<1>3. /\ SubSeq(s, n + 1, Len(s)) \in Seq(T)
      /\ Len(SubSeq(s, n + 1, Len(s))) = IF n + 1 <= Len(s) THEN Len(s) - (n + 1) + 1 ELSE 0
      /\ \A k \in 1 .. Len(s) - (n + 1) + 1 :
           SubSeq(s, n + 1, Len(s))[k] = s[(n + 1) + k - 1]
  BY <1>1, SubSeqProperties
<1>4. QED
  BY <1>1, <1>2, <1>3 DEF SS!FirstN, SS!AfterN

(* z is s with t between the first i and the others; s without the l from *)
(* i on; s with l zeros behind it.                                         *)
IsSpliced(z, n, s, i, l, t) ==
  /\ z \in Seq(Cells) /\ Len(z) = n + l
  /\ \A k \in 1 .. n + l : z[k] = IF k <= i THEN s[k] ELSE IF k <= i + l THEN t[k - i] ELSE s[k - l]

IsCut(z, n, s, i, l) ==
  /\ z \in Seq(Cells) /\ Len(z) = n - l
  /\ \A k \in 1 .. n - l : z[k] = IF k <= i THEN s[k] ELSE s[k + l]

IsExtended(z, n, s, l) ==
  /\ z \in Seq(Cells) /\ Len(z) = n + l
  /\ \A k \in 1 .. n + l : z[k] = IF k <= n THEN s[k] ELSE Zero

(* A run between the first i elems and the others.                         *)
LEMMA SplicedReads ==
  ASSUME NEW n \in Nat, NEW s \in Seq(Cells), Len(s) = n, NEW i \in 0 .. n,
         NEW l \in Nat, NEW t \in Seq(Cells), Len(t) = l
  PROVE  IsSpliced(Spliced(s, i, t), n, s, i, l, t)
<1>1. PICK p : p = SS!FirstN(s, i)
  OBVIOUS
<1>2. PICK q : q = SS!AfterN(s, i)
  OBVIOUS
<1>3. p \in Seq(Cells) /\ Len(p) = i
  BY <1>1, CutAt
<1>4. \A k \in 1 .. i : p[k] = s[k]
  BY <1>1, CutAt
<1>5. PICK j \in Nat : j = n - i
  OBVIOUS
<1>6. q \in Seq(Cells) /\ Len(q) = j
  BY <1>2, <1>5, CutAt
<1>7. \A k \in 1 .. n - i : q[k] = s[i + k]
  BY <1>2, CutAt
<1>8. PICK r : r = p \o t
  OBVIOUS
<1>9. /\ r \in Seq(Cells) /\ Len(r) = i + l
      /\ \A k \in 1 .. i + l : r[k] = IF k <= i THEN p[k] ELSE t[k - i]
  <2>1. p \in Seq(Cells) /\ t \in Seq(Cells)
    BY <1>3
  <2>2. /\ r \in Seq(Cells) /\ Len(r) = Len(p) + Len(t)
        /\ \A k \in 1 .. Len(p) + Len(t) : r[k] = IF k <= Len(p) THEN p[k] ELSE t[k - Len(p)]
    BY <1>8, <2>1, ConcatProperties
  <2>3. QED
    BY <1>3, <2>2
<1>10. PICK u : u = r \o q
  OBVIOUS
<1>11. /\ u \in Seq(Cells) /\ Len(u) = i + l + j
       /\ \A k \in 1 .. i + l + j : u[k] = IF k <= i + l THEN r[k] ELSE q[k - (i + l)]
  <2>1. r \in Seq(Cells) /\ q \in Seq(Cells)
    BY <1>6, <1>9
  <2>2. /\ u \in Seq(Cells) /\ Len(u) = Len(r) + Len(q)
        /\ \A k \in 1 .. Len(r) + Len(q) : u[k] = IF k <= Len(r) THEN r[k] ELSE q[k - Len(r)]
    BY <1>10, <2>1, ConcatProperties
  <2>3. Len(r) = i + l
    BY <1>9
  <2>4. QED
    BY <1>6, <2>2, <2>3
<1>12. ASSUME NEW k \in 1 .. n + l
       PROVE  u[k] = IF k <= i THEN s[k] ELSE IF k <= i + l THEN t[k - i] ELSE s[k - l]
  <2>1. k \in 1 .. i + l + j
    BY <1>5
  <2>2. CASE k <= i
    <3>1. k \in 1 .. i /\ k \in 1 .. i + l /\ k <= i + l
      BY <2>2
    <3>2. u[k] = r[k]
      BY <1>11, <2>1, <3>1
    <3>3. r[k] = p[k]
      BY <1>9, <2>2, <3>1
    <3>4. QED
      BY <1>4, <2>2, <3>1, <3>2, <3>3
  <2>3. CASE i < k /\ k <= i + l
    BY <1>9, <1>11, <2>1, <2>3
  <2>4. CASE i + l < k
    <3>1. k - (i + l) \in 1 .. n - i /\ i + (k - (i + l)) = k - l
      BY <2>4
    <3>2. u[k] = q[k - (i + l)]
      BY <1>11, <2>1, <2>4
    <3>3. q[k - (i + l)] = s[k - l]
      BY <1>7, <3>1
    <3>4. QED
      BY <2>4, <3>2, <3>3
  <2>5. QED
    BY <2>2, <2>3, <2>4
<1>13. u = Spliced(s, i, t)
  BY <1>1, <1>2, <1>8, <1>10 DEF Spliced
<1>14. i + l + j = n + l
  BY <1>5
<1>15. QED
  BY <1>11, <1>12, <1>13, <1>14 DEF IsSpliced

(* All but n elems behind the first i.                                     *)
LEMMA CutReads ==
  ASSUME NEW n \in Nat, NEW s \in Seq(Cells), Len(s) = n, NEW i \in Nat, NEW l \in Nat, i + l <= n
  PROVE  IsCut(Cut(s, i, l), n, s, i, l)
<1>1. PICK p : p = SS!FirstN(s, i)
  OBVIOUS
<1>2. PICK j \in 0 .. n : j = i + l
  OBVIOUS
<1>3. PICK q : q = SS!AfterN(s, j)
  OBVIOUS
<1>4. i \in 0 .. n
  OBVIOUS
<1>5. p \in Seq(Cells) /\ Len(p) = i
  BY <1>1, <1>4, CutAt
<1>6. \A k \in 1 .. i : p[k] = s[k]
  BY <1>1, <1>4, CutAt
<1>7. PICK h \in Nat : h = n - j
  OBVIOUS
<1>8. q \in Seq(Cells) /\ Len(q) = h
  BY <1>3, <1>7, CutAt
<1>9. \A k \in 1 .. h : q[k] = s[j + k]
  BY <1>3, <1>7, CutAt
<1>10. PICK u : u = p \o q
  OBVIOUS
<1>11. /\ u \in Seq(Cells) /\ Len(u) = i + h
       /\ \A k \in 1 .. i + h : u[k] = IF k <= i THEN p[k] ELSE q[k - i]
  <2>1. p \in Seq(Cells) /\ q \in Seq(Cells)
    BY <1>5, <1>8
  <2>2. /\ u \in Seq(Cells) /\ Len(u) = Len(p) + Len(q)
        /\ \A k \in 1 .. Len(p) + Len(q) : u[k] = IF k <= Len(p) THEN p[k] ELSE q[k - Len(p)]
    BY <1>10, <2>1, ConcatProperties
  <2>3. QED
    BY <1>5, <1>8, <2>2
<1>12. ASSUME NEW k \in 1 .. n - l
       PROVE  u[k] = IF k <= i THEN s[k] ELSE s[k + l]
  <2>1. k \in 1 .. i + h
    BY <1>2, <1>7
  <2>2. CASE k <= i
    BY <1>6, <1>11, <2>1, <2>2
  <2>3. CASE i < k
    <3>1. k - i \in 1 .. h /\ j + (k - i) = k + l
      BY <1>2, <1>7, <2>3
    <3>2. u[k] = q[k - i]
      BY <1>11, <2>1, <2>3
    <3>3. q[k - i] = s[k + l]
      BY <1>9, <3>1
    <3>4. QED
      BY <2>3, <3>2, <3>3
  <2>4. QED
    BY <2>2, <2>3
<1>13. u = Cut(s, i, l)
  BY <1>1, <1>2, <1>3, <1>10 DEF Cut
<1>14. i + h = n - l
  BY <1>2, <1>7
<1>15. QED
  BY <1>11, <1>12, <1>13, <1>14 DEF IsCut

(* Zeroed elems behind the last.                                           *)
LEMMA ExtendedReads ==
  ASSUME NEW n \in Nat, NEW s \in Seq(Cells), Len(s) = n, NEW l \in Nat
  PROVE  IsExtended(Extended(s, l), n, s, l)
<1>1. PICK z : z = SS!ZeroSeq(l)
  OBVIOUS
<1>2. z = [i \in 1 .. l |-> Zero]
  BY <1>1 DEF SS!ZeroSeq
<1>3. z \in Seq(Cells) /\ Len(z) = l
  <2>1. Zero \in Cells
    BY DEF Cells
  <2>2. QED
    BY <1>2, <2>1
<1>4. PICK u : u = s \o z
  OBVIOUS
<1>5. /\ u \in Seq(Cells) /\ Len(u) = n + l
      /\ \A k \in 1 .. n + l : u[k] = IF k <= n THEN s[k] ELSE z[k - n]
  <2>1. z \in Seq(Cells)
    BY <1>3
  <2>2. /\ u \in Seq(Cells) /\ Len(u) = Len(s) + Len(z)
        /\ \A k \in 1 .. Len(s) + Len(z) : u[k] = IF k <= Len(s) THEN s[k] ELSE z[k - Len(s)]
    BY <1>4, <2>1, ConcatProperties
  <2>3. QED
    BY <1>3, <2>2
<1>6. \A k \in 1 .. n + l : ~(k <= n) => k - n \in 1 .. l
  OBVIOUS
<1>7. \A k \in 1 .. n + l : u[k] = IF k <= n THEN s[k] ELSE Zero
  BY <1>2, <1>5, <1>6
<1>8. QED
  BY <1>1, <1>4, <1>5, <1>7 DEF Extended, IsExtended

-----------------------------------------------------------------------------
(* Vec: elems.                                                             *)

(* A call on a live object after which s is read of it, or it is refused.  *)
Makes(kind, d, m, r, s) ==
  /\ r.st = OK
  /\ Turns(kind, d, m, r.d, r.m)
  /\ ToSpan(r.d, r.m) = s

Answers(kind, d, m, r, s) == r = Result(NoMem, d, m) \/ Makes(kind, d, m, r, s)

WithLen(d, n) == [d EXCEPT !.len = n]

(* What there is room for is written, and the length set.                  *)
LEMMA Stored ==
  ASSUME NEW d, NEW m, NEW e, NEW q, Turns("vec", d, m, e, q), NEW n \in 0 .. e.cap,
         NEW u \in [0 .. e.cap - 1 -> Cells], NEW t \in Seq(Cells), Len(t) = n, Reads(u, t)
  PROVE  LET f == WithLen(e, n)
             p == SetCells(e, q, u)
         IN  Turns("vec", d, m, f, p) /\ ToSpan(f, p) = t
<1>1. PICK p, f : p = SetCells(e, q, u) /\ f = WithLen(e, n)
  OBVIOUS
<1>2. IsMemory(q) /\ StructOK("vec", e, q) /\ RoomOf("vec", e) = e.cap
  BY DEF Turns, Trades, RoomOf
<1>3. Turns("vec", e, q, e, p) /\ CellsOf(e, p) = u
  BY <1>1, <1>2, Writing
<1>4. IsMemory(p) /\ StructOK("vec", e, p)
  BY <1>3 DEF Turns, Trades
<1>5. Turns("vec", e, p, f, p) /\ f.len = n /\ CellsOf(f, p) = u
  BY <1>1, <1>3, <1>4, LengthTurns DEF WithLen
<1>6. Turns("vec", d, m, f, p)
  BY <1>3, <1>5, TurnsFollow
<1>7. StructOK("vec", f, p)
  BY <1>5 DEF Turns
<1>8. ToSpan(f, p) = t
  BY <1>5, <1>7, SpanIsRead
<1>9. QED
  BY <1>1, <1>6, <1>8

(* What is read in a block with more room is what was.                     *)
LEMMA RoomierReads ==
  ASSUME NEW d, NEW m, StructOK("vec", d, m), NEW r, NEW n \in Nat, Roomier(d, m, r, n)
  PROVE  /\ StructOK("vec", r.d, r.m) /\ r.d.cap \in Nat /\ r.d.cap >= n /\ r.d.len = d.len /\ d.len <= r.d.cap
         /\ CellsOf(r.d, r.m) \in [0 .. r.d.cap - 1 -> Cells]
         /\ Reads(CellsOf(r.d, r.m), ToSpan(d, m))
         /\ ToSpan(r.d, r.m) = ToSpan(d, m)
         /\ r.d \in Vecs
<1>1. StructOK("vec", r.d, r.m) /\ r.d.len = d.len /\ r.d.cap >= n
  BY DEF Roomier, Turns
<1>2. r.d.cap \in Nat /\ r.d.len <= r.d.cap /\ CellsOf(r.d, r.m) \in [0 .. r.d.cap - 1 -> Cells] /\ r.d \in Vecs
  BY <1>1, VecFacts
<1>3. PICK s : s = ToSpan(d, m)
  OBVIOUS
<1>4. s \in Seq(Cells) /\ Len(s) = d.len /\ Reads(CellsOf(d, m), s)
  BY <1>3, SpanIsRead
<1>5. d.len \in Nat /\ d.cap \in Nat /\ d.len <= d.cap
  BY VecFacts
<1>6. Reads(CellsOf(r.d, r.m), s)
  BY <1>4, <1>5 DEF Roomier, Reads
<1>7. ToSpan(r.d, r.m) = s
  BY <1>1, <1>4, <1>6, SpanIsRead
<1>8. QED
  BY <1>1, <1>2, <1>3, <1>6, <1>7

(* tda_vec_push.                                                           *)
LEMMA PushMakes ==
  ASSUME NEW d, NEW m, IsMemory(m), StructOK("vec", d, m), NEW v \in Cells, NEW room
  PROVE  Answers("vec", d, m, Pushed(d, m, v, room), Append(ToSpan(d, m), v))
<1>1. PICK r, p : r = ReserveOne(d, m, room) /\ p = Pushed(d, m, v, room)
  OBVIOUS
<1>2. d.len \in Nat /\ d.len + 1 \in Nat
  BY VecFacts
<1>3. GetsRoom(d, m, r, d.len + 1)
  BY <1>1, ReserveOneTurns
<1>4. CASE r = Result(NoMem, d, m)
  <2>1. p = r
    BY <1>1, <1>4 DEF Pushed, Result
  <2>2. QED
    BY <1>1, <1>4, <2>1 DEF Answers
<1>5. CASE Roomier(d, m, r, d.len + 1)
  <2>1. PICK e, q, u, n : e = r.d /\ q = r.m /\ u = CellsOf(r.d, r.m) /\ n = d.len
    OBVIOUS
  <2>2. /\ e.cap \in Nat /\ e.cap >= n + 1 /\ e.len = n /\ n \in Nat
        /\ u \in [0 .. e.cap - 1 -> Cells]
        /\ Turns("vec", d, m, e, q) /\ r.st # NoMem
        /\ Reads(u, ToSpan(d, m))
    BY <1>2, <1>5, <2>1, RoomierReads, MemoryAssumption DEF Roomier
  <2>3. PICK s : s = ToSpan(d, m)
    OBVIOUS
  <2>4. s \in Seq(Cells) /\ Len(s) = n
    BY <2>1, <2>3, SpanIsRead
  <2>5. PICK t : t = Append(s, v)
    OBVIOUS
  <2>6. /\ t \in Seq(Cells) /\ Len(t) = n + 1
        /\ \A k \in 1 .. n + 1 : t[k] = IF k = n + 1 THEN v ELSE s[k]
    BY <2>4, <2>5, AppendProperties
  <2>7. PICK o : o = <<v>> /\ o \in Seq(Cells) /\ Len(o) = 1 /\ o[1] = v
    <3>1. <<v>> \in Seq(Cells) /\ Len(<<v>>) = 1 /\ <<v>>[1] = v
      OBVIOUS
    <3>2. QED
      BY <3>1
  <2>8. PICK w : w = Written(u, n, o)
    OBVIOUS
  <2>9. /\ w \in [0 .. e.cap - 1 -> Cells]
        /\ \A i \in 0 .. e.cap - 1 : w[i] = IF n <= i /\ i < n + 1 THEN o[i - n + 1] ELSE u[i]
    <3>1. PICK c \in Nat : c = e.cap
      BY <2>2
    <3>2. u \in [0 .. c - 1 -> Cells] /\ n \in Nat /\ o \in Seq(Cells)
      BY <2>2, <2>7, <3>1
    <3>3. HasRun(w, c, u, n, o)
      BY <2>8, <3>2, WrittenReads
    <3>4. QED
      BY <2>7, <3>1, <3>3 DEF HasRun
  <2>10. Reads(w, t)
    <3>1. ASSUME NEW k \in 1 .. n + 1
          PROVE  t[k] = w[k - 1]
      <4>1. k - 1 \in 0 .. e.cap - 1
        BY <2>2
      <4>2. CASE k = n + 1
        <5>1. w[n] = o[n - n + 1] /\ n - n + 1 = 1 /\ k - 1 = n
          BY <2>2, <2>9, <4>1, <4>2
        <5>2. QED
          BY <2>6, <2>7, <4>2, <5>1
      <4>3. CASE k <= n
        <5>1. s[k] = u[k - 1]
          BY <2>2, <2>3, <2>4, <4>3 DEF Reads
        <5>2. QED
          BY <2>2, <2>6, <2>9, <4>1, <4>3, <5>1
      <4>4. QED
        BY <2>2, <4>2, <4>3
    <3>2. QED
      BY <2>6, <3>1 DEF Reads
  <2>11. n + 1 \in 0 .. e.cap
    BY <2>2
  <2>12. Turns("vec", d, m, WithLen(e, n + 1), SetCells(e, q, w)) /\ ToSpan(WithLen(e, n + 1), SetCells(e, q, w)) = t
    BY <2>2, <2>6, <2>9, <2>10, <2>11, Stored
  <2>13. p = Result(OK, WithLen(e, n + 1), SetCells(e, q, w))
    BY <1>1, <2>1, <2>2, <2>7, <2>8 DEF Pushed, WithLen
  <2>14. p.st = OK /\ p.d = WithLen(e, n + 1) /\ p.m = SetCells(e, q, w)
    BY <2>13 DEF Result
  <2>15. QED
    BY <1>1, <2>3, <2>5, <2>12, <2>14 DEF Answers, Makes
<1>6. QED
  BY <1>3, <1>4, <1>5 DEF GetsRoom

-----------------------------------------------------------------------------
(* What is read of cells once they are written.                            *)

(* A run put between the elems, the ones behind it moved up.               *)
LEMMA SplicedCells ==
  ASSUME NEW c \in Nat, NEW u \in [0 .. c - 1 -> Cells],
         NEW n \in Nat, NEW s \in Seq(Cells), Len(s) = n, Reads(u, s),
         NEW i \in 0 .. n, NEW l \in Nat, NEW t \in Seq(Cells), Len(t) = l, n + l <= c
  PROVE  LET w == Written(Moved(u, i + l, i, n - i), i, t)
         IN  w \in [0 .. c - 1 -> Cells] /\ Reads(w, Spliced(s, i, t))
<1>1. PICK v : v = Moved(u, i + l, i, n - i)
  OBVIOUS
<1>2. PICK to \in Nat, h \in Nat : to = i + l /\ h = n - i
  OBVIOUS
<1>20. i \in Nat /\ i + h <= c /\ to + h = n + l /\ to \in Nat /\ h \in Nat
  BY <1>2
<1>3. /\ v \in [0 .. c - 1 -> Cells]
      /\ \A k \in 0 .. c - 1 :
           v[k] = IF to <= k /\ k < to + h THEN u[i + (k - to)] ELSE u[k]
  <2>1. v = Moved(u, to, i, h)
    BY <1>1, <1>2
  <2>2. i + h <= c
    BY <1>20
  <2>3. HasMoved(Moved(u, to, i, h), c, u, to, i, h)
    BY <1>20, <2>2, MovedReads
  <2>4. QED
    BY <2>1, <2>3 DEF HasMoved
<1>4. PICK w : w = Written(v, i, t)
  OBVIOUS
<1>5. v \in [0 .. c - 1 -> Cells] /\ t \in Seq(Cells)
  BY <1>3
<1>6. /\ w \in [0 .. c - 1 -> Cells]
      /\ \A k \in 0 .. c - 1 : w[k] = IF i <= k /\ k < i + Len(t) THEN t[k - i + 1] ELSE v[k]
  <2>1. HasRun(w, c, v, i, t)
    BY <1>4, <1>5, WrittenReads
  <2>2. QED
    BY <2>1 DEF HasRun
<1>7. PICK z : z = Spliced(s, i, t)
  OBVIOUS
<1>8. /\ z \in Seq(Cells) /\ Len(z) = n + l
      /\ \A k \in 1 .. n + l :
           z[k] = IF k <= i THEN s[k] ELSE IF k <= i + l THEN t[k - i] ELSE s[k - l]
  BY <1>7, SplicedReads DEF IsSpliced
<1>9. ASSUME NEW k \in 1 .. n + l
      PROVE  z[k] = w[k - 1]
  <2>1. k - 1 \in 0 .. c - 1
    OBVIOUS
  <2>2. CASE k <= i
    <3>1. s[k] = u[k - 1]
      BY <2>2 DEF Reads
    <3>2. w[k - 1] = v[k - 1]
      BY <1>6, <2>1, <2>2
    <3>3. v[k - 1] = u[k - 1]
      BY <1>2, <1>3, <2>1, <2>2
    <3>4. QED
      BY <1>8, <2>2, <3>1, <3>2, <3>3
  <2>3. CASE i < k /\ k <= i + l
    <3>1. w[k - 1] = t[k - 1 - i + 1] /\ k - 1 - i + 1 = k - i
      BY <1>6, <2>1, <2>3
    <3>2. QED
      BY <1>8, <2>3, <3>1
  <2>4. CASE i + l < k
    <3>1. w[k - 1] = v[k - 1]
      BY <1>6, <2>1, <2>4
    <3>2. v[k - 1] = u[i + (k - 1 - (i + l))] /\ i + (k - 1 - (i + l)) = k - l - 1
      BY <1>2, <1>3, <2>1, <2>4
    <3>3. k - l \in 1 .. n
      BY <2>4
    <3>4. s[k - l] = u[k - l - 1]
      BY <3>3 DEF Reads
    <3>5. QED
      BY <1>8, <2>4, <3>1, <3>2, <3>4
  <2>5. QED
    BY <2>2, <2>3, <2>4
<1>10. Reads(w, z)
  BY <1>8, <1>9 DEF Reads
<1>11. QED
  BY <1>1, <1>4, <1>6, <1>7, <1>10

(* A run taken out, the elems behind it moved down.                        *)
LEMMA CutCells ==
  ASSUME NEW c \in Nat, NEW u \in [0 .. c - 1 -> Cells],
         NEW n \in Nat, NEW s \in Seq(Cells), Len(s) = n, Reads(u, s), n <= c,
         NEW i \in Nat, NEW l \in Nat, i + l <= n
  PROVE  LET w == Moved(u, i, i + l, n - i - l)
         IN  w \in [0 .. c - 1 -> Cells] /\ Reads(w, Cut(s, i, l))
<1>1. PICK w : w = Moved(u, i, i + l, n - i - l)
  OBVIOUS
<1>2. PICK from \in Nat, h \in Nat : from = i + l /\ h = n - i - l
  OBVIOUS
<1>20. from \in Nat /\ h \in Nat /\ i \in Nat /\ from + h <= c
  BY <1>2
<1>3. /\ w \in [0 .. c - 1 -> Cells]
      /\ \A k \in 0 .. c - 1 :
           w[k] = IF i <= k /\ k < i + h THEN u[from + (k - i)] ELSE u[k]
  <2>1. w = Moved(u, i, from, h)
    BY <1>1, <1>2
  <2>2. from + h <= c
    BY <1>20
  <2>3. HasMoved(Moved(u, i, from, h), c, u, i, from, h)
    BY <1>20, <2>2, MovedReads
  <2>4. QED
    BY <2>1, <2>3 DEF HasMoved
<1>4. PICK z : z = Cut(s, i, l)
  OBVIOUS
<1>5. /\ z \in Seq(Cells) /\ Len(z) = n - l
      /\ \A k \in 1 .. n - l : z[k] = IF k <= i THEN s[k] ELSE s[k + l]
  <2>1. IsCut(z, n, s, i, l)
    BY <1>4, CutReads
  <2>2. QED
    BY <2>1 DEF IsCut
<1>6. ASSUME NEW k \in 1 .. n - l
      PROVE  z[k] = w[k - 1]
  <2>1. k - 1 \in 0 .. c - 1
    OBVIOUS
  <2>2. CASE k <= i
    <3>1. s[k] = u[k - 1]
      BY <2>2 DEF Reads
    <3>2. QED
      BY <1>2, <1>3, <1>5, <2>1, <2>2, <3>1
  <2>3. CASE i < k
    <3>1. w[k - 1] = u[i + l + (k - 1 - i)] /\ i + l + (k - 1 - i) = k + l - 1
      BY <1>2, <1>3, <2>1, <2>3
    <3>2. k + l \in 1 .. n
      OBVIOUS
    <3>3. s[k + l] = u[k + l - 1]
      BY <3>2 DEF Reads
    <3>4. QED
      BY <1>5, <2>3, <3>1, <3>3
  <2>4. QED
    BY <2>2, <2>3
<1>7. Reads(w, z)
  BY <1>5, <1>6 DEF Reads
<1>8. QED
  BY <1>1, <1>3, <1>4, <1>7

(* Zeroed elems written behind the last.                                   *)
LEMMA ExtendedCells ==
  ASSUME NEW c \in Nat, NEW u \in [0 .. c - 1 -> Cells],
         NEW n \in Nat, NEW s \in Seq(Cells), Len(s) = n, Reads(u, s),
         NEW l \in Nat, n + l <= c
  PROVE  LET w == Written(u, n, [i \in 1 .. l |-> Zero])
         IN  w \in [0 .. c - 1 -> Cells] /\ Reads(w, Extended(s, l))
<1>1. PICK t : t = [i \in 1 .. l |-> Zero]
  OBVIOUS
<1>2. Zero \in Cells
  BY DEF Cells
<1>3. t \in Seq(Cells)
  BY <1>1, <1>2
<1>4. Len(t) = l
  BY <1>1
<1>5. PICK w : w = Written(u, n, t)
  OBVIOUS
<1>6. /\ w \in [0 .. c - 1 -> Cells]
      /\ \A k \in 0 .. c - 1 : w[k] = IF n <= k /\ k < n + Len(t) THEN t[k - n + 1] ELSE u[k]
  BY <1>3, <1>5, WrittenReads DEF HasRun
<1>7. PICK z : z = Extended(s, l)
  OBVIOUS
<1>8. /\ z \in Seq(Cells) /\ Len(z) = n + l
      /\ \A k \in 1 .. n + l : z[k] = IF k <= n THEN s[k] ELSE Zero
  <2>1. IsExtended(z, n, s, l)
    BY <1>7, ExtendedReads
  <2>2. QED
    BY <2>1 DEF IsExtended
<1>9. ASSUME NEW k \in 1 .. n + l
      PROVE  z[k] = w[k - 1]
  <2>1. k - 1 \in 0 .. c - 1
    OBVIOUS
  <2>2. CASE k <= n
    <3>1. s[k] = u[k - 1]
      BY <2>2 DEF Reads
    <3>2. QED
      BY <1>6, <1>8, <2>1, <2>2, <3>1
  <2>3. CASE n < k
    <3>1. w[k - 1] = t[k - 1 - n + 1] /\ k - 1 - n + 1 \in 1 .. l
      BY <1>4, <1>6, <2>1, <2>3
    <3>2. QED
      BY <1>1, <1>8, <2>3, <3>1
  <2>4. QED
    BY <2>2, <2>3
<1>10. Reads(w, z)
  BY <1>8, <1>9 DEF Reads
<1>11. QED
  BY <1>1, <1>5, <1>6, <1>7, <1>10

(* A run written from the first place on.                                  *)
LEMMA FilledCells ==
  ASSUME NEW c \in Nat, NEW u \in [0 .. c - 1 -> Cells], NEW t \in Seq(Cells), Len(t) <= c
  PROVE  LET w == Written(u, 0, t)
         IN  w \in [0 .. c - 1 -> Cells] /\ Reads(w, t)
<1>1. PICK w : w = Written(u, 0, t)
  OBVIOUS
<1>2. /\ w \in [0 .. c - 1 -> Cells]
      /\ \A k \in 0 .. c - 1 : w[k] = IF 0 <= k /\ k < 0 + Len(t) THEN t[k - 0 + 1] ELSE u[k]
  BY <1>1, WrittenReads DEF HasRun
<1>3. PICK l \in Nat : l = Len(t)
  BY LenProperties
<1>4. ASSUME NEW k \in 1 .. l
      PROVE  t[k] = w[k - 1]
  <2>1. k - 1 \in 0 .. c - 1 /\ k - 1 < 0 + l /\ k - 1 - 0 + 1 = k
    BY <1>3
  <2>2. QED
    BY <1>2, <1>3, <2>1
<1>5. QED
  BY <1>1, <1>2, <1>3, <1>4 DEF Reads

(* The n elems that are read of c cells.                                   *)
HaveElems(w, c, t, n) == w \in [0 .. c - 1 -> Cells] /\ t \in Seq(Cells) /\ Len(t) = n /\ Reads(w, t)

(* One elem replaced, and two of a sequence that change places.            *)
Replaced(s, i, v) == [s EXCEPT ![i + 1] = v]
Crossed(s, i, j)  == [s EXCEPT ![i + 1] = s[j + 1], ![j + 1] = s[i + 1]]

(* One elem written.                                                       *)
LEMMA SetCellReads ==
  ASSUME NEW c \in Nat, NEW u \in [0 .. c - 1 -> Cells],
         NEW n \in Nat, NEW s \in Seq(Cells), Len(s) = n, Reads(u, s), n <= c,
         NEW i \in 0 .. n - 1, NEW v \in Cells
  PROVE  HaveElems(Written(u, i, <<v>>), c, Replaced(s, i, v), n)
<1>1. PICK o : o = <<v>>
  OBVIOUS
<1>2. o \in Seq(Cells)
  BY <1>1
<1>3. Len(o) = 1 /\ o[1] = v
  BY <1>1
<1>4. PICK w : w = Written(u, i, o)
  OBVIOUS
<1>5. i \in Nat
  OBVIOUS
<1>6. /\ w \in [0 .. c - 1 -> Cells]
      /\ \A k \in 0 .. c - 1 : w[k] = IF i <= k /\ k < i + Len(o) THEN o[k - i + 1] ELSE u[k]
  BY <1>2, <1>4, <1>5, WrittenReads DEF HasRun
<1>7. PICK t : t = [s EXCEPT ![i + 1] = v]
  OBVIOUS
<1>8. s \in [1 .. n -> Cells]
  BY LenProperties
<1>9. t \in [1 .. n -> Cells] /\ t[i + 1] = v /\ \A k \in 1 .. n : k # i + 1 => t[k] = s[k]
  BY <1>7, <1>8
<1>10. t \in Seq(Cells) /\ Len(t) = n
  BY <1>9
<1>11. ASSUME NEW k \in 1 .. n
       PROVE  t[k] = w[k - 1]
  <2>1. k - 1 \in 0 .. c - 1
    OBVIOUS
  <2>2. CASE k = i + 1
    <3>1. w[i] = o[1] /\ k - 1 = i
      BY <1>3, <1>6, <2>1, <2>2
    <3>2. QED
      BY <1>3, <1>9, <2>2, <3>1
  <2>3. CASE k # i + 1
    <3>1. s[k] = u[k - 1]
      BY DEF Reads
    <3>2. w[k - 1] = u[k - 1]
      BY <1>3, <1>6, <2>1, <2>3
    <3>3. QED
      BY <1>9, <2>3, <3>1, <3>2
  <2>4. QED
    BY <2>2, <2>3
<1>12. QED
  BY <1>1, <1>4, <1>6, <1>7, <1>10, <1>11 DEF Reads, HaveElems, Replaced

(* Two elems change places.                                                *)
LEMMA SwappedCellsRead ==
  ASSUME NEW c \in Nat, NEW u \in [0 .. c - 1 -> Cells],
         NEW n \in Nat, NEW s \in Seq(Cells), Len(s) = n, Reads(u, s), n <= c,
         NEW i \in 0 .. n - 1, NEW j \in 0 .. n - 1
  PROVE  HaveElems(Exchanged(u, i, j), c, Crossed(s, i, j), n)
<1>1. PICK w : w = [u EXCEPT ![i] = u[j], ![j] = u[i]]
  OBVIOUS
<1>2. i \in 0 .. c - 1 /\ j \in 0 .. c - 1
  OBVIOUS
<1>3. w \in [0 .. c - 1 -> Cells] /\ \A k \in 0 .. c - 1 : w[k] = IF k = j THEN u[i] ELSE IF k = i THEN u[j] ELSE u[k]
  BY <1>1, <1>2
<1>4. PICK t : t = [s EXCEPT ![i + 1] = s[j + 1], ![j + 1] = s[i + 1]]
  OBVIOUS
<1>5. s \in [1 .. n -> Cells]
  BY LenProperties
<1>6. PICK a, b : a = i + 1 /\ b = j + 1
  OBVIOUS
<1>7. a \in 1 .. n /\ b \in 1 .. n /\ a - 1 = i /\ b - 1 = j
  BY <1>6
<1>8. t \in [1 .. n -> Cells] /\ \A k \in 1 .. n : t[k] = IF k = b THEN s[a] ELSE IF k = a THEN s[b] ELSE s[k]
  BY <1>4, <1>5, <1>6, <1>7
<1>9. t \in Seq(Cells) /\ Len(t) = n
  BY <1>8
<1>10. \A k \in 1 .. n : s[k] = u[k - 1]
  BY DEF Reads
<1>11. ASSUME NEW k \in 1 .. n
       PROVE  t[k] = w[k - 1]
  <2>1. k - 1 \in 0 .. c - 1 /\ (k - 1 = j <=> k = b) /\ (k - 1 = i <=> k = a)
    BY <1>6
  <2>2. s[a] = u[i] /\ s[b] = u[j] /\ s[k] = u[k - 1]
    BY <1>7, <1>10
  <2>3. QED
    BY <1>3, <1>8, <2>1, <2>2
<1>12. QED
  BY <1>1, <1>3, <1>4, <1>9, <1>11 DEF Reads, HaveElems, Crossed, Exchanged
-----------------------------------------------------------------------------
(* Vec: calls on one object.                                               *)

(* What there was room for is written, from the first place to the last.   *)
LEMMA Rewritten ==
  ASSUME NEW d, NEW m, IsMemory(m), StructOK("vec", d, m), NEW r, NEW n \in Nat, Roomier(d, m, r, n),
         NEW l \in Nat, l <= n, NEW w \in [0 .. r.d.cap - 1 -> Cells],
         NEW t \in Seq(Cells), Len(t) = l, Reads(w, t)
  PROVE  Makes("vec", d, m, Result(OK, WithLen(r.d, l), SetCells(r.d, r.m, w)), t)
<1>1. PICK e, q : e = r.d /\ q = r.m
  OBVIOUS
<1>2. Turns("vec", d, m, e, q)
  BY <1>1 DEF Roomier
<1>3. e.cap \in Nat /\ e.cap >= n
  BY <1>1, RoomierReads
<1>4. l \in 0 .. e.cap /\ w \in [0 .. e.cap - 1 -> Cells]
  BY <1>1, <1>3
<1>5. Turns("vec", d, m, WithLen(e, l), SetCells(e, q, w)) /\ ToSpan(WithLen(e, l), SetCells(e, q, w)) = t
  BY <1>2, <1>4, Stored
<1>6. PICK p : p = Result(OK, WithLen(e, l), SetCells(e, q, w))
  OBVIOUS
<1>7. p.st = OK /\ p.d = WithLen(e, l) /\ p.m = SetCells(e, q, w)
  BY <1>6 DEF Result
<1>8. QED
  BY <1>1, <1>5, <1>6, <1>7 DEF Makes

(* The cells of either kind are written, and the length stays.             *)
LEMMA Overwritten ==
  ASSUME NEW kind, NEW d, NEW m, IsMemory(m), StructOK(kind, d, m),
         NEW w \in [0 .. RoomOf(kind, d) - 1 -> Cells],
         NEW t \in Seq(Cells), Len(t) = d.len, Reads(w, t)
  PROVE  Makes(kind, d, m, Result(OK, d, SetCells(d, m, w)), t)
<1>1. PICK q : q = SetCells(d, m, w)
  OBVIOUS
<1>2. Turns(kind, d, m, d, q) /\ CellsOf(d, q) = w
  BY <1>1, Writing
<1>3. StructOK(kind, d, q)
  BY <1>2 DEF Turns
<1>4. ToSpan(d, q) = t
  BY <1>2, <1>3, SpanIsRead
<1>5. PICK p : p = Result(OK, d, q)
  OBVIOUS
<1>6. p.st = OK /\ p.d = d /\ p.m = q
  BY <1>5 DEF Result
<1>7. QED
  BY <1>1, <1>2, <1>4, <1>5, <1>6 DEF Makes

(* tda_vec_insert.                                                         *)
LEMMA InsertMakes ==
  ASSUME NEW d, NEW m, IsMemory(m), StructOK("vec", d, m), NEW i \in 0 .. d.len, NEW v \in Cells, NEW room
  PROVE  Answers("vec", d, m, Inserted(d, m, i, v, room), Spliced(ToSpan(d, m), i, <<v>>))
<1>1. PICK r, p : r = ReserveOne(d, m, room) /\ p = Inserted(d, m, i, v, room)
  OBVIOUS
<1>2. PICK n \in Nat, l \in Nat : n = d.len /\ l = n + 1
  BY VecFacts
<1>3. GetsRoom(d, m, r, l)
  BY <1>1, <1>2, ReserveOneTurns
<1>4. CASE r = Result(NoMem, d, m)
  <2>1. p = r
    BY <1>1, <1>4 DEF Inserted, Result
  <2>2. QED
    BY <1>1, <1>4, <2>1 DEF Answers
<1>5. CASE Roomier(d, m, r, l)
  <2>1. PICK e, q, u, c, s : e = r.d /\ q = r.m /\ u = CellsOf(r.d, r.m) /\ c = r.d.cap /\ s = ToSpan(d, m)
    OBVIOUS
  <2>2. /\ c \in Nat /\ c >= l /\ e.len = n /\ r.st # NoMem
        /\ u \in [0 .. c - 1 -> Cells] /\ Reads(u, s)
    BY <1>2, <1>5, <2>1, RoomierReads, MemoryAssumption DEF Roomier
  <2>3. s \in Seq(Cells) /\ Len(s) = n
    BY <1>2, <2>1, SpanIsRead
  <2>4. PICK o : o = <<v>>
    OBVIOUS
  <2>5. o \in Seq(Cells)
    BY <2>4
  <2>6. Len(o) = 1
    BY <2>4
  <2>7. PICK w, t : w = Written(Moved(u, i + 1, i, n - i), i, o) /\ t = Spliced(s, i, o)
    OBVIOUS
  <2>8. i \in 0 .. n /\ n + 1 <= c
    BY <1>2, <2>2
  <2>9. w \in [0 .. c - 1 -> Cells] /\ Reads(w, t)
    BY <2>2, <2>3, <2>5, <2>6, <2>7, <2>8, SplicedCells
  <2>10. IsSpliced(t, n, s, i, 1, o)
    BY <2>3, <2>5, <2>6, <2>7, <2>8, SplicedReads
  <2>11. t \in Seq(Cells) /\ Len(t) = l
    BY <1>2, <2>10 DEF IsSpliced
  <2>12. Makes("vec", d, m, Result(OK, WithLen(r.d, l), SetCells(r.d, r.m, w)), t)
    BY <1>5, <2>1, <2>9, <2>11, Rewritten
  <2>13. p = Result(OK, WithLen(r.d, l), SetCells(r.d, r.m, w))
    BY <1>1, <1>2, <2>1, <2>2, <2>4, <2>7 DEF Inserted, WithLen
  <2>14. QED
    BY <1>1, <2>1, <2>4, <2>7, <2>12, <2>13 DEF Answers
<1>6. QED
  BY <1>3, <1>4, <1>5 DEF GetsRoom

(* tda_vec_insert_span and extend.                                         *)
LEMMA InsertSpanMakes ==
  ASSUME NEW d, NEW m, IsMemory(m), StructOK("vec", d, m), NEW i \in 0 .. d.len, NEW o \in Seq(Cells), NEW room
  PROVE  Answers("vec", d, m, InsertedSpan(d, m, i, o, room), Spliced(ToSpan(d, m), i, o))
<1>1. PICK n \in Nat, k \in Nat, l \in Nat : n = d.len /\ k = Len(o) /\ l = n + k
  BY VecFacts, LenProperties
<1>2. PICK r, p : /\ r = IF l > d.cap THEN ReserveFor(d, m, l, room) ELSE Result(OK, d, m)
                  /\ p = InsertedSpan(d, m, i, o, room)
  OBVIOUS
<1>3. PICK s, t : s = ToSpan(d, m) /\ t = Spliced(s, i, o)
  OBVIOUS
<1>4. s \in Seq(Cells) /\ Len(s) = n
  BY <1>1, <1>3, SpanIsRead
<1>5. i \in 0 .. n
  BY <1>1
<1>6. IsSpliced(t, n, s, i, k, o)
  BY <1>1, <1>3, <1>4, <1>5, SplicedReads
<1>7. t \in Seq(Cells) /\ Len(t) = l
  BY <1>1, <1>6 DEF IsSpliced
<1>8. GetsRoom(d, m, r, l)
  <2>1. CASE l > d.cap
    BY <1>2, <2>1, ReserveForTurns
  <2>2. CASE ~(l > d.cap)
    <3>1. PICK z : z = Result(OK, d, m)
      OBVIOUS
    <3>2. z.st = OK /\ z.d = d /\ z.m = m
      BY <3>1 DEF Result
    <3>3. d.cap \in Nat /\ d.cap >= l /\ d.cap >= d.cap
      BY <2>2, VecFacts
    <3>4. Roomier(d, m, z, l)
      BY <3>2, <3>3, NothingTurns DEF Roomier
    <3>5. QED
      BY <1>2, <2>2, <3>1, <3>4 DEF GetsRoom
  <2>3. QED
    BY <2>1, <2>2
<1>9. CASE o = <<>>
  <2>1. p = Result(OK, d, m)
    BY <1>2, <1>9 DEF InsertedSpan
  <2>2. p.st = OK /\ p.d = d /\ p.m = m
    BY <2>1 DEF Result
  <2>3. k = 0 /\ l = n
    BY <1>1, <1>9
  <2>4. Reads(CellsOf(d, m), s)
    BY <1>3, SpanIsRead
  <2>5. \A j \in 1 .. n : t[j] = s[j]
    BY <1>5, <1>6, <2>3 DEF IsSpliced
  <2>6. Reads(CellsOf(d, m), t)
    BY <1>4, <1>7, <2>3, <2>4, <2>5 DEF Reads
  <2>7. ToSpan(d, m) = t
    BY <1>1, <1>7, <2>3, <2>6, SpanIsRead
  <2>8. Turns("vec", d, m, d, m)
    BY NothingTurns
  <2>9. QED
    BY <1>2, <1>3, <2>2, <2>7, <2>8 DEF Answers, Makes
<1>10. CASE o # <<>> /\ (Overflows(l, 1) \/ r = Result(NoMem, d, m))
  <2>1. p = Result(NoMem, d, m)
    BY <1>1, <1>2, <1>10 DEF InsertedSpan, Result
  <2>2. QED
    BY <1>2, <2>1 DEF Answers
<1>11. CASE o # <<>> /\ ~Overflows(l, 1) /\ Roomier(d, m, r, l)
  <2>1. PICK u, c : u = CellsOf(r.d, r.m) /\ c = r.d.cap
    OBVIOUS
  <2>2. /\ c \in Nat /\ c >= l /\ r.st # NoMem
        /\ u \in [0 .. c - 1 -> Cells] /\ Reads(u, s)
    BY <1>3, <1>11, <2>1, RoomierReads, MemoryAssumption DEF Roomier
  <2>3. PICK w : w = Written(Moved(u, i + k, i, n - i), i, o)
    OBVIOUS
  <2>4. n + k <= c
    BY <1>1, <2>2
  <2>5. w \in [0 .. c - 1 -> Cells] /\ Reads(w, t)
    BY <1>1, <1>3, <1>4, <1>5, <2>2, <2>3, <2>4, SplicedCells
  <2>6. Makes("vec", d, m, Result(OK, WithLen(r.d, l), SetCells(r.d, r.m, w)), t)
    BY <1>7, <1>11, <2>1, <2>5, Rewritten
  <2>7. p = Result(OK, WithLen(r.d, l), SetCells(r.d, r.m, w))
    BY <1>1, <1>2, <1>11, <2>1, <2>2, <2>3 DEF InsertedSpan, WithLen
  <2>8. QED
    BY <1>2, <1>3, <2>6, <2>7 DEF Answers
<1>12. QED
  BY <1>8, <1>9, <1>10, <1>11 DEF GetsRoom

(* tda_vec_remove and remove_range.                                        *)
LEMMA RemoveMakes ==
  ASSUME NEW d, NEW m, IsMemory(m), StructOK("vec", d, m), NEW i \in Nat, NEW l \in Nat, i + l <= d.len
  PROVE  Makes("vec", d, m, RemovedRange(d, m, i, l), Cut(ToSpan(d, m), i, l))
<1>1. PICK n, c, u : n = d.len /\ c = d.cap /\ u = CellsOf(d, m) /\ n \in Nat /\ c \in Nat
  BY VecFacts
<1>2. /\ n <= c /\ i + l <= n /\ u \in [0 .. c - 1 -> Cells]
      /\ RoomOf("vec", d) = c
  BY <1>1, VecFacts
<1>3. PICK s, t : s = ToSpan(d, m) /\ t = Cut(s, i, l)
  OBVIOUS
<1>4. s \in Seq(Cells) /\ Len(s) = n /\ Reads(u, s)
  BY <1>1, <1>3, SpanIsRead
<1>5. IsCut(t, n, s, i, l)
  BY <1>1, <1>2, <1>3, <1>4, CutReads
<1>6. t \in Seq(Cells) /\ Len(t) = n - l /\ n - l \in 0 .. c
  BY <1>1, <1>2, <1>5 DEF IsCut
<1>7. PICK w : w = Moved(u, i, i + l, n - i - l)
  OBVIOUS
<1>8. w \in [0 .. c - 1 -> Cells] /\ Reads(w, t)
  BY <1>1, <1>2, <1>3, <1>4, <1>7, CutCells
<1>9. Turns("vec", d, m, d, m)
  BY NothingTurns
<1>10. PICK f, q : f = WithLen(d, n - l) /\ q = SetCells(d, m, w)
  OBVIOUS
<1>11. Turns("vec", d, m, f, q) /\ ToSpan(f, q) = t
  BY <1>1, <1>6, <1>8, <1>9, <1>10, Stored
<1>12. PICK p : p = RemovedRange(d, m, i, l)
  OBVIOUS
<1>13. p = Result(OK, f, q)
  BY <1>1, <1>7, <1>10, <1>12 DEF RemovedRange, WithLen
<1>14. p.st = OK /\ p.d = f /\ p.m = q
  BY <1>13 DEF Result
<1>15. QED
  BY <1>3, <1>11, <1>12, <1>14 DEF Makes

(* What is left when the last elems go: pop, clear and a resize to less.   *)
LEMMA TruncateMakes ==
  ASSUME NEW d, NEW m, IsMemory(m), StructOK("vec", d, m), NEW n \in 0 .. d.len
  PROVE  Makes("vec", d, m, Result(OK, WithLen(d, n), m), SS!FirstN(ToSpan(d, m), n))
<1>1. PICK f, s, t : f = WithLen(d, n) /\ s = ToSpan(d, m) /\ t = SS!FirstN(s, n)
  OBVIOUS
<1>2. d.len \in Nat /\ d.cap \in Nat /\ d.len <= d.cap
  BY VecFacts
<1>3. s \in Seq(Cells) /\ Len(s) = d.len /\ Reads(CellsOf(d, m), s)
  BY <1>1, SpanIsRead
<1>4. n \in 0 .. Len(s) /\ n \in 0 .. d.cap
  BY <1>2, <1>3
<1>5. t \in Seq(Cells) /\ Len(t) = n /\ \A k \in 1 .. n : t[k] = s[k]
  BY <1>1, <1>3, <1>4, CutAt
<1>6. Turns("vec", d, m, f, m) /\ f.len = n /\ CellsOf(f, m) = CellsOf(d, m)
  BY <1>1, <1>4, LengthTurns DEF WithLen
<1>7. StructOK("vec", f, m)
  BY <1>6 DEF Turns
<1>8. Reads(CellsOf(f, m), t)
  <2>1. \A k \in 1 .. Len(s) : s[k] = CellsOf(d, m)[k - 1]
    BY <1>3 DEF Reads
  <2>2. \A k \in 1 .. n : k \in 1 .. Len(s)
    BY <1>2, <1>3
  <2>3. \A k \in 1 .. n : t[k] = CellsOf(f, m)[k - 1]
    BY <1>5, <1>6, <2>1, <2>2
  <2>4. QED
    BY <1>5, <2>3 DEF Reads
<1>9. ToSpan(f, m) = t
  BY <1>5, <1>6, <1>7, <1>8, SpanIsRead
<1>10. PICK p : p = Result(OK, f, m)
  OBVIOUS
<1>11. p.st = OK /\ p.d = f /\ p.m = m
  BY <1>10 DEF Result
<1>12. QED
  BY <1>1, <1>6, <1>9, <1>10, <1>11 DEF Makes

(* Nothing at all is an empty run.                                         *)
LEMMA FirstNone ==
  ASSUME NEW s \in Seq(Cells)
  PROVE  SS!FirstN(s, 0) = <<>>
<1>1. 0 \in 0 .. Len(s)
  BY LenProperties
<1>2. SS!FirstN(s, 0) \in Seq(Cells) /\ Len(SS!FirstN(s, 0)) = 0
  BY <1>1, CutAt
<1>3. QED
  BY <1>2, EmptySeq

(* tda_vec_resize.                                                         *)
LEMMA ResizeMakes ==
  ASSUME NEW d, NEW m, IsMemory(m), StructOK("vec", d, m), NEW n \in Nat, NEW room
  PROVE  /\ n <= d.len => Makes("vec", d, m, Resized(d, m, n, room), SS!FirstN(ToSpan(d, m), n))
         /\ n > d.len => Answers("vec", d, m, Resized(d, m, n, room), Extended(ToSpan(d, m), n - d.len))
<1>1. PICK c, l, s : c = d.cap /\ l = d.len /\ s = ToSpan(d, m) /\ c \in Nat /\ l \in Nat
  BY VecFacts
<1>2. PICK r, p : /\ r = IF n > d.cap THEN ReserveFor(d, m, n, room) ELSE Result(OK, d, m)
                  /\ p = Resized(d, m, n, room)
  OBVIOUS
<1>3. s \in Seq(Cells) /\ Len(s) = l
  BY <1>1, SpanIsRead
<1>4. CASE n <= d.len
  <2>1. n \in 0 .. d.len
    BY <1>1, <1>4
  <2>2. p = Result(OK, WithLen(d, n), m)
    BY <1>2, <1>4 DEF Resized, WithLen
  <2>3. Makes("vec", d, m, Result(OK, WithLen(d, n), m), SS!FirstN(ToSpan(d, m), n))
    BY <2>1, TruncateMakes
  <2>4. QED
    BY <1>1, <1>2, <1>4, <2>2, <2>3
<1>5. CASE n > d.len
  <2>1. PICK k \in Nat : k = n - l
    BY <1>1, <1>5
  <2>2. GetsRoom(d, m, r, n)
    <3>1. CASE n > d.cap
      BY <1>2, <3>1, ReserveForTurns
    <3>2. CASE ~(n > d.cap)
      <4>1. PICK z : z = Result(OK, d, m)
        OBVIOUS
      <4>2. z.st = OK /\ z.d = d /\ z.m = m
        BY <4>1 DEF Result
      <4>3. d.cap \in Nat /\ d.cap >= n /\ d.cap >= d.cap
        BY <3>2, VecFacts
      <4>4. Roomier(d, m, z, n)
        BY <4>2, <4>3, NothingTurns DEF Roomier
      <4>5. QED
        BY <1>2, <3>2, <4>1, <4>4 DEF GetsRoom
    <3>3. QED
      BY <3>1, <3>2
  <2>3. CASE r = Result(NoMem, d, m)
    <3>1. ~(n <= d.len)
      BY <1>1, <1>5
    <3>2. p = r
      BY <1>2, <2>3, <3>1 DEF Resized, Result
    <3>3. QED
      BY <1>1, <1>2, <2>3, <3>1, <3>2 DEF Answers
  <2>4. CASE Roomier(d, m, r, n)
    <3>1. PICK u, h : u = CellsOf(r.d, r.m) /\ h = r.d.cap
      OBVIOUS
    <3>2. /\ h \in Nat /\ h >= n /\ r.st # NoMem
          /\ u \in [0 .. h - 1 -> Cells] /\ Reads(u, s)
      BY <1>1, <2>4, <3>1, RoomierReads, MemoryAssumption DEF Roomier
    <3>3. PICK w, t : w = Written(u, l, [i \in 1 .. k |-> Zero]) /\ t = Extended(s, k)
      OBVIOUS
    <3>4. l + k = n /\ l + k <= h
      BY <1>1, <2>1, <3>2
    <3>5. w \in [0 .. h - 1 -> Cells] /\ Reads(w, t)
      BY <1>3, <3>2, <3>3, <3>4, ExtendedCells
    <3>6. IsExtended(t, l, s, k)
      BY <1>3, <3>3, ExtendedReads
    <3>7. t \in Seq(Cells) /\ Len(t) = n
      BY <3>4, <3>6 DEF IsExtended
    <3>8. n \in Nat /\ n <= n
      OBVIOUS
    <3>9. Makes("vec", d, m, Result(OK, WithLen(r.d, n), SetCells(r.d, r.m, w)), t)
      BY <2>4, <3>1, <3>5, <3>7, <3>8, Rewritten
    <3>10. ~(n <= d.len)
      BY <1>1, <1>5
    <3>11. p = Result(OK, WithLen(r.d, n), SetCells(r.d, r.m, w))
      BY <1>1, <1>2, <2>1, <3>1, <3>2, <3>3, <3>10 DEF Resized, WithLen
    <3>12. QED
      BY <1>1, <1>2, <2>1, <3>3, <3>9, <3>10, <3>11 DEF Answers
  <2>5. QED
    BY <2>2, <2>3, <2>4 DEF GetsRoom
<1>6. n <= d.len \/ n > d.len
  BY <1>1
<1>7. QED
  BY <1>4, <1>5, <1>6

(* tda_vec_reserve, as a call.                                             *)
LEMMA ReserveMakes ==
  ASSUME NEW d, NEW m, IsMemory(m), StructOK("vec", d, m), NEW n \in Nat, NEW room
  PROVE  Answers("vec", d, m, Reserve(d, m, n, room), ToSpan(d, m))
<1>1. PICK r : r = Reserve(d, m, n, room)
  OBVIOUS
<1>2. GetsRoom(d, m, r, n)
  BY <1>1, ReserveTurns
<1>3. CASE Roomier(d, m, r, n)
  BY <1>1, <1>3, RoomierReads DEF Answers, Makes, Roomier
<1>4. QED
  BY <1>1, <1>2, <1>3 DEF GetsRoom, Answers
-----------------------------------------------------------------------------
(* Vec: room given back, and assignment.                                   *)

(* The elems of a vec without any.                                         *)
LEMMA NoneIsRead ==
  ASSUME NEW kind, NEW d, NEW m, StructOK(kind, d, m), d.len = 0
  PROVE  ToSpan(d, m) = <<>>
<1>1. ToSpan(d, m) \in Seq(Cells) /\ Len(ToSpan(d, m)) = 0
  BY SpanIsRead
<1>2. QED
  BY <1>1, EmptySeq

Hollow(d) == [d EXCEPT !.data = Null, !.len = 0, !.cap = 0]

(* release.                                                                *)
LEMMA ReleaseMakes ==
  ASSUME NEW d, NEW m, IsMemory(m), StructOK("vec", d, m)
  PROVE  Makes("vec", d, m, Released(d, m), <<>>)
<1>1. PICK e, q : e = Hollow(d) /\ q = GiveBack(m, d.data, d.al, CapBytes(d))
  OBVIOUS
<1>2. d \in Vecs /\ d.al \in Als /\ d.data \in Blocks \cup {Null} /\ Claim(d.data, d.al, d.cap, m)
  BY VecFacts
<1>3. e \in Vecs /\ e.data = Null /\ e.len = 0 /\ e.cap = 0 /\ e.al = d.al
  BY <1>1, <1>2 DEF Vecs, Hollow
<1>4. q = GiveBack(m, d.data, d.al, d.cap * ElemSize)
  BY <1>1 DEF CapBytes
<1>5. /\ IsMemory(q) /\ q.hdrs = m.hdrs
      /\ d.data # Null => q.lent[d.data] = Null
      /\ \A c \in Blocks : c # d.data => q.lent[c] = m.lent[c]
  BY <1>2, <1>4, GivingBack
<1>6. Trades(d.data, m, e.data, q)
  BY <1>2, <1>3, <1>5 DEF Trades
<1>7. Claim(Null, e.al, 0, q)
  BY <1>2, <1>3, ClaimMade
<1>8. StructOK("vec", e, q)
  BY <1>3, <1>7 DEF StructOK, RoomOf
<1>9. ToSpan(e, q) = <<>>
  BY <1>3, <1>8, NoneIsRead
<1>10. PICK r : r = Released(d, m)
  OBVIOUS
<1>11. r = Result(OK, e, q)
  BY <1>1, <1>10 DEF Released, Hollow
<1>12. r.st = OK /\ r.d = e /\ r.m = q
  BY <1>11 DEF Result
<1>13. QED
  BY <1>3, <1>5, <1>6, <1>8, <1>9, <1>10, <1>12 DEF Makes, Turns

(* tda_vec_shrink_to_fit.                                                  *)
LEMMA ShrinkMakes ==
  ASSUME NEW d, NEW m, IsMemory(m), StructOK("vec", d, m), NEW room
  PROVE  Answers("vec", d, m, Shrunk(d, m, room), ToSpan(d, m))
<1>1. PICK new, p : /\ new = Realloc(m, d.data, CapBytes(d), d.al, d.len, ElemSize, room)
                    /\ p = Shrunk(d, m, room)
  OBVIOUS
<1>2. PICK n, c, s : n = d.len /\ c = d.cap /\ s = ToSpan(d, m) /\ n \in Nat /\ c \in Nat /\ n <= c /\ c <= SizeMax
  BY VecFacts
<1>3. s \in Seq(Cells) /\ Len(s) = n /\ Reads(CellsOf(d, m), s)
  BY <1>2, SpanIsRead
<1>4. CASE d.len = d.cap
  <2>1. p = Result(OK, d, m)
    BY <1>1, <1>4 DEF Shrunk
  <2>2. p.st = OK /\ p.d = d /\ p.m = m
    BY <2>1 DEF Result
  <2>3. QED
    BY <1>1, <2>2, NothingTurns DEF Answers, Makes
<1>5. CASE d.len # d.cap /\ d.len = 0
  <2>1. p = Released(d, m)
    BY <1>1, <1>5 DEF Shrunk
  <2>2. ToSpan(d, m) = <<>>
    BY <1>5, NoneIsRead
  <2>3. QED
    BY <1>1, <2>1, <2>2, ReleaseMakes DEF Answers
<1>6. CASE d.len # d.cap /\ d.len # 0 /\ new.b = Null
  BY <1>1, <1>6 DEF Shrunk, Answers
<1>7. CASE d.len # d.cap /\ d.len # 0 /\ new.b # Null
  <2>1. PICK e : e = OnBlock(d, new.b, n)
    OBVIOUS
  <2>2. n \in 1 .. SizeMax /\ d.len <= n
    BY <1>2, <1>7, MemoryAssumption
  <2>3. new = Realloc(m, d.data, CapBytes(d), d.al, n, ElemSize, room)
    BY <1>1, <1>2
  <2>4. /\ Turns("vec", d, m, e, new.m)
        /\ e.len = d.len /\ e.cap = n
        /\ \A i \in 0 .. n - 1 : i < d.cap => CellsOf(e, new.m)[i] = CellsOf(d, m)[i]
    BY <1>7, <2>1, <2>2, <2>3, NewBlockTurns
  <2>5. StructOK("vec", e, new.m)
    BY <2>4 DEF Turns
  <2>6. Reads(CellsOf(e, new.m), s)
    <3>1. \A k \in 1 .. n : s[k] = CellsOf(d, m)[k - 1]
      BY <1>3 DEF Reads
    <3>2. \A k \in 1 .. n : k - 1 \in 0 .. n - 1 /\ k - 1 < d.cap
      BY <1>2
    <3>3. QED
      BY <1>3, <2>4, <3>1, <3>2 DEF Reads
  <2>7. ToSpan(e, new.m) = s
    BY <1>2, <1>3, <2>4, <2>5, <2>6, SpanIsRead
  <2>8. p = Result(OK, e, new.m)
    BY <1>1, <1>2, <1>7, <2>1 DEF Shrunk, OnBlock
  <2>9. p.st = OK /\ p.d = e /\ p.m = new.m
    BY <2>8 DEF Result
  <2>10. QED
    BY <1>1, <1>2, <2>4, <2>7, <2>9 DEF Answers, Makes
<1>8. QED
  BY <1>4, <1>5, <1>6, <1>7

(* copy_assign between two vecs.                                           *)
LEMMA CopyAssignMakes ==
  ASSUME NEW d, NEW e, NEW m, IsMemory(m), StructOK("vec", d, m), StructOK("vec", e, m), NEW room
  PROVE  Answers("vec", e, m, CopyAssigned(d, e, m, room), ToSpan(d, m))
<1>1. PICK r, p : r = Reserve(e, m, d.len, room) /\ p = CopyAssigned(d, e, m, room)
  OBVIOUS
<1>2. PICK n, s : n = d.len /\ s = ToSpan(d, m) /\ n \in Nat
  BY VecFacts
<1>3. s \in Seq(Cells) /\ Len(s) = n
  BY <1>2, SpanIsRead
<1>4. GetsRoom(e, m, r, n)
  BY <1>1, <1>2, ReserveTurns
<1>5. CASE r = Result(NoMem, e, m)
  <2>1. p = r
    BY <1>1, <1>5 DEF CopyAssigned, Result
  <2>2. QED
    BY <1>1, <1>5, <2>1 DEF Answers
<1>6. CASE Roomier(e, m, r, n)
  <2>1. PICK u, c : u = CellsOf(r.d, r.m) /\ c = r.d.cap
    OBVIOUS
  <2>2. c \in Nat /\ c >= n /\ r.st # NoMem /\ u \in [0 .. c - 1 -> Cells]
    BY <1>2, <1>6, <2>1, RoomierReads, MemoryAssumption DEF Roomier
  <2>3. PICK w : w = Written(u, 0, s)
    OBVIOUS
  <2>4. Len(s) <= c
    BY <1>2, <1>3, <2>2
  <2>5. w \in [0 .. c - 1 -> Cells] /\ Reads(w, s)
    BY <1>3, <2>2, <2>3, <2>4, FilledCells
  <2>6. n \in Nat /\ n <= n
    BY <1>2
  <2>7. Makes("vec", e, m, Result(OK, WithLen(r.d, n), SetCells(r.d, r.m, w)), s)
    BY <1>3, <1>6, <2>1, <2>5, <2>6, Rewritten
  <2>8. p = Result(OK, WithLen(r.d, n), SetCells(r.d, r.m, w))
    BY <1>1, <1>2, <2>1, <2>2, <2>3 DEF CopyAssigned, WithLen
  <2>9. QED
    BY <1>1, <1>2, <2>7, <2>8 DEF Answers
<1>7. QED
  BY <1>4, <1>5, <1>6 DEF GetsRoom

-----------------------------------------------------------------------------
(* Birth.                                                                  *)

(* A constructor was refused and all is as it was, or made an object of s. *)
Born(kind, m, r, a, s) ==
  \/ r = Result(NoMem, Null, m)
  \/ /\ r.st = OK
     /\ Exchanges(kind, Null, {}, m, r.d, {kind}, r.m)
     /\ StructOK(kind, r.d, r.m)
     /\ r.d.al = a
     /\ ToSpan(r.d, r.m) = s

(* The same before the elems are filled in.                                *)
Unfilled(kind, m, r, a, len) ==
  \/ r = Result(NoMem, Null, m)
  \/ /\ r.st = OK
     /\ Exchanges(kind, Null, {}, m, r.d, {kind}, r.m)
     /\ StructOK(kind, r.d, r.m)
     /\ r.d.al = a
     /\ r.d.len = len

(* A header and a block come.                                              *)
LEMMA Comes ==
  ASSUME NEW kind \in {"vec", "arr"}, NEW m, IsMemory(m), NEW a \in Als,
         NEW q, IsMemory(q), q.hdrs = TakeHdr(m, a, kind).hdrs,
         NEW d, StructOK(kind, d, q), d.al = a, Trades(Null, m, d.data, q)
  PROVE  Exchanges(kind, Null, {}, m, d, {kind}, q)
<1>1. PICK t : t = TakeHdr(m, a, kind)
  OBVIOUS
<1>2. kind \in ObjectKinds
  BY DEF ObjectKinds
<1>3. IsMemory(t) /\ \A c \in Als, j \in ObjectKinds : Hdrs(t, c, j) = Hdrs(m, c, j) + One(a, kind, c, j)
  BY <1>1, <1>2, HeaderMoves
<1>4. Blk(d) = d.data /\ d # Null /\ Blk(Null) = Null
  BY StructFacts DEF Blk
<1>5. ASSUME NEW c \in Als, NEW j \in ObjectKinds
      PROVE  Hdrs(q, c, j) = Hdrs(m, c, j) + Owes(d, {kind}, c, j) - Owes(Null, {}, c, j)
  <2>1. Hdrs(q, c, j) = Hdrs(t, c, j)
    BY <1>1 DEF Hdrs
  <2>2. Owes(d, {kind}, c, j) = One(a, kind, c, j) /\ Owes(Null, {}, c, j) = 0 /\ One(a, kind, c, j) \in Int
    BY <1>4 DEF Owes, One
  <2>3. Hdrs(m, c, j) \in Int
    BY HdrsAreInts
  <2>4. QED
    BY <1>3, <2>1, <2>2, <2>3
<1>6. QED
  BY <1>4, <1>5 DEF Exchanges, Pays

(* A block is lent to a new struct, behind its header.                     *)
LEMMA LentToNew ==
  ASSUME NEW kind \in {"vec", "arr"}, NEW m, IsMemory(m), NEW a \in Als, NEW n \in 1 .. SizeMax,
         NEW cells \in [0 .. n - 1 -> Cells],
         NEW t, t = TakeHdr(m, a, kind), FreeOf(t) # {},
         NEW l, l = Lend(t, a, n * ElemSize, cells),
         NEW d, d \in IF kind = "arr" THEN Arrs ELSE Vecs,
         d.data = l.b, d.al = a, RoomOf(kind, d) = n, d.len <= n
  PROVE  Exchanges(kind, Null, {}, m, d, {kind}, l.m) /\ StructOK(kind, d, l.m)
<1>1. kind \in ObjectKinds
  BY DEF ObjectKinds
<1>2. IsMemory(t) /\ t.lent = m.lent
  BY <1>1, HeaderMoves
<1>3. /\ l.b \in Blocks /\ l.b # Null /\ t.lent[l.b] = Null
      /\ IsMemory(l.m) /\ l.m.hdrs = t.hdrs
      /\ l.m.lent[l.b] = [al |-> a, bytes |-> n * ElemSize, cells |-> cells]
      /\ \A c \in Blocks : c # l.b => l.m.lent[c] = t.lent[c]
  BY <1>2, Lending
<1>4. l.m.lent[l.b] = Lent(a, n, cells)
  BY <1>3 DEF Lent
<1>5. Claim(l.b, a, n, l.m)
  BY <1>3, <1>4, ClaimMade
<1>6. StructOK(kind, d, l.m)
  BY <1>5 DEF StructOK
<1>7. Trades(Null, m, d.data, l.m)
  BY <1>2, <1>3 DEF Trades
<1>8. QED
  BY <1>3, <1>6, <1>7, Comes

(* A new struct without a block.                                           *)
LEMMA NewWithout ==
  ASSUME NEW kind \in {"vec", "arr"}, NEW m, IsMemory(m), NEW a \in Als,
         NEW t, t = TakeHdr(m, a, kind),
         NEW d, d \in IF kind = "arr" THEN Arrs ELSE Vecs,
         d.data = Null, d.al = a, RoomOf(kind, d) = 0, d.len = 0
  PROVE  Exchanges(kind, Null, {}, m, d, {kind}, t) /\ StructOK(kind, d, t)
<1>1. kind \in ObjectKinds
  BY DEF ObjectKinds
<1>2. IsMemory(t) /\ t.lent = m.lent
  BY <1>1, HeaderMoves
<1>3. Claim(Null, a, 0, t)
  BY ClaimMade
<1>4. StructOK(kind, d, t)
  BY <1>3 DEF StructOK
<1>5. Trades(Null, m, d.data, t)
  BY <1>2 DEF Trades
<1>6. QED
  BY <1>2, <1>4, <1>5, Comes

(* new_impl of a vec.                                                      *)
LEMMA NewImplIs ==
  ASSUME NEW m, IsMemory(m), NEW a \in Als, NEW cap \in Nat, NEW len \in Nat, len <= cap, NEW hdr, NEW room
  PROVE  Unfilled("vec", m, NewImpl(m, a, len, cap, hdr, room), a, len)
<1>1. PICK t, r : t = TakeHdr(m, a, "vec") /\ r = NewImpl(m, a, len, cap, hdr, room)
  OBVIOUS
<1>2. PICK blk : blk = IF cap = 0 THEN Answer(Null, t) ELSE Alloc(t, a, cap, ElemSize, room)
  OBVIOUS
<1>3. r = IF hdr = 0 THEN Result(NoMem, Null, m)
          ELSE IF cap > 0 /\ (Overflows(cap, ElemSize) \/ blk.b = Null)
          THEN Result(NoMem, Null, ReturnHdr(t, a, "vec"))
          ELSE Result(OK, NewStruct(a, len, cap, blk.b), blk.m)
  BY <1>1, <1>2 DEF NewImpl
<1>4. ReturnHdr(t, a, "vec") = m
  BY <1>1, HeaderMoves DEF ObjectKinds
<1>5. CASE r = Result(NoMem, Null, m)
  BY <1>1, <1>5 DEF Unfilled
<1>6. CASE cap = 0 /\ r = Result(OK, NewStruct(a, len, cap, blk.b), blk.m)
  <2>1. blk.b = Null /\ blk.m = t
    BY <1>2, <1>6 DEF Answer
  <2>2. PICK d : d = NewStruct(a, len, cap, Null)
    OBVIOUS
  <2>3. d \in Vecs /\ d.data = Null /\ d.al = a /\ d.cap = 0 /\ d.len = len /\ len = 0
    BY <1>6, <2>2 DEF NewStruct, Vecs
  <2>4. Exchanges("vec", Null, {}, m, d, {"vec"}, t) /\ StructOK("vec", d, t)
    BY <1>1, <2>3, NewWithout DEF RoomOf
  <2>5. r.st = OK /\ r.d = d /\ r.m = t
    BY <1>6, <2>1, <2>2 DEF Result
  <2>6. QED
    BY <1>1, <2>3, <2>4, <2>5 DEF Unfilled
<1>7. CASE cap > 0 /\ ~Overflows(cap, ElemSize) /\ blk.b # Null /\ r = Result(OK, NewStruct(a, len, cap, blk.b), blk.m)
  <2>1. blk = Alloc(t, a, cap, ElemSize, room) /\ cap \in 1 .. SizeMax
    <3>1. cap * ElemSize <= SizeMax /\ cap <= cap * ElemSize
      <4>1. PICK z \in Nat : z = ElemSize - 1
        BY VecAssumption
      <4>2. cap * ElemSize = cap + cap * z /\ cap * z \in Nat
        BY <4>1, VecAssumption
      <4>3. ~(cap * ElemSize > SizeMax)
        BY <1>7 DEF Overflows
      <4>4. QED
        BY <4>2, <4>3, MemoryAssumption
    <3>2. QED
      BY <1>2, <1>7, <3>1, MemoryAssumption, VecAssumption
  <2>2. Granted(t, cap * ElemSize, room) /\ blk = Lend(t, a, cap * ElemSize, Raw(cap))
    BY <1>7, <2>1 DEF Alloc, Answer
  <2>3. FreeOf(t) # {}
    BY <2>2 DEF Granted
  <2>4. Raw(cap) \in [0 .. cap - 1 -> Cells]
    BY DEF Raw, Cells
  <2>5. IsMemory(t)
    BY <1>1, HeaderMoves DEF ObjectKinds
  <2>6. blk.b \in Blocks
    BY <2>2, <2>3, <2>5, Lending
  <2>7. PICK d : d = NewStruct(a, len, cap, blk.b)
    OBVIOUS
  <2>8. d \in Vecs /\ d.data = blk.b /\ d.al = a /\ d.cap = cap /\ d.len = len
    BY <2>6, <2>7 DEF NewStruct, Vecs
  <2>9. Exchanges("vec", Null, {}, m, d, {"vec"}, blk.m) /\ StructOK("vec", d, blk.m)
    <3>1. d \in (IF "vec" = "arr" THEN Arrs ELSE Vecs) /\ RoomOf("vec", d) = cap
      BY <2>8 DEF RoomOf
    <3>2. QED
      BY <1>1, <2>1, <2>2, <2>3, <2>4, <2>8, <3>1, LentToNew
  <2>10. r.st = OK /\ r.d = d /\ r.m = blk.m
    BY <1>7, <2>7 DEF Result
  <2>11. QED
    BY <1>1, <2>8, <2>9, <2>10 DEF Unfilled
<1>8. QED
  BY <1>3, <1>4, <1>5, <1>6, <1>7

(* The elems are filled in.                                                *)
LEMMA FilledIsBorn ==
  ASSUME NEW kind, NEW m, IsMemory(m), NEW r, NEW a, NEW s \in Seq(Cells), Unfilled(kind, m, r, a, Len(s))
  PROVE  Born(kind, m, Filled(r, s), a, s)
<1>1. PICK p : p = Filled(r, s)
  OBVIOUS
<1>2. CASE r = Result(NoMem, Null, m)
  BY <1>2 DEF Filled, Result, Born
<1>3. CASE r.st = OK /\ r # Result(NoMem, Null, m)
  <2>1. PICK d, q, c : d = r.d /\ q = r.m /\ c = RoomOf(kind, r.d)
    OBVIOUS
  <2>2. /\ Exchanges(kind, Null, {}, m, d, {kind}, q) /\ StructOK(kind, d, q)
        /\ d.al = a /\ d.len = Len(s)
    BY <1>3, <2>1 DEF Unfilled
  <2>3. IsMemory(q)
    BY <2>2 DEF Exchanges, Trades
  <2>4. c \in Nat /\ Len(s) <= c /\ CellsOf(d, q) \in [0 .. c - 1 -> Cells]
    BY <2>1, <2>2, StructFacts, CellsAre
  <2>5. PICK w : w = Written(CellsOf(d, q), 0, s)
    OBVIOUS
  <2>6. w \in [0 .. c - 1 -> Cells] /\ Reads(w, s)
    BY <2>4, <2>5, FilledCells
  <2>7. PICK o : o = Result(OK, d, SetCells(d, q, w))
    OBVIOUS
  <2>8. Makes(kind, d, q, o, s)
    BY <2>1, <2>2, <2>3, <2>6, <2>7, Overwritten
  <2>9. Exchanges(kind, d, {kind}, q, o.d, {kind}, o.m)
    BY <2>2, <2>3, <2>8, TurnsExchange DEF Makes
  <2>10. Exchanges(kind, Null, {}, m, o.d, {kind}, o.m)
    BY <2>2, <2>9, ExchangesFollow
  <2>11. p = o
    BY <1>1, <1>3, <2>1, <2>5, <2>7, MemoryAssumption DEF Filled
  <2>12. QED
    BY <1>1, <2>2, <2>8, <2>10, <2>11 DEF Born, Makes, Turns
<1>4. QED
  BY <1>2, <1>3 DEF Unfilled

(* A constructor whose object has no elems yet.                            *)
LEMMA EmptyIsBorn ==
  ASSUME NEW kind, NEW m, NEW r, NEW a, Unfilled(kind, m, r, a, 0)
  PROVE  Born(kind, m, r, a, <<>>)
BY NoneIsRead DEF Unfilled, Born

(* The constructors of a vec.                                              *)
LEMMA VecsAreBorn ==
  ASSUME NEW m, IsMemory(m), NEW a \in Als, NEW hdr, NEW room
  PROVE  /\ \A n \in Nat : /\ Born("vec", m, NewImpl(m, a, 0, n, hdr, room), a, <<>>)
                           /\ Born("vec", m, NewLen(m, a, n, hdr, room), a, SS!ZeroSeq(n))
         /\ \A s \in Seq(Cells) : Born("vec", m, FromData(m, a, s, hdr, room), a, s)
<1>1. ASSUME NEW n \in Nat
      PROVE  Born("vec", m, NewImpl(m, a, 0, n, hdr, room), a, <<>>)
  <2>1. Unfilled("vec", m, NewImpl(m, a, 0, n, hdr, room), a, 0)
    BY NewImplIs
  <2>2. QED
    BY <2>1, EmptyIsBorn
<1>2. ASSUME NEW s \in Seq(Cells)
      PROVE  Born("vec", m, FromData(m, a, s, hdr, room), a, s)
  <2>1. PICK n \in Nat : n = Len(s)
    BY LenProperties
  <2>2. Unfilled("vec", m, NewImpl(m, a, n, n, hdr, room), a, n)
    BY NewImplIs
  <2>3. QED
    BY <2>1, <2>2, FilledIsBorn DEF FromData
<1>3. ASSUME NEW n \in Nat
      PROVE  Born("vec", m, NewLen(m, a, n, hdr, room), a, SS!ZeroSeq(n))
  <2>1. PICK s : s = SS!ZeroSeq(n)
    OBVIOUS
  <2>2. s = [i \in 1 .. n |-> Zero]
    BY <2>1 DEF SS!ZeroSeq
  <2>3. s \in Seq(Cells)
    BY <2>2 DEF Cells
  <2>4. Len(s) = n
    BY <2>2
  <2>5. Unfilled("vec", m, NewImpl(m, a, n, n, hdr, room), a, n)
    BY NewImplIs
  <2>6. QED
    BY <2>1, <2>2, <2>3, <2>4, <2>5, FilledIsBorn DEF NewLen
<1>4. QED
  BY <1>1, <1>2, <1>3
-----------------------------------------------------------------------------
(* Vec: its owners, its end, and its moves.                                *)

(* Nothing stood there and nothing does.                                   *)
LEMMA StillNothing ==
  ASSUME NEW kind, NEW m, IsMemory(m)
  PROVE  Exchanges(kind, Null, {}, m, Null, {}, m)
<1>1. Trades(Null, m, Null, m)
  BY DEF Trades
<1>2. ASSUME NEW a \in Als, NEW k \in ObjectKinds
      PROVE  Hdrs(m, a, k) = Hdrs(m, a, k) + Owes(Null, {}, a, k) - Owes(Null, {}, a, k)
  <2>1. Owes(Null, {}, a, k) = 0
    BY DEF Owes
  <2>2. Hdrs(m, a, k) \in Int
    BY HdrsAreInts
  <2>3. QED
    BY <2>1, <2>2
<1>3. QED
  BY <1>1, <1>2 DEF Exchanges, Pays, Blk

(* A constructor of an object with the headers K.                          *)
BornWith(kind, K, m, r, a, s) ==
  \/ r.st = NoMem /\ r.d = Null /\ Exchanges(kind, Null, {}, m, Null, {}, r.m)
  \/ /\ r.st = OK
     /\ Exchanges(kind, Null, {}, m, r.d, K, r.m)
     /\ StructOK(kind, r.d, r.m)
     /\ r.d.al = a
     /\ ToSpan(r.d, r.m) = s

(* An object of its own.                                                   *)
LEMMA BornAlone ==
  ASSUME NEW kind, NEW m, IsMemory(m), NEW r, NEW a, NEW s, Born(kind, m, r, a, s)
  PROVE  BornWith(kind, {kind}, m, r, a, s)
<1>1. CASE r = Result(NoMem, Null, m)
  <2>1. r.st = NoMem /\ r.d = Null /\ r.m = m
    BY <1>1 DEF Result
  <2>2. QED
    BY <2>1, StillNothing DEF BornWith
<1>2. QED
  BY <1>1 DEF Born, BornWith

(* tda_vec_drop, and the drop of an owner with its header.                 *)
LEMMA DropExchanges ==
  ASSUME NEW d, NEW m, IsMemory(m), StructOK("vec", d, m)
  PROVE  /\ Exchanges("vec", d, {"vec"}, m, Null, {}, Dropped(d, m))
         /\ \A k \in {"stack", "pqueue"} :
              Exchanges("vec", d, {"vec", k}, m, Null, {}, ReturnHdr(Dropped(d, m), d.al, k))
<1>1. PICK p : p = Dropped(d, m)
  OBVIOUS
<1>2. RoomOf("vec", d) * ElemSize = CapBytes(d) /\ "vec" \in ObjectKinds
  BY DEF RoomOf, CapBytes, ObjectKinds
<1>3. p = ReturnHdr(GiveBack(m, d.data, d.al, RoomOf("vec", d) * ElemSize), d.al, "vec")
  BY <1>1, <1>2 DEF Dropped
<1>4. /\ Exchanges("vec", d, {"vec"}, m, Null, {}, p)
      /\ \A k \in ObjectKinds :
           k # "vec" => Exchanges("vec", d, {"vec", k}, m, Null, {}, ReturnHdr(p, d.al, k))
  BY <1>2, <1>3, GoneBack
<1>5. \A k \in {"stack", "pqueue"} : k \in ObjectKinds /\ k # "vec"
  BY DEF ObjectKinds
<1>6. QED
  BY <1>1, <1>4, <1>5

(* wrap: the owner's header comes too, or the vec goes again.              *)
LEMMA WrapIsBorn ==
  ASSUME NEW m, IsMemory(m), NEW r, NEW a, NEW s, Born("vec", m, r, a, s),
         NEW k \in {"stack", "pqueue"}, NEW hdr
  PROVE  BornWith("vec", {"vec", k}, m, Wrapped(r, k, hdr), a, s)
<1>1. PICK p : p = Wrapped(r, k, hdr)
  OBVIOUS
<1>2. CASE r = Result(NoMem, Null, m)
  <2>1. r.st = NoMem /\ r.d = Null /\ r.m = m
    BY <1>2 DEF Result
  <2>2. p = r
    BY <1>1, <2>1 DEF Wrapped
  <2>3. QED
    BY <1>1, <2>1, <2>2, StillNothing DEF BornWith
<1>3. CASE r # Result(NoMem, Null, m)
  <2>1. PICK d, q : d = r.d /\ q = r.m
    OBVIOUS
  <2>2. /\ r.st = OK /\ r.st # NoMem
        /\ Exchanges("vec", Null, {}, m, d, {"vec"}, q) /\ StructOK("vec", d, q)
        /\ d.al = a /\ ToSpan(d, q) = s
    BY <1>3, <2>1, MemoryAssumption DEF Born
  <2>3. IsMemory(q)
    BY <2>2 DEF Exchanges, Trades
  <2>4. CASE hdr < 2
    <3>1. p = Result(NoMem, Null, Dropped(d, q))
      BY <1>1, <2>1, <2>2, <2>4 DEF Wrapped
    <3>2. p.st = NoMem /\ p.d = Null /\ p.m = Dropped(d, q)
      BY <3>1 DEF Result
    <3>3. Exchanges("vec", d, {"vec"}, q, Null, {}, Dropped(d, q))
      BY <2>2, <2>3, DropExchanges
    <3>4. Exchanges("vec", Null, {}, m, Null, {}, Dropped(d, q))
      BY <2>2, <3>3, ExchangesFollow
    <3>5. QED
      BY <1>1, <3>2, <3>4 DEF BornWith
  <2>5. CASE ~(hdr < 2)
    <3>1. PICK t : t = TakeHdr(q, d.al, k)
      OBVIOUS
    <3>2. p = Result(OK, d, t)
      BY <1>1, <2>1, <2>2, <2>5, <3>1 DEF Wrapped
    <3>3. p.st = OK /\ p.d = d /\ p.m = t
      BY <3>2 DEF Result
    <3>4. k \in ObjectKinds /\ k \notin {"vec"} /\ {"vec"} \cup {k} = {"vec", k}
      BY DEF ObjectKinds
    <3>5. Exchanges("vec", d, {"vec"}, q, d, {"vec"} \cup {k}, t) /\ ToSpan(d, t) = ToSpan(d, q)
      BY <2>2, <2>3, <3>1, <3>4, WrapperMoves
    <3>6. Exchanges("vec", d, {"vec"}, q, d, {"vec", k}, t)
      BY <3>4, <3>5
    <3>7. Exchanges("vec", Null, {}, m, d, {"vec", k}, t)
      BY <2>2, <3>6, ExchangesFollow
    <3>8. StructOK("vec", d, t)
      BY <2>2, <3>6, StructFacts DEF Exchanges
    <3>9. QED
      BY <1>1, <2>2, <3>3, <3>5, <3>7, <3>8 DEF BornWith
  <2>6. QED
    BY <2>4, <2>5
<1>4. QED
  BY <1>2, <1>3

(* c stands where e stood, whose block and header went.                    *)
Overtakes(kind, e, m, c, q, s) ==
  /\ \A K : kind \in K => Exchanges(kind, e, K, m, c, K, q)
  /\ StructOK(kind, c, q)
  /\ c.al = e.al
  /\ ToSpan(c, q) = s

(* A copy is made on the allocator of e, and e is dropped.                 *)
LEMMA CopyOvertakes ==
  ASSUME NEW kind, NEW m, IsMemory(m), NEW e, StructOK(kind, e, m), NEW c, NEW m1, NEW s,
         Exchanges(kind, Null, {}, m, c, {kind}, m1), StructOK(kind, c, m1), c.al = e.al, ToSpan(c, m1) = s,
         NEW q, StructOK(kind, e, m1) => Exchanges(kind, e, {kind}, m1, Null, {}, q)
  PROVE  Overtakes(kind, e, m, c, q, s)
<1>1. /\ e # Null /\ e.data \in Blocks \cup {Null} /\ Blk(e) = e.data /\ Blk(Null) = Null
      /\ e.data # Null => e.data \in Blocks /\ m.lent[e.data] # Null
      /\ c # Null /\ c.data \in Blocks \cup {Null} /\ Blk(c) = c.data
  BY StructFacts DEF Blk
<1>2. Trades(Null, m, c.data, m1)
  BY <1>1 DEF Exchanges
<1>3. e.data # Null => m1.lent[e.data] = m.lent[e.data]
  BY <1>1, <1>2 DEF Trades
<1>4. StructOK(kind, e, m1)
  BY <1>3, StructStands
<1>5. Exchanges(kind, e, {kind}, m1, Null, {}, q)
  BY <1>4
<1>6. Trades(e.data, m1, Null, q)
  BY <1>1, <1>5 DEF Exchanges
<1>7. Trades(e.data, m, c.data, q) /\ (c.data # Null => q.lent[c.data] = m1.lent[c.data])
  BY <1>1, <1>2, <1>6, TradesCross
<1>8. StructOK(kind, c, q) /\ ToSpan(c, q) = s
  BY <1>7, StructStands
<1>9. ASSUME NEW K, kind \in K, NEW a \in Als, NEW k \in ObjectKinds
      PROVE  Hdrs(q, a, k) = Hdrs(m, a, k) + Owes(c, K, a, k) - Owes(e, K, a, k)
  <2>1. IsMemory(m1)
    BY <1>2 DEF Trades
  <2>2. Hdrs(m1, a, k) = Hdrs(m, a, k) + Owes(c, {kind}, a, k) - Owes(Null, {}, a, k)
    BY DEF Exchanges, Pays
  <2>3. Hdrs(q, a, k) = Hdrs(m1, a, k) + Owes(Null, {}, a, k) - Owes(e, {kind}, a, k)
    BY <1>5 DEF Exchanges, Pays
  <2>4. Owes(Null, {}, a, k) = 0 /\ Owes(c, {kind}, a, k) = Owes(e, {kind}, a, k) /\ Owes(c, K, a, k) = Owes(e, K, a, k)
    BY <1>1 DEF Owes
  <2>5. Hdrs(m, a, k) \in Int /\ Hdrs(m1, a, k) \in Int /\ Owes(e, {kind}, a, k) \in Int /\ Owes(e, K, a, k) \in Int
    BY <2>1, HdrsAreInts, OwesAreInts
  <2>6. QED
    BY <2>2, <2>3, <2>4, <2>5
<1>10. \A K : kind \in K => Exchanges(kind, e, K, m, c, K, q)
  BY <1>1, <1>7, <1>8, <1>9 DEF Exchanges, Pays
<1>11. QED
  BY <1>8, <1>10 DEF Overtakes

(* move_assign of a vec, of one allocator and of two.                      *)
LEMMA MoveIs ==
  ASSUME NEW d, NEW e, NEW m, IsMemory(m), StructOK("vec", d, m), StructOK("vec", e, m), NEW hdr, NEW room,
         NEW r, r = MoveAssigned(d, e, m, hdr, room)
  PROVE  /\ d.al = e.al => r.st = OK /\ r.e = d /\ r.d = Released(e, m).d /\ r.m = Released(e, m).m
         /\ d.al # e.al =>
              \/ r = [st |-> NoMem, d |-> d, e |-> e, m |-> m]
              \/ /\ r.st = OK
                 /\ \E q : /\ Overtakes("vec", e, m, r.e, q, ToSpan(d, m))
                           /\ r.d = Released(d, q).d /\ r.m = Released(d, q).m
<1>1. PICK copy : copy = CopyWith(d, m, e.al, hdr, room)
  OBVIOUS
<1>2. PICK from : from = IF d.al = e.al THEN Released(e, m) ELSE Released(d, Dropped(e, copy.m))
  OBVIOUS
<1>3. r = IF d.al # e.al /\ copy.st = NoMem
          THEN [st |-> NoMem, d |-> d, e |-> e, m |-> copy.m]
          ELSE [st |-> OK, d |-> from.d, e |-> IF d.al = e.al THEN d ELSE copy.d, m |-> from.m]
  BY <1>1, <1>2 DEF MoveAssigned
<1>4. CASE d.al = e.al
  <2>1. from = Released(e, m)
    BY <1>2, <1>4
  <2>2. r = [st |-> OK, d |-> from.d, e |-> d, m |-> from.m]
    BY <1>3, <1>4
  <2>3. r.st = OK /\ r.e = d /\ r.d = from.d /\ r.m = from.m
    BY <2>2
  <2>4. QED
    BY <1>4, <2>1, <2>3
<1>5. CASE d.al # e.al
  <2>1. PICK s : s = ToSpan(d, m)
    OBVIOUS
  <2>2. s \in Seq(Cells) /\ e.al \in Als
    BY <2>1, SpanIsRead, StructFacts
  <2>3. Born("vec", m, copy, e.al, s)
    BY <1>1, <2>1, <2>2, VecsAreBorn DEF CopyWith
  <2>4. CASE copy = Result(NoMem, Null, m)
    <3>1. copy.st = NoMem /\ copy.m = m
      BY <2>4 DEF Result
    <3>2. QED
      BY <1>3, <1>5, <3>1
  <2>5. CASE copy # Result(NoMem, Null, m)
    <3>1. PICK c, m1, q : c = copy.d /\ m1 = copy.m /\ q = Dropped(e, m1)
      OBVIOUS
    <3>2. /\ copy.st = OK /\ copy.st # NoMem
          /\ Exchanges("vec", Null, {}, m, c, {"vec"}, m1) /\ StructOK("vec", c, m1)
          /\ c.al = e.al /\ ToSpan(c, m1) = s
      BY <2>3, <2>5, <3>1, MemoryAssumption DEF Born
    <3>3. IsMemory(m1)
      BY <3>2 DEF Exchanges, Trades
    <3>4. StructOK("vec", e, m1) => Exchanges("vec", e, {"vec"}, m1, Null, {}, q)
      BY <3>1, <3>3, DropExchanges
    <3>5. Overtakes("vec", e, m, c, q, s)
      BY <3>2, <3>4, CopyOvertakes
    <3>6. r.st = OK /\ r.e = c /\ r.d = Released(d, q).d /\ r.m = Released(d, q).m
      BY <1>2, <1>3, <1>5, <3>1, <3>2
    <3>7. QED
      BY <1>5, <2>1, <3>5, <3>6
  <2>6. QED
    BY <2>4, <2>5
<1>6. QED
  BY <1>4, <1>5
-----------------------------------------------------------------------------
(* Arr.                                                                    *)

(* What a struct of an arr is.                                             *)
LEMMA ArrFacts ==
  ASSUME NEW d, NEW m, StructOK("arr", d, m)
  PROVE  /\ d \in Arrs /\ d # Null
         /\ d.len \in Nat /\ d.len <= SizeMax /\ d.len \in 0 .. SizeMax
         /\ d.al \in Als /\ d.data \in Blocks \cup {Null} /\ (d.data = Null <=> d.len = 0)
         /\ RoomOf("arr", d) = d.len /\ Claim(d.data, d.al, d.len, m)
         /\ CellsOf(d, m) \in [0 .. d.len - 1 -> Cells]
<1>1. RoomOf("arr", d) = d.len
  BY DEF RoomOf
<1>2. /\ d \in Arrs /\ d # Null /\ d.data \in Blocks \cup {Null} /\ d.al \in Als /\ d.len \in Nat
      /\ d.len <= SizeMax /\ Claim(d.data, d.al, d.len, m) /\ (d.data = Null <=> d.len = 0)
  BY <1>1, StructFacts
<1>3. CellsOf(d, m) \in [0 .. d.len - 1 -> Cells]
  BY <1>1, CellsAre
<1>4. QED
  BY <1>1, <1>2, <1>3, MemoryAssumption

(* new_impl of an arr.                                                     *)
LEMMA ArrImplIs ==
  ASSUME NEW m, IsMemory(m), NEW a \in Als, NEW n \in Nat, NEW zeroed, NEW hdr, NEW room
  PROVE  /\ Unfilled("arr", m, ArrImpl(m, a, n, zeroed, hdr, room), a, n)
         /\ zeroed => Born("arr", m, ArrImpl(m, a, n, zeroed, hdr, room), a, SS!ZeroSeq(n))
<1>1. PICK t, r : t = TakeHdr(m, a, "arr") /\ r = ArrImpl(m, a, n, zeroed, hdr, room)
  OBVIOUS
<1>2. PICK blk : blk = IF zeroed THEN Calloc(t, a, n, ElemSize, room, Zero) ELSE Alloc(t, a, n, ElemSize, room)
  OBVIOUS
<1>3. PICK d : d = [data |-> blk.b, len |-> n, al |-> a]
  OBVIOUS
<1>4. r = IF hdr = 0 THEN Result(NoMem, Null, m)
          ELSE IF n > 0 /\ (Overflows(n, ElemSize) \/ blk.b = Null)
          THEN Result(NoMem, Null, ReturnHdr(t, a, "arr"))
          ELSE Result(OK, d, blk.m)
  BY <1>1, <1>2, <1>3 DEF ArrImpl
<1>5. IsMemory(t) /\ ReturnHdr(t, a, "arr") = m
  BY <1>1, HeaderMoves DEF ObjectKinds
<1>6. PICK s : s = SS!ZeroSeq(n)
  OBVIOUS
<1>7. s = [i \in 1 .. n |-> Zero] /\ Zero \in Cells
  BY <1>6 DEF SS!ZeroSeq, Cells
<1>8. s \in Seq(Cells)
  BY <1>7
<1>9. Len(s) = n
  BY <1>7
<1>10. CASE r = Result(NoMem, Null, m)
  BY <1>1, <1>10 DEF Unfilled, Born
<1>11. CASE n = 0 /\ r = Result(OK, d, blk.m)
  <2>1. 0 * ElemSize = 0
    BY VecAssumption
  <2>2. ~Granted(t, n * ElemSize, room)
    BY <1>11, <2>1 DEF Granted
  <2>3. blk.b = Null /\ blk.m = t
    BY <1>2, <2>2 DEF Alloc, Calloc, Answer
  <2>4. d \in Arrs /\ d.data = Null /\ d.al = a /\ d.len = 0
    BY <1>3, <1>11, <2>3 DEF Arrs
  <2>5. Exchanges("arr", Null, {}, m, d, {"arr"}, t) /\ StructOK("arr", d, t)
    BY <1>1, <2>4, NewWithout DEF RoomOf
  <2>6. r.st = OK /\ r.d = d /\ r.m = t
    BY <1>11, <2>3 DEF Result
  <2>7. Unfilled("arr", m, r, a, n)
    BY <1>11, <2>4, <2>5, <2>6 DEF Unfilled
  <2>8. s = <<>>
    BY <1>8, <1>9, <1>11, EmptySeq
  <2>9. Born("arr", m, r, a, s)
    BY <1>11, <2>7, <2>8, EmptyIsBorn
  <2>10. QED
    BY <1>1, <1>6, <2>7, <2>9
<1>12. CASE n > 0 /\ ~Overflows(n, ElemSize) /\ blk.b # Null /\ r = Result(OK, d, blk.m)
  <2>1. n \in 1 .. SizeMax
    <3>1. PICK z \in Nat : z = ElemSize - 1
      BY VecAssumption
    <3>2. n * ElemSize = n + n * z /\ n * z \in Nat
      BY <3>1, VecAssumption
    <3>3. ~(n * ElemSize > SizeMax)
      BY <1>12 DEF Overflows
    <3>4. QED
      BY <1>12, <3>2, <3>3, MemoryAssumption
  <2>2. PICK cells : cells = IF zeroed THEN [i \in 0 .. n - 1 |-> Zero] ELSE Raw(n)
    OBVIOUS
  <2>3. cells \in [0 .. n - 1 -> Cells]
    BY <2>2 DEF Raw, Cells
  <2>4. Granted(t, n * ElemSize, room) /\ blk = Lend(t, a, n * ElemSize, cells)
    BY <1>2, <1>12, <2>2 DEF Alloc, Calloc, Answer
  <2>5. FreeOf(t) # {}
    BY <2>4 DEF Granted
  <2>6. blk.b \in Blocks
    BY <1>5, <2>4, <2>5, Lending
  <2>7. d \in Arrs /\ d.data = blk.b /\ d.al = a /\ d.len = n
    BY <1>3, <2>6 DEF Arrs
  <2>8. Exchanges("arr", Null, {}, m, d, {"arr"}, blk.m) /\ StructOK("arr", d, blk.m)
    <3>1. d \in (IF "arr" = "arr" THEN Arrs ELSE Vecs) /\ RoomOf("arr", d) = n
      BY <2>7 DEF RoomOf
    <3>2. QED
      BY <1>1, <2>1, <2>3, <2>4, <2>5, <2>7, <3>1, LentToNew
  <2>9. r.st = OK /\ r.d = d /\ r.m = blk.m
    BY <1>12 DEF Result
  <2>10. Unfilled("arr", m, r, a, n)
    BY <2>7, <2>8, <2>9 DEF Unfilled
  <2>11. zeroed => ToSpan(d, blk.m) = s
    <3>1. SUFFICES ASSUME zeroed PROVE ToSpan(d, blk.m) = s
      OBVIOUS
    <3>2. blk.m.lent[blk.b] = [al |-> a, bytes |-> n * ElemSize, cells |-> cells] /\ blk.b # Null
      BY <1>5, <2>4, <2>5, Lending
    <3>3. CellsOf(d, blk.m) = cells
      BY <2>7, <3>2 DEF CellsOf
    <3>4. \A i \in 1 .. n : s[i] = cells[i - 1]
      BY <1>7, <2>2, <3>1
    <3>5. Reads(CellsOf(d, blk.m), s)
      BY <1>9, <3>3, <3>4 DEF Reads
    <3>6. QED
      BY <1>8, <1>9, <2>7, <2>8, <3>5, SpanIsRead
  <2>12. QED
    BY <1>1, <1>6, <2>7, <2>8, <2>9, <2>10, <2>11 DEF Born
<1>13. n = 0 \/ n > 0
  OBVIOUS
<1>14. QED
  BY <1>4, <1>5, <1>10, <1>11, <1>12, <1>13

(* The constructors of an arr that copy elems.                             *)
LEMMA ArrsAreBorn ==
  ASSUME NEW m, IsMemory(m), NEW a \in Als, NEW s \in Seq(Cells), NEW hdr, NEW room
  PROVE  Born("arr", m, ArrFromData(m, a, s, hdr, room), a, s)
<1>1. PICK n \in Nat : n = Len(s)
  BY LenProperties
<1>2. Unfilled("arr", m, ArrImpl(m, a, n, FALSE, hdr, room), a, n)
  BY ArrImplIs
<1>3. QED
  BY <1>1, <1>2, FilledIsBorn DEF ArrFromData

(* tda_arr_drop.                                                           *)
LEMMA ArrDropExchanges ==
  ASSUME NEW d, NEW m, IsMemory(m), StructOK("arr", d, m)
  PROVE  Exchanges("arr", d, {"arr"}, m, Null, {}, ArrDropped(d, m))
<1>1. PICK p : p = ArrDropped(d, m)
  OBVIOUS
<1>2. RoomOf("arr", d) * ElemSize = LenBytes(d) /\ "arr" \in ObjectKinds
  BY DEF RoomOf, LenBytes, ObjectKinds
<1>3. p = ReturnHdr(GiveBack(m, d.data, d.al, RoomOf("arr", d) * ElemSize), d.al, "arr")
  BY <1>1, <1>2 DEF ArrDropped
<1>4. QED
  BY <1>1, <1>2, <1>3, GoneBack

OnLength(d, b, n) == [d EXCEPT !.data = b, !.len = n]

(* release of an arr.                                                      *)
LEMMA ArrReleaseMakes ==
  ASSUME NEW d, NEW m, IsMemory(m), StructOK("arr", d, m)
  PROVE  Makes("arr", d, m, ArrReleased(d, m), <<>>)
<1>1. PICK e, q : e = OnLength(d, Null, 0) /\ q = GiveBack(m, d.data, d.al, LenBytes(d))
  OBVIOUS
<1>2. d \in Arrs /\ d.al \in Als /\ d.data \in Blocks \cup {Null} /\ Claim(d.data, d.al, d.len, m)
  BY ArrFacts
<1>3. e \in Arrs /\ e.data = Null /\ e.len = 0 /\ e.al = d.al
  BY <1>1, <1>2 DEF Arrs, OnLength
<1>4. q = GiveBack(m, d.data, d.al, d.len * ElemSize)
  BY <1>1 DEF LenBytes
<1>5. /\ IsMemory(q) /\ q.hdrs = m.hdrs
      /\ d.data # Null => q.lent[d.data] = Null
      /\ \A c \in Blocks : c # d.data => q.lent[c] = m.lent[c]
  BY <1>2, <1>4, GivingBack
<1>6. Trades(d.data, m, e.data, q)
  BY <1>2, <1>3, <1>5 DEF Trades
<1>7. Claim(Null, e.al, 0, q)
  BY <1>2, <1>3, ClaimMade
<1>8. StructOK("arr", e, q)
  BY <1>3, <1>7 DEF StructOK, RoomOf
<1>9. ToSpan(e, q) = <<>>
  BY <1>3, <1>8, NoneIsRead
<1>10. PICK r : r = ArrReleased(d, m)
  OBVIOUS
<1>11. r = Result(OK, e, q)
  BY <1>1, <1>10 DEF ArrReleased, OnLength
<1>12. r.st = OK /\ r.d = e /\ r.m = q
  BY <1>11 DEF Result
<1>13. QED
  BY <1>3, <1>5, <1>6, <1>8, <1>9, <1>10, <1>12 DEF Makes, Turns

(* copy_assign between two arrs.                                           *)
LEMMA ArrCopyAssignMakes ==
  ASSUME NEW d, NEW e, NEW m, IsMemory(m), StructOK("arr", d, m), StructOK("arr", e, m), NEW room
  PROVE  Answers("arr", e, m, ArrCopyAssigned(d, e, m, room), ToSpan(d, m))
<1>1. PICK new : new = Realloc(m, e.data, LenBytes(e), e.al, d.len, ElemSize, room)
  OBVIOUS
<1>2. PICK r : r = IF d.len = e.len THEN Result(OK, e, m)
                   ELSE IF d.len > 0 /\ new.b = Null THEN Result(NoMem, e, new.m)
                   ELSE Result(OK, [e EXCEPT !.data = new.b, !.len = d.len], new.m)
  OBVIOUS
<1>3. PICK n, s : n = d.len /\ s = ToSpan(d, m) /\ n \in Nat /\ n \in 0 .. SizeMax
  BY ArrFacts
<1>4. s \in Seq(Cells) /\ Len(s) = n
  BY <1>3, SpanIsRead
<1>5. PICK p : p = ArrCopyAssigned(d, e, m, room)
  OBVIOUS
<1>6. p = Filled(r, s)
  BY <1>1, <1>2, <1>3, <1>5 DEF ArrCopyAssigned
<1>7. e \in Arrs /\ e.len \in Nat /\ e.al \in Als /\ Claim(e.data, e.al, e.len, m)
  BY ArrFacts
<1>8. \/ r = Result(NoMem, e, m)
      \/ r.st = OK /\ Turns("arr", e, m, r.d, r.m) /\ r.d.len = n
  <2>1. CASE d.len = e.len
    <3>1. r = Result(OK, e, m)
      BY <1>2, <2>1
    <3>2. r.st = OK /\ r.d = e /\ r.m = m
      BY <3>1 DEF Result
    <3>3. QED
      BY <1>3, <2>1, <3>2, NothingTurns
  <2>2. CASE d.len # e.len
    <3>1. PICK kept : kept = IF e.data = Null THEN Raw(0) ELSE m.lent[e.data].cells
      BY Zenon
    <3>2. new = Realloc(m, e.data, e.len * ElemSize, e.al, n, ElemSize, room)
      BY <1>1, <1>3 DEF LenBytes
    <3>3. \/ n > 0 /\ new.b = Null /\ new.m = m
          \/ /\ (n > 0) = (new.b # Null)
             /\ Trades(e.data, m, new.b, new.m) /\ new.m.hdrs = m.hdrs
             /\ Claim(new.b, e.al, n, new.m)
      BY <1>3, <1>7, <3>1, <3>2, Reallocated
    <3>4. CASE n > 0 /\ new.b = Null /\ new.m = m
      BY <1>2, <1>3, <2>2, <3>4
    <3>5. CASE /\ (n > 0) = (new.b # Null)
               /\ Trades(e.data, m, new.b, new.m) /\ new.m.hdrs = m.hdrs
               /\ Claim(new.b, e.al, n, new.m)
      <4>1. PICK f : f = OnLength(e, new.b, n)
        OBVIOUS
      <4>2. new.b \in Blocks \cup {Null}
        BY <3>5 DEF Trades
      <4>3. f \in Arrs /\ f.data = new.b /\ f.len = n /\ f.al = e.al
        BY <1>3, <1>7, <4>1, <4>2 DEF Arrs, OnLength
      <4>4. StructOK("arr", f, new.m)
        BY <1>3, <3>5, <4>3 DEF StructOK, RoomOf
      <4>5. r = Result(OK, f, new.m)
        BY <1>2, <1>3, <2>2, <3>5, <4>1 DEF OnLength
      <4>6. r.st = OK /\ r.d = f /\ r.m = new.m
        BY <4>5 DEF Result
      <4>7. QED
        BY <3>5, <4>3, <4>4, <4>6 DEF Turns
    <3>6. QED
      BY <3>3, <3>4, <3>5
  <2>3. QED
    BY <2>1, <2>2
<1>9. CASE r = Result(NoMem, e, m)
  <2>1. p = r
    BY <1>6, <1>9 DEF Filled, Result
  <2>2. QED
    BY <1>5, <1>9, <2>1 DEF Answers
<1>10. CASE r.st = OK /\ Turns("arr", e, m, r.d, r.m) /\ r.d.len = n
  <2>1. PICK f, q : f = r.d /\ q = r.m
    OBVIOUS
  <2>2. Turns("arr", e, m, f, q) /\ StructOK("arr", f, q) /\ IsMemory(q) /\ f.len = n
    BY <1>10, <2>1 DEF Turns, Trades
  <2>3. RoomOf("arr", f) = n /\ CellsOf(f, q) \in [0 .. n - 1 -> Cells]
    BY <2>2, ArrFacts
  <2>4. PICK w : w = Written(CellsOf(f, q), 0, s)
    OBVIOUS
  <2>5. Len(s) <= n
    BY <1>3, <1>4
  <2>6. w \in [0 .. n - 1 -> Cells] /\ Reads(w, s)
    BY <1>3, <1>4, <2>3, <2>4, <2>5, FilledCells
  <2>7. PICK o : o = Result(OK, f, SetCells(f, q, w))
    OBVIOUS
  <2>8. Makes("arr", f, q, o, s)
    BY <1>4, <2>2, <2>3, <2>6, <2>7, Overwritten
  <2>9. Turns("arr", e, m, o.d, o.m)
    BY <2>2, <2>8, TurnsFollow DEF Makes
  <2>10. p = o
    BY <1>6, <1>10, <2>1, <2>4, <2>7, MemoryAssumption DEF Filled
  <2>11. QED
    BY <1>3, <1>5, <2>8, <2>9, <2>10 DEF Answers, Makes
<1>11. QED
  BY <1>8, <1>9, <1>10

(* What move_assign of an arr leaves, of one allocator and of two.         *)
ArrMoved(d, e, m, r) ==
  /\ d.al = e.al => r.st = OK /\ r.e = d /\ r.d = ArrReleased(e, m).d /\ r.m = ArrReleased(e, m).m
  /\ d.al # e.al =>
       \/ r = [st |-> NoMem, d |-> d, e |-> e, m |-> m]
       \/ /\ r.st = OK
          /\ \E q : /\ Overtakes("arr", e, m, r.e, q, ToSpan(d, m))
                    /\ r.d = ArrReleased(d, q).d /\ r.m = ArrReleased(d, q).m

(* tda_arr_move_assign.                                                    *)
LEMMA ArrMoveIs ==
  ASSUME NEW d, NEW e, NEW m, IsMemory(m), StructOK("arr", d, m), StructOK("arr", e, m), NEW hdr, NEW room,
         NEW r, r = ArrMoveAssigned(d, e, m, hdr, room)
  PROVE  ArrMoved(d, e, m, r)
<1> SUFFICES /\ d.al = e.al => r.st = OK /\ r.e = d /\ r.d = ArrReleased(e, m).d /\ r.m = ArrReleased(e, m).m
             /\ d.al # e.al =>
                  \/ r = [st |-> NoMem, d |-> d, e |-> e, m |-> m]
                  \/ /\ r.st = OK
                     /\ \E q : /\ Overtakes("arr", e, m, r.e, q, ToSpan(d, m))
                               /\ r.d = ArrReleased(d, q).d /\ r.m = ArrReleased(d, q).m
  BY DEF ArrMoved
<1>1. PICK copy : copy = ArrCopyWith(d, m, e.al, hdr, room)
  OBVIOUS
<1>2. PICK from : from = IF d.al = e.al THEN ArrReleased(e, m) ELSE ArrReleased(d, ArrDropped(e, copy.m))
  OBVIOUS
<1>3. r = IF d.al # e.al /\ copy.st = NoMem
          THEN [st |-> NoMem, d |-> d, e |-> e, m |-> copy.m]
          ELSE [st |-> OK, d |-> from.d, e |-> IF d.al = e.al THEN d ELSE copy.d, m |-> from.m]
  BY <1>1, <1>2 DEF ArrMoveAssigned
<1>4. CASE d.al = e.al
  <2>1. from = ArrReleased(e, m)
    BY <1>2, <1>4
  <2>2. r = [st |-> OK, d |-> from.d, e |-> d, m |-> from.m]
    BY <1>3, <1>4
  <2>3. r.st = OK /\ r.e = d /\ r.d = from.d /\ r.m = from.m
    BY <2>2
  <2>4. QED
    BY <1>4, <2>1, <2>3
<1>5. CASE d.al # e.al
  <2>1. PICK s : s = ToSpan(d, m)
    OBVIOUS
  <2>2. s \in Seq(Cells) /\ e.al \in Als
    BY <2>1, SpanIsRead, StructFacts
  <2>3. Born("arr", m, copy, e.al, s)
    BY <1>1, <2>1, <2>2, ArrsAreBorn DEF ArrCopyWith
  <2>4. CASE copy = Result(NoMem, Null, m)
    <3>1. copy.st = NoMem /\ copy.m = m
      BY <2>4 DEF Result
    <3>2. QED
      BY <1>3, <1>5, <3>1
  <2>5. CASE copy # Result(NoMem, Null, m)
    <3>1. PICK c, m1, q : c = copy.d /\ m1 = copy.m /\ q = ArrDropped(e, m1)
      OBVIOUS
    <3>2. /\ copy.st = OK /\ copy.st # NoMem
          /\ Exchanges("arr", Null, {}, m, c, {"arr"}, m1) /\ StructOK("arr", c, m1)
          /\ c.al = e.al /\ ToSpan(c, m1) = s
      BY <2>3, <2>5, <3>1, MemoryAssumption DEF Born
    <3>3. IsMemory(m1)
      BY <3>2 DEF Exchanges, Trades
    <3>4. StructOK("arr", e, m1) => Exchanges("arr", e, {"arr"}, m1, Null, {}, q)
      BY <3>1, <3>3, ArrDropExchanges
    <3>5. Overtakes("arr", e, m, c, q, s)
      BY <3>2, <3>4, CopyOvertakes
    <3>6. r.st = OK /\ r.e = c /\ r.d = ArrReleased(d, q).d /\ r.m = ArrReleased(d, q).m
      BY <1>2, <1>3, <1>5, <3>1, <3>2
    <3>7. QED
      BY <1>5, <2>1, <3>5, <3>6
  <2>6. QED
    BY <2>4, <2>5
<1>6. QED
  BY <1>4, <1>5
-----------------------------------------------------------------------------
(* Heap: whatever it moves, cells stay cells.                              *)

(* Naturals that are some have a least.                                    *)
LEMMA LeastNatural ==
  ASSUME NEW X \in SUBSET Nat, X # {}
  PROVE  \E n \in X : \A k \in X : n <= k
<1>1. IsWellFoundedOn(OpToRel(<, Nat), Nat)
  BY NatLessThanWellFounded
<1>2. PICK R : R = OpToRel(<, Nat)
  OBVIOUS
<1>3. \A x, y \in Nat : y < x => <<y, x>> \in R
  BY <1>2 DEF OpToRel
<1>4. X \subseteq Nat /\ IsWellFoundedOn(R, Nat)
  BY <1>1, <1>2
<1>5. PICK x \in X : \A y \in X : ~ (<<y, x>> \in R)
  BY <1>4, WFMin
<1>6. ASSUME NEW y \in X
      PROVE  x <= y
  <2>1. x \in Nat /\ y \in Nat
    OBVIOUS
  <2>2. ~ (y < x)
    BY <1>3, <1>5, <2>1, Zenon
  <2>3. QED
    BY <2>1, <2>2
<1>7. QED
  BY <1>6

(* Induction, over the set of the numbers a formula holds of.              *)
LEMMA Induction ==
  ASSUME NEW X \in SUBSET Nat, 0 \in X, \A n \in X : n + 1 \in X
  PROVE  X = Nat
<1>1. SUFFICES ASSUME Nat \ X # {}
      PROVE  FALSE
  OBVIOUS
<1>2. PICK n \in Nat \ X : \A k \in Nat \ X : n <= k
  BY <1>1, LeastNatural
<1>3. n # 0 /\ n - 1 \in Nat
  OBVIOUS
<1>4. n - 1 \in X
  BY <1>2, <1>3
<1>5. (n - 1) + 1 = n
  OBVIOUS
<1>6. QED
  BY <1>4, <1>5

(* A path through S: from each place that does not stop to one of a lower  *)
(* rank. A function of S that follows it takes base where it stops, and    *)
(* elsewhere what rule makes of its value at the next place.               *)
IsPath(S, N, rank, stops, nxt) ==
  /\ N \in Nat
  /\ rank \in [S -> 0 .. N]
  /\ nxt \in [S -> S]
  /\ \A i \in S : i \notin stops => rank[nxt[i]] < rank[i]

Follows(h, i, stops, base, rule, nxt) ==
  h[i] = IF i \in stops THEN base[i] ELSE rule[i][h[nxt[i]]]

(* There is such a function.                                               *)
LEMMA PathRecursion ==
  ASSUME NEW S, NEW V, NEW N, NEW rank, NEW stops, NEW nxt, IsPath(S, N, rank, stops, nxt),
         NEW base \in [S -> V], NEW rule \in [S -> [V -> V]]
  PROVE  \E h \in [S -> V] : \A i \in S : Follows(h, i, stops, base, rule, nxt)
<1>1. PICK X : X = {n \in Nat : \E h \in [S -> V] : \A i \in S :
                      rank[i] < n => Follows(h, i, stops, base, rule, nxt)}
  OBVIOUS
<1>2. X \in SUBSET Nat
  BY <1>1
<1>3. \A i \in S : rank[i] \in Nat /\ rank[i] <= N /\ nxt[i] \in S
  BY DEF IsPath
<1>4. 0 \in X
  <2>1. \A i \in S : ~(rank[i] < 0)
    BY <1>3
  <2>2. QED
    BY <1>1, <2>1
<1>5. ASSUME NEW n \in X
      PROVE  n + 1 \in X
  <2>1. n \in Nat
    BY <1>1
  <2>2. PICK h \in [S -> V] : \A i \in S : rank[i] < n => Follows(h, i, stops, base, rule, nxt)
    BY <1>1
  <2>3. PICK g : g = [i \in S |-> IF i \in stops THEN base[i] ELSE rule[i][h[nxt[i]]]]
    OBVIOUS
  <2>4. g \in [S -> V]
    BY <1>3, <2>3
  <2>5. \A i \in S : rank[i] < n => g[i] = h[i]
    BY <2>2, <2>3 DEF Follows
  <2>6. ASSUME NEW i \in S, rank[i] < n + 1
        PROVE  Follows(g, i, stops, base, rule, nxt)
    <3>1. CASE i \in stops
      BY <2>3, <3>1 DEF Follows
    <3>2. CASE i \notin stops
      <4>1. rank[nxt[i]] < rank[i] /\ nxt[i] \in S
        BY <1>3, <3>2 DEF IsPath
      <4>2. rank[nxt[i]] < n
        BY <1>3, <2>1, <2>6, <4>1
      <4>3. g[nxt[i]] = h[nxt[i]]
        BY <2>5, <4>1, <4>2
      <4>4. g[i] = rule[i][h[nxt[i]]]
        BY <2>3, <3>2
      <4>5. QED
        BY <3>2, <4>3, <4>4 DEF Follows
    <3>3. QED
      BY <3>1, <3>2
  <2>7. QED
    BY <1>1, <2>1, <2>4, <2>6
<1>6. X = Nat
  BY <1>2, <1>4, <1>5, Induction
<1>7. N + 1 \in X
  BY <1>6 DEF IsPath
<1>8. PICK h \in [S -> V] : \A i \in S : rank[i] < N + 1 => Follows(h, i, stops, base, rule, nxt)
  BY <1>1, <1>7
<1>9. \A i \in S : rank[i] < N + 1
  BY <1>3 DEF IsPath
<1>10. QED
  BY <1>8, <1>9

(* h is in V where the path stops, and at a place when at the next one.    *)
StaysAlong(h, V, S, stops, nxt) ==
  /\ \A i \in S : i \in stops => h[i] \in V
  /\ \A i \in S : i \notin stops /\ h[nxt[i]] \in V => h[i] \in V

(* Then it is everywhere.                                                  *)
LEMMA PathInduction ==
  ASSUME NEW S, NEW V, NEW N, NEW rank, NEW stops, NEW nxt, IsPath(S, N, rank, stops, nxt),
         NEW h, StaysAlong(h, V, S, stops, nxt)
  PROVE  \A i \in S : h[i] \in V
<1>1. PICK X : X = {n \in Nat : \A i \in S : rank[i] < n => h[i] \in V}
  OBVIOUS
<1>2. X \in SUBSET Nat
  BY <1>1
<1>3. \A i \in S : rank[i] \in Nat /\ rank[i] <= N /\ nxt[i] \in S
  BY DEF IsPath
<1>4. 0 \in X
  <2>1. \A i \in S : ~(rank[i] < 0)
    BY <1>3
  <2>2. QED
    BY <1>1, <2>1
<1>5. ASSUME NEW n \in X
      PROVE  n + 1 \in X
  <2>1. n \in Nat /\ \A i \in S : rank[i] < n => h[i] \in V
    BY <1>1
  <2>2. ASSUME NEW i \in S, rank[i] < n + 1
        PROVE  h[i] \in V
    <3>0. /\ i \in stops => h[i] \in V
          /\ i \notin stops /\ h[nxt[i]] \in V => h[i] \in V
      BY DEF StaysAlong
    <3>1. CASE i \notin stops
      <4>1. rank[nxt[i]] < rank[i] /\ nxt[i] \in S
        BY <1>3, <3>1 DEF IsPath
      <4>2. rank[nxt[i]] < n
        BY <1>3, <2>1, <2>2, <4>1
      <4>3. QED
        BY <2>1, <3>0, <3>1, <4>1, <4>2
    <3>2. QED
      BY <3>0, <3>1
  <2>3. QED
    BY <1>1, <2>1, <2>2
<1>6. X = Nat
  BY <1>2, <1>4, <1>5, Induction
<1>7. N + 1 \in X
  BY <1>6 DEF IsPath
<1>8. \A i \in S : rank[i] < N + 1
  BY <1>3 DEF IsPath
<1>9. QED
  BY <1>1, <1>7, <1>8

(* One cell written over.                                                  *)
LEMMA OneCell ==
  ASSUME NEW n, NEW c \in [0 .. n - 1 -> Cells], NEW i, NEW v \in Cells
  PROVE  [c EXCEPT ![i] = v] \in [0 .. n - 1 -> Cells]
OBVIOUS

(* Where a sift up stops.                                                  *)
AtTop(c, idx, cmp, i) == i = 0 \/ cmp[c[Parent(i)], c[idx]] >= 0

(* sift_up.                                                                *)
LEMMA SiftUpKeepsCells ==
  ASSUME NEW n \in Nat, NEW c \in [0 .. n - 1 -> Cells], NEW idx \in 0 .. n - 1, NEW cmp
  PROVE  SiftUp(c, idx, cmp) \in [0 .. n - 1 -> Cells]
<1>1. PICK S, V, stops :
        /\ S = 0 .. idx
        /\ V = [0 .. n - 1 -> Cells]
        /\ stops = {i \in 0 .. idx : AtTop(c, idx, cmp, i)}
  OBVIOUS
<1>2. PICK rank, nxt : /\ rank = [i \in S |-> i]
                       /\ nxt = [i \in S |-> IF i = 0 THEN 0 ELSE Parent(i)]
  OBVIOUS
<1>21. AtTop(c, idx, cmp, 0)
  BY DEF AtTop
<1>3. \A i \in S : i \in Nat /\ i <= idx /\ i \in 0 .. n - 1
  BY <1>1
<1>4. \A i \in S : i # 0 => Parent(i) \in S /\ Parent(i) < i
  <2>1. ASSUME NEW i \in S, i # 0
        PROVE  Parent(i) \in S /\ Parent(i) < i
    <3>1. PICK k \in Nat : k = i - 1
      BY <1>3, <2>1
    <3>2. k \div 2 \in Nat /\ k \div 2 <= k
      OBVIOUS
    <3>3. QED
      BY <1>1, <1>3, <3>1, <3>2 DEF Parent
  <2>2. QED
    BY <2>1
<1>5. IsPath(S, idx, rank, stops, nxt)
  <2>1. idx \in Nat /\ rank \in [S -> 0 .. idx]
    BY <1>1, <1>2
  <2>2. \A i \in S : nxt[i] = IF i = 0 THEN 0 ELSE Parent(i)
    BY <1>2
  <2>3. 0 \in S
    BY <1>1
  <2>4. nxt \in [S -> S]
    BY <1>2, <1>4, <2>3
  <2>5. \A i \in S : i \notin stops => i # 0
    BY <1>1, <1>21
  <2>6. \A i \in S : i \notin stops => rank[nxt[i]] < rank[i]
    BY <1>2, <1>4, <2>2, <2>5
  <2>7. QED
    BY <2>1, <2>4, <2>6 DEF IsPath
<1>6. PICK base : base = [i \in S |-> [c EXCEPT ![i] = c[idx]]]
  OBVIOUS
<1>7. PICK rule : rule = [i \in S |-> [v \in V |-> [v EXCEPT ![i] = c[nxt[i]]]]]
  OBVIOUS
<1>8. \A i \in S : c[i] \in Cells /\ nxt[i] \in S
  BY <1>3, <1>5 DEF IsPath
<1>9. c[idx] \in Cells
  OBVIOUS
<1>10. base \in [S -> V]
  BY <1>1, <1>6, <1>9, OneCell
<1>11. rule \in [S -> [V -> V]]
  <2>1. ASSUME NEW i \in S, NEW v \in V
        PROVE  [v EXCEPT ![i] = c[nxt[i]]] \in V
    BY <1>1, <1>8, OneCell
  <2>2. QED
    BY <1>7, <2>1
<1>12. PICK h \in [S -> V] : \A i \in S : Follows(h, i, stops, base, rule, nxt)
  BY <1>5, <1>10, <1>11, PathRecursion
<1>13. PICK up :
         up = CHOOSE g :
                g = [i \in 0 .. idx |->
                       IF AtTop(c, idx, cmp, i)
                       THEN [c EXCEPT ![i] = c[idx]]
                       ELSE [g[Parent(i)] EXCEPT ![i] = c[Parent(i)]]]
  OBVIOUS
<1>14. \A i \in 0 .. idx :
         h[i] = IF AtTop(c, idx, cmp, i)
                THEN [c EXCEPT ![i] = c[idx]]
                ELSE [h[Parent(i)] EXCEPT ![i] = c[Parent(i)]]
  <2>1. ASSUME NEW i \in 0 .. idx
        PROVE  h[i] = IF AtTop(c, idx, cmp, i)
                      THEN [c EXCEPT ![i] = c[idx]]
                      ELSE [h[Parent(i)] EXCEPT ![i] = c[Parent(i)]]
    <3>1. i \in S /\ (i \in stops <=> AtTop(c, idx, cmp, i)) /\ (i \notin stops => i # 0)
      BY <1>1, <1>21
    <3>2. CASE i \in stops
      BY <1>6, <1>12, <3>1, <3>2 DEF Follows
    <3>3. CASE i \notin stops
      <4>1. nxt[i] = Parent(i) /\ nxt[i] \in S
        BY <1>2, <1>8, <3>1, <3>3
      <4>2. h[nxt[i]] \in V
        BY <4>1
      <4>3. rule[i][h[nxt[i]]] = [h[nxt[i]] EXCEPT ![i] = c[nxt[i]]]
        BY <1>7, <3>1, <4>2
      <4>4. h[i] = [h[nxt[i]] EXCEPT ![i] = c[nxt[i]]]
        BY <1>12, <3>1, <3>3, <4>3 DEF Follows
      <4>5. QED
        BY <3>1, <3>3, <4>1, <4>4
    <3>4. QED
      BY <3>2, <3>3
  <2>2. QED
    BY <2>1
<1>15. h = [i \in 0 .. idx |->
              IF AtTop(c, idx, cmp, i)
              THEN [c EXCEPT ![i] = c[idx]]
              ELSE [h[Parent(i)] EXCEPT ![i] = c[Parent(i)]]]
  BY <1>1, <1>14
<1>16. up = [i \in 0 .. idx |->
               IF AtTop(c, idx, cmp, i)
               THEN [c EXCEPT ![i] = c[idx]]
               ELSE [up[Parent(i)] EXCEPT ![i] = c[Parent(i)]]]
  BY <1>13, <1>15
<1>17. \A i \in S : i \in stops => up[i] \in V
  BY <1>1, <1>9, <1>16, OneCell
<1>18. \A i \in S : i \notin stops /\ up[nxt[i]] \in V => up[i] \in V
  <2>1. ASSUME NEW i \in S, i \notin stops, up[nxt[i]] \in V
        PROVE  up[i] \in V
    <3>1. i # 0 /\ nxt[i] = Parent(i)
      BY <1>1, <1>2, <1>21, <2>1
    <3>2. up[i] = [up[nxt[i]] EXCEPT ![i] = c[nxt[i]]]
      BY <1>1, <1>16, <2>1, <3>1
    <3>3. QED
      BY <1>1, <1>8, <2>1, <3>2, OneCell
  <2>2. QED
    BY <2>1
<1>19. \A i \in S : up[i] \in V
  <2>1. StaysAlong(up, V, S, stops, nxt)
    BY <1>17, <1>18 DEF StaysAlong
  <2>2. QED
    BY <1>5, <2>1, PathInduction
<1>20. SiftUp(c, idx, cmp) = up[idx]
  BY <1>13 DEF SiftUp, AtTop
<1>22. QED
  BY <1>1, <1>19, <1>20

(* Whether the right child is larger, and where a sift down stops.         *)
RightIsLarger(c, i, cmp) == cmp[c[2 * i + 1], c[2 * i + 2]] < 0

AtBottom(c, idx, len, cmp, i) ==
  2 * i + 1 >= len \/ cmp[c[idx], c[BestChild(c, i, len, cmp)]] >= 0

(* A child that there is.                                                  *)
LEMMA BestChildIsBelow ==
  ASSUME NEW c, NEW idx, NEW len \in Nat, NEW cmp, NEW i \in 0 .. len - 1, ~AtBottom(c, idx, len, cmp, i)
  PROVE  BestChild(c, i, len, cmp) \in 0 .. len - 1 /\ i < BestChild(c, i, len, cmp)
<1>1. PICK b : b = BestChild(c, i, len, cmp)
  OBVIOUS
<1>2. b = IF 2 * i + 2 < len /\ RightIsLarger(c, i, cmp) THEN 2 * i + 2 ELSE 2 * i + 1
  BY <1>1, Zenon DEF BestChild, RightIsLarger
<1>3. ~(2 * i + 1 >= len)
  BY Zenon DEF AtBottom
<1>4. QED
  BY <1>1, <1>2, <1>3

(* sift_down.                                                              *)
LEMMA SiftDownKeepsCells ==
  ASSUME NEW n \in Nat, NEW c \in [0 .. n - 1 -> Cells], NEW len \in 0 .. n, NEW idx \in 0 .. len - 1, NEW cmp
  PROVE  SiftDown(c, idx, len, cmp) \in [0 .. n - 1 -> Cells]
<1>1. PICK S, V, stops :
        /\ S = 0 .. len - 1
        /\ V = [0 .. n - 1 -> Cells]
        /\ stops = {i \in 0 .. len - 1 : AtBottom(c, idx, len, cmp, i)}
  OBVIOUS
<1>2. PICK rank, nxt : /\ rank = [i \in S |-> len - 1 - i]
                       /\ nxt = [i \in S |-> IF i \in stops THEN i ELSE BestChild(c, i, len, cmp)]
  OBVIOUS
<1>3. len \in Nat /\ \A i \in S : i \in Nat /\ i <= len - 1 /\ i \in 0 .. n - 1
  BY <1>1
<1>4. \A i \in S : i \notin stops => BestChild(c, i, len, cmp) \in S /\ i < BestChild(c, i, len, cmp)
  <2>1. ASSUME NEW i \in S, i \notin stops
        PROVE  BestChild(c, i, len, cmp) \in S /\ i < BestChild(c, i, len, cmp)
    <3>1. i \in 0 .. len - 1 /\ ~AtBottom(c, idx, len, cmp, i)
      BY <1>1, <2>1
    <3>2. BestChild(c, i, len, cmp) \in 0 .. len - 1 /\ i < BestChild(c, i, len, cmp)
      BY <1>3, <3>1, BestChildIsBelow
    <3>3. QED
      BY <1>1, <3>2
  <2>2. QED
    BY <2>1
<1>5. IsPath(S, len - 1, rank, stops, nxt)
  <2>1. len - 1 \in Nat /\ rank \in [S -> 0 .. len - 1]
    BY <1>1, <1>2, <1>3
  <2>2. nxt \in [S -> S]
    BY <1>2, <1>4
  <2>3. ASSUME NEW i \in S, i \notin stops
        PROVE  rank[nxt[i]] < rank[i]
    <3>1. PICK b : b = BestChild(c, i, len, cmp)
      OBVIOUS
    <3>2. nxt[i] = b /\ b \in S /\ i < b
      BY <1>2, <1>4, <2>3, <3>1
    <3>3. rank[b] = len - 1 - b /\ rank[i] = len - 1 - i
      BY <1>2, <3>2
    <3>4. b \in Int /\ i \in Int /\ len \in Int
      BY <1>1, <1>3, <3>2
    <3>5. QED
      BY <3>2, <3>3, <3>4
  <2>4. QED
    BY <2>1, <2>2, <2>3 DEF IsPath
<1>6. PICK base : base = [i \in S |-> [c EXCEPT ![i] = c[idx]]]
  OBVIOUS
<1>7. PICK rule : rule = [i \in S |-> [v \in V |-> [v EXCEPT ![i] = c[nxt[i]]]]]
  OBVIOUS
<1>8. \A i \in S : c[i] \in Cells /\ nxt[i] \in S
  BY <1>3, <1>5 DEF IsPath
<1>9. c[idx] \in Cells
  OBVIOUS
<1>10. base \in [S -> V]
  BY <1>1, <1>6, <1>9, OneCell
<1>11. rule \in [S -> [V -> V]]
  <2>1. ASSUME NEW i \in S, NEW v \in V
        PROVE  [v EXCEPT ![i] = c[nxt[i]]] \in V
    <3>1. nxt[i] \in S
      BY <1>8
    <3>2. c[nxt[i]] \in Cells
      BY <1>8, <3>1
    <3>3. QED
      BY <1>1, <3>2, OneCell
  <2>2. QED
    BY <1>7, <2>1
<1>12. PICK h \in [S -> V] : \A i \in S : Follows(h, i, stops, base, rule, nxt)
  BY <1>5, <1>10, <1>11, PathRecursion
<1>13. PICK down :
         down = CHOOSE g :
                  g = [i \in 0 .. len - 1 |->
                         IF AtBottom(c, idx, len, cmp, i)
                         THEN [c EXCEPT ![i] = c[idx]]
                         ELSE [g[BestChild(c, i, len, cmp)] EXCEPT ![i] = c[BestChild(c, i, len, cmp)]]]
  OBVIOUS
<1>14. \A i \in 0 .. len - 1 :
         h[i] = IF AtBottom(c, idx, len, cmp, i)
                THEN [c EXCEPT ![i] = c[idx]]
                ELSE [h[BestChild(c, i, len, cmp)] EXCEPT ![i] = c[BestChild(c, i, len, cmp)]]
  <2>1. ASSUME NEW i \in 0 .. len - 1
        PROVE  h[i] = IF AtBottom(c, idx, len, cmp, i)
                      THEN [c EXCEPT ![i] = c[idx]]
                      ELSE [h[BestChild(c, i, len, cmp)] EXCEPT ![i] = c[BestChild(c, i, len, cmp)]]
    <3>1. i \in S /\ (i \in stops <=> AtBottom(c, idx, len, cmp, i))
      BY <1>1
    <3>2. CASE i \in stops
      BY <1>6, <1>12, <3>1, <3>2 DEF Follows
    <3>3. CASE i \notin stops
      <4>1. nxt[i] = BestChild(c, i, len, cmp) /\ nxt[i] \in S
        BY <1>2, <1>8, <3>1, <3>3
      <4>2. h[nxt[i]] \in V
        BY <4>1
      <4>3. rule[i][h[nxt[i]]] = [h[nxt[i]] EXCEPT ![i] = c[nxt[i]]]
        BY <1>7, <3>1, <4>2
      <4>4. h[i] = [h[nxt[i]] EXCEPT ![i] = c[nxt[i]]]
        BY <1>12, <3>1, <3>3, <4>3 DEF Follows
      <4>5. QED
        BY <3>1, <3>3, <4>1, <4>4
    <3>4. QED
      BY <3>2, <3>3
  <2>2. QED
    BY <2>1
<1>15. h = [i \in 0 .. len - 1 |->
              IF AtBottom(c, idx, len, cmp, i)
              THEN [c EXCEPT ![i] = c[idx]]
              ELSE [h[BestChild(c, i, len, cmp)] EXCEPT ![i] = c[BestChild(c, i, len, cmp)]]]
  BY <1>1, <1>14
<1>16. down = [i \in 0 .. len - 1 |->
                 IF AtBottom(c, idx, len, cmp, i)
                 THEN [c EXCEPT ![i] = c[idx]]
                 ELSE [down[BestChild(c, i, len, cmp)] EXCEPT ![i] = c[BestChild(c, i, len, cmp)]]]
  BY <1>13, <1>15
<1>17. \A i \in S : i \in stops => down[i] \in V
  BY <1>1, <1>9, <1>16, OneCell
<1>18. \A i \in S : i \notin stops /\ down[nxt[i]] \in V => down[i] \in V
  <2>1. ASSUME NEW i \in S, i \notin stops, down[nxt[i]] \in V
        PROVE  down[i] \in V
    <3>1. ~AtBottom(c, idx, len, cmp, i) /\ nxt[i] = BestChild(c, i, len, cmp)
      BY <1>1, <1>2, <2>1
    <3>2. down[i] = [down[nxt[i]] EXCEPT ![i] = c[nxt[i]]]
      BY <1>1, <1>16, <2>1, <3>1
    <3>3. nxt[i] \in S
      BY <1>8
    <3>4. c[nxt[i]] \in Cells
      BY <1>8, <3>3
    <3>5. QED
      BY <1>1, <2>1, <3>2, <3>4, OneCell
  <2>2. QED
    BY <2>1
<1>19. \A i \in S : down[i] \in V
  <2>1. StaysAlong(down, V, S, stops, nxt)
    BY <1>17, <1>18 DEF StaysAlong
  <2>2. QED
    BY <1>5, <2>1, PathInduction
<1>20. SiftDown(c, idx, len, cmp) = down[idx]
  BY <1>13, Zenon DEF SiftDown, AtBottom
<1>21. QED
  BY <1>1, <1>19, <1>20

(* make_heap: a sift down from each inner place, the last one first.       *)
LEMMA MakeHeapKeepsCells ==
  ASSUME NEW n \in Nat, NEW c \in [0 .. n - 1 -> Cells], NEW len \in 0 .. n, NEW cmp
  PROVE  MakeHeap(c, len, cmp) \in [0 .. n - 1 -> Cells]
<1>1. PICK half \in Nat : half = len \div 2
  OBVIOUS
<1>2. half <= len /\ (len > 0 => half < len) /\ len \in Nat
  BY <1>1
<1>3. PICK S, V, stops : S = 0 .. half /\ V = [0 .. n - 1 -> Cells] /\ stops = {half}
  OBVIOUS
<1>4. PICK rank, nxt : /\ rank = [i \in S |-> half - i]
                       /\ nxt = [i \in S |-> IF i \in stops THEN i ELSE i + 1]
  OBVIOUS
<1>5. \A i \in S : i \notin stops => i \in 0 .. len - 1 /\ i + 1 \in S
  BY <1>2, <1>3
<1>6. IsPath(S, half, rank, stops, nxt)
  <2>1. rank \in [S -> 0 .. half]
    BY <1>3, <1>4
  <2>2. nxt \in [S -> S]
    BY <1>4, <1>5
  <2>3. ASSUME NEW i \in S, i \notin stops
        PROVE  rank[nxt[i]] < rank[i]
    <3>1. nxt[i] = i + 1 /\ i + 1 \in S
      BY <1>4, <1>5, <2>3
    <3>2. rank[i + 1] = half - (i + 1) /\ rank[i] = half - i /\ i \in Int
      BY <1>3, <1>4, <3>1
    <3>3. QED
      BY <3>1, <3>2
  <2>4. QED
    BY <2>1, <2>2, <2>3 DEF IsPath
<1>7. PICK base : base = [i \in S |-> c]
  OBVIOUS
<1>8. base \in [S -> V]
  BY <1>3, <1>7
<1>9. \A i \in S : i \notin stops => \A v \in V : SiftDown(v, i, len, cmp) \in V
  <2>1. ASSUME NEW i \in S, i \notin stops, NEW v \in V
        PROVE  SiftDown(v, i, len, cmp) \in V
    <3>1. i \in 0 .. len - 1 /\ v \in [0 .. n - 1 -> Cells]
      BY <1>3, <1>5, <2>1
    <3>2. SiftDown(v, i, len, cmp) \in [0 .. n - 1 -> Cells]
      BY <3>1, SiftDownKeepsCells
    <3>3. QED
      BY <1>3, <3>2
  <2>2. QED
    BY <2>1
<1>10. PICK rule : rule = [i \in S |-> [v \in V |-> IF i \in stops THEN v ELSE SiftDown(v, i, len, cmp)]]
  OBVIOUS
<1>11. rule \in [S -> [V -> V]]
  BY <1>9, <1>10
<1>12. PICK h \in [S -> V] : \A i \in S : Follows(h, i, stops, base, rule, nxt)
  BY <1>6, <1>8, <1>11, PathRecursion
<1>13. PICK from :
         from = CHOOSE g :
                  g = [i \in 0 .. half |-> IF i = half THEN c ELSE SiftDown(g[i + 1], i, len, cmp)]
  OBVIOUS
<1>14. \A i \in S : h[i] = IF i = half THEN c ELSE SiftDown(h[i + 1], i, len, cmp)
  <2>1. ASSUME NEW i \in S
        PROVE  h[i] = IF i = half THEN c ELSE SiftDown(h[i + 1], i, len, cmp)
    <3>1. CASE i = half
      BY <1>3, <1>7, <1>12, <3>1 DEF Follows
    <3>2. CASE i # half
      <4>1. i \notin stops /\ nxt[i] = i + 1 /\ i + 1 \in S
        BY <1>3, <1>4, <1>5, <3>2
      <4>2. h[i + 1] \in V
        BY <4>1
      <4>3. rule[i][h[i + 1]] = SiftDown(h[i + 1], i, len, cmp)
        BY <1>10, <4>1, <4>2
      <4>4. h[i] = rule[i][h[i + 1]]
        BY <1>12, <4>1 DEF Follows
      <4>5. QED
        BY <3>2, <4>3, <4>4
    <3>3. QED
      BY <3>1, <3>2
  <2>2. QED
    BY <2>1
<1>15. h = [i \in 0 .. half |-> IF i = half THEN c ELSE SiftDown(h[i + 1], i, len, cmp)]
  BY <1>3, <1>14
<1>16. from = [i \in 0 .. half |-> IF i = half THEN c ELSE SiftDown(from[i + 1], i, len, cmp)]
  BY <1>13, <1>15
<1>17. \A i \in S : i \in stops => from[i] \in V
  BY <1>3, <1>16
<1>18. \A i \in S : i \notin stops /\ from[nxt[i]] \in V => from[i] \in V
  <2>1. ASSUME NEW i \in S, i \notin stops, from[nxt[i]] \in V
        PROVE  from[i] \in V
    <3>1. i # half /\ nxt[i] = i + 1
      BY <1>3, <1>4, <2>1
    <3>2. from[i] = SiftDown(from[nxt[i]], i, len, cmp)
      BY <1>3, <1>16, <2>1, <3>1
    <3>3. QED
      BY <1>9, <2>1, <3>2
  <2>2. QED
    BY <2>1
<1>19. \A i \in S : from[i] \in V
  <2>1. StaysAlong(from, V, S, stops, nxt)
    BY <1>17, <1>18 DEF StaysAlong
  <2>2. QED
    BY <1>6, <2>1, PathInduction
<1>20. MakeHeap(c, len, cmp) = from[0]
  BY <1>1, <1>13, Zenon DEF MakeHeap
<1>21. 0 \in S
  BY <1>3
<1>22. QED
  BY <1>3, <1>19, <1>20, <1>21

(* push_heap and pop_heap.                                                 *)
LEMMA HeapKeepsCells ==
  ASSUME NEW n \in Nat, NEW c \in [0 .. n - 1 -> Cells], NEW len \in 1 .. n, NEW cmp
  PROVE  /\ PushHeap(c, len, cmp) \in [0 .. n - 1 -> Cells]
         /\ PopHeap(c, len, cmp) \in [0 .. n - 1 -> Cells]
<1>1. len - 1 \in 0 .. n - 1 /\ 0 \in 0 .. n - 1 /\ len - 1 \in 0 .. n
  OBVIOUS
<1>2. SiftUp(c, len - 1, cmp) \in [0 .. n - 1 -> Cells]
  BY <1>1, SiftUpKeepsCells
<1>3. PICK e : e = Exchanged(c, 0, len - 1)
  OBVIOUS
<1>4. e \in [0 .. n - 1 -> Cells]
  <2>1. c[0] \in Cells /\ c[len - 1] \in Cells
    BY <1>1
  <2>2. QED
    BY <1>3, <2>1 DEF Exchanged
<1>5. len # 1 => SiftDown(e, 0, len - 1, cmp) \in [0 .. n - 1 -> Cells]
  <2>1. SUFFICES ASSUME len # 1 PROVE SiftDown(e, 0, len - 1, cmp) \in [0 .. n - 1 -> Cells]
    OBVIOUS
  <2>2. PICK k \in 0 .. n : k = len - 1
    BY <1>1
  <2>3. 0 \in 0 .. k - 1
    BY <2>1, <2>2
  <2>4. SiftDown(e, 0, k, cmp) \in [0 .. n - 1 -> Cells]
    BY <1>4, <2>3, SiftDownKeepsCells
  <2>5. QED
    BY <2>2, <2>4
<1>6. QED
  BY <1>2, <1>3, <1>5 DEF PushHeap, PopHeap
-----------------------------------------------------------------------------
(* One elem at a time, of either kind; and PQueue's elems.                 *)

(* set, and a store through a pointer into the elems.                      *)
LEMMA SetMakes ==
  ASSUME NEW kind, NEW d, NEW m, IsMemory(m), StructOK(kind, d, m), NEW i \in 0 .. d.len - 1, NEW v \in Cells
  PROVE  Makes(kind, d, m, Result(OK, d, SetCells(d, m, Written(CellsOf(d, m), i, <<v>>))),
               Replaced(ToSpan(d, m), i, v))
<1>1. PICK c, n, s, u : c = RoomOf(kind, d) /\ n = d.len /\ s = ToSpan(d, m) /\ u = CellsOf(d, m)
  OBVIOUS
<1>2. c \in Nat /\ u \in [0 .. c - 1 -> Cells] /\ n \in Nat /\ n <= c /\ i \in 0 .. n - 1
  BY <1>1, StructFacts, CellsAre
<1>3. s \in Seq(Cells) /\ Len(s) = n /\ Reads(u, s)
  BY <1>1, SpanIsRead
<1>4. HaveElems(Written(u, i, <<v>>), c, Replaced(s, i, v), n)
  BY <1>2, <1>3, SetCellReads
<1>5. Makes(kind, d, m, Result(OK, d, SetCells(d, m, Written(u, i, <<v>>))), Replaced(s, i, v))
  BY <1>1, <1>4, Overwritten DEF HaveElems
<1>6. QED
  BY <1>1, <1>5

(* Two elems that change places.                                           *)
LEMMA SwapElemsMakes ==
  ASSUME NEW kind, NEW d, NEW m, IsMemory(m), StructOK(kind, d, m),
         NEW i \in 0 .. d.len - 1, NEW j \in 0 .. d.len - 1
  PROVE  Makes(kind, d, m, Result(OK, d, SetCells(d, m, Exchanged(CellsOf(d, m), i, j))),
               Crossed(ToSpan(d, m), i, j))
<1>1. PICK c, n, s, u : c = RoomOf(kind, d) /\ n = d.len /\ s = ToSpan(d, m) /\ u = CellsOf(d, m)
  OBVIOUS
<1>2. c \in Nat /\ u \in [0 .. c - 1 -> Cells] /\ n \in Nat /\ n <= c /\ i \in 0 .. n - 1 /\ j \in 0 .. n - 1
  BY <1>1, StructFacts, CellsAre
<1>3. s \in Seq(Cells) /\ Len(s) = n /\ Reads(u, s)
  BY <1>1, SpanIsRead
<1>4. HaveElems(Exchanged(u, i, j), c, Crossed(s, i, j), n)
  BY <1>2, <1>3, SwappedCellsRead
<1>5. Makes(kind, d, m, Result(OK, d, SetCells(d, m, Exchanged(u, i, j))), Crossed(s, i, j))
  BY <1>1, <1>4, Overwritten DEF HaveElems
<1>6. QED
  BY <1>1, <1>5

(* A heap made of the elems that were filled in.                           *)
LEMMA HeapIsBorn ==
  ASSUME NEW m, IsMemory(m), NEW a \in Als, NEW s \in Seq(Cells), NEW cmp, NEW hdr, NEW room
  PROVE  \E t : Born("vec", m, HeapFromData(m, a, s, cmp, hdr, room), a, t)
<1>1. PICK r : r = FromData(m, a, s, hdr, room)
  OBVIOUS
<1>2. Born("vec", m, r, a, s)
  BY <1>1, VecsAreBorn
<1>3. PICK w : w = MakeHeap(CellsOf(r.d, r.m), Len(s), cmp)
  OBVIOUS
<1>4. PICK h : h = HeapFromData(m, a, s, cmp, hdr, room)
  OBVIOUS
<1>5. h = IF r.st = NoMem THEN r ELSE Result(OK, r.d, SetCells(r.d, r.m, w))
  BY <1>1, <1>3, <1>4 DEF HeapFromData, Rearranged
<1>6. CASE r = Result(NoMem, Null, m)
  <2>1. h = r
    BY <1>5, <1>6 DEF Result
  <2>2. QED
    BY <1>2, <1>4, <2>1
<1>7. CASE r # Result(NoMem, Null, m)
  <2>1. /\ r.st = OK /\ Exchanges("vec", Null, {}, m, r.d, {"vec"}, r.m)
        /\ StructOK("vec", r.d, r.m) /\ r.d.al = a /\ ToSpan(r.d, r.m) = s
    BY <1>2, <1>7 DEF Born
  <2>2. IsMemory(r.m)
    BY <2>1 DEF Exchanges, Trades
  <2>3. /\ r.d.cap \in Nat /\ r.d.len \in Nat /\ r.d.len <= r.d.cap /\ RoomOf("vec", r.d) = r.d.cap
        /\ CellsOf(r.d, r.m) \in [0 .. r.d.cap - 1 -> Cells]
    BY <2>1, VecFacts
  <2>4. Len(s) = r.d.len
    BY <2>1, SpanIsRead
  <2>5. Len(s) \in 0 .. r.d.cap
    BY <2>3, <2>4
  <2>6. w \in [0 .. r.d.cap - 1 -> Cells]
    BY <1>3, <2>3, <2>5, MakeHeapKeepsCells
  <2>7. PICK q : q = SetCells(r.d, r.m, w)
    OBVIOUS
  <2>8. Turns("vec", r.d, r.m, r.d, q)
    BY <2>1, <2>2, <2>3, <2>6, <2>7, Writing
  <2>9. Exchanges("vec", r.d, {"vec"}, r.m, r.d, {"vec"}, q)
    BY <2>1, <2>2, <2>8, TurnsExchange
  <2>10. Exchanges("vec", Null, {}, m, r.d, {"vec"}, q)
    BY <2>1, <2>9, ExchangesFollow
  <2>11. h = Result(OK, r.d, q)
    BY <1>5, <2>1, <2>7, MemoryAssumption
  <2>12. h.st = OK /\ h.d = r.d /\ h.m = q
    BY <2>11 DEF Result
  <2>13. StructOK("vec", r.d, q)
    BY <2>8 DEF Turns
  <2>14. Born("vec", m, h, a, ToSpan(h.d, h.m))
    BY <2>1, <2>10, <2>12, <2>13 DEF Born
  <2>15. QED
    BY <1>4, <2>14
<1>8. QED
  BY <1>6, <1>7

(* tda_pqueue_push: the elems sifted once there is one more.               *)
LEMMA HeapPushMakes ==
  ASSUME NEW d, NEW m, IsMemory(m), StructOK("vec", d, m), NEW v \in Cells, NEW room, NEW cmp,
         NEW r, r = Pushed(d, m, v, room),
         NEW h, h = Rearranged(r, PushHeap(CellsOf(r.d, r.m), r.d.len, cmp))
  PROVE  \E t : Answers("vec", d, m, h, t)
<1>1. Answers("vec", d, m, r, Append(ToSpan(d, m), v))
  BY PushMakes
<1>2. PICK w : w = PushHeap(CellsOf(r.d, r.m), r.d.len, cmp)
  OBVIOUS
<1>3. h = IF r.st = NoMem THEN r ELSE Result(OK, r.d, SetCells(r.d, r.m, w))
  BY <1>2 DEF Rearranged
<1>4. CASE r = Result(NoMem, d, m)
  <2>1. h = r
    BY <1>3, <1>4 DEF Result
  <2>2. QED
    BY <1>1, <2>1
<1>5. CASE r # Result(NoMem, d, m)
  <2>1. r.st = OK /\ Turns("vec", d, m, r.d, r.m) /\ ToSpan(r.d, r.m) = Append(ToSpan(d, m), v)
    BY <1>1, <1>5 DEF Answers, Makes
  <2>2. StructOK("vec", r.d, r.m) /\ IsMemory(r.m)
    BY <2>1 DEF Turns, Trades
  <2>3. /\ r.d.cap \in Nat /\ r.d.len \in Nat /\ r.d.len <= r.d.cap /\ RoomOf("vec", r.d) = r.d.cap
        /\ CellsOf(r.d, r.m) \in [0 .. r.d.cap - 1 -> Cells]
    BY <2>2, VecFacts
  <2>4. ToSpan(d, m) \in Seq(Cells)
    BY SpanIsRead
  <2>5. Len(Append(ToSpan(d, m), v)) = Len(ToSpan(d, m)) + 1 /\ Len(ToSpan(d, m)) \in Nat
    BY <2>4
  <2>6. Len(ToSpan(r.d, r.m)) = r.d.len
    BY <2>2, SpanIsRead
  <2>7. r.d.len \in 1 .. r.d.cap
    BY <2>1, <2>3, <2>5, <2>6
  <2>8. w \in [0 .. r.d.cap - 1 -> Cells]
    BY <1>2, <2>3, <2>7, HeapKeepsCells
  <2>9. PICK q : q = SetCells(r.d, r.m, w)
    OBVIOUS
  <2>10. Turns("vec", r.d, r.m, r.d, q)
    BY <2>2, <2>3, <2>8, <2>9, Writing
  <2>11. Turns("vec", d, m, r.d, q)
    BY <2>1, <2>10, TurnsFollow
  <2>12. h = Result(OK, r.d, q)
    BY <1>3, <2>1, <2>9, MemoryAssumption
  <2>13. h.st = OK /\ h.d = r.d /\ h.m = q
    BY <2>12 DEF Result
  <2>14. Answers("vec", d, m, h, ToSpan(h.d, h.m))
    BY <2>11, <2>13 DEF Answers, Makes
  <2>15. QED
    BY <2>14
<1>6. QED
  BY <1>4, <1>5

(* tda_pqueue_pop: the elems sifted, and the last one gone.                *)
LEMMA HeapPopMakes ==
  ASSUME NEW d, NEW m, IsMemory(m), StructOK("vec", d, m), d.len > 0, NEW cmp,
         NEW h, h = Popped(d, SetCells(d, m, PopHeap(CellsOf(d, m), d.len, cmp)))
  PROVE  \E t : Answers("vec", d, m, h, t)
<1>1. /\ d.cap \in Nat /\ d.len \in Nat /\ d.len <= d.cap /\ RoomOf("vec", d) = d.cap
      /\ CellsOf(d, m) \in [0 .. d.cap - 1 -> Cells]
  BY VecFacts
<1>2. d.len \in 1 .. d.cap
  BY <1>1
<1>3. PICK w : w = PopHeap(CellsOf(d, m), d.len, cmp)
  OBVIOUS
<1>4. w \in [0 .. d.cap - 1 -> Cells]
  BY <1>1, <1>2, <1>3, HeapKeepsCells
<1>5. PICK q : q = SetCells(d, m, w)
  OBVIOUS
<1>6. Turns("vec", d, m, d, q)
  BY <1>1, <1>4, <1>5, Writing
<1>7. StructOK("vec", d, q) /\ IsMemory(q)
  BY <1>6 DEF Turns, Trades
<1>8. d.len - 1 \in 0 .. d.len
  BY <1>1, <1>2
<1>9. Makes("vec", d, q, Result(OK, WithLen(d, d.len - 1), q), SS!FirstN(ToSpan(d, q), d.len - 1))
  BY <1>7, <1>8, TruncateMakes
<1>10. h = Result(OK, WithLen(d, d.len - 1), q)
  BY <1>3, <1>5 DEF Popped, WithLen
<1>11. h.st = OK /\ Turns("vec", d, q, h.d, h.m)
  BY <1>9, <1>10 DEF Makes
<1>12. Turns("vec", d, m, h.d, h.m)
  BY <1>6, <1>11, TurnsFollow
<1>13. Answers("vec", d, m, h, ToSpan(h.d, h.m))
  BY <1>11, <1>12 DEF Answers, Makes
<1>14. QED
  BY <1>13
-----------------------------------------------------------------------------
(* All the objects and their books.                                        *)

(* Where a struct may stand, the headers that may come with it, and where  *)
(* an object of a kind has its struct.                                     *)
Owners       == {"vec", "arr"} \X Handles
RolesIn(kind) == IF kind = "arr" THEN {"arr"} ELSE {"vec", "stack", "pqueue"}
Slot(k)      == IF k = "arr" THEN "arr" ELSE "vec"

(* Of structs D with headers J: the handles of those a lent a k to.        *)
Living(D, J, k, a) == {h \in Handles : Owes(D[<<Slot(k), h>>], J[<<Slot(k), h>>], a, k) = 1}

(* Each owner's struct is well formed over a block no other one has; a     *)
(* block that is lent has an owner; and the headers are counted.           *)
Apart(D)    == \A o, p \in Owners : o # p /\ Blk(D[o]) # Null => Blk(D[o]) # Blk(D[p])
Owned(D, m) == \A b \in Blocks : m.lent[b] # Null => \E o \in Owners : Blk(D[o]) = b

Counted(D, J, m) ==
  \A a \in Als, k \in ObjectKinds :
    IsFiniteSet(Living(D, J, k, a)) /\ Hdrs(m, a, k) = Cardinality(Living(D, J, k, a))

Sound(D, J, m) ==
  /\ IsMemory(m)
  /\ \A o \in Owners : D[o] # Null => StructOK(o[1], D[o], m)
  /\ \A o \in Owners : J[o] \subseteq RolesIn(o[1])
  /\ Apart(D)
  /\ Owned(D, m)
  /\ Counted(D, J, m)

(* What a caller sees of the objects.                                      *)
Shown(x, m) == IF x = Null THEN Null ELSE [al |-> x.al, elems |-> ToSpan(x, m)]
Shows(D, m) == [o \in Owners |-> Shown(D[o], m)]

Elsewhere(D, J, o, E, L) == \A p \in Owners : p # o => E[p] = D[p] /\ L[p] = J[p]

(* A set that changes at one member, counted.                              *)
LEMMA CountMoves ==
  ASSUME NEW T, IsFiniteSet(T), NEW U, NEW g, \A h : h # g => (h \in T <=> h \in U)
  PROVE  /\ IsFiniteSet(U)
         /\ Cardinality(U) = Cardinality(T) + (IF g \in U THEN 1 ELSE 0) - (IF g \in T THEN 1 ELSE 0)
<1>1. Cardinality(T) \in Nat
  BY FS_CardinalityType
<1>2. CASE g \in U
  <2>1. U = T \cup {g}
    BY <1>2
  <2>2. IsFiniteSet(U) /\ Cardinality(U) = IF g \in T THEN Cardinality(T) ELSE Cardinality(T) + 1
    BY <2>1, FS_AddElement
  <2>3. QED
    BY <1>1, <1>2, <2>2
<1>3. CASE g \notin U
  <2>1. U = T \ {g}
    BY <1>3
  <2>2. IsFiniteSet(U) /\ Cardinality(U) = IF g \in T THEN Cardinality(T) - 1 ELSE Cardinality(T)
    BY <2>1, FS_RemoveElement
  <2>3. QED
    BY <1>1, <1>3, <2>2
<1>4. QED
  BY <1>2, <1>3

(* The headers of one object come or go, and the others are counted on.    *)
LEMMA ExchangeIsCounted ==
  ASSUME NEW D, NEW J, NEW m, IsMemory(m), Counted(D, J, m), NEW o \in Owners,
         NEW E, NEW L, Elsewhere(D, J, o, E, L), J[o] \subseteq RolesIn(o[1]), L[o] \subseteq RolesIn(o[1]),
         NEW q, Pays(D[o], J[o], m, E[o], L[o], q)
  PROVE  Counted(E, L, q)
<1>1. PICK kind \in {"vec", "arr"}, g \in Handles : o = <<kind, g>>
  BY DEF Owners
<1>2. SUFFICES ASSUME NEW a \in Als, NEW k \in ObjectKinds
               PROVE  IsFiniteSet(Living(E, L, k, a)) /\ Hdrs(q, a, k) = Cardinality(Living(E, L, k, a))
  BY DEF Counted
<1>3. PICK T, U : T = Living(D, J, k, a) /\ U = Living(E, L, k, a)
  OBVIOUS
<1>4. IsFiniteSet(T) /\ Hdrs(m, a, k) = Cardinality(T)
  BY <1>3 DEF Counted
<1>5. Hdrs(q, a, k) = Hdrs(m, a, k) + Owes(E[o], L[o], a, k) - Owes(D[o], J[o], a, k)
  BY DEF Pays
<1>6. Cardinality(T) \in Nat
  BY <1>4, FS_CardinalityType
<1>7. ASSUME NEW h \in Handles, <<Slot(k), h>> # o
      PROVE  h \in T <=> h \in U
  <2>1. <<Slot(k), h>> \in Owners
    BY DEF Owners, Slot
  <2>2. E[<<Slot(k), h>>] = D[<<Slot(k), h>>] /\ L[<<Slot(k), h>>] = J[<<Slot(k), h>>]
    BY <1>7, <2>1 DEF Elsewhere
  <2>3. QED
    BY <1>3, <2>2 DEF Living
<1>8. T \subseteq Handles /\ U \subseteq Handles
  BY <1>3 DEF Living
<1>9. CASE Slot(k) = kind
  <2>1. \A h : h # g => (h \in T <=> h \in U)
    BY <1>1, <1>7, <1>8, <1>9
  <2>2. /\ IsFiniteSet(U)
        /\ Cardinality(U) = Cardinality(T) + (IF g \in U THEN 1 ELSE 0) - (IF g \in T THEN 1 ELSE 0)
    BY <1>4, <2>1, CountMoves
  <2>3. Owes(E[o], L[o], a, k) = IF g \in U THEN 1 ELSE 0
    BY <1>1, <1>3, <1>9 DEF Living, Owes
  <2>4. Owes(D[o], J[o], a, k) = IF g \in T THEN 1 ELSE 0
    BY <1>1, <1>3, <1>9 DEF Living, Owes
  <2>5. QED
    BY <1>3, <1>4, <1>5, <2>2, <2>3, <2>4
<1>10. CASE Slot(k) # kind
  <2>1. U = T
    BY <1>1, <1>7, <1>8, <1>10
  <2>2. k \notin RolesIn(kind)
    BY <1>1, <1>10 DEF RolesIn, Slot, ObjectKinds
  <2>3. Owes(E[o], L[o], a, k) = 0 /\ Owes(D[o], J[o], a, k) = 0
    BY <1>1, <2>2 DEF Owes
  <2>4. QED
    BY <1>3, <1>4, <1>5, <1>6, <2>1, <2>3
<1>11. QED
  BY <1>9, <1>10

(* A call that exchanges what one owner has leaves all others as they were.*)
LEMMA ExchangeIsSound ==
  ASSUME NEW D, NEW J, NEW m, Sound(D, J, m), NEW o \in Owners,
         NEW E, NEW L, Elsewhere(D, J, o, E, L), L[o] \subseteq RolesIn(o[1]),
         NEW q, Exchanges(o[1], D[o], J[o], m, E[o], L[o], q)
  PROVE  Sound(E, L, q) /\ Shows(E, q) = [Shows(D, m) EXCEPT ![o] = Shown(E[o], q)]
<1>1. PICK b, c : b = Blk(D[o]) /\ c = Blk(E[o])
  OBVIOUS
<1>2. Trades(b, m, c, q) /\ Pays(D[o], J[o], m, E[o], L[o], q) /\ (E[o] # Null => StructOK(o[1], E[o], q))
  BY <1>1 DEF Exchanges
<1>3. IsMemory(q) /\ b \in Blocks \cup {Null} /\ c \in Blocks \cup {Null}
  BY <1>2 DEF Trades
<1>4. ASSUME NEW p \in Owners, p # o, D[p] # Null
      PROVE  /\ E[p] = D[p] /\ StructOK(p[1], D[p], q) /\ ToSpan(D[p], q) = ToSpan(D[p], m)
             /\ Blk(D[p]) # Null => Blk(D[p]) # b /\ Blk(D[p]) # c
  <2>1. StructOK(p[1], D[p], m)
    BY <1>4 DEF Sound
  <2>2. PICK x : x = D[p].data
    OBVIOUS
  <2>3. Blk(D[p]) = x /\ (x # Null => x \in Blocks /\ m.lent[x] # Null)
    BY <2>1, <2>2, StructFacts
  <2>4. x # Null => x # b
    BY <1>1, <1>4, <2>3 DEF Sound, Apart
  <2>5. x # Null => x # c
    BY <1>2, <2>3, <2>4 DEF Trades
  <2>6. x # Null => q.lent[x] = m.lent[x]
    BY <1>2, <2>3, <2>4, <2>5 DEF Trades
  <2>7. StructOK(p[1], D[p], q) /\ ToSpan(D[p], q) = ToSpan(D[p], m)
    BY <2>1, <2>2, <2>6, StructStands
  <2>8. E[p] = D[p]
    BY <1>4 DEF Elsewhere
  <2>9. QED
    BY <2>3, <2>4, <2>5, <2>7, <2>8
<1>5. \A p \in Owners : p # o => E[p] = D[p] /\ L[p] = J[p]
  BY DEF Elsewhere
<1>6. ASSUME NEW p \in Owners, E[p] # Null
      PROVE  StructOK(p[1], E[p], q)
  BY <1>2, <1>4, <1>5, <1>6
<1>7. \A p \in Owners : L[p] \subseteq RolesIn(p[1])
  BY <1>5 DEF Sound
<1>8. Apart(E)
  <2>1. ASSUME NEW p \in Owners, p # o, Blk(D[p]) # Null
        PROVE  Blk(D[p]) # c
    <3>1. D[p] # Null
      BY <2>1 DEF Blk
    <3>2. QED
      BY <1>4, <2>1, <3>1
  <2>2. SUFFICES ASSUME NEW p \in Owners, NEW r \in Owners, p # r, Blk(E[p]) # Null
                 PROVE  Blk(E[p]) # Blk(E[r])
    BY DEF Apart
  <2>3. CASE p # o /\ r # o
    BY <1>5, <2>2, <2>3 DEF Sound, Apart
  <2>4. CASE p = o
    BY <1>1, <1>5, <2>1, <2>2, <2>4
  <2>5. CASE p # o /\ r = o
    BY <1>1, <1>5, <2>1, <2>2, <2>5
  <2>6. QED
    BY <2>3, <2>4, <2>5
<1>9. Owned(E, q)
  <2>1. SUFFICES ASSUME NEW x \in Blocks, q.lent[x] # Null
                 PROVE  \E p \in Owners : Blk(E[p]) = x
    BY DEF Owned
  <2>2. CASE x = c
    BY <1>1, <2>2
  <2>3. CASE x # c
    <3>1. x # Null
      BY MemoryAssumption
    <3>2. x # b
      BY <1>2, <2>1, <2>3, <3>1 DEF Trades
    <3>3. m.lent[x] # Null
      BY <1>2, <2>1, <2>3, <3>2 DEF Trades
    <3>4. PICK p \in Owners : Blk(D[p]) = x
      BY <3>3 DEF Sound, Owned
    <3>5. p # o
      BY <1>1, <3>2, <3>4
    <3>6. QED
      BY <1>5, <3>4, <3>5
  <2>4. QED
    BY <2>2, <2>3
<1>10. Counted(E, L, q)
  <2>1. IsMemory(m) /\ Counted(D, J, m) /\ J[o] \subseteq RolesIn(o[1])
    BY DEF Sound
  <2>2. QED
    BY <1>2, <2>1, ExchangeIsCounted
<1>11. Shows(E, q) = [Shows(D, m) EXCEPT ![o] = Shown(E[o], q)]
  <2>1. ASSUME NEW p \in Owners, p # o
        PROVE  Shown(E[p], q) = Shown(D[p], m)
    BY <1>4, <1>5, <2>1 DEF Shown
  <2>2. QED
    BY <2>1 DEF Shows
<1>12. QED
  BY <1>3, <1>6, <1>7, <1>8, <1>9, <1>10, <1>11 DEF Sound

Interchanged(F, o, p) == [F EXCEPT ![o] = F[p], ![p] = F[o]]

(* Two structs of one allocator, with the same headers, change places.     *)
LEMMA SwapIsSound ==
  ASSUME NEW D, NEW J, NEW m, Sound(D, J, m), NEW o \in Owners, NEW p \in Owners, o[1] = p[1],
         D[o] # Null, D[p] # Null, D[o].al = D[p].al, J[o] = J[p],
         NEW E, E[o] = D[p], E[p] = D[o], \A r \in Owners : r # o /\ r # p => E[r] = D[r]
  PROVE  Sound(E, J, m) /\ Shows(E, m) = Interchanged(Shows(D, m), o, p)
<1>1. \A r \in Owners : E[r] = IF r = p THEN D[o] ELSE IF r = o THEN D[p] ELSE D[r]
  OBVIOUS
<1>2. \A r \in Owners : E[r] # Null => StructOK(r[1], E[r], m)
  BY <1>1 DEF Sound
<1>3. Apart(E)
  BY <1>1 DEF Sound, Apart
<1>4. Owned(E, m)
  <2>1. SUFFICES ASSUME NEW x \in Blocks, m.lent[x] # Null
                 PROVE  \E r \in Owners : Blk(E[r]) = x
    BY DEF Owned
  <2>2. PICK r \in Owners : Blk(D[r]) = x
    BY <2>1 DEF Sound, Owned
  <2>3. QED
    BY <1>1, <2>2
<1>5. Counted(E, J, m)
  <2>1. SUFFICES ASSUME NEW a \in Als, NEW k \in ObjectKinds
                 PROVE  Living(E, J, k, a) = Living(D, J, k, a)
    BY DEF Sound, Counted
  <2>2. ASSUME NEW r \in Owners
        PROVE  Owes(E[r], J[r], a, k) = Owes(D[r], J[r], a, k)
    BY <1>1 DEF Owes
  <2>3. \A h \in Handles : <<Slot(k), h>> \in Owners
    BY DEF Owners, Slot
  <2>4. QED
    BY <2>2, <2>3 DEF Living
<1>6. Shows(E, m) = Interchanged(Shows(D, m), o, p)
  BY <1>1 DEF Shows, Interchanged
<1>7. QED
  BY <1>2, <1>3, <1>4, <1>5, <1>6 DEF Sound
-----------------------------------------------------------------------------
(* What a call on one object, or on two, does to all of them.              *)

(* The call was refused and nothing is seen of it, or the object at o has  *)
(* the elems of s.                                                         *)
Tells(D, J, m, E, q, st, o, s) ==
  /\ Sound(E, J, q)
  /\ \/ st = NoMem /\ Shows(E, q) = Shows(D, m)
     \/ st = OK /\ Shows(E, q) = [Shows(D, m) EXCEPT ![o].elems = s]

Only(D, o, E) == \A p \in Owners : p # o => E[p] = D[p]

(* Nothing seen of one object is nothing seen at all.                      *)
LEMMA SameShows ==
  ASSUME NEW D, NEW m, NEW o \in Owners, NEW F, F = [Shows(D, m) EXCEPT ![o] = Shown(D[o], m)]
  PROVE  F = Shows(D, m)
  BY DEF Shows

(* A call on one object that keeps its allocator and its headers.          *)
LEMMA AnswerIsSound ==
  ASSUME NEW D, NEW J, NEW m, Sound(D, J, m), NEW o \in Owners, D[o] # Null,
         NEW r, NEW s, Answers(o[1], D[o], m, r, s), NEW E, Only(D, o, E), E[o] = r.d
  PROVE  Tells(D, J, m, E, r.m, r.st, o, s)
<1>1. IsMemory(m) /\ StructOK(o[1], D[o], m) /\ J[o] \subseteq RolesIn(o[1])
  BY DEF Sound
<1>2. Elsewhere(D, J, o, E, J)
  BY DEF Elsewhere, Only
<1>3. CASE r = Result(NoMem, D[o], m)
  <2>1. r.st = NoMem /\ r.d = D[o] /\ r.m = m
    BY <1>3 DEF Result
  <2>2. Turns(o[1], D[o], m, E[o], r.m)
    BY <1>1, <2>1, NothingTurns
  <2>3. Exchanges(o[1], D[o], J[o], m, E[o], J[o], r.m)
    BY <1>1, <2>2, TurnsExchange
  <2>4. Sound(E, J, r.m) /\ Shows(E, r.m) = [Shows(D, m) EXCEPT ![o] = Shown(E[o], r.m)]
    BY <1>1, <1>2, <2>3, ExchangeIsSound
  <2>5. Shows(E, r.m) = Shows(D, m)
    BY <2>1, <2>4, SameShows
  <2>6. QED
    BY <2>1, <2>4, <2>5 DEF Tells
<1>4. CASE r # Result(NoMem, D[o], m)
  <2>1. r.st = OK /\ Turns(o[1], D[o], m, E[o], r.m) /\ ToSpan(E[o], r.m) = s
    BY <1>4 DEF Answers, Makes
  <2>2. Exchanges(o[1], D[o], J[o], m, E[o], J[o], r.m) /\ E[o] # Null
    BY <1>1, <2>1, TurnsExchange
  <2>3. Sound(E, J, r.m) /\ Shows(E, r.m) = [Shows(D, m) EXCEPT ![o] = Shown(E[o], r.m)]
    BY <1>1, <1>2, <2>2, ExchangeIsSound
  <2>4. E[o].al = D[o].al
    BY <2>1 DEF Turns
  <2>5. Shown(E[o], r.m) = [Shown(D[o], m) EXCEPT !.elems = s]
    BY <2>1, <2>2, <2>4 DEF Shown
  <2>6. Shows(E, r.m) = [Shows(D, m) EXCEPT ![o].elems = s]
    BY <2>3, <2>5 DEF Shows
  <2>7. QED
    BY <2>1, <2>3, <2>6 DEF Tells
<1>5. QED
  BY <1>3, <1>4

(* What move_assign promises, of d to e: refused; or the structs change    *)
(* places, of one allocator; or a copy overtakes e. Then d is released.    *)
Moves(kind, d, e, m, r) ==
  \/ r = [st |-> NoMem, d |-> d, e |-> e, m |-> m]
  \/ /\ r.st = OK /\ d.al = e.al /\ r.e = d
     /\ Makes(kind, e, m, Result(OK, r.d, r.m), <<>>)
  \/ /\ r.st = OK /\ d.al # e.al
     /\ \E q : /\ Overtakes(kind, e, m, r.e, q, ToSpan(d, m))
               /\ StructOK(kind, d, q) /\ IsMemory(q) => Makes(kind, d, q, Result(OK, r.d, r.m), <<>>)

(* The move_assign of vecs and that of arrs.                               *)
LEMMA MovesAreMoves ==
  ASSUME NEW m, IsMemory(m), NEW d, NEW e, NEW hdr, NEW room
  PROVE  /\ StructOK("vec", d, m) /\ StructOK("vec", e, m) =>
              Moves("vec", d, e, m, MoveAssigned(d, e, m, hdr, room))
         /\ StructOK("arr", d, m) /\ StructOK("arr", e, m) =>
              Moves("arr", d, e, m, ArrMoveAssigned(d, e, m, hdr, room))
<1>1. ASSUME StructOK("vec", d, m), StructOK("vec", e, m), NEW r, r = MoveAssigned(d, e, m, hdr, room)
      PROVE  Moves("vec", d, e, m, r)
  <2>1. \A x, p : Released(x, p).st = OK /\ Released(x, p) = Result(OK, Released(x, p).d, Released(x, p).m)
    BY DEF Released, Result
  <2>2. CASE d.al = e.al
    <3>1. r.st = OK /\ r.e = d /\ r.d = Released(e, m).d /\ r.m = Released(e, m).m
      BY <1>1, <2>2, MoveIs
    <3>2. Makes("vec", e, m, Released(e, m), <<>>)
      BY <1>1, ReleaseMakes
    <3>3. Makes("vec", e, m, Result(OK, r.d, r.m), <<>>)
      BY <2>1, <3>1, <3>2
    <3>4. QED
      BY <2>2, <3>1, <3>3 DEF Moves
  <2>3. CASE d.al # e.al
    <3>1. \/ r = [st |-> NoMem, d |-> d, e |-> e, m |-> m]
          \/ /\ r.st = OK
             /\ \E q : /\ Overtakes("vec", e, m, r.e, q, ToSpan(d, m))
                       /\ r.d = Released(d, q).d /\ r.m = Released(d, q).m
      BY <1>1, <2>3, MoveIs
    <3>2. ASSUME NEW q, StructOK("vec", d, q), IsMemory(q), r.d = Released(d, q).d, r.m = Released(d, q).m
          PROVE  Makes("vec", d, q, Result(OK, r.d, r.m), <<>>)
      <4>1. Makes("vec", d, q, Released(d, q), <<>>)
        BY <3>2, ReleaseMakes
      <4>2. QED
        BY <2>1, <3>2, <4>1
    <3>3. QED
      BY <2>3, <3>1, <3>2 DEF Moves
  <2>4. QED
    BY <2>2, <2>3
<1>2. ASSUME StructOK("arr", d, m), StructOK("arr", e, m), NEW r, r = ArrMoveAssigned(d, e, m, hdr, room)
      PROVE  Moves("arr", d, e, m, r)
  <2>1. ArrMoved(d, e, m, r)
    BY <1>2, ArrMoveIs
  <2>2. \A x, p : ArrReleased(x, p) = Result(OK, ArrReleased(x, p).d, ArrReleased(x, p).m)
    BY DEF ArrReleased, Result
  <2>3. CASE d.al = e.al
    <3>1. r.st = OK /\ r.e = d /\ r.d = ArrReleased(e, m).d /\ r.m = ArrReleased(e, m).m
      BY <2>3, <2>1 DEF ArrMoved
    <3>2. Makes("arr", e, m, ArrReleased(e, m), <<>>)
      BY <1>2, ArrReleaseMakes
    <3>3. Makes("arr", e, m, Result(OK, r.d, r.m), <<>>)
      BY <2>2, <3>1, <3>2
    <3>4. QED
      BY <2>3, <3>1, <3>3 DEF Moves
  <2>4. CASE d.al # e.al
    <3>1. \/ r = [st |-> NoMem, d |-> d, e |-> e, m |-> m]
          \/ /\ r.st = OK
             /\ \E q : /\ Overtakes("arr", e, m, r.e, q, ToSpan(d, m))
                       /\ r.d = ArrReleased(d, q).d /\ r.m = ArrReleased(d, q).m
      BY <2>1, <2>4 DEF ArrMoved
    <3>2. ASSUME NEW q, StructOK("arr", d, q), IsMemory(q), r.d = ArrReleased(d, q).d, r.m = ArrReleased(d, q).m
          PROVE  Makes("arr", d, q, Result(OK, r.d, r.m), <<>>)
      <4>1. Makes("arr", d, q, ArrReleased(d, q), <<>>)
        BY <3>2, ArrReleaseMakes
      <4>2. QED
        BY <2>2, <3>2, <4>1
    <3>3. QED
      BY <2>4, <3>1, <3>2 DEF Moves
  <2>5. QED
    BY <2>3, <2>4
<1>3. QED
  BY <1>1, <1>2

(* A move that was refused changes nothing; another leaves o with the      *)
(* elems of p, and p with none.                                            *)
MoveTells(D, J, m, E, q, st, p, o) ==
  /\ Sound(E, J, q)
  /\ \/ st = NoMem /\ Shows(E, q) = Shows(D, m)
     \/ st = OK /\ Shows(E, q) = [Shows(D, m) EXCEPT ![o].elems = Shows(D, m)[p].elems, ![p].elems = <<>>]

(* move_assign from p to o.                                                *)
LEMMA MoveIsSound ==
  ASSUME NEW D, NEW J, NEW m, Sound(D, J, m), NEW p \in Owners, NEW o \in Owners, p # o, p[1] = o[1],
         D[p] # Null, D[o] # Null, J[p] = J[o], o[1] \in J[o],
         NEW r, Moves(o[1], D[p], D[o], m, r),
         NEW E, \A x \in Owners : E[x] = IF x = o THEN r.e ELSE IF x = p THEN r.d ELSE D[x]
  PROVE  MoveTells(D, J, m, E, r.m, r.st, p, o)
<1>1. /\ IsMemory(m) /\ StructOK(o[1], D[o], m) /\ J[o] \subseteq RolesIn(o[1])
      /\ StructOK(o[1], D[p], m) /\ J[p] \subseteq RolesIn(o[1])
  BY DEF Sound
<1>2. PICK F : F = Shows(D, m)
  OBVIOUS
<1>3. /\ F = [x \in Owners |-> F[x]]
      /\ F[o] = [al |-> D[o].al, elems |-> ToSpan(D[o], m)]
      /\ F[p] = [al |-> D[p].al, elems |-> ToSpan(D[p], m)]
  BY <1>2 DEF Shows, Shown
<1>4. CASE r = [st |-> NoMem, d |-> D[p], e |-> D[o], m |-> m]
  <2>1. r.st = NoMem /\ r.m = m /\ r.d = D[p] /\ r.e = D[o]
    BY <1>4
  <2>2. \A x \in Owners : E[x] = D[x]
    BY <2>1
  <2>3. Elsewhere(D, J, o, E, J) /\ E[o] = D[o]
    BY <2>2 DEF Elsewhere
  <2>4. Exchanges(o[1], D[o], J[o], m, E[o], J[o], r.m)
    BY <1>1, <2>1, <2>3, NothingTurns, TurnsExchange
  <2>5. Sound(E, J, r.m) /\ Shows(E, r.m) = [Shows(D, m) EXCEPT ![o] = Shown(E[o], r.m)]
    BY <1>1, <2>3, <2>4, ExchangeIsSound
  <2>6. Shows(E, r.m) = Shows(D, m)
    BY <2>1, <2>3, <2>5, SameShows
  <2>7. QED
    BY <2>1, <2>5, <2>6 DEF MoveTells
<1>5. CASE /\ r.st = OK /\ D[p].al = D[o].al /\ r.e = D[p]
           /\ Makes(o[1], D[o], m, Result(OK, r.d, r.m), <<>>)
  <2>1. PICK G : G = [x \in Owners |-> IF x = o THEN r.d ELSE D[x]]
    OBVIOUS
  <2>2. Turns(o[1], D[o], m, r.d, r.m) /\ ToSpan(r.d, r.m) = <<>>
    BY <1>5 DEF Makes, Result
  <2>3. Elsewhere(D, J, o, G, J) /\ G[o] = r.d
    BY <2>1 DEF Elsewhere
  <2>4. Exchanges(o[1], D[o], J[o], m, G[o], J[o], r.m) /\ G[o] # Null
    BY <1>1, <2>2, <2>3, TurnsExchange
  <2>5. Sound(G, J, r.m) /\ Shows(G, r.m) = [F EXCEPT ![o] = Shown(G[o], r.m)]
    BY <1>1, <1>2, <2>3, <2>4, ExchangeIsSound
  <2>6. G[o].al = G[p].al /\ G[p] # Null /\ G[p] = D[p]
    BY <1>5, <2>1, <2>2 DEF Turns
  <2>7. E[o] = G[p] /\ E[p] = G[o] /\ \A x \in Owners : x # o /\ x # p => E[x] = G[x]
    BY <1>5, <2>1
  <2>8. /\ Sound(E, J, r.m)
        /\ Shows(E, r.m) = Interchanged(Shows(G, r.m), o, p)
    BY <2>4, <2>5, <2>6, <2>7, SwapIsSound
  <2>9. Shows(G, r.m)[p] = F[p]
    BY <1>3, <2>5
  <2>10. Shown(G[o], r.m) = [al |-> D[p].al, elems |-> <<>>]
    BY <2>2, <2>3, <2>4, <2>6 DEF Shown
  <2>11. Shows(E, r.m) = [F EXCEPT ![o] = F[p], ![p] = [al |-> D[p].al, elems |-> <<>>]]
    BY <1>3, <2>5, <2>8, <2>9, <2>10 DEF Interchanged
  <2>12. F[p] = [F[o] EXCEPT !.elems = F[p].elems] /\ [al |-> D[p].al, elems |-> <<>>] = [F[p] EXCEPT !.elems = <<>>]
    BY <1>3, <1>5
  <2>13. Shows(E, r.m) = [F EXCEPT ![o].elems = F[p].elems, ![p].elems = <<>>]
    BY <1>3, <2>11, <2>12
  <2>14. QED
    BY <1>2, <1>5, <2>8, <2>13 DEF MoveTells
<1>6. CASE /\ r.st = OK /\ D[p].al # D[o].al
           /\ \E q : /\ Overtakes(o[1], D[o], m, r.e, q, ToSpan(D[p], m))
                     /\ StructOK(o[1], D[p], q) /\ IsMemory(q) =>
                          Makes(o[1], D[p], q, Result(OK, r.d, r.m), <<>>)
  <2>1. PICK q : /\ Overtakes(o[1], D[o], m, r.e, q, ToSpan(D[p], m))
                 /\ StructOK(o[1], D[p], q) /\ IsMemory(q) =>
                      Makes(o[1], D[p], q, Result(OK, r.d, r.m), <<>>)
    BY <1>6
  <2>2. PICK G : G = [x \in Owners |-> IF x = o THEN r.e ELSE D[x]]
    OBVIOUS
  <2>3. Elsewhere(D, J, o, G, J) /\ G[o] = r.e /\ G[p] = D[p]
    BY <2>2 DEF Elsewhere
  <2>4. Exchanges(o[1], D[o], J[o], m, G[o], J[o], q)
    BY <2>1, <2>3 DEF Overtakes
  <2>5. Sound(G, J, q) /\ Shows(G, q) = [F EXCEPT ![o] = Shown(G[o], q)]
    BY <1>1, <1>2, <2>3, <2>4, ExchangeIsSound
  <2>6. IsMemory(q) /\ StructOK(o[1], D[p], q)
    BY <2>3, <2>5 DEF Sound
  <2>7. PICK z : z = Result(OK, r.d, r.m)
    OBVIOUS
  <2>8. z.st = OK /\ z.d = r.d /\ z.m = r.m /\ Answers(p[1], G[p], q, z, <<>>)
    BY <2>1, <2>3, <2>6, <2>7 DEF Answers, Result
  <2>9. Only(G, p, E) /\ E[p] = z.d /\ G[p] # Null
    BY <2>2, <2>3, <2>8 DEF Only
  <2>10. Tells(G, J, q, E, z.m, z.st, p, <<>>)
    BY <2>5, <2>8, <2>9, AnswerIsSound
  <2>11. Sound(E, J, r.m) /\ Shows(E, r.m) = [Shows(G, q) EXCEPT ![p].elems = <<>>]
    BY <2>8, <2>10, MemoryAssumption DEF Tells
  <2>12. Shown(G[o], q) = [al |-> D[o].al, elems |-> F[p].elems]
    <3>1. G[o] # Null
      BY <2>1, <2>3, StructFacts DEF Overtakes
    <3>2. QED
      BY <1>3, <2>1, <2>3, <3>1 DEF Shown, Overtakes
  <2>13. [al |-> D[o].al, elems |-> F[p].elems] = [F[o] EXCEPT !.elems = F[p].elems]
    BY <1>3
  <2>14. Shows(E, r.m) = [F EXCEPT ![o].elems = F[p].elems, ![p].elems = <<>>]
    BY <1>3, <2>5, <2>11, <2>12, <2>13
  <2>15. QED
    BY <1>2, <1>6, <2>11, <2>14 DEF MoveTells
<1>7. QED
  BY <1>4, <1>5, <1>6 DEF Moves
-----------------------------------------------------------------------------
(* The state, and the invariant.                                           *)

Queues == {h \in Handles : IsQueue(h)}

(* The headers that come with what is behind a handle, of stacks S and     *)
(* queues Q.                                                               *)
RolesAt(kind, h, S, Q) ==
  IF kind = "arr" THEN {"arr"}
  ELSE {"vec"} \cup (IF h \in S THEN {"stack"} ELSE {}) \cup (IF h \in Q THEN {"pqueue"} ELSE {})

Structs == [o \in Owners |-> StructOf(o[1], o[2])]
Roles   == [o \in Owners |-> RolesAt(o[1], o[2], stk, Queues)]
Sees    == Shows(Structs, mem)

(* Functions of the handles, and owners of something.                      *)
Typed ==
  /\ vec = [h \in Handles |-> vec[h]]
  /\ arr = [h \in Handles |-> arr[h]]
  /\ order = [h \in Handles |-> order[h]]
  /\ stk \subseteq Handles
  /\ \A h \in stk \cup Queues : VecAlive(h)

Books == Sound(Structs, Roles, mem)

IInv == Typed /\ Books /\ prog \in Programs

(* A call answered as SeqStore has it, by an object that is still there    *)
(* and by one that was made or had been refused.                           *)
SeqTells(kind, g, s) ==
  \/ status' = NoMem /\ Sees' = Sees
  \/ status' = OK /\ Sees' = [Sees EXCEPT ![<<kind, g>>].elems = s]

BirthTells(kind, g, a, s) ==
  \/ status' = NoMem /\ Sees' = Sees
  \/ status' = OK /\ Sees' = [Sees EXCEPT ![<<kind, g>>] = [al |-> a, elems |-> s]]

(* One struct is written, and the others and the headers of all stay.      *)
Puts(kind, g, y) ==
  /\ Typed'
  /\ Structs' = [Structs EXCEPT ![<<kind, g>>] = y]
  /\ Roles' = Roles

(* What stands at an owner.                                                *)
LEMMA OwnersAre ==
  ASSUME NEW kind \in {"vec", "arr"}, NEW g \in Handles
  PROVE  <<kind, g>> \in Owners /\ Structs[<<kind, g>>] = StructOf(kind, g)
         /\ Roles[<<kind, g>>] = RolesAt(kind, g, stk, Queues)
  BY DEF Owners, Structs, Roles

(* Nothing owes no headers.                                                *)
LEMMA NothingOwes ==
  ASSUME NEW kind, NEW m, NEW y, NEW J, NEW K, NEW q, NEW L
  PROVE  /\ Exchanges(kind, Null, J, m, y, K, q) => Exchanges(kind, Null, L, m, y, K, q)
         /\ Exchanges(kind, y, K, m, Null, J, q) => Exchanges(kind, y, K, m, Null, L, q)
<1>1. \A S, a, k : Owes(Null, S, a, k) = 0
  BY DEF Owes
<1>2. QED
  BY <1>1 DEF Exchanges, Pays

(* A struct of a vec is written.                                           *)
LEMMA VecPuts ==
  ASSUME Typed, NEW g \in Handles, NEW y, y # Null, vec' = [vec EXCEPT ![g] = y],
         UNCHANGED <<arr, stk, Queues>>, order' = [h \in Handles |-> order'[h]]
  PROVE  Puts("vec", g, y)
<1>1. vec' = [h \in Handles |-> IF h = g THEN y ELSE vec[h]]
  BY DEF Typed
<1>2. Typed'
  BY <1>1 DEF Typed, VecAlive
<1>3. /\ Structs' = [o \in Owners |-> IF o[1] = "arr" THEN arr'[o[2]] ELSE vec'[o[2]]]
      /\ Structs = [o \in Owners |-> IF o[1] = "arr" THEN arr[o[2]] ELSE vec[o[2]]]
  BY DEF Structs, StructOf
<1>4. \A o \in Owners : o = <<"vec", g>> <=> o[1] # "arr" /\ o[2] = g
  BY DEF Owners
<1>5. Structs' = [Structs EXCEPT ![<<"vec", g>>] = y]
  BY <1>1, <1>3, <1>4 DEF Owners
<1>6. Roles' = Roles
  BY DEF Roles
<1>7. QED
  BY <1>2, <1>5, <1>6 DEF Puts

(* A struct of an arr is written.                                          *)
LEMMA ArrPuts ==
  ASSUME Typed, NEW g \in Handles, NEW y, arr' = [arr EXCEPT ![g] = y], UNCHANGED <<vec, stk, order>>
  PROVE  Puts("arr", g, y)
<1>1. arr' = [h \in Handles |-> IF h = g THEN y ELSE arr[h]]
  BY DEF Typed
<1>2. Queues' = Queues
  BY DEF Queues, IsQueue
<1>3. Typed'
  BY <1>1, <1>2 DEF Typed, VecAlive
<1>4. /\ Structs' = [o \in Owners |-> IF o[1] = "arr" THEN arr'[o[2]] ELSE vec'[o[2]]]
      /\ Structs = [o \in Owners |-> IF o[1] = "arr" THEN arr[o[2]] ELSE vec[o[2]]]
  BY DEF Structs, StructOf
<1>5. \A o \in Owners : o = <<"arr", g>> <=> o[1] = "arr" /\ o[2] = g
  BY DEF Owners
<1>6. Structs' = [Structs EXCEPT ![<<"arr", g>>] = y]
  BY <1>1, <1>4, <1>5 DEF Owners
<1>7. Roles' = Roles
  BY <1>2 DEF Roles
<1>8. QED
  BY <1>3, <1>6, <1>7 DEF Puts

(* A call on an object that stays.                                         *)
LEMMA CallTells ==
  ASSUME Books, NEW kind \in {"vec", "arr"}, NEW g \in Handles, StructOf(kind, g) # Null,
         NEW r, NEW s, Answers(kind, StructOf(kind, g), mem, r, s),
         Puts(kind, g, r.d), mem' = r.m, status' = r.st
  PROVE  Books' /\ SeqTells(kind, g, s)
<1>1. PICK o \in Owners : o = <<kind, g>> /\ o[1] = kind /\ Structs[o] = StructOf(kind, g)
  BY OwnersAre
<1>2. PICK E : E = Structs'
  OBVIOUS
<1>3. Only(Structs, o, E) /\ E[o] = r.d /\ Roles' = Roles
  BY <1>1, <1>2 DEF Puts, Only, Structs
<1>4. Tells(Structs, Roles, mem, E, r.m, r.st, o, s)
  BY <1>1, <1>3, AnswerIsSound DEF Books
<1>5. QED
  BY <1>1, <1>2, <1>3, <1>4 DEF Tells, SeqTells, Books, Sees

(* What is written at one owner, whose headers may change.                 *)
PutsAt(o, y, K) ==
  /\ Structs' = [Structs EXCEPT ![o] = y]
  /\ \A p \in Owners : p # o => Roles'[p] = Roles[p]
  /\ y # Null => Roles'[o] = K
  /\ Roles'[o] \subseteq RolesIn(o[1])

(* A constructor.                                                          *)
LEMMA BornTells ==
  ASSUME Books, NEW kind \in {"vec", "arr"}, NEW g \in Handles, StructOf(kind, g) = Null,
         NEW r, NEW K, NEW a, NEW s, BornWith(kind, K, mem, r, a, s),
         PutsAt(<<kind, g>>, r.d, K), mem' = r.m, status' = r.st
  PROVE  Books' /\ BirthTells(kind, g, a, s)
<1>1. PICK o \in Owners : o = <<kind, g>> /\ o[1] = kind /\ Structs[o] = Null
  BY OwnersAre
<1>2. PICK E, L : E = Structs' /\ L = Roles'
  OBVIOUS
<1>3. Elsewhere(Structs, Roles, o, E, L) /\ E[o] = r.d /\ L[o] \subseteq RolesIn(o[1])
  BY <1>1, <1>2 DEF PutsAt, Elsewhere, Structs
<1>4. r.d # Null => L[o] = K
  BY <1>1, <1>2 DEF PutsAt
<1>5. CASE r.st = NoMem /\ r.d = Null /\ Exchanges(kind, Null, {}, mem, Null, {}, r.m)
  <2>1. Exchanges(o[1], Structs[o], Roles[o], mem, E[o], L[o], r.m)
    BY <1>1, <1>3, <1>5, NothingOwes
  <2>2. Sound(E, L, r.m) /\ Shows(E, r.m) = [Sees EXCEPT ![o] = Shown(E[o], r.m)]
    BY <1>3, <2>1, ExchangeIsSound DEF Books, Sees
  <2>3. Shown(E[o], r.m) = Shown(Structs[o], mem)
    BY <1>1, <1>3, <1>5 DEF Shown
  <2>4. Shows(E, r.m) = Sees
    BY <2>2, <2>3, SameShows DEF Sees
  <2>5. QED
    BY <1>2, <1>5, <2>2, <2>4 DEF Books, BirthTells, Sees
<1>6. CASE /\ r.st = OK /\ Exchanges(kind, Null, {}, mem, r.d, K, r.m)
           /\ StructOK(kind, r.d, r.m) /\ r.d.al = a /\ ToSpan(r.d, r.m) = s
  <2>1. r.d # Null
    BY <1>6, StructFacts
  <2>2. Exchanges(o[1], Structs[o], Roles[o], mem, E[o], L[o], r.m)
    BY <1>1, <1>3, <1>4, <1>6, <2>1, NothingOwes
  <2>3. Sound(E, L, r.m) /\ Shows(E, r.m) = [Sees EXCEPT ![o] = Shown(E[o], r.m)]
    BY <1>3, <2>2, ExchangeIsSound DEF Books, Sees
  <2>4. Shown(E[o], r.m) = [al |-> a, elems |-> s]
    BY <1>3, <1>6, <2>1 DEF Shown
  <2>5. QED
    BY <1>1, <1>2, <1>6, <2>3, <2>4 DEF Books, BirthTells, Sees
<1>7. QED
  BY <1>5, <1>6 DEF BornWith

(* An object goes, with all of its headers.                                *)
LEMMA GoneTells ==
  ASSUME Books, NEW kind \in {"vec", "arr"}, NEW g \in Handles,
         Exchanges(kind, StructOf(kind, g), Roles[<<kind, g>>], mem, Null, {}, mem'),
         PutsAt(<<kind, g>>, Null, {})
  PROVE  Books' /\ Sees' = [Sees EXCEPT ![<<kind, g>>] = Null]
<1>1. PICK o \in Owners : o = <<kind, g>> /\ o[1] = kind /\ Structs[o] = StructOf(kind, g)
  BY OwnersAre
<1>2. PICK E, L, q : E = Structs' /\ L = Roles' /\ q = mem'
  OBVIOUS
<1>3. Elsewhere(Structs, Roles, o, E, L) /\ E[o] = Null /\ L[o] \subseteq RolesIn(o[1])
  BY <1>1, <1>2 DEF PutsAt, Elsewhere, Structs
<1>4. Exchanges(o[1], Structs[o], Roles[o], mem, E[o], L[o], q)
  BY <1>1, <1>2, <1>3, NothingOwes
<1>5. Sound(E, L, q) /\ Shows(E, q) = [Sees EXCEPT ![o] = Shown(E[o], q)]
  BY <1>3, <1>4, ExchangeIsSound DEF Books, Sees
<1>6. Shown(E[o], q) = Null
  BY <1>3 DEF Shown
<1>7. QED
  BY <1>1, <1>2, <1>5, <1>6 DEF Books, Sees

(* An owner's header goes, and the vec is the program's own.               *)
LEMMA LoosedTells ==
  ASSUME Books, NEW g \in Handles, VecAlive(g), NEW K, NEW k \in ObjectKinds, k \notin K,
         Roles[<<"vec", g>>] = K \cup {k}, mem' = ReturnHdr(mem, vec[g].al, k),
         PutsAt(<<"vec", g>>, vec[g], K)
  PROVE  Books' /\ Sees' = Sees
<1>1. PICK o \in Owners : o = <<"vec", g>> /\ o[1] = "vec" /\ Structs[o] = vec[g]
  BY OwnersAre DEF StructOf
<1>2. PICK E, L, q : E = Structs' /\ L = Roles' /\ q = mem'
  OBVIOUS
<1>3. Elsewhere(Structs, Roles, o, E, L) /\ E[o] = vec[g] /\ L[o] \subseteq RolesIn(o[1])
  BY <1>1, <1>2 DEF PutsAt, Elsewhere, Structs
<1>4. L[o] = K
  BY <1>1, <1>2 DEF PutsAt, VecAlive
<1>5. IsMemory(mem) /\ StructOK("vec", vec[g], mem)
  BY <1>1 DEF Books, Sound, VecAlive
<1>6. Exchanges("vec", vec[g], K \cup {k}, mem, vec[g], K, q) /\ ToSpan(vec[g], q) = ToSpan(vec[g], mem)
  BY <1>2, <1>5, WrapperMoves
<1>7. Exchanges(o[1], Structs[o], Roles[o], mem, E[o], L[o], q)
  BY <1>1, <1>3, <1>4, <1>6
<1>8. Sound(E, L, q) /\ Shows(E, q) = [Sees EXCEPT ![o] = Shown(E[o], q)]
  BY <1>3, <1>7, ExchangeIsSound DEF Books, Sees
<1>9. Shown(E[o], q) = Shown(Structs[o], mem)
  BY <1>1, <1>3, <1>6 DEF Shown
<1>10. Shows(E, q) = Sees
  BY <1>8, <1>9, SameShows DEF Sees
<1>11. QED
  BY <1>2, <1>8, <1>10 DEF Books, Sees
-----------------------------------------------------------------------------
(* Calls, and what SeqStore makes of them.                                 *)

(* Programs that a kind's sequences are seen in.                           *)
Uses(kind) == IF kind = "arr" THEN UsesArrs ELSE UsesVecs

(* What SeqStore sees of a call: the elems there were, and what they are   *)
(* replaced by; and of a constructor.                                      *)
SeqCall(kind, g, s) ==
  /\ SS!Alive(g)
  /\ Seqs[g].elems = ToSpan(StructOf(kind, g), mem)
  /\ SS!Becomes(g, s) \/ SS!Refused

(* The rest of the state, around a call on vecs and around one on arrs.    *)
VecFrame ==
  /\ UNCHANGED <<arr, stk, Queues, prog>>
  /\ order' = [h \in Handles |-> order'[h]]

ArrFrame == UNCHANGED <<vec, stk, order, prog>>

(* A step that keeps the invariant and is one of SeqStore's.               *)
Goes(kind) == IInv' /\ (Uses(kind) => SS!SeqNext)

(* What SeqStore sees.                                                     *)
LEMMA SeqsAre ==
  ASSUME prog' = prog, NEW kind \in {"vec", "arr"}, Uses(kind)
  PROVE  /\ Seqs = [h \in Handles |-> Sees[<<kind, h>>]]
         /\ Seqs' = [h \in Handles |-> Sees'[<<kind, h>>]]
         /\ \A h \in Handles : <<kind, h>> \in Owners
         /\ UsesVecs \/ UsesArrs
         /\ (UsesVecs \/ UsesArrs)'
<1>1. /\ UsesVecs' = UsesVecs /\ UsesArrs' = UsesArrs
      /\ kind = "arr" => UsesArrs
      /\ kind = "vec" => UsesVecs /\ ~UsesArrs
  BY DEF Uses, UsesVecs, UsesArrs
<1>2. ASSUME NEW h \in Handles
      PROVE  /\ <<kind, h>> \in Owners
             /\ Sees[<<kind, h>>] = IF StructOf(kind, h) = Null THEN Null ELSE SeqOf(StructOf(kind, h))
             /\ Sees'[<<kind, h>>] = IF StructOf(kind, h)' = Null THEN Null ELSE SeqOf(StructOf(kind, h))'
  <2>1. <<kind, h>> \in Owners /\ <<kind, h>>[1] = kind /\ <<kind, h>>[2] = h
    BY DEF Owners
  <2>2. Structs[<<kind, h>>] = StructOf(kind, h)
    BY <2>1 DEF Structs
  <2>3. Structs'[<<kind, h>>] = StructOf(kind, h)'
    BY <2>1 DEF Structs
  <2>4. Sees[<<kind, h>>] = Shown(Structs[<<kind, h>>], mem) /\ Sees'[<<kind, h>>] = Shown(Structs'[<<kind, h>>], mem')
    BY <2>1 DEF Sees, Shows
  <2>5. QED
    BY <2>1, <2>2, <2>3, <2>4 DEF Shown, SeqOf
<1>3. CASE kind = "arr"
  <2>1. UsesArrs /\ UsesArrs' /\ \A h \in Handles : StructOf(kind, h) = arr[h] /\ StructOf(kind, h)' = arr'[h]
    BY <1>1, <1>3 DEF StructOf
  <2>2. Seqs = [h \in Handles |-> IF arr[h] = Null THEN Null ELSE SeqOf(arr[h])]
    BY <1>1, <2>1 DEF Seqs, ArrAlive, UsesVecs, UsesArrs
  <2>3. Seqs' = [h \in Handles |-> IF arr'[h] = Null THEN Null ELSE SeqOf(arr[h])']
    BY <1>1, <2>1 DEF Seqs, ArrAlive, UsesVecs, UsesArrs
  <2>4. QED
    BY <1>2, <2>1, <2>2, <2>3
<1>4. CASE kind = "vec"
  BY <1>1, <1>2, <1>4 DEF Seqs, VecAlive, StructOf
<1>5. QED
  BY <1>1, <1>2, <1>3, <1>4
(* What SeqStore sees of a live object.                                    *)
LEMMA LiveIsSeen ==
  ASSUME Books, prog' = prog, NEW kind \in {"vec", "arr"}, Uses(kind),
         NEW g \in Handles, StructOf(kind, g) # Null
  PROVE  /\ SS!Alive(g)
         /\ Seqs[g] = [al |-> StructOf(kind, g).al, elems |-> ToSpan(StructOf(kind, g), mem)]
<1>1. PICK o \in Owners : o = <<kind, g>> /\ o[1] = kind /\ Structs[o] = StructOf(kind, g)
  BY OwnersAre
<1>2. Seqs = [h \in Handles |-> Sees[<<kind, h>>]]
  BY SeqsAre
<1>3. Seqs[g] = [al |-> StructOf(kind, g).al, elems |-> ToSpan(StructOf(kind, g), mem)]
  BY <1>1, <1>2 DEF Sees, Shows, Shown
<1>4. StructOK(kind, StructOf(kind, g), mem)
  BY <1>1 DEF Books, Sound
<1>5. StructOf(kind, g).al \in Als /\ ToSpan(StructOf(kind, g), mem) \in Seq(Vals \cup {Zero, Junk})
  BY <1>4, StructFacts, SpanIsRead DEF Cells
<1>6. Seqs[g] # Null
  BY <1>3, <1>5, ContainersNullAssumption
<1>7. QED
  BY <1>3, <1>6 DEF SS!Alive

(* What SeqStore sees of a call on an object that stays.                   *)
LEMMA CallIsSeen ==
  ASSUME Books, prog' = prog, NEW kind \in {"vec", "arr"}, Uses(kind),
         NEW g \in Handles, StructOf(kind, g) # Null, NEW s, SeqTells(kind, g, s)
  PROVE  SeqCall(kind, g, s)
<1>1. PICK o \in Owners : o = <<kind, g>>
  BY OwnersAre
<1>2. /\ Seqs = [h \in Handles |-> Sees[<<kind, h>>]]
      /\ Seqs' = [h \in Handles |-> Sees'[<<kind, h>>]]
      /\ \A h \in Handles : <<kind, h>> \in Owners
      /\ UsesVecs \/ UsesArrs
      /\ (UsesVecs \/ UsesArrs)'
  BY SeqsAre
<1>3. SS!Alive(g) /\ Seqs[g].elems = ToSpan(StructOf(kind, g), mem)
  <2>1. Seqs[g] = [al |-> StructOf(kind, g).al, elems |-> ToSpan(StructOf(kind, g), mem)] /\ SS!Alive(g)
    BY LiveIsSeen
  <2>2. QED
    BY <2>1
<1>4. CASE status' = NoMem /\ Sees' = Sees
  BY <1>2, <1>3, <1>4 DEF SS!Refused, SeqCall
<1>5. CASE status' = OK /\ Sees' = [Sees EXCEPT ![o].elems = s]
  <2>1. Sees = [p \in Owners |-> Sees[p]]
    BY DEF Sees, Shows
  <2>2. Seqs' = [Seqs EXCEPT ![g].elems = s]
    BY <1>1, <1>2, <1>5, <2>1
  <2>3. SS!Becomes(g, s)
    BY <1>2, <1>5, <2>2 DEF SS!Becomes
  <2>4. QED
    BY <1>3, <2>3 DEF SeqCall
<1>6. QED
  BY <1>1, <1>4, <1>5 DEF SeqTells

-----------------------------------------------------------------------------
(* Vec: the calls on one object.                                           *)

(* A live vec.                                                             *)
LEMMA VecIsOK ==
  ASSUME IInv, NEW h \in Handles, VecAlive(h)
  PROVE  IsMemory(mem) /\ StructOK("vec", vec[h], mem) /\ Books /\ Typed /\ StructOf("vec", h) = vec[h] /\ vec[h] # Null
<1>1. <<"vec", h>> \in Owners /\ Structs[<<"vec", h>>] = vec[h] /\ <<"vec", h>>[1] = "vec"
  BY OwnersAre DEF StructOf
<1>2. QED
  BY <1>1 DEF IInv, Books, Sound, StructOf, VecAlive

(* A live arr.                                                             *)
LEMMA ArrIsOK ==
  ASSUME IInv, NEW h \in Handles, ArrAlive(h)
  PROVE  IsMemory(mem) /\ StructOK("arr", arr[h], mem) /\ Books /\ Typed /\ StructOf("arr", h) = arr[h] /\ arr[h] # Null
<1>1. <<"arr", h>> \in Owners /\ Structs[<<"arr", h>>] = arr[h] /\ <<"arr", h>>[1] = "arr"
  BY OwnersAre DEF StructOf
<1>2. QED
  BY <1>1 DEF IInv, Books, Sound, StructOf, ArrAlive

(* What is answered leaves an object.                                      *)
LEMMA AnswerStays ==
  ASSUME NEW kind, NEW d, NEW m, StructOK(kind, d, m), NEW r, NEW s, Answers(kind, d, m, r, s)
  PROVE  r.d # Null
<1>1. CASE r = Result(NoMem, d, m)
  BY <1>1, StructFacts DEF Result
<1>2. CASE Makes(kind, d, m, r, s)
  BY <1>2, StructFacts DEF Makes, Turns
<1>3. QED
  BY <1>1, <1>2 DEF Answers

(* Any call on a vec that answers with the elems of s.                     *)
LEMMA VecCall ==
  ASSUME IInv, VecFrame, NEW h \in Handles, VecAlive(h),
         NEW r, NEW s, Answers("vec", vec[h], mem, r, s), Commit(h, r)
  PROVE  IInv' /\ (Uses("vec") => SeqCall("vec", h, s))
<1>1. /\ StructOK("vec", vec[h], mem) /\ Books /\ Typed /\ StructOf("vec", h) = vec[h] /\ vec[h] # Null
      /\ prog \in Programs
  BY VecIsOK DEF IInv
<1>2. r.d # Null
  BY <1>1, AnswerStays
<1>3. vec' = [vec EXCEPT ![h] = r.d] /\ mem' = r.m /\ status' = r.st
  BY DEF Commit
<1>4. Puts("vec", h, r.d)
  BY <1>1, <1>2, <1>3, VecPuts DEF VecFrame
<1>5. Books' /\ SeqTells("vec", h, s)
  BY <1>1, <1>3, <1>4, CallTells
<1>6. IInv'
  BY <1>1, <1>4, <1>5 DEF IInv, Puts, VecFrame
<1>7. Uses("vec") => SeqCall("vec", h, s)
  BY <1>1, <1>5, CallIsSeen DEF VecFrame
<1>8. QED
  BY <1>6, <1>7

(* Any call on an arr that answers with the elems of s.                    *)
LEMMA ArrCall ==
  ASSUME IInv, ArrFrame, NEW h \in Handles, ArrAlive(h),
         NEW r, NEW s, Answers("arr", arr[h], mem, r, s), CommitArr(h, r)
  PROVE  IInv' /\ (Uses("arr") => SeqCall("arr", h, s))
<1>1. /\ StructOK("arr", arr[h], mem) /\ Books /\ Typed /\ StructOf("arr", h) = arr[h] /\ arr[h] # Null
      /\ prog \in Programs
  BY ArrIsOK DEF IInv
<1>2. arr' = [arr EXCEPT ![h] = r.d] /\ mem' = r.m /\ status' = r.st
  BY DEF CommitArr
<1>3. Puts("arr", h, r.d)
  BY <1>1, <1>2, ArrPuts DEF ArrFrame
<1>4. Books' /\ SeqTells("arr", h, s)
  BY <1>1, <1>2, <1>3, CallTells
<1>5. IInv'
  BY <1>1, <1>3, <1>4 DEF IInv, Puts, ArrFrame
<1>6. Uses("arr") => SeqCall("arr", h, s)
  BY <1>1, <1>4, CallIsSeen DEF ArrFrame
<1>7. QED
  BY <1>5, <1>6

(* Made, it is answered.                                                   *)
LEMMA MadeIsAnswered ==
  ASSUME NEW kind, NEW d, NEW m, NEW r, NEW s, Makes(kind, d, m, r, s)
  PROVE  Answers(kind, d, m, r, s)
  BY DEF Answers

(* The same of a call that is never refused.                               *)
SeqMade(kind, g, s) ==
  /\ SS!Alive(g)
  /\ Seqs[g].elems = ToSpan(StructOf(kind, g), mem)
  /\ SS!Becomes(g, s)

(* A call that was not refused.                                            *)
LEMMA MadeIsSeen ==
  ASSUME prog' = prog, NEW kind \in {"vec", "arr"}, Uses(kind), NEW g, NEW s, SeqCall(kind, g, s), status' = OK
  PROVE  SeqMade(kind, g, s)
<1>1. (UsesVecs \/ UsesArrs)'
  BY SeqsAre
<1>2. ~SS!Refused
  BY <1>1, MemoryAssumption DEF SS!Refused
<1>3. QED
  BY <1>2 DEF SeqCall, SeqMade

(* Any call on a vec that is never refused, and leaves the elems of s.     *)
LEMMA VecMade ==
  ASSUME IInv, VecFrame, NEW h \in Handles, VecAlive(h),
         NEW r, NEW s, Makes("vec", vec[h], mem, r, s), Commit(h, r)
  PROVE  IInv' /\ (Uses("vec") => SeqMade("vec", h, s))
<1>1. IInv' /\ (Uses("vec") => SeqCall("vec", h, s))
  BY MadeIsAnswered, VecCall
<1>2. status' = OK /\ prog' = prog
  BY DEF Makes, Commit, VecFrame
<1>3. QED
  BY <1>1, <1>2, MadeIsSeen

(* The same on an arr.                                                     *)
LEMMA ArrMade ==
  ASSUME IInv, ArrFrame, NEW h \in Handles, ArrAlive(h),
         NEW r, NEW s, Makes("arr", arr[h], mem, r, s), CommitArr(h, r)
  PROVE  IInv' /\ (Uses("arr") => SeqMade("arr", h, s))
<1>1. IInv' /\ (Uses("arr") => SeqCall("arr", h, s))
  BY MadeIsAnswered, ArrCall
<1>2. status' = OK /\ prog' = prog
  BY DEF Makes, CommitArr, ArrFrame
<1>3. QED
  BY <1>1, <1>2, MadeIsSeen

(* A call after which the elems are what they were.                        *)
LEMMA HousekeepingIsSeen ==
  ASSUME prog' = prog, NEW kind \in {"vec", "arr"}, Uses(kind), NEW g \in Handles, StructOf(kind, g) # Null,
         SeqCall(kind, g, ToSpan(StructOf(kind, g), mem))
  PROVE  SS!SeqHousekeeping(g)
<1>1. PICK o \in Owners : o = <<kind, g>> /\ Structs[o] = StructOf(kind, g)
  BY OwnersAre
<1>2. Seqs = [h \in Handles |-> Sees[<<kind, h>>]]
  BY SeqsAre
<1>3. Sees[o] = [al |-> StructOf(kind, g).al, elems |-> ToSpan(StructOf(kind, g), mem)]
  BY <1>1 DEF Sees, Shows, Shown
<1>4. [Seqs EXCEPT ![g].elems = ToSpan(StructOf(kind, g), mem)] = Seqs
  BY <1>1, <1>2, <1>3
<1>5. QED
  BY <1>4 DEF SeqCall, SS!SeqHousekeeping, SS!Becomes, SS!Done

(* Elems the program stores are cells.                                     *)
LEMMA ValsAreCells == Vals \subseteq Cells /\ Counts \subseteq Nat
  BY VecAssumption DEF Cells

(* tda_vec_push, also that of a stack.                                     *)
LEMMA PushGoes ==
  ASSUME IInv, VecFrame, NEW h \in Handles, NEW v \in Vals, NEW room, Push(h, v, room)
  PROVE  Goes("vec")
<1>1. VecAlive(h) /\ Commit(h, Pushed(vec[h], mem, v, room))
  BY DEF Push
<1>2. Answers("vec", vec[h], mem, Pushed(vec[h], mem, v, room), Append(ToSpan(vec[h], mem), v))
  BY <1>1, VecIsOK, PushMakes, ValsAreCells
<1>3. IInv' /\ (Uses("vec") => SeqCall("vec", h, Append(ToSpan(vec[h], mem), v)))
  BY <1>1, <1>2, VecCall
<1>4. ASSUME Uses("vec")
      PROVE  SS!SeqPushBack(h, v)
  BY <1>3, <1>4 DEF SeqCall, SS!SeqPushBack, StructOf
<1>5. Uses("vec") => SS!SeqNext
  BY <1>4 DEF SS!SeqNext
<1>6. QED
  BY <1>3, <1>5 DEF Goes

(* tda_vec_pop.                                                            *)
LEMMA PopGoes ==
  ASSUME IInv, VecFrame, NEW h \in Handles, Pop(h)
  PROVE  Goes("vec")
<1>1. VecAlive(h) /\ vec[h].len > 0 /\ Commit(h, Popped(vec[h], mem))
  BY DEF Pop
<1>2. PICK d, s, n : d = vec[h] /\ s = ToSpan(vec[h], mem) /\ n = vec[h].len
  OBVIOUS
<1>3. StructOK("vec", d, mem) /\ IsMemory(mem) /\ n \in Nat /\ n > 0 /\ s \in Seq(Cells) /\ Len(s) = n
  BY <1>1, <1>2, VecIsOK, VecFacts, SpanIsRead
<1>4. n - 1 \in 0 .. d.len
  BY <1>2, <1>3
<1>5. Popped(d, mem) = Result(OK, WithLen(d, n - 1), mem)
  BY <1>2 DEF Popped, WithLen
<1>6. Makes("vec", d, mem, Popped(d, mem), SS!FirstN(s, n - 1))
  BY <1>2, <1>3, <1>4, <1>5, TruncateMakes
<1>7. IInv' /\ (Uses("vec") => SeqMade("vec", h, SS!FirstN(s, n - 1)))
  BY <1>1, <1>2, <1>6, VecMade
<1>8. s # <<>>
  BY <1>3
<1>9. Uses("vec") => SS!SeqPopBack(h)
  BY <1>2, <1>3, <1>7, <1>8 DEF SeqMade, StructOf, SS!SeqPopBack
<1>10. Uses("vec") => SS!SeqNext
  BY <1>9 DEF SS!SeqNext
<1>11. QED
  BY <1>7, <1>10 DEF Goes

(* tda_vec_clear.                                                          *)
LEMMA ClearGoes ==
  ASSUME IInv, VecFrame, NEW h \in Handles, Clear(h)
  PROVE  Goes("vec")
<1>1. VecAlive(h) /\ Commit(h, Result(OK, WithLen(vec[h], 0), mem))
  BY DEF Clear, WithLen
<1>2. StructOK("vec", vec[h], mem) /\ IsMemory(mem) /\ 0 \in 0 .. vec[h].len
  BY <1>1, VecIsOK, VecFacts
<1>3. Makes("vec", vec[h], mem, Result(OK, WithLen(vec[h], 0), mem), SS!FirstN(ToSpan(vec[h], mem), 0))
  BY <1>2, TruncateMakes
<1>4. SS!FirstN(ToSpan(vec[h], mem), 0) = <<>>
  BY <1>2, SpanIsRead, FirstNone
<1>5. IInv' /\ (Uses("vec") => SeqMade("vec", h, <<>>))
  BY <1>1, <1>3, <1>4, VecMade
<1>6. Uses("vec") => SS!SeqClear(h)
  BY <1>5 DEF SeqMade, SS!SeqClear
<1>7. Uses("vec") => SS!SeqNext
  BY <1>6 DEF SS!SeqNext
<1>8. QED
  BY <1>5, <1>7 DEF Goes

(* tda_vec_reserve and tda_vec_shrink_to_fit.                              *)
LEMMA RoomGoes ==
  ASSUME IInv, VecFrame, NEW h \in Handles, NEW room,
         ShrinkToFit(h, room) \/ \E n \in Counts : ReserveCap(h, n, room)
  PROVE  Goes("vec")
<1>1. VecAlive(h)
  BY DEF ShrinkToFit, ReserveCap
<1>2. StructOK("vec", vec[h], mem) /\ IsMemory(mem) /\ StructOf("vec", h) = vec[h] /\ vec[h] # Null
  BY <1>1, VecIsOK
<1>3. PICK r : Commit(h, r) /\ Answers("vec", vec[h], mem, r, ToSpan(vec[h], mem))
  <2>1. CASE ShrinkToFit(h, room)
    BY <1>2, <2>1, ShrinkMakes DEF ShrinkToFit
  <2>2. CASE \E n \in Counts : ReserveCap(h, n, room)
    BY <1>2, <2>2, ReserveMakes, ValsAreCells DEF ReserveCap
  <2>3. QED
    BY <2>1, <2>2
<1>4. IInv' /\ (Uses("vec") => SeqCall("vec", h, ToSpan(vec[h], mem)))
  BY <1>1, <1>3, VecCall
<1>5. Uses("vec") => SS!SeqHousekeeping(h)
  BY <1>2, <1>4, HousekeepingIsSeen DEF VecFrame
<1>6. Uses("vec") => SS!SeqNext
  BY <1>5 DEF SS!SeqNext
<1>7. QED
  BY <1>4, <1>6 DEF Goes

(* tda_vec_resize.                                                         *)
LEMMA ResizeGoes ==
  ASSUME IInv, VecFrame, NEW h \in Handles, NEW n \in Counts, NEW room, Resize(h, n, room)
  PROVE  Goes("vec")
<1>1. VecAlive(h) /\ Commit(h, Resized(vec[h], mem, n, room))
  BY DEF Resize
<1>2. PICK d, s : d = vec[h] /\ s = ToSpan(vec[h], mem)
  OBVIOUS
<1>3. /\ StructOK("vec", d, mem) /\ IsMemory(mem) /\ d.len \in Nat /\ n \in Nat
      /\ s \in Seq(Cells) /\ Len(s) = d.len
  BY <1>1, <1>2, VecIsOK, VecFacts, SpanIsRead, ValsAreCells
<1>4. CASE n <= d.len
  <2>1. IInv' /\ (Uses("vec") => SeqMade("vec", h, SS!FirstN(s, n)))
    BY <1>1, <1>2, <1>3, <1>4, ResizeMakes, VecMade
  <2>2. Uses("vec") => SS!SeqResize(h, n)
    BY <1>2, <1>3, <1>4, <2>1 DEF SeqMade, StructOf, SS!SeqResize
  <2>3. Uses("vec") => SS!SeqNext
    BY <2>2 DEF SS!SeqNext
  <2>4. QED
    BY <2>1, <2>3 DEF Goes
<1>5. CASE n > d.len
  <2>1. IInv' /\ (Uses("vec") => SeqCall("vec", h, Extended(s, n - d.len)))
    BY <1>1, <1>2, <1>3, <1>5, ResizeMakes, VecCall
  <2>2. Uses("vec") => SS!SeqResize(h, n)
    BY <1>2, <1>3, <1>5, <2>1 DEF SeqCall, StructOf, Extended, SS!SeqResize
  <2>3. Uses("vec") => SS!SeqNext
    BY <2>2 DEF SS!SeqNext
  <2>4. QED
    BY <2>1, <2>3 DEF Goes
<1>6. QED
  BY <1>3, <1>4, <1>5
-----------------------------------------------------------------------------
(* Vec and Arr: the calls at a place.                                      *)

(* A store at a place of a vec.                                            *)
LEMMA SetGoes ==
  ASSUME IInv, VecFrame, NEW h \in Handles, VecAlive(h), NEW i \in 0 .. vec[h].len - 1, NEW v \in Vals,
         SetElem(h, i, v)
  PROVE  Goes("vec")
<1>1. PICK s, r : /\ s = ToSpan(vec[h], mem)
                  /\ r = Result(OK, vec[h], SetCells(vec[h], mem, Written(CellsOf(vec[h], mem), i, <<v>>)))
  OBVIOUS
<1>2. StructOK("vec", vec[h], mem) /\ IsMemory(mem) /\ v \in Cells
  BY VecIsOK, ValsAreCells
<1>3. vec[h].len \in Nat /\ Len(s) = vec[h].len
  BY <1>1, <1>2, StructFacts, SpanIsRead
<1>4. Makes("vec", vec[h], mem, r, Replaced(s, i, v))
  BY <1>1, <1>2, SetMakes
<1>5. IInv' /\ (Uses("vec") => SeqMade("vec", h, Replaced(s, i, v)))
  BY <1>1, <1>4, VecMade DEF SetElem
<1>6. Uses("vec") => SS!SeqSet(h, i, v) /\ SS!Alive(h) /\ Seqs[h].elems = s
  BY <1>1, <1>3, <1>5 DEF SeqMade, StructOf, Replaced, SS!SeqSet
<1>7. i \in 0 .. Len(s)
  BY <1>3
<1>8. Uses("vec") => SS!SeqNext
  BY <1>6, <1>7 DEF SS!SeqNext
<1>9. QED
  BY <1>5, <1>8 DEF Goes

(* A store at a place in an arr.                                           *)
LEMMA ArrSetGoes ==
  ASSUME IInv, ArrFrame, NEW h \in Handles, ArrAlive(h), NEW i \in 0 .. arr[h].len - 1, NEW v \in Vals,
         ArrElemStep(h, i, v)
  PROVE  Goes("arr")
<1>1. PICK s, r : /\ s = ToSpan(arr[h], mem)
                  /\ r = Result(OK, arr[h], SetCells(arr[h], mem, Written(CellsOf(arr[h], mem), i, <<v>>)))
  OBVIOUS
<1>2. StructOK("arr", arr[h], mem) /\ IsMemory(mem) /\ v \in Cells
  BY ArrIsOK, ValsAreCells
<1>3. arr[h].len \in Nat /\ Len(s) = arr[h].len
  BY <1>1, <1>2, StructFacts, SpanIsRead
<1>4. Makes("arr", arr[h], mem, r, Replaced(s, i, v))
  BY <1>1, <1>2, SetMakes
<1>5. IInv' /\ (Uses("arr") => SeqMade("arr", h, Replaced(s, i, v)))
  BY <1>1, <1>4, ArrMade DEF ArrElemStep
<1>6. Uses("arr") => SS!SeqSet(h, i, v) /\ SS!Alive(h) /\ Seqs[h].elems = s
  BY <1>1, <1>3, <1>5 DEF SeqMade, StructOf, Replaced, SS!SeqSet
<1>7. i \in 0 .. Len(s)
  BY <1>3
<1>8. Uses("arr") => SS!SeqNext
  BY <1>6, <1>7 DEF SS!SeqNext
<1>9. QED
  BY <1>5, <1>8 DEF Goes

(* Two elems that change places.                                           *)
LEMMA SwapElemsGoes ==
  ASSUME IInv, VecFrame, NEW h \in Handles, VecAlive(h),
         NEW i \in 0 .. vec[h].len - 1, NEW j \in 0 .. vec[h].len - 1, SwapElems(h, i, j)
  PROVE  Goes("vec")
<1>1. PICK s, r : /\ s = ToSpan(vec[h], mem)
                  /\ r = Result(OK, vec[h], SetCells(vec[h], mem, Exchanged(CellsOf(vec[h], mem), i, j)))
  OBVIOUS
<1>2. StructOK("vec", vec[h], mem) /\ IsMemory(mem)
  BY VecIsOK
<1>3. vec[h].len \in Nat /\ Len(s) = vec[h].len
  BY <1>1, <1>2, StructFacts, SpanIsRead
<1>4. Makes("vec", vec[h], mem, r, Crossed(s, i, j))
  BY <1>1, <1>2, SwapElemsMakes
<1>5. Commit(h, r)
  BY <1>1 DEF SwapElems, Exchanged
<1>6. IInv' /\ (Uses("vec") => SeqMade("vec", h, Crossed(s, i, j)))
  BY <1>4, <1>5, VecMade
<1>7. i \in 0 .. Len(s) /\ j \in 0 .. Len(s) /\ {i, j} \subseteq 0 .. Len(s) - 1
  BY <1>3
<1>8. Uses("vec") => SS!SeqSwapElems(h, i, j) /\ SS!Alive(h) /\ Seqs[h].elems = s
  BY <1>1, <1>6, <1>7 DEF SeqMade, StructOf, Crossed, SS!SeqSwapElems
<1>9. Uses("vec") => SS!SeqNext
  BY <1>7, <1>8 DEF SS!SeqNext
<1>10. QED
  BY <1>6, <1>9 DEF Goes

(* Two elems of an arr that change places.                                 *)
LEMMA ArrSwapElemsGoes ==
  ASSUME IInv, ArrFrame, NEW h \in Handles, ArrAlive(h),
         NEW i \in 0 .. arr[h].len - 1, NEW j \in 0 .. arr[h].len - 1, ArrSwapElems(h, i, j)
  PROVE  Goes("arr")
<1>1. PICK s, r : /\ s = ToSpan(arr[h], mem)
                  /\ r = Result(OK, arr[h], SetCells(arr[h], mem, Exchanged(CellsOf(arr[h], mem), i, j)))
  OBVIOUS
<1>2. StructOK("arr", arr[h], mem) /\ IsMemory(mem)
  BY ArrIsOK
<1>3. arr[h].len \in Nat /\ Len(s) = arr[h].len
  BY <1>1, <1>2, StructFacts, SpanIsRead
<1>4. Makes("arr", arr[h], mem, r, Crossed(s, i, j))
  BY <1>1, <1>2, SwapElemsMakes
<1>5. CommitArr(h, r)
  BY <1>1 DEF ArrSwapElems, Exchanged
<1>6. IInv' /\ (Uses("arr") => SeqMade("arr", h, Crossed(s, i, j)))
  BY <1>4, <1>5, ArrMade
<1>7. i \in 0 .. Len(s) /\ j \in 0 .. Len(s) /\ {i, j} \subseteq 0 .. Len(s) - 1
  BY <1>3
<1>8. Uses("arr") => SS!SeqSwapElems(h, i, j) /\ SS!Alive(h) /\ Seqs[h].elems = s
  BY <1>1, <1>6, <1>7 DEF SeqMade, StructOf, Crossed, SS!SeqSwapElems
<1>9. Uses("arr") => SS!SeqNext
  BY <1>7, <1>8 DEF SS!SeqNext
<1>10. QED
  BY <1>6, <1>9 DEF Goes

(* insert, insert_span, remove and remove_range, and stores.               *)
LEMMA PlaceStepGoes ==
  ASSUME IInv, VecFrame, NEW h \in Handles, VecAlive(h), NEW i \in 0 .. vec[h].len, NEW room,
         PlaceStep(h, i, room)
  PROVE  Goes("vec")
<1>1. PICK d, s : d = vec[h] /\ s = ToSpan(vec[h], mem)
  OBVIOUS
<1>2. /\ StructOK("vec", d, mem) /\ IsMemory(mem) /\ d.len \in Nat
      /\ s \in Seq(Cells) /\ Len(s) = d.len /\ i \in Nat /\ i \in 0 .. d.len
  BY <1>1, VecIsOK, VecFacts, SpanIsRead
<1>3. ASSUME NEW v \in Vals, Commit(h, Inserted(vec[h], mem, i, v, room))
      PROVE  Goes("vec")
  <2>1. Answers("vec", d, mem, Inserted(d, mem, i, v, room), Spliced(s, i, <<v>>))
    BY <1>1, <1>2, InsertMakes, ValsAreCells
  <2>2. IInv' /\ (Uses("vec") => SeqCall("vec", h, Spliced(s, i, <<v>>)))
    BY <1>1, <1>3, <2>1, VecCall
  <2>3. Uses("vec") => SS!SeqInsert(h, i, v) /\ SS!Alive(h) /\ Seqs[h].elems = s
    BY <1>1, <1>2, <2>2 DEF SeqCall, StructOf, Spliced, SS!SeqInsert
  <2>4. Uses("vec") => SS!SeqNext
    BY <1>2, <2>3 DEF SS!SeqNext
  <2>5. QED
    BY <2>2, <2>4 DEF Goes
<1>4. ASSUME NEW o \in Inputs, Commit(h, InsertedSpan(vec[h], mem, i, o, room))
      PROVE  Goes("vec")
  <2>1. Answers("vec", d, mem, InsertedSpan(d, mem, i, o, room), Spliced(s, i, o))
    BY <1>1, <1>2, InsertSpanMakes, InputsAreRuns
  <2>2. IInv' /\ (Uses("vec") => SeqCall("vec", h, Spliced(s, i, o)))
    BY <1>1, <1>4, <2>1, VecCall
  <2>3. Uses("vec") => SS!SeqInsertSpan(h, i, o) /\ SS!Alive(h) /\ Seqs[h].elems = s
    BY <1>1, <1>2, <2>2 DEF SeqCall, StructOf, Spliced, SS!SeqInsertSpan
  <2>4. Uses("vec") => SS!SeqNext
    BY <1>2, <2>3 DEF SS!SeqNext
  <2>5. QED
    BY <2>2, <2>4 DEF Goes
<1>5. ASSUME NEW n \in 0 .. vec[h].len - i, Commit(h, RemovedRange(vec[h], mem, i, n))
      PROVE  Goes("vec")
  <2>1. n \in Nat /\ i + n <= d.len /\ n \in 0 .. d.len
    BY <1>1, <1>2
  <2>2. Makes("vec", d, mem, RemovedRange(d, mem, i, n), Cut(s, i, n))
    BY <1>1, <1>2, <2>1, RemoveMakes
  <2>3. IInv' /\ (Uses("vec") => SeqMade("vec", h, Cut(s, i, n)))
    BY <1>1, <1>5, <2>2, VecMade
  <2>4. Uses("vec") => SS!SeqRemoveRange(h, i, n) /\ SS!Alive(h) /\ Seqs[h].elems = s
    BY <1>1, <1>2, <2>1, <2>3 DEF SeqMade, StructOf, Cut, SS!SeqRemoveRange
  <2>5. Uses("vec") => SS!SeqNext
    BY <1>2, <2>1, <2>4 DEF SS!SeqNext
  <2>6. QED
    BY <2>3, <2>5 DEF Goes
<1>6. ASSUME i < vec[h].len, NEW v \in Vals, SetElem(h, i, v)
      PROVE  Goes("vec")
  <2>1. i \in 0 .. vec[h].len - 1
    BY <1>1, <1>2, <1>6
  <2>2. QED
    BY <1>6, <2>1, SetGoes
<1>7. ASSUME i < vec[h].len, NEW j \in 0 .. vec[h].len - 1, SwapElems(h, i, j)
      PROVE  Goes("vec")
  <2>1. i \in 0 .. vec[h].len - 1
    BY <1>1, <1>2, <1>7
  <2>2. QED
    BY <1>7, <2>1, SwapElemsGoes
<1>8. QED
  BY <1>3, <1>4, <1>5, <1>6, <1>7 DEF PlaceStep

(* Every call on one vec.                                                  *)
LEMMA ElemStepGoes ==
  ASSUME IInv, VecFrame, NEW h \in Handles, NEW room, NEW places, ElemStep(h, room, places)
  PROVE  Goes("vec")
<1>1. CASE \E v \in Vals : Push(h, v, room)
  BY <1>1, PushGoes
<1>2. CASE Pop(h)
  BY <1>2, PopGoes
<1>3. CASE Clear(h)
  BY <1>3, ClearGoes
<1>4. CASE ShrinkToFit(h, room) \/ \E n \in Counts : ReserveCap(h, n, room)
  BY <1>4, RoomGoes
<1>5. CASE \E n \in Counts : Resize(h, n, room)
  BY <1>5, ResizeGoes
<1>6. CASE VecAlive(h) /\ \E i \in places \cap (0 .. vec[h].len) : PlaceStep(h, i, room)
  BY <1>6, PlaceStepGoes
<1>7. QED
  BY <1>1, <1>2, <1>3, <1>4, <1>5, <1>6 DEF ElemStep
-----------------------------------------------------------------------------
(* Vec, Stack and PQueue: birth, death and ownership.                      *)

(* Of all headers and owners, those at g change.                           *)
OwnersMove(g) ==
  /\ UNCHANGED <<arr, prog>>
  /\ order' = [h \in Handles |-> order'[h]]
  /\ stk' \subseteq Handles
  /\ \A h \in Handles : h # g => (h \in stk' <=> h \in stk) /\ (h \in Queues' <=> h \in Queues)

(* A vec comes, goes or changes its owner.                                 *)
LEMMA VecPutsAt ==
  ASSUME Typed, NEW g \in Handles, NEW y, vec' = [vec EXCEPT ![g] = y], OwnersMove(g),
         y = Null => g \notin stk' \cup Queues',
         NEW K, y # Null => K = RolesAt("vec", g, stk', Queues')
  PROVE  Typed' /\ PutsAt(<<"vec", g>>, y, K)
<1>1. vec' = [h \in Handles |-> IF h = g THEN y ELSE vec[h]]
  BY DEF Typed
<1>2. Queues \subseteq Handles /\ Queues' \subseteq Handles
  BY DEF Queues
<1>3. \A h \in Handles : h # g /\ h \in stk' \cup Queues' => h \in stk \cup Queues
  BY DEF OwnersMove
<1>4. \A h \in stk' \cup Queues' : vec'[h] # Null
  BY <1>1, <1>2, <1>3 DEF Typed, VecAlive, OwnersMove
<1>5. Typed'
  BY <1>1, <1>4 DEF Typed, VecAlive, OwnersMove
<1>6. /\ Structs' = [o \in Owners |-> IF o[1] = "arr" THEN arr'[o[2]] ELSE vec'[o[2]]]
      /\ Structs = [o \in Owners |-> IF o[1] = "arr" THEN arr[o[2]] ELSE vec[o[2]]]
  BY DEF Structs, StructOf
<1>7. \A o \in Owners : o = <<"vec", g>> <=> o[1] # "arr" /\ o[2] = g
  BY DEF Owners
<1>8. Structs' = [Structs EXCEPT ![<<"vec", g>>] = y]
  BY <1>1, <1>6, <1>7 DEF Owners, OwnersMove
<1>9. /\ Roles = [o \in Owners |-> RolesAt(o[1], o[2], stk, Queues)]
      /\ Roles' = [o \in Owners |-> RolesAt(o[1], o[2], stk', Queues')]
  BY DEF Roles
<1>10. ASSUME NEW o \in Owners, o # <<"vec", g>>
       PROVE  RolesAt(o[1], o[2], stk', Queues') = RolesAt(o[1], o[2], stk, Queues)
  <2>1. o[1] = "arr" \/ (o[2] \in Handles /\ o[2] # g)
    BY <1>7, <1>10 DEF Owners
  <2>2. QED
    BY <2>1 DEF RolesAt, OwnersMove
<1>11. <<"vec", g>> \in Owners /\ <<"vec", g>>[1] = "vec" /\ <<"vec", g>>[2] = g
  BY DEF Owners
<1>12. RolesAt("vec", g, stk', Queues') \subseteq RolesIn("vec")
  BY DEF RolesAt, RolesIn
<1>13. PutsAt(<<"vec", g>>, y, K)
  BY <1>8, <1>9, <1>10, <1>11, <1>12 DEF PutsAt
<1>14. QED
  BY <1>5, <1>13

(* What SeqStore sees of a constructor.                                    *)
LEMMA BirthIsSeen ==
  ASSUME prog' = prog, NEW kind \in {"vec", "arr"}, Uses(kind), NEW g \in Handles,
         StructOf(kind, g) = Null, NEW a, NEW s, BirthTells(kind, g, a, s)
  PROVE  SS!SeqNew(g, a, s)
<1>1. PICK o \in Owners : o = <<kind, g>> /\ Structs[o] = Null
  BY OwnersAre
<1>2. /\ Seqs = [h \in Handles |-> Sees[<<kind, h>>]]
      /\ Seqs' = [h \in Handles |-> Sees'[<<kind, h>>]]
      /\ \A h \in Handles : <<kind, h>> \in Owners
      /\ UsesVecs \/ UsesArrs
      /\ (UsesVecs \/ UsesArrs)'
  BY SeqsAre
<1>3. Seqs[g] = Null /\ Sees = [p \in Owners |-> Sees[p]]
  BY <1>1, <1>2 DEF Sees, Shows, Shown
<1>4. CASE status' = NoMem /\ Sees' = Sees
  BY <1>2, <1>3, <1>4 DEF SS!SeqNew, SS!Alive, SS!Refused
<1>5. CASE status' = OK /\ Sees' = [Sees EXCEPT ![o] = [al |-> a, elems |-> s]]
  <2>1. Seqs' = [Seqs EXCEPT ![g] = [al |-> a, elems |-> s]]
    BY <1>1, <1>2, <1>3, <1>5
  <2>2. QED
    BY <1>2, <1>3, <1>5, <2>1 DEF SS!SeqNew, SS!Alive
<1>6. QED
  BY <1>1, <1>4, <1>5 DEF BirthTells

(* What it sees of an end.                                                 *)
LEMMA EndIsSeen ==
  ASSUME Books, prog' = prog, NEW kind \in {"vec", "arr"}, Uses(kind), NEW g \in Handles,
         StructOf(kind, g) # Null, status' = OK, Sees' = [Sees EXCEPT ![<<kind, g>>] = Null]
  PROVE  SS!SeqDrop(g)
<1>1. PICK o \in Owners : o = <<kind, g>>
  BY OwnersAre
<1>2. /\ Seqs = [h \in Handles |-> Sees[<<kind, h>>]]
      /\ Seqs' = [h \in Handles |-> Sees'[<<kind, h>>]]
      /\ \A h \in Handles : <<kind, h>> \in Owners
      /\ (UsesVecs \/ UsesArrs)'
  BY SeqsAre
<1>3. Sees = [p \in Owners |-> Sees[p]]
  BY DEF Sees, Shows
<1>4. Seqs' = [Seqs EXCEPT ![g] = Null]
  BY <1>1, <1>2, <1>3
<1>5. QED
  BY <1>2, <1>4, LiveIsSeen DEF SS!SeqDrop

(* A vec is made that has no owner.                                        *)
LEMMA VecBirth ==
  ASSUME IInv, VecFrame, NEW g \in Handles, NEW r, NEW a, NEW s, Born("vec", mem, r, a, s), Birth(g, r)
  PROVE  IInv' /\ (Uses("vec") => SS!SeqNew(g, a, s))
<1>1. /\ Typed /\ Books /\ IsMemory(mem) /\ prog \in Programs /\ prog' = prog
      /\ vec[g] = Null /\ StructOf("vec", g) = Null
      /\ vec' = [vec EXCEPT ![g] = r.d] /\ mem' = r.m /\ status' = r.st
  BY DEF IInv, Books, Sound, Birth, Commit, VecAlive, StructOf, VecFrame
<1>2. BornWith("vec", {"vec"}, mem, r, a, s)
  BY <1>1, BornAlone
<1>3. g \notin stk \cup Queues
  BY <1>1 DEF Typed, VecAlive
<1>4. OwnersMove(g)
  BY <1>1 DEF OwnersMove, VecFrame, Typed
<1>5. g \notin stk' \cup Queues' /\ RolesAt("vec", g, stk', Queues') = {"vec"}
  BY <1>3 DEF RolesAt, VecFrame
<1>6. Typed' /\ PutsAt(<<"vec", g>>, r.d, {"vec"})
  BY <1>1, <1>4, <1>5, VecPutsAt
<1>7. Books' /\ BirthTells("vec", g, a, s)
  BY <1>1, <1>2, <1>6, BornTells
<1>8. Uses("vec") => SS!SeqNew(g, a, s)
  BY <1>1, <1>7, BirthIsSeen
<1>9. QED
  BY <1>1, <1>6, <1>7, <1>8 DEF IInv

(* A vec is made for an owner of kind k.                                   *)
OwnerComes(k, g) ==
  /\ UNCHANGED <<arr, prog>>
  /\ order' = [h \in Handles |-> order'[h]]
  /\ stk' = IF k = "stack" /\ status' = OK THEN stk \cup {g} ELSE stk
  /\ Queues' = IF k = "pqueue" /\ status' = OK THEN Queues \cup {g} ELSE Queues

(* An owner of kind k is made around it.                                   *)
LEMMA OwnerBirth ==
  ASSUME IInv, NEW k \in {"stack", "pqueue"}, NEW g \in Handles, OwnerComes(k, g),
         NEW r, NEW a, NEW s, Born("vec", mem, r, a, s), NEW hdr, Birth(g, Wrapped(r, k, hdr))
  PROVE  IInv' /\ (Uses("vec") => SS!SeqNew(g, a, s))
<1>1. PICK w : w = Wrapped(r, k, hdr)
  OBVIOUS
<1>2. /\ Typed /\ Books /\ IsMemory(mem) /\ prog \in Programs /\ prog' = prog
      /\ vec[g] = Null /\ StructOf("vec", g) = Null
      /\ vec' = [vec EXCEPT ![g] = w.d] /\ mem' = w.m /\ status' = w.st
  BY <1>1 DEF IInv, Books, Sound, Birth, Commit, VecAlive, StructOf, OwnerComes
<1>3. BornWith("vec", {"vec", k}, mem, w, a, s)
  BY <1>1, <1>2, WrapIsBorn
<1>4. (status' = OK => w.d # Null) /\ (status' # OK => w.d = Null)
  BY <1>2, <1>3, StructFacts, MemoryAssumption DEF BornWith
<1>5. g \notin stk \cup Queues
  BY <1>2 DEF Typed, VecAlive
<1>6. OwnersMove(g)
  BY <1>2 DEF OwnersMove, OwnerComes, Typed
<1>7. w.d = Null => g \notin stk' \cup Queues'
  BY <1>4, <1>5 DEF OwnerComes
<1>8. w.d # Null => {"vec", k} = RolesAt("vec", g, stk', Queues')
  BY <1>4, <1>5 DEF OwnerComes, RolesAt
<1>9. Typed' /\ PutsAt(<<"vec", g>>, w.d, {"vec", k})
  BY <1>2, <1>6, <1>7, <1>8, VecPutsAt
<1>10. Books' /\ BirthTells("vec", g, a, s)
  BY <1>2, <1>3, <1>9, BornTells
<1>11. Uses("vec") => SS!SeqNew(g, a, s)
  BY <1>2, <1>10, BirthIsSeen
<1>12. QED
  BY <1>2, <1>9, <1>10, <1>11 DEF IInv

(* A vec that has no owner is dropped.                                     *)
LEMMA DropGoes ==
  ASSUME IInv, VecFrame, NEW h \in Loose, Drop(h)
  PROVE  Goes("vec")
<1>1. h \in Handles /\ h \notin stk \cup Queues
  BY DEF Loose, Queues
<1>2. VecAlive(h) /\ vec' = [vec EXCEPT ![h] = Null] /\ mem' = Dropped(vec[h], mem) /\ status' = OK
  BY DEF Drop, Commit, Result
<1>3. /\ StructOK("vec", vec[h], mem) /\ IsMemory(mem) /\ Books /\ Typed
      /\ StructOf("vec", h) = vec[h] /\ vec[h] # Null /\ prog \in Programs
  BY <1>1, <1>2, VecIsOK DEF IInv
<1>4. Exchanges("vec", vec[h], {"vec"}, mem, Null, {}, mem')
  BY <1>2, <1>3, DropExchanges
<1>5. Roles[<<"vec", h>>] = {"vec"}
  BY <1>1, OwnersAre DEF RolesAt
<1>6. OwnersMove(h) /\ h \notin stk' \cup Queues'
  BY <1>1, <1>3 DEF OwnersMove, VecFrame, Typed
<1>7. Typed' /\ PutsAt(<<"vec", h>>, Null, {})
  BY <1>1, <1>2, <1>3, <1>6, VecPutsAt
<1>8. Books' /\ Sees' = [Sees EXCEPT ![<<"vec", h>>] = Null]
  BY <1>1, <1>3, <1>4, <1>5, <1>7, GoneTells
<1>9. Uses("vec") => SS!SeqDrop(h)
  BY <1>1, <1>2, <1>3, <1>8, EndIsSeen DEF VecFrame
<1>10. Uses("vec") => SS!SeqNext
  BY <1>1, <1>9 DEF SS!SeqNext
<1>11. QED
  BY <1>3, <1>7, <1>8, <1>10 DEF Goes, IInv, VecFrame

(* An owner of kind k goes.                                                *)
OwnerGoes(k, h) ==
  /\ UNCHANGED <<arr, prog>>
  /\ order' = [g \in Handles |-> order'[g]]
  /\ h \in stk <=> k = "stack"
  /\ h \in Queues <=> k = "pqueue"
  /\ stk' = stk \ {h}
  /\ Queues' = Queues \ {h}

(* It is dropped.                                                          *)
LEMMA OwnerDropGoes ==
  ASSUME IInv, NEW k \in {"stack", "pqueue"}, NEW h \in Handles, OwnerGoes(k, h),
         Commit(h, Result(OK, Null, ReturnHdr(Dropped(vec[h], mem), vec[h].al, k)))
  PROVE  Goes("vec")
<1>1. VecAlive(h)
  BY DEF OwnerGoes, IInv, Typed
<1>2. /\ vec' = [vec EXCEPT ![h] = Null] /\ status' = OK
      /\ mem' = ReturnHdr(Dropped(vec[h], mem), vec[h].al, k)
  BY DEF Commit, Result
<1>3. /\ StructOK("vec", vec[h], mem) /\ IsMemory(mem) /\ Books /\ Typed
      /\ StructOf("vec", h) = vec[h] /\ vec[h] # Null /\ prog \in Programs
  BY <1>1, VecIsOK DEF IInv
<1>4. Exchanges("vec", vec[h], {"vec", k}, mem, Null, {}, mem')
  BY <1>2, <1>3, DropExchanges
<1>5. Roles[<<"vec", h>>] = {"vec", k}
  BY OwnersAre DEF RolesAt, OwnerGoes
<1>6. OwnersMove(h) /\ h \notin stk' \cup Queues'
  BY <1>3 DEF OwnersMove, OwnerGoes, Typed
<1>7. Typed' /\ PutsAt(<<"vec", h>>, Null, {})
  BY <1>2, <1>3, <1>6, VecPutsAt
<1>8. Books' /\ Sees' = [Sees EXCEPT ![<<"vec", h>>] = Null]
  BY <1>3, <1>4, <1>5, <1>7, GoneTells
<1>9. Uses("vec") => SS!SeqDrop(h)
  BY <1>2, <1>3, <1>8, EndIsSeen DEF OwnerGoes
<1>10. Uses("vec") => SS!SeqNext
  BY <1>9 DEF SS!SeqNext
<1>11. QED
  BY <1>3, <1>7, <1>8, <1>10 DEF Goes, IInv, OwnerGoes

(* into_vec: the vec stays.                                                *)
LEMMA IntoVecGoes ==
  ASSUME IInv, NEW k \in {"stack", "pqueue"}, NEW h \in Handles, OwnerGoes(k, h),
         Commit(h, Result(OK, vec[h], ReturnHdr(mem, vec[h].al, k)))
  PROVE  Goes("vec")
<1>1. VecAlive(h)
  BY DEF OwnerGoes, IInv, Typed
<1>2. vec' = [vec EXCEPT ![h] = vec[h]] /\ status' = OK /\ mem' = ReturnHdr(mem, vec[h].al, k)
  BY DEF Commit, Result
<1>3. /\ Books /\ Typed /\ StructOf("vec", h) = vec[h] /\ vec[h] # Null /\ prog \in Programs
  BY <1>1, VecIsOK DEF IInv
<1>4. Roles[<<"vec", h>>] = {"vec"} \cup {k} /\ k \notin {"vec"} /\ k \in ObjectKinds
  BY OwnersAre DEF RolesAt, OwnerGoes, ObjectKinds
<1>5. OwnersMove(h) /\ RolesAt("vec", h, stk', Queues') = {"vec"}
  BY <1>3 DEF OwnersMove, OwnerGoes, Typed, RolesAt
<1>6. Typed' /\ PutsAt(<<"vec", h>>, vec[h], {"vec"})
  BY <1>2, <1>3, <1>5, VecPutsAt
<1>7. Books' /\ Sees' = Sees
  BY <1>1, <1>2, <1>3, <1>4, <1>6, LoosedTells
<1>8. ASSUME Uses("vec")
      PROVE  SS!SeqHousekeeping(h)
  <2>1. /\ Seqs = [g \in Handles |-> Sees[<<"vec", g>>]]
        /\ Seqs' = [g \in Handles |-> Sees'[<<"vec", g>>]]
        /\ (UsesVecs \/ UsesArrs)'
    BY <1>8, SeqsAre DEF OwnerGoes
  <2>2. Seqs' = Seqs
    BY <1>7, <2>1
  <2>3. SeqTells("vec", h, ToSpan(vec[h], mem))
    <3>1. [Sees EXCEPT ![<<"vec", h>>].elems = ToSpan(vec[h], mem)] = Sees
      <4>1. Sees = [o \in Owners |-> Sees[o]]
        BY DEF Sees, Shows
      <4>2. Sees[<<"vec", h>>] = [al |-> vec[h].al, elems |-> ToSpan(vec[h], mem)]
        BY <1>3, OwnersAre DEF Sees, Shows, Shown
      <4>3. QED
        BY <4>1, <4>2
    <3>2. QED
      BY <1>2, <1>7, <3>1 DEF SeqTells
  <2>4. SS!Alive(h)
    BY <1>3, <1>8, <2>3, CallIsSeen DEF OwnerGoes, SeqCall
  <2>5. QED
    BY <1>2, <2>1, <2>2, <2>4 DEF SS!SeqHousekeeping, SS!Done
<1>9. Uses("vec") => SS!SeqNext
  BY <1>8 DEF SS!SeqNext
<1>10. QED
  BY <1>3, <1>6, <1>7, <1>9 DEF Goes, IInv, OwnerGoes
-----------------------------------------------------------------------------
(* The constructors.                                                       *)

(* A constructor that starts as SeqStore has it.                           *)
LEMMA NewIsNext ==
  ASSUME NEW g \in Handles, NEW a \in Als, NEW s \in SS!Starts, SS!SeqNew(g, a, s)
  PROVE  SS!SeqNext
  BY DEF SS!SeqNext

(* A copy of an object.                                                    *)
LEMMA CopyIsNext ==
  ASSUME Books, prog' = prog, NEW kind \in {"vec", "arr"}, Uses(kind), NEW g \in Handles, NEW h \in Handles,
         StructOf(kind, h) # Null, NEW a \in Als, SS!SeqNew(g, a, ToSpan(StructOf(kind, h), mem))
  PROVE  SS!SeqNext
<1>1. SS!Alive(h) /\ Seqs[h].elems = ToSpan(StructOf(kind, h), mem)
  <2>1. Seqs[h] = [al |-> StructOf(kind, h).al, elems |-> ToSpan(StructOf(kind, h), mem)] /\ SS!Alive(h)
    BY LiveIsSeen
  <2>2. QED
    BY <2>1
<1>2. SS!SeqCopyWith(h, g, a)
  BY <1>1 DEF SS!SeqCopyWith
<1>3. QED
  BY <1>2 DEF SS!SeqNext

(* What SeqStore makes of a constructor that leaves r.                     *)
Begins(kind, g, r, a) ==
  \E s : Born(kind, mem, r, a, s) /\ (Uses(kind) /\ SS!SeqNew(g, a, s) => SS!SeqNext)

(* The elems a constructor may start from.                                 *)
LEMMA StartsAre ==
  /\ <<>> \in SS!Starts
  /\ \A s \in Inputs : s \in SS!Starts /\ s \in Seq(Cells)
  /\ \A n \in Counts : SS!ZeroSeq(n) \in SS!Starts /\ n \in Nat
  BY InputsAreRuns, ValsAreCells DEF SS!Starts

(* What a vec starts from, alone or for an owner.                          *)
VecSources(a, hdr, room) ==
  {NewImpl(mem, a, 0, n, hdr, room) : n \in Counts \cup {0}}
    \cup {NewLen(mem, a, n, hdr, room) : n \in Counts}
    \cup {FromData(mem, a, s, hdr, room) : s \in Inputs}
    \cup {CopyWith(vec[h], mem, a, hdr, room) : h \in {g \in Handles : VecAlive(g)}}

(* Each is one of those SeqStore has.                                      *)
LEMMA SourceBegins ==
  ASSUME IInv, prog' = prog, NEW g \in Handles, NEW a \in Als, NEW hdr, NEW room,
         NEW r \in VecSources(a, hdr, room)
  PROVE  Begins("vec", g, r, a)
<1>1. IsMemory(mem) /\ Books
  BY DEF IInv, Books, Sound
<1>2. ASSUME NEW n \in Counts \cup {0}, r = NewImpl(mem, a, 0, n, hdr, room)
      PROVE  Begins("vec", g, r, a)
  <2>1. n \in Nat
    BY ValsAreCells
  <2>2. Born("vec", mem, r, a, <<>>)
    BY <1>1, <1>2, <2>1, VecsAreBorn
  <2>3. QED
    BY <2>2, StartsAre, NewIsNext DEF Begins
<1>3. ASSUME NEW n \in Counts, r = NewLen(mem, a, n, hdr, room)
      PROVE  Begins("vec", g, r, a)
  <2>1. Born("vec", mem, r, a, SS!ZeroSeq(n))
    BY <1>1, <1>3, VecsAreBorn, ValsAreCells
  <2>2. QED
    BY <2>1, StartsAre, NewIsNext DEF Begins
<1>4. ASSUME NEW s \in Inputs, r = FromData(mem, a, s, hdr, room)
      PROVE  Begins("vec", g, r, a)
  <2>1. Born("vec", mem, r, a, s)
    BY <1>1, <1>4, VecsAreBorn, StartsAre
  <2>2. QED
    BY <2>1, StartsAre, NewIsNext DEF Begins
<1>5. ASSUME NEW h \in Handles, VecAlive(h), r = CopyWith(vec[h], mem, a, hdr, room)
      PROVE  Begins("vec", g, r, a)
  <2>1. StructOK("vec", vec[h], mem) /\ StructOf("vec", h) = vec[h] /\ vec[h] # Null
    BY <1>5, VecIsOK
  <2>2. ToSpan(vec[h], mem) \in Seq(Cells)
    BY <1>1, <2>1, SpanIsRead
  <2>3. Born("vec", mem, r, a, ToSpan(vec[h], mem))
    BY <1>1, <1>5, <2>2, VecsAreBorn DEF CopyWith
  <2>4. Uses("vec") /\ SS!SeqNew(g, a, ToSpan(vec[h], mem)) => SS!SeqNext
    BY <1>1, <2>1, CopyIsNext
  <2>5. QED
    BY <2>3, <2>4 DEF Begins
<1>6. QED
  BY <1>2, <1>3, <1>4, <1>5 DEF VecSources

(* The constructors of a vec.                                              *)
LEMMA BirthStepGoes ==
  ASSUME IInv, VecFrame, NEW g \in Handles, NEW hdr, NEW room, BirthStep(g, hdr, room)
  PROVE  Goes("vec")
<1>1. PICK a \in Als : \E r \in VecSources(a, hdr, room) : Birth(g, r)
  BY DEF BirthStep, VecSources
<1>2. PICK r \in VecSources(a, hdr, room) : Birth(g, r)
  BY <1>1
<1>3. PICK s : Born("vec", mem, r, a, s) /\ (Uses("vec") /\ SS!SeqNew(g, a, s) => SS!SeqNext)
  BY SourceBegins DEF Begins, VecFrame
<1>4. IInv' /\ (Uses("vec") => SS!SeqNew(g, a, s))
  BY <1>2, <1>3, VecBirth
<1>5. QED
  BY <1>3, <1>4 DEF Goes

(* The constructors of a stack.                                            *)
LEMMA StackBirthStepGoes ==
  ASSUME IInv, UNCHANGED <<arr, order, prog>>, NEW g \in Handles, NEW hdr, NEW room, StackBirthStep(g, hdr, room)
  PROVE  Goes("vec")
<1>1. PICK a \in Als : \E r \in VecSources(a, hdr, room) : StackBirth(g, r, hdr)
  <2>1. \A h \in stk : h \in Handles /\ VecAlive(h)
    BY DEF IInv, Typed
  <2>2. QED
    BY <2>1 DEF StackBirthStep, VecSources
<1>2. PICK r \in VecSources(a, hdr, room) : StackBirth(g, r, hdr)
  BY <1>1
<1>3. PICK s : Born("vec", mem, r, a, s) /\ (Uses("vec") /\ SS!SeqNew(g, a, s) => SS!SeqNext)
  BY SourceBegins DEF Begins
<1>4. Birth(g, Wrapped(r, "stack", hdr)) /\ OwnerComes("stack", g)
  BY <1>2 DEF StackBirth, OwnerComes, Queues, IsQueue, IInv, Typed
<1>5. IInv' /\ (Uses("vec") => SS!SeqNew(g, a, s))
  BY <1>3, <1>4, OwnerBirth
<1>6. QED
  BY <1>3, <1>5 DEF Goes

(* The constructors of a queue.                                            *)
LEMMA PQBirthStepKeeps ==
  ASSUME IInv, UNCHANGED <<arr, stk, prog>>, NEW g \in Handles, NEW hdr, NEW room, PQBirthStep(g, hdr, room)
  PROVE  IInv'
<1>1. IsMemory(mem)
  BY DEF IInv, Books, Sound
<1>2. PICK r, cmp : (\E a, s : Born("vec", mem, r, a, s)) /\ PQBirth(g, r, cmp, hdr) /\ cmp # Null
  <2>1. PICK a \in Als :
          \/ \E cmp \in Orders :
               \/ \E r \in VecSources(a, hdr, room) : PQBirth(g, r, cmp, hdr)
               \/ \E s \in Inputs : PQBirth(g, HeapFromData(mem, a, s, cmp, hdr, room), cmp, hdr)
          \/ \E h \in Handles : IsQueue(h) /\ \E r \in VecSources(a, hdr, room) : PQBirth(g, r, order[h], hdr)
    <3>1. \A h \in Handles : IsQueue(h) => VecAlive(h)
      BY DEF IInv, Typed, Queues
    <3>2. QED
      BY <3>1 DEF PQBirthStep, VecSources
  <2>2. \A cmp \in Orders : cmp # Null
    BY ContainersNullAssumption
  <2>3. ASSUME NEW r \in VecSources(a, hdr, room)
        PROVE  \E s : Born("vec", mem, r, a, s)
    BY SourceBegins DEF Begins
  <2>4. ASSUME NEW cmp \in Orders, NEW s \in Inputs
        PROVE  \E t : Born("vec", mem, HeapFromData(mem, a, s, cmp, hdr, room), a, t)
    BY <1>1, StartsAre, HeapIsBorn
  <2>5. QED
    BY <2>1, <2>2, <2>3, <2>4 DEF IsQueue
<1>3. Birth(g, Wrapped(r, "pqueue", hdr)) /\ order' = IF status' = OK THEN [order EXCEPT ![g] = cmp] ELSE order
  BY <1>2 DEF PQBirth
<1>4. order = [h \in Handles |-> order[h]]
  BY DEF IInv, Typed
<1>5. order' = [h \in Handles |-> IF h = g /\ status' = OK THEN cmp ELSE order[h]]
  BY <1>3, <1>4
<1>6. Queues' = IF status' = OK THEN Queues \cup {g} ELSE Queues
  BY <1>2, <1>5 DEF Queues, IsQueue
<1>7. OwnerComes("pqueue", g)
  BY <1>5, <1>6 DEF OwnerComes
<1>8. QED
  BY <1>2, <1>3, <1>7, OwnerBirth
-----------------------------------------------------------------------------
(* Arr: birth and death.                                                   *)

(* An arr comes or goes.                                                   *)
LEMMA ArrPutsAt ==
  ASSUME Typed, NEW g \in Handles, NEW y, arr' = [arr EXCEPT ![g] = y], ArrFrame
  PROVE  Typed' /\ PutsAt(<<"arr", g>>, y, {"arr"})
<1>1. Puts("arr", g, y)
  BY ArrPuts DEF ArrFrame
<1>2. PICK o \in Owners : o = <<"arr", g>> /\ o[1] = "arr" /\ Roles[o] = {"arr"}
  BY OwnersAre DEF RolesAt
<1>3. QED
  BY <1>1, <1>2 DEF Puts, PutsAt, RolesIn

(* An arr is made.                                                         *)
LEMMA ArrBirthGoes ==
  ASSUME IInv, ArrFrame, NEW g \in Handles, NEW r, NEW a, Begins("arr", g, r, a), ArrBirth(g, r)
  PROVE  Goes("arr")
<1>1. /\ Typed /\ Books /\ IsMemory(mem) /\ prog \in Programs /\ prog' = prog
      /\ StructOf("arr", g) = Null
      /\ arr' = [arr EXCEPT ![g] = r.d] /\ mem' = r.m /\ status' = r.st
  BY DEF IInv, Books, Sound, ArrBirth, CommitArr, ArrAlive, StructOf, ArrFrame
<1>2. PICK s : Born("arr", mem, r, a, s) /\ (Uses("arr") /\ SS!SeqNew(g, a, s) => SS!SeqNext)
  BY DEF Begins
<1>3. BornWith("arr", {"arr"}, mem, r, a, s)
  BY <1>1, <1>2, BornAlone
<1>4. Typed' /\ PutsAt(<<"arr", g>>, r.d, {"arr"})
  BY <1>1, ArrPutsAt
<1>5. Books' /\ BirthTells("arr", g, a, s)
  BY <1>1, <1>3, <1>4, BornTells
<1>6. Uses("arr") => SS!SeqNew(g, a, s)
  BY <1>1, <1>5, BirthIsSeen
<1>7. QED
  BY <1>1, <1>2, <1>4, <1>5, <1>6 DEF Goes, IInv

(* The constructors of an arr.                                             *)
LEMMA ArrBirthStepGoes ==
  ASSUME IInv, ArrFrame, NEW g \in Handles, NEW hdr, NEW room, ArrBirthStep(g, hdr, room)
  PROVE  Goes("arr")
<1>1. PICK a \in Als :
        \/ \E n \in Counts : ArrBirth(g, ArrImpl(mem, a, n, TRUE, hdr, room))
        \/ \E s \in Inputs : ArrBirth(g, ArrFromData(mem, a, s, hdr, room))
        \/ \E h \in Handles : ArrAlive(h) /\ ArrBirth(g, ArrCopyWith(arr[h], mem, a, hdr, room))
  BY DEF ArrBirthStep
<1>2. IsMemory(mem) /\ Books /\ prog' = prog
  BY DEF IInv, Books, Sound, ArrFrame
<1>3. ASSUME NEW n \in Counts, ArrBirth(g, ArrImpl(mem, a, n, TRUE, hdr, room))
      PROVE  Goes("arr")
  <2>1. Born("arr", mem, ArrImpl(mem, a, n, TRUE, hdr, room), a, SS!ZeroSeq(n))
    BY <1>2, StartsAre, ArrImplIs
  <2>2. Begins("arr", g, ArrImpl(mem, a, n, TRUE, hdr, room), a)
    BY <2>1, StartsAre, NewIsNext DEF Begins
  <2>3. QED
    BY <1>3, <2>2, ArrBirthGoes
<1>4. ASSUME NEW s \in Inputs, ArrBirth(g, ArrFromData(mem, a, s, hdr, room))
      PROVE  Goes("arr")
  <2>1. Born("arr", mem, ArrFromData(mem, a, s, hdr, room), a, s)
    BY <1>2, StartsAre, ArrsAreBorn
  <2>2. Begins("arr", g, ArrFromData(mem, a, s, hdr, room), a)
    BY <2>1, StartsAre, NewIsNext DEF Begins
  <2>3. QED
    BY <1>4, <2>2, ArrBirthGoes
<1>5. ASSUME NEW h \in Handles, ArrAlive(h), ArrBirth(g, ArrCopyWith(arr[h], mem, a, hdr, room))
      PROVE  Goes("arr")
  <2>1. StructOK("arr", arr[h], mem) /\ StructOf("arr", h) = arr[h] /\ arr[h] # Null
    BY <1>5, ArrIsOK
  <2>2. ToSpan(arr[h], mem) \in Seq(Cells)
    BY <1>2, <2>1, SpanIsRead
  <2>3. Born("arr", mem, ArrCopyWith(arr[h], mem, a, hdr, room), a, ToSpan(arr[h], mem))
    BY <1>2, <2>2, ArrsAreBorn DEF ArrCopyWith
  <2>4. Uses("arr") /\ SS!SeqNew(g, a, ToSpan(arr[h], mem)) => SS!SeqNext
    BY <1>2, <2>1, CopyIsNext
  <2>5. Begins("arr", g, ArrCopyWith(arr[h], mem, a, hdr, room), a)
    BY <2>3, <2>4 DEF Begins
  <2>6. QED
    BY <1>5, <2>5, ArrBirthGoes
<1>6. QED
  BY <1>1, <1>3, <1>4, <1>5

(* tda_arr_drop.                                                           *)
LEMMA ArrDropGoes ==
  ASSUME IInv, ArrFrame, NEW h \in Handles, ArrDrop(h)
  PROVE  Goes("arr")
<1>1. ArrAlive(h) /\ arr' = [arr EXCEPT ![h] = Null] /\ mem' = ArrDropped(arr[h], mem) /\ status' = OK
  BY DEF ArrDrop, CommitArr, Result
<1>2. /\ StructOK("arr", arr[h], mem) /\ IsMemory(mem) /\ Books /\ Typed
      /\ StructOf("arr", h) = arr[h] /\ arr[h] # Null /\ prog \in Programs
  BY <1>1, ArrIsOK DEF IInv
<1>3. Exchanges("arr", arr[h], {"arr"}, mem, Null, {}, mem')
  BY <1>1, <1>2, ArrDropExchanges
<1>4. Roles[<<"arr", h>>] = {"arr"}
  BY OwnersAre DEF RolesAt
<1>5. Typed' /\ PutsAt(<<"arr", h>>, Null, {})
  BY <1>1, <1>2, ArrPutsAt DEF PutsAt
<1>6. Books' /\ Sees' = [Sees EXCEPT ![<<"arr", h>>] = Null]
  BY <1>2, <1>3, <1>4, <1>5, GoneTells
<1>7. Uses("arr") => SS!SeqDrop(h)
  BY <1>1, <1>2, <1>6, EndIsSeen DEF ArrFrame
<1>8. Uses("arr") => SS!SeqNext
  BY <1>7 DEF SS!SeqNext
<1>9. QED
  BY <1>2, <1>5, <1>6, <1>8 DEF Goes, IInv, ArrFrame
-----------------------------------------------------------------------------
(* Calls on two objects.                                                   *)

(* Two structs are written, and the headers of all stay.                   *)
PutsBoth(kind, h, x, g, y) ==
  /\ \A o \in Owners :
       Structs'[o] = IF o = <<kind, g>> THEN y ELSE IF o = <<kind, h>> THEN x ELSE Structs[o]
  /\ Roles' = Roles

(* Those of two vecs.                                                      *)
LEMMA VecPutsBoth ==
  ASSUME Typed, VecFrame, NEW h \in Handles, NEW g \in Handles, NEW x, NEW y,
         vec' = [vec EXCEPT ![h] = x, ![g] = y]
  PROVE  PutsBoth("vec", h, x, g, y) /\ (x # Null /\ y # Null => Typed')
<1>1. vec' = [f \in Handles |-> IF f = g THEN y ELSE IF f = h THEN x ELSE vec[f]]
  BY DEF Typed
<1>2. ASSUME x # Null, y # Null
      PROVE  Typed'
  <2>1. \A f \in Handles : vec[f] # Null => vec'[f] # Null
    BY <1>1, <1>2
  <2>2. stk' \cup Queues' = stk \cup Queues /\ stk \cup Queues \subseteq Handles
    BY DEF VecFrame, Typed, Queues
  <2>3. \A f \in stk' \cup Queues' : vec'[f] # Null
    BY <2>1, <2>2 DEF Typed, VecAlive
  <2>4. vec' = [f \in Handles |-> vec'[f]] /\ arr' = [f \in Handles |-> arr'[f]] /\ stk' \subseteq Handles
    BY <1>1 DEF Typed, VecFrame
  <2>5. QED
    BY <2>3, <2>4 DEF Typed, VecAlive, VecFrame
<1>3. /\ Structs' = [o \in Owners |-> IF o[1] = "arr" THEN arr'[o[2]] ELSE vec'[o[2]]]
      /\ Structs = [o \in Owners |-> IF o[1] = "arr" THEN arr[o[2]] ELSE vec[o[2]]]
  BY DEF Structs, StructOf
<1>4. \A o \in Owners : \A f \in Handles : o = <<"vec", f>> <=> o[1] # "arr" /\ o[2] = f
  BY DEF Owners
<1>5. \A o \in Owners :
        Structs'[o] = IF o = <<"vec", g>> THEN y ELSE IF o = <<"vec", h>> THEN x ELSE Structs[o]
  BY <1>1, <1>3, <1>4 DEF Owners, VecFrame
<1>6. Roles' = Roles
  BY DEF Roles, VecFrame
<1>7. QED
  BY <1>2, <1>5, <1>6 DEF PutsBoth

(* Those of two arrs.                                                      *)
LEMMA ArrPutsBoth ==
  ASSUME Typed, ArrFrame, NEW h \in Handles, NEW g \in Handles, NEW x, NEW y,
         arr' = [arr EXCEPT ![h] = x, ![g] = y]
  PROVE  PutsBoth("arr", h, x, g, y) /\ Typed'
<1>1. arr' = [f \in Handles |-> IF f = g THEN y ELSE IF f = h THEN x ELSE arr[f]]
  BY DEF Typed
<1>2. Queues' = Queues
  BY DEF Queues, IsQueue, ArrFrame
<1>3. Typed'
  BY <1>1, <1>2 DEF Typed, VecAlive, ArrFrame
<1>4. /\ Structs' = [o \in Owners |-> IF o[1] = "arr" THEN arr'[o[2]] ELSE vec'[o[2]]]
      /\ Structs = [o \in Owners |-> IF o[1] = "arr" THEN arr[o[2]] ELSE vec[o[2]]]
  BY DEF Structs, StructOf
<1>5. \A o \in Owners : \A f \in Handles : o = <<"arr", f>> <=> o[1] = "arr" /\ o[2] = f
  BY DEF Owners
<1>6. \A o \in Owners :
        Structs'[o] = IF o = <<"arr", g>> THEN y ELSE IF o = <<"arr", h>> THEN x ELSE Structs[o]
  BY <1>1, <1>4, <1>5 DEF Owners, ArrFrame
<1>7. Roles' = Roles
  BY <1>2 DEF Roles, ArrFrame
<1>8. QED
  BY <1>3, <1>6, <1>7 DEF PutsBoth

(* move_assign from h to g, as SeqStore has it.                            *)
MoveSeen(kind, h, g) ==
  \/ status' = NoMem /\ Sees' = Sees
  \/ /\ status' = OK
     /\ Sees' = [Sees EXCEPT ![<<kind, g>>].elems = Sees[<<kind, h>>].elems, ![<<kind, h>>].elems = <<>>]

(* What a live object shows.                                               *)
IsSeen(f) == \E a \in Als, s \in Seq(Cells) : f = [al |-> a, elems |-> s]

(* It is not null.                                                         *)
LEMMA SeenIsThere ==
  ASSUME NEW f, IsSeen(f)
  PROVE  f # Null
<1>1. PICK a \in Als, s \in Seq(Vals \cup {Zero, Junk}) : f = [al |-> a, elems |-> s]
  BY DEF IsSeen, Cells
<1>2. QED
  BY <1>1, ContainersNullAssumption

(* A live object is seen, and nothing else is.                             *)
LEMMA AliveIsSeen ==
  ASSUME NEW D, NEW J, NEW m, Sound(D, J, m), NEW o \in Owners
  PROVE  (D[o] = Null => Shows(D, m)[o] = Null) /\ (D[o] # Null => IsSeen(Shows(D, m)[o]))
<1>1. Shows(D, m)[o] = Shown(D[o], m) /\ (D[o] = Null => Shown(D[o], m) = Null)
  BY DEF Shows, Shown
<1>2. ASSUME D[o] # Null
      PROVE  IsSeen(Shown(D[o], m))
  <2>1. StructOK(o[1], D[o], m)
    BY <1>2 DEF Sound
  <2>2. D[o].al \in Als /\ ToSpan(D[o], m) \in Seq(Cells)
    BY <2>1, StructFacts, SpanIsRead
  <2>3. QED
    BY <1>2, <2>2 DEF Shown, IsSeen
<1>3. QED
  BY <1>1, <1>2

(* After a move both objects are still there.                              *)
LEMMA MoveStays ==
  ASSUME NEW D, NEW J, NEW m, Sound(D, J, m), NEW p \in Owners, NEW o \in Owners, p # o,
         D[p] # Null, D[o] # Null, NEW E, NEW q, NEW st, MoveTells(D, J, m, E, q, st, p, o)
  PROVE  E[p] # Null /\ E[o] # Null
<1>1. Sound(E, J, q)
  BY DEF MoveTells
<1>2. PICK F, G : F = Shows(D, m) /\ G = Shows(E, q)
  OBVIOUS
<1>3. IsSeen(F[p]) /\ IsSeen(F[o])
  BY <1>2, AliveIsSeen
<1>4. IsSeen(G[p]) /\ IsSeen(G[o])
  <2>1. CASE G = F
    BY <1>3, <2>1
  <2>2. CASE G = [F EXCEPT ![o].elems = F[p].elems, ![p].elems = <<>>]
    <3>1. F = [x \in Owners |-> F[x]]
      BY <1>2 DEF Shows
    <3>2. PICK a \in Als, s \in Seq(Cells) : F[p] = [al |-> a, elems |-> s]
      BY <1>3 DEF IsSeen
    <3>3. PICK b \in Als, t \in Seq(Cells) : F[o] = [al |-> b, elems |-> t]
      BY <1>3 DEF IsSeen
    <3>4. G[p] = [al |-> a, elems |-> <<>>] /\ G[o] = [al |-> b, elems |-> s]
      BY <2>2, <3>1, <3>2, <3>3
    <3>5. <<>> \in Seq(Cells)
      OBVIOUS
    <3>6. QED
      BY <3>4, <3>5 DEF IsSeen
  <2>3. QED
    BY <1>2, <2>1, <2>2 DEF MoveTells
<1>5. G[p] # Null /\ G[o] # Null
  BY <1>4, SeenIsThere
<1>6. QED
  BY <1>1, <1>2, <1>5, AliveIsSeen

(* move_assign between two objects with the same headers.                  *)
LEMMA BothMove ==
  ASSUME Books, NEW kind \in {"vec", "arr"}, NEW h \in Handles, NEW g \in Handles, h # g,
         StructOf(kind, h) # Null, StructOf(kind, g) # Null,
         RolesAt(kind, h, stk, Queues) = RolesAt(kind, g, stk, Queues),
         NEW r, Moves(kind, StructOf(kind, h), StructOf(kind, g), mem, r),
         PutsBoth(kind, h, r.d, g, r.e), mem' = r.m, status' = r.st
  PROVE  Books' /\ r.d # Null /\ r.e # Null /\ MoveSeen(kind, h, g)
<1>1. PICK p \in Owners : p = <<kind, h>> /\ p[1] = kind /\ Structs[p] = StructOf(kind, h)
                          /\ Roles[p] = RolesAt(kind, h, stk, Queues)
  BY OwnersAre
<1>2. PICK o \in Owners : o = <<kind, g>> /\ o[1] = kind /\ Structs[o] = StructOf(kind, g)
                          /\ Roles[o] = RolesAt(kind, g, stk, Queues)
  BY OwnersAre
<1>3. p # o /\ Roles[p] = Roles[o] /\ o[1] \in Roles[o]
  BY <1>1, <1>2 DEF RolesAt
<1>4. PICK E : E = Structs'
  OBVIOUS
<1>5. \A x \in Owners : E[x] = IF x = o THEN r.e ELSE IF x = p THEN r.d ELSE Structs[x]
  BY <1>1, <1>2, <1>4 DEF PutsBoth
<1>6. MoveTells(Structs, Roles, mem, E, r.m, r.st, p, o)
  BY <1>1, <1>2, <1>3, <1>5, MoveIsSound DEF Books
<1>7. r.d # Null /\ r.e # Null
  BY <1>1, <1>2, <1>3, <1>5, <1>6, MoveStays DEF Books
<1>8. Books'
  BY <1>4, <1>6 DEF MoveTells, Books, PutsBoth
<1>9. MoveSeen(kind, h, g)
  BY <1>1, <1>2, <1>4, <1>6 DEF MoveTells, MoveSeen, Sees
<1>10. QED
  BY <1>7, <1>8, <1>9

(* What SeqStore sees of a move.                                           *)
LEMMA MoveIsSeen ==
  ASSUME Books, prog' = prog, NEW kind \in {"vec", "arr"}, Uses(kind),
         NEW h \in Handles, NEW g \in Handles, h # g,
         StructOf(kind, h) # Null, StructOf(kind, g) # Null, MoveSeen(kind, h, g)
  PROVE  SS!SeqMoveAssign(h, g)
<1>1. PICK p \in Owners : p = <<kind, h>>
  BY OwnersAre
<1>2. PICK o \in Owners : o = <<kind, g>>
  BY OwnersAre
<1>3. /\ Seqs = [f \in Handles |-> Sees[<<kind, f>>]]
      /\ Seqs' = [f \in Handles |-> Sees'[<<kind, f>>]]
      /\ \A f \in Handles : <<kind, f>> \in Owners
      /\ UsesVecs \/ UsesArrs
      /\ (UsesVecs \/ UsesArrs)'
  BY SeqsAre
<1>4. SS!Alive(h) /\ SS!Alive(g)
  BY LiveIsSeen
<1>5. CASE status' = NoMem /\ Sees' = Sees
  BY <1>3, <1>4, <1>5 DEF SS!Refused, SS!SeqMoveAssign
<1>6. CASE status' = OK /\ Sees' = [Sees EXCEPT ![o].elems = Sees[p].elems, ![p].elems = <<>>]
  <2>1. Sees = [x \in Owners |-> Sees[x]]
    BY DEF Sees, Shows
  <2>2. Seqs' = [Seqs EXCEPT ![g].elems = Seqs[h].elems, ![h].elems = <<>>]
    BY <1>1, <1>2, <1>3, <1>6, <2>1
  <2>3. QED
    BY <1>3, <1>4, <1>6, <2>2 DEF SS!SeqMoveAssign
<1>7. QED
  BY <1>1, <1>2, <1>5, <1>6 DEF MoveSeen

(* Two objects of one allocator with the same headers change places.       *)
LEMMA BothSwap ==
  ASSUME Books, prog' = prog, NEW kind \in {"vec", "arr"}, NEW h \in Handles, NEW g \in Handles,
         StructOf(kind, h) # Null, StructOf(kind, g) # Null, StructOf(kind, h).al = StructOf(kind, g).al,
         RolesAt(kind, h, stk, Queues) = RolesAt(kind, g, stk, Queues),
         PutsBoth(kind, h, StructOf(kind, g), g, StructOf(kind, h)), mem' = mem, status' = OK
  PROVE  Books' /\ (Uses(kind) => SS!SeqSwap(h, g))
<1>1. PICK p \in Owners : p = <<kind, h>> /\ p[1] = kind /\ Structs[p] = StructOf(kind, h)
                          /\ Roles[p] = RolesAt(kind, h, stk, Queues)
  BY OwnersAre
<1>2. PICK o \in Owners : o = <<kind, g>> /\ o[1] = kind /\ Structs[o] = StructOf(kind, g)
                          /\ Roles[o] = RolesAt(kind, g, stk, Queues)
  BY OwnersAre
<1>3. PICK E : E = Structs'
  OBVIOUS
<1>4. E[o] = Structs[p] /\ E[p] = Structs[o] /\ \A x \in Owners : x # o /\ x # p => E[x] = Structs[x]
  BY <1>1, <1>2, <1>3 DEF PutsBoth
<1>5. Sound(E, Roles, mem) /\ Shows(E, mem) = Interchanged(Sees, o, p)
  BY <1>1, <1>2, <1>4, SwapIsSound, SMTT(40) DEF Books, Sees
<1>6. Books' /\ Sees' = Interchanged(Sees, o, p)
  BY <1>3, <1>5 DEF Books, Sees, PutsBoth
<1>7. ASSUME Uses(kind)
      PROVE  SS!SeqSwap(h, g)
  <2>1. /\ Seqs = [f \in Handles |-> Sees[<<kind, f>>]]
        /\ Seqs' = [f \in Handles |-> Sees'[<<kind, f>>]]
        /\ \A f \in Handles : <<kind, f>> \in Owners
        /\ (UsesVecs \/ UsesArrs)'
    BY <1>7, SeqsAre
  <2>2. Sees' = [Sees EXCEPT ![o] = Sees[p], ![p] = Sees[o]]
    BY <1>6 DEF Interchanged
  <2>3. Seqs' = [Seqs EXCEPT ![g] = Seqs[h], ![h] = Seqs[g]]
    <3>1. Sees = [x \in Owners |-> Sees[x]]
      BY DEF Sees, Shows
    <3>2. QED
      BY <1>1, <1>2, <2>1, <2>2, <3>1
  <2>4. SS!Alive(h) /\ Seqs[h] = [al |-> StructOf(kind, h).al, elems |-> ToSpan(StructOf(kind, h), mem)]
    BY <1>7, LiveIsSeen
  <2>5. SS!Alive(g) /\ Seqs[g] = [al |-> StructOf(kind, g).al, elems |-> ToSpan(StructOf(kind, g), mem)]
    BY <1>7, LiveIsSeen
  <2>6. Seqs[h].al = Seqs[g].al
    BY <2>4, <2>5
  <2>7. QED
    BY <2>1, <2>3, <2>4, <2>5, <2>6 DEF SS!SeqSwap
<1>8. QED
  BY <1>6, <1>7

(* A comparison, and any other call that only answers.                     *)
LEMMA BothCompare ==
  ASSUME Books, prog' = prog, NEW kind \in {"vec", "arr"}, NEW h \in Handles, NEW g \in Handles,
         StructOf(kind, h) # Null, StructOf(kind, g) # Null, NEW alike,
         Structs' = Structs, mem' = mem, Uses(kind),
         status' = SameElems(ToSpan(StructOf(kind, h), mem), ToSpan(StructOf(kind, g), mem), alike)
  PROVE  SS!SeqCompare(h, g, alike)
<1>1. /\ Seqs = [f \in Handles |-> Sees[<<kind, f>>]]
      /\ Seqs' = [f \in Handles |-> Sees'[<<kind, f>>]]
      /\ (UsesVecs \/ UsesArrs)'
  BY SeqsAre
<1>2. Seqs' = Seqs
  BY <1>1 DEF Sees
<1>3. PICK s, t : s = ToSpan(StructOf(kind, h), mem) /\ t = ToSpan(StructOf(kind, g), mem)
  OBVIOUS
<1>4. SS!Alive(h) /\ Seqs[h].elems = s
  <2>1. SS!Alive(h) /\ Seqs[h] = [al |-> StructOf(kind, h).al, elems |-> ToSpan(StructOf(kind, h), mem)]
    BY LiveIsSeen
  <2>2. QED
    BY <1>3, <2>1
<1>5. SS!Alive(g) /\ Seqs[g].elems = t
  <2>1. SS!Alive(g) /\ Seqs[g] = [al |-> StructOf(kind, g).al, elems |-> ToSpan(StructOf(kind, g), mem)]
    BY LiveIsSeen
  <2>2. QED
    BY <1>3, <2>1
<1>6. status' = SameElems(s, t, alike)
  BY <1>3
<1>7. QED
  BY <1>1, <1>2, <1>4, <1>5, <1>6, ZenonT(60) DEF SS!SeqCompare, SameElems
-----------------------------------------------------------------------------
(* Vec and Arr: the calls on two objects, and every call.                  *)

(* A call that leaves an object as it was.                                 *)
LEMMA NothingMakes ==
  ASSUME NEW kind, NEW d, NEW m, IsMemory(m), StructOK(kind, d, m)
  PROVE  Makes(kind, d, m, Result(OK, d, m), ToSpan(d, m))
  BY NothingTurns DEF Makes, Result

(* Calls on vecs that leave all vecs as they are.                          *)
LEMMA StillGoes ==
  ASSUME IInv, VecFrame, UNCHANGED <<vec, mem>>
  PROVE  IInv' /\ Structs' = Structs
<1>1. Typed'
  BY DEF IInv, Typed, VecAlive, VecFrame
<1>2. Structs' = Structs /\ Roles' = Roles
  BY DEF Structs, StructOf, Roles, VecFrame
<1>3. QED
  BY <1>1, <1>2 DEF IInv, Books, VecFrame

(* An object assigned to itself.                                           *)
LEMMA SelfIsSeen ==
  ASSUME Books, prog' = prog, NEW kind \in {"vec", "arr"}, Uses(kind), NEW g \in Handles,
         StructOf(kind, g) # Null, SeqCall(kind, g, ToSpan(StructOf(kind, g), mem))
  PROVE  SS!SeqCopyAssign(g, g) /\ SS!SeqMoveAssign(g, g)
<1>1. SS!SeqHousekeeping(g)
  BY HousekeepingIsSeen
<1>2. QED
  BY <1>1 DEF SeqCall, SS!SeqCopyAssign, SS!SeqMoveAssign, SS!SeqHousekeeping

(* One object assigned to another.                                         *)
LEMMA CopyIsSeen ==
  ASSUME Books, prog' = prog, NEW kind \in {"vec", "arr"}, Uses(kind), NEW h \in Handles, NEW g \in Handles,
         StructOf(kind, h) # Null, SeqCall(kind, g, ToSpan(StructOf(kind, h), mem))
  PROVE  SS!SeqCopyAssign(h, g)
<1>1. SS!Alive(h) /\ Seqs[h] = [al |-> StructOf(kind, h).al, elems |-> ToSpan(StructOf(kind, h), mem)]
  BY LiveIsSeen
<1>2. Seqs[h].elems = ToSpan(StructOf(kind, h), mem)
  BY <1>1
<1>3. QED
  BY <1>1, <1>2 DEF SeqCall, SS!SeqCopyAssign

(* copy_assign.                                                            *)
LEMMA CopyAssignGoes ==
  ASSUME IInv, VecFrame, NEW h \in Handles, NEW g \in Handles, NEW room, CopyAssign(h, g, room)
  PROVE  Goes("vec")
<1>1. VecAlive(h) /\ VecAlive(g)
  BY DEF CopyAssign
<1>2. StructOK("vec", vec[h], mem) /\ IsMemory(mem) /\ Books /\ StructOf("vec", h) = vec[h] /\ vec[h] # Null
  BY <1>1, VecIsOK
<1>3. StructOK("vec", vec[g], mem) /\ Typed
  BY <1>1, VecIsOK
<1>4. CASE h = g /\ Nothing
  <2>1. Commit(h, Result(OK, vec[h], mem))
    BY <1>3, <1>4 DEF Nothing, Commit, Result, Typed
  <2>2. IInv' /\ (Uses("vec") => SeqCall("vec", h, ToSpan(vec[h], mem)))
    BY <1>1, <1>2, <2>1, NothingMakes, MadeIsAnswered, VecCall
  <2>3. Uses("vec") => SS!SeqCopyAssign(h, h)
    BY <1>2, <2>2, SelfIsSeen DEF VecFrame
  <2>4. Uses("vec") => SS!SeqNext
    BY <2>3 DEF SS!SeqNext
  <2>5. QED
    BY <2>2, <2>4 DEF Goes
<1>5. CASE h # g /\ Commit(g, CopyAssigned(vec[h], vec[g], mem, room))
  <2>1. Answers("vec", vec[g], mem, CopyAssigned(vec[h], vec[g], mem, room), ToSpan(vec[h], mem))
    BY <1>2, <1>3, CopyAssignMakes
  <2>2. IInv' /\ (Uses("vec") => SeqCall("vec", g, ToSpan(vec[h], mem)))
    BY <1>1, <1>5, <2>1, VecCall
  <2>3. Uses("vec") => SS!SeqCopyAssign(h, g)
    BY <1>2, <2>2, CopyIsSeen DEF VecFrame
  <2>4. Uses("vec") => SS!SeqNext
    BY <2>3 DEF SS!SeqNext
  <2>5. QED
    BY <2>2, <2>4 DEF Goes
<1>6. QED
  BY <1>4, <1>5 DEF CopyAssign

(* The vecs behind two handles have the same kind of owner, or none.       *)
Alike(h, g) == RolesAt("vec", h, stk, Queues) = RolesAt("vec", g, stk, Queues)

(* move_assign.                                                            *)
LEMMA MoveAssignGoes ==
  ASSUME IInv, VecFrame, NEW h \in Handles, NEW g \in Handles, Alike(h, g), NEW hdr, NEW room,
         MoveAssign(h, g, hdr, room)
  PROVE  Goes("vec")
<1>1. VecAlive(h) /\ VecAlive(g)
  BY DEF MoveAssign
<1>2. StructOK("vec", vec[h], mem) /\ IsMemory(mem) /\ Books /\ StructOf("vec", h) = vec[h] /\ vec[h] # Null
  BY <1>1, VecIsOK
<1>3. StructOK("vec", vec[g], mem) /\ Typed /\ StructOf("vec", g) = vec[g] /\ vec[g] # Null /\ prog \in Programs
  BY <1>1, VecIsOK DEF IInv
<1>4. CASE h = g /\ Nothing
  <2>1. Commit(h, Result(OK, vec[h], mem))
    BY <1>3, <1>4 DEF Nothing, Commit, Result, Typed
  <2>2. IInv' /\ (Uses("vec") => SeqCall("vec", h, ToSpan(vec[h], mem)))
    BY <1>1, <1>2, <2>1, NothingMakes, MadeIsAnswered, VecCall
  <2>3. Uses("vec") => SS!SeqMoveAssign(h, h)
    BY <1>2, <2>2, SelfIsSeen DEF VecFrame
  <2>4. Uses("vec") => SS!SeqNext
    BY <2>3 DEF SS!SeqNext
  <2>5. QED
    BY <2>2, <2>4 DEF Goes
<1>5. ASSUME h # g, NEW r, r = MoveAssigned(vec[h], vec[g], mem, hdr, room),
             vec' = [vec EXCEPT ![h] = r.d, ![g] = r.e], mem' = r.m, status' = r.st
      PROVE  Goes("vec")
  <2>1. Moves("vec", vec[h], vec[g], mem, r)
    BY <1>2, <1>3, <1>5, MovesAreMoves
  <2>2. PutsBoth("vec", h, r.d, g, r.e) /\ (r.d # Null /\ r.e # Null => Typed')
    BY <1>3, <1>5, VecPutsBoth
  <2>3. Books' /\ r.d # Null /\ r.e # Null /\ MoveSeen("vec", h, g)
    BY <1>2, <1>3, <1>5, <2>1, <2>2, BothMove DEF Alike
  <2>4. Uses("vec") => SS!SeqMoveAssign(h, g)
    BY <1>2, <1>3, <1>5, <2>3, MoveIsSeen DEF VecFrame
  <2>5. Uses("vec") => SS!SeqNext
    BY <2>4 DEF SS!SeqNext
  <2>6. QED
    BY <1>3, <2>2, <2>3, <2>5 DEF Goes, IInv, VecFrame
<1>6. QED
  BY <1>4, <1>5 DEF MoveAssign

(* swap.                                                                   *)
LEMMA SwapGoes ==
  ASSUME IInv, VecFrame, NEW h \in Handles, NEW g \in Handles, Alike(h, g), Swap(h, g)
  PROVE  Goes("vec")
<1>1. /\ VecAlive(h) /\ VecAlive(g) /\ vec[h].al = vec[g].al
      /\ vec' = [vec EXCEPT ![h] = vec[g], ![g] = vec[h]] /\ status' = OK /\ mem' = mem
  BY DEF Swap
<1>2. Books /\ StructOf("vec", h) = vec[h] /\ vec[h] # Null /\ prog \in Programs
  BY <1>1, VecIsOK DEF IInv
<1>3. Typed /\ StructOf("vec", g) = vec[g] /\ vec[g] # Null
  BY <1>1, VecIsOK
<1>4. PutsBoth("vec", h, vec[g], g, vec[h]) /\ Typed'
  BY <1>1, <1>2, <1>3, VecPutsBoth
<1>5. Books' /\ (Uses("vec") => SS!SeqSwap(h, g))
  BY <1>1, <1>2, <1>3, <1>4, BothSwap DEF Alike, VecFrame
<1>6. Uses("vec") => SS!SeqNext
  BY <1>5 DEF SS!SeqNext
<1>7. QED
  BY <1>2, <1>4, <1>5, <1>6 DEF Goes, IInv, VecFrame

(* eq and eq_by.                                                           *)
LEMMA CompareGoes ==
  ASSUME IInv, VecFrame, NEW h \in Handles, NEW g \in Handles, NEW alike \in {{}, Vals \cup {Zero}},
         Compare(h, g, alike)
  PROVE  Goes("vec")
<1>1. /\ VecAlive(h) /\ VecAlive(g) /\ UNCHANGED <<vec, mem>>
      /\ status' = SameElems(ToSpan(vec[h], mem), ToSpan(vec[g], mem), alike)
  BY DEF Compare
<1>2. Books /\ StructOf("vec", h) = vec[h] /\ vec[h] # Null
  BY <1>1, VecIsOK
<1>3. StructOf("vec", g) = vec[g] /\ vec[g] # Null
  BY <1>1, VecIsOK
<1>4. IInv' /\ Structs' = Structs
  BY <1>1, StillGoes
<1>5. Uses("vec") => SS!SeqCompare(h, g, alike)
  BY <1>1, <1>2, <1>3, <1>4, BothCompare DEF VecFrame
<1>6. alike \in {{}, SS!Elems}
  BY DEF SS!Elems
<1>7. Uses("vec") => SS!SeqNext
  BY <1>5, <1>6 DEF SS!SeqNext
<1>8. QED
  BY <1>4, <1>7 DEF Goes

(* Every call on two vecs.                                                 *)
LEMMA PairStepGoes ==
  ASSUME IInv, VecFrame, NEW h \in Handles, NEW g \in Handles, Alike(h, g), NEW hdr, NEW room,
         PairStep(h, g, hdr, room)
  PROVE  Goes("vec")
  BY CopyAssignGoes, MoveAssignGoes, SwapGoes, CompareGoes DEF PairStep

(* Every call of a program on the vecs that have no owner.                 *)
LEMMA VecStepGoes ==
  ASSUME IInv, UNCHANGED <<arr, stk, order, prog>>, VecStep(prog.uses \cap Loose, prog.rooms, prog.places)
  PROVE  Goes("vec")
<1>1. VecFrame
  BY DEF VecFrame, Queues, IsQueue, IInv, Typed
<1>2. \A h \in Loose : h \in Handles /\ RolesAt("vec", h, stk, Queues) = {"vec"}
  BY DEF Loose, RolesAt, Queues
<1>3. PICK h \in Loose :
        \/ Drop(h)
        \/ \E room : ElemStep(h, room, prog.places)
        \/ \E room, hdr : BirthStep(h, hdr, room)
        \/ \E room, hdr : \E g \in Loose : PairStep(h, g, hdr, room)
  BY DEF VecStep
<1>4. CASE Drop(h)
  BY <1>1, <1>4, DropGoes
<1>5. ASSUME NEW room, ElemStep(h, room, prog.places)
      PROVE  Goes("vec")
  BY <1>1, <1>2, <1>5, ElemStepGoes
<1>6. ASSUME NEW room, NEW hdr, BirthStep(h, hdr, room)
      PROVE  Goes("vec")
  BY <1>1, <1>2, <1>6, BirthStepGoes
<1>7. ASSUME NEW room, NEW hdr, NEW g \in Loose, PairStep(h, g, hdr, room)
      PROVE  Goes("vec")
  BY <1>1, <1>2, <1>7, PairStepGoes DEF Alike
<1>8. QED
  BY <1>3, <1>4, <1>5, <1>6, <1>7
(* The same calls of arrs.                                                 *)
LEMMA ArrCopyAssignGoes ==
  ASSUME IInv, ArrFrame, NEW h \in Handles, NEW g \in Handles, NEW room, ArrCopyAssign(h, g, room)
  PROVE  Goes("arr")
<1>1. /\ ArrAlive(h) /\ ArrAlive(g)
      /\ CommitArr(g, IF h = g THEN Result(OK, arr[g], mem) ELSE ArrCopyAssigned(arr[h], arr[g], mem, room))
  BY DEF ArrCopyAssign
<1>2. StructOK("arr", arr[h], mem) /\ IsMemory(mem) /\ Books /\ StructOf("arr", h) = arr[h] /\ arr[h] # Null
  BY <1>1, ArrIsOK
<1>3. StructOK("arr", arr[g], mem)
  BY <1>1, ArrIsOK
<1>4. CASE h = g
  <2>1. IInv' /\ (Uses("arr") => SeqCall("arr", h, ToSpan(arr[h], mem)))
    BY <1>1, <1>2, <1>4, NothingMakes, MadeIsAnswered, ArrCall
  <2>2. Uses("arr") => SS!SeqCopyAssign(h, h)
    BY <1>2, <2>1, SelfIsSeen DEF ArrFrame
  <2>3. Uses("arr") => SS!SeqNext
    BY <2>2 DEF SS!SeqNext
  <2>4. QED
    BY <2>1, <2>3 DEF Goes
<1>5. CASE h # g
  <2>1. Answers("arr", arr[g], mem, ArrCopyAssigned(arr[h], arr[g], mem, room), ToSpan(arr[h], mem))
    BY <1>2, <1>3, ArrCopyAssignMakes
  <2>2. IInv' /\ (Uses("arr") => SeqCall("arr", g, ToSpan(arr[h], mem)))
    BY <1>1, <1>5, <2>1, ArrCall
  <2>3. Uses("arr") => SS!SeqCopyAssign(h, g)
    BY <1>2, <2>2, CopyIsSeen DEF ArrFrame
  <2>4. Uses("arr") => SS!SeqNext
    BY <2>3 DEF SS!SeqNext
  <2>5. QED
    BY <2>2, <2>4 DEF Goes
<1>6. QED
  BY <1>4, <1>5

(* move_assign of arrs.                                                    *)
LEMMA ArrMoveAssignGoes ==
  ASSUME IInv, ArrFrame, NEW h \in Handles, NEW g \in Handles, NEW hdr, NEW room,
         ArrMoveAssign(h, g, hdr, room)
  PROVE  Goes("arr")
<1>1. ArrAlive(h) /\ ArrAlive(g)
  BY DEF ArrMoveAssign
<1>2. StructOK("arr", arr[h], mem) /\ IsMemory(mem) /\ Books /\ StructOf("arr", h) = arr[h] /\ arr[h] # Null
  BY <1>1, ArrIsOK
<1>3. StructOK("arr", arr[g], mem) /\ Typed /\ StructOf("arr", g) = arr[g] /\ arr[g] # Null /\ prog \in Programs
  BY <1>1, ArrIsOK DEF IInv
<1>4. CASE h = g
  <2>1. CommitArr(h, Result(OK, arr[h], mem))
    BY <1>3, <1>4 DEF ArrMoveAssign, CommitArr, Result, Typed
  <2>2. IInv' /\ (Uses("arr") => SeqCall("arr", h, ToSpan(arr[h], mem)))
    BY <1>1, <1>2, <2>1, NothingMakes, MadeIsAnswered, ArrCall
  <2>3. Uses("arr") => SS!SeqMoveAssign(h, h)
    BY <1>2, <2>2, SelfIsSeen DEF ArrFrame
  <2>4. Uses("arr") => SS!SeqNext
    BY <1>4, <2>3 DEF SS!SeqNext
  <2>5. QED
    BY <2>2, <2>4 DEF Goes
<1>5. ASSUME h # g, NEW r, r = ArrMoveAssigned(arr[h], arr[g], mem, hdr, room),
             arr' = [arr EXCEPT ![h] = r.d, ![g] = r.e], mem' = r.m, status' = r.st
      PROVE  Goes("arr")
  <2>1. Moves("arr", arr[h], arr[g], mem, r)
    BY <1>2, <1>3, <1>5, MovesAreMoves
  <2>2. PutsBoth("arr", h, r.d, g, r.e) /\ Typed'
    BY <1>3, <1>5, ArrPutsBoth
  <2>3. RolesAt("arr", h, stk, Queues) = RolesAt("arr", g, stk, Queues)
    BY DEF RolesAt
  <2>4. Books' /\ MoveSeen("arr", h, g)
    BY <1>2, <1>3, <1>5, <2>1, <2>2, <2>3, BothMove
  <2>5. Uses("arr") => SS!SeqMoveAssign(h, g)
    BY <1>2, <1>3, <1>5, <2>4, MoveIsSeen DEF ArrFrame
  <2>6. Uses("arr") => SS!SeqNext
    BY <2>5 DEF SS!SeqNext
  <2>7. QED
    BY <1>3, <2>2, <2>4, <2>6 DEF Goes, IInv, ArrFrame
<1>6. QED
  BY <1>4, <1>5 DEF ArrMoveAssign

(* swap of arrs.                                                           *)
LEMMA ArrSwapGoes ==
  ASSUME IInv, ArrFrame, NEW h \in Handles, NEW g \in Handles, ArrSwap(h, g)
  PROVE  Goes("arr")
<1>1. /\ ArrAlive(h) /\ ArrAlive(g) /\ arr[h].al = arr[g].al
      /\ arr' = [arr EXCEPT ![h] = arr[g], ![g] = arr[h]] /\ status' = OK /\ mem' = mem
  BY DEF ArrSwap
<1>2. Books /\ StructOf("arr", h) = arr[h] /\ arr[h] # Null /\ prog \in Programs
  BY <1>1, ArrIsOK DEF IInv
<1>3. Typed /\ StructOf("arr", g) = arr[g] /\ arr[g] # Null
  BY <1>1, ArrIsOK
<1>4. PutsBoth("arr", h, arr[g], g, arr[h]) /\ Typed'
  BY <1>1, <1>3, ArrPutsBoth
<1>5. RolesAt("arr", h, stk, Queues) = RolesAt("arr", g, stk, Queues)
  BY DEF RolesAt
<1>6. Books' /\ (Uses("arr") => SS!SeqSwap(h, g))
  BY <1>1, <1>2, <1>3, <1>4, <1>5, BothSwap DEF ArrFrame
<1>7. Uses("arr") => SS!SeqNext
  BY <1>6 DEF SS!SeqNext
<1>8. QED
  BY <1>2, <1>4, <1>6, <1>7 DEF Goes, IInv, ArrFrame

(* eq and eq_by of arrs.                                                   *)
LEMMA ArrCompareGoes ==
  ASSUME IInv, ArrFrame, NEW h \in Handles, NEW g \in Handles, NEW alike \in {{}, Vals \cup {Zero}},
         ArrCompare(h, g, alike)
  PROVE  Goes("arr")
<1>1. /\ ArrAlive(h) /\ ArrAlive(g) /\ UNCHANGED <<arr, mem>>
      /\ status' = SameElems(ToSpan(arr[h], mem), ToSpan(arr[g], mem), alike)
  BY DEF ArrCompare
<1>2. Books /\ Typed /\ StructOf("arr", h) = arr[h] /\ arr[h] # Null
  BY <1>1, ArrIsOK
<1>3. StructOf("arr", g) = arr[g] /\ arr[g] # Null
  BY <1>1, ArrIsOK
<1>4. IInv' /\ Structs' = Structs
  BY <1>1, <1>2, StillGoes DEF VecFrame, ArrFrame, Queues, IsQueue, Typed
<1>5. Uses("arr") => SS!SeqCompare(h, g, alike)
  BY <1>1, <1>2, <1>3, <1>4, BothCompare DEF ArrFrame
<1>6. alike \in {{}, SS!Elems}
  BY DEF SS!Elems
<1>7. Uses("arr") => SS!SeqNext
  BY <1>5, <1>6 DEF SS!SeqNext
<1>8. QED
  BY <1>4, <1>7 DEF Goes

(* Every call of a program on arrs.                                        *)
LEMMA ArrStepGoes ==
  ASSUME IInv, UNCHANGED <<vec, stk, order, prog>>, ArrStep(prog.uses, prog.rooms)
  PROVE  Goes("arr")
<1>1. ArrFrame /\ prog.uses \subseteq Handles
  BY ContainersAssumption DEF ArrFrame, IInv
<1>2. PICK h \in Handles :
        \/ ArrDrop(h)
        \/ /\ ArrAlive(h)
           /\ \E i \in 0 .. arr[h].len - 1 :
                \/ \E v \in Vals : ArrElemStep(h, i, v)
                \/ \E j \in 0 .. arr[h].len - 1 : ArrSwapElems(h, i, j)
        \/ \E g \in Handles : ArrSwap(h, g) \/ \E alike \in {{}, Vals \cup {Zero}} : ArrCompare(h, g, alike)
        \/ \E room, hdr : ArrBirthStep(h, hdr, room)
        \/ \E room, hdr : \E g \in Handles : ArrCopyAssign(h, g, room) \/ ArrMoveAssign(h, g, hdr, room)
  BY <1>1 DEF ArrStep
<1>3. CASE ArrDrop(h)
  BY <1>1, <1>3, ArrDropGoes
<1>4. ASSUME ArrAlive(h), NEW i \in 0 .. arr[h].len - 1, NEW v \in Vals, ArrElemStep(h, i, v)
      PROVE  Goes("arr")
  BY <1>1, <1>4, ArrSetGoes
<1>5. ASSUME ArrAlive(h), NEW i \in 0 .. arr[h].len - 1, NEW j \in 0 .. arr[h].len - 1, ArrSwapElems(h, i, j)
      PROVE  Goes("arr")
  BY <1>1, <1>5, ArrSwapElemsGoes
<1>6. ASSUME NEW g \in Handles, ArrSwap(h, g) \/ \E alike \in {{}, Vals \cup {Zero}} : ArrCompare(h, g, alike)
      PROVE  Goes("arr")
  BY <1>1, <1>6, ArrSwapGoes, ArrCompareGoes
<1>7. ASSUME NEW room, NEW hdr, ArrBirthStep(h, hdr, room)
      PROVE  Goes("arr")
  BY <1>1, <1>7, ArrBirthStepGoes
<1>8. ASSUME NEW room, NEW hdr, NEW g \in Handles, ArrCopyAssign(h, g, room) \/ ArrMoveAssign(h, g, hdr, room)
      PROVE  Goes("arr")
  BY <1>1, <1>8, ArrCopyAssignGoes, ArrMoveAssignGoes
<1>9. QED
  BY <1>2, <1>3, <1>4, <1>5, <1>6, <1>7, <1>8
-----------------------------------------------------------------------------
(* Stack and PQueue: every call.                                           *)

(* The drop and into_vec of a stack.                                       *)
LEMMA StackEndGoes ==
  ASSUME IInv, UNCHANGED <<arr, order, prog>>, NEW h \in Handles, ~IsQueue(h), StackDrop(h) \/ IntoVec(h)
  PROVE  Goes("vec")
<1>1. OwnerGoes("stack", h)
  BY DEF OwnerGoes, StackDrop, IntoVec, Queues, IsQueue, IInv, Typed
<1>2. CASE StackDrop(h)
  BY <1>1, <1>2, OwnerDropGoes DEF StackDrop
<1>3. CASE IntoVec(h)
  BY <1>1, <1>3, IntoVecGoes DEF IntoVec
<1>4. QED
  BY <1>2, <1>3

(* The calls a stack forwards.                                             *)
LEMMA StackForwardsGoes ==
  ASSUME IInv, UNCHANGED <<arr, order, prog>>, NEW h \in Handles, NEW room, StackForwards(h, room)
  PROVE  Goes("vec")
<1>1. VecFrame /\ VecAlive(h)
  BY DEF VecFrame, StackForwards, Queues, IsQueue, IInv, Typed
<1>2. ASSUME NEW v \in Vals, vec[h].len > 0, SetElem(h, vec[h].len - 1, v)
      PROVE  Goes("vec")
  <2>1. vec[h].len \in Nat
    BY <1>1, VecIsOK, StructFacts
  <2>2. vec[h].len - 1 \in 0 .. vec[h].len - 1
    BY <1>2, <2>1
  <2>3. QED
    BY <1>1, <1>2, <2>2, SetGoes
<1>3. QED
  BY <1>1, <1>2, PushGoes, PopGoes, ClearGoes, RoomGoes DEF StackForwards

(* Every call of a program on stacks, and on the vecs that leave them.     *)
LEMMA StackStepGoes ==
  ASSUME IInv, UNCHANGED <<arr, order, prog>>, StackStep({h \in prog.uses : ~IsQueue(h)}, prog.rooms)
  PROVE  Goes("vec")
<1>1. prog.uses \subseteq Handles /\ Queues' = Queues
  BY ContainersAssumption DEF IInv, Queues, IsQueue
<1>2. PICK h \in Handles : ~IsQueue(h) /\
        ( \/ StackDrop(h) \/ IntoVec(h)
          \/ h \notin stk /\ Drop(h) /\ UNCHANGED stk
          \/ \E room : StackForwards(h, room)
          \/ \E room, hdr : StackBirthStep(h, hdr, room)
          \/ \E room, hdr : \E g \in Handles : ~IsQueue(g) /\ StackPairStep(h, g, hdr, room))
  BY <1>1 DEF StackStep
<1>3. CASE StackDrop(h) \/ IntoVec(h)
  BY <1>2, <1>3, StackEndGoes
<1>4. CASE h \notin stk /\ Drop(h) /\ UNCHANGED stk
  <2>1. VecFrame /\ h \in Loose
    BY <1>1, <1>2, <1>4 DEF VecFrame, Loose, IInv, Typed
  <2>2. QED
    BY <1>4, <2>1, DropGoes
<1>5. ASSUME NEW room, StackForwards(h, room)
      PROVE  Goes("vec")
  BY <1>5, StackForwardsGoes
<1>6. ASSUME NEW room, NEW hdr, StackBirthStep(h, hdr, room)
      PROVE  Goes("vec")
  BY <1>6, StackBirthStepGoes
<1>7. ASSUME NEW room, NEW hdr, NEW g \in Handles, ~IsQueue(g), StackPairStep(h, g, hdr, room)
      PROVE  Goes("vec")
  <2>1. VecFrame /\ PairStep(h, g, hdr, room) /\ h \in stk /\ g \in stk
    BY <1>1, <1>7 DEF VecFrame, IInv, Typed, StackPairStep
  <2>2. Alike(h, g)
    BY <1>2, <1>7, <2>1 DEF Alike, RolesAt, Queues
  <2>3. QED
    BY <2>1, <2>2, PairStepGoes
<1>8. QED
  BY <1>2, <1>3, <1>4, <1>5, <1>6, <1>7

(* The drop and into_vec of a queue.                                       *)
LEMMA PQEndKeeps ==
  ASSUME IInv, UNCHANGED <<arr, stk, prog>>, NEW h \in Handles, h \notin stk, PQDrop(h) \/ PQIntoVec(h)
  PROVE  IInv'
<1>1. IsQueue(h) /\ order' = [order EXCEPT ![h] = Null] /\ order = [g \in Handles |-> order[g]]
  BY DEF PQDrop, PQIntoVec, IInv, Typed
<1>2. order' = [g \in Handles |-> IF g = h THEN Null ELSE order[g]]
  BY <1>1
<1>3. OwnerGoes("pqueue", h)
  <2>1. order' = [g \in Handles |-> order'[g]]
    BY <1>2
  <2>2. Queues' = Queues \ {h} /\ h \in Queues
    BY <1>1, <1>2 DEF Queues, IsQueue
  <2>3. QED
    BY <2>1, <2>2 DEF OwnerGoes
<1>4. CASE PQDrop(h)
  BY <1>3, <1>4, OwnerDropGoes DEF PQDrop, Goes
<1>5. CASE PQIntoVec(h)
  BY <1>3, <1>5, IntoVecGoes DEF PQIntoVec, Goes
<1>6. QED
  BY <1>4, <1>5

(* The calls that keep a queue and its order.                              *)
LEMMA PQCallKeeps ==
  ASSUME IInv, UNCHANGED <<arr, stk, prog>>, NEW h \in Handles, NEW room,
         PQPop(h) \/ PQForwards(h, room) \/ \E v \in Vals : PQPush(h, v, room)
  PROVE  IInv'
<1>1. VecFrame /\ VecAlive(h)
  BY DEF VecFrame, PQPop, PQForwards, PQPush, Queues, IsQueue, IInv, Typed
<1>2. StructOK("vec", vec[h], mem) /\ IsMemory(mem)
  BY <1>1, VecIsOK
<1>3. CASE PQPop(h)
  <2>1. PICK r : r = Popped(vec[h], SetCells(vec[h], mem, PopHeap(CellsOf(vec[h], mem), vec[h].len, order[h])))
                 /\ vec[h].len > 0 /\ Commit(h, r)
    BY <1>3 DEF PQPop
  <2>2. \E s : Answers("vec", vec[h], mem, r, s)
    BY <1>2, <2>1, HeapPopMakes
  <2>3. QED
    BY <1>1, <2>1, <2>2, VecCall
<1>4. ASSUME NEW v \in Vals, PQPush(h, v, room)
      PROVE  IInv'
  <2>1. PICK r, p : /\ p = Pushed(vec[h], mem, v, room)
                    /\ r = Rearranged(p, PushHeap(CellsOf(p.d, p.m), p.d.len, order[h]))
                    /\ Commit(h, r)
    BY <1>4 DEF PQPush
  <2>2. \E s : Answers("vec", vec[h], mem, r, s)
    BY <1>2, <2>1, HeapPushMakes, ValsAreCells
  <2>3. QED
    BY <1>1, <2>1, <2>2, VecCall
<1>5. CASE PQForwards(h, room)
  BY <1>1, <1>5, ClearGoes, RoomGoes DEF PQForwards, Goes
<1>6. QED
  BY <1>3, <1>4, <1>5

(* The calls on two queues, whose orders go along.                         *)
LEMMA PQPairKeeps ==
  ASSUME IInv, UNCHANGED <<arr, stk, prog>>, NEW h \in Handles \ stk, NEW g \in Handles \ stk, NEW hdr, NEW room,
         PQAssign(h, g, hdr, room) \/ PQSwap(h, g)
  PROVE  IInv'
<1>1. order[h] # Null /\ order[g] # Null /\ order = [f \in Handles |-> order[f]]
  BY DEF PQAssign, PQSwap, IsQueue, IInv, Typed
<1>2. PICK x, y : /\ x # Null /\ y # Null
                  /\ order' = [f \in Handles |-> IF f = g THEN y ELSE IF f = h THEN x ELSE order[f]]
  <2>1. CASE PQSwap(h, g)
    <3>1. order' = [f \in Handles |-> IF f = g THEN order[h] ELSE IF f = h THEN order[g] ELSE order[f]]
      BY <1>1, <2>1 DEF PQSwap
    <3>2. QED
      BY <1>1, <3>1
  <2>2. CASE PQAssign(h, g, hdr, room) /\ status' = OK
    <3>1. order' = [f \in Handles |-> IF f = g THEN order[h] ELSE IF f = h THEN order[h] ELSE order[f]]
      BY <1>1, <2>2 DEF PQAssign, AssignedOrder
    <3>2. QED
      BY <1>1, <3>1
  <2>3. CASE PQAssign(h, g, hdr, room) /\ status' # OK
    <3>1. order' = [f \in Handles |-> IF f = g THEN order[g] ELSE IF f = h THEN order[h] ELSE order[f]]
      BY <1>1, <2>3 DEF PQAssign
    <3>2. QED
      BY <1>1, <3>1
  <2>4. QED
    BY <2>1, <2>2, <2>3
<1>3. Queues' = Queues
  BY <1>1, <1>2 DEF Queues, IsQueue
<1>4. VecFrame
  BY <1>2, <1>3 DEF VecFrame
<1>5. Alike(h, g)
  BY <1>1 DEF Alike, RolesAt, Queues, IsQueue
<1>6. QED
  BY <1>4, <1>5, CopyAssignGoes, MoveAssignGoes, SwapGoes DEF PQAssign, PQSwap, Goes

(* Every call of a program on queues, and on the vecs that leave them.     *)
LEMMA PQStepKeeps ==
  ASSUME IInv, UNCHANGED <<arr, stk, prog>>, PQStep(prog.uses \ stk, prog.rooms)
  PROVE  IInv'
<1>1. prog.uses \subseteq Handles
  BY ContainersAssumption DEF IInv
<1>2. PICK h \in Handles \ stk :
        \/ PQDrop(h) \/ PQIntoVec(h) \/ PQPop(h)
        \/ ~IsQueue(h) /\ Drop(h) /\ UNCHANGED order
        \/ \E g \in Handles \ stk : PQSwap(h, g)
        \/ \E room : PQForwards(h, room) \/ \E v \in Vals : PQPush(h, v, room)
        \/ \E room, hdr : PQBirthStep(h, hdr, room)
        \/ \E room, hdr : \E g \in Handles \ stk : PQAssign(h, g, hdr, room)
  BY <1>1 DEF PQStep
<1>3. CASE PQDrop(h) \/ PQIntoVec(h)
  BY <1>3, PQEndKeeps
<1>4. CASE PQPop(h)
  BY <1>4, PQCallKeeps
<1>5. CASE ~IsQueue(h) /\ Drop(h) /\ UNCHANGED order
  <2>1. VecFrame /\ h \in Loose
    BY <1>5 DEF VecFrame, Loose, IInv, Typed, Queues, IsQueue
  <2>2. QED
    BY <1>5, <2>1, DropGoes DEF Goes
<1>6. ASSUME NEW g \in Handles \ stk, PQSwap(h, g)
      PROVE  IInv'
  BY <1>6, PQPairKeeps
<1>7. ASSUME NEW room, PQForwards(h, room) \/ \E v \in Vals : PQPush(h, v, room)
      PROVE  IInv'
  BY <1>7, PQCallKeeps
<1>8. ASSUME NEW room, NEW hdr, PQBirthStep(h, hdr, room)
      PROVE  IInv'
  BY <1>8, PQBirthStepKeeps
<1>9. ASSUME NEW room, NEW hdr, NEW g \in Handles \ stk, PQAssign(h, g, hdr, room)
      PROVE  IInv'
  BY <1>9, PQPairKeeps
<1>10. QED
  BY <1>2, <1>3, <1>4, <1>5, <1>6, <1>7, <1>8, <1>9
-----------------------------------------------------------------------------
(* The theorems.                                                           *)

(* What holds at the start.                                                *)
LEMMA InitIsSound == Init => IInv
<1>1. SUFFICES ASSUME Init
               PROVE  IInv
  OBVIOUS
<1>2. /\ vec = [h \in Handles |-> Null] /\ arr = [h \in Handles |-> Null] /\ order = [h \in Handles |-> Null]
      /\ stk = {} /\ mem = Empty /\ prog \in Programs
  BY <1>1 DEF Init, VecInit
<1>3. Queues = {}
  BY <1>2 DEF Queues, IsQueue
<1>4. Typed
  BY <1>2, <1>3 DEF Typed
<1>5. \A o \in Owners : Structs[o] = Null
  BY <1>2 DEF Structs, StructOf, Owners
<1>6. IsMemory(mem)
  BY <1>2 DEF IsMemory, Empty
<1>7. \A o \in Owners : Roles[o] \subseteq RolesIn(o[1])
  BY DEF Roles, RolesAt, RolesIn
<1>8. Apart(Structs)
  BY <1>5 DEF Apart, Blk
<1>9. Owned(Structs, mem)
  BY <1>2 DEF Owned, Empty
<1>10. Counted(Structs, Roles, mem)
  <2>1. SUFFICES ASSUME NEW a \in Als, NEW k \in ObjectKinds
                 PROVE  /\ IsFiniteSet(Living(Structs, Roles, k, a))
                        /\ Hdrs(mem, a, k) = Cardinality(Living(Structs, Roles, k, a))
    BY DEF Counted
  <2>2. \A h \in Handles : <<Slot(k), h>> \in Owners
    BY DEF Slot, Owners
  <2>3. Living(Structs, Roles, k, a) = {}
    BY <1>5, <2>2 DEF Living, Owes
  <2>4. k \in Kinds
    BY ContainersAssumption
  <2>5. Hdrs(mem, a, k) = 0
    BY <1>2, <2>4 DEF Hdrs, Empty
  <2>6. QED
    BY <2>3, <2>5, FS_EmptySet
<1>11. Books
  BY <1>5, <1>6, <1>7, <1>8, <1>9, <1>10 DEF Books, Sound
<1>12. QED
  BY <1>2, <1>4, <1>11 DEF IInv

(* A program of sequences only makes calls on those, and each is one of    *)
(* SeqStore's; any other program shows SeqStore nothing.                   *)
LEMMA StepIsSound ==
  ASSUME IInv, Next
  PROVE  IInv' /\ (UsesVecs \/ UsesArrs => SS!SeqNext)
<1>1. CASE /\ "vec" \in prog.kinds /\ UNCHANGED <<arr, stk, order, prog>>
           /\ VecStep(prog.uses \cap Loose, prog.rooms, prog.places)
  <2>1. Goes("vec")
    BY <1>1, VecStepGoes
  <2>2. ~UsesArrs
    BY <1>1 DEF UsesArrs
  <2>3. QED
    BY <2>1, <2>2 DEF Goes, Uses
<1>2. CASE "arr" \in prog.kinds /\ UNCHANGED <<vec, stk, order, prog>> /\ ArrStep(prog.uses, prog.rooms)
  <2>1. Goes("arr")
    BY <1>2, ArrStepGoes
  <2>2. ~UsesVecs
    BY <1>2 DEF UsesVecs
  <2>3. QED
    BY <2>1, <2>2 DEF Goes, Uses
<1>3. CASE /\ "stack" \in prog.kinds /\ UNCHANGED <<arr, order, prog>>
           /\ StackStep({h \in prog.uses : ~IsQueue(h)}, prog.rooms)
  <2>1. Goes("vec")
    BY <1>3, StackStepGoes
  <2>2. ~UsesArrs
    BY <1>3 DEF UsesArrs
  <2>3. QED
    BY <2>1, <2>2 DEF Goes, Uses
<1>4. CASE "pqueue" \in prog.kinds /\ UNCHANGED <<arr, stk, prog>> /\ PQStep(prog.uses \ stk, prog.rooms)
  <2>1. IInv'
    BY <1>4, PQStepKeeps
  <2>2. ~UsesArrs /\ ~UsesVecs
    BY <1>4 DEF UsesArrs, UsesVecs
  <2>3. QED
    BY <2>1, <2>2
<1>5. QED
  BY <1>1, <1>2, <1>3, <1>4 DEF Next

(* A step that writes nothing.                                             *)
LEMMA StutterIsSound ==
  ASSUME IInv, UNCHANGED vars
  PROVE  IInv'
<1>1. VecFrame /\ vec' = vec /\ mem' = mem
  BY DEF vars, VecFrame, Queues, IsQueue, IInv, Typed
<1>2. QED
  BY <1>1, StillGoes

(* The structs of all objects are well formed, each over a block of its    *)
(* own, everything lent has its owner, every header is one of a live       *)
(* object, and stacks and queues have their vecs.                          *)
THEOREM AlwaysSound == Spec => []IInv
<1>1. Init => IInv
  BY InitIsSound
<1>2. IInv /\ [Next]_vars => IInv'
  BY StepIsSound, StutterIsSound
<1>3. QED
  BY <1>1, <1>2, PTL DEF Spec

(* What is counted as living are the objects of a kind.                    *)
LEMMA LivingAre ==
  ASSUME IInv, NEW a \in Als, NEW k \in ObjectKinds
  PROVE  Living(Structs, Roles, k, a) = {h \in AllOf(k) : StructOf(k, h).al = a}
<1>1. ASSUME NEW h \in Handles
      PROVE  /\ Structs[<<Slot(k), h>>] = StructOf(k, h)
             /\ Roles[<<Slot(k), h>>] = RolesAt(Slot(k), h, stk, Queues)
  BY OwnersAre DEF Slot, StructOf
<1>2. \A h \in Handles : h \in Living(Structs, Roles, k, a)
                         <=> StructOf(k, h) # Null /\ StructOf(k, h).al = a /\ k \in RolesAt(Slot(k), h, stk, Queues)
  BY <1>1 DEF Living, Owes
<1>3. AllOf(k) \subseteq Handles
  BY DEF AllOf, IInv, Typed, ObjectKinds
<1>4. \A h \in Handles : h \in AllOf(k) <=> StructOf(k, h) # Null /\ k \in RolesAt(Slot(k), h, stk, Queues)
  BY DEF AllOf, StructOf, RolesAt, Slot, ObjectKinds, VecAlive, ArrAlive, Queues, IInv, Typed
<1>5. Living(Structs, Roles, k, a) \subseteq Handles
  BY DEF Living
<1>6. QED
  BY <1>2, <1>3, <1>4, <1>5

(* The one owner of a block, or none.                                      *)
LEMMA HoldersAre ==
  ASSUME IInv, NEW b \in Blocks
  PROVE  /\ mem.lent[b] = Null => Holders(b) = {}
         /\ mem.lent[b] # Null => \E o : Holders(b) = {o}
<1>1. \A o \in Owners : o \in Holders(b) <=> Structs[o] # Null /\ Structs[o].data = b
  BY DEF Holders, Owners, Structs, StructOf, AllOf, VecAlive, ArrAlive
<1>2. Holders(b) \subseteq Owners
  BY DEF Holders, Owners
<1>3. b # Null
  BY MemoryAssumption
<1>4. \A o \in Owners : o \in Holders(b) <=> Blk(Structs[o]) = b
  BY <1>1, <1>3 DEF Blk
<1>5. ASSUME mem.lent[b] = Null, NEW o \in Owners, o \in Holders(b)
      PROVE  FALSE
  <2>1. StructOK(o[1], Structs[o], mem) /\ Structs[o].data = b
    BY <1>1, <1>5 DEF IInv, Books, Sound
  <2>2. QED
    BY <1>3, <1>5, <2>1, StructFacts
<1>6. ASSUME mem.lent[b] # Null
      PROVE  \E o : Holders(b) = {o}
  <2>1. PICK o \in Owners : Blk(Structs[o]) = b
    BY <1>6 DEF IInv, Books, Sound, Owned
  <2>2. \A p \in Owners : Blk(Structs[p]) = b => p = o
    BY <1>3, <2>1 DEF IInv, Books, Sound, Apart
  <2>3. Holders(b) = {o}
    BY <1>2, <1>4, <2>1, <2>2
  <2>4. QED
    BY <2>3
<1>7. QED
  BY <1>2, <1>5, <1>6

(* A claim on some cells is a block that is lent.                          *)
LEMMA ClaimIsLent ==
  ASSUME NEW m, NEW b, NEW a, NEW n, Claim(b, a, n, m), n # 0
  PROVE  IsLent(m, b, a, n, ElemSize)
<1>1. /\ b # Null /\ m.lent[b] # Null /\ m.lent[b].al = a /\ m.lent[b].bytes = n * ElemSize
      /\ m.lent[b].cells \in [0 .. n - 1 -> Cells]
  BY ClaimFacts
<1>2. DOMAIN m.lent[b].cells = 0 .. n - 1
  BY <1>1
<1>3. QED
  BY <1>1, <1>2 DEF IsLent

(* A well formed struct is sound.                                          *)
LEMMA StructIsSound ==
  ASSUME NEW m, NEW d
  PROVE  /\ StructOK("vec", d, m) => VecSound(d, m)
         /\ StructOK("arr", d, m) => ArrSound(d, m)
<1>1. ASSUME StructOK("vec", d, m)
      PROVE  VecSound(d, m)
  <2>1. /\ d.len <= d.cap /\ d.cap \in Nat /\ (d.data = Null <=> d.cap = 0)
        /\ Claim(d.data, d.al, d.cap, m)
    BY <1>1, StructFacts DEF RoomOf
  <2>2. QED
    BY <2>1, ClaimIsLent DEF VecSound
<1>2. ASSUME StructOK("arr", d, m)
      PROVE  ArrSound(d, m)
  <2>1. d.len \in Nat /\ (d.data = Null <=> d.len = 0) /\ Claim(d.data, d.al, d.len, m)
    BY <1>2, StructFacts DEF RoomOf
  <2>2. QED
    BY <2>1, ClaimIsLent DEF ArrSound
<1>3. QED
  BY <1>1, <1>2

(* Every block lent is the block of one live object, lent by its allocator *)
(* and at the size it goes back with, and every header is a live object's: *)
(* nothing leaks, nothing is shared and nothing goes back to the wrong     *)
(* place, whatever was called and whatever was refused.                    *)
THEOREM BooksAlwaysBalance == Spec => []BooksBalance
<1>1. ASSUME IInv
      PROVE  BooksBalance
  <2>1. \A h \in AllOf("vec") : VecSound(vec[h], mem)
    BY <1>1, VecIsOK, StructIsSound DEF AllOf
  <2>2. \A h \in AllOf("arr") : ArrSound(arr[h], mem)
    BY <1>1, ArrIsOK, StructIsSound DEF AllOf
  <2>3. \A b \in Blocks : Cardinality(Holders(b)) = IF mem.lent[b] = Null THEN 0 ELSE 1
    BY <1>1, HoldersAre, FS_EmptySet, FS_Singleton
  <2>4. ASSUME NEW a \in Als, NEW k \in ObjectKinds
        PROVE  mem.hdrs[<<a, k>>] = Cardinality({h \in AllOf(k) : StructOf(k, h).al = a})
    <3>1. Hdrs(mem, a, k) = Cardinality(Living(Structs, Roles, k, a))
      BY <1>1 DEF IInv, Books, Sound, Counted
    <3>2. QED
      BY <1>1, <3>1, LivingAre DEF Hdrs
  <2>5. QED
    BY <2>1, <2>2, <2>3, <2>4 DEF BooksBalance
<1>2. QED
  BY <1>1, AlwaysSound, PTL

(* Vecs, stacks and arrs implement SeqStore: each call leaves the contents *)
(* its header says, in the object it was made on and no other, or reports  *)
(* that memory was refused and leaves all of them as they were.            *)
THEOREM SequencesImplementSeqStore == Spec => ImplementsSeqStore
<1>1. Init => SS!SeqInit
  BY DEF Init, VecInit, SS!SeqInit, Seqs, VecAlive, ArrAlive
<1>2. ASSUME IInv, [Next]_vars
      PROVE  [SS!SeqNext]_(SS!sVars)
  <2>1. CASE UNCHANGED vars
    BY <2>1 DEF vars, SS!sVars, Seqs, SeqOf, ToSpan, ElemAt, CellsOf, VecAlive, ArrAlive, UsesVecs, UsesArrs
  <2>2. CASE Next /\ (UsesVecs \/ UsesArrs)
    BY <1>2, <2>2, StepIsSound
  <2>3. CASE Next /\ ~(UsesVecs \/ UsesArrs)
    <3>1. ~UsesVecs /\ ~UsesArrs /\ ~UsesVecs' /\ ~UsesArrs'
      BY <2>3 DEF Next, UsesVecs, UsesArrs
    <3>2. Seqs = [h \in Handles |-> Null] /\ Seqs' = [h \in Handles |-> Null]
      BY <3>1 DEF Seqs
    <3>3. QED
      BY <3>1, <3>2 DEF SS!sVars
  <2>4. QED
    BY <1>2, <2>1, <2>2, <2>3
<1>3. QED
  BY <1>1, <1>2, AlwaysSound, PTL DEF Spec, ImplementsSeqStore, SS!SeqSpec
=============================================================================
