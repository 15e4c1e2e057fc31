----------------------------- MODULE PoolProofs ------------------------------
(***************************************************************************)
(* What MCPool checks on pools of three blocks, for pools of any size; and *)
(* on two allocators over the default one, for stacks of any height over a *)
(* heap of any size.                                                       *)
(***************************************************************************)
EXTENDS Pool, Wrapping, FiniteSetTheorems, WellFoundedInduction, TLAPS

(* Rounding up to the alignment never rounds down: a block has room for    *)
(* what was asked for, and for a link.                                     *)
LEMMA RoundingUp ==
  ASSUME NEW x \in Nat, NEW a \in Nat, a > 0
  PROVE  /\ ((x + a - 1) \div a) * a \in Nat
         /\ ((x + a - 1) \div a) * a >= x
<1> DEFINE q == (x + a - 1) \div a
           r == (x + a - 1) % a
<1>1. q \in Int /\ r \in 0 .. a - 1 /\ x + a - 1 = a * q + r
  OBVIOUS
<1>2. q >= 0
  BY <1>1
<1>3. q * a = a * q
  BY <1>1
<1>4. QED
  BY <1>1, <1>2, <1>3

(* A block is large enough for a node and for what was asked.              *)
LEMMA BlockSizeOK ==
  ASSUME NEW size \in Nat, size > 0
  PROVE  /\ BlockSize(size) \in Nat \ {0}
         /\ BlockSize(size) >= NodeSize
         /\ BlockSize(size) >= size
<1>1. AtLeastANode(size) \in Nat /\ AtLeastANode(size) >= NodeSize /\ AtLeastANode(size) >= size
  BY PoolAssumption DEF AtLeastANode
<1>2. QED
  BY <1>1, RoundingUp, PoolAssumption DEF BlockSize, AlignUp

-----------------------------------------------------------------------------
(* The inductive invariant. None of its parts stands alone: a step needs   *)
(* the types to be read at all, the types of the next head need the free   *)
(* list, and the free list needs the blocks to have a first word.          *)
IInv ==
  /\ TypeOK
  /\ FreeListInv
  /\ LentBlocksKeepTheirWords
  /\ ParentIsSquare

(* The head of a well-formed list is null or a block nobody owns, and the  *)
(* list is empty exactly when every block is lent.                         *)
LEMMA HeadIsFree ==
  ASSUME Alive, PoolTypeOK, FreeListInv
  PROVE  /\ pool.head # Nil => pool.head \in BlockIds /\ lent[pool.head].size = 0
         /\ pool.head # Nil => pool.used < pool.n
         /\ pool.head = Nil => pool.used = pool.n
<1>1. PICK s \in [1 .. pool.n - pool.used -> BlockIds] : IsFreeList(s, pool.n - pool.used)
  BY DEF FreeListInv
<1>2. pool.n \in Nat /\ pool.used \in Nat /\ pool.used <= pool.n
  BY DEF FreeListInv, PoolTypeOK, Pools
<1>3. CASE pool.used = pool.n
  BY <1>1, <1>2, <1>3 DEF IsFreeList, IsLent
<1>4. CASE pool.used < pool.n
  <2>1. 1 \in 1 .. pool.n - pool.used
    BY <1>2, <1>4
  <2>2. pool.head = s[1] /\ s[1] \in BlockIds
    BY <1>1, <1>2, <1>4, <2>1 DEF IsFreeList, IsLent
  <2>3. lent[s[1]].size = 0
    BY <1>1, <2>1, <2>2 DEF IsFreeList, IsLent
  <2>4. QED
    BY <1>2, <1>4, <2>2, <2>3 DEF BlockIds, Nil
<1>5. QED
  BY <1>2, <1>3, <1>4

-----------------------------------------------------------------------------
(* One lemma per action.                                                   *)

(* What the owner of a block may know of it.                               *)
ClaimsOf(bs) == UNION {[size : {s}, words : [1 .. s -> Values]] : s \in 0 .. bs}

(* A claim of s words is one of those a block of bs bytes can back.        *)
LEMMA AClaim ==
  ASSUME NEW bs \in Nat, NEW s \in 0 .. bs, NEW w \in [1 .. s -> Values]
  PROVE  [size |-> s, words |-> w] \in ClaimsOf(bs)
<1>1. [size |-> s, words |-> w] \in [size : {s}, words : [1 .. s -> Values]]
  OBVIOUS
<1>2. QED
  BY <1>1 DEF ClaimsOf

(* An unclaimed block backs no word.                                       *)
LEMMA NoClaim == Unclaimed \in [size : {0}, words : [1 .. 0 -> Values]]
<1>1. [k \in 1 .. 0 |-> Nil] \in [1 .. 0 -> Values]
  OBVIOUS
<1>2. QED
  BY <1>1 DEF Unclaimed

(* No pool, no debt.                                                       *)
LEMMA InitOK == Init => IInv
  BY DEF Init, IInv, TypeOK, FreeListInv, LentBlocksKeepTheirWords, ParentIsSquare,
         Alive, NothingOwed

(* tda_al_pool_new: granted in full, or taken apart again.                 *)
LEMMA NewOK ==
  ASSUME IInv, NEW size \in Nat, NEW n \in Nat, NEW granted \in 0 .. 3,
         New(size, n, granted)
  PROVE  IInv'
<1> DEFINE bs == BlockSize(size)
<1>1. ~Alive /\ size > 0 /\ n > 0
  BY DEF New
<1>2. bs \in Nat \ {0} /\ bs >= NodeSize
  BY <1>1, BlockSizeOK
<1>a. bs * n \in Nat
  BY <1>2
<1>3. CASE Overflows(size, n)
  <2>1. UNCHANGED vars
    BY <1>3 DEF New
  <2>2. QED
    BY <1>1, <2>1 DEF IInv, TypeOK, FreeListInv, LentBlocksKeepTheirWords,
                      ParentIsSquare, vars, Alive
<1>4. CASE ~Overflows(size, n) /\ granted < 3
  <2>1. owed' = NothingOwed
    <3>1. owed' = NewRefused(granted, bs * n)
      BY <1>4 DEF New
    <3>2. CASE granted = 0
      BY <3>1, <3>2 DEF NewRefused, NothingOwed
    <3>3. CASE granted = 1
      BY <3>1, <3>3 DEF NewRefused, NothingOwed, ReturnCtx
    <3>4. CASE granted = 2
      BY <3>1, <3>4 DEF NewRefused, NothingOwed, Settle, ReturnCtx
    <3>5. QED
      BY <1>4, <3>2, <3>3, <3>4
  <2>2. UNCHANGED <<pool, cell, lent>>
    BY <1>4 DEF New
  <2>3. QED
    BY <1>1, <2>1, <2>2 DEF IInv, TypeOK, FreeListInv, LentBlocksKeepTheirWords,
                            ParentIsSquare, Alive, NothingOwed
<1>5. CASE ~Overflows(size, n) /\ granted = 3
  <2>1. /\ pool' = [bs |-> bs, n |-> n, head |-> 1, used |-> 0]
        /\ cell' = Threaded(Raw(n, bs), n)
        /\ lent' = [b \in 1 .. n |-> Unclaimed]
        /\ owed' = [ctx |-> 1, data |-> bs * n, obj |-> 1]
    BY <1>1, <1>5 DEF New
  <2>2. pool' \in Pools /\ Alive'
    BY <1>1, <1>2, <2>1, PoolAssumption DEF Pools, Alive
  <2>3. /\ cell' \in [1 .. n -> [1 .. bs -> Values]]
        /\ \A b \in 1 .. n : cell'[b][1] = IF b = n THEN Nil ELSE b + 1
    BY <1>1, <1>2, <2>1 DEF Threaded, Raw, Values, Nil
  <2>4. TypeOK'
    <3>1. \A b \in BlockIds' : 0 \in 0 .. bs /\ lent'[b] \in [size : {0}, words : [1 .. 0 -> Values]]
      BY <1>2, <2>1, NoClaim DEF BlockIds
    <3>2. PoolTypeOK'
      BY <2>1, <2>2, <2>3, <3>1 DEF PoolTypeOK, BlockIds, WordIds
    <3>3. QED
      BY <1>a, <2>1, <3>2 DEF TypeOK
  <2>5. FreeListInv'
    <3> DEFINE s == [i \in 1 .. n |-> i]
    <3>1. s \in [1 .. pool'.n - pool'.used -> BlockIds'] /\ pool'.n - pool'.used = n
      BY <2>1 DEF BlockIds
    <3>2. IsFreeList(s, n)'
      BY <1>1, <2>1, <2>3 DEF IsFreeList, IsLent, BlockIds, Nil, Unclaimed
    <3>3. QED
      BY <2>1, <3>1, <3>2 DEF FreeListInv
  <2>6. LentBlocksKeepTheirWords'
    BY <2>1 DEF LentBlocksKeepTheirWords, Unclaimed, BlockIds
  <2>7. ParentIsSquare'
    <3>1. pool'.bs = bs /\ pool'.n = n
      BY <2>1
    <3>2. bs * n <= SizeMax
      BY <1>a, <1>5, PoolAssumption DEF Overflows
    <3>3. QED
      BY <1>2, <2>1, <2>2, <3>1, <3>2 DEF ParentIsSquare
  <2>8. QED
    BY <2>4, <2>5, <2>6, <2>7 DEF IInv
<1>6. QED
  BY <1>3, <1>4, <1>5

(* tda_al_pool_drop.                                                       *)
LEMMA DropOK ==
  ASSUME IInv, Drop
  PROVE  IInv'
<1>1. Alive /\ owed = [ctx |-> 1, data |-> pool.bs * pool.n, obj |-> 1]
  BY DEF Drop, IInv, ParentIsSquare
<1>2. ~Alive' /\ owed' = NothingOwed
  BY <1>1 DEF Drop, Alive, Settle, ReturnCtx, ReturnObj, NothingOwed
<1>3. QED
  BY <1>2 DEF IInv, TypeOK, FreeListInv, LentBlocksKeepTheirWords, ParentIsSquare,
              NothingOwed

(* tda_al_pool_reset.                                                      *)
LEMMA ResetOK ==
  ASSUME IInv, Reset
  PROVE  IInv'
<1> DEFINE n == pool.n
           bs == pool.bs
<1>1. /\ Alive
      /\ pool' = [pool EXCEPT !.head = 1, !.used = 0]
      /\ cell' = Threaded(cell, n)
      /\ lent' = [b \in 1 .. n |-> Unclaimed]
      /\ owed' = owed
  BY DEF Reset, BlockIds
<1>2. PoolTypeOK
  BY <1>1 DEF IInv, TypeOK
<1>3. n \in Nat \ {0} /\ bs \in Nat \ {0} /\ pool'.n = n /\ pool'.bs = bs /\ pool'.used = 0
  BY <1>1, <1>2 DEF PoolTypeOK, Pools
<1>4. pool' \in Pools /\ Alive'
  <2>1. pool' \in Pools
    BY <1>1, <1>2 DEF PoolTypeOK, Pools
  <2>2. QED
    BY <2>1, PoolAssumption DEF Pools, Alive
<1>5. /\ cell' \in [1 .. n -> [1 .. bs -> Values]]
      /\ \A b \in 1 .. n : cell'[b][1] = IF b = n THEN Nil ELSE b + 1
  BY <1>1, <1>2, <1>3 DEF Threaded, Values, Nil, PoolTypeOK, BlockIds, WordIds
<1>6. TypeOK'
  <2>1. \A b \in BlockIds' : 0 \in 0 .. bs /\ lent'[b] \in [size : {0}, words : [1 .. 0 -> Values]]
    BY <1>1, <1>3, NoClaim DEF BlockIds
  <2>2. PoolTypeOK'
    BY <1>1, <1>3, <1>4, <1>5, <2>1 DEF PoolTypeOK, BlockIds, WordIds
  <2>3. QED
    BY <1>1, <2>2 DEF IInv, TypeOK
<1>7. FreeListInv'
  <2> DEFINE s == [i \in 1 .. n |-> i]
  <2>1. s \in [1 .. pool'.n - pool'.used -> BlockIds'] /\ pool'.n - pool'.used = n
    BY <1>3 DEF BlockIds
  <2>2. pool'.head = 1
    BY <1>1, <1>2 DEF PoolTypeOK, Pools
  <2>3. IsFreeList(s, n)'
    BY <1>1, <1>3, <1>5, <2>2 DEF IsFreeList, IsLent, BlockIds, Nil, Unclaimed
  <2>4. QED
    BY <1>3, <2>1, <2>3 DEF FreeListInv
<1>8. LentBlocksKeepTheirWords'
  BY <1>1, <1>3 DEF LentBlocksKeepTheirWords, Unclaimed, BlockIds
<1>9. ParentIsSquare'
  BY <1>1, <1>3, <1>4 DEF IInv, ParentIsSquare
<1>10. QED
  BY <1>6, <1>7, <1>8, <1>9 DEF IInv

-----------------------------------------------------------------------------
(* The three ways a call changes the free list, whatever else it writes.   *)

(* The first block leaves it.                                              *)
LEMMA TakingTheFirst ==
  ASSUME Alive, PoolTypeOK, FreeListInv, pool.head # Nil,
         pool' = Taken(pool, cell),
         \A b \in BlockIds \ {pool.head} : cell'[b][1] = cell[b][1],
         \A b \in BlockIds \ {pool.head} : lent'[b].size = 0 <=> lent[b].size = 0,
         lent'[pool.head].size # 0
  PROVE  FreeListInv'
<1>1. pool \in Pools /\ pool.used < pool.n /\ pool.head \in BlockIds
  BY HeadIsFree DEF PoolTypeOK
<1>a. PICK len \in Nat : len = pool.n - pool.used
  BY <1>1 DEF Pools
<1>2. len >= 1 /\ pool.n \in Nat /\ pool.used \in Nat
  BY <1>1, <1>a DEF Pools
<1>3. PICK s \in [1 .. len -> BlockIds] : IsFreeList(s, len)
  BY <1>a DEF FreeListInv
<1>4. /\ pool'.n = pool.n /\ pool'.used = pool.used + 1
      /\ pool'.head = cell[pool.head][1]
  BY <1>1 DEF Taken, Pools
<1>5. pool.head = s[1]
  BY <1>2, <1>3 DEF IsFreeList, IsLent
<1>b. PICK m \in Nat : m = len - 1
  BY <1>2
<1>6. PICK t \in [1 .. m -> BlockIds] : \A i \in 1 .. m : t[i] = s[i + 1]
  <2>1. \A i \in 1 .. m : i + 1 \in 1 .. len
    BY <1>2, <1>b
  <2>2. [i \in 1 .. m |-> s[i + 1]] \in [1 .. m -> BlockIds]
    BY <1>3, <2>1
  <2>3. QED
    BY <2>2
<1>c. \A i \in 1 .. m : /\ i + 1 \in 1 .. len
                        /\ i # m => i + 1 \in 1 .. m /\ i + 2 \in 1 .. len
                        /\ i = m <=> i + 1 = len
  BY <1>2, <1>b
<1>7. \A i \in 1 .. m : t[i] # pool.head
  <2>1. TAKE i \in 1 .. m
  <2>2. i + 1 \in 1 .. len /\ 1 \in 1 .. len /\ i + 1 # 1
    BY <1>2, <1>c
  <2>3. s[i + 1] # s[1]
    BY <1>3, <2>2 DEF IsFreeList, IsLent
  <2>4. QED
    BY <1>5, <1>6, <2>3
<1>8. BlockIds' = BlockIds
  BY <1>4 DEF BlockIds
<1>9. IsFreeList(t, m)'
  <2>1. ASSUME NEW i \in 1 .. m, NEW j \in 1 .. m, t[i] = t[j]
        PROVE  i = j
    <3>1. i + 1 \in 1 .. len /\ j + 1 \in 1 .. len
      BY <1>c
    <3>2. s[i + 1] = s[j + 1]
      BY <1>6, <2>1
    <3>3. i + 1 = j + 1
      BY <1>3, <3>1, <3>2 DEF IsFreeList
    <3>4. QED
      BY <3>3
  <2>2. pool'.head = IF m = 0 THEN Nil ELSE t[1]
    BY <1>2, <1>3, <1>4, <1>5, <1>6, <1>b DEF IsFreeList, IsLent
  <2>3. \A i \in 1 .. m :
          cell'[t[i]][1] = IF i = m THEN Nil ELSE t[i + 1]
    <3>1. TAKE i \in 1 .. m
    <3>a. t[i] \in BlockIds \ {pool.head} /\ t[i] = s[i + 1]
      BY <1>6, <1>7
    <3>2. cell'[t[i]][1] = cell[s[i + 1]][1]
      BY <3>a
    <3>3. cell[s[i + 1]][1] = IF i + 1 = len THEN Nil ELSE s[i + 1 + 1]
      BY <1>c, <1>3 DEF IsFreeList, IsLent
    <3>4. CASE i = m
      BY <1>c, <3>2, <3>3, <3>4
    <3>5. CASE i # m
      <4>1. t[i + 1] = s[i + 1 + 1]
        BY <1>6, <1>c, <3>5
      <4>2. QED
        BY <1>c, <3>2, <3>3, <3>5, <4>1
    <3>6. QED
      BY <3>4, <3>5
  <2>4. \A b \in BlockIds : lent'[b].size = 0 <=> \E i \in 1 .. m : t[i] = b
    <3>1. TAKE b \in BlockIds
    <3>2. CASE b = pool.head
      BY <1>7, <3>2
    <3>3. CASE b # pool.head
      <4>1. lent'[b].size = 0 <=> \E i \in 1 .. len : s[i] = b
        BY <1>3, <3>3 DEF IsFreeList, IsLent
      <4>2. ASSUME NEW i \in 1 .. len, s[i] = b
            PROVE  \E j \in 1 .. m : t[j] = b
        <5>1. i # 1
          BY <1>5, <3>3, <4>2
        <5>2. PICK j \in 1 .. m : i = j + 1
          BY <1>b, <5>1
        <5>3. t[j] = b
          BY <1>6, <4>2, <5>2
        <5>4. QED
          BY <5>3
      <4>3. ASSUME NEW i \in 1 .. m, t[i] = b
            PROVE  i + 1 \in 1 .. len /\ s[i + 1] = b
        BY <1>6, <1>c, <4>3
      <4>4. QED
        BY <4>1, <4>2, <4>3
    <3>4. QED
      BY <3>2, <3>3
  <2>5. QED
    BY <1>8, <2>1, <2>2, <2>3, <2>4 DEF IsFreeList, IsLent
<1>10. pool'.n - pool'.used = m /\ pool'.used <= pool'.n
  BY <1>2, <1>4, <1>a, <1>b
<1>11. \E u \in [1 .. m -> BlockIds'] : IsFreeList(u, m)'
  BY <1>6, <1>8, <1>9
<1>12. QED
  BY <1>10, <1>11 DEF FreeListInv

(* A list that misses one block is shorter than the pool.                  *)
LEMMA ALentBlockIsCounted ==
  ASSUME Alive, PoolTypeOK, FreeListInv, NEW b \in BlockIds, lent[b].size # 0
  PROVE  pool.used > 0
<1> DEFINE n == pool.n
<1>1. n \in Nat /\ pool.used \in Nat
  BY DEF PoolTypeOK, Pools
<1>2. SUFFICES ASSUME pool.used = 0 PROVE FALSE
  BY <1>1
<1>3. PICK s \in [1 .. n -> BlockIds] : IsFreeList(s, n)
  BY <1>1, <1>2 DEF FreeListInv
<1>4. s \in [1 .. n -> BlockIds \ {b}]
  BY <1>3 DEF IsFreeList, IsLent
<1>5. IsFiniteSet(1 .. n) /\ Cardinality(1 .. n) = n
  BY SMTT(40), <1>1, FS_Interval
<1>6. IsFiniteSet(BlockIds \ {b}) /\ Cardinality(BlockIds \ {b}) = n - 1
  BY <1>5, FS_RemoveElement DEF BlockIds
<1>7. \E i, j \in 1 .. n : i # j /\ s[i] = s[j]
  BY <1>1, <1>4, <1>5, <1>6, FS_PigeonHole
<1>8. QED
  BY <1>3, <1>7 DEF IsFreeList, IsLent

(* A lent block is put before the first.                                   *)
LEMMA PuttingBack ==
  ASSUME Alive, PoolTypeOK, FreeListInv, NEW b \in BlockIds, lent[b].size # 0,
         pool' = GotBack(pool, b),
         cell'[b][1] = pool.head,
         \A c \in BlockIds \ {b} : cell'[c][1] = cell[c][1],
         \A c \in BlockIds \ {b} : lent'[c].size = 0 <=> lent[c].size = 0,
         lent'[b].size = 0
  PROVE  FreeListInv'
<1>1. pool \in Pools /\ pool.n \in Nat /\ pool.used \in Nat /\ pool.used <= pool.n
  BY DEF PoolTypeOK, Pools, FreeListInv
<1>a. PICK len \in Nat : len = pool.n - pool.used
  BY <1>1
<1>2. PICK s \in [1 .. len -> BlockIds] : IsFreeList(s, len)
  BY <1>a DEF FreeListInv
<1>3. \A i \in 1 .. len : s[i] # b
  BY <1>2 DEF IsFreeList, IsLent
<1>4. pool'.n = pool.n /\ pool'.used = pool.used - 1 /\ pool'.head = b
  BY <1>1 DEF GotBack, Pools
<1>5. BlockIds' = BlockIds
  BY <1>4 DEF BlockIds
<1>6. pool.used > 0
  BY ALentBlockIsCounted
<1> DEFINE t == [i \in 1 .. len + 1 |-> IF i = 1 THEN b ELSE s[i - 1]]
<1>7. t \in [1 .. len + 1 -> BlockIds]
  BY <1>1, <1>2
<1>8. IsFreeList(t, len + 1)'
  <2>1. \A i, j \in 1 .. len + 1 : t[i] = t[j] => i = j
    BY <1>1, <1>2, <1>3 DEF IsFreeList, IsLent
  <2>2. pool'.head = IF len + 1 = 0 THEN Nil ELSE t[1]
    BY <1>1, <1>4
  <2>3. \A i \in 1 .. len + 1 :
          cell'[t[i]][1] = IF i = len + 1 THEN Nil ELSE t[i + 1]
    <3>1. TAKE i \in 1 .. len + 1
    <3>2. CASE i = 1
      BY <1>1, <1>2, <3>2 DEF IsFreeList, IsLent
    <3>3. CASE i > 1
      <4>1. i - 1 \in 1 .. len /\ t[i] = s[i - 1]
        BY <1>1, <3>3
      <4>2. cell'[t[i]][1] = cell[s[i - 1]][1]
        BY <1>2, <1>3, <4>1
      <4>3. cell[s[i - 1]][1] = IF i - 1 = len THEN Nil ELSE s[i]
        BY <1>2, <4>1 DEF IsFreeList, IsLent
      <4>4. QED
        BY <1>1, <3>3, <4>2, <4>3
    <3>4. QED
      BY <3>2, <3>3
  <2>4. \A c \in BlockIds : lent'[c].size = 0 <=> \E i \in 1 .. len + 1 : t[i] = c
    <3>1. TAKE c \in BlockIds
    <3>2. CASE c = b
      <4>1. 1 \in 1 .. len + 1 /\ t[1] = b
        BY <1>1
      <4>2. QED
        BY <3>2, <4>1
    <3>3. CASE c # b
      <4>1. lent'[c].size = 0 <=> \E i \in 1 .. len : s[i] = c
        BY <1>2, <3>3 DEF IsFreeList, IsLent
      <4>2. ASSUME NEW i \in 1 .. len, s[i] = c
            PROVE  i + 1 \in 1 .. len + 1 /\ t[i + 1] = c
        BY <1>1, <4>2
      <4>3. ASSUME NEW i \in 1 .. len + 1, t[i] = c
            PROVE  i - 1 \in 1 .. len /\ s[i - 1] = c
        BY <1>1, <3>3, <4>3
      <4>4. QED
        BY <4>1, <4>2, <4>3
    <3>4. QED
      BY <3>2, <3>3
  <2>5. QED
    BY <1>5, <2>1, <2>2, <2>3, <2>4 DEF IsFreeList, IsLent
<1>9. pool'.n - pool'.used = len + 1 /\ pool'.used <= pool'.n
  BY <1>1, <1>4, <1>a
<1>10. QED
  BY <1>1, <1>5, <1>7, <1>8, <1>9 DEF FreeListInv

(* The first block and a lent one change places.                           *)
LEMMA TradingPlaces ==
  ASSUME Alive, PoolTypeOK, FreeListInv, pool.head # Nil,
         NEW b \in BlockIds, lent[b].size # 0,
         pool' = GotBack(Taken(pool, cell), b),
         cell'[b][1] = cell[pool.head][1],
         \A c \in BlockIds \ {b, pool.head} : cell'[c][1] = cell[c][1],
         \A c \in BlockIds \ {b, pool.head} : lent'[c].size = 0 <=> lent[c].size = 0,
         lent'[b].size = 0, lent'[pool.head].size # 0
  PROVE  FreeListInv'
<1>1. /\ pool \in Pools /\ pool.used < pool.n
      /\ pool.head \in BlockIds /\ lent[pool.head].size = 0
  BY HeadIsFree DEF PoolTypeOK
<1>a. PICK len \in Nat : len = pool.n - pool.used
  BY <1>1 DEF Pools
<1>2. len >= 1 /\ pool.n \in Nat /\ pool.used \in Nat
  BY <1>1, <1>a DEF Pools
<1>3. PICK s \in [1 .. len -> BlockIds] : IsFreeList(s, len)
  BY <1>a DEF FreeListInv
<1>4. pool'.n = pool.n /\ pool'.used = pool.used /\ pool'.head = b
  BY <1>1, <1>2 DEF Taken, GotBack, Pools
<1>5. BlockIds' = BlockIds
  BY <1>4 DEF BlockIds
<1>6. pool.head = s[1] /\ pool.head # b
  BY <1>1, <1>2, <1>3 DEF IsFreeList, IsLent
<1>7. \A i \in 1 .. len : s[i] # b
  BY <1>3 DEF IsFreeList, IsLent
<1> DEFINE t == [i \in 1 .. len |-> IF i = 1 THEN b ELSE s[i]]
<1>8. t \in [1 .. len -> BlockIds]
  BY <1>2, <1>3
<1>9. IsFreeList(t, len)'
  <2>1. \A i, j \in 1 .. len : t[i] = t[j] => i = j
    BY <1>2, <1>3, <1>7 DEF IsFreeList, IsLent
  <2>2. pool'.head = IF len = 0 THEN Nil ELSE t[1]
    BY <1>2, <1>4
  <2>3. \A i \in 1 .. len : cell'[t[i]][1] = IF i = len THEN Nil ELSE t[i + 1]
    <3>1. TAKE i \in 1 .. len
    <3>2. CASE i = 1
      BY <1>2, <1>3, <1>6, <3>2 DEF IsFreeList, IsLent
    <3>3. CASE i > 1
      <4>1. t[i] = s[i] /\ s[i] \in BlockIds \ {b, pool.head}
        BY <1>2, <1>3, <1>6, <1>7, <3>3 DEF IsFreeList, IsLent
      <4>2. cell'[t[i]][1] = cell[s[i]][1]
        BY <4>1
      <4>3. QED
        BY <1>2, <1>3, <3>3, <4>2 DEF IsFreeList, IsLent
    <3>4. QED
      BY <3>2, <3>3
  <2>4. \A c \in BlockIds : lent'[c].size = 0 <=> \E i \in 1 .. len : t[i] = c
    <3>1. TAKE c \in BlockIds
    <3>2. CASE c = b
      BY <1>2, <3>2
    <3>3. CASE c = pool.head
      BY <1>2, <1>3, <1>6, <3>3 DEF IsFreeList, IsLent
    <3>4. CASE c \notin {b, pool.head}
      <4>1. lent'[c].size = 0 <=> \E i \in 1 .. len : s[i] = c
        BY <1>3, <3>4 DEF IsFreeList, IsLent
      <4>2. \A i \in 1 .. len : s[i] = c <=> t[i] = c
        BY <1>2, <1>6, <3>4
      <4>3. QED
        BY <4>1, <4>2
    <3>5. QED
      BY <3>2, <3>3, <3>4
  <2>5. QED
    BY <1>5, <2>1, <2>2, <2>3, <2>4 DEF IsFreeList, IsLent
<1>10. QED
  BY <1>1, <1>2, <1>4, <1>5, <1>8, <1>9, <1>a DEF FreeListInv

-----------------------------------------------------------------------------
(* The calls on a pool that there is.                                      *)

(* Everything a proof below needs to know of the state it starts from.     *)
LEMMA Before ==
  ASSUME IInv, Alive
  PROVE  /\ PoolTypeOK /\ FreeListInv
         /\ pool \in Pools /\ pool.n \in Nat \ {0} /\ pool.bs \in Nat \ {0}
         /\ pool.head \in Nat /\ pool.used \in Nat
         /\ cell \in [BlockIds -> [WordIds -> Values]]
         /\ 1 \in WordIds
         /\ lent = [b \in BlockIds |-> lent[b]]
         /\ \A b \in BlockIds :
              /\ lent[b] = [size |-> lent[b].size, words |-> lent[b].words]
              /\ lent[b].size \in 0 .. pool.bs
              /\ lent[b].words \in [1 .. lent[b].size -> Values]
              /\ \A k \in 1 .. lent[b].size : cell[b][k] = lent[b].words[k]
<1>1. PoolTypeOK /\ FreeListInv
  BY DEF IInv, TypeOK
<1>2. pool \in Pools /\ pool.n \in Nat \ {0} /\ pool.bs \in Nat \ {0}
      /\ pool.head \in Nat /\ pool.used \in Nat
  BY <1>1 DEF PoolTypeOK, Pools
<1>3. 1 \in WordIds
  BY <1>2 DEF WordIds
<1>4. cell \in [BlockIds -> [WordIds -> Values]] /\ lent = [b \in BlockIds |-> lent[b]]
  BY <1>1 DEF PoolTypeOK
<1>5. ASSUME NEW b \in BlockIds
      PROVE  /\ lent[b] = [size |-> lent[b].size, words |-> lent[b].words]
             /\ lent[b].size \in 0 .. pool.bs
             /\ lent[b].words \in [1 .. lent[b].size -> Values]
  <2>1. PICK sz \in 0 .. pool.bs : lent[b] \in [size : {sz}, words : [1 .. sz -> Values]]
    BY <1>1, <1>5 DEF PoolTypeOK
  <2>2. QED
    BY <2>1
<1>6. ASSUME NEW b \in BlockIds, NEW k \in 1 .. lent[b].size
      PROVE  cell[b][k] = lent[b].words[k]
  BY DEF IInv, LentBlocksKeepTheirWords
<1>7. QED
  BY <1>1, <1>2, <1>3, <1>4, <1>5, <1>6

(* What is claimed in a good state fits the blocks.                        *)
LEMMA ClaimsBefore ==
  ASSUME IInv, Alive
  PROVE  lent \in [BlockIds -> ClaimsOf(pool.bs)]
  BY Before, AClaim

(* A step that moves the head and the count, stores words, and changes the *)
(* claims, keeps the types and what the parent is owed.                    *)
LEMMA TypesAfter ==
  ASSUME IInv, Alive,
         pool' \in Pools, pool'.n = pool.n, pool'.bs = pool.bs,
         cell' \in [BlockIds -> [WordIds -> Values]],
         lent' \in [BlockIds -> ClaimsOf(pool.bs)],
         owed' = owed
  PROVE  TypeOK' /\ ParentIsSquare' /\ BlockIds' = BlockIds
<1>1. Alive'
  BY PoolAssumption DEF Alive, Pools
<1>2. BlockIds' = BlockIds /\ WordIds' = WordIds
  BY DEF BlockIds, WordIds
<1>3. \A b \in BlockIds :
        \E s \in 0 .. pool.bs : lent'[b] \in [size : {s}, words : [1 .. s -> Values]]
  <2>1. TAKE b \in BlockIds
  <2>2. lent'[b] \in ClaimsOf(pool.bs)
    OBVIOUS
  <2>3. QED
    BY <2>2 DEF ClaimsOf
<1>4. PoolTypeOK'
  BY <1>2, <1>3 DEF PoolTypeOK
<1>5. TypeOK'
  BY <1>4 DEF IInv, TypeOK
<1>6. ParentIsSquare'
  BY <1>1 DEF IInv, ParentIsSquare
<1>7. QED
  BY <1>2, <1>5, <1>6

(* A call that was refused changes nothing.                                *)
LEMMA StutterOK ==
  ASSUME IInv, UNCHANGED vars
  PROVE  IInv'
  BY DEF IInv, TypeOK, PoolTypeOK, FreeListInv, IsFreeList, LentBlocksKeepTheirWords,
         ParentIsSquare, vars, Alive, BlockIds, WordIds, IsLent

(* The new head is a link of the list, so the struct stays a struct.       *)
LEMMA TakenType ==
  ASSUME IInv, Alive, pool.head # Nil
  PROVE  /\ Taken(pool, cell) \in Pools
         /\ Taken(pool, cell).n = pool.n /\ Taken(pool, cell).bs = pool.bs
         /\ pool.head \in BlockIds /\ lent[pool.head].size = 0
<1>1. pool.head \in BlockIds /\ lent[pool.head].size = 0 /\ pool.used < pool.n
  BY Before, HeadIsFree
<1>2. PICK len \in Nat : len = pool.n - pool.used
  BY <1>1, Before
<1>3. PICK s \in [1 .. len -> BlockIds] : IsFreeList(s, len)
  BY <1>2, Before DEF FreeListInv
<1>4. len >= 1 /\ pool.head = s[1]
  BY <1>1, <1>2, <1>3, Before DEF IsFreeList
<1>5. cell[pool.head][1] = IF 1 = len THEN Nil ELSE s[2]
  BY <1>3, <1>4 DEF IsFreeList
<1>6. cell[pool.head][1] \in Nat
  BY <1>3, <1>4, <1>5 DEF BlockIds, Nil
<1>7. pool \in Pools
  BY Before
<1>8. PICK head \in Nat, used \in Nat : head = cell[pool.head][1] /\ used = pool.used + 1
  BY <1>6, <1>7 DEF Pools
<1>9. Taken(pool, cell) = [pool EXCEPT !.head = head, !.used = used]
  BY <1>8 DEF Taken
<1>10. QED
  BY <1>1, <1>7, <1>9 DEF Pools

(* pool_alloc.                                                             *)
LEMMA AllocOK ==
  ASSUME IInv, NEW size \in Nat, Alloc(size)
  PROVE  IInv'
<1>1. Alive
  BY DEF Alloc
<1>2. CASE Refused(size)
  BY <1>2, StutterOK DEF Alloc
<1>3. CASE ~Refused(size)
  <2> DEFINE h == pool.head
             words == [k \in 1 .. size |-> cell[h][k]]
  <2>1. /\ pool' = Taken(pool, cell)
        /\ lent' = [lent EXCEPT ![h] = [size |-> size, words |-> words]]
        /\ cell' = cell /\ owed' = owed
    BY <1>3 DEF Alloc, Claim
  <2>2. h # Nil /\ size \in 1 .. pool.bs
    BY <1>1, <1>3, Before DEF Refused
  <2>3. h \in BlockIds
    BY <1>1, <2>2, TakenType
  <2>4. words \in [1 .. size -> Values]
    BY <1>1, <2>2, <2>3, Before DEF WordIds
  <2>5. lent' \in [BlockIds -> ClaimsOf(pool.bs)]
    <3>1. [size |-> size, words |-> words] \in ClaimsOf(pool.bs)
      BY SMTT(40), <1>1, <2>2, <2>4, AClaim, Before
    <3>2. QED
      BY <1>1, <2>1, <3>1, ClaimsBefore
  <2>6. TypeOK' /\ ParentIsSquare' /\ BlockIds' = BlockIds
    BY <1>1, <2>1, <2>2, <2>5, Before, TakenType, TypesAfter
  <2>7. FreeListInv'
    BY <1>1, <2>1, <2>2, <2>3, Before, TakingTheFirst
  <2>8. LentBlocksKeepTheirWords'
    <3>1. ASSUME NEW b \in BlockIds, NEW k \in 1 .. lent'[b].size
          PROVE  cell'[b][k] = lent'[b].words[k]
      <4>1. CASE b = h
        BY <1>1, <2>1, <2>2, <2>3, <3>1, <4>1, Before
      <4>2. CASE b # h
        BY <1>1, <2>1, <3>1, <4>2, Before
      <4>3. QED
        BY <4>1, <4>2
    <3>2. QED
      BY <2>6, <3>1 DEF LentBlocksKeepTheirWords
  <2>9. QED
    BY <2>6, <2>7, <2>8 DEF IInv
<1>4. QED
  BY <1>2, <1>3

(* A claim on one block is replaced by another claim.                      *)
LEMMA ClaimsAfter ==
  ASSUME IInv, Alive, NEW b \in BlockIds,
         NEW size \in 0 .. pool.bs, NEW words \in [1 .. size -> Values],
         lent' = [lent EXCEPT ![b] = [size |-> size, words |-> words]]
  PROVE  lent' \in [BlockIds -> ClaimsOf(pool.bs)]
<1>1. [size |-> size, words |-> words] \in ClaimsOf(pool.bs)
  BY AClaim, Before
<1>2. QED
  BY <1>1, ClaimsBefore

(* A calloc that falls back on pool_alloc.                                 *)
LEMMA CallocOK ==
  ASSUME IInv, NEW num \in Nat, NEW size \in Nat, Calloc(num, size)
  PROVE  IInv'
<1> DEFINE h == pool.head
<1>0. PICK total \in Nat : total = num * size
  OBVIOUS
<1>1. Alive
  BY DEF Calloc
<1>2. CASE total = 0 \/ total > SizeMax \/ Refused(total)
  <2>1. UNCHANGED vars
    BY <1>0, <1>2, PoolAssumption DEF Calloc, Refused
  <2>2. QED
    BY <2>1, StutterOK
<1>3. CASE ~(total = 0 \/ total > SizeMax \/ Refused(total))
  <2> DEFINE zeroed == [k \in WordIds |-> IF k <= total THEN Nil ELSE cell[h][k]]
             words  == [k \in 1 .. total |-> Nil]
  <2>1. /\ pool' = Taken(pool, cell)
        /\ cell' = [cell EXCEPT ![h] = zeroed]
        /\ lent' = [lent EXCEPT ![h] = [size |-> total, words |-> words]]
        /\ owed' = owed
    BY <1>0, <1>3 DEF Calloc
  <2>2. h # Nil /\ total \in 1 .. pool.bs
    BY <1>1, <1>3, Before DEF Refused
  <2>3. h \in BlockIds
    BY <1>1, <2>2, TakenType
  <2>4. zeroed \in [WordIds -> Values]
    BY <1>1, <2>3, Before DEF Values, Nil
  <2>5. cell' \in [BlockIds -> [WordIds -> Values]]
    BY <1>1, <2>1, <2>4, Before
  <2>6. words \in [1 .. total -> Values]
    BY DEF Values, Nil
  <2>7. lent' \in [BlockIds -> ClaimsOf(pool.bs)]
    <3>1. [size |-> total, words |-> words] \in ClaimsOf(pool.bs)
      BY <1>1, <2>2, <2>6, AClaim, Before
    <3>2. QED
      BY <1>1, <2>1, <3>1, ClaimsBefore
  <2>8. TypeOK' /\ ParentIsSquare' /\ BlockIds' = BlockIds
    BY <1>1, <2>1, <2>2, <2>5, <2>7, TakenType, TypesAfter
  <2>9. FreeListInv'
    <3>1. \A b \in BlockIds \ {h} : cell'[b] = cell[b] /\ lent'[b] = lent[b]
      BY <1>1, <2>1, Before
    <3>2. lent'[h].size # 0
      BY <1>1, <2>1, <2>2, <2>3, Before
    <3>3. QED
      BY <1>1, <2>1, <2>2, <3>1, <3>2, Before, TakingTheFirst
  <2>10. LentBlocksKeepTheirWords'
    <3>1. ASSUME NEW b \in BlockIds, NEW k \in 1 .. lent'[b].size
          PROVE  cell'[b][k] = lent'[b].words[k]
      <4>1. CASE b = h
        <5>1. lent'[b] = [size |-> total, words |-> words] /\ cell'[b] = zeroed
          BY <1>1, <2>1, <2>3, <4>1, Before
        <5>2. k \in 1 .. total /\ k \in WordIds
          BY <1>1, <2>2, <3>1, <5>1, Before DEF WordIds
        <5>3. QED
          BY <5>1, <5>2
      <4>2. CASE b # h
        <5>1. lent'[b] = lent[b] /\ cell'[b] = cell[b]
          BY <1>1, <2>1, <4>2, Before
        <5>2. QED
          BY <1>1, <3>1, <5>1, Before
      <4>3. QED
        BY <4>1, <4>2
    <3>2. QED
      BY <2>8, <3>1 DEF LentBlocksKeepTheirWords
  <2>11. QED
    BY <2>8, <2>9, <2>10 DEF IInv
<1>4. QED
  BY <1>2, <1>3

(* A pool that got a block back is a pool.                                 *)
LEMMA GotBackType ==
  ASSUME NEW p \in Pools, p.used > 0, NEW b \in Nat
  PROVE  /\ GotBack(p, b) \in Pools
         /\ GotBack(p, b).n = p.n /\ GotBack(p, b).bs = p.bs
<1>1. PICK used \in Nat : used = p.used - 1
  BY DEF Pools
<1>2. GotBack(p, b) = [p EXCEPT !.head = b, !.used = used]
  BY <1>1 DEF GotBack
<1>3. QED
  BY <1>2 DEF Pools

(* The link that dealloc writes is a word like any other.                  *)
LEMMA LinkedType ==
  ASSUME NEW c \in [BlockIds -> [WordIds -> Values]], NEW b \in BlockIds,
         NEW p \in Pools, 1 \in WordIds
  PROVE  /\ Linked(c, b, p) \in [BlockIds -> [WordIds -> Values]]
         /\ Linked(c, b, p)[b][1] = p.head
         /\ \A x \in BlockIds \ {b} : Linked(c, b, p)[x] = c[x]
  BY DEF Linked, Pools, Values

(* pool_dealloc.                                                           *)
LEMMA DeallocOK ==
  ASSUME IInv, NEW b \in Blocks, Dealloc(b)
  PROVE  IInv'
<1>1. Alive /\ b \in BlockIds /\ lent[b].size # 0
  BY DEF Dealloc, Blocks, IsLent
<1>2. /\ pool' = GotBack(pool, b)
      /\ cell' = Linked(cell, b, pool)
      /\ lent' = [lent EXCEPT ![b] = Unclaimed]
      /\ owed' = owed
  BY DEF Dealloc
<1>3. pool.used > 0
  BY <1>1, Before, ALentBlockIsCounted
<1>4. pool' \in Pools /\ pool'.n = pool.n /\ pool'.bs = pool.bs
  BY <1>1, <1>2, <1>3, Before, GotBackType DEF BlockIds
<1>5. /\ cell' \in [BlockIds -> [WordIds -> Values]]
      /\ cell'[b][1] = pool.head
      /\ \A x \in BlockIds \ {b} : cell'[x] = cell[x]
  BY <1>1, <1>2, Before, LinkedType
<1>6. lent' \in [BlockIds -> ClaimsOf(pool.bs)]
  <2>1. Unclaimed \in ClaimsOf(pool.bs)
    <3>1. [k \in 1 .. 0 |-> Nil] \in [1 .. 0 -> Values] /\ 0 \in 0 .. pool.bs
      BY <1>1, Before
    <3>2. QED
      BY <1>1, <3>1, AClaim, Before DEF Unclaimed
  <2>2. QED
    BY <1>1, <1>2, <2>1, ClaimsBefore
<1>7. TypeOK' /\ ParentIsSquare' /\ BlockIds' = BlockIds
  BY <1>1, <1>2, <1>4, <1>5, <1>6, TypesAfter
<1>8. lent'[b].size = 0 /\ \A x \in BlockIds \ {b} : lent'[x] = lent[x]
  BY <1>1, <1>2, Before DEF Unclaimed
<1>9. FreeListInv'
  BY <1>1, <1>2, <1>5, <1>8, Before, PuttingBack
<1>10. LentBlocksKeepTheirWords'
  <2>1. ASSUME NEW x \in BlockIds, NEW k \in 1 .. lent'[x].size
        PROVE  cell'[x][k] = lent'[x].words[k]
    <3>1. CASE x = b
      BY <1>8, <2>1, <3>1
    <3>2. CASE x # b
      BY <1>1, <1>5, <1>8, <2>1, <3>2, Before
    <3>3. QED
      BY <3>1, <3>2
  <2>2. QED
    BY <1>7, <2>1 DEF LentBlocksKeepTheirWords
<1>11. QED
  BY <1>7, <1>9, <1>10 DEF IInv

(* A store by the owner of a block.                                        *)
LEMMA ClientWriteOK ==
  ASSUME IInv, NEW b \in Blocks, NEW k \in 1 .. pool.bs, NEW v \in Words,
         ClientWrite(b, k, v)
  PROVE  IInv'
<1>1. Alive /\ b \in BlockIds /\ lent[b].size # 0 /\ k \in 1 .. lent[b].size
  BY DEF ClientWrite, Blocks, IsLent
<1> DEFINE old   == lent[b]
           words == [old.words EXCEPT ![k] = v]
<1>2. /\ pool' = pool
      /\ cell' = [cell EXCEPT ![b][k] = v]
      /\ owed' = owed
  BY DEF ClientWrite
<1>3. lent' = [lent EXCEPT ![b] = [size |-> old.size, words |-> words]]
  <2>1. old = [size |-> old.size, words |-> old.words]
    BY <1>1, Before
  <2>2. lent' = [lent EXCEPT ![b].words[k] = v]
    BY DEF ClientWrite
  <2>3. lent' = [lent EXCEPT ![b] = [old EXCEPT !.words = words]]
    BY <2>2
  <2>4. [old EXCEPT !.words = words] = [size |-> old.size, words |-> words]
    BY <2>1
  <2>5. QED
    BY <2>3, <2>4
<1>4. v \in Values /\ k \in WordIds
  BY <1>1, Before DEF Values, WordIds
<1>5. cell' \in [BlockIds -> [WordIds -> Values]]
  BY <1>1, <1>2, <1>4, Before
<1>6. words \in [1 .. old.size -> Values]
  BY <1>1, <1>4, Before
<1>7. lent' \in [BlockIds -> ClaimsOf(pool.bs)]
  BY <1>1, <1>3, <1>6, ClaimsAfter, Before
<1>8. TypeOK' /\ ParentIsSquare' /\ BlockIds' = BlockIds
  BY <1>1, <1>2, <1>5, <1>7, Before, TypesAfter
<1>9. \A x \in BlockIds : lent'[x].size = lent[x].size
  BY <1>1, <1>3, Before
<1>10. FreeListInv'
  <2>1. PICK len \in Nat : len = pool.n - pool.used
    BY <1>1, Before DEF FreeListInv
  <2>2. PICK s \in [1 .. len -> BlockIds] : IsFreeList(s, len)
    BY <1>1, <2>1, Before DEF FreeListInv
  <2>3. \A i \in 1 .. len : s[i] # b
    BY <1>1, <2>2 DEF IsFreeList, IsLent
  <2>4. \A i \in 1 .. len : cell'[s[i]] = cell[s[i]]
    BY <1>1, <1>2, <2>2, <2>3, Before
  <2>5. IsFreeList(s, len)'
    BY <1>2, <1>8, <1>9, <2>2, <2>4 DEF IsFreeList, IsLent
  <2>6. QED
    BY <1>1, <1>2, <1>8, <2>1, <2>2, <2>5, Before DEF FreeListInv
<1>11. LentBlocksKeepTheirWords'
  <2>1. ASSUME NEW x \in BlockIds, NEW i \in 1 .. lent'[x].size
        PROVE  cell'[x][i] = lent'[x].words[i]
    <3>1. i \in WordIds /\ cell[x][i] = lent[x].words[i] /\ i \in 1 .. lent[x].size
      BY <1>1, <1>9, <2>1, Before DEF WordIds
    <3>2. CASE x = b
      <4>1. lent'[x].words = words
        BY <1>1, <1>3, <3>2, Before
      <4>2. cell'[x] = [cell[x] EXCEPT ![k] = v]
        BY <1>1, <1>2, <3>2, Before
      <4>3. QED
        BY <1>1, <3>1, <3>2, <4>1, <4>2, Before
    <3>3. CASE x # b
      BY <1>1, <1>2, <1>3, <3>1, <3>3, Before
    <3>4. QED
      BY <3>2, <3>3
  <2>2. QED
    BY <1>8, <2>1 DEF LentBlocksKeepTheirWords
<1>12. QED
  BY <1>8, <1>10, <1>11 DEF IInv

(* The copy a realloc makes before it gives the old block back.            *)
LEMMA CopiedType ==
  ASSUME NEW c \in [BlockIds -> [WordIds -> Values]],
         NEW from \in BlockIds, NEW to \in BlockIds, NEW m \in Nat
  PROVE  /\ Copied(c, from, to, m) \in [BlockIds -> [WordIds -> Values]]
         /\ \A k \in WordIds :
              Copied(c, from, to, m)[to][k] = IF k <= m THEN c[from][k] ELSE c[to][k]
         /\ \A x \in BlockIds \ {to} : Copied(c, from, to, m)[x] = c[x]
<1> DEFINE row == [k \in WordIds |-> IF k <= m THEN c[from][k] ELSE c[to][k]]
<1>1. row \in [WordIds -> Values]
  OBVIOUS
<1>2. Copied(c, from, to, m) = [c EXCEPT ![to] = row]
  BY DEF Copied
<1>3. QED
  BY <1>1, <1>2

(* A realloc that falls back on alloc, copy and dealloc.                   *)
LEMMA ReallocOK ==
  ASSUME IInv, NEW b \in Blocks, NEW size \in Nat, Realloc(b, size)
  PROVE  IInv'
<1>1. Alive /\ b \in BlockIds /\ lent[b].size # 0
  BY DEF Realloc, Blocks, IsLent
<1>2. CASE size = 0
  BY <1>2, DeallocOK DEF Realloc, Refused
<1>3. CASE size > 0 /\ Refused(size)
  BY <1>3, StutterOK DEF Realloc
<1>4. CASE ~Refused(size)
  <2> DEFINE to    == pool.head
             old   == lent[b]
             taken == Taken(pool, cell)
  <2>0. PICK m \in Nat : m = IF old.size < size THEN old.size ELSE size
    BY <1>1, Before
  <2> DEFINE words == [k \in 1 .. size |-> IF k <= m THEN old.words[k] ELSE cell[to][k]]
  <2>1. /\ pool' = GotBack(taken, b)
        /\ cell' = Linked(Copied(cell, b, to, m), b, taken)
        /\ lent' = [lent EXCEPT ![to] = [size |-> size, words |-> words], ![b] = Unclaimed]
        /\ owed' = owed
    BY <1>4, <2>0 DEF Realloc, Refused, Move
  <2>2. to # Nil /\ size \in 1 .. pool.bs
    BY <1>1, <1>4, Before DEF Refused
  <2>3. to \in BlockIds /\ to # b
    BY <1>1, <2>2, TakenType
  <2>4. taken \in Pools /\ taken.n = pool.n /\ taken.bs = pool.bs
    BY <1>1, <2>2, TakenType
  <2>5. taken.used > 0 /\ taken.head = cell[to][1]
    BY <1>1, Before DEF Taken, Pools
  <2>6. pool' \in Pools /\ pool'.n = pool.n /\ pool'.bs = pool.bs
    BY <1>1, <2>1, <2>4, <2>5, GotBackType DEF BlockIds
  <2>7. PICK copied \in [BlockIds -> [WordIds -> Values]] :
           /\ copied = Copied(cell, b, to, m)
           /\ \A k \in WordIds : copied[to][k] = IF k <= m THEN cell[b][k] ELSE cell[to][k]
           /\ \A x \in BlockIds \ {to} : copied[x] = cell[x]
    <3> DEFINE copy == Copied(cell, b, to, m)
    <3>1. cell \in [BlockIds -> [WordIds -> Values]]
      BY <1>1, Before
    <3>2. /\ copy \in [BlockIds -> [WordIds -> Values]]
          /\ \A k \in WordIds : copy[to][k] = IF k <= m THEN cell[b][k] ELSE cell[to][k]
          /\ \A x \in BlockIds \ {to} : copy[x] = cell[x]
      BY <1>1, <2>3, <3>1, CopiedType
    <3>3. QED
      BY <3>2
  <2>8. /\ cell' \in [BlockIds -> [WordIds -> Values]]
        /\ cell'[b][1] = cell[to][1]
        /\ cell'[to] = copied[to]
        /\ \A x \in BlockIds \ {b, to} : cell'[x] = cell[x]
    <3>1. cell' = Linked(copied, b, taken) /\ 1 \in WordIds
      BY <1>1, <2>1, <2>7, Before
    <3>2. /\ cell' \in [BlockIds -> [WordIds -> Values]]
          /\ cell'[b][1] = taken.head
          /\ \A x \in BlockIds \ {b} : cell'[x] = copied[x]
      BY <1>1, <2>4, <3>1, LinkedType
    <3>3. QED
      BY <2>3, <2>5, <2>7, <3>2
  <2>9. words \in [1 .. size -> Values]
    <3>1. ASSUME NEW k \in 1 .. size
          PROVE  (IF k <= m THEN old.words[k] ELSE cell[to][k]) \in Values
      <4>1. k \in WordIds /\ (k <= m => k \in 1 .. old.size)
        BY <1>1, <2>0, <2>2, Before DEF WordIds
      <4>2. QED
        BY <1>1, <2>3, <4>1, Before
    <3>2. QED
      BY <3>1
  <2>10. /\ lent'[to] = [size |-> size, words |-> words]
         /\ lent'[b].size = 0
         /\ \A x \in BlockIds \ {b, to} : lent'[x] = lent[x]
    BY <1>1, <2>1, <2>3, Before DEF Unclaimed
  <2>11. lent' \in [BlockIds -> ClaimsOf(pool.bs)]
    <3>1. [size |-> size, words |-> words] \in ClaimsOf(pool.bs)
      <4>1. PICK w \in [1 .. size -> Values] : w = words
        BY <2>9
      <4>2. size \in 0 .. pool.bs /\ pool.bs \in Nat
        BY <1>1, <2>2, Before
      <4>3. [size |-> size, words |-> w] \in ClaimsOf(pool.bs)
        BY <4>1, <4>2, AClaim
      <4>4. QED
        BY <4>1, <4>3
    <3>2. Unclaimed \in ClaimsOf(pool.bs)
      <4>1. [k \in 1 .. 0 |-> Nil] \in [1 .. 0 -> Values] /\ 0 \in 0 .. pool.bs
        BY <1>1, Before
      <4>2. QED
        BY <1>1, <4>1, AClaim, Before DEF Unclaimed
    <3>3. QED
      BY <1>1, <2>1, <3>1, <3>2, ClaimsBefore
  <2>12. TypeOK' /\ ParentIsSquare' /\ BlockIds' = BlockIds
    BY SMTT(40), <1>1, <2>1, <2>6, <2>8, <2>11, TypesAfter
  <2>13. FreeListInv'
    <3>1. lent'[to].size # 0
      BY <2>2, <2>10
    <3>2. QED
      BY <1>1, <2>1, <2>2, <2>8, <2>10, <3>1, Before, TradingPlaces
  <2>14. LentBlocksKeepTheirWords'
    <3>1. ASSUME NEW x \in BlockIds, NEW k \in 1 .. lent'[x].size
          PROVE  cell'[x][k] = lent'[x].words[k]
      <4>1. CASE x = to
        <5>1. k \in 1 .. size /\ k \in WordIds
          BY <1>1, <2>2, <2>10, <3>1, <4>1, Before DEF WordIds
        <5>2. cell'[x][k] = IF k <= m THEN cell[b][k] ELSE cell[to][k]
          BY <2>7, <2>8, <4>1, <5>1
        <5>3. lent'[x].words[k] = IF k <= m THEN old.words[k] ELSE cell[to][k]
          BY <2>10, <4>1, <5>1
        <5>4. k <= m => cell[b][k] = old.words[k]
          <6>1. k <= m => k \in 1 .. old.size
            BY <1>1, <2>0, <5>1, Before
          <6>2. QED
            BY <1>1, <6>1, Before
        <5>5. QED
          BY <5>2, <5>3, <5>4
      <4>2. CASE x = b
        BY <2>10, <3>1, <4>2
      <4>3. CASE x \notin {b, to}
        BY <1>1, <2>8, <2>10, <3>1, <4>3, Before
      <4>4. QED
        BY <4>1, <4>2, <4>3
    <3>2. QED
      BY <2>12, <3>1 DEF LentBlocksKeepTheirWords
  <2>15. QED
    BY <2>12, <2>13, <2>14 DEF IInv
<1>5. QED
  BY <1>2, <1>3, <1>4 DEF Realloc

-----------------------------------------------------------------------------
(* Every step keeps the invariant, so every behaviour has it.              *)
THEOREM Inductive == IInv /\ [Next]_vars => IInv'
<1> SUFFICES ASSUME IInv, [Next]_vars PROVE IInv'
  OBVIOUS
<1>1. CASE UNCHANGED vars
  BY <1>1, StutterOK
<1>2. ASSUME NEW size \in Sizes, NEW n \in Counts, NEW granted \in 0 .. 3,
             New(size, n, granted)
      PROVE  IInv'
  BY <1>2, NewOK, PoolAssumption
<1>3. CASE Drop
  BY <1>3, DropOK
<1>4. CASE Reset
  BY <1>4, ResetOK
<1>5. ASSUME NEW size \in Sizes, Alloc(size)
      PROVE  IInv'
  BY <1>5, AllocOK, PoolAssumption
<1>6. ASSUME NEW size \in Sizes, NEW num \in Counts, Calloc(num, size)
      PROVE  IInv'
  BY <1>6, CallocOK, PoolAssumption
<1>7. ASSUME NEW size \in Sizes, NEW b \in Blocks, Realloc(b, size)
      PROVE  IInv'
  BY <1>7, ReallocOK, PoolAssumption
<1>8. ASSUME NEW b \in Blocks, Dealloc(b)
      PROVE  IInv'
  BY <1>8, DeallocOK
<1>9. ASSUME NEW b \in Blocks, NEW k \in WordIds, NEW v \in Words, ClientWrite(b, k, v)
      PROVE  IInv'
  BY <1>9, ClientWriteOK DEF WordIds
<1>10. QED
  BY <1>1, <1>2, <1>3, <1>4, <1>5, <1>6, <1>7, <1>8, <1>9 DEF Next

(* In every reachable state the four properties hold together: each is     *)
(* needed to show that a call keeps the others.                            *)
THEOREM Invariant == Spec => []IInv
<1>1. Init => IInv
  BY InitOK
<1>2. IInv /\ [Next]_vars => IInv'
  BY Inductive
<1>3. QED
  BY <1>1, <1>2, PTL DEF Spec

(* The pool's struct, its words and the parent's books stay of their       *)
(* types, whatever is asked of it.                                         *)
THEOREM TypeCorrect == Spec => []TypeOK
<1>1. IInv => TypeOK
  BY DEF IInv
<1>2. QED
  BY <1>1, Invariant, PTL

(* The links threaded through the free blocks list exactly the blocks      *)
(* nobody owns, in pools of any size and whatever the owners store.        *)
THEOREM FreeListExact == Spec => []FreeListInv
<1>1. IInv => FreeListInv
  BY DEF IInv
<1>2. QED
  BY <1>1, Invariant, PTL

(* No call on the pool and no other owner changes a word of a lent block.  *)
THEOREM LentBlocksAreSafe == Spec => []LentBlocksKeepTheirWords
<1>1. IInv => LentBlocksKeepTheirWords
  BY DEF IInv
<1>2. QED
  BY <1>1, Invariant, PTL

(* pool_new and pool_drop return to the parent all that they took, however *)
(* many of the three requests were granted.                                *)
THEOREM ParentGetsAllBack == Spec => []ParentIsSquare
<1>1. IInv => ParentIsSquare
  BY DEF IInv
<1>2. QED
  BY <1>1, Invariant, PTL

(* Naturals that are some have a least.                                    *)
LEMMA LeastNatural ==
  ASSUME NEW X \in SUBSET Nat, X # {}
  PROVE  \E n \in X : \A k \in X : n <= k
<1>1. IsWellFoundedOn(OpToRel(<, Nat), Nat)
  BY NatLessThanWellFounded
<1>2. PICK R : R = OpToRel(<, Nat)
  OBVIOUS
<1>3. \A x, y \in Nat : y < x => <<y, x>> \in R
  BY <1>2 DEF OpToRel
<1>4. X \subseteq Nat /\ IsWellFoundedOn(R, Nat)
  BY <1>1, <1>2
<1>5. PICK x \in X : \A y \in X : ~ (<<y, x>> \in R)
  BY <1>4, WFMin
<1>6. ASSUME NEW y \in X
      PROVE  x <= y
  <2>1. x \in Nat /\ y \in Nat
    OBVIOUS
  <2>2. ~ (y < x)
    BY <1>3, <1>5, <2>1, Zenon
  <2>3. QED
    BY <2>1, <2>2
<1>7. QED
  BY <1>6

(* A set of naturals that has zero and a next one for each has them all:   *)
(* induction, over the set of the numbers a formula holds of.              *)
LEMMA Induction ==
  ASSUME NEW X \in SUBSET Nat, 0 \in X, \A n \in X : n + 1 \in X
  PROVE  X = Nat
<1>1. SUFFICES ASSUME Nat \ X # {}
      PROVE  FALSE
  OBVIOUS
<1>2. PICK n \in Nat \ X : \A k \in Nat \ X : n <= k
  BY <1>1, LeastNatural
<1>3. n # 0 /\ n - 1 \in Nat
  OBVIOUS
<1>4. n - 1 \in X
  BY <1>2, <1>3
<1>5. (n - 1) + 1 = n
  OBVIOUS
<1>6. QED
  BY <1>4, <1>5

-----------------------------------------------------------------------------
(* Numbers.                                                                *)

(* What the proofs know of the constants.                                  *)
LEMMA TheConstants ==
  /\ Wd!SizeMaxOf(W) \in Int /\ Wd!SizeMaxOf(W) + 1 = Wd!WordEnd(W) /\ Wd!WordEnd(W) \in Nat
  /\ Requests \subseteq Nat /\ Times \subseteq Nat
  /\ \A n \in Requests : n <= Wd!SizeMaxOf(W)
  /\ TableSize <= Wd!SizeMaxOf(W) /\ CtxSize <= Wd!SizeMaxOf(W)
<1>1. PICK e \in Nat : e = Wd!WordEnd(W)
  BY WrappingAssumption
<1>2. Wd!SizeMaxOf(W) = e - 1
  BY <1>1 DEF Wd!SizeMaxOf, Wd!WordEnd
<1>3. Requests \cup Times \cup {TableSize} \subseteq 0 .. e - 1
  BY <1>2, WrappingAssumption
<1>4. QED
  BY <1>1, <1>2, <1>3 DEF TableSize, CtxSize

(* Rounding down to a multiple.                                            *)
LEMMA RoundingDown ==
  ASSUME NEW x \in Nat, NEW a \in Nat, a > 0
  PROVE  /\ x % a \in 0 .. a - 1
         /\ x - (x % a) \in Nat
         /\ (x - (x % a)) % a = 0
<1>1. PICK q, r \in Int : q = x \div a /\ r = x % a
  OBVIOUS
<1>2. r \in 0 .. a - 1 /\ x = a * q + r
  BY <1>1
<1>3. q >= 0
  BY <1>2
<1>4. (a * q) % a = 0
  BY <1>3
<1>5. x - r = a * q /\ a * q >= 0
  BY <1>2, <1>3
<1>6. QED
  BY <1>1, <1>2, <1>4, <1>5

(* Multiples of a common divisor.                                          *)
LEMMA SumOfMultiples ==
  ASSUME NEW x \in Nat, NEW y \in Nat, NEW a \in Nat, a > 0, x % a = 0, y % a = 0
  PROVE  (x + y) % a = 0
<1>1. PICK p \in Int : p = x \div a
  OBVIOUS
<1>2. PICK q \in Int : q = y \div a
  OBVIOUS
<1>3. x = a * p /\ y = a * q
  BY <1>1, <1>2
<1>4. x + y = a * (p + q)
  BY <1>3
<1>5. (a * (p + q)) % a = 0
  OBVIOUS
<1>6. QED
  BY <1>4, <1>5

(* A number of multiples is one.                                           *)
LEMMA MultipleOfMultiple ==
  ASSUME NEW i \in Nat, NEW x \in Nat, NEW a \in Nat, a > 0, x % a = 0
  PROVE  (i * x) % a = 0
<1>1. PICK p \in Int : p = x \div a
  OBVIOUS
<1>2. x = a * p
  BY <1>1
<1>3. i * x = a * (i * p) /\ i * p \in Int
  BY <1>2
<1>4. PICK q \in Int : q = i * p
  BY <1>3
<1>5. (a * q) % a = 0
  OBVIOUS
<1>6. QED
  BY <1>3, <1>4, <1>5

(* Every place ends where the next one begins, at the latest.              *)
LEMMA PlacesInARow ==
  ASSUME NEW i \in 1 .. Places
  PROVE  /\ Start(i) \in Nat /\ Start(i) % Unit = 0
         /\ PlaceSize <= Start(i) /\ Start(i) + PlaceSize <= PlaceSize * (Places + 1)
         /\ \A j \in 1 .. Places : i < j => Start(i) + PlaceSize <= Start(j)
<1>1. PICK s \in Nat : s = PlaceSize /\ s > 0 /\ s % Unit = 0
  BY WrappingAssumption DEF Unit
<1>2. Places \in Nat /\ i \in Nat /\ i >= 1 /\ i <= Places
  BY WrappingAssumption
<1>3. i * s \in Nat /\ (i * s) % Unit = 0
  <2>1. PICK a \in Nat : a = Unit /\ a > 0 /\ s % a = 0
    BY <1>1 DEF Unit
  <2>2. (i * s) % a = 0
    BY <1>1, <1>2, <2>1, MultipleOfMultiple
  <2>3. QED
    BY <1>1, <1>2, <2>1, <2>2
<1>4. ASSUME NEW x \in Nat, NEW y \in Nat, x < y
      PROVE  x * s + s <= y * s
  <2>1. PICK d \in Nat : y = x + 1 + d
    <3>1. y - x - 1 \in Nat /\ y = x + 1 + (y - x - 1)
      BY <1>4
    <3>2. QED
      BY <3>1
  <2>2. y * s = x * s + s + d * s /\ d * s >= 0
    BY <1>1, <2>1
  <2>3. QED
    BY <1>1, <2>2
<1>5. s <= i * s
  BY <1>1, <1>2, <1>4
<1>6. i * s + s <= s * (Places + 1)
  <2>1. i * s + s <= (Places + 1) * s
    BY <1>2, <1>4
  <2>2. QED
    BY <1>1, <1>2, <2>1
<1>7. QED
  BY <1>1, <1>2, <1>3, <1>4, <1>5, <1>6 DEF Start

-----------------------------------------------------------------------------
(* The memory of the heap.                                                 *)

Cells == PlaceSize .. PlaceSize * (Places + 1) - 1

(* A block lent at b, of n words, lies in one place.                       *)
InPlace(b, n) ==
  \E i \in 1 .. Places, z \in Skews : b = Start(i) + z /\ z + n <= PlaceSize

MemOK(m) ==
  /\ m = [lent |-> m.lent, word |-> m.word]
  /\ m.word = [p \in Cells |-> m.word[p]]
  /\ m.lent = [b \in DOMAIN m.lent |-> m.lent[b]]
  /\ \A b \in DOMAIN m.lent : m.lent[b] \in Nat \ {0} /\ InPlace(b, m.lent[b])
  /\ \A i \in 1 .. Places, y, z \in Skews :
       Start(i) + y \in DOMAIN m.lent /\ Start(i) + z \in DOMAIN m.lent => y = z

(* Where a block may lie.                                                  *)
LEMMA BlocksInPlace ==
  ASSUME NEW b, NEW n \in Nat, n > 0, InPlace(b, n)
  PROVE  /\ b \in Nat /\ b % Unit = 0 /\ WordsAt(b, n) \subseteq Cells
         /\ PlaceSize <= b /\ b + n <= PlaceSize * (Places + 1)
<1>1. PICK i \in 1 .. Places, z \in Skews : b = Start(i) + z /\ z + n <= PlaceSize
  BY DEF InPlace
<1>2. PICK s \in Nat : s = Start(i) /\ s % 2 = 0 /\ PlaceSize <= s /\ s + PlaceSize <= PlaceSize * (Places + 1)
  BY PlacesInARow DEF Unit
<1>3. PICK ps \in Nat : ps = PlaceSize
  BY WrappingAssumption
<1>4. PICK e \in Nat : e = PlaceSize * (Places + 1)
  BY WrappingAssumption
<1>5. z \in {0, 2}
  BY DEF Skews, Unit
<1>6. b \in Nat /\ b % 2 = 0 /\ ps <= b /\ b + n <= e
  BY <1>1, <1>2, <1>3, <1>4, <1>5
<1>7. WordsAt(b, n) \subseteq Cells
  BY <1>3, <1>4, <1>6 DEF WordsAt, Cells
<1>8. QED
  BY <1>3, <1>4, <1>6, <1>7 DEF Unit

(* Two blocks of the heap have no word in common.                          *)
LEMMA BlocksApart ==
  ASSUME NEW m, MemOK(m), NEW b \in DOMAIN m.lent, NEW c \in DOMAIN m.lent, b # c
  PROVE  b + m.lent[b] <= c \/ c + m.lent[c] <= b
<1>1. PICK k, l \in Nat : k = m.lent[b] /\ l = m.lent[c]
  BY DEF MemOK
<1>2. PICK i \in 1 .. Places, y \in Skews : b = Start(i) + y /\ y + k <= PlaceSize
  BY <1>1 DEF MemOK, InPlace
<1>3. PICK j \in 1 .. Places, z \in Skews : c = Start(j) + z /\ z + l <= PlaceSize
  BY <1>1 DEF MemOK, InPlace
<1>4. i # j
  <2>1. SUFFICES ASSUME i = j
        PROVE  FALSE
    OBVIOUS
  <2>2. y = z
    BY <1>2, <1>3, <2>1 DEF MemOK
  <2>3. QED
    BY <1>2, <1>3, <2>1, <2>2
<1>5. PICK s, t, ps \in Nat : s = Start(i) /\ t = Start(j) /\ ps = PlaceSize
  BY PlacesInARow, WrappingAssumption
<1>6. s + ps <= t \/ t + ps <= s
  <2>1. i < j \/ j < i
    BY <1>4, WrappingAssumption
  <2>2. i < j => s + ps <= t
    BY <1>5, PlacesInARow
  <2>3. j < i => t + ps <= s
    BY <1>5, PlacesInARow
  <2>4. QED
    BY <2>1, <2>2, <2>3
<1>7. y \in {0, 2} /\ z \in {0, 2}
  BY DEF Skews, Unit
<1>8. QED
  BY <1>1, <1>2, <1>3, <1>5, <1>6, <1>7

(* What a block that is lent anew leaves alone: n words at b are its.      *)
GrownBy(m, m2, b, n) ==
  /\ MemOK(m2)
  /\ b \notin DOMAIN m.lent /\ n \in Nat \ {0}
  /\ m2.lent = [x \in DOMAIN m.lent \cup {b} |-> IF x = b THEN n ELSE m.lent[x]]
  /\ \A p \in Cells : p \notin WordsAt(b, n) => m2.word[p] = m.word[p]

(* malloc lends nothing, or a block of its own.                            *)
LEMMA MallocGrows ==
  ASSUME NEW m, MemOK(m), NEW n \in Nat, n > 0, NEW ans \in MallocAnswers
  PROVE  \/ Malloc(m, n, ans) = Found(NoBlock, m)
         \/ \E b \in Nat : /\ Malloc(m, n, ans).at = b
                           /\ GrownBy(m, Malloc(m, n, ans).m, b, n)
<1>1. PICK free : free = FreePlaces(m.lent)
  OBVIOUS
<1>2. PICK i : i = CHOOSE x \in free : \A y \in free : x <= y
  OBVIOUS
<1>3. CASE ans = Refuses \/ free = {} \/ ans + n > PlaceSize
  BY <1>1, <1>3 DEF Malloc
<1>4. CASE ~ (ans = Refuses \/ free = {} \/ ans + n > PlaceSize)
  <2>1. free \subseteq 1 .. Places /\ free # {} /\ free \in SUBSET Nat
    BY <1>1, <1>4, WrappingAssumption DEF FreePlaces
  <2>2. PICK k \in free : \A y \in free : k <= y
    BY <2>1, LeastNatural
  <2>3. i \in free
    BY <1>2, <2>2
  <2>4. i \in 1 .. Places /\ \A z \in Skews : Start(i) + z \notin DOMAIN m.lent
    BY <1>1, <2>3 DEF FreePlaces
  <2>5. ans \in Skews /\ ans + n <= PlaceSize /\ ans \in {0, 2}
    BY <1>4, WrappingAssumption DEF MallocAnswers, Skews, Unit
  <2>6. PICK b : b = Start(i) + ans
    OBVIOUS
  <2>7. PICK l : l = [x \in DOMAIN m.lent \cup {b} |-> IF x = b THEN n ELSE m.lent[x]]
    OBVIOUS
  <2>8. PICK w : w = Filled(m.word, WordsAt(b, n), Stale)
    OBVIOUS
  <2>9. PICK m2 : m2 = [lent |-> l, word |-> w]
    OBVIOUS
  <2>10. Malloc(m, n, ans) = Found(b, m2)
    <3>1. Start(CHOOSE x \in FreePlaces(m.lent) : \A y \in FreePlaces(m.lent) : x <= y) + ans = b
      BY <1>1, <1>2, <2>6
    <3>2. ~ (ans = Refuses \/ FreePlaces(m.lent) = {} \/ ans + n > PlaceSize)
      BY <1>1, <1>4
    <3>3. QED
      BY <3>1, <3>2, <2>7, <2>8, <2>9 DEF Malloc
  <2>11. Malloc(m, n, ans).at = b /\ Malloc(m, n, ans).m = m2
    BY <2>10 DEF Found
  <2>12. b \notin DOMAIN m.lent /\ InPlace(b, n)
    BY <2>4, <2>5, <2>6 DEF InPlace
  <2>13. b \in Nat
    BY <2>12, BlocksInPlace
  <2>14. w = [p \in Cells |-> IF p \in WordsAt(b, n) THEN Stale ELSE m.word[p]]
    <3>1. DOMAIN m.word = Cells
      BY DEF MemOK
    <3>2. QED
      BY <2>8, <3>1 DEF Filled
  <2>15. MemOK(m2)
    <3>1. m2 = [lent |-> m2.lent, word |-> m2.word]
      BY <2>9
    <3>2. m2.word = [p \in Cells |-> m2.word[p]]
      BY <2>9, <2>14
    <3>3. m2.lent = [x \in DOMAIN m2.lent |-> m2.lent[x]]
      BY <2>9, <2>7
    <3>4. ASSUME NEW x \in DOMAIN m2.lent
          PROVE  m2.lent[x] \in Nat \ {0} /\ InPlace(x, m2.lent[x])
      <4>1. CASE x = b
        BY <4>1, <2>7, <2>9, <2>12
      <4>2. CASE x # b
        BY <4>2, <2>7, <2>9 DEF MemOK
      <4>3. QED
        BY <4>1, <4>2
    <3>5. ASSUME NEW j \in 1 .. Places, NEW y \in Skews, NEW z \in Skews,
                 Start(j) + y \in DOMAIN m2.lent, Start(j) + z \in DOMAIN m2.lent
          PROVE  y = z
      <4>1. CASE j = i
        <5>1. Start(i) + y = b /\ Start(i) + z = b
          BY <2>4, <2>7, <2>9, <3>5, <4>1
        <5>2. PICK s \in Nat : s = Start(i)
          BY <2>4, PlacesInARow
        <5>3. y \in {0, 2} /\ z \in {0, 2}
          BY DEF Skews, Unit
        <5>4. QED
          BY <5>1, <5>2, <5>3
      <4>2. CASE j # i
        <5>1. PICK s, t, ps \in Nat : s = Start(i) /\ t = Start(j) /\ ps = PlaceSize
          BY <2>4, PlacesInARow, WrappingAssumption
        <5>2. s + ps <= t \/ t + ps <= s
          <6>1. i < j \/ j < i
            BY <4>2, <2>4, WrappingAssumption
          <6>2. i < j => s + ps <= t
            BY <2>4, <5>1, PlacesInARow
          <6>3. j < i => t + ps <= s
            BY <2>4, <5>1, PlacesInARow
          <6>4. QED
            BY <6>1, <6>2, <6>3
        <5>3. y \in {0, 2} /\ z \in {0, 2} /\ ps > 2
          BY <5>1, WrappingAssumption DEF Skews, Unit
        <5>4. t + y # b /\ t + z # b
          BY <5>1, <5>2, <5>3, <2>5, <2>6
        <5>5. Start(j) + y \in DOMAIN m.lent /\ Start(j) + z \in DOMAIN m.lent
          BY <5>1, <5>4, <3>5, <2>7, <2>9
        <5>6. QED
          BY <5>5 DEF MemOK
      <4>3. QED
        BY <4>1, <4>2
    <3>6. \A x \in DOMAIN m2.lent : m2.lent[x] \in Nat \ {0} /\ InPlace(x, m2.lent[x])
      BY <3>4
    <3>7. \A j \in 1 .. Places, y, z \in Skews :
            Start(j) + y \in DOMAIN m2.lent /\ Start(j) + z \in DOMAIN m2.lent => y = z
      BY <3>5
    <3>8. QED
      BY <3>1, <3>2, <3>3, <3>6, <3>7 DEF MemOK
  <2>16. \A p \in Cells : p \notin WordsAt(b, n) => m2.word[p] = m.word[p]
    BY <2>9, <2>14
  <2>17. GrownBy(m, m2, b, n)
    BY <2>7, <2>9, <2>12, <2>15, <2>16 DEF GrownBy
  <2>18. QED
    BY <2>11, <2>13, <2>17
<1>5. QED
  BY <1>3, <1>4

(* What giving back the block at b leaves alone.                           *)
ShrunkBy(m, m2, b) ==
  /\ MemOK(m2)
  /\ m2.lent = [x \in DOMAIN m.lent \ {b} |-> m.lent[x]]
  /\ \A p \in Cells : p \notin WordsAt(b, m.lent[b]) => m2.word[p] = m.word[p]

(* free takes back a block that is lent, and that alone.                   *)
LEMMA FreeShrinks ==
  ASSUME NEW m, MemOK(m), NEW b \in DOMAIN m.lent
  PROVE  ShrunkBy(m, Free(m, b), b)
<1>1. PICK l : l = [x \in DOMAIN m.lent \ {b} |-> m.lent[x]]
  OBVIOUS
<1>2. PICK w : w = Filled(m.word, WordsAt(b, m.lent[b]), Stale)
  OBVIOUS
<1>3. PICK m2 : m2 = [lent |-> l, word |-> w]
  OBVIOUS
<1>4. Free(m, b) = m2
  BY <1>1, <1>2, <1>3 DEF Free
<1>5. w = [p \in Cells |-> IF p \in WordsAt(b, m.lent[b]) THEN Stale ELSE m.word[p]]
  <2>1. DOMAIN m.word = Cells
    BY DEF MemOK
  <2>2. QED
    BY <1>2, <2>1 DEF Filled
<1>6. MemOK(m2)
  <2>1. m2 = [lent |-> m2.lent, word |-> m2.word]
    BY <1>3
  <2>2. m2.word = [p \in Cells |-> m2.word[p]]
    BY <1>3, <1>5
  <2>3. m2.lent = [x \in DOMAIN m2.lent |-> m2.lent[x]]
    BY <1>1, <1>3
  <2>4. \A x \in DOMAIN m2.lent : x \in DOMAIN m.lent /\ m2.lent[x] = m.lent[x]
    BY <1>1, <1>3
  <2>5. \A x \in DOMAIN m2.lent : m2.lent[x] \in Nat \ {0} /\ InPlace(x, m2.lent[x])
    BY <2>4 DEF MemOK
  <2>6. \A j \in 1 .. Places, y, z \in Skews :
          Start(j) + y \in DOMAIN m2.lent /\ Start(j) + z \in DOMAIN m2.lent => y = z
    BY <2>4 DEF MemOK
  <2>7. QED
    BY <2>1, <2>2, <2>3, <2>5, <2>6 DEF MemOK
<1>7. QED
  BY <1>1, <1>3, <1>4, <1>5, <1>6 DEF ShrunkBy

-----------------------------------------------------------------------------
(* The ways home.                                                          *)

Tables ==
  {t \in [kind : {"log", "aligned"}, alignment : Alignments \cup {Unit}, ctx : Nat, obj : Nat] :
     t.kind = "aligned" => t.alignment \in Alignments}

(* A way is what a block is on each level it goes through: where it begins *)
(* there and how long it is. Through a log it passes as it is.             *)
WayType(w) ==
  /\ w.lvl \in Nat
  /\ w.at \in [0 .. w.lvl -> Nat]
  /\ w.size \in [0 .. w.lvl -> Nat \ {0}]

PassesLog(w, j) == w.at[j] = w.at[j - 1] /\ w.size[j] = w.size[j - 1]

PassesAligned(words, w, j, a) ==
  /\ words[w.at[j] - Ptr] = w.at[j - 1]
  /\ w.size[j - 1] = w.size[j] + a
  /\ w.size[j - 1] = ParentSize(w.size[j], a)
  /\ w.at[j - 1] < w.at[j]
  /\ w.at[j] + w.size[j] <= w.at[j - 1] + w.size[j - 1]
  /\ w.at[j] % a = 0

Passes(st, words, w, j) ==
  IF st[j].kind = "log" THEN PassesLog(w, j) ELSE PassesAligned(words, w, j, st[j].alignment)

Way(st, words, w) ==
  /\ WayType(w)
  /\ w.lvl <= Len(st)
  /\ \A j \in 1 .. w.lvl : Passes(st, words, w, j)

(* What is i levels further down on a way begins no later and ends no      *)
(* earlier.                                                                *)
LEMMA Nested ==
  ASSUME NEW st, NEW words, NEW w, Way(st, words, w),
         NEW i \in 0 .. w.lvl, NEW j \in 0 .. w.lvl, i <= j
  PROVE  /\ w.at[i] <= w.at[j]
         /\ w.at[j] + w.size[j] <= w.at[i] + w.size[i]
<1>1. PICK top \in Nat, at \in [0 .. w.lvl -> Nat], size \in [0 .. w.lvl -> Nat] :
        top = w.lvl /\ at = w.at /\ size = w.size
  <2>1. w.lvl \in Nat /\ w.at \in [0 .. w.lvl -> Nat] /\ w.size \in [0 .. w.lvl -> Nat]
    BY DEF Way, WayType
  <2>2. QED
    BY <2>1
<1>2. \A k \in 1 .. top : at[k - 1] <= at[k] /\ at[k] + size[k] <= at[k - 1] + size[k - 1]
  <2>1. ASSUME NEW k \in 1 .. top
        PROVE  at[k - 1] <= at[k] /\ at[k] + size[k] <= at[k - 1] + size[k - 1]
    <3>1. Passes(st, words, w, k)
      BY <1>1 DEF Way
    <3>2. k \in 0 .. top /\ k - 1 \in 0 .. top
      BY <1>1
    <3>3. PICK x, y, l, n \in Nat : x = at[k - 1] /\ y = at[k] /\ l = size[k - 1] /\ n = size[k]
      BY <1>1, <3>2
    <3>4. (y = x /\ n = l) \/ (x < y /\ y + n <= x + l)
      BY <1>1, <3>1, <3>3 DEF Passes, PassesLog, PassesAligned
    <3>5. QED
      BY <3>3, <3>4
  <2>2. QED
    BY <2>1
<1>3. PICK X : X = {d \in Nat : i + d <= top =>
                      at[i] <= at[i + d] /\ at[i + d] + size[i + d] <= at[i] + size[i]}
  OBVIOUS
<1>4. i \in Nat /\ j \in Nat /\ i <= top /\ j <= top
  BY <1>1
<1>5. 0 \in X
  BY <1>1, <1>3, <1>4
<1>6. ASSUME NEW d \in X
      PROVE  d + 1 \in X
  <2>1. d \in Nat /\ d + 1 \in Nat
    BY <1>3
  <2>2. CASE ~ (i + (d + 1) <= top)
    BY <1>3, <2>1, <2>2
  <2>3. CASE i + (d + 1) <= top
    <3>1. PICK k \in 1 .. top : k = i + d + 1 /\ k - 1 = i + d /\ i + (d + 1) = k
      BY <1>4, <2>1, <2>3, <1>1
    <3>2. at[i] <= at[k - 1] /\ at[k - 1] + size[k - 1] <= at[i] + size[i]
      BY <1>3, <1>4, <2>1, <2>3, <3>1, <1>1
    <3>3. at[k - 1] <= at[k] /\ at[k] + size[k] <= at[k - 1] + size[k - 1]
      BY <1>2
    <3>4. i \in 0 .. top /\ k \in 0 .. top /\ k - 1 \in 0 .. top
      BY <1>1, <3>1
    <3>5. at[i] \in Nat /\ at[k] \in Nat /\ at[k - 1] \in Nat
          /\ size[i] \in Nat /\ size[k] \in Nat /\ size[k - 1] \in Nat
      BY <1>1, <3>4
    <3>6. at[i] <= at[k] /\ at[k] + size[k] <= at[i] + size[i]
      BY <3>2, <3>3, <3>5
    <3>7. QED
      BY <1>3, <2>1, <3>1, <3>6
  <2>4. QED
    BY <2>2, <2>3
<1>7. X \in SUBSET Nat
  BY <1>3
<1>8. X = Nat
  BY <1>5, <1>6, <1>7, Induction
<1>9. j - i \in X /\ i + (j - i) = j
  BY <1>4, <1>8
<1>10. QED
  BY <1>1, <1>3, <1>4, <1>9

(* The words a way leads through, and no others: those of the heap's block *)
(* but for the ones that are the client's.                                 *)
LEMMA WaysStay ==
  ASSUME NEW st, NEW words, NEW words2, NEW w, Way(st, words, w),
         \A p \in WordsAt(w.at[0], w.size[0]) \ WordsAt(w.at[w.lvl], w.size[w.lvl]) :
           words2[p] = words[p]
  PROVE  Way(st, words2, w)
<1>1. PICK top \in Nat, at \in [0 .. w.lvl -> Nat], size \in [0 .. w.lvl -> Nat] :
        top = w.lvl /\ at = w.at /\ size = w.size
  <2>1. w.lvl \in Nat /\ w.at \in [0 .. w.lvl -> Nat] /\ w.size \in [0 .. w.lvl -> Nat]
    BY DEF Way, WayType
  <2>2. QED
    BY <2>1
<1>2. ASSUME NEW j \in 1 .. w.lvl
      PROVE  Passes(st, words2, w, j)
  <2>1. Passes(st, words, w, j)
    BY DEF Way
  <2>2. CASE st[j].kind = "log"
    BY <2>1, <2>2 DEF Passes
  <2>3. CASE st[j].kind # "log"
    <3>1. PassesAligned(words, w, j, st[j].alignment)
      BY <2>1, <2>3 DEF Passes
    <3>2. 0 \in 0 .. w.lvl /\ j \in 0 .. w.lvl /\ j - 1 \in 0 .. w.lvl /\ w.lvl \in 0 .. w.lvl
          /\ 0 <= j - 1 /\ j <= w.lvl
      BY <1>1
    <3>3. at[0] <= at[j - 1] /\ at[j - 1] + size[j - 1] <= at[0] + size[0]
      BY <3>2, <1>1, Nested
    <3>4. at[j] <= at[top]
      BY <3>2, <1>1, Nested
    <3>5. at[j - 1] < at[j] /\ at[j] + size[j] <= at[j - 1] + size[j - 1]
      BY <3>1, <1>1 DEF PassesAligned
    <3>6. PICK a0, s0, aj, sj, ai, si, ak, sk \in Nat :
            /\ a0 = at[0] /\ s0 = size[0] /\ aj = at[j] /\ sj = size[j]
            /\ ai = at[j - 1] /\ si = size[j - 1] /\ ak = at[top] /\ sk = size[top]
      BY <1>1, <3>2
    <3>7. aj - 1 \in (a0 .. a0 + s0 - 1) \ (ak .. ak + sk - 1)
      <4>1. a0 <= ai /\ ai + si <= a0 + s0 /\ aj <= ak /\ ai < aj /\ aj + sj <= ai + si
        BY <3>3, <3>4, <3>5, <3>6, Zenon
      <4>2. QED
        BY <4>1
    <3>8. words2[w.at[j] - 1] = words[w.at[j] - 1]
      BY <1>1, <3>6, <3>7 DEF WordsAt
    <3>9. PassesAligned(words2, w, j, st[j].alignment)
      BY <3>1, <3>8 DEF PassesAligned, Ptr
    <3>10. QED
      BY <2>3, <3>9 DEF Passes
  <2>4. QED
    BY <2>2, <2>3
<1>3. QED
  BY <1>2 DEF Way

(* A way leads from the block at its top home.                             *)
LEMMA HomeIsTheEnd ==
  ASSUME wrap \in Seq(Tables), NEW words, NEW w, Way(wrap, words, w)
  PROVE  HomeOf(w.lvl, words, w.at[w.lvl], w.size[w.lvl])
           = [at |-> w.at[0], size |-> w.size[0]]
<1>1. PICK k \in Nat : k = w.lvl
  BY DEF Way, WayType
<1>2. PICK p, n : p = w.at[k] /\ n = w.size[k]
  OBVIOUS
<1>3. PICK h : h = [j \in 0 .. k |-> [at |-> w.at[j], size |-> w.size[j]]]
  OBVIOUS
<1>4. ASSUME NEW j \in 0 .. k, j # k
      PROVE  h[j] = IF wrap[j + 1].kind = "log" THEN h[j + 1]
                    ELSE [at |-> words[h[j + 1].at - Ptr],
                          size |-> ParentSize(h[j + 1].size, wrap[j + 1].alignment)]
  <2>1. j + 1 \in 1 .. k /\ j + 1 \in 0 .. k /\ (j + 1) - 1 = j
    BY <1>4
  <2>2. Passes(wrap, words, w, j + 1)
    BY <1>1, <2>1 DEF Way
  <2>3. h[j] = [at |-> w.at[j], size |-> w.size[j]]
        /\ h[j + 1] = [at |-> w.at[j + 1], size |-> w.size[j + 1]]
    BY <1>3, <2>1
  <2>4. CASE wrap[j + 1].kind = "log"
    BY <2>1, <2>2, <2>3, <2>4 DEF Passes, PassesLog
  <2>5. CASE wrap[j + 1].kind # "log"
    BY <2>1, <2>2, <2>3, <2>5 DEF Passes, PassesAligned
  <2>6. QED
    BY <2>4, <2>5
<1>5. h = [j \in 0 .. k |->
             IF j = k THEN [at |-> p, size |-> n]
             ELSE IF wrap[j + 1].kind = "log" THEN h[j + 1]
             ELSE [at |-> words[h[j + 1].at - Ptr],
                   size |-> ParentSize(h[j + 1].size, wrap[j + 1].alignment)]]
  <2>1. k \in 0 .. k /\ h[k] = [at |-> p, size |-> n]
    BY <1>1, <1>2, <1>3
  <2>2. \A j \in 0 .. k : h[j] = IF j = k THEN [at |-> p, size |-> n]
             ELSE IF wrap[j + 1].kind = "log" THEN h[j + 1]
             ELSE [at |-> words[h[j + 1].at - Ptr],
                   size |-> ParentSize(h[j + 1].size, wrap[j + 1].alignment)]
    BY <1>4, <2>1
  <2>3. h = [j \in 0 .. k |-> h[j]]
    BY <1>3
  <2>4. QED
    BY <2>2, <2>3, Zenon
<1>6. PICK g : g = CHOOSE f : f = [j \in 0 .. k |->
             IF j = k THEN [at |-> p, size |-> n]
             ELSE IF wrap[j + 1].kind = "log" THEN f[j + 1]
             ELSE [at |-> words[f[j + 1].at - Ptr],
                   size |-> ParentSize(f[j + 1].size, wrap[j + 1].alignment)]]
  OBVIOUS
<1>7. g = [j \in 0 .. k |->
             IF j = k THEN [at |-> p, size |-> n]
             ELSE IF wrap[j + 1].kind = "log" THEN g[j + 1]
             ELSE [at |-> words[g[j + 1].at - Ptr],
                   size |-> ParentSize(g[j + 1].size, wrap[j + 1].alignment)]]
  BY <1>5, <1>6
<1>8. PICK X : X = {d \in Nat : d <= k => g[k - d] = h[k - d]}
  OBVIOUS
<1>9. 0 \in X
  <2>1. k \in 0 .. k /\ k - 0 = k
    OBVIOUS
  <2>2. g[k] = h[k]
    BY <1>5, <1>7, <2>1
  <2>3. QED
    BY <1>8, <2>1, <2>2
<1>10. ASSUME NEW d \in X
       PROVE  d + 1 \in X
  <2>1. d \in Nat /\ d + 1 \in Nat
    BY <1>8
  <2>2. CASE ~ (d + 1 <= k)
    BY <1>8, <2>1, <2>2
  <2>3. CASE d + 1 <= k
    <3>1. PICK j \in 0 .. k : j = k - (d + 1) /\ j # k /\ j + 1 = k - d
      BY <2>1, <2>3
    <3>2. g[j + 1] = h[j + 1]
      BY <1>8, <2>1, <2>3, <3>1
    <3>3. g[j] = IF wrap[j + 1].kind = "log" THEN g[j + 1]
                 ELSE [at |-> words[g[j + 1].at - Ptr],
                       size |-> ParentSize(g[j + 1].size, wrap[j + 1].alignment)]
      BY <1>7, <3>1
    <3>4. g[j] = h[j]
      BY <1>4, <3>1, <3>2, <3>3
    <3>5. QED
      BY <1>8, <2>1, <3>1, <3>4
  <2>4. QED
    BY <2>2, <2>3
<1>11. X = Nat
  <2>1. X \in SUBSET Nat
    BY <1>8
  <2>2. QED
    BY <1>9, <1>10, <2>1, Induction
<1>12. k \in X /\ k - k = 0
  BY <1>11
<1>13. g[0] = h[0] /\ 0 \in 0 .. k
  BY <1>8, <1>12
<1>14. HomeOf(k, words, p, n) = g[0]
  BY <1>6 DEF HomeOf
<1>15. QED
  BY <1>1, <1>2, <1>3, <1>13, <1>14

-----------------------------------------------------------------------------
(* Asking for a block.                                                     *)

(* A way that goes up one level, to a block of n words at p.               *)
Longer(w, p, n) ==
  [lvl  |-> w.lvl + 1,
   at   |-> [j \in 0 .. w.lvl + 1 |-> IF j = w.lvl + 1 THEN p ELSE w.at[j]],
   size |-> [j \in 0 .. w.lvl + 1 |-> IF j = w.lvl + 1 THEN n ELSE w.size[j]]]

(* What passes one level further up is a way again.                        *)
LEMMA WayGoesUp ==
  ASSUME NEW st, NEW words, NEW w, Way(st, words, w), w.lvl + 1 <= Len(st),
         NEW p \in Nat, NEW n \in Nat, n > 0,
         Passes(st, words, Longer(w, p, n), w.lvl + 1)
  PROVE  Way(st, words, Longer(w, p, n))
<1>1. PICK k \in Nat : k = w.lvl
  BY DEF Way, WayType
<1>2. PICK u : u = Longer(w, p, n)
  OBVIOUS
<1>3. /\ u.lvl = k + 1
      /\ u.at = [j \in 0 .. k + 1 |-> IF j = k + 1 THEN p ELSE w.at[j]]
      /\ u.size = [j \in 0 .. k + 1 |-> IF j = k + 1 THEN n ELSE w.size[j]]
  BY <1>1, <1>2 DEF Longer
<1>4. w.at \in [0 .. k -> Nat] /\ w.size \in [0 .. k -> Nat \ {0}]
  BY <1>1 DEF Way, WayType
<1>5. \A j \in 0 .. k : u.at[j] = w.at[j] /\ u.size[j] = w.size[j] /\ j \in 0 .. k + 1
  BY <1>3
<1>6. WayType(u)
  <2>1. \A j \in 0 .. k + 1 : j = k + 1 \/ j \in 0 .. k
    OBVIOUS
  <2>2. u.at \in [0 .. k + 1 -> Nat]
    BY <1>3, <1>4, <2>1
  <2>3. u.size \in [0 .. k + 1 -> Nat \ {0}]
    BY <1>3, <1>4, <2>1
  <2>4. QED
    BY <1>3, <2>2, <2>3 DEF WayType
<1>7. ASSUME NEW j \in 1 .. k + 1
      PROVE  Passes(st, words, u, j)
  <2>1. CASE j = k + 1
    BY <1>1, <1>2, <2>1
  <2>2. CASE j # k + 1
    <3>1. j \in 1 .. k /\ j \in 0 .. k /\ j - 1 \in 0 .. k
      BY <2>2
    <3>2. Passes(st, words, w, j)
      BY <1>1, <3>1 DEF Way
    <3>3. u.at[j] = w.at[j] /\ u.size[j] = w.size[j]
          /\ u.at[j - 1] = w.at[j - 1] /\ u.size[j - 1] = w.size[j - 1]
      BY <1>5, <3>1
    <3>4. QED
      BY <3>2, <3>3 DEF Passes, PassesLog, PassesAligned
  <2>3. QED
    BY <2>1, <2>2
<1>8. QED
  BY <1>1, <1>2, <1>3, <1>6, <1>7 DEF Way

(* A block of n words was lent anew to level k.                            *)
LentTo(k, n, m, r) ==
  \E w : /\ Way(wrap, r.m.word, w)
         /\ w.lvl = k /\ w.at[k] = r.at /\ w.size[k] = n
         /\ GrownBy(m, r.m, w.at[0], w.size[0])

Answers(k, n, m, r) == r = Found(NoBlock, m) \/ LentTo(k, n, m, r)

(* Storing words in a heap leaves it one.                                  *)
LEMMA StillMemory ==
  ASSUME NEW m, MemOK(m), NEW words, words = [p \in Cells |-> words[p]]
  PROVE  MemOK([lent |-> m.lent, word |-> words])
<1>1. PICK m2 : m2 = [lent |-> m.lent, word |-> words]
  OBVIOUS
<1>2. m2.lent = m.lent /\ m2.word = words
  BY <1>1
<1>3. MemOK(m2)
  BY <1>1, <1>2 DEF MemOK
<1>4. QED
  BY <1>1, <1>3

(* A log hands on what answers it.                                         *)
LEMMA LogAnswers ==
  ASSUME wrap \in Seq(Tables), NEW k \in 1 .. Len(wrap), wrap[k].kind = "log",
         NEW m, NEW n \in Nat, n > 0, NEW r, Answers(k - 1, n, m, r)
  PROVE  Answers(k, n, m, r)
<1>1. SUFFICES ASSUME LentTo(k - 1, n, m, r)
      PROVE  LentTo(k, n, m, r)
  BY DEF Answers
<1>2. PICK w : /\ Way(wrap, r.m.word, w)
               /\ w.lvl = k - 1 /\ w.at[k - 1] = r.at /\ w.size[k - 1] = n
               /\ GrownBy(m, r.m, w.at[0], w.size[0])
  BY <1>1 DEF LentTo
<1>3. w.lvl + 1 = k /\ k <= Len(wrap) /\ k \in Nat /\ k - 1 \in 0 .. k - 1
  BY <1>2
<1>4. r.at \in Nat
  <2>1. w.at \in [0 .. k - 1 -> Nat]
    BY <1>2 DEF Way, WayType
  <2>2. QED
    BY <1>2, <1>3, <2>1
<1>5. PICK u : u = Longer(w, r.at, n)
  OBVIOUS
<1>6. /\ u.lvl = k
      /\ u.at = [j \in 0 .. k |-> IF j = k THEN r.at ELSE w.at[j]]
      /\ u.size = [j \in 0 .. k |-> IF j = k THEN n ELSE w.size[j]]
  BY <1>3, <1>5 DEF Longer
<1>7. k \in 0 .. k /\ k - 1 \in 0 .. k /\ 0 \in 0 .. k /\ k - 1 # k /\ 0 # k
  BY <1>3
<1>8. /\ u.at[k] = r.at /\ u.size[k] = n
      /\ u.at[k - 1] = r.at /\ u.size[k - 1] = n
      /\ u.at[0] = w.at[0] /\ u.size[0] = w.size[0]
  BY <1>2, <1>6, <1>7
<1>9. Passes(wrap, r.m.word, u, k)
  BY <1>8 DEF Passes, PassesLog
<1>10. Way(wrap, r.m.word, u)
  BY <1>2, <1>3, <1>4, <1>5, <1>9, WayGoesUp
<1>11. QED
  BY <1>2, <1>6, <1>8, <1>10 DEF LentTo

(* What an aligned allocator asks its parent for does not wrap around.     *)
LEMMA AlignedAsks ==
  ASSUME NEW a \in Nat, a > 0, NEW n \in Nat, n > 0, ~ AlignedRefuses(n, a)
  PROVE  ParentSize(n, a) = n + a /\ n + a \in 0 .. Wd!SizeMaxOf(W)
<1>1. PICK e \in Nat : e = Wd!WordEnd(W)
  BY TheConstants
<1>2. PICK s \in Int : s = Wd!SizeMaxOf(W) /\ s = e - 1
  BY <1>1, TheConstants
<1>3. n <= s - (a - 1 + 1)
  BY <1>2 DEF AlignedRefuses, Wd!AlignedRefuses, Ptr
<1>4. n + a \in 0 .. s
  BY <1>2, <1>3
<1>5. ParentSize(n, a) = (n + a - 1 + 1) % e
  BY <1>1 DEF ParentSize, Wd!ParentSize, Ptr
<1>6. (n + a - 1 + 1) % e = n + a
  BY <1>2, <1>4
<1>7. QED
  BY <1>2, <1>4, <1>5, <1>6

(* How aligned_alloc_block places a block behind its base.                 *)
LEMMA AlignedPlaces ==
  ASSUME NEW a \in Nat, a > 0, NEW n \in Nat, n > 0,
         NEW b \in Nat, b + (n + a) <= Wd!WordEnd(W)
  PROVE  /\ Wd!AlignedPtr(W, b, a, Ptr) \in Nat
         /\ b < Wd!AlignedPtr(W, b, a, Ptr)
         /\ Wd!AlignedPtr(W, b, a, Ptr) + n <= b + (n + a)
         /\ Wd!AlignedPtr(W, b, a, Ptr) % a = 0
<1>1. PICK e \in Nat : e = Wd!WordEnd(W)
  BY TheConstants
<1>2. b + a < e /\ b + a \in Nat
  BY <1>1
<1>3. ((b + 1) + (a - 1)) % e = b + a
  BY <1>2
<1>4. Wd!AlignedPtr(W, b, a, Ptr) = (b + a) - ((b + a) % a)
  BY <1>1, <1>3 DEF Wd!AlignedPtr, Wd!AlignUp, Wd!AlignDown, Ptr
<1>5. /\ (b + a) % a \in 0 .. a - 1
      /\ (b + a) - ((b + a) % a) \in Nat
      /\ ((b + a) - ((b + a) % a)) % a = 0
  BY <1>2, RoundingDown
<1>6. PICK x \in Nat : x = (b + a) % a
  BY <1>5
<1>7. x \in 0 .. a - 1
  BY <1>5, <1>6
<1>8. b < (b + a) - x /\ ((b + a) - x) + n <= b + (n + a)
  BY <1>7
<1>9. QED
  BY <1>4, <1>5, <1>6, <1>8

(* An aligned allocator hands on what answers it, behind a base.           *)
LEMMA AlignedAnswers ==
  ASSUME wrap \in Seq(Tables), NEW k \in 1 .. Len(wrap), NEW a, a = wrap[k].alignment,
         wrap[k].kind # "log",
         NEW m, NEW n \in Nat, n > 0, ~ AlignedRefuses(n, a),
         NEW r, Answers(k - 1, ParentSize(n, a), m, r)
  PROVE  Answers(k, n, m, BehindItsBase(r, a))
<1>1. wrap[k] \in Tables
  OBVIOUS
<1>2. a \in Alignments
  BY <1>1 DEF Tables
<1>3. a \in Nat /\ a > 0
  BY <1>2, WrappingAssumption
<1>4. CASE r = Found(NoBlock, m)
  BY <1>4 DEF Answers, BehindItsBase, Found
<1>5. CASE LentTo(k - 1, ParentSize(n, a), m, r)
  <2>1. PICK w : /\ Way(wrap, r.m.word, w)
                 /\ w.lvl = k - 1 /\ w.at[k - 1] = r.at /\ w.size[k - 1] = ParentSize(n, a)
                 /\ GrownBy(m, r.m, w.at[0], w.size[0])
    BY <1>5 DEF LentTo
  <2>2. /\ w.lvl + 1 = k /\ k <= Len(wrap) /\ k \in Nat
        /\ 0 \in 0 .. w.lvl /\ k - 1 \in 0 .. w.lvl /\ 0 <= k - 1
    BY <2>1
  <2>3. PICK b, l, b0, l0 \in Nat :
          /\ b = w.at[k - 1] /\ l = w.size[k - 1] /\ b0 = w.at[0] /\ l0 = w.size[0] /\ l0 > 0
    <3>1. w.at \in [0 .. w.lvl -> Nat] /\ w.size \in [0 .. w.lvl -> Nat \ {0}]
      BY <2>1 DEF Way, WayType
    <3>2. w.at[k - 1] \in Nat /\ w.at[0] \in Nat /\ w.size[k - 1] \in Nat \ {0} /\ w.size[0] \in Nat \ {0}
      BY <2>2, <3>1
    <3>3. QED
      BY <3>2
  <2>4. b0 <= b /\ b + l <= b0 + l0
    BY <2>1, <2>2, <2>3, Nested
  <2>5. GrownBy(m, r.m, b0, l0) /\ MemOK(r.m)
    BY <2>1, <2>3 DEF GrownBy
  <2>6. InPlace(b0, l0)
    <3>1. b0 \in DOMAIN r.m.lent /\ r.m.lent[b0] = l0
      BY <2>5 DEF GrownBy
    <3>2. QED
      BY <2>5, <3>1 DEF MemOK
  <2>7. WordsAt(b0, l0) \subseteq Cells /\ b0 + l0 <= Wd!WordEnd(W)
    <3>1. b0 + l0 <= PlaceSize * (Places + 1) /\ WordsAt(b0, l0) \subseteq Cells
      BY <2>3, <2>6, BlocksInPlace
    <3>2. PICK x, y \in Nat : x = PlaceSize * (Places + 1) /\ y = Wd!WordEnd(W) /\ x <= y
      BY WrappingAssumption
    <3>3. QED
      BY <3>1, <3>2
  <2>8. l = n + a
    <3>1. ParentSize(n, a) = n + a
      BY <1>3, AlignedAsks
    <3>2. QED
      BY <2>1, <2>3, <3>1
  <2>9. b + (n + a) <= Wd!WordEnd(W)
    <3>1. PICK e \in Nat : e = Wd!WordEnd(W)
      BY TheConstants
    <3>2. b + l <= b0 + l0 /\ b0 + l0 <= e
      BY <2>4, <2>7, <3>1
    <3>3. b + l <= e
      <4>1. b \in Nat /\ l \in Nat /\ b0 \in Nat /\ l0 \in Nat
        OBVIOUS
      <4>2. QED
        BY <3>1, <3>2, <4>1
    <3>4. QED
      BY <2>8, <3>1, <3>3
  <2>10. PICK p : p = Wd!AlignedPtr(W, b, a, Ptr)
    OBVIOUS
  <2>11. p \in Nat /\ b < p /\ p + n <= b + (n + a) /\ p % a = 0
    BY <1>3, <2>9, <2>10, AlignedPlaces
  <2>12. p - Ptr = p - 1
    BY DEF Ptr
  <2>13. PICK words : words = [r.m.word EXCEPT ![p - 1] = b]
    OBVIOUS
  <2>14. PICK m2 : m2 = [lent |-> r.m.lent, word |-> words]
    OBVIOUS
  <2>15. b = r.at /\ r.at # NoBlock
    BY <2>1, <2>3, WrappingAssumption
  <2>16. BehindItsBase(r, a) = Found(p, m2)
    <3>1. r.m = [lent |-> r.m.lent, word |-> r.m.word]
      BY <2>5 DEF MemOK
    <3>2. [r.m EXCEPT !.word[p - 1] = b] = m2
      BY <2>13, <2>14, <3>1
    <3>3. p = Wd!AlignedPtr(W, r.at, a, Ptr) /\ [r.m EXCEPT !.word[p - Ptr] = r.at] = m2
      BY <2>10, <2>12, <2>15, <3>2
    <3>4. QED
      BY <2>15, <3>3 DEF BehindItsBase
  <2>17. p - 1 \in WordsAt(b, l) /\ p - 1 \in WordsAt(b0, l0) /\ p - 1 \in Cells
    <3>1. b \in Nat /\ l \in Nat /\ b0 \in Nat /\ l0 \in Nat /\ p \in Nat
      BY <2>11
    <3>2. b <= p - 1 /\ p - 1 <= b + l - 1
      <4>1. b < p /\ p + n <= b + l
        BY <2>8, <2>11, Zenon
      <4>2. QED
        BY <3>1, <4>1
    <3>3. b0 <= p - 1 /\ p - 1 <= b0 + l0 - 1
      BY <2>4, <3>1, <3>2
    <3>4. p - 1 \in WordsAt(b, l) /\ p - 1 \in WordsAt(b0, l0)
      BY <3>1, <3>2, <3>3 DEF WordsAt
    <3>5. QED
      BY <2>7, <3>4
  <2>18. words = [x \in Cells |-> IF x = p - 1 THEN b ELSE r.m.word[x]]
    <3>1. r.m.word = [x \in Cells |-> r.m.word[x]]
      BY <2>5 DEF MemOK
    <3>2. QED
      BY <2>13, <2>17, <3>1
  <2>19. MemOK(m2)
    <3>1. words = [x \in Cells |-> words[x]]
      BY <2>18
    <3>2. QED
      BY <2>5, <2>14, <3>1, StillMemory
  <2>20. m2.lent = r.m.lent /\ m2.word = words
    BY <2>14
  <2>21. \A x \in Cells : x # p - 1 => words[x] = r.m.word[x]
    BY <2>18
  <2>22. GrownBy(m, m2, b0, l0)
    BY <2>5, <2>17, <2>19, <2>20, <2>21 DEF GrownBy
  <2>23. Way(wrap, words, w)
    <3>1. \A x \in WordsAt(w.at[0], w.size[0]) \ WordsAt(w.at[w.lvl], w.size[w.lvl]) :
            words[x] = r.m.word[x]
      BY <2>1, <2>3, <2>7, <2>17, <2>21
    <3>2. QED
      BY <2>1, <3>1, WaysStay
  <2>24. PICK u : u = Longer(w, p, n)
    OBVIOUS
  <2>25. /\ u.lvl = k
         /\ u.at = [j \in 0 .. k |-> IF j = k THEN p ELSE w.at[j]]
         /\ u.size = [j \in 0 .. k |-> IF j = k THEN n ELSE w.size[j]]
    BY <2>2, <2>24 DEF Longer
  <2>26. k \in 0 .. k /\ k - 1 \in 0 .. k /\ 0 \in 0 .. k /\ k - 1 # k /\ 0 # k
    BY <2>2
  <2>27. /\ u.at[k] = p /\ u.size[k] = n
         /\ u.at[k - 1] = b /\ u.size[k - 1] = l
         /\ u.at[0] = b0 /\ u.size[0] = l0
    BY <2>3, <2>25, <2>26
  <2>28. PassesAligned(words, u, k, a)
    <3>1. words[p - 1] = b
      BY <2>17, <2>18
    <3>2. l = ParentSize(n, a)
      BY <2>1, <2>3
    <3>3. QED
      BY <2>8, <2>11, <2>12, <2>27, <3>1, <3>2 DEF PassesAligned
  <2>29. Passes(wrap, words, u, k)
    BY <2>28 DEF Passes
  <2>30. Way(wrap, words, u)
    BY <2>2, <2>11, <2>23, <2>24, <2>29, WayGoesUp
  <2>31. PICK r2 : r2 = Found(p, m2)
    OBVIOUS
  <2>32. r2.at = p /\ r2.m = m2
    BY <2>31 DEF Found
  <2>33. LentTo(k, n, m, r2)
    BY <2>20, <2>22, <2>25, <2>27, <2>30, <2>32 DEF LentTo
  <2>34. QED
    BY <2>16, <2>31, <2>33 DEF Answers
<1>6. QED
  BY <1>4, <1>5 DEF Answers

(* What level j answers to every size, if the level below it answers       *)
(* "below"; the rounds of AllocAt.                                         *)
AskAt(j, below, m, ans) ==
  [n \in 0 .. Wd!SizeMaxOf(W) |->
     IF n = 0 THEN Found(NoBlock, m)
     ELSE IF j = 0 THEN Malloc(m, n, ans)
     ELSE IF wrap[j].kind = "log" THEN below[n]
     ELSE IF AlignedRefuses(n, wrap[j].alignment) THEN Found(NoBlock, m)
     ELSE BehindItsBase(below[ParentSize(n, wrap[j].alignment)], wrap[j].alignment)]

(* The default allocator asks nobody.                                      *)
LEMMA NothingIsBelow ==
  ASSUME NEW x, NEW y, NEW m, NEW ans
  PROVE  AskAt(0, x, m, ans) = AskAt(0, y, m, ans)
<1>1. \A n \in 0 .. Wd!SizeMaxOf(W) : AskAt(0, x, m, ans)[n] = AskAt(0, y, m, ans)[n]
  BY DEF AskAt
<1>2. QED
  BY <1>1 DEF AskAt

IsAsking(f, k, m, ans) == f = [j \in 0 .. k |-> AskAt(j, f[j - 1], m, ans)]

(* The rounds are defined on any number of levels.                         *)
LEMMA AskingIsDefined ==
  ASSUME NEW k \in Nat, NEW m, NEW ans
  PROVE  \E f : IsAsking(f, k, m, ans)
<1>1. PICK X : X = {i \in Nat : \E f : f = [j \in 0 .. i |-> AskAt(j, f[j - 1], m, ans)]}
  OBVIOUS
<1>2. 0 \in X
  <2>1. PICK f : f = [j \in 0 .. 0 |-> AskAt(0, 0, m, ans)]
    OBVIOUS
  <2>2. AskAt(0, 0, m, ans) = AskAt(0, f[0 - 1], m, ans)
    BY NothingIsBelow
  <2>3. f = [j \in 0 .. 0 |-> AskAt(j, f[j - 1], m, ans)]
    <3>1. \A j \in 0 .. 0 : j = 0
      OBVIOUS
    <3>2. \A j \in 0 .. 0 : f[j] = AskAt(j, f[j - 1], m, ans)
      BY <2>1, <2>2, <3>1
    <3>3. QED
      BY <2>1, <3>2
  <2>4. QED
    BY <1>1, <2>3
<1>3. ASSUME NEW i \in X
      PROVE  i + 1 \in X
  <2>1. i \in Nat /\ i + 1 \in Nat
    BY <1>1
  <2>2. PICK f : f = [j \in 0 .. i |-> AskAt(j, f[j - 1], m, ans)]
    BY <1>1
  <2>3. PICK g : g = [j \in 0 .. i + 1 |-> IF j = i + 1 THEN AskAt(j, f[j - 1], m, ans) ELSE f[j]]
    OBVIOUS
  <2>4. ASSUME NEW j \in 0 .. i + 1
        PROVE  g[j] = AskAt(j, g[j - 1], m, ans)
    <3>1. g[j] = AskAt(j, f[j - 1], m, ans)
      BY <2>1, <2>2, <2>3
    <3>2. CASE j = 0
      <4>1. g[0] = AskAt(0, f[0 - 1], m, ans)
        BY <3>1, <3>2
      <4>2. g[0] = AskAt(0, g[0 - 1], m, ans)
        BY <4>1, NothingIsBelow
      <4>3. QED
        BY <3>2, <4>2
    <3>3. CASE j # 0
      <4>1. j - 1 \in 0 .. i + 1 /\ j - 1 # i + 1
        BY <2>1, <3>3
      <4>2. g[j - 1] = f[j - 1]
        BY <2>3, <4>1
      <4>3. QED
        BY <3>1, <4>2
    <3>4. QED
      BY <3>2, <3>3
  <2>5. g = [j \in 0 .. i + 1 |-> AskAt(j, g[j - 1], m, ans)]
    <3>1. g = [j \in 0 .. i + 1 |-> g[j]]
      BY <2>3
    <3>2. QED
      BY <2>4, <3>1, Zenon
  <2>6. QED
    BY <1>1, <2>1, <2>5
<1>4. X \in SUBSET Nat
  BY <1>1
<1>5. k \in X
  BY <1>2, <1>3, <1>4, Induction
<1>6. QED
  BY <1>1, <1>5 DEF IsAsking

(* A request that goes down the stack is refused, and has changed nothing, *)
(* or comes back with a way home.                                          *)
LEMMA AllocAnswers ==
  ASSUME wrap \in Seq(Tables), NEW k \in 0 .. Len(wrap), NEW m, MemOK(m),
         NEW n \in Nat, n <= Wd!SizeMaxOf(W), NEW ans \in MallocAnswers
  PROVE  Answers(k, n, m, AllocAt(k, m, n, ans))
<1>1. PICK top \in Int : top = Wd!SizeMaxOf(W)
  BY TheConstants
<1>2. PICK g : g = CHOOSE f : f = [j \in 0 .. k |-> AskAt(j, f[j - 1], m, ans)]
  OBVIOUS
<1>3. g = [j \in 0 .. k |-> AskAt(j, g[j - 1], m, ans)]
  <2>1. k \in Nat
    OBVIOUS
  <2>2. PICK f : IsAsking(f, k, m, ans)
    BY <2>1, AskingIsDefined
  <2>3. f = [j \in 0 .. k |-> AskAt(j, f[j - 1], m, ans)]
    BY <2>2 DEF IsAsking
  <2>4. QED
    BY <1>2, <2>3
<1>4. AllocAt(k, m, n, ans) = g[k][n]
  BY <1>2 DEF AllocAt, AskAt
<1>5. PICK X : X = {i \in Nat : i <= k => \A l \in 0 .. top : Answers(i, l, m, g[i][l])}
  OBVIOUS
<1>6. \A j \in 0 .. k : g[j] = AskAt(j, g[j - 1], m, ans)
  BY <1>3
<1>7. \A j \in 0 .. k : j = 0 \/ (j - 1 \in 0 .. k /\ j \in 1 .. Len(wrap))
  OBVIOUS
<1>8. 0 \in X
  <2>1. ASSUME NEW l \in 0 .. top
        PROVE  Answers(0, l, m, g[0][l])
    <3>1. g[0][l] = IF l = 0 THEN Found(NoBlock, m) ELSE Malloc(m, l, ans)
      <4>1. 0 \in 0 .. k
        OBVIOUS
      <4>2. g[0] = AskAt(0, g[0 - 1], m, ans)
        BY <1>6, <4>1
      <4>3. QED
        BY <1>1, <4>2 DEF AskAt
    <3>2. CASE l = 0
      BY <3>1, <3>2 DEF Answers
    <3>3. CASE l # 0
      <4>1. l \in Nat /\ l > 0
        BY <1>1, <3>3
      <4>2. \/ Malloc(m, l, ans) = Found(NoBlock, m)
            \/ \E b \in Nat : /\ Malloc(m, l, ans).at = b
                              /\ GrownBy(m, Malloc(m, l, ans).m, b, l)
        BY <4>1, MallocGrows
      <4>3. CASE Malloc(m, l, ans) = Found(NoBlock, m)
        BY <3>1, <3>3, <4>3 DEF Answers
      <4>4. ASSUME NEW b \in Nat, Malloc(m, l, ans).at = b,
                   GrownBy(m, Malloc(m, l, ans).m, b, l)
            PROVE  Answers(0, l, m, g[0][l])
        <5>1. PICK r : r = Malloc(m, l, ans)
          OBVIOUS
        <5>2. PICK w : w = [lvl |-> 0, at |-> [j \in 0 .. 0 |-> b], size |-> [j \in 0 .. 0 |-> l]]
          OBVIOUS
        <5>3. /\ w.lvl = 0 /\ w.at[0] = b /\ w.size[0] = l
              /\ w.at \in [0 .. 0 -> Nat] /\ w.size \in [0 .. 0 -> Nat \ {0}]
          BY <4>1, <5>2
        <5>4. Way(wrap, r.m.word, w)
          BY <5>3 DEF Way, WayType
        <5>5. LentTo(0, l, m, r)
          BY <4>4, <5>1, <5>3, <5>4 DEF LentTo
        <5>6. QED
          BY <3>1, <3>3, <5>1, <5>5 DEF Answers
      <4>5. QED
        BY <4>2, <4>3, <4>4
    <3>4. QED
      BY <3>2, <3>3
  <2>2. QED
    BY <1>5, <2>1
<1>9. ASSUME NEW i \in X
      PROVE  i + 1 \in X
  <2>1. i \in Nat /\ i + 1 \in Nat
    BY <1>5
  <2>2. CASE ~ (i + 1 <= k)
    BY <1>5, <2>1, <2>2
  <2>3. CASE i + 1 <= k
    <3>1. PICK j : j = i + 1 /\ j \in 1 .. Len(wrap) /\ j \in 0 .. k /\ j - 1 = i /\ j # 0
      BY <2>1, <2>3
    <3>2. \A l \in 0 .. top : Answers(j - 1, l, m, g[j - 1][l])
      BY <1>5, <2>1, <2>3, <3>1
    <3>3. ASSUME NEW l \in 0 .. top
          PROVE  Answers(j, l, m, g[j][l])
      <4>1. g[j] = AskAt(j, g[j - 1], m, ans)
        BY <1>6, <3>1
      <4>2. g[j][l] = IF l = 0 THEN Found(NoBlock, m)
                      ELSE IF wrap[j].kind = "log" THEN g[j - 1][l]
                      ELSE IF AlignedRefuses(l, wrap[j].alignment) THEN Found(NoBlock, m)
                      ELSE BehindItsBase(g[j - 1][ParentSize(l, wrap[j].alignment)], wrap[j].alignment)
        BY <1>1, <3>1, <4>1 DEF AskAt
      <4>3. CASE l = 0
        BY <4>2, <4>3 DEF Answers
      <4>4. CASE l # 0 /\ wrap[j].kind = "log"
        <5>1. l \in Nat /\ l > 0
          BY <1>1, <4>4
        <5>2. Answers(j - 1, l, m, g[j - 1][l])
          BY <3>2
        <5>3. Answers(j, l, m, g[j - 1][l])
          BY <3>1, <4>4, <5>1, <5>2, LogAnswers
        <5>4. QED
          BY <4>2, <4>4, <5>3
      <4>5. CASE l # 0 /\ wrap[j].kind # "log" /\ AlignedRefuses(l, wrap[j].alignment)
        BY <4>2, <4>5 DEF Answers
      <4>6. CASE l # 0 /\ wrap[j].kind # "log" /\ ~ AlignedRefuses(l, wrap[j].alignment)
        <5>1. l \in Nat /\ l > 0
          BY <1>1, <4>6
        <5>2. PICK a : a = wrap[j].alignment
          OBVIOUS
        <5>3. a \in Nat /\ a > 0
          <6>1. wrap[j] \in Tables
            BY <3>1
          <6>2. a \in Alignments
            BY <4>6, <5>2, <6>1 DEF Tables
          <6>3. QED
            BY <6>2, WrappingAssumption
        <5>4. ParentSize(l, a) \in 0 .. top
          BY <1>1, <4>6, <5>1, <5>2, <5>3, AlignedAsks
        <5>5. Answers(j - 1, ParentSize(l, a), m, g[j - 1][ParentSize(l, a)])
          BY <3>2, <5>4
        <5>6. PICK r : r = g[j - 1][ParentSize(l, a)]
          OBVIOUS
        <5>7. Answers(j - 1, ParentSize(l, a), m, r) /\ ~ AlignedRefuses(l, a)
          BY <4>6, <5>2, <5>5, <5>6
        <5>8. Answers(j, l, m, BehindItsBase(r, a))
          BY <3>1, <4>6, <5>1, <5>2, <5>7, AlignedAnswers
        <5>9. QED
          BY <4>2, <4>6, <5>2, <5>6, <5>8
      <4>7. QED
        BY <4>3, <4>4, <4>5, <4>6
    <3>4. QED
      BY <1>5, <2>1, <3>1, <3>3
  <2>4. QED
    BY <2>2, <2>3
<1>10. X = Nat
  <2>1. X \in SUBSET Nat
    BY <1>5
  <2>2. QED
    BY <1>8, <1>9, <2>1, Induction
<1>11. k \in X /\ n \in 0 .. top
  BY <1>1, <1>10
<1>12. QED
  BY <1>4, <1>5, <1>11

-----------------------------------------------------------------------------
(* The owners' books.                                                      *)

WordsOf(w) == WordsAt(w.at[0], w.size[0])
Mine(w)    == WordsAt(w.at[w.lvl], w.size[w.lvl])

TopIs(w, k, p, n) == w.lvl = k /\ w.at[k] = p /\ w.size[k] = n

(* F has a way home for every owner of a block, each to a block of the     *)
(* heap of its own, and for every block of the heap.                       *)
Books(st, m, F) ==
  /\ MemOK(m)
  /\ \A o \in DOMAIN F : /\ Way(st, m.word, F[o])
                         /\ F[o].at[0] \in DOMAIN m.lent
                         /\ m.lent[F[o].at[0]] = F[o].size[0]
  /\ \A o, p \in DOMAIN F : o # p => F[o].at[0] # F[p].at[0]
  /\ \A b \in DOMAIN m.lent : \E o \in DOMAIN F : F[o].at[0] = b

(* The ends of a way, the upper one within the lower one.                  *)
LEMMA WayIsTyped ==
  ASSUME NEW st, NEW words, NEW w, Way(st, words, w)
  PROVE  /\ w.lvl \in Nat /\ 0 \in 0 .. w.lvl /\ w.lvl \in 0 .. w.lvl
         /\ w.at[0] \in Nat /\ w.at[w.lvl] \in Nat
         /\ w.size[0] \in Nat \ {0} /\ w.size[w.lvl] \in Nat \ {0}
         /\ Mine(w) \subseteq WordsOf(w)
<1>1. w.lvl \in Nat /\ w.at \in [0 .. w.lvl -> Nat] /\ w.size \in [0 .. w.lvl -> Nat \ {0}]
  BY DEF Way, WayType
<1>2. 0 \in 0 .. w.lvl /\ w.lvl \in 0 .. w.lvl /\ 0 <= w.lvl
  BY <1>1
<1>3. w.at[0] \in Nat /\ w.at[w.lvl] \in Nat
      /\ w.size[0] \in Nat \ {0} /\ w.size[w.lvl] \in Nat \ {0}
  BY <1>1, <1>2
<1>4. PICK a, b, k, l \in Nat : /\ a = w.at[0] /\ b = w.at[w.lvl]
                                /\ k = w.size[0] /\ l = w.size[w.lvl]
  BY <1>3
<1>5. a <= b /\ b + l <= a + k
  BY <1>2, <1>4, Nested
<1>6. b .. b + l - 1 \subseteq a .. a + k - 1
  BY <1>4, <1>5
<1>7. Mine(w) \subseteq WordsOf(w)
  BY <1>4, <1>6 DEF Mine, WordsOf, WordsAt
<1>8. QED
  BY <1>1, <1>2, <1>3, <1>7

(* Every owner's words are words of the heap.                              *)
LEMMA WordsAreCells ==
  ASSUME NEW st, NEW m, NEW F, Books(st, m, F), NEW o \in DOMAIN F
  PROVE  WordsOf(F[o]) \subseteq Cells /\ F[o].at[0] % Unit = 0
<1>1. PICK b, n : b = F[o].at[0] /\ n = F[o].size[0]
  OBVIOUS
<1>2. b \in DOMAIN m.lent /\ m.lent[b] = n /\ MemOK(m)
  BY <1>1 DEF Books
<1>3. n \in Nat /\ n > 0 /\ InPlace(b, n)
  BY <1>2 DEF MemOK
<1>4. WordsAt(b, n) \subseteq Cells /\ b % Unit = 0
  BY <1>3, BlocksInPlace
<1>5. QED
  BY <1>1, <1>4 DEF WordsOf

(* No two owners have a word in common.                                    *)
LEMMA OwnersApart ==
  ASSUME NEW st, NEW m, NEW F, Books(st, m, F),
         NEW o \in DOMAIN F, NEW p \in DOMAIN F, o # p
  PROVE  \A x \in WordsOf(F[o]) : x \notin WordsOf(F[p])
<1>1. PICK b, n, c, l : b = F[o].at[0] /\ n = F[o].size[0] /\ c = F[p].at[0] /\ l = F[p].size[0]
  OBVIOUS
<1>2. /\ b \in DOMAIN m.lent /\ m.lent[b] = n /\ MemOK(m)
      /\ c \in DOMAIN m.lent /\ m.lent[c] = l /\ b # c
  BY <1>1 DEF Books
<1>3. b + n <= c \/ c + l <= b
  BY <1>2, BlocksApart
<1>4. b \in Nat /\ n \in Nat /\ c \in Nat /\ l \in Nat
  <2>1. Way(st, m.word, F[o]) /\ Way(st, m.word, F[p])
    BY DEF Books
  <2>2. F[o].at[0] \in Nat /\ F[o].size[0] \in Nat
    BY <2>1, WayIsTyped
  <2>3. F[p].at[0] \in Nat /\ F[p].size[0] \in Nat
    BY <2>1, WayIsTyped
  <2>4. QED
    BY <1>1, <2>2, <2>3
<1>5. \A x \in b .. b + n - 1 : x \notin c .. c + l - 1
  BY <1>3, <1>4
<1>6. QED
  BY <1>1, <1>5 DEF WordsOf, WordsAt

Keeps(m, m2, w) == \A x \in WordsOf(w) : m2.word[x] = m.word[x]

(* A call for the owners of Q leaves those of others, and their words.     *)
Serves(m, F, m2, F2, Q) ==
  /\ Books(wrap, m2, F2)
  /\ \A o \in DOMAIN F \ Q : o \in DOMAIN F2 /\ F2[o] = F[o] /\ Keeps(m, m2, F[o])
  /\ \A o \in DOMAIN F2 \ Q : o \in DOMAIN F

(* Two calls for the same owners are like one.                             *)
LEMMA ServesInTurn ==
  ASSUME NEW m, NEW F, NEW m2, NEW F2, NEW m3, NEW F3, NEW Q,
         Serves(m, F, m2, F2, Q), Serves(m2, F2, m3, F3, Q)
  PROVE  Serves(m, F, m3, F3, Q)
<1>1. ASSUME NEW o \in DOMAIN F \ Q
      PROVE  o \in DOMAIN F3 /\ F3[o] = F[o] /\ Keeps(m, m3, F[o])
  <2>1. o \in DOMAIN F2 \ Q /\ F2[o] = F[o] /\ Keeps(m, m2, F[o])
    BY DEF Serves
  <2>2. o \in DOMAIN F3 /\ F3[o] = F2[o] /\ Keeps(m2, m3, F2[o])
    BY <2>1 DEF Serves
  <2>3. QED
    BY <2>1, <2>2 DEF Keeps
<1>2. QED
  BY <1>1 DEF Serves

With(F, o, w) == [x \in DOMAIN F \cup {o} |-> IF x = o THEN w ELSE F[x]]
Without(F, o) == [x \in DOMAIN F \ {o} |-> F[x]]

(* r is a block of n words that o has of level k.                          *)
Granted(m, F, o, k, n, r) ==
  /\ r.at \in Nat
  /\ \E F2 : /\ Serves(m, F, r.m, F2, {o})
             /\ o \in DOMAIN F2
             /\ TopIs(F2[o], k, r.at, n)

(* A block that was lent anew goes into the books.                         *)
LEMMA LentIsGranted ==
  ASSUME NEW m, NEW F, Books(wrap, m, F), NEW o, o \notin DOMAIN F,
         NEW k, NEW n, NEW r, LentTo(k, n, m, r)
  PROVE  Granted(m, F, o, k, n, r)
<1>1. PICK w : /\ Way(wrap, r.m.word, w)
               /\ w.lvl = k /\ w.at[k] = r.at /\ w.size[k] = n
               /\ GrownBy(m, r.m, w.at[0], w.size[0])
  BY DEF LentTo
<1>2. PICK G : G = With(F, o, w)
  OBVIOUS
<1>3. /\ DOMAIN G = DOMAIN F \cup {o} /\ G[o] = w
      /\ \A x \in DOMAIN F : x # o /\ G[x] = F[x]
  BY <1>2 DEF With
<1>4. PICK b, l : b = w.at[0] /\ l = w.size[0]
  OBVIOUS
<1>5. /\ MemOK(r.m) /\ b \notin DOMAIN m.lent
      /\ r.m.lent = [x \in DOMAIN m.lent \cup {b} |-> IF x = b THEN l ELSE m.lent[x]]
      /\ \A p \in Cells : p \notin WordsAt(b, l) => r.m.word[p] = m.word[p]
  BY <1>1, <1>4 DEF GrownBy
<1>6. b \in Nat /\ l \in Nat /\ r.at \in Nat
  BY <1>1, <1>4, WayIsTyped
<1>7. ASSUME NEW x \in DOMAIN F
      PROVE  /\ Keeps(m, r.m, F[x]) /\ Way(wrap, r.m.word, F[x])
             /\ F[x].at[0] \in DOMAIN r.m.lent /\ r.m.lent[F[x].at[0]] = F[x].size[0]
             /\ F[x].at[0] # b
  <2>1. PICK c, d : c = F[x].at[0] /\ d = F[x].size[0]
    OBVIOUS
  <2>2. c \in DOMAIN m.lent /\ m.lent[c] = d /\ Way(wrap, m.word, F[x])
    BY <2>1 DEF Books
  <2>3. c # b /\ c \in DOMAIN r.m.lent /\ r.m.lent[c] = d
    BY <1>5, <2>2
  <2>4. c \in Nat /\ d \in Nat
    BY <2>1, <2>2, WayIsTyped
  <2>5. b \in DOMAIN r.m.lent /\ r.m.lent[b] = l
    BY <1>5
  <2>6. c + d <= b \/ b + l <= c
    BY <1>5, <2>3, <2>5, BlocksApart
  <2>7. \A y \in WordsAt(c, d) : y \notin WordsAt(b, l)
    BY <1>6, <2>4, <2>6 DEF WordsAt
  <2>8. WordsAt(c, d) \subseteq Cells
    BY <2>1, WordsAreCells DEF WordsOf
  <2>9. Keeps(m, r.m, F[x])
    BY <1>5, <2>1, <2>7, <2>8 DEF Keeps, WordsOf
  <2>10. Way(wrap, r.m.word, F[x])
    <3>1. \A y \in WordsAt(F[x].at[0], F[x].size[0]) \ WordsAt(F[x].at[F[x].lvl], F[x].size[F[x].lvl]) :
            r.m.word[y] = m.word[y]
      BY <2>9 DEF Keeps, WordsOf
    <3>2. QED
      BY <2>2, <3>1, WaysStay
  <2>11. QED
    BY <2>1, <2>3, <2>9, <2>10
<1>8. Books(wrap, r.m, G)
  <2>1. ASSUME NEW x \in DOMAIN G
        PROVE  /\ Way(wrap, r.m.word, G[x])
               /\ G[x].at[0] \in DOMAIN r.m.lent
               /\ r.m.lent[G[x].at[0]] = G[x].size[0]
    <3>1. CASE x = o
      BY <1>1, <1>3, <1>4, <1>5, <3>1
    <3>2. CASE x # o
      BY <1>3, <1>7, <3>2
    <3>3. QED
      BY <3>1, <3>2
  <2>2. ASSUME NEW x \in DOMAIN G, NEW y \in DOMAIN G, x # y
        PROVE  G[x].at[0] # G[y].at[0]
    <3>1. CASE x = o
      BY <1>3, <1>4, <1>7, <2>2, <3>1
    <3>2. CASE y = o
      BY <1>3, <1>4, <1>7, <2>2, <3>2
    <3>3. CASE x # o /\ y # o
      BY <1>3, <2>2, <3>3 DEF Books
    <3>4. QED
      BY <3>1, <3>2, <3>3
  <2>3. ASSUME NEW c \in DOMAIN r.m.lent
        PROVE  \E x \in DOMAIN G : G[x].at[0] = c
    <3>1. CASE c = b
      BY <1>3, <1>4, <3>1
    <3>2. CASE c # b
      <4>1. c \in DOMAIN m.lent
        BY <1>5, <3>2
      <4>2. PICK x \in DOMAIN F : F[x].at[0] = c
        BY <4>1 DEF Books
      <4>3. QED
        BY <1>3, <4>2
    <3>3. QED
      BY <3>1, <3>2
  <2>4. QED
    BY <1>5, <2>1, <2>2, <2>3 DEF Books
<1>9. Serves(m, F, r.m, G, {o})
  BY <1>3, <1>7, <1>8 DEF Serves
<1>10. QED
  BY <1>1, <1>3, <1>6, <1>9 DEF Granted, TopIs

(* A block that goes back goes out of the books.                           *)
LEMMA FreedIsServed ==
  ASSUME NEW m, NEW F, Books(wrap, m, F), NEW o \in DOMAIN F
  PROVE  Serves(m, F, Free(m, F[o].at[0]), Without(F, o), {o})
<1>1. PICK b, l : b = F[o].at[0] /\ l = F[o].size[0]
  OBVIOUS
<1>2. b \in DOMAIN m.lent /\ m.lent[b] = l /\ MemOK(m) /\ Way(wrap, m.word, F[o])
  BY <1>1 DEF Books
<1>3. PICK m2 : m2 = Free(m, b)
  OBVIOUS
<1>4. ShrunkBy(m, m2, b)
  BY <1>2, <1>3, FreeShrinks
<1>5. /\ MemOK(m2)
      /\ m2.lent = [x \in DOMAIN m.lent \ {b} |-> m.lent[x]]
      /\ \A p \in Cells : p \notin WordsAt(b, l) => m2.word[p] = m.word[p]
  BY <1>2, <1>4 DEF ShrunkBy
<1>6. PICK G : G = Without(F, o)
  OBVIOUS
<1>7. DOMAIN G = DOMAIN F \ {o} /\ \A x \in DOMAIN G : G[x] = F[x]
  BY <1>6 DEF Without
<1>8. ASSUME NEW x \in DOMAIN G
      PROVE  /\ Keeps(m, m2, F[x]) /\ Way(wrap, m2.word, F[x])
             /\ F[x].at[0] \in DOMAIN m2.lent /\ m2.lent[F[x].at[0]] = F[x].size[0]
  <2>1. x \in DOMAIN F /\ x # o
    BY <1>7
  <2>2. /\ F[x].at[0] \in DOMAIN m.lent /\ m.lent[F[x].at[0]] = F[x].size[0]
        /\ F[x].at[0] # b /\ Way(wrap, m.word, F[x])
    BY <1>1, <2>1 DEF Books
  <2>3. F[x].at[0] \in DOMAIN m2.lent /\ m2.lent[F[x].at[0]] = F[x].size[0]
    BY <1>5, <2>2
  <2>4. \A y \in WordsOf(F[x]) : y \notin WordsOf(F[o])
    BY <2>1, OwnersApart
  <2>5. WordsOf(F[x]) \subseteq Cells
    BY <2>1, WordsAreCells
  <2>6. Keeps(m, m2, F[x])
    BY <1>1, <1>5, <2>4, <2>5 DEF Keeps, WordsOf
  <2>7. Way(wrap, m2.word, F[x])
    <3>1. \A y \in WordsAt(F[x].at[0], F[x].size[0]) \ WordsAt(F[x].at[F[x].lvl], F[x].size[F[x].lvl]) :
            m2.word[y] = m.word[y]
      BY <2>6 DEF Keeps, WordsOf
    <3>2. QED
      BY <2>2, <3>1, WaysStay
  <2>8. QED
    BY <2>3, <2>6, <2>7
<1>9. Books(wrap, m2, G)
  <2>1. \A x \in DOMAIN G : /\ Way(wrap, m2.word, G[x])
                            /\ G[x].at[0] \in DOMAIN m2.lent
                            /\ m2.lent[G[x].at[0]] = G[x].size[0]
    BY <1>7, <1>8
  <2>2. \A x, y \in DOMAIN G : x # y => G[x].at[0] # G[y].at[0]
    BY <1>7 DEF Books
  <2>3. ASSUME NEW c \in DOMAIN m2.lent
        PROVE  \E x \in DOMAIN G : G[x].at[0] = c
    <3>1. c \in DOMAIN m.lent /\ c # b
      BY <1>5
    <3>2. PICK x \in DOMAIN F : F[x].at[0] = c
      BY <3>1 DEF Books
    <3>3. x # o
      BY <1>1, <3>1, <3>2
    <3>4. QED
      BY <1>7, <3>2, <3>3
  <2>4. QED
    BY <1>5, <2>1, <2>2, <2>3 DEF Books
<1>10. Serves(m, F, m2, G, {o})
  BY <1>7, <1>8, <1>9 DEF Serves
<1>11. QED
  BY <1>1, <1>3, <1>6, <1>10

(* An owner may store what it likes in its words.                          *)
LEMMA StoringIsServed ==
  ASSUME NEW m, NEW F, Books(wrap, m, F), NEW o \in DOMAIN F,
         NEW words, words = [p \in Cells |-> words[p]],
         \A p \in Cells : p \notin Mine(F[o]) => words[p] = m.word[p]
  PROVE  Serves(m, F, [lent |-> m.lent, word |-> words], F, {o})
<1>1. PICK m2 : m2 = [lent |-> m.lent, word |-> words]
  OBVIOUS
<1>2. m2.lent = m.lent /\ m2.word = words
  BY <1>1
<1>3. MemOK(m2)
  <2>1. MemOK(m)
    BY DEF Books
  <2>2. QED
    BY <1>1, <2>1, StillMemory
<1>4. ASSUME NEW x \in DOMAIN F
      PROVE  Way(wrap, words, F[x]) /\ (x # o => Keeps(m, m2, F[x]))
  <2>1. WordsOf(F[x]) \subseteq Cells
    BY WordsAreCells
  <2>2. Way(wrap, m.word, F[x]) /\ Way(wrap, m.word, F[o])
    BY DEF Books
  <2>3. CASE x = o
    <3>1. \A y \in WordsAt(F[x].at[0], F[x].size[0]) \ WordsAt(F[x].at[F[x].lvl], F[x].size[F[x].lvl]) :
            words[y] = m.word[y]
      BY <2>1, <2>3 DEF WordsOf, Mine
    <3>2. Way(wrap, words, F[x])
      BY <2>2, <3>1, WaysStay
    <3>3. QED
      BY <2>3, <3>2
  <2>4. CASE x # o
    <3>1. \A y \in WordsOf(F[x]) : y \notin WordsOf(F[o])
      BY <2>4, OwnersApart
    <3>2. Mine(F[o]) \subseteq WordsOf(F[o])
      BY <2>2, WayIsTyped
    <3>3. \A y \in WordsOf(F[x]) : words[y] = m.word[y]
      BY <2>1, <3>1, <3>2
    <3>4. Keeps(m, m2, F[x])
      BY <1>2, <3>3 DEF Keeps
    <3>5. \A y \in WordsAt(F[x].at[0], F[x].size[0]) \ WordsAt(F[x].at[F[x].lvl], F[x].size[F[x].lvl]) :
            words[y] = m.word[y]
      BY <3>3 DEF WordsOf
    <3>6. Way(wrap, words, F[x])
      BY <2>2, <3>5, WaysStay
    <3>7. QED
      BY <3>4, <3>6
  <2>5. QED
    BY <2>3, <2>4
<1>5. Books(wrap, m2, F)
  <2>1. \A x \in DOMAIN F : /\ Way(wrap, m2.word, F[x])
                            /\ F[x].at[0] \in DOMAIN m2.lent
                            /\ m2.lent[F[x].at[0]] = F[x].size[0]
    BY <1>2, <1>4 DEF Books
  <2>2. \A x, y \in DOMAIN F : x # y => F[x].at[0] # F[y].at[0]
    BY DEF Books
  <2>3. \A c \in DOMAIN m2.lent : \E x \in DOMAIN F : F[x].at[0] = c
    BY <1>2 DEF Books
  <2>4. QED
    BY <1>3, <2>1, <2>2, <2>3 DEF Books
<1>6. Serves(m, F, m2, F, {o})
  BY <1>4, <1>5 DEF Serves
<1>7. QED
  BY <1>1, <1>6

(* The owner o hands its block on to q, which may be o, on another level.  *)
LEMMA HandedOn ==
  ASSUME NEW m, NEW F, Books(wrap, m, F), NEW o \in DOMAIN F, NEW q, q = o \/ q \notin DOMAIN F,
         NEW w, Way(wrap, m.word, w), w.at[0] = F[o].at[0], w.size[0] = F[o].size[0]
  PROVE  Serves(m, F, m, With(Without(F, o), q, w), {o, q})
<1>1. PICK G : G = With(Without(F, o), q, w)
  OBVIOUS
<1>2. /\ DOMAIN G = (DOMAIN F \ {o}) \cup {q} /\ G[q] = w
      /\ \A x \in DOMAIN G : x # q => x \in DOMAIN F /\ x # o /\ G[x] = F[x]
  BY <1>1 DEF With, Without
<1>3. Books(wrap, m, G)
  <2>1. \A x \in DOMAIN G : /\ Way(wrap, m.word, G[x])
                            /\ G[x].at[0] \in DOMAIN m.lent
                            /\ m.lent[G[x].at[0]] = G[x].size[0]
    BY <1>2 DEF Books
  <2>2. ASSUME NEW x \in DOMAIN G, NEW y \in DOMAIN G, x # y
        PROVE  G[x].at[0] # G[y].at[0]
    <3>1. CASE x = q
      BY <1>2, <2>2, <3>1 DEF Books
    <3>2. CASE y = q
      BY <1>2, <2>2, <3>2 DEF Books
    <3>3. CASE x # q /\ y # q
      BY <1>2, <2>2, <3>3 DEF Books
    <3>4. QED
      BY <3>1, <3>2, <3>3
  <2>3. ASSUME NEW c \in DOMAIN m.lent
        PROVE  \E x \in DOMAIN G : G[x].at[0] = c
    <3>1. PICK x \in DOMAIN F : F[x].at[0] = c
      BY DEF Books
    <3>2. CASE x = o
      BY <1>2, <3>1, <3>2
    <3>3. CASE x # o
      <4>1. x \in DOMAIN G /\ x # q
        BY <1>2, <3>3
      <4>2. QED
        BY <1>2, <3>1, <4>1
    <3>4. QED
      BY <3>2, <3>3
  <2>4. MemOK(m)
    BY DEF Books
  <2>5. QED
    BY <2>1, <2>2, <2>3, <2>4 DEF Books
<1>4. ASSUME NEW x \in DOMAIN F \ {o, q}
      PROVE  x \in DOMAIN G /\ G[x] = F[x] /\ Keeps(m, m, F[x])
  BY <1>2 DEF Keeps
<1>5. \A x \in DOMAIN G \ {o, q} : x \in DOMAIN F
  BY <1>2
<1>6. Serves(m, F, m, G, {o, q})
  BY <1>3, <1>4, <1>5 DEF Serves
<1>7. QED
  BY <1>1, <1>6

-----------------------------------------------------------------------------
(* Through logs.                                                           *)

OnlyLogs(j, k) == \A i \in j + 1 .. k : wrap[i].kind = "log"

(* There is a level that Reached chooses.                                  *)
LEMMA ReachedIs ==
  ASSUME wrap \in Seq(Tables), NEW k \in 0 .. Len(wrap)
  PROVE  /\ Reached(k) \in 0 .. k
         /\ Reached(k) = 0 \/ wrap[Reached(k)].kind = "aligned"
         /\ OnlyLogs(Reached(k), k)
<1>1. PICK X : X = {i \in Nat : i <= Len(wrap) =>
                      \E j \in 0 .. i : /\ j = 0 \/ wrap[j].kind = "aligned"
                                        /\ \A l \in j + 1 .. i : wrap[l].kind = "log"}
  OBVIOUS
<1>2. PICK top \in Nat : top = Len(wrap)
  OBVIOUS
<1>3. 0 \in X
  BY <1>1
<1>4. ASSUME NEW i \in X
      PROVE  i + 1 \in X
  <2>1. i \in Nat /\ i + 1 \in Nat
    BY <1>1
  <2>2. CASE ~ (i + 1 <= top)
    BY <1>1, <1>2, <2>1, <2>2
  <2>3. CASE i + 1 <= top /\ wrap[i + 1].kind = "aligned"
    <3>1. i + 1 \in 0 .. i + 1 /\ \A l \in (i + 1) + 1 .. i + 1 : FALSE
      BY <2>1
    <3>2. \E j \in 0 .. i + 1 : /\ j = 0 \/ wrap[j].kind = "aligned"
                                /\ \A l \in j + 1 .. i + 1 : wrap[l].kind = "log"
      BY <2>3, <3>1
    <3>3. QED
      BY <1>1, <2>1, <3>2
  <2>4. CASE i + 1 <= top /\ wrap[i + 1].kind # "aligned"
    <3>1. i + 1 \in 1 .. Len(wrap) /\ i <= Len(wrap)
      BY <1>2, <2>1, <2>4
    <3>2. wrap[i + 1] \in Tables
      BY <3>1
    <3>3. wrap[i + 1].kind = "log"
      BY <2>4, <3>2 DEF Tables
    <3>4. PICK j \in 0 .. i : /\ j = 0 \/ wrap[j].kind = "aligned"
                              /\ \A l \in j + 1 .. i : wrap[l].kind = "log"
      BY <1>1, <3>1
    <3>5. \A l \in j + 1 .. i + 1 : l = i + 1 \/ l \in j + 1 .. i
      BY <2>1
    <3>6. j \in 0 .. i + 1 /\ \A l \in j + 1 .. i + 1 : wrap[l].kind = "log"
      BY <2>1, <3>3, <3>4, <3>5
    <3>7. QED
      BY <1>1, <2>1, <3>4, <3>6
  <2>5. QED
    BY <2>2, <2>3, <2>4
<1>5. X \in SUBSET Nat
  BY <1>1
<1>6. k \in X /\ k <= Len(wrap)
  BY <1>3, <1>4, <1>5, Induction
<1>7. \E j \in 0 .. k : /\ j = 0 \/ wrap[j].kind = "aligned"
                        /\ \A i \in j + 1 .. k : wrap[i].kind = "log"
  BY <1>1, <1>6
<1>8. PICK j : j = Reached(k)
  OBVIOUS
<1>9. /\ j \in 0 .. k /\ (j = 0 \/ wrap[j].kind = "aligned")
      /\ \A i \in j + 1 .. k : wrap[i].kind = "log"
  BY <1>7, <1>8 DEF Reached
<1>10. QED
  BY <1>8, <1>9 DEF OnlyLogs

(* A block passes through logs as it is.                                   *)
LEMMA LogsChangeNothing ==
  ASSUME NEW words, NEW w, Way(wrap, words, w), NEW j \in 0 .. w.lvl, OnlyLogs(j, w.lvl)
  PROVE  w.at[j] = w.at[w.lvl] /\ w.size[j] = w.size[w.lvl]
<1>1. PICK k \in Nat : k = w.lvl
  BY DEF Way, WayType
<1>2. PICK X : X = {d \in Nat : j + d <= k => w.at[j + d] = w.at[j] /\ w.size[j + d] = w.size[j]}
  OBVIOUS
<1>3. j \in Nat /\ j <= k
  BY <1>1
<1>4. 0 \in X
  BY <1>2, <1>3
<1>5. ASSUME NEW d \in X
      PROVE  d + 1 \in X
  <2>1. d \in Nat /\ d + 1 \in Nat
    BY <1>2
  <2>2. CASE ~ (j + (d + 1) <= k)
    BY <1>2, <2>1, <2>2
  <2>3. CASE j + (d + 1) <= k
    <3>1. PICK i : i = j + (d + 1) /\ i \in j + 1 .. k /\ i \in 1 .. w.lvl /\ i - 1 = j + d /\ j + d <= k
      BY <1>1, <1>3, <2>1, <2>3
    <3>2. Passes(wrap, words, w, i) /\ wrap[i].kind = "log"
      BY <1>1, <3>1 DEF Way, OnlyLogs
    <3>3. w.at[i] = w.at[i - 1] /\ w.size[i] = w.size[i - 1]
      BY <3>2 DEF Passes, PassesLog
    <3>4. w.at[j + d] = w.at[j] /\ w.size[j + d] = w.size[j]
      BY <1>2, <2>1, <3>1
    <3>5. w.at[j + (d + 1)] = w.at[j] /\ w.size[j + (d + 1)] = w.size[j]
      BY <3>1, <3>3, <3>4
    <3>6. QED
      BY <1>2, <2>1, <3>5
  <2>4. QED
    BY <2>2, <2>3
<1>6. X \in SUBSET Nat
  BY <1>2
<1>7. k - j \in X /\ j + (k - j) = k
  BY <1>3, <1>4, <1>5, <1>6, Induction
<1>8. QED
  BY <1>1, <1>2, <1>3, <1>7

(* The same block, as a block of level k.                                  *)
OnLevel(words, w, k, u) ==
  /\ Way(wrap, words, u)
  /\ TopIs(u, k, w.at[w.lvl], w.size[w.lvl])
  /\ u.at[0] = w.at[0] /\ u.size[0] = w.size[0]

(* What is a block above some logs is one below them,                      *)
LEMMA DownThroughLogs ==
  ASSUME NEW words, NEW w, Way(wrap, words, w), NEW j \in 0 .. w.lvl, OnlyLogs(j, w.lvl)
  PROVE  \E u : OnLevel(words, w, j, u)
<1>1. PICK k \in Nat : k = w.lvl /\ k <= Len(wrap)
  BY DEF Way, WayType
<1>2. PICK u : u = [lvl |-> j, at |-> [i \in 0 .. j |-> w.at[i]], size |-> [i \in 0 .. j |-> w.size[i]]]
  OBVIOUS
<1>3. j \in Nat /\ j <= k /\ j \in 0 .. j /\ 0 \in 0 .. j
  BY <1>1
<1>4. /\ u.lvl = j
      /\ \A i \in 0 .. j : u.at[i] = w.at[i] /\ u.size[i] = w.size[i]
      /\ u.at = [i \in 0 .. j |-> w.at[i]] /\ u.size = [i \in 0 .. j |-> w.size[i]]
  BY <1>2
<1>5. w.at \in [0 .. k -> Nat] /\ w.size \in [0 .. k -> Nat \ {0}]
  BY <1>1 DEF Way, WayType
<1>6. WayType(u)
  <2>1. \A i \in 0 .. j : i \in 0 .. k
    BY <1>3
  <2>2. QED
    BY <1>3, <1>4, <1>5, <2>1 DEF WayType
<1>7. ASSUME NEW i \in 1 .. j
      PROVE  Passes(wrap, words, u, i)
  <2>1. i \in 0 .. j /\ i - 1 \in 0 .. j /\ i \in 1 .. w.lvl
    BY <1>1, <1>3
  <2>2. u.at[i] = w.at[i] /\ u.size[i] = w.size[i]
        /\ u.at[i - 1] = w.at[i - 1] /\ u.size[i - 1] = w.size[i - 1]
    BY <1>4, <2>1
  <2>3. Passes(wrap, words, w, i)
    BY <2>1 DEF Way
  <2>4. QED
    BY <2>2, <2>3 DEF Passes, PassesLog, PassesAligned
<1>8. j <= Len(wrap)
  BY <1>1, <1>3
<1>9. Way(wrap, words, u)
  BY <1>4, <1>6, <1>7, <1>8 DEF Way
<1>10. u.at[j] = w.at[w.lvl] /\ u.size[j] = w.size[w.lvl]
  BY <1>3, <1>4, LogsChangeNothing
<1>11. QED
  BY <1>3, <1>4, <1>9, <1>10 DEF OnLevel, TopIs

(* and the other way round.                                                *)
LEMMA UpThroughLogs ==
  ASSUME NEW words, NEW w, Way(wrap, words, w), NEW k \in 0 .. Len(wrap), w.lvl <= k,
         OnlyLogs(w.lvl, k)
  PROVE  \E u : OnLevel(words, w, k, u)
<1>1. PICK j \in Nat : j = w.lvl
  BY DEF Way, WayType
<1>2. PICK u : u = [lvl |-> k, at |-> [i \in 0 .. k |-> IF i <= j THEN w.at[i] ELSE w.at[j]],
                    size |-> [i \in 0 .. k |-> IF i <= j THEN w.size[i] ELSE w.size[j]]]
  OBVIOUS
<1>3. k \in Nat /\ j <= k /\ k <= Len(wrap) /\ k \in 0 .. k /\ 0 \in 0 .. k
  BY <1>1
<1>4. /\ u.lvl = k
      /\ u.at = [i \in 0 .. k |-> IF i <= j THEN w.at[i] ELSE w.at[j]]
      /\ u.size = [i \in 0 .. k |-> IF i <= j THEN w.size[i] ELSE w.size[j]]
  BY <1>2
<1>5. w.at \in [0 .. j -> Nat] /\ w.size \in [0 .. j -> Nat \ {0}]
  BY <1>1 DEF Way, WayType
<1>6. WayType(u)
  <2>1. \A i \in 0 .. k : i <= j => i \in 0 .. j
    BY <1>3
  <2>2. j \in 0 .. j
    OBVIOUS
  <2>3. u.at \in [0 .. k -> Nat]
    BY <1>4, <1>5, <2>1, <2>2
  <2>4. u.size \in [0 .. k -> Nat \ {0}]
    BY <1>4, <1>5, <2>1, <2>2
  <2>5. QED
    BY <1>3, <1>4, <2>3, <2>4 DEF WayType
<1>7. ASSUME NEW i \in 1 .. k
      PROVE  Passes(wrap, words, u, i)
  <2>1. i \in 0 .. k /\ i - 1 \in 0 .. k /\ i \in Int
    BY <1>3
  <2>2. CASE i <= j
    <3>1. i - 1 <= j /\ i \in 1 .. w.lvl
      BY <1>1, <2>1, <2>2
    <3>2. u.at[i] = w.at[i] /\ u.size[i] = w.size[i]
          /\ u.at[i - 1] = w.at[i - 1] /\ u.size[i - 1] = w.size[i - 1]
      BY <1>4, <2>1, <2>2, <3>1
    <3>3. Passes(wrap, words, w, i)
      BY <3>1 DEF Way
    <3>4. QED
      BY <3>2, <3>3 DEF Passes, PassesLog, PassesAligned
  <2>3. CASE ~ (i <= j)
    <3>1. i \in j + 1 .. k
      BY <1>3, <2>1, <2>3
    <3>2. wrap[i].kind = "log"
      BY <1>1, <3>1 DEF OnlyLogs
    <3>3. i - 1 <= j => i - 1 = j
      BY <1>1, <2>1, <2>3
    <3>4. u.at[i] = w.at[j] /\ u.size[i] = w.size[j]
      BY <1>4, <2>1, <2>3
    <3>5. u.at[i - 1] = w.at[j] /\ u.size[i - 1] = w.size[j]
      BY <1>4, <2>1, <3>3
    <3>6. QED
      BY <3>2, <3>4, <3>5 DEF Passes, PassesLog
  <2>4. QED
    BY <2>2, <2>3
<1>8. Way(wrap, words, u)
  BY <1>3, <1>4, <1>6, <1>7 DEF Way
<1>9. k <= j => k = j
  BY <1>1, <1>3
<1>10. u.at[k] = w.at[j] /\ u.size[k] = w.size[j]
  BY <1>3, <1>4, <1>9
<1>11. u.at[0] = w.at[0] /\ u.size[0] = w.size[0]
  BY <1>1, <1>3, <1>4
<1>12. QED
  BY <1>1, <1>4, <1>8, <1>10, <1>11 DEF OnLevel, TopIs

-----------------------------------------------------------------------------
(* The calls.                                                              *)

(* An alloc is refused, and has changed nothing, or grants a block.        *)
LEMMA AllocIsGranted ==
  ASSUME wrap \in Seq(Tables), NEW m, NEW F, Books(wrap, m, F), NEW o, o \notin DOMAIN F,
         NEW k \in 0 .. Len(wrap), NEW n \in Nat, n <= Wd!SizeMaxOf(W), NEW ans \in MallocAnswers
  PROVE  \/ AllocAt(k, m, n, ans) = Found(NoBlock, m)
         \/ Granted(m, F, o, k, n, AllocAt(k, m, n, ans))
<1>1. MemOK(m)
  BY DEF Books
<1>2. Answers(k, n, m, AllocAt(k, m, n, ans))
  BY <1>1, AllocAnswers
<1>3. PICK r : r = AllocAt(k, m, n, ans)
  OBVIOUS
<1>4. r = Found(NoBlock, m) \/ LentTo(k, n, m, r)
  BY <1>2, <1>3 DEF Answers
<1>5. LentTo(k, n, m, r) => Granted(m, F, o, k, n, r)
  BY LentIsGranted
<1>6. QED
  BY <1>3, <1>4, <1>5

(* The default allocator is level 0.                                       *)
LEMMA AllocOfLevelZero ==
  ASSUME NEW m, NEW n \in Nat, n > 0, n <= Wd!SizeMaxOf(W), NEW ans
  PROVE  AllocAt(0, m, n, ans) = Malloc(m, n, ans)
<1>1. PICK top \in Int : top = Wd!SizeMaxOf(W)
  BY TheConstants
<1>2. PICK g : g = CHOOSE f : f = [j \in 0 .. 0 |-> AskAt(j, f[j - 1], m, ans)]
  OBVIOUS
<1>3. g = [j \in 0 .. 0 |-> AskAt(j, g[j - 1], m, ans)]
  <2>1. PICK f : IsAsking(f, 0, m, ans)
    BY AskingIsDefined
  <2>2. f = [j \in 0 .. 0 |-> AskAt(j, f[j - 1], m, ans)]
    BY <2>1 DEF IsAsking
  <2>3. QED
    BY <1>2, <2>2
<1>4. AllocAt(0, m, n, ans) = g[0][n]
  BY <1>2 DEF AllocAt, AskAt
<1>5. 0 \in 0 .. 0
  OBVIOUS
<1>6. g[0] = AskAt(0, g[0 - 1], m, ans)
  BY <1>3, <1>5
<1>7. n \in 0 .. top
  BY <1>1
<1>8. QED
  BY <1>1, <1>4, <1>6, <1>7 DEF AskAt

(* A block goes back the way it came.                                      *)
LEMMA DeallocIsFree ==
  ASSUME wrap \in Seq(Tables), NEW m, NEW w, Way(wrap, m.word, w),
         NEW k, NEW p, NEW n, TopIs(w, k, p, n)
  PROVE  DeallocAt(k, m, p, n) = Free(m, w.at[0])
<1>1. PICK words : words = m.word
  OBVIOUS
<1>2. HomeOf(w.lvl, words, w.at[w.lvl], w.size[w.lvl]) = [at |-> w.at[0], size |-> w.size[0]]
  BY <1>1, HomeIsTheEnd
<1>3. HomeOf(k, m.word, p, n) = [at |-> w.at[0], size |-> w.size[0]]
  BY <1>1, <1>2 DEF TopIs
<1>4. p \in Nat
  BY WayIsTyped DEF TopIs
<1>5. p # NoBlock
  BY <1>4, WrappingAssumption
<1>6. QED
  BY <1>3, <1>5 DEF DeallocAt

(* A dealloc takes one owner out of the books.                             *)
LEMMA DeallocIsServed ==
  ASSUME wrap \in Seq(Tables), NEW m, NEW F, Books(wrap, m, F), NEW o \in DOMAIN F,
         NEW k, NEW p, NEW n, TopIs(F[o], k, p, n)
  PROVE  Serves(m, F, DeallocAt(k, m, p, n), Without(F, o), {o})
<1>1. PICK w : w = F[o]
  OBVIOUS
<1>2. Way(wrap, m.word, w) /\ TopIs(w, k, p, n)
  BY <1>1 DEF Books
<1>3. DeallocAt(k, m, p, n) = Free(m, w.at[0])
  BY <1>2, DeallocIsFree
<1>4. Serves(m, F, Free(m, F[o].at[0]), Without(F, o), {o})
  BY FreedIsServed
<1>5. QED
  BY <1>1, <1>3, <1>4

(* A block granted below some logs is granted above them.                  *)
LEMMA GrantedThroughLogs ==
  ASSUME NEW m, NEW F, NEW o, NEW j \in Nat, NEW n, NEW r, Granted(m, F, o, j, n, r),
         NEW k \in 0 .. Len(wrap), j <= k, OnlyLogs(j, k)
  PROVE  Granted(m, F, o, k, n, r)
<1>1. PICK G : Serves(m, F, r.m, G, {o}) /\ o \in DOMAIN G /\ TopIs(G[o], j, r.at, n) /\ r.at \in Nat
  BY DEF Granted
<1>2. PICK w : w = G[o]
  OBVIOUS
<1>3. Books(wrap, r.m, G)
  BY <1>1 DEF Serves
<1>4. Way(wrap, r.m.word, w)
  BY <1>1, <1>2, <1>3 DEF Books
<1>5. w.lvl = j /\ w.at[w.lvl] = r.at /\ w.size[w.lvl] = n
  BY <1>1, <1>2 DEF TopIs
<1>6. PICK words : words = r.m.word
  OBVIOUS
<1>7. PICK u : OnLevel(words, w, k, u)
  <2>1. w.lvl <= k /\ OnlyLogs(w.lvl, k) /\ Way(wrap, words, w)
    BY <1>4, <1>5, <1>6
  <2>2. QED
    BY <2>1, UpThroughLogs
<1>8. Way(wrap, r.m.word, u) /\ TopIs(u, k, r.at, n) /\ u.at[0] = G[o].at[0] /\ u.size[0] = G[o].size[0]
  BY <1>2, <1>5, <1>6, <1>7 DEF OnLevel
<1>9. PICK q : q = o
  OBVIOUS
<1>10. PICK H : H = With(Without(G, o), q, u)
  OBVIOUS
<1>11. Serves(r.m, G, r.m, H, {o, q})
  BY <1>1, <1>3, <1>8, <1>9, <1>10, HandedOn
<1>12. Serves(r.m, G, r.m, H, {o})
  <2>1. {o, q} = {o}
    BY <1>9
  <2>2. QED
    BY <1>11, <2>1
<1>13. Serves(m, F, r.m, H, {o})
  BY <1>1, <1>12, ServesInTurn
<1>14. o \in DOMAIN H /\ H[o] = u
  BY <1>9, <1>10 DEF With
<1>15. QED
  BY <1>1, <1>8, <1>13, <1>14 DEF Granted

(* A block that is filled before it is handed over.                        *)
LEMMA GrantedFilled ==
  ASSUME NEW m, NEW F, NEW o, NEW k, NEW n, NEW r, Granted(m, F, o, k, n, r),
         NEW words, words = [p \in Cells |-> words[p]],
         \A p \in Cells : p \notin WordsAt(r.at, n) => words[p] = r.m.word[p]
  PROVE  /\ Granted(m, F, o, k, n, Found(r.at, [r.m EXCEPT !.word = words]))
         /\ WordsAt(r.at, n) \subseteq Cells /\ DOMAIN r.m.word = Cells
<1>1. PICK G : Serves(m, F, r.m, G, {o}) /\ o \in DOMAIN G /\ TopIs(G[o], k, r.at, n) /\ r.at \in Nat
  BY DEF Granted
<1>2. Books(wrap, r.m, G)
  BY <1>1 DEF Serves
<1>3. MemOK(r.m)
  BY <1>2 DEF Books
<1>4. Mine(G[o]) = WordsAt(r.at, n)
  BY <1>1 DEF Mine, TopIs
<1>5. PICK m2 : m2 = [lent |-> r.m.lent, word |-> words]
  OBVIOUS
<1>6. [r.m EXCEPT !.word = words] = m2
  <2>1. r.m = [lent |-> r.m.lent, word |-> r.m.word]
    BY <1>3 DEF MemOK
  <2>2. QED
    BY <1>5, <2>1
<1>7. \A p \in Cells : p \notin Mine(G[o]) => words[p] = r.m.word[p]
  BY <1>4
<1>8. Serves(r.m, G, m2, G, {o})
  BY <1>1, <1>2, <1>5, <1>7, StoringIsServed
<1>9. Serves(m, F, m2, G, {o})
  BY <1>1, <1>8, ServesInTurn
<1>10. PICK r2 : r2 = Found(r.at, m2)
  OBVIOUS
<1>11. r2.at = r.at /\ r2.m = m2
  BY <1>10 DEF Found
<1>12. Granted(m, F, o, k, n, r2)
  BY <1>1, <1>9, <1>11 DEF Granted
<1>13. WordsAt(r.at, n) \subseteq Cells
  <2>1. WordsOf(G[o]) \subseteq Cells
    BY <1>1, <1>2, WordsAreCells
  <2>2. Way(wrap, r.m.word, G[o])
    BY <1>1, <1>2 DEF Books
  <2>3. Mine(G[o]) \subseteq WordsOf(G[o])
    BY <2>2, WayIsTyped
  <2>4. QED
    BY <1>4, <2>1, <2>3
<1>14. DOMAIN r.m.word = Cells
  BY <1>3 DEF MemOK
<1>15. QED
  BY <1>6, <1>10, <1>12, <1>13, <1>14

Zeroed(n, r) == \A x \in WordsAt(r.at, n) : r.m.word[x] = 0

(* A calloc is refused, and has changed nothing, or grants zeros.          *)
LEMMA CallocIsGranted ==
  ASSUME wrap \in Seq(Tables), NEW m, NEW F, Books(wrap, m, F), NEW o, o \notin DOMAIN F,
         NEW k \in 0 .. Len(wrap), NEW num \in Nat, NEW size \in Nat, NEW ans \in MallocAnswers
  PROVE  \/ CallocAt(k, m, num, size, ans) = Found(NoBlock, m)
         \/ /\ Granted(m, F, o, k, num * size, CallocAt(k, m, num, size, ans))
            /\ Zeroed(num * size, CallocAt(k, m, num, size, ans))
<1>1. PICK n : n = num * size
  OBVIOUS
<1>2. n \in Nat
  BY <1>1
<1>3. PICK j : j = Reached(k)
  OBVIOUS
<1>4. j \in 0 .. k /\ OnlyLogs(j, k)
  BY <1>3, ReachedIs
<1>5. PICK b : b = AllocAt(j, m, n, ans)
  OBVIOUS
<1>6. PICK r : r = CallocAt(k, m, num, size, ans)
  OBVIOUS
<1>7. r = IF num = 0 \/ size = 0 \/ n > Wd!SizeMaxOf(W) \/ b.at = NoBlock THEN Found(NoBlock, m)
          ELSE Found(b.at, [b.m EXCEPT !.word = Filled(b.m.word, WordsAt(b.at, n), 0)])
  BY <1>1, <1>3, <1>5, <1>6 DEF CallocAt
<1>8. CASE num = 0 \/ size = 0 \/ n > Wd!SizeMaxOf(W) \/ b.at = NoBlock
  BY <1>6, <1>7, <1>8
<1>9. CASE ~ (num = 0 \/ size = 0 \/ n > Wd!SizeMaxOf(W) \/ b.at = NoBlock)
  <2>1. n <= Wd!SizeMaxOf(W)
    <3>1. PICK s \in Int : s = Wd!SizeMaxOf(W)
      BY TheConstants
    <3>2. QED
      BY <1>2, <1>9, <3>1
  <2>2. j \in 0 .. Len(wrap)
    BY <1>4
  <2>3. b = Found(NoBlock, m) \/ Granted(m, F, o, j, n, b)
    BY <1>2, <1>5, <2>1, <2>2, AllocIsGranted
  <2>4. Granted(m, F, o, j, n, b)
    BY <1>9, <2>3 DEF Found
  <2>5. j \in Nat /\ j <= k
    BY <1>4
  <2>6. Granted(m, F, o, k, n, b)
    BY <1>4, <2>4, <2>5, GrantedThroughLogs
  <2>7. PICK words : words = Filled(b.m.word, WordsAt(b.at, n), 0)
    OBVIOUS
  <2>8. DOMAIN b.m.word = Cells
    <3>1. PICK G : Serves(m, F, b.m, G, {o})
      BY <2>6 DEF Granted
    <3>2. QED
      BY <3>1 DEF Serves, Books, MemOK
  <2>9. words = [p \in Cells |-> IF p \in WordsAt(b.at, n) THEN 0 ELSE b.m.word[p]]
    BY <2>7, <2>8 DEF Filled
  <2>10. words = [p \in Cells |-> words[p]]
         /\ \A p \in Cells : p \notin WordsAt(b.at, n) => words[p] = b.m.word[p]
    BY <2>9
  <2>11. /\ Granted(m, F, o, k, n, Found(b.at, [b.m EXCEPT !.word = words]))
         /\ WordsAt(b.at, n) \subseteq Cells
    BY <2>6, <2>10, GrantedFilled
  <2>12. r = Found(b.at, [b.m EXCEPT !.word = words])
    BY <1>7, <1>9, <2>7
  <2>13. r.at = b.at /\ r.m.word = words
    <3>1. PICK G : Serves(m, F, b.m, G, {o})
      BY <2>6 DEF Granted
    <3>2. b.m = [lent |-> b.m.lent, word |-> b.m.word]
      BY <3>1 DEF Serves, Books, MemOK
    <3>3. [b.m EXCEPT !.word = words].word = words
      BY <3>2
    <3>4. QED
      BY <2>12, <3>3 DEF Found
  <2>14. Zeroed(n, r)
    BY <2>9, <2>11, <2>13 DEF Zeroed
  <2>15. QED
    BY <1>1, <1>6, <2>11, <2>12, <2>14
<1>10. QED
  BY <1>8, <1>9

(* A realloc of a null pointer is an alloc.                                *)
LEMMA ReallocOfNull ==
  ASSUME wrap \in Seq(Tables), NEW m, NEW F, Books(wrap, m, F), NEW o, o \notin DOMAIN F,
         NEW k \in 0 .. Len(wrap), NEW n \in Nat, n <= Wd!SizeMaxOf(W), NEW ans \in MallocAnswers
  PROVE  \/ ReallocAt(k, m, NoBlock, 0, n, ans) = Found(NoBlock, m)
         \/ Granted(m, F, o, k, n, ReallocAt(k, m, NoBlock, 0, n, ans))
<1>1. CASE n = 0
  BY <1>1 DEF ReallocAt, DeallocAt
<1>2. CASE n # 0
  <2>1. PICK j : j = Reached(k)
    OBVIOUS
  <2>2. j \in 0 .. k /\ OnlyLogs(j, k)
    BY <2>1, ReachedIs
  <2>3. PICK b : b = AllocAt(j, m, n, ans)
    OBVIOUS
  <2>4. j \in 0 .. Len(wrap) /\ j \in Nat /\ j <= k
    BY <2>2
  <2>5. b = Found(NoBlock, m) \/ Granted(m, F, o, j, n, b)
    BY <2>3, <2>4, AllocIsGranted
  <2>6. b = Found(NoBlock, m) \/ Granted(m, F, o, k, n, b)
    <3>1. Granted(m, F, o, j, n, b) => Granted(m, F, o, k, n, b)
      BY <2>2, <2>4, GrantedThroughLogs
    <3>2. QED
      BY <2>5, <3>1
  <2>7. j = 0 => b = Malloc(m, n, ans)
    BY <1>2, <2>3, AllocOfLevelZero
  <2>8. ReallocAt(k, m, NoBlock, 0, n, ans) = IF b.at = NoBlock THEN Found(NoBlock, m) ELSE b
    <3>1. CASE j = 0
      <4>1. ReallocAt(k, m, NoBlock, 0, n, ans) = MallocAgain(m, NoBlock, n, ans)
        BY <1>2, <2>1, <3>1 DEF ReallocAt
      <4>2. MallocAgain(m, NoBlock, n, ans) = IF b.at = NoBlock THEN Found(NoBlock, m) ELSE b
        BY <2>7, <3>1 DEF MallocAgain
      <4>3. QED
        BY <4>1, <4>2
    <3>2. CASE j # 0
      BY <1>2, <2>1, <2>3, <3>2 DEF ReallocAt
    <3>3. QED
      BY <3>1, <3>2
  <2>9. QED
    BY <2>6, <2>8 DEF Found
<1>3. QED
  BY <1>1, <1>2

(* What a realloc keeps: the first n words of the block that was at p.     *)
Moved(m, p, n, r) == \A i \in 0 .. n - 1 : r.m.word[r.at + i] = m.word[p + i]

Reallocated(m, F, o, k, p, old, n, r) ==
  /\ Granted(m, F, o, k, n, r)
  /\ Moved(m, p, Least(old, n), r)

(* The block b, with the first words of another moved over.                *)
LEMMA GrantedAndMoved ==
  ASSUME NEW m, NEW F, NEW o, NEW k, NEW n \in Nat, NEW b, Granted(m, F, o, k, n, b),
         NEW m0, NEW p \in Nat, NEW keep \in Nat, keep <= n,
         NEW words, words = MovedOver(m0.word, p, b.at, keep, b.m.word),
         NEW r, r = Found(b.at, [b.m EXCEPT !.word = words])
  PROVE  /\ Granted(m, F, o, k, n, r) /\ Moved(m0, p, keep, r)
         /\ r.at = b.at /\ r.m = [b.m EXCEPT !.word = words]
<1>1. PICK G : Serves(m, F, b.m, G, {o}) /\ o \in DOMAIN G /\ TopIs(G[o], k, b.at, n) /\ b.at \in Nat
  BY DEF Granted
<1>2. MemOK(b.m)
  BY <1>1 DEF Serves, Books
<1>3. DOMAIN b.m.word = Cells /\ b.m = [lent |-> b.m.lent, word |-> b.m.word]
  BY <1>2 DEF MemOK
<1>4. words = [x \in Cells |-> IF x \in WordsAt(b.at, keep) THEN m0.word[p + (x - b.at)] ELSE b.m.word[x]]
  BY <1>3 DEF MovedOver
<1>5. \A x \in WordsAt(b.at, keep) : x \in WordsAt(b.at, n)
  BY <1>1 DEF WordsAt
<1>6. words = [x \in Cells |-> words[x]]
      /\ \A x \in Cells : x \notin WordsAt(b.at, n) => words[x] = b.m.word[x]
  BY <1>4, <1>5
<1>7. /\ Granted(m, F, o, k, n, Found(b.at, [b.m EXCEPT !.word = words]))
      /\ WordsAt(b.at, n) \subseteq Cells
  BY <1>6, GrantedFilled
<1>8. r.at = b.at /\ r.m = [b.m EXCEPT !.word = words] /\ r.m.word = words
  BY <1>3 DEF Found
<1>9. ASSUME NEW i \in 0 .. keep - 1
      PROVE  words[b.at + i] = m0.word[p + i]
  <2>1. b.at \in Nat /\ i \in Nat
    BY <1>1
  <2>2. PICK a \in Nat : a = b.at
    BY <2>1
  <2>3. a + i \in a .. a + keep - 1 /\ p + ((a + i) - a) = p + i
    BY <2>1
  <2>4. a + i \in WordsAt(a, keep)
    BY <2>3 DEF WordsAt
  <2>5. a + i \in Cells
    BY <1>5, <1>7, <2>2, <2>4
  <2>6. words[a + i] = m0.word[p + ((a + i) - a)]
    BY <1>4, <2>2, <2>4, <2>5
  <2>7. QED
    BY <2>2, <2>3, <2>6
<1>10. QED
  BY <1>7, <1>8, <1>9 DEF Moved

(* The realloc of the default allocator.                                   *)
LEMMA MallocAgainMoves ==
  ASSUME wrap \in Seq(Tables), NEW m, NEW F, Books(wrap, m, F), NEW o \in DOMAIN F,
         NEW p \in Nat, NEW old \in Nat, F[o].at[0] = p, F[o].size[0] = old,
         NEW n \in Nat, n > 0, n <= Wd!SizeMaxOf(W), NEW ans \in MallocAnswers
  PROVE  \/ MallocAgain(m, p, n, ans) = Found(NoBlock, m)
         \/ Reallocated(m, F, o, 0, p, old, n, MallocAgain(m, p, n, ans))
<1>1. PICK m1 : m1 = Free(m, p)
  OBVIOUS
<1>2. PICK F1 : F1 = Without(F, o)
  OBVIOUS
<1>3. Serves(m, F, m1, F1, {o})
  BY <1>1, <1>2, FreedIsServed
<1>4. Books(wrap, m1, F1) /\ o \notin DOMAIN F1
  BY <1>2, <1>3 DEF Serves, Without
<1>5. PICK b : b = Malloc(m1, n, ans)
  OBVIOUS
<1>6. b = Found(NoBlock, m1) \/ Granted(m1, F1, o, 0, n, b)
  <2>1. AllocAt(0, m1, n, ans) = b
    BY <1>5, AllocOfLevelZero
  <2>2. 0 \in 0 .. Len(wrap)
    OBVIOUS
  <2>3. \/ AllocAt(0, m1, n, ans) = Found(NoBlock, m1)
        \/ Granted(m1, F1, o, 0, n, AllocAt(0, m1, n, ans))
    BY <1>4, <2>2, AllocIsGranted
  <2>4. QED
    BY <2>1, <2>3
<1>7. p # NoBlock /\ m.lent[p] = old
  BY WrappingAssumption DEF Books
<1>8. PICK keep : keep = Least(n, m.lent[p])
  OBVIOUS
<1>9. keep \in Nat /\ keep <= n /\ keep = Least(old, n)
  BY <1>7, <1>8 DEF Least
<1>10. PICK words : words = MovedOver(m.word, p, b.at, keep, b.m.word)
  OBVIOUS
<1>11. MallocAgain(m, p, n, ans) = IF b.at = NoBlock THEN Found(NoBlock, m)
                                   ELSE Found(b.at, [b.m EXCEPT !.word = words])
  BY <1>1, <1>5, <1>7, <1>8, <1>10 DEF MallocAgain
<1>12. CASE b.at = NoBlock
  BY <1>11, <1>12
<1>13. CASE b.at # NoBlock
  <2>1. Granted(m1, F1, o, 0, n, b)
    BY <1>6, <1>13 DEF Found
  <2>2. Granted(m, F, o, 0, n, b)
    <3>1. PICK G : /\ Serves(m1, F1, b.m, G, {o}) /\ o \in DOMAIN G
                   /\ TopIs(G[o], 0, b.at, n) /\ b.at \in Nat
      BY <2>1 DEF Granted
    <3>2. Serves(m, F, b.m, G, {o})
      BY <1>3, <3>1, ServesInTurn
    <3>3. QED
      BY <3>1, <3>2 DEF Granted
  <2>3. PICK r : r = Found(b.at, [b.m EXCEPT !.word = words])
    OBVIOUS
  <2>4. Granted(m, F, o, 0, n, r) /\ Moved(m, p, keep, r)
    BY <1>9, <1>10, <2>2, <2>3, GrantedAndMoved
  <2>5. QED
    BY <1>9, <1>11, <1>13, <2>3, <2>4 DEF Reallocated
<1>14. QED
  BY <1>12, <1>13

(* Whoever else a call is for, it serves these.                            *)
LEMMA ServesMore ==
  ASSUME NEW m, NEW F, NEW m2, NEW F2, NEW Q, NEW R, Serves(m, F, m2, F2, Q), Q \subseteq R
  PROVE  Serves(m, F, m2, F2, R)
<1>1. \A o : o \notin R => o \notin Q
  OBVIOUS
<1>2. QED
  BY <1>1 DEF Serves

(* The realloc that alloc.h makes of an alloc, a memcpy and a dealloc.     *)
LEMMA AllocCopyDealloc ==
  ASSUME wrap \in Seq(Tables), NEW m, NEW F, Books(wrap, m, F), NEW o \in DOMAIN F,
         NEW k, NEW p, NEW old, TopIs(F[o], k, p, old),
         NEW j \in 0 .. k, OnlyLogs(j, k), k <= Len(wrap),
         NEW n \in Nat, n > 0, n <= Wd!SizeMaxOf(W), NEW ans \in MallocAnswers,
         NEW b, b = AllocAt(j, m, n, ans), b.at # NoBlock,
         NEW words, words = MovedOver(m.word, p, b.at, Least(old, n), b.m.word),
         NEW r, r = Found(b.at, DeallocAt(j, [b.m EXCEPT !.word = words], p, old))
  PROVE  Reallocated(m, F, o, k, p, old, n, r)
<1>1. PICK t : t \notin DOMAIN F
  <2>1. \E x : x \notin DOMAIN F
    <3>1. PICK X : X = {x \in DOMAIN F : x \notin x}
      OBVIOUS
    <3>2. X \notin DOMAIN F
      BY <3>1
    <3>3. QED
      BY <3>2
  <2>2. QED
    BY <2>1
<1>2. t # o
  BY <1>1
<1>3. Way(wrap, m.word, F[o]) /\ k \in Nat /\ p \in Nat /\ old \in Nat
  <2>1. Way(wrap, m.word, F[o])
    BY DEF Books
  <2>2. QED
    BY <2>1, WayIsTyped DEF TopIs
<1>4. j \in Nat /\ j \in 0 .. Len(wrap) /\ k \in 0 .. Len(wrap) /\ j <= k
  BY <1>3
<1>5. PICK keep : keep = Least(old, n)
  OBVIOUS
<1>6. keep \in Nat /\ keep <= n
  BY <1>3, <1>5 DEF Least
<1>7. Granted(m, F, t, j, n, b)
  <2>1. b = Found(NoBlock, m) \/ Granted(m, F, t, j, n, b)
    BY <1>1, <1>4, AllocIsGranted
  <2>2. QED
    BY <2>1 DEF Found
<1>8. PICK r1 : r1 = Found(b.at, [b.m EXCEPT !.word = words])
  OBVIOUS
<1>9. /\ Granted(m, F, t, j, n, r1) /\ Moved(m, p, keep, r1)
      /\ r1.at = b.at /\ r1.m = [b.m EXCEPT !.word = words]
  BY <1>3, <1>5, <1>6, <1>7, <1>8, GrantedAndMoved
<1>10. PICK m2 : m2 = r1.m
  OBVIOUS
<1>11. PICK F1 : Serves(m, F, m2, F1, {t}) /\ t \in DOMAIN F1 /\ TopIs(F1[t], j, b.at, n) /\ b.at \in Nat
  BY <1>9, <1>10 DEF Granted
<1>12. Books(wrap, m2, F1) /\ o \in DOMAIN F1 /\ F1[o] = F[o]
  BY <1>2, <1>11 DEF Serves
<1>13. PICK w : w = F1[o]
  OBVIOUS
<1>14. Way(wrap, m2.word, w) /\ TopIs(w, k, p, old)
  BY <1>12, <1>13 DEF Books
<1>15. PICK cells : cells = m2.word
  OBVIOUS
<1>16. PICK u : OnLevel(cells, w, j, u)
  <2>1. Way(wrap, cells, w) /\ j \in 0 .. w.lvl /\ OnlyLogs(j, w.lvl)
    BY <1>14, <1>15 DEF TopIs
  <2>2. QED
    BY <2>1, DownThroughLogs
<1>17. Way(wrap, m2.word, u) /\ TopIs(u, j, p, old) /\ u.at[0] = w.at[0]
  BY <1>14, <1>15, <1>16 DEF OnLevel, TopIs
<1>18. PICK m3 : m3 = DeallocAt(j, m2, p, old)
  OBVIOUS
<1>19. m3 = Free(m2, F1[o].at[0])
  BY <1>13, <1>17, <1>18, DeallocIsFree
<1>20. PICK F2 : F2 = Without(F1, o)
  OBVIOUS
<1>21. Serves(m2, F1, m3, F2, {o})
  BY <1>12, <1>19, <1>20, FreedIsServed
<1>22. /\ Books(wrap, m3, F2) /\ o \notin DOMAIN F2
       /\ t \in DOMAIN F2 /\ F2[t] = F1[t] /\ Keeps(m2, m3, F1[t])
  BY <1>2, <1>11, <1>20, <1>21 DEF Serves, Without
<1>23. r.at = b.at /\ r.m = m3
  BY <1>9, <1>10, <1>18 DEF Found
<1>24. Moved(m, p, keep, r)
  <2>1. ASSUME NEW i \in 0 .. keep - 1
        PROVE  m3.word[b.at + i] = m.word[p + i]
    <3>1. m2.word[b.at + i] = m.word[p + i]
      BY <1>9, <1>10 DEF Moved
    <3>2. b.at + i \in WordsAt(b.at, n)
      <4>1. PICK a \in Nat : a = b.at
        BY <1>11
      <4>2. a + i \in a .. a + n - 1
        BY <1>6
      <4>3. QED
        BY <4>1, <4>2 DEF WordsAt
    <3>3. b.at + i \in WordsOf(F1[t])
      <4>1. Way(wrap, m2.word, F1[t])
        BY <1>11, <1>12 DEF Books
      <4>2. Mine(F1[t]) \subseteq WordsOf(F1[t])
        BY <4>1, WayIsTyped
      <4>3. Mine(F1[t]) = WordsAt(b.at, n)
        BY <1>11 DEF Mine, TopIs
      <4>4. QED
        BY <3>2, <4>2, <4>3
    <3>4. QED
      BY <1>22, <3>1, <3>3 DEF Keeps
  <2>2. QED
    BY <1>23, <2>1 DEF Moved
<1>25. PICK v : v = F2[t]
  OBVIOUS
<1>26. Way(wrap, m3.word, v) /\ TopIs(v, j, b.at, n)
  BY <1>11, <1>22, <1>25 DEF Books
<1>27. PICK cells3 : cells3 = m3.word
  OBVIOUS
<1>28. PICK x : OnLevel(cells3, v, k, x)
  <2>1. Way(wrap, cells3, v) /\ v.lvl <= k /\ OnlyLogs(v.lvl, k)
    BY <1>4, <1>26, <1>27 DEF TopIs
  <2>2. QED
    BY <1>4, <2>1, UpThroughLogs
<1>29. /\ Way(wrap, m3.word, x) /\ TopIs(x, k, b.at, n)
       /\ x.at[0] = F2[t].at[0] /\ x.size[0] = F2[t].size[0]
  BY <1>25, <1>26, <1>27, <1>28 DEF OnLevel, TopIs
<1>30. PICK F3 : F3 = With(Without(F2, t), o, x)
  OBVIOUS
<1>31. Serves(m3, F2, m3, F3, {t, o})
  BY <1>22, <1>29, <1>30, HandedOn
<1>32. /\ DOMAIN F3 = (DOMAIN F2 \ {t}) \cup {o} /\ F3[o] = x
  BY <1>30 DEF With, Without
<1>33. Serves(m, F, m3, F3, {t, o})
  <2>1. Serves(m, F, m2, F1, {t, o}) /\ Serves(m2, F1, m3, F2, {t, o})
    BY <1>11, <1>21, ServesMore
  <2>2. Serves(m, F, m3, F2, {t, o})
    BY <2>1, ServesInTurn
  <2>3. QED
    BY <1>31, <2>2, ServesInTurn
<1>34. Serves(m, F, m3, F3, {o})
  BY <1>1, <1>2, <1>32, <1>33 DEF Serves
<1>35. Granted(m, F, o, k, n, r)
  BY <1>11, <1>23, <1>29, <1>32, <1>34 DEF Granted
<1>36. QED
  BY <1>5, <1>24, <1>35 DEF Reallocated

(* A realloc of a block for something is refused, and has changed nothing, *)
(* or has moved what there is to keep.                                     *)
LEMMA ReallocMoves ==
  ASSUME wrap \in Seq(Tables), NEW m, NEW F, Books(wrap, m, F), NEW o \in DOMAIN F,
         NEW k \in 0 .. Len(wrap), NEW p, NEW old, TopIs(F[o], k, p, old),
         NEW n \in Nat, n > 0, n <= Wd!SizeMaxOf(W), NEW ans \in MallocAnswers
  PROVE  \/ ReallocAt(k, m, p, old, n, ans) = Found(NoBlock, m)
         \/ Reallocated(m, F, o, k, p, old, n, ReallocAt(k, m, p, old, n, ans))
<1>1. PICK j : j = Reached(k)
  OBVIOUS
<1>2. j \in 0 .. k /\ OnlyLogs(j, k)
  BY <1>1, ReachedIs
<1>3. Way(wrap, m.word, F[o]) /\ p \in Nat /\ old \in Nat /\ p # NoBlock
  <2>1. Way(wrap, m.word, F[o])
    BY DEF Books
  <2>2. p \in Nat /\ old \in Nat
    BY <2>1, WayIsTyped DEF TopIs
  <2>3. QED
    BY <2>1, <2>2, WrappingAssumption
<1>4. PICK r : r = ReallocAt(k, m, p, old, n, ans)
  OBVIOUS
<1>5. CASE j = 0
  <2>1. r = MallocAgain(m, p, n, ans)
    BY <1>1, <1>4, <1>5 DEF ReallocAt
  <2>2. PICK w : w = F[o]
    OBVIOUS
  <2>3. w.at[0] = p /\ w.size[0] = old
    <3>1. j \in 0 .. w.lvl /\ OnlyLogs(j, w.lvl) /\ w.lvl = k
      BY <1>2, <2>2 DEF TopIs
    <3>2. PICK words : words = m.word
      OBVIOUS
    <3>3. Way(wrap, words, w)
      BY <1>3, <2>2, <3>2
    <3>4. w.at[j] = w.at[w.lvl] /\ w.size[j] = w.size[w.lvl]
      BY <3>1, <3>3, LogsChangeNothing
    <3>5. QED
      BY <1>5, <2>2, <3>1, <3>4 DEF TopIs
  <2>4. F[o].at[0] = p /\ F[o].size[0] = old
    BY <2>2, <2>3
  <2>5. \/ MallocAgain(m, p, n, ans) = Found(NoBlock, m)
        \/ Reallocated(m, F, o, 0, p, old, n, MallocAgain(m, p, n, ans))
    BY <1>3, <2>4, MallocAgainMoves
  <2>6. CASE Reallocated(m, F, o, 0, p, old, n, r)
    <3>1. Granted(m, F, o, 0, n, r) /\ Moved(m, p, Least(old, n), r)
      BY <2>6 DEF Reallocated
    <3>2. 0 \in Nat /\ 0 <= k /\ OnlyLogs(0, k)
      BY <1>2, <1>5
    <3>3. Granted(m, F, o, k, n, r)
      BY <3>1, <3>2, GrantedThroughLogs
    <3>4. QED
      BY <1>4, <3>1, <3>3 DEF Reallocated
  <2>7. QED
    BY <1>4, <2>1, <2>5, <2>6
<1>6. CASE j # 0
  <2>1. PICK b : b = AllocAt(j, m, n, ans)
    OBVIOUS
  <2>2. PICK words : words = MovedOver(m.word, p, b.at, Least(old, n), b.m.word)
    OBVIOUS
  <2>3. r = IF b.at = NoBlock THEN Found(NoBlock, m)
            ELSE Found(b.at, DeallocAt(j, [b.m EXCEPT !.word = words], p, old))
    BY <1>1, <1>3, <1>4, <1>6, <2>1, <2>2 DEF ReallocAt
  <2>4. CASE b.at = NoBlock
    BY <1>4, <2>3, <2>4
  <2>5. CASE b.at # NoBlock
    <3>1. r = Found(b.at, DeallocAt(j, [b.m EXCEPT !.word = words], p, old)) /\ k <= Len(wrap)
      BY <2>3, <2>5
    <3>2. Reallocated(m, F, o, k, p, old, n, r)
      BY <1>2, <2>1, <2>2, <2>5, <3>1, AllocCopyDealloc
    <3>3. QED
      BY <1>4, <3>2
  <2>6. QED
    BY <2>4, <2>5
<1>7. QED
  BY <1>5, <1>6

-----------------------------------------------------------------------------
(* The inductive invariant: BlocksComeHome says where the ways from the    *)
(* owners' blocks end; to see that they still end there when a word was    *)
(* written takes all that they pass through.                               *)

User(u) == <<"user", u>>
Ctx(k)  == <<"ctx", k>>
Obj(k)  == <<"obj", k>>

Claimed == [lvl : Nat, at : Nat, size : Nat, words : Seq({0} \cup Users)]

Holds(m, c) ==
  /\ Len(c.words) <= c.size
  /\ \A i \in 1 .. Len(c.words) : m.word[c.at + i - 1] = c.words[i]

(* The books are of the blocks users hold, and of the allocators' structs. *)
Claims(st, hd, F) ==
  /\ \A u \in Users : hd[u] # NoBlock =>
       User(u) \in DOMAIN F /\ TopIs(F[User(u)], hd[u].lvl, hd[u].at, hd[u].size)
  /\ \A k \in 1 .. Len(st) :
       /\ Ctx(k) \in DOMAIN F /\ TopIs(F[Ctx(k)], k - 1, st[k].ctx, CtxSize)
       /\ Obj(k) \in DOMAIN F /\ TopIs(F[Obj(k)], k - 1, st[k].obj, TableSize)
  /\ \A o \in DOMAIN F : \/ \E u \in Users : o = User(u) /\ hd[u] # NoBlock
                         \/ \E k \in 1 .. Len(st) : o = Ctx(k) \/ o = Obj(k)

InOrder(st, m, hd) ==
  /\ st \in Seq(Tables)
  /\ hd \in [Users -> Claimed \cup {NoBlock}]
  /\ \A u \in Users : hd[u] # NoBlock => Holds(m, hd[u])
  /\ \E F : Books(st, m, F) /\ Claims(st, hd, F)

WrapInv == InOrder(wrap, Mem, held)

(* No two owners have one name.                                            *)
LEMMA NamesDiffer ==
  /\ \A u, v : User(u) = User(v) => u = v
  /\ \A u, k : User(u) # Ctx(k) /\ User(u) # Obj(k)
  /\ \A j, k : Ctx(j) # Obj(k) /\ (Ctx(j) = Ctx(k) => j = k) /\ (Obj(j) = Obj(k) => j = k)
BY DEF User, Ctx, Obj

(* The memory after a step is one value again.                             *)
LEMMA MemAfter ==
  ASSUME NEW m, MemOK(m), Remember(m)
  PROVE  Mem' = m
<1>1. m = [lent |-> m.lent, word |-> m.word]
  BY DEF MemOK
<1>2. Mem' = [lent |-> heap', word |-> word']
  BY DEF Mem
<1>3. QED
  BY <1>1, <1>2 DEF Remember

(* A call for others leaves a user with what it had.                       *)
LEMMA OthersHold ==
  ASSUME NEW m, NEW F, NEW hd, NEW st, Books(wrap, m, F), Claims(st, hd, F),
         NEW m2, NEW F2, NEW Q, Serves(m, F, m2, F2, Q),
         NEW u \in Users, User(u) \notin Q, hd[u] # NoBlock, hd[u] \in Claimed, Holds(m, hd[u])
  PROVE  /\ User(u) \in DOMAIN F2 /\ TopIs(F2[User(u)], hd[u].lvl, hd[u].at, hd[u].size)
         /\ Holds(m2, hd[u])
<1>1. PICK o : o = User(u)
  OBVIOUS
<1>2. PICK c : c = hd[u]
  OBVIOUS
<1>3. o \in DOMAIN F /\ TopIs(F[o], c.lvl, c.at, c.size)
  BY <1>1, <1>2 DEF Claims
<1>4. o \in DOMAIN F2 /\ F2[o] = F[o] /\ Keeps(m, m2, F[o])
  BY <1>1, <1>3 DEF Serves
<1>5. /\ c.at \in Nat /\ c.size \in Nat /\ Len(c.words) \in Nat
      /\ Len(c.words) <= c.size /\ \A i \in 1 .. Len(c.words) : m.word[c.at + i - 1] = c.words[i]
  BY <1>2 DEF Claimed, Holds
<1>6. \A x \in WordsAt(c.at, c.size) : m2.word[x] = m.word[x]
  <2>1. Way(wrap, m.word, F[o])
    BY <1>3 DEF Books
  <2>2. Mine(F[o]) \subseteq WordsOf(F[o])
    BY <2>1, WayIsTyped
  <2>3. Mine(F[o]) = WordsAt(c.at, c.size)
    BY <1>3 DEF Mine, TopIs
  <2>4. QED
    BY <1>4, <2>2, <2>3 DEF Keeps
<1>7. ASSUME NEW i \in 1 .. Len(c.words)
      PROVE  m2.word[c.at + i - 1] = c.words[i]
  <2>1. PICK a, n, l \in Nat : a = c.at /\ n = c.size /\ l = Len(c.words) /\ l <= n
    BY <1>5
  <2>2. i \in 1 .. l
    BY <2>1
  <2>3. a + i - 1 \in a .. a + n - 1
    BY <2>1, <2>2
  <2>4. c.at + i - 1 \in WordsAt(c.at, c.size)
    BY <2>1, <2>3 DEF WordsAt
  <2>5. QED
    BY <1>5, <1>6, <2>4
<1>8. Holds(m2, c)
  BY <1>5, <1>7 DEF Holds
<1>9. QED
  BY <1>1, <1>2, <1>3, <1>4, <1>8

(* A way does not depend on what is stacked above it.                      *)
LEMMA WayOnAnother ==
  ASSUME NEW st, NEW st2, NEW words, NEW w, Way(st, words, w), w.lvl <= Len(st2),
         \A j \in 1 .. w.lvl : st2[j] = st[j]
  PROVE  Way(st2, words, w)
BY DEF Way, Passes

(* Nor do the books, but for the allocators their blocks are of.           *)
LEMMA BooksOnAnother ==
  ASSUME NEW st, NEW st2, NEW m, NEW F, Books(st, m, F),
         \A o \in DOMAIN F : F[o].lvl <= Len(st2) /\ \A j \in 1 .. F[o].lvl : st2[j] = st[j]
  PROVE  Books(st2, m, F)
<1>1. ASSUME NEW o \in DOMAIN F
      PROVE  Way(st2, m.word, F[o])
  <2>1. PICK w, words : w = F[o] /\ words = m.word
    OBVIOUS
  <2>2. Way(st, words, w) /\ w.lvl <= Len(st2) /\ \A j \in 1 .. w.lvl : st2[j] = st[j]
    BY <2>1 DEF Books
  <2>3. Way(st2, words, w)
    BY <2>2, WayOnAnother
  <2>4. QED
    BY <2>1, <2>3
<1>2. QED
  BY <1>1 DEF Books

(* After a call for a user that leaves it with the block c, or with none.  *)
LEMMA UserIsServed ==
  ASSUME InOrder(wrap, Mem, held), NEW F, Books(wrap, Mem, F), Claims(wrap, held, F),
         NEW u \in Users, NEW m2, NEW F2, Serves(Mem, F, m2, F2, {User(u)}),
         NEW c, \/ /\ c \in Claimed /\ c # NoBlock
                   /\ User(u) \in DOMAIN F2 /\ TopIs(F2[User(u)], c.lvl, c.at, c.size)
                   /\ Holds(m2, c)
                \/ c = NoBlock /\ User(u) \notin DOMAIN F2,
         NEW hd, hd = [held EXCEPT ![u] = c]
  PROVE  InOrder(wrap, m2, hd)
<1>1. wrap \in Seq(Tables) /\ held \in [Users -> Claimed \cup {NoBlock}]
      /\ \A v \in Users : held[v] # NoBlock => Holds(Mem, held[v])
  BY DEF InOrder
<1>2. hd[u] = c /\ \A v \in Users : v # u => hd[v] = held[v]
  BY <1>1
<1>3. hd \in [Users -> Claimed \cup {NoBlock}]
  BY <1>1
<1>4. ASSUME NEW v \in Users, v # u, held[v] # NoBlock
      PROVE  /\ User(v) \in DOMAIN F2 /\ TopIs(F2[User(v)], held[v].lvl, held[v].at, held[v].size)
             /\ Holds(m2, held[v])
  <2>1. User(v) \notin {User(u)} /\ held[v] \in Claimed /\ Holds(Mem, held[v])
    BY <1>1, <1>4, NamesDiffer
  <2>2. PICK m : m = Mem
    OBVIOUS
  <2>3. Books(wrap, m, F) /\ Serves(m, F, m2, F2, {User(u)}) /\ Holds(m, held[v])
    BY <2>1, <2>2
  <2>4. QED
    BY <1>4, <2>1, <2>3, OthersHold
<1>5. \A v \in Users : hd[v] # NoBlock =>
        /\ Holds(m2, hd[v])
        /\ User(v) \in DOMAIN F2 /\ TopIs(F2[User(v)], hd[v].lvl, hd[v].at, hd[v].size)
  BY <1>2, <1>4
<1>6. ASSUME NEW k \in 1 .. Len(wrap)
      PROVE  /\ Ctx(k) \in DOMAIN F2 /\ TopIs(F2[Ctx(k)], k - 1, wrap[k].ctx, CtxSize)
             /\ Obj(k) \in DOMAIN F2 /\ TopIs(F2[Obj(k)], k - 1, wrap[k].obj, TableSize)
  <2>1. Ctx(k) \notin {User(u)} /\ Obj(k) \notin {User(u)}
    BY NamesDiffer
  <2>2. /\ Ctx(k) \in DOMAIN F /\ TopIs(F[Ctx(k)], k - 1, wrap[k].ctx, CtxSize)
        /\ Obj(k) \in DOMAIN F /\ TopIs(F[Obj(k)], k - 1, wrap[k].obj, TableSize)
    BY DEF Claims
  <2>3. /\ Ctx(k) \in DOMAIN F2 /\ F2[Ctx(k)] = F[Ctx(k)]
        /\ Obj(k) \in DOMAIN F2 /\ F2[Obj(k)] = F[Obj(k)]
    BY <2>1, <2>2 DEF Serves
  <2>4. QED
    BY <2>2, <2>3
<1>7. ASSUME NEW o \in DOMAIN F2
      PROVE  \/ \E v \in Users : o = User(v) /\ hd[v] # NoBlock
             \/ \E k \in 1 .. Len(wrap) : o = Ctx(k) \/ o = Obj(k)
  <2>1. CASE o = User(u)
    BY <1>2, <2>1
  <2>2. CASE o # User(u)
    <3>1. o \in DOMAIN F
      BY <2>2 DEF Serves
    <3>2. CASE \E k \in 1 .. Len(wrap) : o = Ctx(k) \/ o = Obj(k)
      BY <3>2
    <3>3. ASSUME NEW v \in Users, o = User(v), held[v] # NoBlock
          PROVE  \E x \in Users : o = User(x) /\ hd[x] # NoBlock
      <4>1. v # u
        BY <2>2, <3>3
      <4>2. hd[v] # NoBlock
        BY <1>2, <3>3, <4>1
      <4>3. QED
        BY <3>3, <4>2
    <3>4. QED
      BY <3>1, <3>2, <3>3 DEF Claims
  <2>3. QED
    BY <2>1, <2>2
<1>8. Claims(wrap, hd, F2)
  BY <1>5, <1>6, <1>7 DEF Claims
<1>9. Books(wrap, m2, F2)
  BY DEF Serves
<1>10. QED
  BY <1>1, <1>3, <1>5, <1>8, <1>9 DEF InOrder

-----------------------------------------------------------------------------
(* The steps of the users.                                                 *)

(* Where nothing changes the invariant holds on.                           *)
LEMMA WrapStutter ==
  ASSUME WrapInv, UNCHANGED wrapVars
  PROVE  WrapInv'
<1>1. wrap' = wrap /\ held' = held /\ Mem' = Mem
  BY DEF wrapVars, Mem
<1>2. InOrder(wrap', Mem', held')
  BY <1>1 DEF WrapInv
<1>3. QED
  BY <1>2 DEF WrapInv

(* A user's step that ends with InOrder of what it left.                   *)
LEMMA StepEnds ==
  ASSUME NEW m, Remember(m), NEW F, Books(wrap, m, F), InOrder(wrap, m, held'), UNCHANGED wrap
  PROVE  WrapInv'
<1>1. MemOK(m)
  BY DEF Books
<1>2. Mem' = m
  BY <1>1, MemAfter
<1>3. InOrder(wrap', Mem', held')
  BY <1>2
<1>4. QED
  BY <1>3 DEF WrapInv

(* What answers a user's request for n words at level k: nothing, memory   *)
(* as it was, or a block of its own whose first words are s.               *)
AnswersUser(F, u, k, n, s, r) ==
  /\ s \in Seq({0} \cup Users) /\ Len(s) <= n
  /\ \/ r = Found(NoBlock, Mem)
     \/ /\ Granted(Mem, F, User(u), k, n, r)
        /\ \A i \in 1 .. Len(s) : r.m.word[r.at + i - 1] = s[i]

(* A user who is asked nothing more than to hold the answer.               *)
LEMMA GotIsInOrder ==
  ASSUME WrapInv, NEW F, Books(wrap, Mem, F), Claims(wrap, held, F), NEW u \in Users,
         NEW k \in Nat, NEW n \in Nat, NEW s, NEW r,
         AnswersUser(F, u, k, n, s, r), Got(u, k, n, s, r)
  PROVE  WrapInv'
<1>0. s \in Seq({0} \cup Users) /\ Len(s) <= n
  BY DEF AnswersUser
<1>1. CASE r = Found(NoBlock, Mem)
  <2>1. r.at = NoBlock /\ r.m = Mem /\ Mem.lent = heap /\ Mem.word = word
    BY <1>1 DEF Found, Mem
  <2>2. heap' = heap /\ word' = word
    BY <2>1 DEF Got, Remember
  <2>3. held' = held /\ wrap' = wrap
    BY <2>1 DEF Got
  <2>4. QED
    BY <2>2, <2>3, WrapStutter DEF wrapVars
<1>2. CASE /\ Granted(Mem, F, User(u), k, n, r)
           /\ \A i \in 1 .. Len(s) : r.m.word[r.at + i - 1] = s[i]
  <2>1. PICK F2 : /\ Serves(Mem, F, r.m, F2, {User(u)}) /\ User(u) \in DOMAIN F2
                  /\ TopIs(F2[User(u)], k, r.at, n) /\ r.at \in Nat
    BY <1>2 DEF Granted
  <2>2. PICK c : c = [lvl |-> k, at |-> r.at, size |-> n, words |-> s]
    OBVIOUS
  <2>3. /\ c \in Claimed /\ c.lvl = k /\ c.at = r.at /\ c.size = n /\ c.words = s
    BY <1>0, <2>1, <2>2 DEF Claimed
  <2>4. c # NoBlock
    BY <2>3, WrappingAssumption DEF Claimed
  <2>5. PICK m2 : m2 = r.m
    OBVIOUS
  <2>6. Holds(m2, c)
    BY <1>0, <1>2, <2>3, <2>5 DEF Holds
  <2>7. r.at # NoBlock
    BY <2>1, WrappingAssumption
  <2>8. PICK hd : hd = [held EXCEPT ![u] = c]
    OBVIOUS
  <2>9. held' = hd /\ wrap' = wrap
    BY <2>2, <2>7, <2>8 DEF Got
  <2>10. Remember(m2)
    BY <2>5 DEF Got
  <2>11. Serves(Mem, F, m2, F2, {User(u)}) /\ TopIs(F2[User(u)], c.lvl, c.at, c.size)
    BY <2>1, <2>3, <2>5
  <2>12. InOrder(wrap, Mem, held)
    BY DEF WrapInv
  <2>13. InOrder(wrap, m2, hd)
    BY <2>1, <2>3, <2>4, <2>6, <2>8, <2>11, <2>12, UserIsServed
  <2>14. Books(wrap, m2, F2)
    BY <2>11 DEF Serves
  <2>15. QED
    BY <2>9, <2>10, <2>13, <2>14, StepEnds
<1>3. QED
  BY <1>1, <1>2 DEF AnswersUser

(* What is known of a user who holds nothing, and of one who does.         *)
LEMMA WhatAUserHas ==
  ASSUME WrapInv, NEW F, Claims(wrap, held, F), Books(wrap, Mem, F), NEW u \in Users
  PROVE  /\ held[u] = NoBlock => User(u) \notin DOMAIN F
         /\ held[u] # NoBlock =>
              /\ held[u] \in Claimed /\ held[u].lvl \in 0 .. Len(wrap)
              /\ User(u) \in DOMAIN F
              /\ TopIs(F[User(u)], held[u].lvl, held[u].at, held[u].size)
              /\ Holds(Mem, held[u])
<1>1. held[u] \in Claimed \cup {NoBlock} /\ (held[u] # NoBlock => Holds(Mem, held[u]))
  BY DEF WrapInv, InOrder
<1>2. ASSUME held[u] = NoBlock, User(u) \in DOMAIN F
      PROVE  FALSE
  <2>1. \E v \in Users : User(u) = User(v) /\ held[v] # NoBlock
    BY <1>2, NamesDiffer DEF Claims
  <2>2. QED
    BY <1>2, <2>1, NamesDiffer
<1>3. ASSUME held[u] # NoBlock
      PROVE  /\ User(u) \in DOMAIN F
             /\ TopIs(F[User(u)], held[u].lvl, held[u].at, held[u].size)
             /\ held[u].lvl \in 0 .. Len(wrap)
  <2>1. User(u) \in DOMAIN F /\ TopIs(F[User(u)], held[u].lvl, held[u].at, held[u].size)
    BY <1>3 DEF Claims
  <2>2. Way(wrap, Mem.word, F[User(u)])
    BY <2>1 DEF Books
  <2>3. F[User(u)].lvl \in Nat /\ F[User(u)].lvl <= Len(wrap) /\ F[User(u)].lvl = held[u].lvl
    BY <2>1, <2>2 DEF Way, WayType, TopIs
  <2>4. wrap \in Seq(Tables)
    BY DEF WrapInv, InOrder
  <2>5. QED
    BY <2>1, <2>3, <2>4
<1>4. QED
  BY <1>1, <1>2, <1>3

(* Take and TakeByRealloc leave the invariant.                             *)
LEMMA TakeOK ==
  ASSUME WrapInv, NEW u \in Users, NEW k \in Levels, NEW n \in Requests,
         NEW ans \in MallocAnswers, Take(u, k, n, ans) \/ TakeByRealloc(u, k, n, ans)
  PROVE  WrapInv'
<1>1. wrap \in Seq(Tables)
  BY DEF WrapInv, InOrder
<1>2. PICK F : Books(wrap, Mem, F) /\ Claims(wrap, held, F)
  BY DEF WrapInv, InOrder
<1>3. n \in Nat /\ n <= Wd!SizeMaxOf(W)
  BY TheConstants
<1>4. k \in 0 .. Len(wrap) /\ k \in Nat
  BY <1>1 DEF Levels
<1>5. User(u) \notin DOMAIN F
  <2>1. held[u] = NoBlock
    BY DEF Take, TakeByRealloc
  <2>2. QED
    BY <1>2, <2>1, WhatAUserHas
<1>6. PICK s : s = << >>
  OBVIOUS
<1>12. s \in Seq({0} \cup Users) /\ Len(s) = 0
  BY <1>6
<1>7. PICK m : m = Mem
  OBVIOUS
<1>8. Books(wrap, m, F)
  BY <1>2, <1>7
<1>9. CASE Take(u, k, n, ans)
  <2>1. PICK r : r = AllocAt(k, m, n, ans)
    OBVIOUS
  <2>2. r = Found(NoBlock, m) \/ Granted(m, F, User(u), k, n, r)
    BY <1>1, <1>3, <1>4, <1>5, <1>8, <2>1, AllocIsGranted
  <2>3. Got(u, k, n, s, r)
    BY <1>6, <1>7, <1>9, <2>1 DEF Take
  <2>4. AnswersUser(F, u, k, n, s, r)
    BY <1>3, <1>12, <1>7, <2>2 DEF AnswersUser
  <2>5. QED
    BY <1>2, <1>3, <1>4, <2>3, <2>4, GotIsInOrder
<1>10. CASE TakeByRealloc(u, k, n, ans)
  <2>1. PICK r : r = ReallocAt(k, m, NoBlock, 0, n, ans)
    OBVIOUS
  <2>2. r = Found(NoBlock, m) \/ Granted(m, F, User(u), k, n, r)
    BY <1>1, <1>3, <1>4, <1>5, <1>8, <2>1, ReallocOfNull
  <2>3. Got(u, k, n, s, r)
    BY <1>6, <1>7, <1>10, <2>1 DEF TakeByRealloc
  <2>4. AnswersUser(F, u, k, n, s, r)
    BY <1>3, <1>12, <1>7, <2>2 DEF AnswersUser
  <2>5. QED
    BY <1>2, <1>3, <1>4, <2>3, <2>4, GotIsInOrder
<1>11. QED
  BY <1>9, <1>10

(* TakeZeroed leaves the invariant.                                        *)
LEMMA TakeZeroedOK ==
  ASSUME WrapInv, NEW u \in Users, NEW k \in Levels, NEW num \in Times, NEW size \in Requests,
         NEW ans \in MallocAnswers, TakeZeroed(u, k, num, size, ans)
  PROVE  WrapInv'
<1>1. wrap \in Seq(Tables)
  BY DEF WrapInv, InOrder
<1>2. PICK F : Books(wrap, Mem, F) /\ Claims(wrap, held, F)
  BY DEF WrapInv, InOrder
<1>3. num \in Nat /\ size \in Nat
  BY TheConstants
<1>4. PICK n \in Nat : n = num * size
  BY <1>3
<1>5. k \in 0 .. Len(wrap) /\ k \in Nat
  BY <1>1 DEF Levels
<1>6. User(u) \notin DOMAIN F
  <2>1. held[u] = NoBlock
    BY DEF TakeZeroed
  <2>2. QED
    BY <1>2, <2>1, WhatAUserHas
<1>7. PICK s : s = [i \in 1 .. n |-> 0]
  OBVIOUS
<1>8. s \in Seq({0} \cup Users) /\ Len(s) = n
  BY <1>7
<1>9. PICK m : m = Mem
  OBVIOUS
<1>10. Books(wrap, m, F)
  BY <1>2, <1>9
<1>11. PICK r : r = CallocAt(k, m, num, size, ans)
  OBVIOUS
<1>12. \/ CallocAt(k, m, num, size, ans) = Found(NoBlock, m)
       \/ /\ Granted(m, F, User(u), k, num * size, CallocAt(k, m, num, size, ans))
          /\ Zeroed(num * size, CallocAt(k, m, num, size, ans))
  BY <1>1, <1>3, <1>5, <1>6, <1>10, CallocIsGranted
<1>13. r = Found(NoBlock, m) \/ (Granted(m, F, User(u), k, n, r) /\ Zeroed(n, r))
  BY <1>4, <1>11, <1>12
<1>14. Got(u, k, n, s, r)
  BY <1>4, <1>7, <1>9, <1>11 DEF TakeZeroed
<1>15. ASSUME Granted(m, F, User(u), k, n, r), Zeroed(n, r)
       PROVE  \A i \in 1 .. Len(s) : r.m.word[r.at + i - 1] = s[i]
  <2>1. r.at \in Nat
    BY <1>15 DEF Granted
  <2>2. \A i \in 1 .. n : r.at + i - 1 \in r.at .. r.at + n - 1 /\ s[i] = 0
    BY <1>7, <2>1
  <2>3. QED
    BY <1>8, <1>15, <2>2 DEF Zeroed, WordsAt
<1>16. AnswersUser(F, u, k, n, s, r)
  BY <1>8, <1>9, <1>13, <1>15 DEF AnswersUser
<1>17. QED
  BY <1>2, <1>5, <1>14, <1>16, GotIsInOrder

(* A user gives its block back.                                            *)
LEMMA GivenBack ==
  ASSUME WrapInv, NEW F, Books(wrap, Mem, F), Claims(wrap, held, F), NEW u \in Users,
         held[u] # NoBlock,
         Remember(DeallocAt(held[u].lvl, Mem, held[u].at, held[u].size)),
         held' = [held EXCEPT ![u] = NoBlock], UNCHANGED wrap
  PROVE  WrapInv'
<1>1. PICK m : m = Mem
  OBVIOUS
<1>2. PICK o : o = User(u)
  OBVIOUS
<1>3. PICK k, p, n : k = held[u].lvl /\ p = held[u].at /\ n = held[u].size
  OBVIOUS
<1>4. o \in DOMAIN F /\ TopIs(F[o], k, p, n)
  BY <1>2, <1>3, WhatAUserHas
<1>5. wrap \in Seq(Tables) /\ InOrder(wrap, Mem, held)
  BY DEF WrapInv, InOrder
<1>6. PICK m2 : m2 = DeallocAt(k, m, p, n)
  OBVIOUS
<1>7. PICK F2 : F2 = Without(F, o)
  OBVIOUS
<1>8. Serves(m, F, m2, F2, {o})
  <2>1. Books(wrap, m, F)
    BY <1>1
  <2>2. QED
    BY <1>4, <1>5, <1>6, <1>7, <2>1, DeallocIsServed
<1>9. o \notin DOMAIN F2 /\ Books(wrap, m2, F2)
  BY <1>7, <1>8 DEF Without, Serves
<1>10. PICK hd, c : c = NoBlock /\ hd = [held EXCEPT ![u] = c]
  OBVIOUS
<1>11. Serves(Mem, F, m2, F2, {User(u)}) /\ User(u) \notin DOMAIN F2
  BY <1>1, <1>2, <1>8, <1>9
<1>12. InOrder(wrap, m2, hd)
  BY <1>5, <1>10, <1>11, UserIsServed
<1>13. Remember(m2) /\ InOrder(wrap, m2, held')
  BY <1>1, <1>3, <1>6, <1>10, <1>12
<1>14. QED
  BY <1>9, <1>13, StepEnds

(* Give leaves the invariant.                                              *)
LEMMA GiveOK ==
  ASSUME WrapInv, NEW u \in Users, Give(u)
  PROVE  WrapInv'
<1>1. PICK F : Books(wrap, Mem, F) /\ Claims(wrap, held, F)
  BY DEF WrapInv, InOrder
<1>2. held[u] # NoBlock /\ Remember(DeallocAt(held[u].lvl, Mem, held[u].at, held[u].size))
      /\ held' = [held EXCEPT ![u] = NoBlock] /\ UNCHANGED wrap
  BY DEF Give
<1>3. QED
  BY <1>1, <1>2, GivenBack

(* Resize leaves the invariant.                                            *)
LEMMA ResizeOK ==
  ASSUME WrapInv, NEW u \in Users, NEW n \in Requests, NEW ans \in MallocAnswers, Resize(u, n, ans)
  PROVE  WrapInv'
<1>1. wrap \in Seq(Tables)
  BY DEF WrapInv, InOrder
<1>2. PICK F : Books(wrap, Mem, F) /\ Claims(wrap, held, F)
  BY DEF WrapInv, InOrder
<1>3. n \in Nat /\ n <= Wd!SizeMaxOf(W)
  BY TheConstants
<1>4. PICK b : b = held[u] /\ b # NoBlock
  BY DEF Resize
<1>5. /\ b \in Claimed /\ b.lvl \in 0 .. Len(wrap) /\ User(u) \in DOMAIN F
      /\ TopIs(F[User(u)], b.lvl, b.at, b.size) /\ Holds(Mem, b)
  BY <1>2, <1>4, WhatAUserHas
<1>6. PICK m : m = Mem
  OBVIOUS
<1>7. PICK r : r = ReallocAt(b.lvl, m, b.at, b.size, n, ans)
  OBVIOUS
<1>8. PICK s : s = SubSeq(b.words, 1, Least(Len(b.words), n))
  OBVIOUS
<1>9. \/ n > 0 /\ Got(u, b.lvl, n, s, r)
      \/ /\ n = 0
         /\ Remember(r.m)
         /\ held' = [held EXCEPT ![u] = NoBlock]
         /\ UNCHANGED wrap
  BY <1>4, <1>6, <1>7, <1>8 DEF Resize
<1>10. CASE n = 0
  <2>1. r = Found(NoBlock, DeallocAt(b.lvl, m, b.at, b.size))
    BY <1>7, <1>10 DEF ReallocAt
  <2>2. r.m = DeallocAt(b.lvl, m, b.at, b.size)
    BY <2>1 DEF Found
  <2>3. Remember(DeallocAt(held[u].lvl, Mem, held[u].at, held[u].size))
        /\ held' = [held EXCEPT ![u] = NoBlock] /\ UNCHANGED wrap
    BY <1>4, <1>6, <1>9, <1>10, <2>2
  <2>4. held[u] # NoBlock
    BY <1>4
  <2>5. QED
    BY <1>2, <2>3, <2>4, GivenBack
<1>11. CASE n > 0
  <2>1. Got(u, b.lvl, n, s, r)
    BY <1>9, <1>11
  <2>2. PICK old, p, k : old = b.size /\ p = b.at /\ k = b.lvl
    OBVIOUS
  <2>3. old \in Nat /\ p \in Nat /\ k \in 0 .. Len(wrap) /\ k \in Nat
    BY <1>5, <2>2 DEF Claimed
  <2>4. PICK w, l : w = b.words /\ l = Len(w)
    OBVIOUS
  <2>5. w \in Seq({0} \cup Users) /\ l \in Nat /\ l <= old
        /\ \A i \in 1 .. l : m.word[p + i - 1] = w[i]
    BY <1>5, <1>6, <2>2, <2>4 DEF Claimed, Holds
  <2>6. PICK q \in Nat : q = Least(l, n) /\ q <= l /\ q <= n /\ q <= Least(old, n)
    BY <1>3, <2>3, <2>5 DEF Least
  <2>7. /\ s = SubSeq(w, 1, q)
        /\ s \in Seq({0} \cup Users) /\ Len(s) = q /\ \A i \in 1 .. q : s[i] = w[i]
    BY <1>8, <2>4, <2>5, <2>6
  <2>8. TopIs(F[User(u)], k, p, old) /\ Books(wrap, m, F) /\ r = ReallocAt(k, m, p, old, n, ans)
    BY <1>2, <1>5, <1>6, <1>7, <2>2
  <2>9. r = Found(NoBlock, m) \/ Reallocated(m, F, User(u), k, p, old, n, r)
    BY <1>1, <1>3, <1>5, <1>11, <2>3, <2>8, ReallocMoves
  <2>10. ASSUME Reallocated(m, F, User(u), k, p, old, n, r)
         PROVE  \A i \in 1 .. q : r.m.word[r.at + i - 1] = s[i]
    <3>1. r.at \in Nat /\ Moved(m, p, Least(old, n), r)
      BY <2>10 DEF Reallocated, Granted
    <3>2. ASSUME NEW i \in 1 .. q
          PROVE  r.m.word[r.at + i - 1] = s[i]
      <4>1. PICK a, keep \in Nat : a = r.at /\ keep = Least(old, n) /\ q <= keep
        BY <1>3, <2>3, <2>6, <3>1 DEF Least
      <4>2. PICK j \in 0 .. keep - 1 : j = i - 1
        BY <4>1
      <4>3. a + i - 1 = a + j /\ p + i - 1 = p + j
        BY <2>3, <4>1, <4>2
      <4>4. r.m.word[a + j] = m.word[p + j]
        BY <3>1, <4>1, <4>2 DEF Moved
      <4>5. m.word[p + i - 1] = w[i] /\ s[i] = w[i]
        <5>1. i \in 1 .. l
          BY <2>5, <2>6
        <5>2. QED
          BY <2>5, <2>7, <5>1
      <4>6. QED
        BY <4>1, <4>3, <4>4, <4>5
    <3>3. QED
      BY <3>2
  <2>14. Reallocated(m, F, User(u), k, p, old, n, r) => Granted(m, F, User(u), k, n, r)
    BY DEF Reallocated
  <2>11. AnswersUser(F, u, k, n, s, r)
    BY <1>3, <1>6, <2>6, <2>7, <2>9, <2>10, <2>14 DEF AnswersUser
  <2>12. Got(u, k, n, s, r)
    BY <2>1, <2>2
  <2>13. QED
    BY <1>2, <1>3, <2>3, <2>11, <2>12, GotIsInOrder
<1>12. QED
  BY <1>3, <1>10, <1>11

(* Store leaves the invariant.                                             *)
LEMMA StoreOK ==
  ASSUME WrapInv, NEW u \in Users, Store(u)
  PROVE  WrapInv'
<1>1. wrap \in Seq(Tables) /\ InOrder(wrap, Mem, held) /\ held \in [Users -> Claimed \cup {NoBlock}]
  BY DEF WrapInv, InOrder
<1>2. PICK F : Books(wrap, Mem, F) /\ Claims(wrap, held, F)
  BY DEF WrapInv, InOrder
<1>3. PICK b : b = held[u] /\ b # NoBlock
  BY DEF Store
<1>28. /\ held[u] \in Claimed /\ User(u) \in DOMAIN F
       /\ TopIs(F[User(u)], held[u].lvl, held[u].at, held[u].size) /\ Holds(Mem, held[u])
  <2>1. held[u] # NoBlock
    BY <1>3
  <2>2. QED
    BY <1>2, <2>1, WhatAUserHas
<1>4. /\ b \in Claimed /\ User(u) \in DOMAIN F
      /\ TopIs(F[User(u)], b.lvl, b.at, b.size) /\ Holds(Mem, b)
  BY <1>3, <1>28
<1>29. PICK m : m = Mem
  OBVIOUS
<1>5. m = Mem /\ m.lent = heap /\ m.word = word
  BY <1>29 DEF Mem
<1>6. MemOK(m)
  BY <1>2, <1>5 DEF Books
<1>7. PICK words : words = Filled(word, WordsAt(b.at, b.size), u)
  OBVIOUS
<1>8. words = [x \in Cells |-> IF x \in WordsAt(b.at, b.size) THEN u ELSE m.word[x]]
  <2>1. DOMAIN word = Cells
    BY <1>5, <1>6 DEF MemOK
  <2>2. QED
    BY <1>5, <1>7, <2>1 DEF Filled
<1>9. words = [x \in Cells |-> words[x]]
      /\ \A x \in Cells : x \notin Mine(F[User(u)]) => words[x] = m.word[x]
  BY <1>4, <1>8 DEF Mine, TopIs
<1>10. PICK m2 : m2 = [lent |-> m.lent, word |-> words]
  OBVIOUS
<1>11. Books(wrap, m, F)
  BY <1>2, <1>5
<1>12. Serves(m, F, m2, F, {User(u)})
  BY <1>4, <1>9, <1>10, <1>11, StoringIsServed
<1>13. PICK c : c = [b EXCEPT !.words = [i \in 1 .. b.size |-> u]]
  OBVIOUS
<1>14. b.lvl \in Nat /\ b.at \in Nat /\ b.size \in Nat
       /\ b = [lvl |-> b.lvl, at |-> b.at, size |-> b.size, words |-> b.words]
  BY <1>4 DEF Claimed
<1>15. PICK s : s = [i \in 1 .. b.size |-> u]
  OBVIOUS
<1>16. s \in Seq({0} \cup Users) /\ Len(s) = b.size
  BY <1>14, <1>15
<1>17. c = [lvl |-> b.lvl, at |-> b.at, size |-> b.size, words |-> s]
  BY <1>13, <1>14, <1>15
<1>18. c \in Claimed /\ c.lvl = b.lvl /\ c.at = b.at /\ c.size = b.size /\ c.words = s
  BY <1>14, <1>16, <1>17 DEF Claimed
<1>19. c # NoBlock
  BY <1>18, WrappingAssumption DEF Claimed
<1>20. Holds(m2, c)
  <2>1. WordsAt(b.at, b.size) \subseteq Cells
    <3>1. Way(wrap, m.word, F[User(u)])
      BY <1>4, <1>11 DEF Books
    <3>2. Mine(F[User(u)]) \subseteq WordsOf(F[User(u)])
      BY <3>1, WayIsTyped
    <3>3. WordsOf(F[User(u)]) \subseteq Cells
      BY <1>4, <1>11, WordsAreCells
    <3>4. QED
      BY <1>4, <3>2, <3>3 DEF Mine, TopIs
  <2>2. \A i \in 1 .. b.size : b.at + i - 1 \in WordsAt(b.at, b.size) /\ s[i] = u
    BY <1>14, <1>15 DEF WordsAt
  <2>3. \A i \in 1 .. b.size : words[b.at + i - 1] = s[i]
    BY <1>8, <2>1, <2>2
  <2>4. m2.word = words
    BY <1>10
  <2>5. QED
    BY <1>14, <1>16, <1>18, <2>3, <2>4 DEF Holds
<1>21. PICK hd : hd = [held EXCEPT ![u] = c]
  OBVIOUS
<1>22. held' = hd
  <2>1. held' = [held EXCEPT ![u].words = s]
    BY <1>3, <1>15 DEF Store
  <2>2. c = [held[u] EXCEPT !.words = s]
    BY <1>3, <1>13, <1>15
  <2>3. QED
    BY <1>1, <1>21, <2>1, <2>2
<1>23. Serves(Mem, F, m2, F, {User(u)}) /\ TopIs(F[User(u)], c.lvl, c.at, c.size)
  BY <1>4, <1>5, <1>12, <1>18
<1>24. InOrder(wrap, m2, hd)
  BY <1>1, <1>2, <1>4, <1>18, <1>19, <1>20, <1>21, <1>23, UserIsServed
<1>25. Remember(m2) /\ UNCHANGED wrap
  <2>1. m2.lent = heap /\ m2.word = words
    BY <1>5, <1>10
  <2>2. heap' = heap /\ word' = words /\ wrap' = wrap
    BY <1>3, <1>7 DEF Store
  <2>3. QED
    BY <2>1, <2>2 DEF Remember
<1>26. Books(wrap, m2, F)
  BY <1>12 DEF Serves
<1>27. QED
  BY <1>22, <1>24, <1>25, <1>26, StepEnds

-----------------------------------------------------------------------------
(* The steps that stack an allocator, and that take one away.              *)

(* The books have the structs of every allocator of the stack,             *)
Structs(st, F) ==
  \A j \in 1 .. Len(st) :
    /\ Ctx(j) \in DOMAIN F /\ TopIs(F[Ctx(j)], j - 1, st[j].ctx, CtxSize)
    /\ Obj(j) \in DOMAIN F /\ TopIs(F[Obj(j)], j - 1, st[j].obj, TableSize)

(* and beside the users' blocks those alone.                               *)
OnlyTheirs(st, F) ==
  \A o \in DOMAIN F : \/ \E u \in Users : o = User(u)
                      \/ \E j \in 1 .. Len(st) : o = Ctx(j) \/ o = Obj(j)

(* No user's.                                                              *)
NoUsers(Q) == \A u \in Users : User(u) \notin Q

(* What Claims says of the allocators.                                     *)
LEMMA StructsAreClaimed ==
  ASSUME NEW st, NEW hd, NEW F, Claims(st, hd, F)
  PROVE  Structs(st, F) /\ OnlyTheirs(st, F)
<1>1. Structs(st, F)
  BY DEF Claims, Structs
<1>2. OnlyTheirs(st, F)
  BY DEF Claims, OnlyTheirs
<1>3. QED
  BY <1>1, <1>2

(* A call for others leaves an allocator's structs.                        *)
LEMMA StructsStay ==
  ASSUME NEW st, NEW m, NEW F, NEW m2, NEW F2, NEW Q, Serves(m, F, m2, F2, Q), Structs(st, F),
         \A j \in 1 .. Len(st) : Ctx(j) \notin Q /\ Obj(j) \notin Q
  PROVE  Structs(st, F2)
<1>1. ASSUME NEW j \in 1 .. Len(st)
      PROVE  /\ Ctx(j) \in DOMAIN F2 /\ TopIs(F2[Ctx(j)], j - 1, st[j].ctx, CtxSize)
             /\ Obj(j) \in DOMAIN F2 /\ TopIs(F2[Obj(j)], j - 1, st[j].obj, TableSize)
  <2>1. /\ Ctx(j) \in DOMAIN F /\ TopIs(F[Ctx(j)], j - 1, st[j].ctx, CtxSize)
        /\ Obj(j) \in DOMAIN F /\ TopIs(F[Obj(j)], j - 1, st[j].obj, TableSize)
    BY DEF Structs
  <2>2. /\ Ctx(j) \in DOMAIN F2 /\ F2[Ctx(j)] = F[Ctx(j)]
        /\ Obj(j) \in DOMAIN F2 /\ F2[Obj(j)] = F[Obj(j)]
    BY <2>1 DEF Serves
  <2>3. QED
    BY <2>1, <2>2
<1>2. QED
  BY <1>1 DEF Structs

(* After a call for no user, on whatever stack its books are the books of. *)
LEMMA StackIsServed ==
  ASSUME WrapInv, NEW F, Books(wrap, Mem, F), Claims(wrap, held, F),
         NEW m2, NEW F2, NEW Q, Serves(Mem, F, m2, F2, Q), NoUsers(Q),
         NEW st \in Seq(Tables), Books(st, m2, F2), Structs(st, F2), OnlyTheirs(st, F2)
  PROVE  InOrder(st, m2, held)
<1>1. held \in [Users -> Claimed \cup {NoBlock}]
      /\ \A v \in Users : held[v] # NoBlock => Holds(Mem, held[v])
  BY DEF WrapInv, InOrder
<1>2. ASSUME NEW v \in Users, held[v] # NoBlock
      PROVE  /\ User(v) \in DOMAIN F2 /\ TopIs(F2[User(v)], held[v].lvl, held[v].at, held[v].size)
             /\ Holds(m2, held[v])
  <2>1. User(v) \notin Q /\ held[v] \in Claimed /\ Holds(Mem, held[v])
    BY <1>1, <1>2 DEF NoUsers
  <2>2. PICK m : m = Mem
    OBVIOUS
  <2>3. Books(wrap, m, F) /\ Serves(m, F, m2, F2, Q) /\ Holds(m, held[v])
    BY <2>1, <2>2
  <2>4. QED
    BY <1>2, <2>1, <2>3, OthersHold
<1>3. ASSUME NEW o \in DOMAIN F2, NEW u \in Users, o = User(u)
      PROVE  held[u] # NoBlock
  <2>1. User(u) \in DOMAIN F
    BY <1>3 DEF Serves, NoUsers
  <2>2. \E v \in Users : User(u) = User(v) /\ held[v] # NoBlock
    BY <2>1, NamesDiffer DEF Claims
  <2>3. QED
    BY <2>2, NamesDiffer
<1>4. ASSUME NEW o \in DOMAIN F2
      PROVE  \/ \E u \in Users : o = User(u) /\ held[u] # NoBlock
             \/ \E j \in 1 .. Len(st) : o = Ctx(j) \/ o = Obj(j)
  BY <1>3 DEF OnlyTheirs
<1>5. Claims(st, held, F2)
  BY <1>2, <1>4 DEF Claims, Structs
<1>6. QED
  BY <1>1, <1>2, <1>5 DEF InOrder

(* A step of no user that ends with InOrder of what it left.               *)
LEMMA StackStepEnds ==
  ASSUME NEW m, Remember(m), MemOK(m), NEW st, InOrder(st, m, held), wrap' = st, UNCHANGED held
  PROVE  WrapInv'
<1>1. Mem' = m
  BY MemAfter
<1>2. InOrder(wrap', Mem', held')
  BY <1>1
<1>3. QED
  BY <1>2 DEF WrapInv

(* The structs of the next allocator are in no books yet.                  *)
LEMMA NextIsNew ==
  ASSUME wrap \in Seq(Tables), NEW F, Claims(wrap, held, F), NEW k, k = Len(wrap) + 1
  PROVE  Ctx(k) \notin DOMAIN F /\ Obj(k) \notin DOMAIN F
<1>1. PICK l \in Nat : l = Len(wrap)
  OBVIOUS
<1>2. \A j \in 1 .. l : j # k
  BY <1>1
<1>3. \A j \in 1 .. Len(wrap) : Ctx(k) # Ctx(j) /\ Ctx(k) # Obj(j) /\ Obj(k) # Ctx(j) /\ Obj(k) # Obj(j)
  BY <1>1, <1>2, NamesDiffer
<1>4. \A u : Ctx(k) # User(u) /\ Obj(k) # User(u)
  BY NamesDiffer
<1>5. QED
  BY <1>3, <1>4 DEF Claims

(* NewLog and NewAligned leave the invariant.                              *)
LEMMA NewTableOK ==
  ASSUME WrapInv, NEW kind \in {"log", "aligned"}, NEW alignment \in Alignments \cup {Unit},
         kind = "aligned" => alignment \in Alignments,
         NEW ans1 \in MallocAnswers, NEW ans2 \in MallocAnswers,
         NewTable(kind, alignment, ans1, ans2)
  PROVE  WrapInv'
<1>1. wrap \in Seq(Tables)
  BY DEF WrapInv, InOrder
<1>2. PICK F : Books(wrap, Mem, F) /\ Claims(wrap, held, F)
  BY DEF WrapInv, InOrder
<1>3. PICK m, k : m = Mem /\ k = Len(wrap)
  OBVIOUS
<1>4. k \in Nat /\ k \in 0 .. Len(wrap) /\ Books(wrap, m, F)
  BY <1>1, <1>2, <1>3
<1>5. PICK c, o : c = Ctx(k + 1) /\ o = Obj(k + 1)
  OBVIOUS
<1>6. c \notin DOMAIN F /\ o \notin DOMAIN F
  <2>1. PICK next : next = Len(wrap) + 1
    OBVIOUS
  <2>2. Ctx(next) \notin DOMAIN F /\ Obj(next) \notin DOMAIN F
    BY <1>1, <1>2, <2>1, NextIsNew
  <2>3. QED
    BY <1>3, <1>5, <2>1, <2>2
<1>7. o # c
  BY <1>5, NamesDiffer
<1>8. \A j \in 1 .. Len(wrap) : Ctx(j) \notin {c, o} /\ Obj(j) \notin {c, o}
  <2>1. \A j \in 1 .. k : j # k + 1
    BY <1>4
  <2>2. QED
    BY <1>3, <1>5, <2>1, NamesDiffer
<1>9. NoUsers({c, o}) /\ NoUsers({c})
  BY <1>5, NamesDiffer DEF NoUsers
<1>10. PICK ctx : ctx = AllocAt(k, m, CtxSize, ans1)
  OBVIOUS
<1>11. PICK obj : obj = AllocAt(k, ctx.m, TableSize, ans2)
  OBVIOUS
<1>12. /\ UNCHANGED held
       /\ \/ /\ ctx.at = NoBlock
             /\ UNCHANGED <<wrap, heap, word>>
          \/ /\ ctx.at # NoBlock /\ obj.at = NoBlock
             /\ Remember(DeallocAt(k, ctx.m, ctx.at, CtxSize))
             /\ UNCHANGED wrap
          \/ /\ ctx.at # NoBlock /\ obj.at # NoBlock
             /\ Remember(obj.m)
             /\ wrap' = Append(wrap, [kind |-> kind, alignment |-> alignment,
                                      ctx |-> ctx.at, obj |-> obj.at])
  BY <1>3, <1>10, <1>11 DEF NewTable
<1>13. Structs(wrap, F) /\ OnlyTheirs(wrap, F)
  BY <1>2, StructsAreClaimed
<1>14. CtxSize \in Nat /\ CtxSize <= Wd!SizeMaxOf(W) /\ TableSize \in Nat /\ TableSize <= Wd!SizeMaxOf(W)
  BY TheConstants DEF CtxSize, TableSize
<1>15. CASE ctx.at = NoBlock
  <2>1. UNCHANGED wrapVars
    BY <1>12, <1>15 DEF wrapVars
  <2>2. QED
    BY <2>1, WrapStutter
<1>16. CASE ctx.at # NoBlock
  <2>1. ctx # Found(NoBlock, m)
    BY <1>16 DEF Found
  <2>2. Granted(m, F, c, k, CtxSize, ctx)
    BY <1>1, <1>4, <1>6, <1>10, <1>14, <2>1, AllocIsGranted
  <2>3. PICK m1 : m1 = ctx.m
    OBVIOUS
  <2>4. PICK F1 : /\ Serves(m, F, m1, F1, {c}) /\ c \in DOMAIN F1
                  /\ TopIs(F1[c], k, ctx.at, CtxSize) /\ ctx.at \in Nat
    BY <2>2, <2>3 DEF Granted
  <2>5. Books(wrap, m1, F1) /\ o \notin DOMAIN F1 /\ \A x \in DOMAIN F1 : x \in DOMAIN F \/ x = c
    BY <1>6, <1>7, <2>4 DEF Serves
  <2>6. CASE obj.at = NoBlock
    <3>1. PICK m2 : m2 = DeallocAt(k, m1, ctx.at, CtxSize)
      OBVIOUS
    <3>2. PICK F2 : F2 = Without(F1, c)
      OBVIOUS
    <3>3. Serves(m1, F1, m2, F2, {c})
      BY <1>1, <2>4, <2>5, <3>1, <3>2, DeallocIsServed
    <3>4. Serves(m, F, m2, F2, {c})
      BY <2>4, <3>3, ServesInTurn
    <3>5. Books(wrap, m2, F2) /\ \A x \in DOMAIN F2 : x \in DOMAIN F
      BY <2>5, <3>2, <3>3 DEF Serves, Without
    <3>6. Structs(wrap, F2)
      BY <1>8, <1>13, <3>4, StructsStay
    <3>7. OnlyTheirs(wrap, F2)
      BY <1>13, <3>5 DEF OnlyTheirs
    <3>8. Serves(Mem, F, m2, F2, {c})
      BY <1>3, <3>4
    <3>9. InOrder(wrap, m2, held)
      BY <1>1, <1>2, <1>9, <3>5, <3>6, <3>7, <3>8, StackIsServed
    <3>10. Remember(m2) /\ wrap' = wrap /\ UNCHANGED held
      BY <1>12, <1>16, <2>3, <2>6, <3>1
    <3>11. MemOK(m2)
      BY <3>5 DEF Books
    <3>12. QED
      BY <3>9, <3>10, <3>11, StackStepEnds
  <2>7. CASE obj.at # NoBlock
    <3>1. obj # Found(NoBlock, m1)
      BY <2>7 DEF Found
    <3>2. Granted(m1, F1, o, k, TableSize, obj)
      <4>1. obj = AllocAt(k, m1, TableSize, ans2)
        BY <1>11, <2>3
      <4>2. QED
        BY <1>1, <1>4, <1>14, <2>5, <3>1, <4>1, AllocIsGranted
    <3>3. PICK m2 : m2 = obj.m
      OBVIOUS
    <3>4. PICK F2 : /\ Serves(m1, F1, m2, F2, {o}) /\ o \in DOMAIN F2
                    /\ TopIs(F2[o], k, obj.at, TableSize) /\ obj.at \in Nat
      BY <3>2, <3>3 DEF Granted
    <3>5. c \in DOMAIN F2 /\ TopIs(F2[c], k, ctx.at, CtxSize)
      BY <1>7, <2>4, <3>4 DEF Serves
    <3>6. Serves(m, F, m2, F2, {c, o})
      <4>1. Serves(m, F, m1, F1, {c, o})
        BY <2>4, ServesMore
      <4>2. Serves(m1, F1, m2, F2, {c, o})
        BY <3>4, ServesMore
      <4>3. QED
        BY <4>1, <4>2, ServesInTurn
    <3>7. Books(wrap, m2, F2) /\ \A x \in DOMAIN F2 : x \in DOMAIN F \/ x = c \/ x = o
      BY <2>5, <3>4 DEF Serves
    <3>8. Structs(wrap, F2)
      BY <1>8, <1>13, <3>6, StructsStay
    <3>9. PICK t : t = [kind |-> kind, alignment |-> alignment, ctx |-> ctx.at, obj |-> obj.at]
      OBVIOUS
    <3>10. t \in Tables /\ t.ctx = ctx.at /\ t.obj = obj.at
      BY <2>4, <3>4, <3>9 DEF Tables
    <3>11. PICK st : st = Append(wrap, t)
      OBVIOUS
    <3>12. /\ st \in Seq(Tables) /\ Len(st) = k + 1 /\ st[k + 1] = t
           /\ \A j \in 1 .. k : st[j] = wrap[j]
      BY <1>1, <1>3, <3>10, <3>11
    <3>13. Structs(st, F2)
      <4>1. ASSUME NEW j \in 1 .. k + 1
            PROVE  /\ Ctx(j) \in DOMAIN F2 /\ TopIs(F2[Ctx(j)], j - 1, st[j].ctx, CtxSize)
                   /\ Obj(j) \in DOMAIN F2 /\ TopIs(F2[Obj(j)], j - 1, st[j].obj, TableSize)
        <5>1. CASE j = k + 1
          <6>1. j - 1 = k
            BY <1>4, <5>1
          <6>2. QED
            BY <1>5, <3>4, <3>5, <3>10, <3>12, <5>1, <6>1
        <5>2. CASE j # k + 1
          <6>1. j \in 1 .. Len(wrap) /\ st[j] = wrap[j]
            BY <1>3, <1>4, <3>12, <5>2
          <6>2. QED
            BY <3>8, <6>1 DEF Structs
        <5>3. QED
          BY <5>1, <5>2
      <4>2. QED
        BY <3>12, <4>1 DEF Structs
    <3>14. OnlyTheirs(st, F2)
      <4>1. ASSUME NEW x \in DOMAIN F2
            PROVE  \/ \E u \in Users : x = User(u)
                   \/ \E j \in 1 .. k + 1 : x = Ctx(j) \/ x = Obj(j)
        <5>1. CASE x = c \/ x = o
          <6>1. k + 1 \in 1 .. k + 1
            BY <1>4
          <6>2. QED
            BY <1>5, <5>1, <6>1
        <5>2. CASE x \in DOMAIN F
          <6>1. \/ \E u \in Users : x = User(u)
                \/ \E j \in 1 .. k : x = Ctx(j) \/ x = Obj(j)
            BY <1>3, <1>13, <5>2 DEF OnlyTheirs
          <6>2. \A j \in 1 .. k : j \in 1 .. k + 1
            BY <1>4
          <6>3. QED
            BY <6>1, <6>2
        <5>3. QED
          BY <3>7, <5>1, <5>2
      <4>2. QED
        BY <3>12, <4>1 DEF OnlyTheirs
    <3>15. Books(st, m2, F2)
      <4>1. ASSUME NEW x \in DOMAIN F2
            PROVE  F2[x].lvl <= Len(st) /\ \A j \in 1 .. F2[x].lvl : st[j] = wrap[j]
        <5>1. Way(wrap, m2.word, F2[x])
          BY <3>7 DEF Books
        <5>2. F2[x].lvl \in Nat /\ F2[x].lvl <= k
          BY <1>3, <5>1 DEF Way, WayType
        <5>3. \A j \in 1 .. F2[x].lvl : j \in 1 .. k
          BY <1>4, <5>2
        <5>4. QED
          BY <1>4, <3>12, <5>2, <5>3
      <4>2. QED
        BY <3>7, <4>1, BooksOnAnother
    <3>16. Serves(Mem, F, m2, F2, {c, o})
      BY <1>3, <3>6
    <3>17. InOrder(st, m2, held)
      BY <1>2, <1>9, <3>12, <3>13, <3>14, <3>15, <3>16, StackIsServed
    <3>18. Remember(m2) /\ wrap' = st /\ UNCHANGED held
      BY <1>12, <1>16, <2>7, <3>3, <3>9, <3>11
    <3>19. MemOK(m2)
      BY <3>7 DEF Books
    <3>20. QED
      BY <3>17, <3>18, <3>19, StackStepEnds
  <2>8. QED
    BY <2>6, <2>7
<1>17. QED
  BY <1>15, <1>16

(* DropTop leaves the invariant.                                           *)
LEMMA DropTopOK ==
  ASSUME WrapInv, DropTop
  PROVE  WrapInv'
<1>1. wrap \in Seq(Tables)
  BY DEF WrapInv, InOrder
<1>2. PICK F : Books(wrap, Mem, F) /\ Claims(wrap, held, F)
  BY DEF WrapInv, InOrder
<1>3. PICK m, k : m = Mem /\ k = Len(wrap) - 1
  OBVIOUS
<1>4. /\ wrap # <<>> /\ UNCHANGED held
      /\ \A u \in Users : held[u] # NoBlock => held[u].lvl <= k
      /\ Remember(WithoutStructs(k, wrap[k + 1]))
      /\ wrap' = SubSeq(wrap, 1, k)
  BY <1>3 DEF DropTop
<1>5. k \in Nat /\ Len(wrap) = k + 1 /\ k + 1 \in 1 .. Len(wrap) /\ (k + 1) - 1 = k
  BY <1>1, <1>3, <1>4
<1>6. PICK c, o, t : c = Ctx(k + 1) /\ o = Obj(k + 1) /\ t = wrap[k + 1]
  OBVIOUS
<1>7. Structs(wrap, F) /\ OnlyTheirs(wrap, F)
  BY <1>2, StructsAreClaimed
<1>8. /\ c \in DOMAIN F /\ TopIs(F[c], k, t.ctx, CtxSize)
      /\ o \in DOMAIN F /\ TopIs(F[o], k, t.obj, TableSize)
  BY <1>5, <1>6, <1>7 DEF Structs
<1>9. o # c /\ NoUsers({c, o})
  BY <1>6, NamesDiffer DEF NoUsers
<1>10. PICK m1, F1 : m1 = DeallocAt(k, m, t.ctx, CtxSize) /\ F1 = Without(F, c)
  OBVIOUS
<1>11. Serves(m, F, m1, F1, {c})
  <2>1. Books(wrap, m, F)
    BY <1>2, <1>3
  <2>2. QED
    BY <1>1, <1>8, <1>10, <2>1, DeallocIsServed
<1>12. Books(wrap, m1, F1) /\ o \in DOMAIN F1 /\ TopIs(F1[o], k, t.obj, TableSize)
  BY <1>8, <1>9, <1>10, <1>11 DEF Serves, Without
<1>13. PICK m2, F2 : m2 = DeallocAt(k, m1, t.obj, TableSize) /\ F2 = Without(F1, o)
  OBVIOUS
<1>14. Serves(m1, F1, m2, F2, {o})
  BY <1>1, <1>12, <1>13, DeallocIsServed
<1>15. Serves(m, F, m2, F2, {c, o}) /\ Books(wrap, m2, F2)
  <2>1. Serves(m, F, m1, F1, {c, o})
    BY <1>11, ServesMore
  <2>2. Serves(m1, F1, m2, F2, {c, o})
    BY <1>14, ServesMore
  <2>3. Serves(m, F, m2, F2, {c, o})
    BY <2>1, <2>2, ServesInTurn
  <2>4. QED
    BY <2>3 DEF Serves
<1>16. DOMAIN F2 = DOMAIN F \ {c, o} /\ \A x \in DOMAIN F2 : F2[x] = F[x]
  BY <1>10, <1>13 DEF Without
<1>17. PICK st : st = SubSeq(wrap, 1, k)
  OBVIOUS
<1>18. st \in Seq(Tables) /\ Len(st) = k /\ \A j \in 1 .. k : st[j] = wrap[j]
  BY <1>1, <1>5, <1>17
<1>19. \A j \in 1 .. k : j \in 1 .. Len(wrap) /\ j # k + 1 /\ j - 1 <= k
  BY <1>5
<1>20. Structs(st, F2)
  <2>1. ASSUME NEW j \in 1 .. k
        PROVE  /\ Ctx(j) \in DOMAIN F2 /\ TopIs(F2[Ctx(j)], j - 1, st[j].ctx, CtxSize)
               /\ Obj(j) \in DOMAIN F2 /\ TopIs(F2[Obj(j)], j - 1, st[j].obj, TableSize)
    <3>1. j \in 1 .. Len(wrap) /\ j # k + 1 /\ st[j] = wrap[j]
      BY <1>18, <1>19
    <3>2. /\ Ctx(j) \in DOMAIN F /\ TopIs(F[Ctx(j)], j - 1, wrap[j].ctx, CtxSize)
          /\ Obj(j) \in DOMAIN F /\ TopIs(F[Obj(j)], j - 1, wrap[j].obj, TableSize)
      BY <1>7, <3>1 DEF Structs
    <3>3. Ctx(j) \notin {c, o} /\ Obj(j) \notin {c, o}
      BY <1>6, <3>1, NamesDiffer
    <3>4. Ctx(j) \in DOMAIN F2 /\ Obj(j) \in DOMAIN F2
      BY <1>16, <3>2, <3>3
    <3>5. QED
      BY <1>16, <3>1, <3>2, <3>4
  <2>2. QED
    BY <1>18, <2>1 DEF Structs
<1>21. ASSUME NEW x \in DOMAIN F2
       PROVE  /\ \/ \E u \in Users : x = User(u)
                 \/ \E j \in 1 .. k : x = Ctx(j) \/ x = Obj(j)
              /\ F2[x].lvl <= k
  <2>1. x \in DOMAIN F /\ x # c /\ x # o /\ F2[x] = F[x]
    BY <1>16
  <2>2. \/ \E u \in Users : x = User(u) /\ held[u] # NoBlock
        \/ \E j \in 1 .. Len(wrap) : x = Ctx(j) \/ x = Obj(j)
    BY <1>2, <2>1 DEF Claims
  <2>3. ASSUME NEW u \in Users, x = User(u), held[u] # NoBlock
        PROVE  F2[x].lvl <= k
    <3>1. F[x].lvl = held[u].lvl
      BY <1>2, <2>3 DEF Claims, TopIs
    <3>2. QED
      BY <1>4, <2>1, <2>3, <3>1
  <2>4. ASSUME NEW j \in 1 .. Len(wrap), x = Ctx(j) \/ x = Obj(j)
        PROVE  j \in 1 .. k /\ F2[x].lvl <= k
    <3>1. j # k + 1
      BY <1>6, <2>1, <2>4
    <3>2. j \in 1 .. k
      BY <1>5, <3>1
    <3>3. F[x].lvl = j - 1
      BY <1>7, <2>4 DEF Structs, TopIs
    <3>4. QED
      BY <1>19, <2>1, <3>2, <3>3
  <2>5. QED
    BY <2>2, <2>3, <2>4
<1>22. OnlyTheirs(st, F2)
  BY <1>18, <1>21 DEF OnlyTheirs
<1>23. Books(st, m2, F2)
  <2>1. ASSUME NEW x \in DOMAIN F2
        PROVE  F2[x].lvl <= Len(st) /\ \A j \in 1 .. F2[x].lvl : st[j] = wrap[j]
    <3>1. Way(wrap, m2.word, F2[x])
      BY <1>15 DEF Books
    <3>2. F2[x].lvl \in Nat /\ F2[x].lvl <= k
      BY <1>21, <3>1 DEF Way, WayType
    <3>3. \A j \in 1 .. F2[x].lvl : j \in 1 .. k
      BY <1>5, <3>2
    <3>4. QED
      BY <1>18, <3>2, <3>3
  <2>2. QED
    BY <1>15, <2>1, BooksOnAnother
<1>24. Serves(Mem, F, m2, F2, {c, o})
  BY <1>3, <1>15
<1>25. InOrder(st, m2, held)
  BY <1>2, <1>9, <1>18, <1>20, <1>22, <1>23, <1>24, StackIsServed
<1>26. Remember(m2) /\ wrap' = st /\ UNCHANGED held
  BY <1>3, <1>4, <1>6, <1>10, <1>13, <1>17 DEF WithoutStructs
<1>27. MemOK(m2)
  BY <1>15 DEF Books
<1>28. QED
  BY <1>25, <1>26, <1>27, StackStepEnds

-----------------------------------------------------------------------------
(* The invariant, in every state.                                          *)

(* A heap that has lent nothing, under a stack of none.                    *)
LEMMA WrapInvInitially ==
  ASSUME WrapInit
  PROVE  WrapInv
<1>1. /\ wrap = <<>> /\ heap = [b \in {} |-> 0]
      /\ word = [p \in Cells |-> Stale] /\ held = [u \in Users |-> NoBlock]
  BY DEF WrapInit, Cells
<1>2. PICK m : m = Mem
  OBVIOUS
<1>3. m = [lent |-> heap, word |-> word] /\ m.lent = heap /\ m.word = word
  BY <1>2 DEF Mem
<1>4. DOMAIN heap = {} /\ heap = [b \in DOMAIN heap |-> heap[b]]
  BY <1>1
<1>5. word = [p \in Cells |-> word[p]]
  BY <1>1
<1>6. MemOK(m)
  BY <1>3, <1>4, <1>5 DEF MemOK
<1>7. PICK F : F = [o \in {} |-> 0]
  OBVIOUS
<1>8. DOMAIN F = {}
  BY <1>7
<1>9. Books(wrap, m, F)
  BY <1>3, <1>4, <1>6, <1>8 DEF Books
<1>10. wrap \in Seq(Tables) /\ Len(wrap) = 0
  BY <1>1
<1>11. held \in [Users -> Claimed \cup {NoBlock}] /\ \A u \in Users : held[u] = NoBlock
  BY <1>1
<1>12. 1 .. Len(wrap) = {}
  BY <1>10
<1>13. Claims(wrap, held, F)
  BY <1>8, <1>11, <1>12 DEF Claims
<1>14. QED
  BY <1>2, <1>9, <1>10, <1>11, <1>13 DEF WrapInv, InOrder

(* Every step leaves it.                                                   *)
LEMMA WrapInvStays ==
  ASSUME WrapInv, [WrapNext]_wrapVars
  PROVE  WrapInv'
<1>1. CASE UNCHANGED wrapVars
  BY <1>1, WrapStutter
<1>2. CASE DropTop
  BY <1>2, DropTopOK
<1>3. ASSUME NEW ans1 \in MallocAnswers, NEW ans2 \in MallocAnswers, NewLog(ans1, ans2)
      PROVE  WrapInv'
  <2>1. NewTable("log", Unit, ans1, ans2)
    BY <1>3 DEF NewLog
  <2>2. QED
    BY <2>1, NewTableOK
<1>4. ASSUME NEW ans1 \in MallocAnswers, NEW ans2 \in MallocAnswers,
             NEW a \in Alignments, NewAligned(a, ans1, ans2)
      PROVE  WrapInv'
  <2>1. NewTable("aligned", a, ans1, ans2)
    BY <1>4 DEF NewAligned
  <2>2. QED
    BY <2>1, NewTableOK
<1>5. ASSUME NEW u \in Users, Give(u)
      PROVE  WrapInv'
  BY <1>5, GiveOK
<1>6. ASSUME NEW u \in Users, Store(u)
      PROVE  WrapInv'
  BY <1>6, StoreOK
<1>7. ASSUME NEW u \in Users, NEW n \in Requests, NEW ans \in MallocAnswers, Resize(u, n, ans)
      PROVE  WrapInv'
  BY <1>7, ResizeOK
<1>8. ASSUME NEW u \in Users, NEW n \in Requests, NEW ans \in MallocAnswers, NEW k \in Levels,
             Take(u, k, n, ans) \/ TakeByRealloc(u, k, n, ans)
      PROVE  WrapInv'
  BY <1>8, TakeOK
<1>9. ASSUME NEW u \in Users, NEW n \in Requests, NEW ans \in MallocAnswers, NEW k \in Levels,
             NEW t \in Times, TakeZeroed(u, k, t, n, ans)
      PROVE  WrapInv'
  BY <1>9, TakeZeroedOK
<1>10. QED
  BY <1>1, <1>2, <1>3, <1>4, <1>5, <1>6, <1>7, <1>8, <1>9 DEF WrapNext

(* Every owner of a block has a way through the words in front of aligned  *)
(* blocks to a block of the heap of its own, all of whose other words are  *)
(* left alone by whoever else calls.                                       *)
THEOREM WaysAlwaysLeadHome == WrapSpec => []WrapInv
<1>1. WrapInit => WrapInv
  BY WrapInvInitially
<1>2. WrapInv /\ [WrapNext]_wrapVars => WrapInv'
  BY WrapInvStays
<1>3. QED
  BY <1>1, <1>2, PTL DEF WrapSpec

-----------------------------------------------------------------------------
(* What the owners' books say of the blocks they own.                      *)

(* The block at the top of a way.                                          *)
TopOf(w) == [lvl |-> w.lvl, at |-> w.at[w.lvl], size |-> w.size[w.lvl]]

(* The blocks that are owned are those at the tops of the ways.            *)
LEMMA OwnedAreTops ==
  ASSUME NEW F, Claims(wrap, held, F)
  PROVE  OwnedBlocks = {TopOf(F[o]) : o \in DOMAIN F}
<1>1. ASSUME NEW o \in DOMAIN F, NEW k, NEW p, NEW n, TopIs(F[o], k, p, n)
      PROVE  TopOf(F[o]) = [lvl |-> k, at |-> p, size |-> n]
  BY <1>1 DEF TopIs, TopOf
<1>2. ASSUME NEW u \in Users, held[u] # NoBlock
      PROVE  /\ User(u) \in DOMAIN F
             /\ TopOf(F[User(u)]) = [lvl |-> held[u].lvl, at |-> held[u].at, size |-> held[u].size]
  <2>1. User(u) \in DOMAIN F /\ TopIs(F[User(u)], held[u].lvl, held[u].at, held[u].size)
    BY <1>2 DEF Claims
  <2>2. QED
    BY <1>1, <2>1
<1>3. ASSUME NEW k \in 1 .. Len(wrap)
      PROVE  /\ Ctx(k) \in DOMAIN F /\ Obj(k) \in DOMAIN F
             /\ TopOf(F[Ctx(k)]) = [lvl |-> k - 1, at |-> wrap[k].ctx, size |-> CtxSize]
             /\ TopOf(F[Obj(k)]) = [lvl |-> k - 1, at |-> wrap[k].obj, size |-> TableSize]
  <2>1. /\ Ctx(k) \in DOMAIN F /\ TopIs(F[Ctx(k)], k - 1, wrap[k].ctx, CtxSize)
        /\ Obj(k) \in DOMAIN F /\ TopIs(F[Obj(k)], k - 1, wrap[k].obj, TableSize)
    BY DEF Claims
  <2>2. QED
    BY <1>1, <2>1
<1>4. PICK T : T = {TopOf(F[o]) : o \in DOMAIN F}
  OBVIOUS
<1>5. ASSUME NEW b \in OwnedBlocks
      PROVE  b \in T
  <2>1. \/ \E u \in Users : held[u] # NoBlock
                            /\ b = [lvl |-> held[u].lvl, at |-> held[u].at, size |-> held[u].size]
        \/ \E k \in 1 .. Len(wrap) : \/ b = [lvl |-> k - 1, at |-> wrap[k].ctx, size |-> CtxSize]
                                     \/ b = [lvl |-> k - 1, at |-> wrap[k].obj, size |-> TableSize]
    BY <1>5 DEF OwnedBlocks
  <2>2. \E o \in DOMAIN F : b = TopOf(F[o])
    BY <1>2, <1>3, <2>1
  <2>3. QED
    BY <1>4, <2>2
<1>6. ASSUME NEW o \in DOMAIN F
      PROVE  TopOf(F[o]) \in OwnedBlocks
  <2>1. CASE \E u \in Users : o = User(u) /\ held[u] # NoBlock
    <3>1. PICK u \in Users : o = User(u) /\ held[u] # NoBlock
      BY <2>1
    <3>2. TopOf(F[o]) = [lvl |-> held[u].lvl, at |-> held[u].at, size |-> held[u].size]
      BY <1>2, <3>1
    <3>3. QED
      BY <3>1, <3>2 DEF OwnedBlocks
  <2>2. CASE \E k \in 1 .. Len(wrap) : o = Ctx(k) \/ o = Obj(k)
    <3>1. PICK k \in 1 .. Len(wrap) : o = Ctx(k) \/ o = Obj(k)
      BY <2>2
    <3>2. \/ TopOf(F[o]) = [lvl |-> k - 1, at |-> wrap[k].ctx, size |-> CtxSize]
          \/ TopOf(F[o]) = [lvl |-> k - 1, at |-> wrap[k].obj, size |-> TableSize]
      BY <1>3, <3>1
    <3>3. QED
      BY <3>1, <3>2 DEF OwnedBlocks
  <2>3. QED
    BY <2>1, <2>2 DEF Claims
<1>7. QED
  BY <1>4, <1>5, <1>6

(* Where a way leads, and that what is on it is aligned.                   *)
LEMMA TopComesHome ==
  ASSUME wrap \in Seq(Tables), NEW F, Books(wrap, Mem, F), NEW o \in DOMAIN F, NEW b, b = TopOf(F[o])
  PROVE  /\ Home(b).at = F[o].at[0]
         /\ Home(b).at \in DOMAIN heap
         /\ heap[Home(b).at] = Home(b).size
         /\ WordsAt(b.at, b.size) \subseteq WordsAt(Home(b).at, Home(b).size)
         /\ b.at % AlignmentAt(b.lvl) = 0
<1>1. PICK m : m = Mem
  OBVIOUS
<1>2. m.lent = heap /\ m.word = word /\ Books(wrap, m, F)
  BY <1>1 DEF Mem
<1>3. PICK w : w = F[o]
  OBVIOUS
<1>4. Way(wrap, word, w) /\ w.at[0] \in DOMAIN heap /\ heap[w.at[0]] = w.size[0]
  BY <1>2, <1>3 DEF Books
<1>5. b.lvl = w.lvl /\ b.at = w.at[w.lvl] /\ b.size = w.size[w.lvl]
  BY <1>3 DEF TopOf
<1>6. Home(b) = [at |-> w.at[0], size |-> w.size[0]]
  <2>1. HomeOf(w.lvl, word, w.at[w.lvl], w.size[w.lvl]) = [at |-> w.at[0], size |-> w.size[0]]
    BY <1>4, HomeIsTheEnd
  <2>2. QED
    BY <1>5, <2>1 DEF Home
<1>7. Home(b).at = w.at[0] /\ Home(b).size = w.size[0]
  BY <1>6
<1>8. WordsAt(b.at, b.size) \subseteq WordsAt(w.at[0], w.size[0])
  <2>1. Mine(w) \subseteq WordsOf(w)
    BY <1>4, WayIsTyped
  <2>2. QED
    BY <1>5, <2>1 DEF Mine, WordsOf
<1>9. b.at % AlignmentAt(b.lvl) = 0
  <2>1. PICK k : k = w.lvl
    OBVIOUS
  <2>2. k \in Nat /\ k <= Len(wrap) /\ \A i \in 1 .. k : Passes(wrap, word, w, i)
    BY <1>4, <2>1 DEF Way, WayType
  <2>3. k \in 0 .. Len(wrap)
    BY <2>2
  <2>4. PICK j : j = Reached(k)
    OBVIOUS
  <2>5. j \in 0 .. k /\ (j = 0 \/ wrap[j].kind = "aligned") /\ OnlyLogs(j, k)
    BY <2>3, <2>4, ReachedIs
  <2>6. w.at[j] = w.at[k]
    <3>1. j \in 0 .. w.lvl /\ OnlyLogs(j, w.lvl)
      BY <2>1, <2>5
    <3>2. w.at[j] = w.at[w.lvl]
      BY <1>4, <3>1, LogsChangeNothing
    <3>3. QED
      BY <2>1, <3>2
  <2>7. CASE j = 0
    <3>1. AlignmentAt(b.lvl) = Unit
      BY <1>5, <2>1, <2>4, <2>7 DEF AlignmentAt
    <3>2. F[o].at[0] % Unit = 0
      BY <1>2, WordsAreCells
    <3>3. b.at = F[o].at[0]
      BY <1>3, <1>5, <2>1, <2>6, <2>7
    <3>4. QED
      BY <3>1, <3>2, <3>3
  <2>8. CASE j # 0
    <3>1. AlignmentAt(b.lvl) = wrap[j].alignment
      BY <1>5, <2>1, <2>4, <2>8 DEF AlignmentAt
    <3>2. j \in 1 .. k
      BY <2>2, <2>5, <2>8
    <3>3. Passes(wrap, word, w, j) /\ wrap[j].kind # "log"
      BY <2>2, <2>5, <2>8, <3>2
    <3>4. w.at[j] % wrap[j].alignment = 0
      BY <3>3 DEF Passes, PassesAligned
    <3>5. QED
      BY <1>5, <2>1, <2>6, <3>1, <3>4
  <2>9. QED
    BY <2>7, <2>8
<1>10. QED
  BY <1>3, <1>4, <1>7, <1>8, <1>9

(* The invariant is enough for the blocks to come home.                    *)
LEMMA WrapInvSuffices ==
  ASSUME WrapInv
  PROVE  BlocksComeHome
<1>1. wrap \in Seq(Tables) /\ \A u \in Users : held[u] # NoBlock => Holds(Mem, held[u])
  BY DEF WrapInv, InOrder
<1>2. PICK F : Books(wrap, Mem, F) /\ Claims(wrap, held, F)
  BY DEF WrapInv, InOrder
<1>3. OwnedBlocks = {TopOf(F[o]) : o \in DOMAIN F}
  BY <1>2, OwnedAreTops
<1>4. ASSUME NEW o \in DOMAIN F
      PROVE  Home(TopOf(F[o])).at = F[o].at[0]
  <2>1. PICK b : b = TopOf(F[o])
    OBVIOUS
  <2>2. Home(b).at = F[o].at[0]
    BY <1>1, <1>2, <2>1, TopComesHome
  <2>3. QED
    BY <2>1, <2>2
<1>5. ASSUME NEW b \in OwnedBlocks
      PROVE  /\ Home(b).at \in DOMAIN heap
             /\ heap[Home(b).at] = Home(b).size
             /\ WordsAt(b.at, b.size) \subseteq WordsAt(Home(b).at, Home(b).size)
             /\ b.at % AlignmentAt(b.lvl) = 0
  <2>1. PICK o \in DOMAIN F : b = TopOf(F[o])
    BY <1>3
  <2>2. QED
    BY <1>1, <1>2, <2>1, TopComesHome
<1>6. ASSUME NEW b \in OwnedBlocks, NEW c \in OwnedBlocks, b # c
      PROVE  Home(b).at # Home(c).at
  <2>1. PICK o \in DOMAIN F : b = TopOf(F[o])
    BY <1>3
  <2>2. PICK p \in DOMAIN F : c = TopOf(F[p])
    BY <1>3
  <2>3. F[o].at[0] # F[p].at[0]
    BY <1>2, <1>6, <2>1, <2>2 DEF Books
  <2>4. Home(b).at = F[o].at[0] /\ Home(c).at = F[p].at[0]
    BY <1>4, <2>1, <2>2
  <2>5. QED
    BY <2>3, <2>4
<1>7. DOMAIN heap = {Home(b).at : b \in OwnedBlocks}
  <2>1. ASSUME NEW x \in DOMAIN heap
        PROVE  \E b \in OwnedBlocks : x = Home(b).at
    <3>1. Mem.lent = heap
      BY DEF Mem
    <3>2. PICK o \in DOMAIN F : F[o].at[0] = x
      BY <1>2, <3>1 DEF Books
    <3>3. TopOf(F[o]) \in OwnedBlocks
      BY <1>3
    <3>4. QED
      BY <1>4, <3>2, <3>3
  <2>2. \A b \in OwnedBlocks : Home(b).at \in DOMAIN heap
    BY <1>5
  <2>3. QED
    BY <2>1, <2>2
<1>8. ASSUME NEW u \in Users, held[u] # NoBlock
      PROVE  \A i \in 1 .. Len(held[u].words) : word[held[u].at + i - 1] = held[u].words[i]
  <2>1. Mem.word = word
    BY DEF Mem
  <2>2. Holds(Mem, held[u])
    BY <1>1, <1>8
  <2>3. QED
    BY <2>1, <2>2 DEF Holds
<1>9. QED
  BY <1>5, <1>6, <1>7, <1>8 DEF BlocksComeHome

(* The words in front of aligned blocks lead every block that is held, and *)
(* every allocator's structs, to a block of the heap of its own, which     *)
(* covers it and goes back with the size it was lent with, however the     *)
(* allocators are stacked and wherever a request was refused.              *)
THEOREM BlocksAlwaysComeHome == WrapSpec => []BlocksComeHome
<1>1. WrapInv => BlocksComeHome
  BY WrapInvSuffices
<1>2. QED
  BY <1>1, WaysAlwaysLeadHome, PTL
=============================================================================
