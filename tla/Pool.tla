-------------------------------- MODULE Pool ---------------------------------
(***************************************************************************)
(* alloc/pool: one block of a parent allocator cut into equal pieces, with *)
(* the free ones threaded on a list that runs through their own first      *)
(* words; and the calls of alloc/alloc.h as they reach it, where calloc    *)
(* and realloc fall back on alloc and dealloc.                             *)
(*                                                                         *)
(* Memory is counted in machine words. A word holds whatever was last      *)
(* stored in it: a link while its block is free, the owner's data while it *)
(* is lent - and the owner may store anything, what looks like a link      *)
(* included. Nothing in the pool says which blocks are lent; "lent" is the *)
(* clients' side of the story, kept by what the calls returned to them.    *)
(*                                                                         *)
(* A definition named after another one with a suffix (Move_..., ...)      *)
(* is that one with a slip in it, there for a property to notice.          *)
(***************************************************************************)
EXTENDS Integers

CONSTANTS
  Words,    \* what a client stores in a word of its block
  Junk,     \* what the parent's memory holds before anyone writes to it
  Null,
  Sizes,    \* sizes a caller asks for, in words
  Counts,   \* how many blocks, or elems, a caller asks for
  NodeSize, \* sizeof(PoolNode): a link takes one word
  Align,    \* TDA_DEFAULT_ALIGNMENT
  SizeMax   \* SIZE_MAX

ASSUME PoolAssumption ==
  /\ NodeSize \in Nat \ {0}
  /\ Align \in Nat \ {0}
  /\ SizeMax \in Nat
  /\ Sizes \subseteq Nat
  /\ Counts \subseteq Nat
  /\ Null \notin [bs : Nat, n : Nat, head : Nat, used : Nat]

VARIABLES
  pool,  \* struct PoolCtx, or Null when there is no pool
  cell,  \* cell[b][k] is word k of block b
  lent,  \* lent[b] is what the owner of block b knows to be in it
  owed   \* what the parent has lent: [ctx, data, obj], data in words

vars == <<pool, cell, lent, owed>>

(* A null link, and what memset leaves.                                    *)
Nil == 0

Values == Words \cup Nat \cup {Junk}
Pools  == [bs : Nat \ {0}, n : Nat \ {0}, head : Nat, used : Nat]

Alive     == pool # Null
BlockIds  == 1 .. pool.n
WordIds   == 1 .. pool.bs

(* What is known of a block nobody owns: none of its words.                *)
Unclaimed == [size |-> 0, words |-> [k \in 1 .. 0 |-> Nil]]
IsLent(b) == lent[b].size # 0

-----------------------------------------------------------------------------
(* tda_al_pool_new and tda_al_pool_drop.                                   *)

AtLeastANode(size) == IF size < NodeSize THEN NodeSize ELSE size

AlignUp(size) == ((size + Align - 1) \div Align) * Align
BlockSize(size) == AlignUp(AtLeastANode(size))

(* tda_ckd_align_up and ckd_mul.                                           *)
Overflows(size, n) ==
  \/ AtLeastANode(size) > SizeMax - (Align - 1)
  \/ BlockSize(size) * n > SizeMax

(* pool_build_free_list: every block links to the one after it.            *)
Threaded(cells, n) ==
  [b \in 1 .. n |-> [cells[b] EXCEPT ![1] = IF b = n THEN Nil ELSE b + 1]]

Raw(n, bs) == [b \in 1 .. n |-> [k \in 1 .. bs |-> Junk]]

NothingOwed == [ctx |-> 0, data |-> 0, obj |-> 0]

(* A block goes back to the parent with the size it was lent with, or its  *)
(* debt stands.                                                            *)
Settle(o, words) ==
  [ctx |-> o.ctx, data |-> IF o.data = words THEN 0 ELSE o.data, obj |-> o.obj]

ReturnCtx(o) == [ctx |-> o.ctx - 1, data |-> o.data, obj |-> o.obj]
ReturnObj(o) == [ctx |-> o.ctx, data |-> o.data, obj |-> o.obj - 1]

(* Of the three requests - context, blocks, table - the parent granted     *)
(* only the first few. What it lent by then goes back to it.               *)
NewRefused_KeepsBlocks(granted, words) ==
  CASE granted = 0 -> NothingOwed
    [] granted = 1 -> ReturnCtx([ctx |-> 1, data |-> 0, obj |-> 0])
    [] granted = 2 -> ReturnCtx([ctx |-> 1, data |-> words, obj |-> 0])

NewRefused(granted, words) ==
  CASE granted = 0 -> NothingOwed
    [] granted = 1 -> ReturnCtx([ctx |-> 1, data |-> 0, obj |-> 0])
    [] granted = 2 -> ReturnCtx(Settle([ctx |-> 1, data |-> words, obj |-> 0], words))

New(size, n, granted) ==
  LET bs == BlockSize(size)
  IN  /\ ~Alive
      /\ size > 0 /\ n > 0
      /\ \/ /\ Overflows(size, n)
            /\ UNCHANGED vars
         \/ /\ ~Overflows(size, n)
            /\ granted < 3
            /\ owed' = NewRefused(granted, bs * n)
            /\ UNCHANGED <<pool, cell, lent>>
         \/ /\ ~Overflows(size, n)
            /\ granted = 3
            /\ pool' = [bs |-> bs, n |-> n, head |-> 1, used |-> 0]
            /\ cell' = Threaded(Raw(n, bs), n)
            /\ lent' = [b \in 1 .. n |-> Unclaimed]
            /\ owed' = [ctx |-> 1, data |-> bs * n, obj |-> 1]

Drop ==
  /\ Alive
  /\ pool' = Null
  /\ cell' = <<>>
  /\ lent' = <<>>
  /\ owed' = ReturnObj(ReturnCtx(Settle(owed, pool.bs * pool.n)))

(* Every block is taken back at once, and every owner's claim dies.        *)
Reset ==
  /\ Alive
  /\ pool' = [pool EXCEPT !.head = 1, !.used = 0]
  /\ cell' = Threaded(cell, pool.n)
  /\ lent' = [b \in BlockIds |-> Unclaimed]
  /\ UNCHANGED owed

-----------------------------------------------------------------------------
(* pool_alloc and pool_dealloc.                                            *)

Refused(size) == size = 0 \/ size > pool.bs \/ pool.head = Nil

(* The pool p without its first free block, and with b back on its list.   *)
Taken(p, c)   == [p EXCEPT !.head = c[p.head][1], !.used = p.used + 1]
GotBack(p, b) == [p EXCEPT !.head = b, !.used = p.used - 1]

(* The words once b links to what was the first free block of p.           *)
Linked_ToItself(c, b, p) == [c EXCEPT ![b][1] = b]
Linked(c, b, p) == [c EXCEPT ![b][1] = p.head]

(* What the owner of a block of "size" words knows when the words are c.   *)
Claim(size, c) == [size |-> size, words |-> [k \in 1 .. size |-> c[k]]]

Alloc(size) ==
  /\ Alive
  /\ \/ /\ Refused(size)
        /\ UNCHANGED vars
     \/ /\ ~Refused(size)
        /\ pool' = Taken(pool, cell)
        /\ lent' = [lent EXCEPT ![pool.head] = Claim(size, cell[pool.head])]
        /\ UNCHANGED <<cell, owed>>

(* tda_calloc, which finds no calloc in the table: alloc and memset.       *)
Calloc(num, size) ==
  LET total  == num * size
      zeroed == [k \in WordIds |-> IF k <= total THEN Nil ELSE cell[pool.head][k]]
  IN  /\ Alive
      /\ \/ /\ total = 0 \/ total > SizeMax \/ Refused(total)
            /\ UNCHANGED vars
         \/ /\ total <= SizeMax
            /\ ~Refused(total)
            /\ pool' = Taken(pool, cell)
            /\ cell' = [cell EXCEPT ![pool.head] = zeroed]
            /\ lent' = [lent EXCEPT ![pool.head] =
                          [size |-> total, words |-> [k \in 1 .. total |-> Nil]]]
            /\ UNCHANGED owed

(* The size is not looked at. Null is a no-op, and no step here.           *)
Dealloc(b) ==
  /\ Alive
  /\ IsLent(b)
  /\ pool' = GotBack(pool, b)
  /\ cell' = Linked(cell, b, pool)
  /\ lent' = [lent EXCEPT ![b] = Unclaimed]
  /\ UNCHANGED owed

(* m words of "from" into "to".                                            *)
Copied(c, from, to, m) ==
  [c EXCEPT ![to] = [k \in WordIds |-> IF k <= m THEN c[from][k] ELSE c[to][k]]]

(* The last steps of a realloc by alloc, copy, dealloc: the words go to    *)
(* the block just taken, then the old block goes back on the list of p,    *)
(* which is what writes the link over its first word.                      *)
Move_FreeFirst(p, from, to, m) == Copied(Linked(cell, from, p), from, to, m)
Move(p, from, to, m) == Linked(Copied(cell, from, to, m), from, p)

(* tda_realloc, which finds no realloc in the table. Of a null pointer it  *)
(* is Alloc.                                                               *)
Realloc(b, size) ==
  LET to    == pool.head
      old   == lent[b]
      m     == IF old.size < size THEN old.size ELSE size
      taken == Taken(pool, cell)
  IN  /\ Alive
      /\ IsLent(b)
      /\ \/ /\ size = 0
            /\ Dealloc(b)
         \/ /\ size > 0
            /\ Refused(size)
            /\ UNCHANGED vars
         \/ /\ ~Refused(size)
            /\ pool' = GotBack(taken, b)
            /\ cell' = Move(taken, b, to, m)
            /\ lent' = [lent EXCEPT
                          ![to] = [size |-> size,
                                   words |-> [k \in 1 .. size |->
                                      IF k <= m THEN old.words[k] ELSE cell[to][k]]],
                          ![b] = Unclaimed]
            /\ UNCHANGED owed

(* The owner of b stores v in its k-th word.                               *)
ClientWrite(b, k, v) ==
  /\ Alive
  /\ IsLent(b)
  /\ k \in 1 .. lent[b].size
  /\ cell' = [cell EXCEPT ![b][k] = v]
  /\ lent' = [lent EXCEPT ![b].words[k] = v]
  /\ UNCHANGED <<pool, owed>>

-----------------------------------------------------------------------------
Init ==
  /\ pool = Null
  /\ cell = <<>>
  /\ lent = <<>>
  /\ owed = NothingOwed

Blocks == IF Alive THEN BlockIds ELSE {}

Next ==
  \/ \E size \in Sizes, n \in Counts, granted \in 0 .. 3 : New(size, n, granted)
  \/ Drop
  \/ Reset
  \/ \E size \in Sizes :
       \/ Alloc(size)
       \/ \E num \in Counts : Calloc(num, size)
       \/ \E b \in Blocks : Realloc(b, size)
  \/ \E b \in Blocks :
       \/ Dealloc(b)
       \/ \E k \in WordIds, v \in Words : ClientWrite(b, k, v)

Spec == Init /\ [][Next]_vars

-----------------------------------------------------------------------------
(* Properties.                                                             *)

PoolTypeOK ==
  /\ pool \in Pools
  /\ cell \in [BlockIds -> [WordIds -> Values]]
  /\ lent = [b \in BlockIds |-> lent[b]]
  /\ \A b \in BlockIds :
       \E s \in 0 .. pool.bs : lent[b] \in [size : {s}, words : [1 .. s -> Values]]

TypeOK ==
  /\ Alive => PoolTypeOK
  /\ owed \in [ctx : Nat, data : Nat, obj : Nat]

(* s lists the free blocks in the order the links visit them: it starts at *)
(* the head, ends at a null link, visits no block twice, and every block   *)
(* is either on it or lent.                                                *)
IsFreeList(s, len) ==
  /\ \A i, j \in 1 .. len : s[i] = s[j] => i = j
  /\ pool.head = IF len = 0 THEN Nil ELSE s[1]
  /\ \A i \in 1 .. len : cell[s[i]][1] = IF i = len THEN Nil ELSE s[i + 1]
  /\ \A b \in BlockIds : ~IsLent(b) <=> \E i \in 1 .. len : s[i] = b

(* The list threaded through the words of the free blocks is exactly the   *)
(* set of blocks nobody owns, whatever the owners stored in theirs; "used" *)
(* is how many it lacks. So no block is ever lent twice, none is lost, and *)
(* alloc finds the list empty only when every block is lent.               *)
FreeListInv ==
  Alive =>
    /\ pool.used <= pool.n
    /\ \E s \in [1 .. pool.n - pool.used -> BlockIds] :
         IsFreeList(s, pool.n - pool.used)

(* What its owner knows to be in a lent block is in it: no other owner's   *)
(* store, no link, and no realloc along the way has changed it.            *)
LentBlocksKeepTheirWords ==
  Alive =>
    \A b \in BlockIds :
      \A k \in 1 .. lent[b].size : cell[b][k] = lent[b].words[k]

(* A pool holds three blocks of its parent, a dropped or refused one none, *)
(* and the size it will give its blocks back with is the size it asked     *)
(* for.                                                                    *)
ParentIsSquare ==
  IF Alive
  THEN /\ owed = [ctx |-> 1, data |-> pool.bs * pool.n, obj |-> 1]
       /\ pool.bs * pool.n <= SizeMax
       /\ pool.bs >= NodeSize
  ELSE owed = NothingOwed
=============================================================================
