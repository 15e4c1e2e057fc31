-------------------------------- MODULE Arena --------------------------------
(***************************************************************************)
(* alloc/arena: one block of a parent allocator handed out from one end to *)
(* the other; and the calls of alloc/alloc.h as they reach it, where only  *)
(* calloc falls back.                                                      *)
(*                                                                         *)
(* Memory is counted in machine words, addresses from the start of the     *)
(* arena's block. The arena knows no more of the blocks it lent than how   *)
(* far they reach, "offset"; "lent" is what their owners know, from what   *)
(* the calls returned to them and what they stored since.                  *)
(*                                                                         *)
(* A definition named after another one with a suffix (IsLast_..., ...)    *)
(* is that one with a slip in it, there for a property to notice.          *)
(***************************************************************************)
EXTENDS Integers

CONSTANTS
  Owners,   \* pointer variables of the clients
  Words,    \* what a client stores in a word of its block
  Zero,     \* the word memset leaves
  Junk,     \* what the parent's memory holds before anyone writes to it
  Null,
  Caps,     \* capacities a caller builds an arena with, in words
  Sizes,    \* sizes a caller asks for, in words
  Counts,   \* how many elems a caller asks for
  Align,    \* TDA_DEFAULT_ALIGNMENT
  SizeMax   \* SIZE_MAX

ASSUME ArenaAssumption ==
  /\ Align \in Nat \ {0}
  /\ SizeMax \in Nat
  /\ Caps \subseteq 0 .. SizeMax
  /\ Sizes \subseteq Nat
  /\ Counts \subseteq Nat
  /\ Null \notin [cap : Nat, offset : Nat]

VARIABLES
  arena,  \* struct ArenaCtx, or Null when there is no arena
  cell,   \* cell[x] is the word x words into the block
  lent,   \* lent[c] is the block c points to and what c knows to be in it
  owed    \* what the parent has lent: [ctx, data, obj], data in words

vars == <<arena, cell, lent, owed>>

Values == Words \cup {Zero, Junk}
Arenas == [cap : Nat, offset : Nat]

Alive == arena # Null

(* A block of "size" words at ptr; a pointer that is null points to none.  *)
Nowhere == [ptr |-> 0, size |-> 0, words |-> [k \in 1 .. 0 |-> Zero]]
Holds(c) == lent[c].size # 0

-----------------------------------------------------------------------------
(* tda_al_arena_new and tda_al_arena_drop.                                 *)

NothingOwed == [ctx |-> 0, data |-> 0, obj |-> 0]

(* A block goes back to the parent with the size it was lent with, or its  *)
(* debt stands.                                                            *)
Settle(o, words) ==
  [ctx |-> o.ctx, data |-> IF o.data = words THEN 0 ELSE o.data, obj |-> o.obj]
ReturnCtx(o) == [ctx |-> o.ctx - 1, data |-> o.data, obj |-> o.obj]
ReturnObj(o) == [ctx |-> o.ctx, data |-> o.data, obj |-> o.obj - 1]

NewRefused_KeepsBlock(granted, cap) ==
  CASE granted = 0 -> NothingOwed
    [] granted = 1 -> Settle([ctx |-> 0, data |-> cap, obj |-> 0], cap)
    [] granted = 2 -> ReturnCtx([ctx |-> 1, data |-> cap, obj |-> 0])

(* Of the three requests - block, context, table - the parent granted only *)
(* the first few. What it lent by then goes back to it.                    *)
NewRefused(granted, cap) ==
  CASE granted = 0 -> NothingOwed
    [] granted = 1 -> Settle([ctx |-> 0, data |-> cap, obj |-> 0], cap)
    [] granted = 2 -> Settle(ReturnCtx([ctx |-> 1, data |-> cap, obj |-> 0]), cap)

New(cap, granted) ==
  /\ ~Alive
  /\ cap > 0
  /\ \/ /\ granted < 3
        /\ owed' = NewRefused(granted, cap)
        /\ UNCHANGED <<arena, cell, lent>>
     \/ /\ granted = 3
        /\ arena' = [cap |-> cap, offset |-> 0]
        /\ cell' = [x \in 0 .. cap - 1 |-> Junk]
        /\ owed' = [ctx |-> 1, data |-> cap, obj |-> 1]
        /\ UNCHANGED lent

(* Every pointer into the arena dies with it.                              *)
Drop ==
  /\ Alive
  /\ arena' = Null
  /\ cell' = <<>>
  /\ lent' = [c \in Owners |-> Nowhere]
  /\ owed' = ReturnObj(ReturnCtx(Settle(owed, arena.cap)))

(* And with a reset, which touches no word.                                *)
Reset ==
  /\ Alive
  /\ arena' = [arena EXCEPT !.offset = 0]
  /\ lent' = [c \in Owners |-> Nowhere]
  /\ UNCHANGED <<cell, owed>>

-----------------------------------------------------------------------------
(* arena_alloc, arena_realloc and arena_dealloc.                           *)

AlignUp(size) == ((size + Align - 1) \div Align) * Align

(* A block of "size" words from start on: tda_ckd_align_up and ckd_add do  *)
(* not overflow, and the end is within the arena.                          *)
Fits(start, size) ==
  /\ size <= SizeMax - (Align - 1)
  /\ start + AlignUp(size) <= SizeMax
  /\ start + AlignUp(size) <= arena.cap

Refused(size) == size = 0 \/ ~Fits(arena.offset, size)

Bumped_Unrounded(size) == [arena EXCEPT !.offset = arena.offset + size]

(* The arena bumped past a block of "size" words.                          *)
Bumped(size) == [arena EXCEPT !.offset = arena.offset + AlignUp(size)]

(* A block as its new owner finds it in the words c.                       *)
Found(ptr, size, c) ==
  [ptr |-> ptr, size |-> size, words |-> [k \in 1 .. size |-> c[ptr + k - 1]]]

Alloc(c, size) ==
  /\ Alive
  /\ ~Holds(c)
  /\ \/ /\ Refused(size)
        /\ UNCHANGED vars
     \/ /\ ~Refused(size)
        /\ arena' = Bumped(size)
        /\ lent' = [lent EXCEPT ![c] = Found(arena.offset, size, cell)]
        /\ UNCHANGED <<cell, owed>>

(* The words from ptr on, as many as s has, become s.                      *)
Stored(ptr, s, n) ==
  [x \in DOMAIN cell |-> IF ptr <= x /\ x < ptr + n THEN s[x - ptr + 1] ELSE cell[x]]

(* tda_calloc, which finds no calloc in the table: alloc and memset.       *)
Calloc(c, num, size) ==
  LET total == num * size
      zeros == [k \in 1 .. total |-> Zero]
  IN  /\ Alive
      /\ ~Holds(c)
      /\ \/ /\ total = 0 \/ total > SizeMax \/ Refused(total)
            /\ UNCHANGED vars
         \/ /\ total <= SizeMax
            /\ ~Refused(total)
            /\ arena' = Bumped(total)
            /\ cell' = Stored(arena.offset, zeros, total)
            /\ lent' = [lent EXCEPT ![c] =
                          [ptr |-> arena.offset, size |-> total, words |-> zeros]]
            /\ UNCHANGED owed

(* The arena does nothing; the owner has given its block up.               *)
Dealloc(c) ==
  /\ Alive
  /\ Holds(c)
  /\ lent' = [lent EXCEPT ![c] = Nowhere]
  /\ UNCHANGED <<arena, cell, owed>>

IsLast_OrNot(ptr, size) == ptr + AlignUp(size) <= arena.offset

(* is_last_block: nothing but the free tail after it.                      *)
IsLast(ptr, size) == ptr + AlignUp(size) = arena.offset

Common(old, size) == IF old.size < size THEN old.size ELSE size

Carried_FirstWordOnly(old, size) == Stored(arena.offset, <<cell[old.ptr]>>, 1)

(* memcpy: what both blocks have room for goes to the block just taken.    *)
Carried(old, size) ==
  Stored(arena.offset, [k \in 1 .. old.size |-> cell[old.ptr + k - 1]], Common(old, size))

(* What the owner of a block that was "old" knows of it at its new size    *)
(* and place: the words carried over, and whatever lies behind them.       *)
Kept(old, ptr, size) ==
  [ptr |-> ptr, size |-> size,
   words |-> [k \in 1 .. size |->
                IF k <= Common(old, size) THEN old.words[k] ELSE cell[ptr + k - 1]]]

(* tda_realloc and arena_realloc. Of a null pointer they are Alloc.        *)
Realloc(c, size) ==
  LET old   == lent[c]
      start == arena.offset - AlignUp(old.size)
      last  == IsLast(old.ptr, old.size)
  IN  /\ Alive
      /\ Holds(c)
      /\ \/ /\ size = 0
            /\ Dealloc(c)
         \/ /\ size > 0
            /\ last
            /\ ~Fits(start, size)
            /\ UNCHANGED vars
         \/ /\ size > 0
            /\ last
            /\ Fits(start, size)
            /\ arena' = [arena EXCEPT !.offset = start + AlignUp(size)]
            /\ lent' = [lent EXCEPT ![c] = Kept(old, old.ptr, size)]
            /\ UNCHANGED <<cell, owed>>
         \/ /\ size > 0
            /\ ~last
            /\ Refused(size)
            /\ UNCHANGED vars
         \/ /\ size > 0
            /\ ~last
            /\ ~Refused(size)
            /\ arena' = Bumped(size)
            /\ cell' = Carried(old, size)
            /\ lent' = [lent EXCEPT ![c] = Kept(old, arena.offset, size)]
            /\ UNCHANGED owed

(* The owner c stores v in the k-th word of its block.                     *)
ClientWrite(c, k, v) ==
  /\ Alive
  /\ k \in 1 .. lent[c].size
  /\ cell' = [cell EXCEPT ![lent[c].ptr + k - 1] = v]
  /\ lent' = [lent EXCEPT ![c].words[k] = v]
  /\ UNCHANGED <<arena, owed>>

-----------------------------------------------------------------------------
Init ==
  /\ arena = Null
  /\ cell = <<>>
  /\ lent = [c \in Owners |-> Nowhere]
  /\ owed = NothingOwed

WordIds(c) == 1 .. lent[c].size

Next ==
  \/ \E cap \in Caps, granted \in 0 .. 3 : New(cap, granted)
  \/ Drop
  \/ Reset
  \/ \E c \in Owners :
       \/ \E size \in Sizes : Alloc(c, size) \/ Realloc(c, size)
       \/ \E size \in Sizes, num \in Counts : Calloc(c, num, size)
       \/ Dealloc(c)
       \/ \E k \in WordIds(c), v \in Words : ClientWrite(c, k, v)

Spec == Init /\ [][Next]_vars

-----------------------------------------------------------------------------
(* Properties.                                                             *)

ArenaTypeOK ==
  /\ arena \in Arenas
  /\ arena.offset <= arena.cap
  /\ cell \in [0 .. arena.cap - 1 -> Values]

TypeOK ==
  /\ Alive => ArenaTypeOK
  /\ lent = [c \in Owners |-> lent[c]]
  /\ \A c \in Owners :
       \E p, s \in 0 .. SizeMax :
         lent[c] \in [ptr : {p}, size : {s}, words : [1 .. s -> Values]]
  /\ owed \in [ctx : Nat, data : Nat, obj : Nat]

(* Blocks of two owners, at the sizes they are rounded up to, never        *)
(* overlap, and none reaches into the tail the next block will come from:  *)
(* however blocks before it grew, shrank, moved or were left behind, the   *)
(* one the arena takes for the last is the last.                           *)
BlocksApart ==
  /\ \A c \in Owners : Holds(c) =>
       /\ Alive
       /\ lent[c].ptr + AlignUp(lent[c].size) <= arena.offset
  /\ \A c, e \in Owners : c # e /\ Holds(c) /\ Holds(e) =>
       \/ lent[c].ptr + AlignUp(lent[c].size) <= lent[e].ptr
       \/ lent[e].ptr + AlignUp(lent[e].size) <= lent[c].ptr

(* Every block starts where any object may: no shrink or growth in place   *)
(* leaves the next block at an address that is not aligned.                *)
StartsAligned ==
  /\ \A c \in Owners : lent[c].ptr % Align = 0
  /\ Alive => arena.offset % Align = 0

(* What its owner knows to be in a block is in it, wherever reallocs have  *)
(* moved it and whatever was stored in others.                             *)
LentBlocksKeepTheirWords ==
  \A c \in Owners : \A k \in 1 .. lent[c].size :
    cell[lent[c].ptr + k - 1] = lent[c].words[k]

(* An arena holds three blocks of its parent, a dropped or refused one     *)
(* none, and it gives its block back at the size it asked for.             *)
ParentIsSquare ==
  owed = IF Alive THEN [ctx |-> 1, data |-> arena.cap, obj |-> 1] ELSE NothingOwed
=============================================================================
