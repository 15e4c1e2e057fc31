------------------------------ MODULE Wrapping -------------------------------
(***************************************************************************)
(* alloc/log and alloc/aligned: allocators that have no memory of their    *)
(* own and get every block, their own two structs included, from the one   *)
(* they wrap; stacked up to MaxLevel high on alloc/default; and the calls  *)
(* of alloc/alloc.h that lead into each.                                   *)
(*                                                                         *)
(* Memory is counted in machine words, an address being the number of one, *)
(* and a size_t has W bits. Level 0 of the stack is the default allocator; *)
(* level k is wrap[k], whose parent is level k - 1. The word in front of   *)
(* an aligned block is where its parent's block begins. A log writes lines *)
(* besides, which are left out.                                            *)
(*                                                                         *)
(* The heap behind malloc is a row of places for one block each, of which  *)
(* it lends the first that is free, from one of two addresses in it, or    *)
(* none. It knows the size of a block by itself, as free takes none; any   *)
(* other root would go by the size it is told, which the property is about.*)
(***************************************************************************)
EXTENDS Integers, Sequences

CONSTANTS
  NoBlock,    \* a null pointer
  Stale,      \* what a word holds that nobody wrote since it was lent
  Users,      \* who hold a block each; what they store in it is their name
  Requests,   \* sizes asked for, by a calloc unless they overflow
  Times,      \* how many elems a calloc asks for
  Alignments, \* of aligned allocators
  MaxLevel,   \* how high allocators are stacked
  Places,     \* how many places the heap has
  PlaceSize,  \* and how many words one is for
  W           \* bits of a size_t

Wd == INSTANCE Words

(* TDA_DEFAULT_ALIGNMENT, and the sizes of a pointer, of LogCtx, which is  *)
(* also that of AlignedCtx, and of tda_Al.                                 *)
Unit == 2
Ptr  == 1
CtxSize == 2
TableSize == 5

(* A power of two is a natural number; what one is is not for the proofs.  *)
ASSUME WrappingAssumption ==
  /\ W \in Nat /\ Wd!WordEnd(W) \in Nat
  /\ Requests \cup Times \cup {TableSize} \subseteq 0 .. Wd!SizeMaxOf(W)
  /\ \A a \in Alignments : a \in Nat \ {0} /\ a % Unit = 0 /\ \E i \in 0 .. W : a = 2^i
  /\ MaxLevel \in Nat /\ Places \in Nat
  /\ PlaceSize \in Nat /\ PlaceSize > Unit /\ PlaceSize % Unit = 0
  /\ PlaceSize * (Places + 1) <= Wd!WordEnd(W)
  /\ \A a \in Alignments : PlaceSize % a = 0
  /\ NoBlock \notin Nat
  /\ NoBlock \notin [lvl : Nat, at : Nat, size : Nat, words : Seq({0} \cup Users)]

VARIABLES
  wrap,  \* the stack of allocators
  heap,  \* what malloc has lent: base -> size
  word,  \* the words of the heap
  held   \* user -> the block it holds and what it knows to be in it

wrapVars == <<wrap, heap, word, held>>

(* Memory as one value, and an answer: a pointer and the memory after it.  *)
Mem == [lent |-> heap, word |-> word]
Found(p, m) == [at |-> p, m |-> m]

WordsAt(p, n) == p .. p + n - 1

-----------------------------------------------------------------------------
(* alloc/default: malloc, calloc, realloc and free.                        *)

(* A block begins at a multiple of the default alignment, which may be one *)
(* of a wider alignment or not.                                            *)
Skews   == {0, Unit}
Refuses == Unit + 1
MallocAnswers == Skews \cup {Refuses}

Start(i) == i * PlaceSize
FreePlaces(lent) == {i \in 1 .. Places : \A z \in Skews : Start(i) + z \notin DOMAIN lent}

Filled(words, places, v) == [p \in DOMAIN words |-> IF p \in places THEN v ELSE words[p]]

Malloc(m, n, ans) ==
  LET free == FreePlaces(m.lent)
      at   == Start(CHOOSE i \in free : \A j \in free : i <= j) + ans
  IN  IF ans = Refuses \/ free = {} \/ ans + n > PlaceSize THEN Found(NoBlock, m)
      ELSE Found(at, [lent |-> [b \in DOMAIN m.lent \cup {at} |-> IF b = at THEN n ELSE m.lent[b]],
                      word |-> Filled(m.word, WordsAt(at, n), Stale)])

Free(m, p) ==
  IF p \notin DOMAIN m.lent THEN m
  ELSE [lent |-> [b \in DOMAIN m.lent \ {p} |-> m.lent[b]],
        word |-> Filled(m.word, WordsAt(p, m.lent[p]), Stale)]

Least(x, y) == IF x < y THEN x ELSE y

(* n words of one memory's words, over those of another.                   *)
MovedOver(words, from, to, n, target) ==
  [p \in DOMAIN target |-> IF p \in WordsAt(to, n) THEN words[from + (p - to)] ELSE target[p]]

(* realloc(nullptr, n) is malloc(n). The block may stay where it is.       *)
MallocAgain(m, p, n, ans) ==
  LET new == Malloc(IF p = NoBlock THEN m ELSE Free(m, p), n, ans)
  IN  IF new.at = NoBlock THEN Found(NoBlock, m)
      ELSE IF p = NoBlock THEN new
      ELSE Found(new.at, [new.m EXCEPT !.word = MovedOver(m.word, p, new.at, Least(n, m.lent[p]), new.m.word)])

-----------------------------------------------------------------------------
(* The calls of alloc/alloc.h on level k of the stack: each goes down to   *)
(* the level below until one refuses or the default allocator answers.     *)

(* aligned_alloc_block, once its parent has answered b.                    *)
BehindItsBase(b, alignment) ==
  LET p == Wd!AlignedPtr(W, b.at, alignment, Ptr)
  IN  IF b.at = NoBlock THEN b ELSE Found(p, [b.m EXCEPT !.word[p - Ptr] = b.at])

AlignedRefuses_TooLate(n, alignment) == n = 0
AlignedRefuses(n, alignment) == Wd!AlignedRefuses(W, n, alignment, Ptr)

ParentSize(n, alignment) == Wd!ParentSize(W, n, alignment, Ptr)

AllocAt(k, m, size, ans) ==
  LET ask[j \in 0 .. k] ==
        [n \in 0 .. Wd!SizeMaxOf(W) |->
           IF n = 0 THEN Found(NoBlock, m)
           ELSE IF j = 0 THEN Malloc(m, n, ans)
           ELSE IF wrap[j].kind = "log" THEN ask[j - 1][n]
           ELSE IF AlignedRefuses(n, wrap[j].alignment) THEN Found(NoBlock, m)
           ELSE BehindItsBase(ask[j - 1][ParentSize(n, wrap[j].alignment)], wrap[j].alignment)]
  IN  ask[k][size]

(* The block of the default allocator that p leads to, through the words   *)
(* in front of aligned blocks, and the size it would be given back with.   *)
HomeOf(k, words, p, size) ==
  LET home[j \in 0 .. k] ==
        IF j = k THEN [at |-> p, size |-> size]
        ELSE IF wrap[j + 1].kind = "log" THEN home[j + 1]
        ELSE [at |-> words[home[j + 1].at - Ptr],
              size |-> ParentSize(home[j + 1].size, wrap[j + 1].alignment)]
  IN  home[0]

DeallocAt(k, m, p, size) ==
  IF p = NoBlock THEN m ELSE Free(m, HomeOf(k, m.word, p, size).at)

(* The highest level at or below k that is no log.                         *)
Reached(k) ==
  CHOOSE j \in 0 .. k : /\ j = 0 \/ wrap[j].kind = "aligned"
                        /\ \A i \in j + 1 .. k : wrap[i].kind = "log"

(* A log forwards a calloc; an aligned allocator has none and falls back,  *)
(* with the product, on alloc and memset.                                  *)
CallocAt(k, m, num, size, ans) ==
  LET b == AllocAt(Reached(k), m, num * size, ans)
  IN  IF num = 0 \/ size = 0 \/ num * size > Wd!SizeMaxOf(W) \/ b.at = NoBlock
      THEN Found(NoBlock, m)
      ELSE Found(b.at, [b.m EXCEPT !.word = Filled(b.m.word, WordsAt(b.at, num * size), 0)])

(* A log forwards a realloc as well; an aligned allocator has none, and    *)
(* must not pass it on, as its parent's block begins elsewhere.            *)
ReallocAt(k, m, p, old, size, ans) ==
  LET j    == Reached(k)
      new  == AllocAt(j, m, size, ans)
      keep == Least(old, size)
  IN  IF size = 0 THEN Found(NoBlock, DeallocAt(k, m, p, old))
      ELSE IF j = 0 THEN MallocAgain(m, p, size, ans)
      ELSE IF new.at = NoBlock THEN Found(NoBlock, m)
      ELSE IF p = NoBlock THEN new
      ELSE LET m2 == [new.m EXCEPT !.word = MovedOver(m.word, p, new.at, keep, new.m.word)]
           IN  Found(new.at, DeallocAt(j, m2, p, old))

-----------------------------------------------------------------------------
Levels == 0 .. Len(wrap)

Remember(m) ==
  /\ heap' = m.lent
  /\ word' = m.word

WrapInit ==
  /\ wrap = <<>>
  /\ heap = [b \in {} |-> 0]
  /\ word = [p \in PlaceSize .. PlaceSize * (Places + 1) - 1 |-> Stale]
  /\ held = [u \in Users |-> NoBlock]

(* tda_al_log_new and tda_al_aligned_new over the top of the stack: the    *)
(* first struct goes back when the second is refused.                      *)
NewTable(kind, alignment, ans1, ans2) ==
  LET k   == Len(wrap)
      ctx == AllocAt(k, Mem, CtxSize, ans1)
      obj == AllocAt(k, ctx.m, TableSize, ans2)
  IN  /\ k < MaxLevel
      /\ UNCHANGED held
      /\ \/ /\ ctx.at = NoBlock
            /\ UNCHANGED <<wrap, heap, word>>
         \/ /\ ctx.at # NoBlock /\ obj.at = NoBlock
            /\ Remember(DeallocAt(k, ctx.m, ctx.at, CtxSize))
            /\ UNCHANGED wrap
         \/ /\ ctx.at # NoBlock /\ obj.at # NoBlock
            /\ Remember(obj.m)
            /\ wrap' = Append(wrap, [kind |-> kind, alignment |-> alignment,
                                     ctx |-> ctx.at, obj |-> obj.at])

NewLog(ans1, ans2)        == NewTable("log", Unit, ans1, ans2)
NewAligned(a, ans1, ans2) == NewTable("aligned", a, ans1, ans2)

(* tda_al_log_drop and tda_al_aligned_drop, of the top of the stack. Its   *)
(* two structs go back one after the other.                                *)
WithoutStructs(k, t) == DeallocAt(k, DeallocAt(k, Mem, t.ctx, CtxSize), t.obj, TableSize)

(* Nobody holds a block of its any more.                                   *)
DropTop ==
  LET k == Len(wrap) - 1
  IN  /\ wrap # <<>>
      /\ \A u \in Users : held[u] # NoBlock => held[u].lvl <= k
      /\ Remember(WithoutStructs(k, wrap[k + 1]))
      /\ wrap' = SubSeq(wrap, 1, k)
      /\ UNCHANGED held

(* A user has the answer r to a request for a block, of which it knows the *)
(* words of s.                                                             *)
Got(u, lvl, size, s, r) ==
  /\ Remember(r.m)
  /\ held' = IF r.at = NoBlock THEN held
             ELSE [held EXCEPT ![u] = [lvl |-> lvl, at |-> r.at, size |-> size, words |-> s]]
  /\ UNCHANGED wrap

Take(u, k, size, ans) ==
  /\ held[u] = NoBlock
  /\ Got(u, k, size, <<>>, AllocAt(k, Mem, size, ans))

TakeZeroed(u, k, num, size, ans) ==
  /\ held[u] = NoBlock
  /\ num * size \in Requests \/ num * size > Wd!SizeMaxOf(W)  \* a bound
  /\ Got(u, k, num * size, [i \in 1 .. num * size |-> 0], CallocAt(k, Mem, num, size, ans))

TakeByRealloc(u, k, size, ans) ==
  /\ held[u] = NoBlock
  /\ Got(u, k, size, <<>>, ReallocAt(k, Mem, NoBlock, 0, size, ans))

(* A null answer to a request for something leaves the old block.          *)
Resize(u, size, ans) ==
  LET b == held[u]
      r == ReallocAt(b.lvl, Mem, b.at, b.size, size, ans)
  IN  /\ b # NoBlock
      /\ \/ size > 0 /\ Got(u, b.lvl, size, SubSeq(b.words, 1, Least(Len(b.words), size)), r)
         \/ /\ size = 0
            /\ Remember(r.m)
            /\ held' = [held EXCEPT ![u] = NoBlock]
            /\ UNCHANGED wrap

Give(u) ==
  /\ held[u] # NoBlock
  /\ Remember(DeallocAt(held[u].lvl, Mem, held[u].at, held[u].size))
  /\ held' = [held EXCEPT ![u] = NoBlock]
  /\ UNCHANGED wrap

Store(u) ==
  /\ held[u] # NoBlock
  /\ word' = Filled(word, WordsAt(held[u].at, held[u].size), u)
  /\ held' = [held EXCEPT ![u].words = [i \in 1 .. held[u].size |-> u]]
  /\ UNCHANGED <<wrap, heap>>

WrapNext ==
  \/ DropTop
  \/ \E ans1, ans2 \in MallocAnswers :
       /\ ans1 = ans2 \/ Refuses \in {ans1, ans2}  \* a bound: the two begin alike
       /\ \/ NewLog(ans1, ans2)
          \/ \E a \in Alignments : NewAligned(a, ans1, ans2)
  \/ \E u \in Users :
       \/ Give(u)
       \/ Store(u)
       \/ \E n \in Requests, ans \in MallocAnswers :
            \/ Resize(u, n, ans)
            \/ \E k \in Levels :
                 \/ Take(u, k, n, ans)
                 \/ TakeByRealloc(u, k, n, ans)
                 \/ \E t \in Times : TakeZeroed(u, k, t, n, ans)

WrapSpec == WrapInit /\ [][WrapNext]_wrapVars

-----------------------------------------------------------------------------
(* The blocks that will be given back one day: by the users, and the two   *)
(* structs of each allocator to the one below.                             *)
OwnedBlocks ==
  {[lvl |-> held[u].lvl, at |-> held[u].at, size |-> held[u].size] :
     u \in {x \in Users : held[x] # NoBlock}}
  \cup UNION {{[lvl |-> k - 1, at |-> wrap[k].ctx, size |-> CtxSize],
               [lvl |-> k - 1, at |-> wrap[k].obj, size |-> TableSize]} : k \in 1 .. Len(wrap)}

Home(b) == HomeOf(b.lvl, word, b.at, b.size)

AlignmentAt(k) == IF Reached(k) = 0 THEN Unit ELSE wrap[Reached(k)].alignment

(* Whatever allocators are stacked and wherever a request was refused, the *)
(* words in front of aligned blocks lead every block that is held, and     *)
(* every allocator's structs, to a block of the heap of its own, which     *)
(* covers it and will go back with the size it was lent with; blocks are   *)
(* aligned as promised and keep what their owner knows to be in them; and  *)
(* the heap has lent nothing else.                                         *)
BlocksComeHome ==
  /\ \A b \in OwnedBlocks :
       /\ Home(b).at \in DOMAIN heap
       /\ heap[Home(b).at] = Home(b).size
       /\ WordsAt(b.at, b.size) \subseteq WordsAt(Home(b).at, Home(b).size)
       /\ b.at % AlignmentAt(b.lvl) = 0
       /\ \A c \in OwnedBlocks : b # c => Home(b).at # Home(c).at
  /\ DOMAIN heap = {Home(b).at : b \in OwnedBlocks}
  /\ \A u \in Users : held[u] # NoBlock =>
       \A i \in 1 .. Len(held[u].words) : word[held[u].at + i - 1] = held[u].words[i]
=============================================================================
