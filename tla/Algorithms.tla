------------------------------ MODULE Algorithms ------------------------------
(***************************************************************************)
(* A caller of the algorithms: one span that calls rearrange in any order, *)
(* and of which questions are asked. Elems are pairs of a key, which is    *)
(* all that orders and equalities look at, and a tag, which tells equal    *)
(* elems apart.                                                            *)
(***************************************************************************)
EXTENDS Integers, Sequences, FiniteSets, FiniteSetsExt, Spans, Words, Scalars

CONSTANTS
  Elems,
  Given,    \* the spans a caller starts from
  Others,   \* the spans it compares and combines its own with
  Preds,    \* predicates
  Ops,      \* operations from two elems to one
  W, Ptr,   \* bits of a word, and the size of a pointer
  Mix,      \* the constants of the hashes
  RngW,     \* bits of a generator's word
  RngMix    \* and its constants

ASSUME AlgorithmsAssumption ==
  /\ \A e \in Elems : e[1] \in Nat
  /\ Preds \subseteq [Elems -> BOOLEAN]
  /\ Ops \subseteq [Elems \X Elems -> Elems]
  /\ W \in Nat \ {0} /\ Ptr \in Nat

VARIABLES
  s,     \* the caller's span
  call   \* what it last called, with what, and the answer

vars == <<s, call>>

cmp == [p \in Elems \X Elems |-> p[1][1] - p[2][1]]
eq  == [p \in Elems \X Elems |-> p[1][1] = p[2][1]]

Calls(op, arg, t, answer) ==
  /\ s' = t
  /\ call' = [op |-> op, arg |-> arg, answer |-> answer]

N == SpanLen(s)
(* The draws a shuffle of n may be given; the only one below 1 is 0.       *)
Draws(n) == {d \in [2 .. n -> 0 .. n - 1] : \A i \in 2 .. n : d[i] < i}

Whole(d) == [i \in 1 .. N |-> IF i = 1 THEN 0 ELSE d[i]]

Reversing == Calls("reverse", 0, Reverse(s), 0)

Rotating == \E mid \in 0 .. N : Calls("rotate", mid, Rotate(s, mid), 0)

Permuting ==
  \E asc \in BOOLEAN :
    LET r == PermuteStep(s, cmp, asc) IN Calls("permute", asc, r.s, r.found)

Partitioning ==
  \E pred \in Preds : LET r == Partition(s, pred) IN Calls("partition", pred, r.s, r.kept)

SwappingRanges ==
  \E a, b, count \in 0 .. N :
    /\ a + count <= b /\ b + count <= N
    /\ Calls("swap_ranges", <<a, b, count>>, SwapRanges(s, a, b, count), 0)

(* A refused buffer is answered before anything moves.                     *)
PartitioningStably ==
  \E pred \in Preds :
    \/ LET r == PartitionStable(s, pred) IN Calls("partition_stable", pred, r.s, r.kept)
    \/ /\ N > 0
       /\ Calls("refused", pred, s, 0)

Shuffling ==
  \E d \in Draws(N) :
    \/ Calls("shuffle", d, Shuffle(s, d), 0)
    \/ \E count \in 0 .. N : Calls("shuffle", d, ShufflePrefix(s, count, Whole(d)), 0)

Dropping ==
  \/ LET r == Unique(s, eq) IN Calls("unique", 0, r.s, r.kept)
  \/ \E pred \in Preds : LET r == RemoveIf(s, pred) IN Calls("remove_if", pred, r.s, r.kept)
  \/ \E key \in Elems :
       LET pred == KeyMatches(eq, key, Elems)
           r    == RemoveIf(s, pred)
       IN  Calls("remove_if", pred, r.s, r.kept)

Replacing ==
  \E val \in Elems, key \in Elems :
    LET pred == KeyMatches(eq, key, Elems) IN Calls("replace", <<pred, val>>, ReplaceIf(s, pred, val), 0)

Overwriting ==
  \/ \E val \in Elems : Calls("fill", val, Fill(s, val), 0)
  \/ \E op \in Ops :
       \/ Calls("transform", op, Transform(s, [x \in Elems |-> op[x, x]]), 0)
       \/ Calls("zip", op, ZipWith(s, Reverse(s), op), 0)
  \/ \E pred \in Preds, src \in Others :
       /\ SpanLen(src) <= N
       /\ LET r == CopyIf(s, src, pred) IN Calls("copy_if", <<pred, src>>, r.s, r.kept)

Copying ==
  \E to, from, count \in 0 .. N :
    /\ to + count <= N /\ from + count <= N
    /\ Calls("copy", <<to, from, count>>, CopyOverlapping(s, to, from, count), 0)

Init ==
  /\ s \in Given
  /\ call = [op |-> "none", arg |-> 0, answer |-> 0]

Next ==
  \/ Reversing \/ Rotating \/ SwappingRanges \/ Permuting
  \/ Partitioning \/ PartitioningStably \/ Shuffling
  \/ Dropping \/ Replacing \/ Copying \/ Overwriting

Spec == Init /\ [][Next]_vars

-----------------------------------------------------------------------------
(* What the headers promise, in terms of no algorithm.                     *)

(* t has the elems of u, each as often.                                    *)
Rearranges(t, u) ==
  \A e \in Elems : Cardinality({i \in DOMAIN t : t[i] = e}) = Cardinality({i \in DOMAIN u : u[i] = e})

Orders(t) == {[i \in DOMAIN t |-> t[p[i]]] : p \in {f \in [DOMAIN t -> DOMAIN t] : \A i, j \in DOMAIN t : f[i] = f[j] => i = j}}

(* The elems of t at the places P, in their order.                         *)
Chosen(t, P) == [k \in 0 .. Cardinality(P) - 1 |-> t[CHOOSE i \in P : Cardinality({j \in P : j < i}) = k]]

Where(t, pred, want) == {i \in DOMAIN t : pred[t[i]] = want}

Heads(t) == {i \in DOMAIN t : i = 0 \/ ~eq[t[i - 1], t[i]]}

NoneBetween(t, u) ==
  \A p \in Orders(t) : ~(SpanCmp(t, p, FALSE, cmp) < 0 /\ SpanCmp(p, u, FALSE, cmp) < 0)

Front(t, u, kept) == [i \in 0 .. kept - 1 |-> t[i]] = u

PermutePromise(t, u, asc, found) ==
  /\ Rearranges(t, u)
  /\ LET lo == IF asc THEN t ELSE u
         hi == IF asc THEN u ELSE t
     IN  IF found THEN SpanCmp(lo, hi, FALSE, cmp) < 0 /\ NoneBetween(lo, hi)
         ELSE \A p \in Orders(t) : SpanCmp(p, lo, FALSE, cmp) <= 0 /\ SpanCmp(p, hi, FALSE, cmp) >= 0

(* What the call c promises of the span u it leaves where t was.           *)
Promise(c, t, u) ==
  LET n == SpanLen(t)
  IN  CASE c.op = "reverse"   -> \A i \in DOMAIN t : u[i] = t[n - 1 - i]
        [] c.op = "rotate"    -> \A i \in DOMAIN t : u[i] = t[(i + c.arg) % n]
        [] c.op = "permute"   -> PermutePromise(t, u, c.arg, c.answer)
        [] c.op = "swap_ranges" ->
             LET a == c.arg[1] .. c.arg[1] + c.arg[3] - 1
                 b == c.arg[2] .. c.arg[2] + c.arg[3] - 1
                 d == c.arg[2] - c.arg[1]
             IN  \A i \in DOMAIN t : u[i] = t[IF i \in a THEN i + d ELSE IF i \in b THEN i - d ELSE i]
        [] c.op = "partition" -> Rearranges(t, u) /\ Where(u, c.arg, TRUE) = 0 .. c.answer - 1
        [] c.op = "partition_stable" ->
             /\ Where(u, c.arg, TRUE) = 0 .. c.answer - 1
             /\ \A want \in BOOLEAN : Chosen(u, Where(u, c.arg, want)) = Chosen(t, Where(t, c.arg, want))
        [] c.op = "shuffle"   -> Rearranges(t, u)
        [] c.op = "unique"    -> Front(u, Chosen(t, Heads(t)), c.answer)
        [] c.op = "remove_if" -> Front(u, Chosen(t, Where(t, c.arg, FALSE)), c.answer)
        [] c.op = "replace"   -> \A i \in DOMAIN t : u[i] = IF c.arg[1][t[i]] THEN c.arg[2] ELSE t[i]
        [] c.op = "copy"      ->
             \A i \in DOMAIN t : u[i] = IF i - c.arg[1] \in 0 .. c.arg[3] - 1 THEN t[c.arg[2] + i - c.arg[1]] ELSE t[i]
        [] c.op = "fill"      -> \A i \in DOMAIN t : u[i] = c.arg
        [] c.op = "transform" -> \A i \in DOMAIN t : u[i] = c.arg[t[i], t[i]]
        [] c.op = "zip"       -> \A i \in DOMAIN t : u[i] = c.arg[t[i], t[n - 1 - i]]
        [] c.op = "copy_if"   ->
             /\ Front(u, Chosen(c.arg[2], Where(c.arg[2], c.arg[1], TRUE)), c.answer)
             /\ \A i \in c.answer .. n - 1 : u[i] = t[i]
        [] OTHER              -> u = t

(* Every call leaves what its header promises, whatever was called before: *)
(* in place, packing and swapping over what is still to be read, nothing   *)
(* that should stay is lost, doubled or out of its order.                  *)
CallsKeepTheirPromises == [][Promise(call', s, s')]_vars

-----------------------------------------------------------------------------
(* What the questions answer, against plain counting.                      *)

(* A descent into a sorted span ends where counting says.                  *)
BoundsAreRight ==
  IsSorted(s, cmp) =>
    \A key \in Elems :
      LET below == Cardinality({i \in DOMAIN s : cmp[s[i], key] < 0})
          upTo  == Cardinality({i \in DOMAIN s : cmp[s[i], key] <= 0})
      IN  /\ LowerBound(s, key, cmp) = below
          /\ UpperBound(s, key, cmp) = upTo
          /\ EqualRange(s, key, cmp) = <<below, upTo>>
          /\ upTo - below = Count(s, key, eq)
          /\ BinarySearch(s, key, cmp) = Find(s, key, eq)

(* A find answers the first match there is, a search from the back the last*)
(* one; a run may begin inside a longer one.                               *)
SearchesAreRight ==
  /\ \A key \in Elems, count \in 0 .. N + 1 :
       FindRun(s, key, count, eq) = FindSub(s, Fill([i \in 0 .. count - 1 |-> key], key), eq)
  /\ \A sub \in Others :
       LET from == FindSub(Reverse(s), Reverse(sub), eq)
       IN  /\ FindSubLast(s, sub, eq) = (IF from = None THEN None ELSE N - SpanLen(sub) - from)
           /\ FindAnyOf(s, sub, eq) = FindIf(s, [x \in Elems |-> Find(sub, x, eq) # None])
  /\ LET packed == Unique(s, eq) IN (FindAdjacent(s, eq) = None) = (packed.kept = N)
  /\ \A pred \in Preds :
       /\ IsPartitioned(s, pred) = (Partition(s, pred).s = s)
       /\ IsPartitioned(s, pred) => PartitionPoint(s, pred) = Partition(s, pred).kept
       /\ AllOf(s, pred) = NoneOf(s, [x \in Elems |-> ~pred[x]])
       /\ CountIf(s, pred) = Partition(s, pred).kept
  /\ N > 0 => /\ MinElem(s, cmp) = Min({i \in DOMAIN s : \A j \in DOMAIN s : cmp[s[i], s[j]] <= 0})
              /\ MaxElem(s, cmp) = Min({i \in DOMAIN s : \A j \in DOMAIN s : cmp[s[i], s[j]] >= 0})
              /\ MinMaxElem(s, cmp) = [min |-> MinElem(s, cmp), max |-> MaxElem(s, cmp)]
  /\ IsSorted(s, cmp) = (PermuteStep(Reverse(s), cmp, TRUE).found = FALSE)

(* The order of spans is total, and even exactly where they compare equal. *)
ComparisonsAreRight ==
  \A t \in Others \cup {s} : \A one \in {FALSE, t = s} :
    /\ SpanCmp(s, t, one, cmp) = -SpanCmp(t, s, one, cmp)
    /\ (SpanCmp(s, t, one, cmp) = 0) = EqBy(s, t, one, eq)
    /\ SpanEq(s, t) = (s = t)
    /\ EqBy(s, t, one, eq) = (SpanLen(s) = SpanLen(t) /\ Mismatch(s, t, one, eq) = None)
    /\ \A u \in Others :
         SpanCmp(s, t, FALSE, cmp) <= 0 /\ SpanCmp(t, u, FALSE, cmp) <= 0 => SpanCmp(s, u, FALSE, cmp) <= 0

(* Totals and differences undo each other; folding from either end meets   *)
(* the elems in that order.                                                *)
FoldsAreRight ==
  LET keys  == [i \in DOMAIN s |-> s[i][1]]
      add   == [p \in Nat \X Nat |-> p[1] + p[2]]
      put   == [p \in Seq(Elems) \X Elems |-> Append(p[1], p[2])]
      sum   == [i \in DOMAIN s |-> FoldSpan(Sub(keys, 0, i + 1), 0, add)]
      range == 0 .. FoldSpan(keys, 0, add)
      plus  == [p \in range \X range |-> p[1] + p[2]]
      minus == [p \in range \X range |-> p[1] - p[2]]
  IN  /\ PartialSum(keys, plus) = sum
      /\ AdjacentDifference(sum, minus) = keys
      /\ AsSpan(FoldSpan(s, <<>>, put)) = s
      /\ AsSpan(FoldBack(s, <<>>, put)) = Reverse(s)

(* The elems of t with the key k, in their order; the last n of a sequence.*)
OfKey(t, k)   == SelectSeq(EmitRest(t, 0), LAMBDA x : x[1] = k)
LastOf(q, n)  == SubSeq(q, Len(q) - n + 1, Len(q))
FirstOf(q, n) == SubSeq(q, 1, n)

(* Sorted spans as multisets: of m equal elems and n, a union keeps the m  *)
(* and the last n - m, and so on; a merge keeps them all, a's in front.    *)
SetsAreRight ==
  \A t \in Others :
    IsSorted(s, cmp) =>
      LET keys == {e[1] : e \in Elems}
          Holds(r, Class(_, _)) ==
            IsSorted(r, cmp) /\ \A k \in keys : OfKey(r, k) = Class(OfKey(s, k), OfKey(t, k))
          Over(p, q) == LastOf(p, Max({0, Len(p) - Len(q)}))
      IN  /\ Holds(SetUnion(s, t, cmp), LAMBDA p, q : p \o Over(q, p))
          /\ Holds(SetIntersection(s, t, cmp), LAMBDA p, q : FirstOf(p, Min({Len(p), Len(q)})))
          /\ Holds(SetDifference(s, t, cmp), LAMBDA p, q : Over(p, q))
          /\ Holds(SetSymmetricDifference(s, t, cmp), LAMBDA p, q : Over(p, q) \o Over(q, p))
          /\ Holds(MergeSpans(s, t, cmp), LAMBDA p, q : p \o q)
          /\ Includes(s, t, cmp) = (SetDifference(t, s, cmp) = AsSpan(<<>>))

(* Of a fair generator every order comes out, of n! draws none twice unless*)
(* elems are the same; a prefix is every choice of elems in every order.   *)
ShufflesAreFair ==
  /\ {Shuffle(s, d) : d \in Draws(N)} = Orders(s)
  /\ \A count \in 0 .. N :
       {Sub(ShufflePrefix(s, count, Whole(d)), 0, count) : d \in Draws(N)} = {Sub(p, 0, count) : p \in Orders(s)}

(* Every word of a generator is as likely: each answer up to max is taken  *)
(* from equally many of them, for every max a word can hold.               *)
DrawsAreFair ==
  LET words == 0 .. SizeMaxOf(W)
  IN  \A max \in words :
        LET accepted == {x \in words : Accepted(W, x, max)}
            from(answer) == Cardinality({x \in accepted : Draw(W, x, max) = answer})
        IN  /\ accepted # {}
            /\ \A answer \in 0 .. max : from(answer) = from(0)
            /\ \A x \in accepted : Draw(W, x, max) <= max

(* A range of signed numbers, its width past the largest of them or not,   *)
(* is drawn from whole.                                                    *)
RangesAreWhole ==
  LET numbers == -(2^(W - 1)) .. 2^(W - 1) - 1
  IN  \A lo, hi \in numbers :
        lo <= hi => {RangeDraw(W, lo, d) : d \in 0 .. RangeWidth(W, lo, hi)} = lo .. hi

(* A block given out under an alignment lies in its parent's with the      *)
(* pointer in front, at every address and of every size; it is refused     *)
(* only when it could not.                                                 *)
BlocksLieInside ==
  LET words == 0 .. SizeMaxOf(W)
      inside(size, a) ==
        LET asked == ParentSize(W, size, a, Ptr)
        IN  /\ asked = size + a - 1 + Ptr
            /\ \A base \in 1 .. SizeMaxOf(W) - asked :
                 LET p == AlignedPtr(W, base, a, Ptr)
                 IN  PtrIsAligned(p, a) /\ p - Ptr >= base /\ p + size <= base + asked
  IN  \A a \in {2^k : k \in 0 .. W - 1}, size \in words :
        /\ IF AlignedRefuses(W, size, a, Ptr) THEN size = 0 \/ size + a - 1 + Ptr > SizeMaxOf(W) ELSE inside(size, a)
        /\ LET above == {y \in size .. SizeMaxOf(W) : PtrIsAligned(y, a)}
           IN  IF AlignUpOverflows(W, size, a) THEN above = {} ELSE AlignUp(W, size, a) = Min(above)

(* The comparators are orders, total over floats with their zeros and NaNs *)
(* too: antisymmetric, transitive, and even where nothing tells apart.     *)
IsOrder(S, Cmp(_, _)) ==
  \A a, b \in S :
    /\ Cmp(a, b) = -Cmp(b, a)
    /\ \A c \in S : Cmp(a, b) <= 0 /\ Cmp(b, c) <= 0 => Cmp(a, c) <= 0

Strings == {NullStr} \cup UNION {[0 .. n - 1 -> {1, 2^(W - 1)}] : n \in 0 .. 2}

ByteCmp         == [p \in (0 .. SizeMaxOf(W)) \X (0 .. SizeMaxOf(W)) |-> CmpInt(p[1], p[2])]
StringCmp(a, b) == CmpCstr(a, b, ByteCmp)

ComparatorsAreOrders ==
  /\ IsOrder(-3 .. 3, CmpInt)
  /\ IsOrder(Floats, CmpFloat)
  /\ IsOrder(Strings, StringCmp)

(* What compares even hashes alike, what a word tells apart does not       *)
(* collide, and no pair of hashes is folded back onto nothing.             *)
HashesAgree ==
  LET words   == 0 .. SizeMaxOf(W)
      numbers == -(2^(W - 1)) .. 2^(W - 1) - 1
  IN  /\ \A f, g \in Floats : (CmpFloat(f, g) = 0) = (HashFloat(W, Mix, f) = HashFloat(W, Mix, g))
      /\ \A x, y \in numbers : HashInt(W, Mix, x) = HashInt(W, Mix, y) => x = y
      /\ \A a \in words : {HashCombine(W, Mix, a, b) : b \in words} = words
      /\ \A a, b \in Strings : StringCmp(a, b) = 0 => HashCstr(W, Mix, a) = HashCstr(W, Mix, b)
      /\ HashCombine(W, Mix, 0, 0) # 0 /\ HashInt(W, Mix, 0) # 0

(* A generator never comes by the state of four zeros it could not leave:  *)
(* no seed gives it, and no step leads there from another.                 *)
GeneratorsKeepGoing ==
  LET words == 0 .. 2^RngW - 1
  IN  /\ \A seed \in words : RngFromSeed(RngW, RngMix, seed) # <<0, 0, 0, 0>>
      /\ \A a, b, c, d \in words :
           /\ RngAnswer(RngW, <<a, b, c, d>>) \in words
           /\ RngStep(RngW, <<a, b, c, d>>) = <<0, 0, 0, 0>> => a + b + c + d = 0

(* Every question is answered as counting would answer it, on every span   *)
(* the calls can lead to: a search halved to its end, a walk over two      *)
(* sorted spans, a shuffle of every draw.                                  *)
AnswersAreRight ==
  /\ BoundsAreRight /\ SearchesAreRight /\ ComparisonsAreRight /\ FoldsAreRight
  /\ SetsAreRight /\ ShufflesAreFair

(* What draws, alignments, comparators and hashes compute in words that    *)
(* wrap is what they would be in numbers that do not, for every word.      *)
WordsAreRight ==
  /\ DrawsAreFair /\ RangesAreWhole /\ BlocksLieInside
  /\ ComparatorsAreOrders /\ HashesAgree /\ GeneratorsKeepGoing
=============================================================================
