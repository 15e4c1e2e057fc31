-------------------------------- MODULE Spans --------------------------------
(***************************************************************************)
(* What core/span and the algorithms over one span do to its elems. A span *)
(* is a function from 0 .. n - 1; an order a function from pairs of elems  *)
(* to integers, an equality one to BOOLEAN, a predicate a function from    *)
(* elems to BOOLEAN.                                                       *)
(*                                                                         *)
(* A loop that writes what it has still to read is a recursive function of *)
(* how far it has come: its value is the span, and what goes with it, by   *)
(* then. A definition named after another one with a suffix is that one    *)
(* with a slip in it, there for a property to notice.                      *)
(***************************************************************************)
LOCAL INSTANCE Integers
LOCAL INSTANCE FiniteSets
LOCAL INSTANCE Sequences
LOCAL INSTANCE FiniteSetsExt

SpanLen(s) == Cardinality(DOMAIN s)

-----------------------------------------------------------------------------
(* core/span, copy and fill.                                               *)

Sub(s, idx, count) == [i \in 0 .. count - 1 |-> s[idx + i]]

SwapElems(s, i, j) == [s EXCEPT ![i] = s[j], ![j] = s[i]]

(* The elems of src over those of s from idx on.                           *)
CopyTo(s, idx, src) == [i \in DOMAIN s |-> IF i - idx \in DOMAIN src THEN src[i - idx] ELSE s[i]]

(* Within one span: what was there before the copy is what arrives.        *)
CopyOverlapping(s, to, from, count) == CopyTo(s, to, Sub(s, from, count))

(* A packed result: the span, and how many of its elems count.             *)
Packed(s, kept) == [s |-> s, kept |-> kept]

CopyIf(dst, src, pred) ==
  LET upTo[read \in 0 .. SpanLen(src)] ==
        IF read = 0 THEN Packed(dst, 0)
        ELSE LET r == upTo[read - 1] IN
             IF pred[src[read - 1]] THEN Packed([r.s EXCEPT ![r.kept] = src[read - 1]], r.kept + 1) ELSE r
  IN  upTo[SpanLen(src)]

(* gen is told the place; a fill tells it nothing.                         *)
Generate(s, gen) == [i \in DOMAIN s |-> gen[i]]
Fill(s, val)     == Generate(s, [i \in DOMAIN s |-> val])

-----------------------------------------------------------------------------
(* algo/transform and algo/fold. The destination may be a source of        *)
(* transform and zip_with, never of a scan.                                *)

Transform(src, op) == [i \in DOMAIN src |-> op[src[i]]]
ZipWith(a, b, op)  == [i \in DOMAIN a |-> op[a[i], b[i]]]

FoldSpan(s, acc, op) ==
  LET upTo[n \in 0 .. SpanLen(s)] == IF n = 0 THEN acc ELSE op[upTo[n - 1], s[n - 1]]
  IN  upTo[SpanLen(s)]

FoldBack(s, acc, op) ==
  LET downTo[n \in 0 .. SpanLen(s)] == IF n = SpanLen(s) THEN acc ELSE op[downTo[n + 1], s[n]]
  IN  downTo[0]

(* Each total is read back from where it was written.                      *)
PartialSum(src, op) ==
  LET dst[i \in DOMAIN src] == IF i = 0 THEN src[0] ELSE op[dst[i - 1], src[i]]
  IN  dst

AdjacentDifference(src, op) ==
  [i \in DOMAIN src |-> IF i = 0 THEN src[0] ELSE op[src[i], src[i - 1]]]

-----------------------------------------------------------------------------
(* algo/permute.                                                           *)

Reverse(s) ==
  LET swapped[k \in 0 .. SpanLen(s) \div 2] ==
        IF k = 0 THEN s ELSE SwapElems(swapped[k - 1], k - 1, SpanLen(s) - k)
  IN  swapped[SpanLen(s) \div 2]

Rotate_RightFirst(s, mid) ==
  IF mid = 0 \/ mid = SpanLen(s) THEN s
  ELSE CopyTo(CopyTo(Reverse(s), 0, Reverse(Sub(Reverse(s), 0, mid))),
              mid, Reverse(Sub(Reverse(s), mid, SpanLen(s) - mid)))

(* Both sides turned around, then the whole.                               *)
Rotate(s, mid) ==
  IF mid = 0 \/ mid = SpanLen(s) THEN s
  ELSE Reverse(CopyTo(CopyTo(s, 0, Reverse(Sub(s, 0, mid))),
                      mid, Reverse(Sub(s, mid, SpanLen(s) - mid))))

(* swap_ranges, of two that share nothing, of one span.                    *)
SwapRanges(s, a, b, count) ==
  LET swapped[k \in 0 .. count] == IF k = 0 THEN s ELSE SwapElems(swapped[k - 1], a + k - 1, b + k - 1)
  IN  swapped[count]

(* permute_step, up when asc. A result is [s, found].                      *)
PermuteStep(s, cmp, asc) ==
  LET Ahead(x, y) == IF asc THEN cmp[x, y] < 0 ELSE cmp[x, y] > 0
      steps == {k \in DOMAIN s \ {0} : Ahead(s[k - 1], s[k])}
      pivot == Max(steps) - 1
      mate  == Max({k \in DOMAIN s : Ahead(s[pivot], s[k])})
      over  == SwapElems(s, pivot, mate)
  IN  IF SpanLen(s) < 2 THEN [s |-> s, found |-> FALSE]
      ELSE IF steps = {} THEN [s |-> Reverse(s), found |-> FALSE]
      ELSE [s |-> CopyTo(over, pivot + 1, Reverse(Sub(over, pivot + 1, SpanLen(s) - pivot - 1))),
            found |-> TRUE]

Partition(s, pred) ==
  LET upTo[i \in 0 .. SpanLen(s)] ==
        IF i = 0 THEN Packed(s, 0)
        ELSE LET r == upTo[i - 1] IN
             IF pred[r.s[i - 1]] THEN Packed(SwapElems(r.s, i - 1, r.kept), r.kept + 1) ELSE r
  IN  upTo[SpanLen(s)]

(* The kept ones are packed where they are, the others set aside in "rest".*)
PartitionStable(s, pred) ==
  LET upTo[i \in 0 .. SpanLen(s)] ==
        IF i = 0 THEN [s |-> s, kept |-> 0, rest |-> <<>>]
        ELSE LET r == upTo[i - 1] IN
             IF pred[r.s[i - 1]]
             THEN [r EXCEPT !.s = [@ EXCEPT ![r.kept] = r.s[i - 1]], !.kept = @ + 1]
             ELSE [r EXCEPT !.rest = Append(@, r.s[i - 1])]
      last == upTo[SpanLen(s)]
  IN  Packed(CopyTo(last.s, last.kept, [i \in 0 .. Len(last.rest) - 1 |-> last.rest[i + 1]]), last.kept)

(* The first place from i on whose elem is not of the wanted answer.       *)
SkipWhile(s, i, pred, want) == Min({j \in i .. SpanLen(s) - 1 : pred[s[j]] # want} \cup {SpanLen(s)})

IsPartitioned(s, pred) == SkipWhile(s, SkipWhile(s, 0, pred, TRUE), pred, FALSE) = SpanLen(s)

(* draws[i] is what the generator answers for 0 .. i - 1.                  *)
Shuffle(s, draws) ==
  LET from[i \in 1 .. SpanLen(s) + 1] ==
        IF i = SpanLen(s) + 1 THEN s
        ELSE IF i = 1 THEN from[2] ELSE SwapElems(from[i + 1], i - 1, draws[i])
  IN  from[1]

ShufflePrefix(s, count, draws) ==
  LET upTo[i \in 0 .. count] ==
        IF i = 0 THEN s
        ELSE SwapElems(upTo[i - 1], i - 1, i - 1 + draws[SpanLen(s) - (i - 1)])
  IN  upTo[count]

-----------------------------------------------------------------------------
(* algo/modify: what is kept is packed to the front of the span it is read *)
(* from.                                                                   *)

(* Compared with the last elem kept, which the packing may have moved.     *)
Unique(s, eq) ==
  LET upTo[read \in 1 .. SpanLen(s)] ==
        IF read = 1 THEN Packed(s, 1)
        ELSE LET r == upTo[read - 1] IN
             IF eq[r.s[r.kept - 1], r.s[read - 1]] THEN r
             ELSE Packed([r.s EXCEPT ![r.kept] = r.s[read - 1]], r.kept + 1)
  IN  IF SpanLen(s) < 2 THEN Packed(s, SpanLen(s)) ELSE upTo[SpanLen(s)]

RemoveIf(s, pred) ==
  LET upTo[read \in 0 .. SpanLen(s)] ==
        IF read = 0 THEN Packed(s, 0)
        ELSE LET r == upTo[read - 1] IN
             IF pred[r.s[read - 1]] THEN r
             ELSE Packed([r.s EXCEPT ![r.kept] = r.s[read - 1]], r.kept + 1)
  IN  upTo[SpanLen(s)]

(* The key and its equality as a predicate.                                *)
KeyMatches(eq, key, elems) == [x \in elems |-> eq[x, key]]

ReplaceIf(s, pred, val) == [i \in DOMAIN s |-> IF pred[s[i]] THEN val ELSE s[i]]

-----------------------------------------------------------------------------
(* algo/search and algo/compare, algo/set and the merge of algo/merge that *)
(* writes elsewhere: questions about spans, and walks over two of them. A  *)
(* find answers the place, or None.                                        *)

None == -1

First(places) == IF places = {} THEN None ELSE Min(places)
Last(places)  == IF places = {} THEN None ELSE Max(places)

Find(s, key, eq) == First({i \in DOMAIN s : eq[s[i], key]})
FindIf(s, pred)  == First({i \in DOMAIN s : pred[s[i]]})

MatchesAt(s, sub, at, eq) == \A j \in DOMAIN sub : eq[s[at + j], sub[j]]

FindSub_StopsShort(s, sub, eq) ==
  IF SpanLen(sub) = 0 THEN 0
  ELSE First({i \in 0 .. SpanLen(s) - SpanLen(sub) - 1 : MatchesAt(s, sub, i, eq)})

(* The starts that leave room for the whole of sub.                        *)
FindSub(s, sub, eq) ==
  IF SpanLen(sub) = 0 THEN 0
  ELSE First({i \in 0 .. SpanLen(s) - SpanLen(sub) : MatchesAt(s, sub, i, eq)})

FindSubLast(s, sub, eq) ==
  IF SpanLen(sub) = 0 THEN SpanLen(s)
  ELSE Last({i \in 0 .. SpanLen(s) - SpanLen(sub) : MatchesAt(s, sub, i, eq)})

(* The run that ends at each place; the first of them that is long enough. *)
FindRun(s, key, count, eq) ==
  LET run[i \in DOMAIN s] ==
        IF ~eq[s[i], key] THEN 0 ELSE IF i = 0 THEN 1 ELSE run[i - 1] + 1
      end == First({i \in DOMAIN s : run[i] = count})
  IN  IF count = 0 THEN 0 ELSE IF end = None THEN None ELSE end + 1 - count

FindAnyOf(s, set, eq) == First({i \in DOMAIN s : \E j \in DOMAIN set : eq[s[i], set[j]]})

FindAdjacent(s, eq) == First({i - 1 : i \in {k \in DOMAIN s \ {0} : eq[s[k - 1], s[k]]}})

Count(s, key, eq) == Cardinality({i \in DOMAIN s : eq[s[i], key]})

-----------------------------------------------------------------------------
(* Bounds: [lo, hi) is halved until it is empty. `before` is what the      *)
(* elems answer, of which only those in the middle are asked.              *)

Boundary(before) ==
  LET n == SpanLen(before)
      of[lo \in 0 .. n, hi \in 0 .. n] ==
        LET mid == lo + (hi - lo) \div 2
        IN  IF lo >= hi THEN lo
            ELSE IF before[mid] THEN of[mid + 1, hi] ELSE of[lo, mid]
  IN  of[0, n]

LowerBound(s, key, cmp) == Boundary([i \in DOMAIN s |-> cmp[s[i], key] < 0])

UpperBound(s, key, cmp) == Boundary([i \in DOMAIN s |-> cmp[s[i], key] <= 0])

PartitionPoint(s, pred) == Boundary([i \in DOMAIN s |-> pred[s[i]]])

BinarySearch(s, key, cmp) ==
  LET pos == LowerBound(s, key, cmp)
  IN  IF pos >= SpanLen(s) THEN None ELSE IF cmp[s[pos], key] = 0 THEN pos ELSE None

(* The second descent starts where the first one ended.                    *)
EqualRange(s, key, cmp) ==
  LET lo == LowerBound(s, key, cmp)
  IN  <<lo, lo + UpperBound(Sub(s, lo, SpanLen(s) - lo), key, cmp)>>

-----------------------------------------------------------------------------
AllOf(s, pred)  == \A i \in DOMAIN s : pred[s[i]]
AnyOf(s, pred)  == FindIf(s, pred) # None
NoneOf(s, pred) == ~AnyOf(s, pred)

(* One pass; the best so far gives way to a better one only.               *)
Extreme(n, better) ==
  LET best[i \in 0 .. n - 1] ==
        IF i = 0 THEN 0 ELSE IF better[i, best[i - 1]] THEN i ELSE best[i - 1]
  IN  best[n - 1]

CountIf(s, pred) == Cardinality({i \in DOMAIN s : pred[s[i]]})

MinElem(s, cmp) == Extreme(SpanLen(s), [i, j \in DOMAIN s |-> cmp[s[i], s[j]] < 0])
MaxElem(s, cmp) == Extreme(SpanLen(s), [i, j \in DOMAIN s |-> cmp[s[i], s[j]] > 0])

(* Both in one pass: of even elems the first is either's.                  *)
MinMaxElem(s, cmp) ==
  LET out[i \in DOMAIN s] ==
        IF i = 0 THEN [min |-> 0, max |-> 0]
        ELSE LET o == out[i - 1]
             IN  [min |-> IF cmp[s[i], s[o.min]] < 0 THEN i ELSE o.min,
                  max |-> IF cmp[s[i], s[o.max]] > 0 THEN i ELSE o.max]
  IN  out[SpanLen(s) - 1]

-----------------------------------------------------------------------------
(* algo/compare, and the predicates of algo/sort.                          *)

SpanEq(a, b) == SpanLen(a) = SpanLen(b) /\ \A i \in DOMAIN a : a[i] = b[i]

(* one: whether they begin at one address. If so, and as long as each      *)
(* other, they are the same span, and nothing is called.                   *)
EqBy(a, b, one, eq) == SpanLen(a) = SpanLen(b) /\ (one \/ \A i \in DOMAIN a : eq[a[i], b[i]])

Mismatch(a, b, one, eq) ==
  IF one /\ SpanLen(a) = SpanLen(b) THEN None
  ELSE First({i \in DOMAIN a \cap DOMAIN b : ~eq[a[i], b[i]]})

SpanCmp(a, b, one, cmp) ==
  LET i == First({i \in DOMAIN a \cap DOMAIN b : cmp[a[i], b[i]] # 0})
  IN  IF one /\ SpanLen(a) = SpanLen(b) THEN 0
      ELSE IF i # None THEN IF cmp[a[i], b[i]] < 0 THEN -1 ELSE 1
      ELSE IF SpanLen(a) > SpanLen(b) THEN 1 ELSE IF SpanLen(a) < SpanLen(b) THEN -1 ELSE 0

IsSortedUntil(s, cmp) ==
  LET drop == First({i \in DOMAIN s \ {0} : cmp[s[i - 1], s[i]] > 0})
  IN  IF drop = None THEN SpanLen(s) ELSE drop

IsSorted(s, cmp) == IsSortedUntil(s, cmp) = SpanLen(s)

-----------------------------------------------------------------------------
(* One walk over two sorted spans, elem against elem, appending to a third *)
(* (internal/emit.h). What a turn emits and passes over is all that the    *)
(* operations differ in.                                                   *)

AsSpan(q) == [k \in 0 .. Len(q) - 1 |-> q[k + 1]]

(* tda_emit_rest: the elems of s from i on.                                *)
EmitRest(s, i) == [k \in 1 .. SpanLen(s) - i |-> s[i + k - 1]]

Emit(yes, x) == IF yes THEN <<x>> ELSE <<>>

(* On a tie "pair" passes over both, and otherwise over the first alone.   *)
Walk(a, b, cmp, pair, emits) ==
  LET from[i \in 0 .. SpanLen(a), j \in 0 .. SpanLen(b)] ==
        IF i = SpanLen(a) \/ j = SpanLen(b)
        THEN (IF "restA" \in emits THEN EmitRest(a, i) ELSE <<>>)
             \o (IF "restB" \in emits THEN EmitRest(b, j) ELSE <<>>)
        ELSE IF cmp[a[i], b[j]] < 0 THEN Emit("less" \in emits, a[i]) \o from[i + 1, j]
        ELSE IF cmp[a[i], b[j]] > 0 THEN Emit("more" \in emits, b[j]) \o from[i, j + 1]
        ELSE Emit("same" \in emits, a[i]) \o from[i + 1, IF pair THEN j + 1 ELSE j]
  IN  AsSpan(from[0, 0])

SetUnion(a, b, cmp) == Walk(a, b, cmp, TRUE, {"less", "more", "same", "restA", "restB"})

SetIntersection(a, b, cmp) == Walk(a, b, cmp, TRUE, {"same"})

SetDifference(a, b, cmp) == Walk(a, b, cmp, TRUE, {"less", "restA"})

SetSymmetricDifference(a, b, cmp) == Walk(a, b, cmp, TRUE, {"less", "more", "restA", "restB"})

MergeSpans(a, b, cmp) == Walk(a, b, cmp, FALSE, {"less", "more", "same", "restA", "restB"})

(* Each elem of sub spends one of sup: i is where sup goes on, or past its *)
(* end and one more once an elem went without.                             *)
Includes(sup, sub, cmp) ==
  LET n == SpanLen(sup)
      place(i, x) == {k \in i .. n - 1 : cmp[sup[k], x] >= 0}
      upTo[j \in 0 .. SpanLen(sub)] ==
        IF j = 0 THEN 0
        ELSE LET i == upTo[j - 1]
                 x == sub[j - 1]
             IN  IF place(i, x) = {} THEN n + 1
                 ELSE LET k == CHOOSE k \in place(i, x) : \A l \in place(i, x) : k <= l
                      IN  IF cmp[sup[k], x] > 0 THEN n + 1 ELSE k + 1
  IN  upTo[SpanLen(sub)] <= n
=============================================================================
