------------------------------- MODULE Sorting -------------------------------
(***************************************************************************)
(* algo/sort and the merges in place of algo/merge, one call on one span,  *)
(* step by step: the recursions as frames on a stack, the loops that write *)
(* over what they read as positions that move.                             *)
(*                                                                         *)
(* An elem is <<key, place it had when the call began>>; orders look at    *)
(* keys alone. A frame that has made its last recursive call but one is    *)
(* left as it will go on after it. INSERTION_THRESHOLD and the slack of    *)
(* depth_limit are parameters.                                             *)
(***************************************************************************)
EXTENDS Integers, Sequences, FiniteSets, FiniteSetsExt, Spans

CONSTANTS
  Inputs,      \* spans of keys a call may be made on
  Threshold,   \* INSERTION_THRESHOLD
  Slack        \* the factor in depth_limit

ASSUME SortingAssumption == Threshold \in Nat /\ Slack \in Nat

VARIABLES
  given,   \* the span as it was
  s,       \* the span
  call,    \* what was called, with which number
  todo,    \* the stack of frames, the running one last
  work,    \* the loop the running frame is in
  buf      \* what the call has allocated

vars == <<given, s, call, todo, work, buf>>

LOCAL H == INSTANCE Heap

N       == SpanLen(s)
Tagged(keys) == [i \in DOMAIN keys |-> <<keys[i], i>>]
Elems   == {given[i] : i \in DOMAIN given}
cmp     == [p \in Elems \X Elems |-> p[1][1] - p[2][1]]

NoBuf == <<>>
Unwritten == <<>>   \* what lies where nothing was written yet: no elem
Idle  == [at |-> "idle"]

Top     == todo[Len(todo)]
Below   == SubSeq(todo, 1, Len(todo) - 1)
Running(op) == todo # <<>> /\ work = Idle /\ Top.op = op
Span(f) == f.right - f.left + 1

(* Frames: of quicksort and nth_elem over [left, right], of partial_sort   *)
(* with the prefix it has still to sort, of merge_in_place with the runs   *)
(* [left, mid) and [mid, right].                                           *)
Frame(op, left, right, depth, mid) ==
  [op |-> op, left |-> left, right |-> right, depth |-> depth, mid |-> mid]

BitWidth(n)     == CHOOSE w \in 0 .. n : n < 2^w /\ \A v \in 0 .. w - 1 : n >= 2^v
DepthLimit(len) == Slack * (BitWidth(len) - 1)

SortFrame(left, right) == Frame("sort", left, right, DepthLimit(right - left + 1), 0)

-----------------------------------------------------------------------------
(* The steps that are one pass over a range.                               *)

(* Past every one not greater.                                             *)
InsertionSlot(t, idx) ==
  LET greater == {j \in 0 .. idx - 1 : \A k \in j .. idx - 1 : cmp[t[k], t[idx]] > 0}
  IN  IF greater = {} THEN idx ELSE Min(greater)

InsertionSort(t) ==
  LET upTo[i \in 1 .. SpanLen(t)] ==
        IF i = 1 THEN t
        ELSE LET u == upTo[i - 1]
                 j == InsertionSlot(u, i - 1)
             IN  [CopyTo(u, j + 1, Sub(u, j, i - 1 - j)) EXCEPT ![j] = u[i - 1]]
  IN  IF SpanLen(t) < 2 THEN t ELSE upTo[SpanLen(t)]

Median3(a, b, c) ==
  LET ab == cmp[s[a], s[b]]
      ac == cmp[s[a], s[c]]
      bc == cmp[s[b], s[c]]
  IN  IF (ab <= 0 /\ ac >= 0) \/ (ab >= 0 /\ ac <= 0) THEN a
      ELSE IF (ab <= 0 /\ bc <= 0) \/ (ab >= 0 /\ bc >= 0) THEN b ELSE c

(* Where ninther samples a range, by threes.                               *)
Samples(left, right) ==
  LET len  == right - left + 1
      mid  == left + len \div 2
      step == len \div 8
  IN  << <<left, left + step, left + 2 * step>>,
         <<mid - step, mid, mid + step>>,
         <<right - 2 * step, right - step, right>> >>

Ninther(left, right) ==
  LET of(three) == Median3(three[1], three[2], three[3])
      t         == Samples(left, right)
  IN  Median3(of(t[1]), of(t[2]), of(t[3]))

-----------------------------------------------------------------------------
(* The calls. One that has nothing to do returns at once.                  *)

Begins(op, k, frames) ==
  /\ call.op = "none"
  /\ call' = [op |-> op, k |-> k]
  /\ todo' = frames
  /\ UNCHANGED given

WholeSort == IF N < 2 THEN <<>> ELSE <<SortFrame(0, N - 1)>>

CallSort == Begins("sort", 0, WholeSort) /\ UNCHANGED <<s, work, buf>>

NthFrames(nth) == IF N < 2 THEN <<>> ELSE <<Frame("nth", 0, N - 1, DepthLimit(N), nth)>>

CallNth == \E nth \in 0 .. N - 1 : Begins("nth", nth, NthFrames(nth)) /\ UNCHANGED <<s, work, buf>>

CallPartial ==
  \E count \in 0 .. N :
    /\ Begins("partial", count,
              IF count = 0 \/ N < 2 THEN <<>>
              ELSE IF count >= N THEN WholeSort
              ELSE <<Frame("prefix", 0, count - 1, 0, 0)>> \o NthFrames(count))
    /\ UNCHANGED <<s, work, buf>>

(* Merged back and forth between the span and a buffer of its length; home *)
(* says that the runs are in the span.                                     *)
CallStable ==
  /\ Begins("stable", 0, <<>>)
  /\ UNCHANGED s
  /\ IF N < 2 THEN UNCHANGED <<work, buf>>
     ELSE /\ buf' = [i \in DOMAIN s |-> Unwritten]
          /\ work' = [at |-> "stable", home |-> TRUE, width |-> 1, i |-> 0]

RefuseStable == N >= 2 /\ Begins("refused", 0, <<>>) /\ UNCHANGED <<s, work, buf>>

RunsAt(mid) == \A i \in 1 .. N - 1 : i # mid => cmp[s[i - 1], s[i]] <= 0

(* Without an allocator, or refused, it merges in place.                   *)
CallMergeInPlace ==
  \E mid \in 0 .. N :
    /\ RunsAt(mid)
    /\ Begins("merge", mid, IF mid = 0 \/ mid = N THEN <<>> ELSE <<Frame("merge", 0, N - 1, 1, mid)>>)
    /\ UNCHANGED <<s, work, buf>>

CallMergeBuffered ==
  \E mid \in 1 .. N - 1 :
    /\ RunsAt(mid)
    /\ Begins("merge", mid, <<>>)
    /\ UNCHANGED s
    /\ IF mid <= N - mid
       THEN /\ buf' = Sub(s, 0, mid)
            /\ work' = [at |-> "forward", w |-> 0, r |-> mid, b |-> 0]
       ELSE /\ buf' = Sub(s, mid, N - mid)
            /\ work' = [at |-> "backward", w |-> N, r |-> mid, b |-> N - mid]

-----------------------------------------------------------------------------
(* quicksort and nth_elem.                                                 *)

Return ==
  /\ Running("sort") \/ Running("nth")
  /\ Top.left >= Top.right
  /\ todo' = Below
  /\ UNCHANGED <<given, s, call, work, buf>>

SortsRange(t) ==
  /\ s' = CopyTo(s, Top.left, t)
  /\ todo' = Below
  /\ UNCHANGED <<given, call, work, buf>>

TopRange == Sub(s, Top.left, Span(Top))

ShortRange ==
  /\ Running("sort") /\ Top.left < Top.right
  /\ Span(Top) <= Threshold
  /\ SortsRange(InsertionSort(TopRange))

HeapRange ==
  /\ Running("sort") /\ Top.left < Top.right
  /\ Span(Top) > Threshold /\ Top.depth = 0
  /\ SortsRange(H!SortHeap(H!MakeHeap(TopRange, Span(Top), cmp), Span(Top), cmp))

NthGivesUp ==
  /\ Running("nth") /\ Top.left < Top.right
  /\ Top.depth = 0
  /\ todo' = Append(Below, SortFrame(Top.left, Top.right))
  /\ UNCHANGED <<given, s, call, work, buf>>

SplitBegin ==
  /\ \/ Running("sort") /\ Span(Top) > Threshold
     \/ Running("nth")
  /\ Top.left < Top.right /\ Top.depth > 0
  /\ s' = SwapElems(s, Top.left, Ninther(Top.left, Top.right))
  /\ todo' = Append(Below, [Top EXCEPT !.depth = @ - 1])
  /\ work' = [at |-> "part", lo |-> Top.left, i |-> Top.left + 1, hi |-> Top.right]
  /\ UNCHANGED <<given, call, buf>>

(* What partition3 does of the elem at i: [s, work].                       *)
PartitionOne_AdvancesAlways ==
  LET w == work
      c == cmp[s[w.i], s[w.lo]]
  IN  IF c < 0 THEN [s |-> SwapElems(s, w.i, w.lo), work |-> [w EXCEPT !.lo = @ + 1, !.i = @ + 1]]
      ELSE IF c > 0 THEN [s |-> SwapElems(s, w.i, w.hi), work |-> [w EXCEPT !.hi = @ - 1, !.i = @ + 1]]
      ELSE [s |-> s, work |-> [w EXCEPT !.i = @ + 1]]

PartitionOne_WaitsOnEqual ==
  LET w == work
      c == cmp[s[w.i], s[w.lo]]
  IN  IF c < 0 THEN [s |-> SwapElems(s, w.i, w.lo), work |-> [w EXCEPT !.lo = @ + 1, !.i = @ + 1]]
      ELSE IF c > 0 THEN [s |-> SwapElems(s, w.i, w.hi), work |-> [w EXCEPT !.hi = @ - 1]]
      ELSE [s |-> s, work |-> w]

PartitionOne ==
  LET w == work
      c == cmp[s[w.i], s[w.lo]]
  IN  IF c < 0 THEN [s |-> SwapElems(s, w.i, w.lo), work |-> [w EXCEPT !.lo = @ + 1, !.i = @ + 1]]
      ELSE IF c > 0 THEN [s |-> SwapElems(s, w.i, w.hi), work |-> [w EXCEPT !.hi = @ - 1]]
      ELSE [s |-> s, work |-> [w EXCEPT !.i = @ + 1]]

PartitionStep ==
  /\ work.at = "part" /\ work.i <= work.hi
  /\ s' = PartitionOne.s
  /\ work' = PartitionOne.work
  /\ UNCHANGED <<given, call, todo, buf>>

(* The frames left by a split at [lt, gt]: the shorter side is called, the *)
(* longer is what the frame goes on with; of nth's the one with the place. *)
AfterSplit(f, lt, gt) ==
  LET child(left, right) == IF left > right THEN <<>> ELSE <<[f EXCEPT !.left = left, !.right = right]>>
  IN  IF f.op = "nth"
      THEN IF f.mid < lt THEN child(f.left, lt - 1)
           ELSE IF f.mid > gt THEN child(gt + 1, f.right) ELSE <<>>
      ELSE IF lt - f.left < f.right - gt
           THEN <<[f EXCEPT !.left = gt + 1]>> \o child(f.left, lt - 1)
           ELSE <<[f EXCEPT !.right = IF lt = f.left THEN f.left ELSE lt - 1]>> \o child(gt + 1, f.right)

SplitDone ==
  /\ work.at = "part" /\ work.i > work.hi
  /\ todo' = Below \o AfterSplit(Top, work.lo, work.hi)
  /\ work' = Idle
  /\ UNCHANGED <<given, s, call, buf>>

(* partial_sort, once nth_elem has returned.                               *)
SortPrefix ==
  /\ Running("prefix")
  /\ todo' = IF Top.left < Top.right THEN Append(Below, SortFrame(Top.left, Top.right)) ELSE Below
  /\ UNCHANGED <<given, s, call, work, buf>>

-----------------------------------------------------------------------------
(* sort_stable: one pair of runs, then the next width, then back home.     *)

Least(a, b) == IF a < b THEN a ELSE b

MergedRuns(src, i, width) ==
  LET mid == Least(i + width, N)
      end == Least(i + 2 * width, N)
  IN  MergeSpans(Sub(src, i, mid - i), Sub(src, mid, end - mid), cmp)

StablePair ==
  /\ work.at = "stable" /\ work.width < N /\ work.i < N
  /\ work' = [work EXCEPT !.i = @ + 2 * work.width]
  /\ IF work.home
     THEN buf' = CopyTo(buf, work.i, MergedRuns(s, work.i, work.width)) /\ UNCHANGED s
     ELSE s' = CopyTo(s, work.i, MergedRuns(buf, work.i, work.width)) /\ UNCHANGED buf
  /\ UNCHANGED <<given, call, todo>>

StableWidth ==
  /\ work.at = "stable" /\ work.width < N /\ work.i >= N
  /\ work' = [work EXCEPT !.home = ~@, !.width = 2 * @, !.i = 0]
  /\ UNCHANGED <<given, s, call, todo, buf>>

StableReturn ==
  /\ work.at = "stable" /\ work.width >= N
  /\ s' = IF work.home THEN s ELSE buf
  /\ buf' = NoBuf /\ work' = Idle
  /\ UNCHANGED <<given, call, todo>>

-----------------------------------------------------------------------------
(* merge_buffered: w is written next, r read from the span, b from the     *)
(* parked run; backward they are one past.                                 *)

ForwardTakesRight_OnATie(r, b) == cmp[s[r], buf[b]] <= 0
ForwardTakesRight(r, b)        == cmp[s[r], buf[b]] < 0

MergeForward ==
  /\ work.at = "forward" /\ work.b < SpanLen(buf) /\ work.r < N
  /\ LET right == ForwardTakesRight(work.r, work.b)
     IN  /\ s' = [s EXCEPT ![work.w] = IF right THEN s[work.r] ELSE buf[work.b]]
         /\ work' = IF right THEN [work EXCEPT !.r = @ + 1, !.w = @ + 1]
                    ELSE [work EXCEPT !.b = @ + 1, !.w = @ + 1]
  /\ UNCHANGED <<given, call, todo, buf>>

MergeBackward ==
  /\ work.at = "backward" /\ work.b > 0 /\ work.r > 0
  /\ LET left == cmp[s[work.r - 1], buf[work.b - 1]] > 0
     IN  /\ s' = [s EXCEPT ![work.w - 1] = IF left THEN s[work.r - 1] ELSE buf[work.b - 1]]
         /\ work' = IF left THEN [work EXCEPT !.r = @ - 1, !.w = @ - 1]
                    ELSE [work EXCEPT !.b = @ - 1, !.w = @ - 1]
  /\ UNCHANGED <<given, call, todo, buf>>

(* What is left of the parked run goes where the gap is.                   *)
MergeReturn ==
  /\ \/ /\ work.at = "forward" /\ (work.b = SpanLen(buf) \/ work.r = N)
        /\ s' = CopyTo(s, work.w, Sub(buf, work.b, SpanLen(buf) - work.b))
     \/ /\ work.at = "backward" /\ (work.b = 0 \/ work.r = 0)
        /\ s' = CopyTo(s, work.w - work.b, Sub(buf, 0, work.b))
  /\ buf' = NoBuf /\ work' = Idle
  /\ UNCHANGED <<given, call, todo>>

-----------------------------------------------------------------------------
(* merge_in_place: [left_cut, right_cut], where the two runs are cut.      *)
Cuts_SearchedTheSameWay(f) ==
  LET left  == Sub(s, f.left, f.mid - f.left)
      right == Sub(s, f.mid, f.right - f.mid + 1)
      l     == SpanLen(left) \div 2
      r     == SpanLen(right) \div 2
  IN  IF SpanLen(left) > SpanLen(right)
      THEN <<f.left + l, f.mid + LowerBound(right, left[l], cmp)>>
      ELSE <<f.left + LowerBound(left, right[r], cmp), f.mid + r>>

Cuts(f) ==
  LET left  == Sub(s, f.left, f.mid - f.left)
      right == Sub(s, f.mid, f.right - f.mid + 1)
      l     == SpanLen(left) \div 2
      r     == SpanLen(right) \div 2
  IN  IF SpanLen(left) > SpanLen(right)
      THEN <<f.left + l, f.mid + LowerBound(right, left[l], cmp)>>
      ELSE <<f.left + UpperBound(left, right[r], cmp), f.mid + r>>

MergeReturns ==
  /\ Running("merge")
  /\ Top.mid = Top.left \/ Top.mid = Top.right + 1
  /\ todo' = Below
  /\ UNCHANGED <<given, s, call, work, buf>>

MergeTwo ==
  /\ Running("merge")
  /\ Top.mid = Top.right /\ Top.left + 1 = Top.right
  /\ s' = IF cmp[s[Top.right], s[Top.left]] < 0 THEN SwapElems(s, Top.left, Top.right) ELSE s
  /\ todo' = Below
  /\ UNCHANGED <<given, call, work, buf>>

MergeCut ==
  /\ Running("merge")
  /\ Top.left < Top.mid /\ Top.mid <= Top.right /\ Span(Top) > 2
  /\ LET l == Cuts(Top)[1]
         r == Cuts(Top)[2]
         m == l + (r - Top.mid)
     IN  /\ s' = CopyTo(s, l, Rotate(Sub(s, l, r - l), Top.mid - l))
         /\ todo' = Below \o << Frame("merge", m, Top.right, Top.depth + 1, r),
                                Frame("merge", Top.left, m - 1, Top.depth + 1, l) >>
  /\ UNCHANGED <<given, call, work, buf>>

-----------------------------------------------------------------------------
Init ==
  /\ \E keys \in Inputs : given = Tagged(keys)
  /\ s = given
  /\ call = [op |-> "none", k |-> 0]
  /\ todo = <<>> /\ work = Idle /\ buf = NoBuf

Calling ==
  \/ CallSort \/ CallNth \/ CallPartial
  \/ CallStable \/ RefuseStable \/ CallMergeInPlace \/ CallMergeBuffered

Stepping ==
  \/ Return \/ ShortRange \/ HeapRange \/ NthGivesUp
  \/ SplitBegin \/ PartitionStep \/ SplitDone \/ SortPrefix
  \/ StablePair \/ StableWidth \/ StableReturn
  \/ MergeForward \/ MergeBackward \/ MergeReturn
  \/ MergeReturns \/ MergeTwo \/ MergeCut

Next == Calling \/ Stepping

(* A call that is running goes on.                                         *)
Spec == Init /\ [][Next]_vars /\ WF_vars(Stepping)

-----------------------------------------------------------------------------
Ordered(x, y) == cmp[x, y] <= 0

(* Even elems by where they came from.                                     *)
InOrder(x, y) == cmp[x, y] < 0 \/ (cmp[x, y] = 0 /\ x[2] <= y[2])

SortedBy(Rel(_, _), lo, hi) == \A i \in lo .. hi - 1 : Rel(s[i], s[i + 1])

Same(t, u) == \A x \in Elems : Cardinality({i \in DOMAIN t : t[i] = x}) = Cardinality({i \in DOMAIN u : u[i] = x})

Frames == {todo[k] : k \in DOMAIN todo}

(* The zones of a split: below the pivot, even with it, to be looked at,   *)
(* above it. The position that steps down stays above the one it would     *)
(* pass below zero.                                                        *)
ZonesSound ==
  work.at = "part" =>
    LET w == work
    IN  /\ Top.left <= w.lo /\ w.lo < w.i /\ w.lo <= w.hi /\ w.i <= w.hi + 1 /\ w.hi <= Top.right
        /\ \A k \in Top.left .. w.lo - 1 : cmp[s[k], s[w.lo]] < 0
        /\ \A k \in w.lo .. w.i - 1 : cmp[s[k], s[w.lo]] = 0
        /\ \A k \in w.hi + 1 .. Top.right : cmp[s[k], s[w.lo]] > 0

(* The samples of a pivot lie in the range, however long it is.            *)
SamplesInside ==
  \A len \in 1 .. 70 : \A t \in 1 .. 3, k \in 1 .. 3 : Samples(3, 2 + len)[t][k] \in 3 .. 2 + len

(* Whatever the pivots: what a frame's borders part is in order, so what   *)
(* no frame holds any more is in its place; nth stays between the borders; *)
(* elems are only moved around; and the stack is as deep as a range can be *)
(* halved, for the shorter side is the one that is called.                 *)
FramesSound ==
  /\ ZonesSound /\ SamplesInside
  /\ \A f \in Frames :
       /\ f.op \in {"sort", "nth"} =>
            /\ 0 <= f.left /\ f.right < N
            /\ \A i, j \in DOMAIN s :
                 (i < f.left /\ f.left <= j) \/ (i <= f.right /\ f.right < j) => Ordered(s[i], s[j])
       /\ f.op = "nth" => f.left <= f.mid /\ f.mid <= f.right
  /\ call.op = "sort" =>
       \A i, j \in DOMAIN s :
         i < j => Ordered(s[i], s[j]) \/ \E f \in Frames : f.left <= i /\ j <= f.right
  /\ call.op \in {"sort", "nth", "partial"} => Same(s, given)
  /\ LET sorts == Cardinality({k \in DOMAIN todo : todo[k].op = "sort"})
     IN  sorts > 0 => 2^(sorts - 1) <= N

(* A merge over the span it reads loses nothing: what is written, what is  *)
(* parked and what is still to be read make up the span, and the writing   *)
(* stops short of the reading. In place, a frame holds two runs, frames    *)
(* are apart from each other in order, even elems in theirs, and the calls *)
(* are no deeper than both runs can be halved.                             *)
MergeSound ==
  /\ work.at = "forward" =>
       /\ work.w + (SpanLen(buf) - work.b) = work.r
       /\ SortedBy(InOrder, 0, work.w - 1)
       /\ Same(CopyTo(s, work.w, Sub(buf, work.b, SpanLen(buf) - work.b)), given)
  /\ work.at = "backward" =>
       /\ work.w = work.r + work.b
       /\ SortedBy(InOrder, work.w, N - 1)
       /\ Same(CopyTo(s, work.r, Sub(buf, 0, work.b)), given)
  /\ work.at \in {"forward", "backward"} => 2 * SpanLen(buf) <= N
  /\ call.op = "merge" /\ buf = NoBuf =>
       /\ Same(s, given)
       /\ \A f \in Frames :
            /\ f.left <= f.mid /\ f.mid <= f.right + 1
            /\ SortedBy(InOrder, f.left, f.mid - 1) /\ SortedBy(InOrder, f.mid, f.right)
            /\ f.depth <= BitWidth(call.k) + BitWidth(N - call.k)
       /\ \A i, j \in DOMAIN s :
            i < j => InOrder(s[i], s[j]) \/ \E f \in Frames : f.left <= i /\ j <= f.right

Finished == call.op # "none" /\ todo = <<>> /\ work = Idle

(* What a call leaves, whichever way it went: sorted, in the order elems   *)
(* came in where that is promised, the nth in its place with the smaller   *)
(* in front, the prefix sorted; refused, as it was; and no buffer kept.    *)
EndsRight ==
  Finished =>
    /\ buf = NoBuf
    /\ Same(s, given)
    /\ call.op = "sort" => SortedBy(Ordered, 0, N - 1)
    /\ call.op \in {"stable", "merge"} => SortedBy(InOrder, 0, N - 1)
    /\ call.op = "nth" => \A i \in DOMAIN s :
         /\ i < call.k => Ordered(s[i], s[call.k])
         /\ i > call.k => Ordered(s[call.k], s[i])
    /\ call.op = "partial" =>
         /\ SortedBy(Ordered, 0, call.k - 1)
         /\ \A i \in 0 .. call.k - 1, j \in call.k .. N - 1 : Ordered(s[i], s[j])
    /\ call.op = "refused" => s = given

(* Every call returns.                                                     *)
Ends == call.op # "none" ~> Finished
=============================================================================
