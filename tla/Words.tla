-------------------------------- MODULE Words --------------------------------
(***************************************************************************)
(* Arithmetic on machine words of W bits: rounding to an alignment         *)
(* (internal/ptr.h), what alloc/aligned asks its parent for, and the       *)
(* bounded draws of core/rng, whose generator may answer any word.         *)
(***************************************************************************)
LOCAL INSTANCE Integers

WordEnd(W) == 2^W
SizeMaxOf(W) == 2^W - 1

(* x & ~(alignment - 1), of a power of two.                                *)
AlignDown(x, alignment) == x - (x % alignment)

AlignUp(W, x, alignment) == AlignDown((x + (alignment - 1)) % WordEnd(W), alignment)

(* tda_ckd_align_up: whether the rounded value would not fit.              *)
AlignUpOverflows(W, x, alignment) == x > SizeMaxOf(W) - (alignment - 1)

PtrIsAligned(x, alignment) == x % alignment = 0

-----------------------------------------------------------------------------
(* alloc/aligned: the block is the parent's, with a word in front of it    *)
(* that says where the parent's begins. "ptr" is the size of that word.    *)

ParentSize(W, size, alignment, ptr) == (size + alignment - 1 + ptr) % WordEnd(W)

AlignedRefuses(W, size, alignment, ptr) ==
  size = 0 \/ size > SizeMaxOf(W) - (alignment - 1 + ptr)

(* Where the caller's block begins in the parent's block at base.          *)
AlignedPtr(W, base, alignment, ptr) == AlignUp(W, base + ptr, alignment)

-----------------------------------------------------------------------------
(* Lemire's bounded draw. A word times the range has the answer in its top *)
(* half; a word whose bottom half falls short of the threshold is drawn    *)
(* again.                                                                  *)

Low(W, word, range)  == (word * range) % WordEnd(W)
High(W, word, range) == (word * range) \div WordEnd(W)

DrawThreshold_OfAWholeWord(W, range) == SizeMaxOf(W) % range

(* -range % range in words: the words that do not divide evenly.           *)
DrawThreshold(W, range) == (WordEnd(W) - range) % range

DrawnAgain(W, word, range) ==
  Low(W, word, range) < range /\ Low(W, word, range) < DrawThreshold(W, range)

(* tda_rng_u32_max and tda_rng_u64_max: the answers a word may be taken    *)
(* for. The largest bound takes every word as it is.                       *)
Draw(W, word, max) == IF max = SizeMaxOf(W) THEN word ELSE High(W, word, max + 1)

Accepted(W, word, max) == max = SizeMaxOf(W) \/ ~DrawnAgain(W, word, max + 1)

(* tda_rng_i32_range: the width and the sum in unsigned words, then back.  *)
ToSigned(W, x) == IF x < 2^(W - 1) THEN x ELSE x - WordEnd(W)
ToWord(W, x)   == x % WordEnd(W)

RangeWidth(W, lo, hi) == (ToWord(W, hi) - ToWord(W, lo)) % WordEnd(W)
RangeDraw(W, lo, draw) == ToSigned(W, (ToWord(W, lo) + draw) % WordEnd(W))
=============================================================================
