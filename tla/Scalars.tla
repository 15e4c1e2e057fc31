------------------------------ MODULE Scalars -------------------------------
(***************************************************************************)
(* core/cmp, core/hash and the generator of core/rng over words of W bits. *)
(* A float is a word: a sign, two bits of exponent, two of fraction. The   *)
(* constants the code multiplies, adds and seeds with are Mixer, of which  *)
(* only what its comments rely on is kept: odd factors, and a seed that is *)
(* not the golden ratio. A shift is as long a part of a word as there.     *)
(***************************************************************************)
LOCAL INSTANCE Integers
LOCAL INSTANCE FiniteSets
LOCAL INSTANCE Bitwise
LOCAL INSTANCE Spans

Part(W, of64) == (W * of64 + 63) \div 64

Shl(W, x, k)  == (x * 2^k) % 2^W
Shr(x, k)     == x \div 2^k

(* By no bits, or by the whole word, rotl64 asserts that nobody rotates.   *)
Turn(W, of64) == (W * of64) \div 64

Rotl(W, x, k) == Shl(W, x, k) + Shr(x, W - k)

-----------------------------------------------------------------------------
(* Comparators: -1, 0 or 1, and never by a difference that could overflow. *)

Truth(b)  == IF b THEN 1 ELSE 0
CmpInt(a, b) == Truth(a > b) - Truth(a < b)

FloatBits == 5
Floats    == 0 .. 2^FloatBits - 1

IsNan(f) == (f \div 4) % 4 = 3 /\ f % 4 # 0

(* What a float stands for: all its exponent bits set is the infinity.     *)
FloatValue(f) ==
  LET exponent == (f \div 4) % 4
      size     == IF exponent = 0 THEN f % 4
                  ELSE IF exponent = 3 THEN 1000 ELSE (4 + (f % 4)) * 2^(exponent - 1)
  IN  IF f >= 16 THEN -size ELSE size

(* NaN after everything else, and even with NaN.                           *)
CmpFloat(a, b) ==
  IF IsNan(a) \/ IsNan(b) THEN Truth(IsNan(a)) - Truth(IsNan(b))
  ELSE CmpInt(FloatValue(a), FloatValue(b))

(* Strings are spans of bytes, or null, which is no span and comes first.  *)
NullStr == [i \in {-1} |-> 0]

CmpCstr(a, b, cmp) ==
  IF a = b THEN 0 ELSE IF a = NullStr THEN -1 ELSE IF b = NullStr THEN 1 ELSE SpanCmp(a, b, FALSE, cmp)

-----------------------------------------------------------------------------
(* Hashes. mix is [seed, golden, c1, c2, basis, prime].                    *)

XorShift(W, x) == x ^^ Shr(x, Part(W, 33))

HashMix(W, mix, x) ==
  LET a == (XorShift(W, x ^^ mix.seed) * mix.c1) % 2^W
      b == (XorShift(W, a) * mix.c2) % 2^W
  IN  XorShift(W, b)

(* A signed number is widened with its sign.                               *)
HashInt(W, mix, x) == HashMix(W, mix, x % 2^W)

NanCanon == 14

(* Both zeros as the one, every NaN as the one.                            *)
HashFloat(W, mix, f) ==
  HashMix(W, mix, IF IsNan(f) THEN NanCanon ELSE IF FloatValue(f) = 0 THEN 0 ELSE f)

HashBytes(W, mix, bytes) ==
  LET upTo[i \in 0 .. Cardinality(DOMAIN bytes)] ==
        IF i = 0 THEN mix.basis ELSE ((upTo[i - 1] ^^ bytes[i - 1]) * mix.prime) % 2^W
  IN  HashMix(W, mix, upTo[Cardinality(DOMAIN bytes)])

HashCstr(W, mix, str) == IF str = NullStr THEN HashMix(W, mix, 0) ELSE HashBytes(W, mix, str)

HashCombine(W, mix, a, b) ==
  HashMix(W, mix, a ^^ ((b + mix.golden + Shl(W, a, Part(W, 6)) + Shr(a, Part(W, 2))) % 2^W))

-----------------------------------------------------------------------------
(* xoshiro256++: four words, and the answer made of two of them.           *)

RngAnswer(W, s) == (Rotl(W, (s[1] + s[4]) % 2^W, Turn(W, 23)) + s[1]) % 2^W

RngStep(W, s) ==
  LET s3 == s[3] ^^ s[1]
      s4 == s[4] ^^ s[2]
  IN  << s[1] ^^ s4, s[2] ^^ s3, s3 ^^ Shl(W, s[2], Part(W, 17)), Rotl(W, s4, Turn(W, 45)) >>

(* SplitMix64 from one state to the next, and its answer there.            *)
SplitMix(W, mix, state) ==
  LET a == ((state ^^ Shr(state, Part(W, 30))) * mix.c1) % 2^W
      b == ((a ^^ Shr(a, Part(W, 27))) * mix.c2) % 2^W
  IN  b ^^ Shr(b, Part(W, 31))

RngFromSeed(W, mix, seed) ==
  [i \in 1 .. 4 |-> SplitMix(W, mix, (seed + i * mix.golden) % 2^W)]
=============================================================================
