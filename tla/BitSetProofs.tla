---------------------------- MODULE BitSetProofs ----------------------------
(***************************************************************************)
(* What MCBitSet checks of a few words of two bits, for any number of      *)
(* bitsets of any universe, words of any width, allocators that refuse     *)
(* whatever they like: the books balance, no bit above the last live one   *)
(* is ever set, and the words are a set of indices - every call changes    *)
(* it, and every question is answered, as if there were no words.          *)
(*                                                                         *)
(* The argument has three parts: what the words of a universe say of a set *)
(* of indices, word by word and, for the loops over the words, by          *)
(* induction; what a call makes of one struct, its block and its header,   *)
(* when they are exchanged for others; and that the rest of the structs    *)
(* stands as it stood.                                                     *)
(***************************************************************************)
EXTENDS BitSet, FiniteSetTheorems, WellFoundedInduction, TLAPS

-----------------------------------------------------------------------------
(* Natural numbers.                                                        *)

(* Naturals that are some have a least.                                    *)
LEMMA LeastNatural ==
  ASSUME NEW X \in SUBSET Nat, X # {}
  PROVE  \E n \in X : \A k \in X : n <= k
<1>1. IsWellFoundedOn(OpToRel(<, Nat), Nat)
  BY NatLessThanWellFounded
<1>2. PICK R : R = OpToRel(<, Nat)
  OBVIOUS
<1>3. \A x, y \in Nat : y < x => <<y, x>> \in R
  BY <1>2 DEF OpToRel
<1>4. X \subseteq Nat /\ IsWellFoundedOn(R, Nat)
  BY <1>1, <1>2
<1>5. PICK x \in X : \A y \in X : ~ (<<y, x>> \in R)
  BY <1>4, WFMin
<1>6. ASSUME NEW y \in X
      PROVE  x <= y
  <2>1. x \in Nat /\ y \in Nat
    OBVIOUS
  <2>2. ~ (y < x)
    BY <1>3, <1>5, <2>1, Zenon
  <2>3. QED
    BY <2>1, <2>2
<1>7. QED
  BY <1>6

(* A set of naturals that has zero and a next one for each has them all:   *)
(* induction, over the set of the numbers a formula holds of.              *)
LEMMA Induction ==
  ASSUME NEW X \in SUBSET Nat, 0 \in X, \A n \in X : n + 1 \in X
  PROVE  X = Nat
<1>1. SUFFICES ASSUME Nat \ X # {}
      PROVE  FALSE
  OBVIOUS
<1>2. PICK n \in Nat \ X : \A k \in Nat \ X : n <= k
  BY <1>1, LeastNatural
<1>3. n # 0 /\ n - 1 \in Nat
  OBVIOUS
<1>4. n - 1 \in X
  BY <1>2, <1>3
<1>5. (n - 1) + 1 = n
  OBVIOUS
<1>6. QED
  BY <1>4, <1>5

-----------------------------------------------------------------------------
(* Where an index is: the bit idx % WordBits of the word WordOf(idx).      *)

(* An index is its word and its bit.                                       *)
LEMMA IndexIsPlace ==
  ASSUME NEW i \in Nat
  PROVE  /\ WordOf(i) \in Nat /\ i % WordBits \in Ones
         /\ i = WordBits * WordOf(i) + (i % WordBits)
<1>1. PICK b \in Nat : b = WordBits /\ b > 0
  BY BitSetAssumption
<1>2. PICK q, r \in Int : q = i \div b /\ r = i % b
  BY <1>1
<1>3. r \in 0 .. b - 1 /\ i = b * q + r /\ q >= 0
  BY <1>1, <1>2
<1>4. q \in Nat
  BY <1>3
<1>5. QED
  BY <1>1, <1>2, <1>3, <1>4 DEF WordOf, Ones

(* Places are in the order of their words, and in a word of their bits.    *)
LEMMA PlacesInOrder ==
  ASSUME NEW v \in Nat, NEW w \in Nat, NEW i \in Ones, NEW j \in Ones
  PROVE  /\ WordBits * v + i \in Nat
         /\ v < w => WordBits * v + i < WordBits * w + j
         /\ v = w => (WordBits * v + i < WordBits * w + j <=> i < j)
<1>1. PICK b \in Nat : b = WordBits /\ b > 0
  BY BitSetAssumption
<1>2. i \in 0 .. b - 1 /\ j \in 0 .. b - 1
  BY <1>1 DEF Ones
<1>3. b * v \in Nat /\ b * w \in Nat
  BY <1>1
<1>4. ASSUME v < w
      PROVE  b * v + i < b * w + j
  <2>1. PICK k \in Nat : w = v + k + 1
    BY <1>4
  <2>2. b * w = b * v + b * k + b /\ b * k \in Nat
    BY <1>1, <2>1
  <2>3. QED
    BY <1>1, <1>2, <1>3, <2>2
<1>5. QED
  BY <1>1, <1>2, <1>3, <1>4

(* A place is one index.                                                   *)
LEMMA PlaceIsIndex ==
  ASSUME NEW w \in Nat, NEW j \in Ones
  PROVE  /\ WordBits * w + j \in Nat
         /\ WordOf(WordBits * w + j) = w
         /\ (WordBits * w + j) % WordBits = j
<1>1. PICK x \in Nat : x = WordBits * w + j
  BY PlacesInOrder
<1>2. WordOf(x) \in Nat /\ x % WordBits \in Ones /\ x = WordBits * WordOf(x) + (x % WordBits)
  BY IndexIsPlace
<1>3. PICK v \in Nat, i \in Ones : v = WordOf(x) /\ i = x % WordBits
  BY <1>2
<1>4. WordBits * v + i = WordBits * w + j
  BY <1>1, <1>2, <1>3
<1>5. ~ (v < w) /\ ~ (w < v)
  <2>1. WordBits * v + i \in Nat /\ WordBits * w + j \in Nat
    BY PlacesInOrder
  <2>2. QED
    BY <1>4, <2>1, PlacesInOrder
<1>6. v = w
  BY <1>5
<1>7. i = j
  <2>1. i \in Int /\ j \in Int /\ WordBits * v \in Int
    BY BitSetAssumption DEF Ones
  <2>2. QED
    BY <1>4, <1>6, <2>1
<1>8. QED
  BY <1>1, <1>3, <1>6, <1>7

(* The bits of word w that stand for members of a universe of n.           *)
LiveOf(n, w) == IF w = WordsFor(n) - 1 THEN TailMask(n) ELSE Ones

(* The words are as many as it takes, and the live bits of the last one    *)
(* are those that stand for members of the universe.                       *)
LEMMA WordsForUniverse ==
  ASSUME NEW n \in Nat
  PROVE  /\ WordsFor(n) \in Nat
         /\ WordsFor(n) = 0 <=> n = 0
         /\ TailMask(n) \subseteq Ones
         /\ \A w \in Nat, j \in Ones :
              WordBits * w + j < n <=> w < WordsFor(n) /\ j \in LiveOf(n, w)
<1>1. PICK b \in Nat : b = WordBits /\ b > 0
  BY BitSetAssumption
<1>2. PICK q \in Nat, r \in Ones : q = n \div b /\ r = n % b /\ n = b * q + r
  BY <1>1, IndexIsPlace DEF WordOf
<1>3. r \in 0 .. b - 1 /\ Ones = 0 .. b - 1
  BY <1>1, <1>2 DEF Ones
<1>4. WordsFor(n) = IF r # 0 THEN q + 1 ELSE q
  BY <1>1, <1>2 DEF WordsFor
<1>5. WordsFor(n) \in Nat
  BY <1>2, <1>3, <1>4
<1>6. WordsFor(n) = 0 <=> n = 0
  <2>1. CASE q = 0
    BY <1>1, <1>2, <1>3, <1>4, <2>1
  <2>2. CASE q > 0
    <3>1. b * q > 0
      BY <1>1, <2>2
    <3>2. QED
      BY <1>2, <1>3, <1>4, <2>2, <3>1
  <2>3. QED
    BY <1>2, <2>1, <2>2
<1>7. TailMask(n) = IF r = 0 THEN Ones ELSE 0 .. r - 1
  BY <1>1, <1>2 DEF TailMask
<1>8. TailMask(n) \subseteq Ones
  BY <1>3, <1>7
<1>9. ASSUME NEW w \in Nat, NEW j \in Ones
      PROVE  WordBits * w + j < n <=> w < WordsFor(n) /\ j \in LiveOf(n, w)
  <2>1. j \in Int /\ 0 <= j /\ j < b /\ b * w \in Nat /\ b * q \in Nat
    BY <1>1, <1>3
  <2>2. CASE w < q
    <3>1. b * w + j < n
      <4>1. WordBits * w + j < WordBits * q + r
        BY <2>2, PlacesInOrder
      <4>2. QED
        BY <1>1, <1>2, <4>1
    <3>2. w < WordsFor(n)
      BY <1>2, <1>3, <1>4, <2>2
    <3>3. LiveOf(n, w) = Ones
      BY <1>2, <1>3, <1>4, <1>7, <2>2 DEF LiveOf
    <3>4. QED
      BY <1>1, <3>1, <3>2, <3>3
  <2>3. CASE w = q
    <3>1. b * w + j < n <=> j < r
      BY <1>2, <1>3, <2>1, <2>3
    <3>2. CASE r = 0
      BY <1>1, <1>2, <1>4, <2>1, <2>3, <3>1, <3>2
    <3>3. CASE r # 0
      <4>1. w < WordsFor(n) /\ w = WordsFor(n) - 1
        BY <1>4, <2>3, <3>3
      <4>2. LiveOf(n, w) = 0 .. r - 1
        BY <1>7, <3>3, <4>1 DEF LiveOf
      <4>3. QED
        BY <1>1, <1>3, <2>1, <3>1, <4>1, <4>2, SMTT(30)
    <3>4. QED
      BY <3>2, <3>3
  <2>4. CASE q < w
    <3>1. n < b * w + j
      <4>1. WordBits * q + r < WordBits * w + j
        BY <2>4, PlacesInOrder
      <4>2. QED
        BY <1>1, <1>2, <4>1
    <3>2. ~ (w < WordsFor(n))
      BY <1>2, <1>4, <2>4
    <3>3. QED
      BY <1>1, <2>1, <3>1, <3>2
  <2>5. QED
    BY <1>2, <2>2, <2>3, <2>4
<1>10. QED
  BY <1>5, <1>6, <1>8, <1>9

-----------------------------------------------------------------------------
(* Words as a set of indices.                                              *)

Places(n) == 0 .. WordsFor(n) - 1

(* The words of a universe of n: no bit is set that stands for no index.   *)
ClearWords(n) ==
  {u \in [Places(n) -> SUBSET Ones] : \A w \in Places(n) : u[w] \subseteq LiveOf(n, w)}

Bits(n, u) == {i \in 0 .. n - 1 : i % WordBits \in u[WordOf(i)]}

(* An index of the universe is a live bit of one of its words.             *)
LEMMA IndexIsLive ==
  ASSUME NEW n \in Nat, NEW i \in 0 .. n - 1
  PROVE  /\ i \in Nat /\ WordOf(i) \in Nat /\ WordOf(i) \in Places(n)
         /\ i % WordBits \in Ones /\ i % WordBits \in LiveOf(n, WordOf(i))
         /\ i = WordBits * WordOf(i) + (i % WordBits)
<1>1. i \in Nat /\ i < n
  OBVIOUS
<1>2. PICK w \in Nat, j \in Ones : w = WordOf(i) /\ j = i % WordBits /\ i = WordBits * w + j
  BY <1>1, IndexIsPlace
<1>3. w < WordsFor(n) /\ j \in LiveOf(n, w)
  BY <1>1, <1>2, WordsForUniverse
<1>4. WordsFor(n) \in Nat
  BY WordsForUniverse
<1>5. w \in Places(n)
  BY <1>3, <1>4 DEF Places
<1>6. QED
  BY <1>1, <1>2, <1>3, <1>5

(* A live bit is an index of the universe.                                 *)
LEMMA LiveIsIndex ==
  ASSUME NEW n \in Nat, NEW w \in Places(n), NEW j \in LiveOf(n, w)
  PROVE  /\ w \in Nat /\ j \in Ones
         /\ WordBits * w + j \in 0 .. n - 1
         /\ WordOf(WordBits * w + j) = w
         /\ (WordBits * w + j) % WordBits = j
<1>1. w \in Nat /\ w < WordsFor(n)
  BY WordsForUniverse DEF Places
<1>2. j \in Ones
  BY WordsForUniverse DEF LiveOf
<1>3. WordBits * w + j < n
  BY <1>1, <1>2, WordsForUniverse
<1>4. /\ WordBits * w + j \in Nat
      /\ WordOf(WordBits * w + j) = w
      /\ (WordBits * w + j) % WordBits = j
  BY <1>1, <1>2, PlaceIsIndex
<1>5. QED
  BY <1>1, <1>2, <1>3, <1>4

(* The words of a set, and the set of the words.                           *)
LEMMA BitsArePlaces ==
  ASSUME NEW n \in Nat, NEW u \in ClearWords(n)
  PROVE  /\ u \in [Places(n) -> SUBSET Ones]
         /\ Bits(n, u) \subseteq 0 .. n - 1
         /\ \A i \in 0 .. n - 1 : i \in Bits(n, u) <=> i % WordBits \in u[WordOf(i)]
         /\ \A w \in Places(n) : \A j \in u[w] : WordBits * w + j \in Bits(n, u)
<1>1. u \in [Places(n) -> SUBSET Ones] /\ \A w \in Places(n) : u[w] \subseteq LiveOf(n, w)
  BY DEF ClearWords
<1>2. ASSUME NEW w \in Places(n), NEW j \in u[w]
      PROVE  WordBits * w + j \in Bits(n, u)
  <2>1. j \in LiveOf(n, w)
    BY <1>1
  <2>2. PICK i \in 0 .. n - 1 : i = WordBits * w + j /\ WordOf(i) = w /\ i % WordBits = j
    BY <2>1, LiveIsIndex
  <2>3. i \in Bits(n, u)
    BY <2>2 DEF Bits
  <2>4. QED
    BY <2>2, <2>3
<1>3. Bits(n, u) \subseteq 0 .. n - 1
  BY DEF Bits
<1>4. \A i \in 0 .. n - 1 : i \in Bits(n, u) <=> i % WordBits \in u[WordOf(i)]
  BY DEF Bits
<1>5. QED
  BY <1>1, <1>2, <1>3, <1>4

(* Words that differ are sets that differ.                                 *)
LEMMA SameBitsSameWords ==
  ASSUME NEW n \in Nat, NEW u \in ClearWords(n), NEW v \in ClearWords(n)
  PROVE  /\ (\A w \in Places(n) : u[w] \subseteq v[w]) <=> Bits(n, u) \subseteq Bits(n, v)
         /\ u = v <=> Bits(n, u) = Bits(n, v)
<1>1. ASSUME NEW x \in ClearWords(n), NEW y \in ClearWords(n), Bits(n, x) \subseteq Bits(n, y),
             NEW w \in Places(n)
      PROVE  x[w] \subseteq y[w]
  <2>1. SUFFICES ASSUME NEW j \in x[w]
                 PROVE  j \in y[w]
    OBVIOUS
  <2>2. j \in LiveOf(n, w)
    BY DEF ClearWords
  <2>3. PICK i \in 0 .. n - 1 : i = WordBits * w + j /\ WordOf(i) = w /\ i % WordBits = j
    BY <2>2, LiveIsIndex
  <2>4. i \in Bits(n, x)
    BY <2>3 DEF Bits
  <2>5. i \in Bits(n, y)
    BY <1>1, <2>4
  <2>6. QED
    BY <2>3, <2>5 DEF Bits
<1>2. ASSUME \A w \in Places(n) : u[w] \subseteq v[w]
      PROVE  Bits(n, u) \subseteq Bits(n, v)
  BY <1>2, IndexIsLive DEF Bits
<1>3. ASSUME Bits(n, u) = Bits(n, v)
      PROVE  u = v
  <2>1. \A w \in Places(n) : u[w] = v[w]
    BY <1>1, <1>3
  <2>2. u \in [Places(n) -> SUBSET Ones] /\ v \in [Places(n) -> SUBSET Ones]
    BY DEF ClearWords
  <2>3. QED
    BY <2>1, <2>2
<1>4. QED
  BY <1>1, <1>2, <1>3

(* Words that hold just the indices of S are the words of S.               *)
LEMMA BitsAre ==
  ASSUME NEW n \in Nat, NEW u, NEW S \in SUBSET (0 .. n - 1),
         \A i \in 0 .. n - 1 : i % WordBits \in u[WordOf(i)] <=> i \in S
  PROVE  Bits(n, u) = S
  BY DEF Bits

(* A word of its own for each place makes words of a universe.             *)
LEMMA WordsMade ==
  ASSUME NEW n \in Nat, NEW u \in [Places(n) -> SUBSET Ones],
         \A w \in Places(n) : u[w] \subseteq LiveOf(n, w)
  PROVE  u \in ClearWords(n)
  BY DEF ClearWords

(* One word changed.                                                       *)
LEMMA WordChanged ==
  ASSUME NEW n \in Nat, NEW u \in ClearWords(n), NEW w \in Places(n),
         NEW x \in SUBSET Ones, x \subseteq LiveOf(n, w)
  PROVE  /\ [u EXCEPT ![w] = x] \in ClearWords(n)
         /\ \A k \in Places(n) : [u EXCEPT ![w] = x][k] = IF k = w THEN x ELSE u[k]
<1>1. u \in [Places(n) -> SUBSET Ones] /\ \A k \in Places(n) : u[k] \subseteq LiveOf(n, k)
  BY DEF ClearWords
<1>2. PICK v : v = [u EXCEPT ![w] = x]
  OBVIOUS
<1>3. v \in [Places(n) -> SUBSET Ones] /\ \A k \in Places(n) : v[k] = IF k = w THEN x ELSE u[k]
  BY <1>1, <1>2
<1>4. \A k \in Places(n) : v[k] \subseteq LiveOf(n, k)
  BY <1>1, <1>3
<1>5. v \in ClearWords(n)
  BY <1>3, <1>4, WordsMade
<1>6. QED
  BY <1>2, <1>3, <1>5

At(F, x, y) == [F EXCEPT ![x] = y]

(* One bit changed, in the three ways a call on one index has.             *)
LEMMA OneBitChanged ==
  ASSUME NEW n \in Nat, NEW u \in ClearWords(n), NEW i \in 0 .. n - 1,
         NEW x \in {u[WordOf(i)] \cup BitOf(i), u[WordOf(i)] \cap Complement(BitOf(i)),
                    (u[WordOf(i)] \ BitOf(i)) \cup (BitOf(i) \ u[WordOf(i)])}
  PROVE  /\ At(u, WordOf(i), x) \in ClearWords(n)
         /\ Bits(n, At(u, WordOf(i), x)) \in {Bits(n, u) \cup {i}, Bits(n, u) \ {i}}
<1>1. PICK w \in Places(n), j \in Ones : w = WordOf(i) /\ j = i % WordBits /\ j \in LiveOf(n, w)
  BY IndexIsLive
<1>2. BitOf(i) = {j}
  BY <1>1 DEF BitOf
<1>3. u[w] \subseteq LiveOf(n, w) /\ u[w] \subseteq Ones
  BY DEF ClearWords
<1>4. x \in {u[w] \cup {j}, u[w] \ {j}}
  BY <1>1, <1>2, <1>3 DEF Complement
<1>5. x \in SUBSET Ones /\ x \subseteq LiveOf(n, w)
  BY <1>1, <1>3, <1>4
<1>6. PICK v : v = [u EXCEPT ![w] = x]
  OBVIOUS
<1>7. v \in ClearWords(n) /\ \A k \in Places(n) : v[k] = IF k = w THEN x ELSE u[k]
  <2>1. /\ [u EXCEPT ![w] = x] \in ClearWords(n)
        /\ \A k \in Places(n) : [u EXCEPT ![w] = x][k] = IF k = w THEN x ELSE u[k]
    BY <1>5, WordChanged
  <2>2. QED
    BY <1>6, <2>1
<1>8. ASSUME NEW k \in 0 .. n - 1
      PROVE  /\ WordOf(k) \in Places(n)
             /\ WordOf(k) = w /\ k % WordBits = j <=> k = i
  BY <1>1, IndexIsLive
<1>9. CASE x = u[w] \cup {j}
  <2>1. ASSUME NEW k \in 0 .. n - 1
        PROVE  k % WordBits \in v[WordOf(k)] <=> k \in Bits(n, u) \cup {i}
    <3>1. k % WordBits \in v[WordOf(k)] <=> k % WordBits \in u[WordOf(k)] \/ k = i
      BY <1>7, <1>8, <1>9
    <3>2. k % WordBits \in u[WordOf(k)] <=> k \in Bits(n, u)
      BY BitsArePlaces
    <3>3. QED
      BY <3>1, <3>2
  <2>2. Bits(n, v) = Bits(n, u) \cup {i}
    <3>1. Bits(n, u) \cup {i} \in SUBSET (0 .. n - 1)
      BY DEF Bits
    <3>2. QED
      BY <2>1, <3>1, BitsAre
  <2>3. QED
    BY <1>1, <1>6, <1>7, <2>2 DEF At
<1>10. CASE x = u[w] \ {j}
  <2>1. ASSUME NEW k \in 0 .. n - 1
        PROVE  k % WordBits \in v[WordOf(k)] <=> k \in Bits(n, u) \ {i}
    <3>1. k % WordBits \in v[WordOf(k)] <=> k % WordBits \in u[WordOf(k)] /\ k # i
      BY <1>7, <1>8, <1>10
    <3>2. k % WordBits \in u[WordOf(k)] <=> k \in Bits(n, u)
      BY BitsArePlaces
    <3>3. QED
      BY <3>1, <3>2
  <2>2. Bits(n, v) = Bits(n, u) \ {i}
    <3>1. Bits(n, u) \ {i} \in SUBSET (0 .. n - 1)
      BY DEF Bits
    <3>2. QED
      BY <2>1, <3>1, BitsAre
  <2>3. QED
    BY <1>1, <1>6, <1>7, <2>2 DEF At
<1>11. QED
  BY <1>4, <1>9, <1>10

(* Clearing the tail takes away no index.                                  *)
LEMMA TailCleared ==
  ASSUME NEW n \in Nat, NEW d, d.nbits = n, d.nwords = WordsFor(n),
         NEW u \in [Places(n) -> SUBSET Ones]
  PROVE  /\ ClearTail(d, u) \in ClearWords(n)
         /\ \A i \in 0 .. n - 1 :
              i % WordBits \in ClearTail(d, u)[WordOf(i)] <=> i % WordBits \in u[WordOf(i)]
<1>1. WordsFor(n) \in Nat /\ TailMask(n) \subseteq Ones
  BY WordsForUniverse
<1>2. CASE WordsFor(n) = 0
  <2>1. Places(n) = {}
    BY <1>2 DEF Places
  <2>2. ClearTail(d, u) = u
    BY <1>2 DEF ClearTail
  <2>3. QED
    BY <2>1, <2>2, WordsMade
<1>3. CASE WordsFor(n) # 0
  <2>1. PICK last \in Places(n) : last = WordsFor(n) - 1
    BY <1>1, <1>3 DEF Places
  <2>2. PICK v : v = [u EXCEPT ![last] = u[last] \cap TailMask(n)]
    OBVIOUS
  <2>3. ClearTail(d, u) = v
    BY <1>3, <2>1, <2>2 DEF ClearTail
  <2>4. /\ v \in [Places(n) -> SUBSET Ones]
        /\ \A w \in Places(n) : v[w] = IF w = last THEN u[last] \cap TailMask(n) ELSE u[w]
    BY <1>1, <2>2
  <2>5. ASSUME NEW w \in Places(n)
        PROVE  v[w] = u[w] \cap LiveOf(n, w)
    <3>1. u[w] \subseteq Ones
      OBVIOUS
    <3>2. QED
      BY <2>1, <2>4, <3>1 DEF LiveOf
  <2>6. v \in ClearWords(n)
    <3>1. \A w \in Places(n) : v[w] \subseteq LiveOf(n, w)
      BY <2>5
    <3>2. QED
      BY <2>4, <3>1, WordsMade
  <2>7. \A i \in 0 .. n - 1 : i % WordBits \in v[WordOf(i)] <=> i % WordBits \in u[WordOf(i)]
    BY <2>5, IndexIsLive
  <2>8. QED
    BY <2>3, <2>6, <2>7
<1>4. QED
  BY <1>2, <1>3

(* All bits set, cleared and flipped.                                      *)
LEMMA AllBitsChanged ==
  ASSUME NEW n \in Nat, NEW d, d.nbits = n, d.nwords = WordsFor(n), NEW u \in ClearWords(n)
  PROVE  /\ LET v == ClearTail(d, [w \in DOMAIN u |-> Ones])
            IN  v \in ClearWords(n) /\ Bits(n, v) = 0 .. n - 1
         /\ LET v == [w \in DOMAIN u |-> {}]
            IN  v \in ClearWords(n) /\ Bits(n, v) = {}
         /\ LET v == ClearTail(d, [w \in DOMAIN u |-> Complement(u[w])])
            IN  v \in ClearWords(n) /\ Bits(n, v) = (0 .. n - 1) \ Bits(n, u)
<1>1. u \in [Places(n) -> SUBSET Ones]
  BY DEF ClearWords
<1>2. PICK s : s = [w \in DOMAIN u |-> Ones]
  OBVIOUS
<1>3. PICK c : c = [w \in DOMAIN u |-> {}]
  OBVIOUS
<1>4. PICK f : f = [w \in DOMAIN u |-> Complement(u[w])]
  OBVIOUS
<1>5. /\ s \in [Places(n) -> SUBSET Ones] /\ \A w \in Places(n) : s[w] = Ones
      /\ c \in [Places(n) -> SUBSET Ones] /\ \A w \in Places(n) : c[w] = {}
      /\ f \in [Places(n) -> SUBSET Ones] /\ \A w \in Places(n) : f[w] = Ones \ u[w]
  BY <1>1, <1>2, <1>3, <1>4 DEF Complement
<1>6. ClearTail(d, s) \in ClearWords(n) /\ Bits(n, ClearTail(d, s)) = 0 .. n - 1
  <2>1. \A i \in 0 .. n - 1 : i % WordBits \in s[WordOf(i)]
    BY <1>5, IndexIsLive
  <2>2. /\ ClearTail(d, s) \in ClearWords(n)
        /\ \A i \in 0 .. n - 1 : i % WordBits \in ClearTail(d, s)[WordOf(i)] <=> i \in 0 .. n - 1
    BY <1>5, <2>1, TailCleared
  <2>3. QED
    BY <2>2, BitsAre
<1>7. c \in ClearWords(n) /\ Bits(n, c) = {}
  <2>1. c \in ClearWords(n)
    BY <1>5, WordsMade
  <2>2. \A i \in 0 .. n - 1 : i % WordBits \in c[WordOf(i)] <=> i \in {}
    BY <1>5, IndexIsLive
  <2>3. QED
    BY <2>1, <2>2 DEF Bits
<1>8. ClearTail(d, f) \in ClearWords(n) /\ Bits(n, ClearTail(d, f)) = (0 .. n - 1) \ Bits(n, u)
  <2>1. \A i \in 0 .. n - 1 : i % WordBits \in f[WordOf(i)] <=> i \in (0 .. n - 1) \ Bits(n, u)
    BY <1>5, IndexIsLive, BitsArePlaces
  <2>2. /\ ClearTail(d, f) \in ClearWords(n)
        /\ \A i \in 0 .. n - 1 :
             i % WordBits \in ClearTail(d, f)[WordOf(i)] <=> i \in (0 .. n - 1) \ Bits(n, u)
    BY <1>5, <2>1, TailCleared
  <2>3. QED
    BY <2>2, BitsAre
<1>9. QED
  BY <1>2, <1>3, <1>4, <1>6, <1>7, <1>8

(* Two sets of one universe combined, word by word.                        *)
Joined(u, v) == [w \in DOMAIN u |-> u[w] \cup v[w]]
Met(u, v)    == [w \in DOMAIN u |-> u[w] \cap v[w]]
Less(u, v)   == [w \in DOMAIN u |-> u[w] \cap Complement(v[w])]
Parted(u, v) == [w \in DOMAIN u |-> (u[w] \ v[w]) \cup (v[w] \ u[w])]

(* The union, the intersection and the two differences, bit by bit.        *)
LEMMA Combined ==
  ASSUME NEW n \in Nat, NEW u \in ClearWords(n), NEW v \in ClearWords(n)
  PROVE  /\ Joined(u, v) \in ClearWords(n)
         /\ Met(u, v) \in ClearWords(n)
         /\ Less(u, v) \in ClearWords(n)
         /\ Parted(u, v) \in ClearWords(n)
         /\ Bits(n, Joined(u, v)) = Bits(n, u) \cup Bits(n, v)
         /\ Bits(n, Met(u, v)) = Bits(n, u) \cap Bits(n, v)
         /\ Bits(n, Less(u, v)) = Bits(n, u) \ Bits(n, v)
         /\ Bits(n, Parted(u, v)) = (Bits(n, u) \ Bits(n, v)) \cup (Bits(n, v) \ Bits(n, u))
<1>1. /\ u \in [Places(n) -> SUBSET Ones] /\ \A w \in Places(n) : u[w] \subseteq LiveOf(n, w)
      /\ v \in [Places(n) -> SUBSET Ones] /\ \A w \in Places(n) : v[w] \subseteq LiveOf(n, w)
  BY DEF ClearWords
<1>2. \A i \in 0 .. n - 1 :
        /\ WordOf(i) \in Places(n) /\ i % WordBits \in Ones
        /\ i \in Bits(n, u) <=> i % WordBits \in u[WordOf(i)]
        /\ i \in Bits(n, v) <=> i % WordBits \in v[WordOf(i)]
  BY IndexIsLive, BitsArePlaces
<1>3. Bits(n, u) \subseteq 0 .. n - 1 /\ Bits(n, v) \subseteq 0 .. n - 1
  BY DEF Bits
<1>4. ASSUME NEW x, x = Joined(u, v)
      PROVE  x \in ClearWords(n) /\ Bits(n, x) = Bits(n, u) \cup Bits(n, v)
  <2>1. x \in [Places(n) -> SUBSET Ones] /\ \A w \in Places(n) : x[w] = u[w] \cup v[w]
    BY <1>1, <1>4 DEF Joined
  <2>2. x \in ClearWords(n)
    BY <1>1, <2>1, WordsMade
  <2>3. \A i \in 0 .. n - 1 : i % WordBits \in x[WordOf(i)] <=> i \in Bits(n, u) \cup Bits(n, v)
    BY <1>2, <2>1
  <2>4. QED
    BY <1>3, <2>2, <2>3, BitsAre
<1>5. ASSUME NEW x, x = Met(u, v)
      PROVE  x \in ClearWords(n) /\ Bits(n, x) = Bits(n, u) \cap Bits(n, v)
  <2>1. x \in [Places(n) -> SUBSET Ones] /\ \A w \in Places(n) : x[w] = u[w] \cap v[w]
    BY <1>1, <1>5 DEF Met
  <2>2. x \in ClearWords(n)
    BY <1>1, <2>1, WordsMade
  <2>3. \A i \in 0 .. n - 1 : i % WordBits \in x[WordOf(i)] <=> i \in Bits(n, u) \cap Bits(n, v)
    BY <1>2, <2>1
  <2>4. QED
    BY <1>3, <2>2, <2>3, BitsAre
<1>6. ASSUME NEW x, x = Less(u, v)
      PROVE  x \in ClearWords(n) /\ Bits(n, x) = Bits(n, u) \ Bits(n, v)
  <2>1. x \in [Places(n) -> SUBSET Ones] /\ \A w \in Places(n) : x[w] = u[w] \ v[w]
    BY <1>1, <1>6 DEF Complement, Less
  <2>2. x \in ClearWords(n)
    BY <1>1, <2>1, WordsMade
  <2>3. \A i \in 0 .. n - 1 : i % WordBits \in x[WordOf(i)] <=> i \in Bits(n, u) \ Bits(n, v)
    BY <1>2, <2>1
  <2>4. QED
    BY <1>3, <2>2, <2>3, BitsAre
<1>7. ASSUME NEW x, x = Parted(u, v)
      PROVE  /\ x \in ClearWords(n)
             /\ Bits(n, x) = (Bits(n, u) \ Bits(n, v)) \cup (Bits(n, v) \ Bits(n, u))
  <2>1. /\ x \in [Places(n) -> SUBSET Ones]
        /\ \A w \in Places(n) : x[w] = (u[w] \ v[w]) \cup (v[w] \ u[w])
    BY <1>1, <1>7 DEF Parted
  <2>2. x \in ClearWords(n)
    BY <1>1, <2>1, WordsMade
  <2>3. \A i \in 0 .. n - 1 :
          i % WordBits \in x[WordOf(i)] <=> i \in (Bits(n, u) \ Bits(n, v)) \cup (Bits(n, v) \ Bits(n, u))
    BY <1>2, <2>1
  <2>4. (Bits(n, u) \ Bits(n, v)) \cup (Bits(n, v) \ Bits(n, u)) \in SUBSET (0 .. n - 1)
    BY <1>3
  <2>5. QED
    BY <2>2, <2>3, <2>4, BitsAre
<1>8. QED
  BY <1>4, <1>5, <1>6, <1>7

-----------------------------------------------------------------------------
(* Questions about words as questions about a set.                         *)

(* any, all and, of two sets of one universe, is_subset and intersects.    *)
LEMMA WordsAnswer ==
  ASSUME NEW n \in Nat, NEW u \in ClearWords(n), NEW v \in ClearWords(n)
  PROVE  /\ (\E w \in Places(n) : u[w] # {}) <=> Bits(n, u) # {}
         /\ (\A w \in Places(n) : u[w] = LiveOf(n, w)) <=> Bits(n, u) = 0 .. n - 1
         /\ (\A w \in Places(n) : u[w] \cap Complement(v[w]) = {}) <=> Bits(n, u) \subseteq Bits(n, v)
         /\ (\E w \in Places(n) : u[w] \cap v[w] # {}) <=> Bits(n, u) \cap Bits(n, v) # {}
<1>1. /\ u \in [Places(n) -> SUBSET Ones] /\ \A w \in Places(n) : u[w] \subseteq LiveOf(n, w)
      /\ v \in [Places(n) -> SUBSET Ones] /\ \A w \in Places(n) : v[w] \subseteq LiveOf(n, w)
  BY DEF ClearWords
<1>2. \A i \in 0 .. n - 1 :
        /\ WordOf(i) \in Places(n) /\ i % WordBits \in Ones
        /\ i \in Bits(n, u) <=> i % WordBits \in u[WordOf(i)]
        /\ i \in Bits(n, v) <=> i % WordBits \in v[WordOf(i)]
  BY IndexIsLive, BitsArePlaces
<1>3. Bits(n, u) \subseteq 0 .. n - 1 /\ Bits(n, v) \subseteq 0 .. n - 1
  BY DEF Bits
<1>4. (\E w \in Places(n) : u[w] # {}) <=> Bits(n, u) # {}
  <2>1. ASSUME NEW w \in Places(n), u[w] # {}
        PROVE  Bits(n, u) # {}
    <3>1. PICK j \in u[w] : TRUE
      BY <2>1
    <3>2. WordBits * w + j \in Bits(n, u)
      BY BitsArePlaces
    <3>3. QED
      BY <3>2
  <2>2. QED
    BY <1>2, <1>3, <2>1
<1>5. (\A w \in Places(n) : u[w] = LiveOf(n, w)) <=> Bits(n, u) = 0 .. n - 1
  <2>1. PICK full : full = [w \in Places(n) |-> LiveOf(n, w)]
    OBVIOUS
  <2>2. \A w \in Places(n) : LiveOf(n, w) \in SUBSET Ones
    BY WordsForUniverse DEF LiveOf
  <2>3. full \in [Places(n) -> SUBSET Ones] /\ \A w \in Places(n) : full[w] = LiveOf(n, w)
    BY <2>1, <2>2
  <2>4. full \in ClearWords(n)
    BY <2>3, WordsMade
  <2>5. Bits(n, full) = 0 .. n - 1
    BY <2>3, IndexIsLive DEF Bits
  <2>6. u = full <=> Bits(n, u) = Bits(n, full)
    BY <2>4, SameBitsSameWords
  <2>7. u = full <=> \A w \in Places(n) : u[w] = LiveOf(n, w)
    BY <1>1, <2>3
  <2>8. QED
    BY <2>5, <2>6, <2>7
<1>6. (\A w \in Places(n) : u[w] \cap Complement(v[w]) = {}) <=> Bits(n, u) \subseteq Bits(n, v)
  <2>1. \A w \in Places(n) : u[w] \cap Complement(v[w]) = {} <=> u[w] \subseteq v[w]
    BY <1>1 DEF Complement
  <2>2. QED
    BY <2>1, SameBitsSameWords
<1>7. (\E w \in Places(n) : u[w] \cap v[w] # {}) <=> Bits(n, u) \cap Bits(n, v) # {}
  <2>1. ASSUME NEW w \in Places(n), u[w] \cap v[w] # {}
        PROVE  Bits(n, u) \cap Bits(n, v) # {}
    <3>1. PICK j \in u[w] : j \in v[w]
      BY <2>1
    <3>2. WordBits * w + j \in Bits(n, u) /\ WordBits * w + j \in Bits(n, v)
      BY <3>1, BitsArePlaces
    <3>3. QED
      BY <3>2
  <2>2. ASSUME NEW i \in Bits(n, u), i \in Bits(n, v)
        PROVE  \E w \in Places(n) : u[w] \cap v[w] # {}
    BY <1>2, <1>3, <2>2
  <2>3. QED
    BY <2>1, <2>2
<1>8. QED
  BY <1>4, <1>5, <1>6, <1>7

-----------------------------------------------------------------------------
(* count: the sum over the words is the number of indices.                 *)

(* The indices that are in the first w words.                              *)
Before(n, u, w) == {i \in Bits(n, u) : WordOf(i) < w}

(* A word has as many bits set as the set has indices in it.               *)
LEMMA WordCounts ==
  ASSUME NEW n \in Nat, NEW u \in ClearWords(n), NEW w \in Places(n)
  PROVE  /\ IsFiniteSet(Before(n, u, w))
         /\ Cardinality(Before(n, u, w + 1)) = Cardinality(Before(n, u, w)) + Cardinality(u[w])
<1>1. w \in Nat /\ u[w] \subseteq Ones /\ u[w] \subseteq LiveOf(n, w)
  <2>1. w \in Nat
    BY WordsForUniverse DEF Places
  <2>2. QED
    BY <2>1 DEF ClearWords
<1>2. PICK T : T = {i \in Bits(n, u) : WordOf(i) = w}
  OBVIOUS
<1>3. IsFiniteSet(Bits(n, u))
  <2>1. IsFiniteSet(0 .. n - 1)
    BY FS_Interval
  <2>2. QED
    BY <2>1, FS_Subset DEF Bits
<1>4. IsFiniteSet(Before(n, u, w)) /\ IsFiniteSet(T)
  BY <1>2, <1>3, FS_Subset DEF Before
<1>5. Before(n, u, w + 1) = Before(n, u, w) \cup T /\ Before(n, u, w) \cap T = {}
  <2>1. \A i \in Bits(n, u) : WordOf(i) \in Nat
    BY IndexIsLive DEF Bits
  <2>2. \A i \in Bits(n, u) : WordOf(i) < w + 1 <=> WordOf(i) < w \/ WordOf(i) = w
    BY <1>1, <2>1
  <2>3. \A i \in Bits(n, u) : ~ (WordOf(i) < w /\ WordOf(i) = w)
    BY <1>1, <2>1
  <2>4. QED
    BY <1>2, <2>2, <2>3 DEF Before
<1>6. Cardinality(T) = Cardinality(u[w])
  <2>1. IsFiniteSet(u[w])
    <3>1. IsFiniteSet(Ones)
      BY FS_Interval, BitSetAssumption DEF Ones
    <3>2. QED
      BY <1>1, <3>1, FS_Subset
  <2>2. PICK f : f = [j \in u[w] |-> WordBits * w + j]
    OBVIOUS
  <2>3. ASSUME NEW j \in u[w]
        PROVE  f[j] \in T /\ f[j] % WordBits = j
    <3>1. f[j] = WordBits * w + j
      BY <2>2
    <3>2. WordBits * w + j \in Bits(n, u)
      BY BitsArePlaces
    <3>3. WordOf(WordBits * w + j) = w /\ (WordBits * w + j) % WordBits = j
      BY <1>1, LiveIsIndex
    <3>4. QED
      BY <1>2, <3>1, <3>2, <3>3
  <2>4. ASSUME NEW i \in T
        PROVE  i % WordBits \in u[w] /\ f[i % WordBits] = i
    <3>1. i \in 0 .. n - 1 /\ i % WordBits \in u[w] /\ WordOf(i) = w
      BY <1>2 DEF Bits
    <3>2. i = WordBits * w + (i % WordBits)
      BY <3>1, IndexIsLive
    <3>3. QED
      BY <2>2, <3>1, <3>2
  <2>5. f \in [u[w] -> T]
    BY <2>2, <2>3
  <2>6. f \in Bijection(u[w], T)
    <3>1. \A i, j \in u[w] : f[i] = f[j] => i = j
      BY <2>3
    <3>2. \A i \in T : \E j \in u[w] : f[j] = i
      BY <2>4
    <3>3. QED
      BY <2>5, <3>1, <3>2 DEF Bijection, Injection, Surjection, IsInjective
  <2>7. QED
    BY <2>1, <2>6, FS_Bijection DEF ExistsBijection
<1>7. Cardinality({}) = 0
  BY FS_EmptySet
<1>8. Cardinality(Before(n, u, w)) \in Nat /\ Cardinality(T) \in Nat
  BY <1>4, FS_CardinalityType
<1>9. Cardinality(Before(n, u, w) \cup T) = Cardinality(Before(n, u, w)) + Cardinality(T) - 0
  BY <1>4, <1>5, <1>7, FS_Union
<1>10. Cardinality(Before(n, u, w + 1)) = Cardinality(Before(n, u, w)) + Cardinality(T)
  <2>1. Cardinality(Before(n, u, w + 1)) = Cardinality(Before(n, u, w) \cup T)
    BY <1>5
  <2>2. QED
    BY <1>8, <1>9, <2>1
<1>11. QED
  BY <1>4, <1>6, <1>10

(* The loop of count adds up to the number of members.                     *)
LEMMA CountIsCardinality ==
  ASSUME NEW n \in Nat, NEW u \in ClearWords(n), NEW d, NEW m,
         d.nbits = n, d.nwords = WordsFor(n), WordsOf(d, m) = u
  PROVE  Count(d, m) = Cardinality(Bits(n, u))
<1>1. PICK N \in Nat : N = WordsFor(n) /\ Places(n) = 0 .. N - 1
  BY WordsForUniverse DEF Places
<1>2. \A w \in 0 .. N - 1 :
        Cardinality(Before(n, u, w + 1)) = Cardinality(Before(n, u, w)) + Cardinality(u[w])
  BY <1>1, WordCounts, ZenonT(80)
<1>3. Before(n, u, 0) = {} /\ Before(n, u, N) = Bits(n, u)
  <2>1. \A i \in Bits(n, u) : WordOf(i) \in 0 .. N - 1
    BY <1>1, IndexIsLive DEF Bits
  <2>2. QED
    BY <2>1 DEF Before
<1>4. Cardinality(Before(n, u, 0)) = 0
  BY <1>3, FS_EmptySet
<1>5. PICK c : c = [w \in 0 .. N |-> Cardinality(Before(n, u, w))]
  OBVIOUS
<1>6. c = [w \in 0 .. N |-> IF w = 0 THEN 0 ELSE c[w - 1] + Cardinality(u[w - 1])]
  <2>1. ASSUME NEW w \in 0 .. N
        PROVE  c[w] = IF w = 0 THEN 0 ELSE c[w - 1] + Cardinality(u[w - 1])
    <3>1. CASE w = 0
      BY <1>4, <1>5, <3>1
    <3>2. CASE w # 0
      <4>1. PICK v \in 0 .. N - 1 : v = w - 1
        BY <3>2
      <4>2. Cardinality(Before(n, u, v + 1)) = Cardinality(Before(n, u, v)) + Cardinality(u[v])
        BY <1>2
      <4>3. v + 1 = w /\ v \in 0 .. N
        BY <4>1
      <4>4. c[w] = Cardinality(Before(n, u, w)) /\ c[v] = Cardinality(Before(n, u, v))
        BY <1>5, <4>3
      <4>5. QED
        BY <3>2, <4>1, <4>2, <4>3, <4>4
    <3>3. QED
      BY <3>1, <3>2
  <2>2. c = [w \in 0 .. N |-> c[w]]
    BY <1>5
  <2>3. QED
    BY <2>1, <2>2
<1>7. PICK f : f = CHOOSE g : g = [w \in 0 .. N |-> IF w = 0 THEN 0 ELSE g[w - 1] + Cardinality(u[w - 1])]
  OBVIOUS
<1>8. f = [w \in 0 .. N |-> IF w = 0 THEN 0 ELSE f[w - 1] + Cardinality(u[w - 1])]
  BY <1>6, <1>7
<1>9. Count(d, m) = f[N]
  BY <1>1, <1>7 DEF Count
<1>10. PICK X : X = {w \in Nat : w <= N => f[w] = Cardinality(Before(n, u, w))}
  OBVIOUS
<1>11. X = Nat
  <2>1. 0 \in X
    BY <1>4, <1>8, <1>10
  <2>2. ASSUME NEW w \in X
        PROVE  w + 1 \in X
    <3>1. w \in Nat /\ (w <= N => f[w] = Cardinality(Before(n, u, w)))
      BY <1>10
    <3>2. SUFFICES ASSUME w + 1 <= N
                   PROVE  f[w + 1] = Cardinality(Before(n, u, w + 1))
      BY <1>10, <3>1
    <3>3. w \in 0 .. N - 1 /\ w + 1 \in 0 .. N /\ w + 1 # 0 /\ (w + 1) - 1 = w
      BY <3>1, <3>2
    <3>4. f[w + 1] = f[w] + Cardinality(u[w])
      BY <1>8, <3>3
    <3>5. QED
      BY <1>2, <3>1, <3>2, <3>3, <3>4
  <2>3. X \in SUBSET Nat
    BY <1>10
  <2>4. QED
    BY <2>1, <2>2, <2>3, Induction
<1>12. f[N] = Cardinality(Before(n, u, N))
  BY <1>10, <1>11
<1>13. QED
  BY <1>3, <1>9, <1>12

-----------------------------------------------------------------------------
(* The scans of find_next and find_next_clear.                             *)

(* The loop over words stops at the first one with a bit set, or at the    *)
(* end.                                                                    *)
LEMMA WordFoundIsFirst ==
  ASSUME NEW d, NEW of, d.nwords \in Nat, NEW w \in 0 .. d.nwords
  PROVE  /\ WordFound(d, of, w) \in w .. d.nwords
         /\ WordFound(d, of, w) = d.nwords \/ of[WordFound(d, of, w)] # {}
         /\ \A j \in w .. WordFound(d, of, w) - 1 : of[j] = {}
<1>1. PICK N \in Nat : N = d.nwords /\ w \in Nat /\ w <= N
  OBVIOUS
<1>2. PICK Stop : Stop = {k \in w .. N : k = N \/ of[k] # {}}
  OBVIOUS
<1>3. ASSUME NEW k \in w .. N
      PROVE  \E j \in Stop : j >= k /\ \A i \in Stop : i >= k => j <= i
  <2>1. PICK S : S = {j \in Stop : j >= k}
    OBVIOUS
  <2>2. N \in S /\ S \in SUBSET Nat
    BY <1>1, <1>2, <2>1
  <2>3. PICK j \in S : \A i \in S : j <= i
    BY <2>2, LeastNatural
  <2>4. QED
    BY <2>1, <2>3
<1>4. PICK g : g = [k \in w .. N |-> CHOOSE j \in Stop : j >= k /\ \A i \in Stop : i >= k => j <= i]
  OBVIOUS
<1>5. ASSUME NEW k \in w .. N
      PROVE  g[k] \in Stop /\ g[k] >= k /\ \A i \in Stop : i >= k => g[k] <= i
  BY <1>3, <1>4
<1>6. g = [k \in w .. N |-> IF k = N \/ of[k] # {} THEN k ELSE g[k + 1]]
  <2>1. ASSUME NEW k \in w .. N
        PROVE  g[k] = IF k = N \/ of[k] # {} THEN k ELSE g[k + 1]
    <3>1. g[k] \in w .. N /\ k \in Nat
      BY <1>1, <1>2, <1>5
    <3>2. CASE k = N \/ of[k] # {}
      <4>1. k \in Stop
        BY <1>2, <3>2
      <4>2. g[k] <= k /\ g[k] >= k
        BY <1>5, <3>1, <4>1
      <4>3. QED
        BY <3>1, <3>2, <4>2
    <3>3. CASE ~ (k = N \/ of[k] # {})
      <4>1. k + 1 \in w .. N /\ k \notin Stop
        BY <1>1, <1>2, <3>3
      <4>2. g[k + 1] \in Stop /\ g[k + 1] >= k + 1 /\ \A i \in Stop : i >= k + 1 => g[k + 1] <= i
        BY <1>5, <4>1
      <4>3. g[k] >= k + 1 /\ g[k + 1] \in w .. N
        BY <1>2, <1>5, <3>1, <4>1, <4>2
      <4>4. g[k] >= g[k + 1]
        BY <1>5, <4>2, <4>3
      <4>5. g[k] <= g[k + 1]
        BY <1>5, <3>1, <4>2, <4>3
      <4>6. QED
        BY <3>1, <3>3, <4>3, <4>4, <4>5
    <3>4. QED
      BY <3>2, <3>3
  <2>2. g = [k \in w .. N |-> g[k]]
    BY <1>4
  <2>3. QED
    BY <2>1, <2>2
<1>7. PICK f : f = CHOOSE h : h = [k \in w .. N |-> IF k = N \/ of[k] # {} THEN k ELSE h[k + 1]]
  OBVIOUS
<1>8. f = [k \in w .. N |-> IF k = N \/ of[k] # {} THEN k ELSE f[k + 1]]
  BY <1>6, <1>7, ZenonT(40)
<1>9. WordFound(d, of, w) = f[w]
  BY <1>1, <1>7 DEF WordFound
<1>10. PICK t \in w .. N : t = g[w] /\ t \in Stop /\ \A i \in Stop : t <= i
  <2>1. w \in w .. N
    BY <1>1
  <2>2. \A i \in Stop : i >= w
    BY <1>2
  <2>3. QED
    BY <1>2, <1>5, <2>1, <2>2
<1>11. \A j \in w .. t - 1 : j \in w .. N /\ j # N /\ of[j] = {}
  <2>1. SUFFICES ASSUME NEW j \in w .. t - 1
                 PROVE  j \in w .. N /\ j # N /\ of[j] = {}
    OBVIOUS
  <2>2. j \in w .. N /\ j < t /\ j # N
    BY <1>1
  <2>3. j \notin Stop
    BY <1>10, <2>2
  <2>4. QED
    BY <1>2, <2>2, <2>3
<1>12. PICK X : X = {e \in Nat : e <= t - w => f[t - e] = t}
  OBVIOUS
<1>13. X = Nat
  <2>1. 0 \in X
    <3>1. f[t] = t
      BY <1>2, <1>8, <1>10
    <3>2. QED
      BY <1>1, <1>12, <3>1
  <2>2. ASSUME NEW e \in X
        PROVE  e + 1 \in X
    <3>1. e \in Nat /\ (e <= t - w => f[t - e] = t)
      BY <1>12
    <3>2. SUFFICES ASSUME e + 1 <= t - w
                   PROVE  f[t - (e + 1)] = t
      BY <1>12, <3>1
    <3>3. PICK k \in w .. t - 1 : k = t - (e + 1) /\ k + 1 = t - e
      BY <1>1, <3>1, <3>2
    <3>4. f[k] = f[k + 1]
      BY <1>8, <1>11, <3>3
    <3>5. f[k + 1] = t
      BY <1>1, <3>1, <3>2, <3>3
    <3>6. QED
      BY <3>3, <3>4, <3>5
  <2>3. X \in SUBSET Nat
    BY <1>12
  <2>4. QED
    BY <2>1, <2>2, <2>3, Induction
<1>14. f[w] = t
  <2>1. t - w \in Nat /\ t - (t - w) = w
    BY <1>1
  <2>2. t - w \in X
    BY <1>13, <2>1
  <2>3. QED
    BY <1>12, <2>1, <2>2
<1>15. t = d.nwords \/ of[t] # {}
  BY <1>1, <1>2, <1>10
<1>16. QED
  BY <1>1, <1>9, <1>11, <1>14, <1>15

(* The indices the words v have bits set for, those beyond the universe    *)
(* that bits of the last word would stand for included.                    *)
Indices(n, v) == {i \in Nat : WordOf(i) \in Places(n) /\ i % WordBits \in v[WordOf(i)]}

(* The least bit of a word that has one.                                   *)
LEMMA LeastBitIsLeast ==
  ASSUME NEW word \in SUBSET Ones, word # {}
  PROVE  LeastBit(word) \in word /\ \A j \in word : LeastBit(word) <= j
<1>1. word \in SUBSET Nat
  BY BitSetAssumption DEF Ones
<1>2. \E i \in word : \A j \in word : i <= j
  BY <1>1, LeastNatural
<1>3. QED
  BY <1>2 DEF LeastBit

(* A scan from an index: the first word, masked, with a bit set, and the   *)
(* least bit of it.                                                        *)
LEMMA ScanFindsLeast ==
  ASSUME NEW n \in Nat, NEW v \in [Places(n) -> SUBSET Ones], NEW from \in 0 .. n - 1,
         NEW d, d.nwords = WordsFor(n),
         NEW of, of = Masked(v, from), NEW k, k = WordFound(d, of, WordOf(from))
  PROVE  /\ k = WordsFor(n) => \A i \in Indices(n, v) : i < from
         /\ k # WordsFor(n) =>
              /\ IdxOfFirstOne(k, of[k]) \in Indices(n, v)
              /\ IdxOfFirstOne(k, of[k]) >= from
              /\ \A i \in Indices(n, v) : i >= from => IdxOfFirstOne(k, of[k]) <= i
<1>1. PICK N \in Nat : N = WordsFor(n) /\ Places(n) = 0 .. N - 1
  BY WordsForUniverse DEF Places
<1>2. PICK w \in Places(n), b \in Ones : w = WordOf(from) /\ b = from % WordBits
  BY IndexIsLive
<1>3. from \in Nat /\ from = WordBits * w + b
  BY <1>2, IndexIsLive
<1>4. PICK x : x = {j \in v[w] : b <= j}
  OBVIOUS
<1>5. WordFrom(v[w], from) = x
  <2>1. v[w] \subseteq 0 .. WordBits - 1 /\ WordBits \in Nat /\ b \in Nat
    BY BitSetAssumption DEF Ones
  <2>2. QED
    BY <1>2, <1>4, <2>1 DEF WordFrom
<1>6. of = [v EXCEPT ![w] = x]
  BY <1>2, <1>5 DEF Masked
<1>7. x \in SUBSET Ones
  BY <1>4
<1>8. of \in [Places(n) -> SUBSET Ones] /\ of[w] = x /\ \A j \in Places(n) : j # w => of[j] = v[j]
  BY <1>6, <1>7
<1>9. /\ k \in w .. N /\ k \in Nat /\ w \in Nat
      /\ k = N \/ of[k] # {}
      /\ \A j \in w .. k - 1 : of[j] = {}
  <2>1. w \in 0 .. d.nwords /\ d.nwords \in Nat
    BY <1>1
  <2>2. /\ WordFound(d, of, w) \in w .. d.nwords
        /\ WordFound(d, of, w) = d.nwords \/ of[WordFound(d, of, w)] # {}
        /\ \A j \in w .. WordFound(d, of, w) - 1 : of[j] = {}
    BY <2>1, WordFoundIsFirst
  <2>3. WordFound(d, of, w) = k
    BY <1>2
  <2>4. QED
    BY <1>1, <2>1, <2>2, <2>3
<1>10. ASSUME NEW i \in Indices(n, v), i >= from
       PROVE  /\ WordOf(i) \in Places(n) /\ WordOf(i) \in Nat /\ i % WordBits \in Ones
              /\ i = WordBits * WordOf(i) + (i % WordBits)
              /\ i % WordBits \in of[WordOf(i)]
              /\ WordOf(i) >= k
  <2>1. PICK p \in Nat, j \in Ones : p = WordOf(i) /\ j = i % WordBits /\ i = WordBits * p + j
    BY IndexIsPlace DEF Indices
  <2>2. p \in Places(n) /\ j \in v[p] /\ i \in Nat
    BY <2>1 DEF Indices
  <2>3. p >= w
    <3>1. CASE p < w
      <4>1. WordBits * p + j < WordBits * w + b
        BY <1>9, <3>1, PlacesInOrder
      <4>2. QED
        BY <1>3, <1>10, <2>1, <2>2, <4>1
    <3>2. QED
      BY <1>9, <3>1
  <2>4. j \in of[p]
    <3>1. CASE p = w
      <4>1. ~ (j < b)
        <5>1. CASE j < b
          <6>1. WordBits * p + j < WordBits * w + b
            BY <1>9, <3>1, <5>1, PlacesInOrder
          <6>2. QED
            BY <1>3, <1>10, <2>1, <2>2, <6>1
        <5>2. QED
          BY <5>1
      <4>2. b <= j
        BY <4>1, BitSetAssumption DEF Ones
      <4>3. QED
        BY <1>4, <1>8, <2>2, <3>1, <4>2
    <3>2. CASE p # w
      BY <1>8, <2>2, <3>2
    <3>3. QED
      BY <3>1, <3>2
  <2>5. p >= k
    <3>1. CASE p < k
      <4>1. p \in w .. k - 1
        BY <1>9, <2>3, <3>1
      <4>2. QED
        BY <1>9, <2>4, <4>1
    <3>2. QED
      BY <1>9, <3>1
  <2>6. QED
    BY <2>1, <2>2, <2>4, <2>5
<1>11. CASE k = N
  <2>1. ASSUME NEW i \in Indices(n, v)
        PROVE  i < from
    <3>1. i \in Nat
      BY DEF Indices
    <3>2. CASE i >= from
      <4>1. WordOf(i) \in 0 .. N - 1 /\ WordOf(i) >= N
        BY <1>1, <1>10, <1>11, <3>2
      <4>2. QED
        BY <4>1
    <3>3. QED
      BY <1>3, <3>1, <3>2
  <2>2. QED
    BY <1>1, <1>11, <2>1
<1>12. CASE k # N
  <2>1. k \in Places(n) /\ of[k] \in SUBSET Ones /\ of[k] # {}
    BY <1>1, <1>8, <1>9, <1>12
  <2>2. PICK l \in Ones : l = LeastBit(of[k]) /\ l \in of[k] /\ \A j \in of[k] : l <= j
    BY <2>1, LeastBitIsLeast
  <2>3. PICK i \in Nat : i = WordBits * k + l /\ WordOf(i) = k /\ i % WordBits = l
    BY <1>9, PlaceIsIndex
  <2>4. IdxOfFirstOne(k, of[k]) = i
    <3>1. k * WordBits = WordBits * k
      BY <1>9, BitSetAssumption
    <3>2. QED
      BY <2>2, <2>3, <3>1 DEF IdxOfFirstOne
  <2>5. l \in v[k] /\ (k = w => b <= l)
    BY <1>4, <1>8, <2>1, <2>2
  <2>6. i \in Indices(n, v)
    BY <2>1, <2>3, <2>5 DEF Indices
  <2>7. i >= from
    <3>1. CASE k = w
      <4>1. b <= l /\ b \in Int /\ l \in Int /\ WordBits * w \in Int
        BY <1>9, <2>5, <3>1, BitSetAssumption DEF Ones
      <4>2. QED
        BY <1>3, <2>3, <3>1, <4>1
    <3>2. CASE w < k
      <4>1. WordBits * w + b < WordBits * k + l
        BY <1>9, <3>2, PlacesInOrder
      <4>2. QED
        BY <1>3, <2>3, <4>1
    <3>3. QED
      BY <1>9, <3>1, <3>2
  <2>8. ASSUME NEW h \in Indices(n, v), h >= from
        PROVE  i <= h
    <3>1. PICK p \in Nat, j \in Ones :
            p = WordOf(h) /\ j = h % WordBits /\ h = WordBits * p + j /\ j \in of[p] /\ p >= k
      BY <1>10, <2>8
    <3>2. CASE p = k
      <4>1. l <= j /\ j \in Int /\ l \in Int /\ WordBits * k \in Int
        BY <1>9, <2>2, <3>1, <3>2, BitSetAssumption DEF Ones
      <4>2. QED
        BY <2>3, <3>1, <3>2, <4>1
    <3>3. CASE k < p
      <4>1. WordBits * k + l < WordBits * p + j
        BY <1>9, <3>3, PlacesInOrder
      <4>2. h \in Nat
        BY DEF Indices
      <4>3. QED
        BY <2>3, <3>1, <4>1, <4>2
    <3>4. QED
      BY <1>9, <3>1, <3>2, <3>3
  <2>9. QED
    BY <1>1, <1>12, <2>4, <2>6, <2>7, <2>8
<1>13. QED
  BY <1>11, <1>12

-----------------------------------------------------------------------------
(* The questions of the header, of a bitset whose words are in order.      *)

Shown(d, m) ==
  /\ d.nbits \in Nat
  /\ d.nwords = WordsFor(d.nbits)
  /\ WordsOf(d, m) \in ClearWords(d.nbits)

(* A least one of a set of indices is the first.                           *)
LEMMA FirstIsLeast ==
  ASSUME NEW S \in SUBSET Int, NEW x \in S, \A j \in S : x <= j
  PROVE  B!First(S) = x
<1>1. PICK y : y = CHOOSE i \in S : \A j \in S : i <= j
  OBVIOUS
<1>2. y \in S /\ \A j \in S : y <= j
  BY <1>1
<1>3. y = x
  <2>1. x \in Int /\ y \in Int /\ x <= y /\ y <= x
    BY <1>2
  <2>2. QED
    BY <2>1
<1>4. B!First(S) = y
  BY <1>1 DEF B!First
<1>5. QED
  BY <1>3, <1>4

(* Members are the bits that are set.                                      *)
LEMMA MembersAreBits ==
  ASSUME NEW d, NEW m, Shown(d, m)
  PROVE  /\ Members(d, m) = Bits(d.nbits, WordsOf(d, m))
         /\ Members(d, m) \in SUBSET (0 .. d.nbits - 1)
         /\ \A i \in 0 .. d.nbits - 1 : Test(d, m, i) <=> i \in Members(d, m)
<1>1. ASSUME NEW i \in 0 .. d.nbits - 1
      PROVE  Test(d, m, i) <=> i % WordBits \in WordsOf(d, m)[WordOf(i)]
  BY DEF Test, BitOf
<1>2. QED
  BY <1>1 DEF Members, Bits

(* find_next finds the first member from an index on.                      *)
LEMMA FindNextFindsFirst ==
  ASSUME NEW d, NEW m, Shown(d, m), NEW from \in 0 .. d.nbits
  PROVE  FindNext(d, m, from) = B!First({i \in Members(d, m) : i >= from})
<1>0. PICK n \in Nat : n = d.nbits
  BY DEF Shown
<1>1. PICK u \in ClearWords(n) :
        n = d.nbits /\ d.nwords = WordsFor(n) /\ from \in 0 .. n /\ u = WordsOf(d, m)
  BY <1>0 DEF Shown
<1>2. PICK S : S = {i \in Members(d, m) : i >= from}
  OBVIOUS
<1>3. Members(d, m) = Bits(n, u)
  BY <1>1, MembersAreBits
<1>4. S \in SUBSET Int /\ Bits(n, u) \in SUBSET (0 .. n - 1)
  BY <1>2, <1>3 DEF Bits
<1>5. CASE from = n
  <2>1. S = {}
    BY <1>2, <1>3, <1>4, <1>5
  <2>2. FindNext(d, m, from) = Null
    BY <1>1, <1>5 DEF FindNext
  <2>3. QED
    BY <1>2, <2>1, <2>2 DEF B!First
<1>6. CASE from # n
  <2>1. from \in 0 .. n - 1 /\ ~ (from >= d.nbits)
    BY <1>1, <1>6
  <2>2. u \in [Places(n) -> SUBSET Ones]
    BY DEF ClearWords
  <2>3. Indices(n, u) = Bits(n, u)
    <3>1. ASSUME NEW i \in Indices(n, u)
          PROVE  i \in Bits(n, u)
      <4>1. PICK p \in Places(n), j \in Ones :
              p = WordOf(i) /\ j = i % WordBits /\ i = WordBits * p + j /\ j \in u[p]
        BY IndexIsPlace DEF Indices
      <4>2. QED
        BY <4>1, BitsArePlaces
    <3>2. ASSUME NEW i \in Bits(n, u)
          PROVE  i \in Indices(n, u)
      BY IndexIsLive DEF Bits, Indices
    <3>3. QED
      BY <3>1, <3>2
  <2>4. PICK of, k : of = Masked(u, from) /\ k = WordFound(d, of, WordOf(from))
    OBVIOUS
  <2>5. FindNext(d, m, from) = IF k = d.nwords THEN Null ELSE IdxOfFirstOne(k, of[k])
    BY <1>1, <2>1, <2>4 DEF FindNext
  <2>6. CASE k = WordsFor(n)
    <3>1. \A i \in Indices(n, u) : i < from
      BY <1>1, <2>1, <2>2, <2>4, <2>6, ScanFindsLeast, ZenonT(90)
    <3>2. S = {}
      BY <1>1, <1>2, <1>3, <1>4, <2>3, <3>1
    <3>3. QED
      BY <1>1, <1>2, <2>5, <2>6, <3>2 DEF B!First
  <2>7. CASE k # WordsFor(n)
    <3>1. /\ IdxOfFirstOne(k, of[k]) \in Indices(n, u)
          /\ IdxOfFirstOne(k, of[k]) >= from
          /\ \A i \in Indices(n, u) : i >= from => IdxOfFirstOne(k, of[k]) <= i
      BY <1>1, <2>1, <2>2, <2>4, <2>7, ScanFindsLeast, ZenonT(90)
    <3>2. PICK x : x = IdxOfFirstOne(k, of[k])
      OBVIOUS
    <3>3. x \in Bits(n, u) /\ x >= from /\ \A i \in Bits(n, u) : i >= from => x <= i
      BY <2>3, <3>1, <3>2, Zenon
    <3>4. x \in S /\ \A i \in S : x <= i
      BY <1>2, <1>3, <3>3
    <3>5. B!First(S) = x
      BY <1>4, <3>4, FirstIsLeast
    <3>6. QED
      BY <1>1, <1>2, <2>5, <2>7, <3>2, <3>5
  <2>8. QED
    BY <2>6, <2>7
<1>7. QED
  BY <1>5, <1>6

(* find_next_clear finds the first index of the universe that is no        *)
(* member; what the complement of the tail has is refused.                 *)
LEMMA FindNextClearFindsFirst ==
  ASSUME NEW d, NEW m, Shown(d, m), NEW from \in 0 .. d.nbits
  PROVE  FindNextClear(d, m, from) =
           B!First({i \in (0 .. d.nbits - 1) \ Members(d, m) : i >= from})
<1>0. PICK n \in Nat : n = d.nbits
  BY DEF Shown
<1>1. PICK u \in ClearWords(n) :
        n = d.nbits /\ d.nwords = WordsFor(n) /\ from \in 0 .. n /\ u = WordsOf(d, m)
  BY <1>0 DEF Shown
<1>2. PICK S : S = {i \in (0 .. d.nbits - 1) \ Members(d, m) : i >= from}
  OBVIOUS
<1>3. S = {i \in (0 .. n - 1) \ Bits(n, u) : i >= from}
  BY <1>1, <1>2, MembersAreBits
<1>4. S \in SUBSET Int
  BY <1>3
<1>5. CASE from = n
  <2>1. S = {}
    BY <1>3, <1>5
  <2>2. FindNextClear(d, m, from) = Null
    BY <1>1, <1>5 DEF FindNextClear
  <2>3. QED
    BY <1>2, <2>1, <2>2 DEF B!First
<1>6. CASE from # n
  <2>1. from \in 0 .. n - 1 /\ ~ (from >= d.nbits)
    BY <1>1, <1>6
  <2>2. u \in [Places(n) -> SUBSET Ones]
    BY DEF ClearWords
  <2>3. PICK v : v = [w \in DOMAIN u |-> Complement(u[w])]
    OBVIOUS
  <2>4. v \in [Places(n) -> SUBSET Ones] /\ \A w \in Places(n) : v[w] = Ones \ u[w]
    BY <2>2, <2>3 DEF Complement
  <2>5. \A i \in 0 .. n - 1 : i \in Indices(n, v) <=> i \notin Bits(n, u)
    BY <2>4, IndexIsLive DEF Indices, Bits
  <2>6. Indices(n, v) \in SUBSET Nat
    BY DEF Indices
  <2>7. PICK of, k : of = Masked(v, from) /\ k = WordFound(d, of, WordOf(from))
    OBVIOUS
  <2>8. FindNextClear(d, m, from) =
          IF k = d.nwords THEN Null
          ELSE IF IdxOfFirstOne(k, of[k]) >= d.nbits THEN Null ELSE IdxOfFirstOne(k, of[k])
    BY <1>1, <2>1, <2>3, <2>7 DEF FindNextClear
  <2>9. CASE k = WordsFor(n)
    <3>1. \A i \in Indices(n, v) : i < from
      BY <1>1, <2>1, <2>4, <2>7, <2>9, ScanFindsLeast, ZenonT(90)
    <3>2. S = {}
      BY <1>1, <1>3, <2>5, <3>1
    <3>3. QED
      BY <1>1, <1>2, <2>8, <2>9, <3>2 DEF B!First
  <2>10. CASE k # WordsFor(n)
    <3>1. PICK x : x = IdxOfFirstOne(k, of[k])
      OBVIOUS
    <3>2. x \in Indices(n, v) /\ x >= from /\ \A i \in Indices(n, v) : i >= from => x <= i
      BY <1>1, <2>1, <2>4, <2>7, <2>10, <3>1, ScanFindsLeast, ZenonT(90)
    <3>3. \A i \in S : i \in Indices(n, v) /\ i >= from /\ x <= i /\ i \in 0 .. n - 1
      BY <1>3, <2>5, <3>2
    <3>4. CASE x >= n
      <4>1. S = {}
        BY <2>6, <3>2, <3>3, <3>4
      <4>2. QED
        BY <1>1, <1>2, <2>8, <2>10, <3>1, <3>4, <4>1 DEF B!First
    <3>5. CASE ~ (x >= n)
      <4>1. x \in 0 .. n - 1
        BY <2>6, <3>2, <3>5
      <4>2. x \in S
        BY <1>3, <2>5, <3>2, <4>1
      <4>3. B!First(S) = x
        BY <1>4, <3>3, <4>2, FirstIsLeast
      <4>4. QED
        BY <1>1, <1>2, <2>8, <2>10, <3>1, <3>5, <4>3
    <3>6. QED
      BY <3>4, <3>5
  <2>11. QED
    BY <2>9, <2>10
<1>7. QED
  BY <1>5, <1>6

(* The other questions of one set, and of two.                             *)
LEMMA SetsAnswer ==
  ASSUME NEW d, NEW m, Shown(d, m)
  PROVE  /\ Count(d, m) = Cardinality(Members(d, m))
         /\ HasAny(d, m) <=> Members(d, m) # {}
         /\ HasAll(d, m) <=> Members(d, m) = 0 .. d.nbits - 1
<1>0. PICK n \in Nat : n = d.nbits
  BY DEF Shown
<1>1. PICK u \in ClearWords(n) : n = d.nbits /\ d.nwords = WordsFor(n) /\ u = WordsOf(d, m)
  BY <1>0 DEF Shown
<1>2. Members(d, m) = Bits(n, u)
  BY <1>1, MembersAreBits
<1>3. WordsFor(n) \in Nat
  BY WordsForUniverse
<1>4. Count(d, m) = Cardinality(Members(d, m))
  BY <1>1, <1>2, CountIsCardinality
<1>5. HasAny(d, m) <=> \E w \in Places(n) : u[w] # {}
  BY <1>1 DEF HasAny, Places
<1>6. HasAll(d, m) <=> \A w \in Places(n) : u[w] = LiveOf(n, w)
  <2>1. \A w \in Places(n) : w + 1 = WordsFor(n) <=> w = WordsFor(n) - 1
    BY <1>3 DEF Places
  <2>2. QED
    BY <1>1, <2>1 DEF HasAll, Places, LiveOf
<1>7. QED
  BY <1>1, <1>2, <1>4, <1>5, <1>6, WordsAnswer

(* Two bitsets compared word by word.                                      *)
LEMMA PairsAnswer ==
  ASSUME NEW d, NEW e, NEW m, Shown(d, m), Shown(e, m)
  PROVE  /\ Eq(d, e, m) <=> d.nbits = e.nbits /\ Members(d, m) = Members(e, m)
         /\ d.nbits = e.nbits =>
              /\ IsSubset(d, e, m) <=> Members(d, m) \subseteq Members(e, m)
              /\ Intersects(d, e, m) <=> Members(d, m) \cap Members(e, m) # {}
<1>0. PICK n \in Nat : n = d.nbits
  BY DEF Shown
<1>1. PICK u \in ClearWords(n) : n = d.nbits /\ d.nwords = WordsFor(n) /\ u = WordsOf(d, m)
  BY <1>0 DEF Shown
<1>2. Members(d, m) = Bits(n, u) /\ Members(e, m) = Bits(e.nbits, WordsOf(e, m))
  BY <1>1, MembersAreBits
<1>3. CASE d.nbits = e.nbits
  <2>1. PICK v \in ClearWords(n) : v = WordsOf(e, m)
    BY <1>1, <1>3 DEF Shown
  <2>2. Eq(d, e, m) <=> u = v
    BY <1>1, <1>3, <2>1 DEF Eq
  <2>3. IsSubset(d, e, m) <=> \A w \in Places(n) : u[w] \cap Complement(v[w]) = {}
    BY <1>1, <2>1 DEF IsSubset, Places
  <2>4. Intersects(d, e, m) <=> \E w \in Places(n) : u[w] \cap v[w] # {}
    BY <1>1, <2>1 DEF Intersects, Places
  <2>5. Members(e, m) = Bits(n, v)
    BY <1>1, <1>2, <1>3, <2>1
  <2>6. QED
    BY <1>2, <1>3, <2>2, <2>3, <2>4, <2>5, SameBitsSameWords, WordsAnswer
<1>4. CASE d.nbits # e.nbits
  BY <1>4 DEF Eq
<1>5. QED
  BY <1>3, <1>4

-----------------------------------------------------------------------------
(* A struct and its block.                                                 *)

(* What the block of d holds, and by whom it was lent.                     *)
BlockOf(d) == [al : {d.al}, bytes : {WordsBytes(d)}, cells : ClearWords(d.nbits)]

(* What ASSERT_BITSET asserts, and the block the struct names.             *)
StructOK(d, L) ==
  /\ d \in BitSets
  /\ d.nwords = WordsFor(d.nbits)
  /\ d.nwords = 0 <=> d.words = Null
  /\ WordsBytes(d) <= SizeMax
  /\ d.words # Null => L[d.words] \in BlockOf(d)

IsMemory(m) ==
  /\ m = [lent |-> m.lent, hdrs |-> m.hdrs]
  /\ m.lent = [b \in Blocks |-> m.lent[b]]
  /\ m.hdrs \in [Als \X Kinds -> Int]

(* n words are at least n bytes.                                           *)
LEMMA WordsWithinBytes ==
  ASSUME NEW n \in Nat
  PROVE  /\ n * WordBytes \in Nat
         /\ n <= n * WordBytes
         /\ n * WordBytes = 0 <=> n = 0
<1>1. PICK e \in Nat : WordBytes = e + 1
  BY BitSetAssumption
<1>2. n * WordBytes = n * e + n /\ n * e \in Nat
  BY <1>1
<1>3. QED
  BY <1>2

(* The fields of a struct, and its block when there is one.                *)
LEMMA StructFacts ==
  ASSUME NEW d, NEW L, StructOK(d, L)
  PROVE  /\ d \in BitSets /\ d # Null
         /\ d.nbits \in Nat /\ d.nwords \in Nat /\ d.al \in Als
         /\ d.words \in Blocks \cup {Null}
         /\ WordsBytes(d) \in Nat
         /\ d.words # Null =>
              /\ d.words \in Blocks /\ d.nwords > 0
              /\ L[d.words] # Null
              /\ L[d.words].al = d.al /\ L[d.words].bytes = WordsBytes(d)
              /\ L[d.words].cells \in ClearWords(d.nbits)
              /\ L[d.words] = [al |-> d.al, bytes |-> WordsBytes(d), cells |-> L[d.words].cells]
<1>1. d \in BitSets /\ d # Null
  BY BitNullAssumption DEF StructOK
<1>2. d.nbits \in Nat /\ d.nwords \in Nat /\ d.al \in Als /\ d.words \in Blocks \cup {Null}
  BY <1>1 DEF BitSets
<1>3. WordsBytes(d) \in Nat /\ d.nwords <= WordsBytes(d)
  BY <1>2, WordsWithinBytes DEF WordsBytes
<1>4. CASE d.words # Null
  <2>1. d.words \in Blocks /\ d.nwords > 0
    BY <1>2, <1>4 DEF StructOK
  <2>2. PICK x : x = L[d.words] /\ x \in BlockOf(d)
    BY <1>4 DEF StructOK
  <2>3. /\ x.al = d.al /\ x.bytes = WordsBytes(d) /\ x.cells \in ClearWords(d.nbits)
        /\ x = [al |-> x.al, bytes |-> x.bytes, cells |-> x.cells]
    BY <2>2 DEF BlockOf
  <2>4. x # Null
    <3>1. d.nwords \in 0 .. SizeMax
      BY <1>2, <1>3, MemoryAssumption DEF StructOK
    <3>2. x.cells \in [0 .. d.nwords - 1 -> SUBSET (0 .. WordBits - 1)]
      BY <2>3 DEF StructOK, ClearWords, Places, Ones
    <3>3. x \in [al : Als, bytes : Nat, cells : [0 .. d.nwords - 1 -> SUBSET (0 .. WordBits - 1)]]
      BY <1>2, <1>3, <2>3, <3>2
    <3>4. QED
      BY <3>1, <3>3, BitNullAssumption
  <2>5. QED
    BY <1>1, <1>2, <1>3, <2>1, <2>2, <2>3, <2>4
<1>5. QED
  BY <1>1, <1>2, <1>3, <1>4

(* The words of a struct in order are those of a universe.                 *)
LEMMA StructIsShown ==
  ASSUME NEW d, NEW m, StructOK(d, m.lent)
  PROVE  Shown(d, m)
<1>1. d.nbits \in Nat /\ d.nwords = WordsFor(d.nbits)
  BY StructFacts DEF StructOK
<1>2. CASE d.words = Null
  <2>1. Places(d.nbits) = {}
    BY <1>1, <1>2 DEF StructOK, Places
  <2>2. WordsOf(d, m) = [i \in {} |-> Junk]
    BY <1>2 DEF WordsOf, Raw
  <2>3. WordsOf(d, m) \in [Places(d.nbits) -> SUBSET Ones]
    BY <2>1, <2>2
  <2>4. QED
    BY <1>1, <2>1, <2>3, WordsMade DEF Shown
<1>3. CASE d.words # Null
  BY <1>1, <1>3, StructFacts DEF WordsOf, Shown
<1>4. QED
  BY <1>2, <1>3

(* Members are told by the universe and the words alone.                   *)
LEMMA SameWordsSameMembers ==
  ASSUME NEW d, NEW m, NEW e, NEW n, d.nbits = e.nbits, WordsOf(d, m) = WordsOf(e, n)
  PROVE  Members(d, m) = Members(e, n)
  BY DEF Members, Test

-----------------------------------------------------------------------------
(* The allocator's answers, block by block.                                *)

(* A block is lent that was free.                                          *)
LEMMA Lending ==
  ASSUME NEW m, IsMemory(m), FreeOf(m) # {}, NEW a, NEW bytes, NEW cells
  PROVE  LET l == Lend(m, a, bytes, cells)
         IN  /\ l.b \in Blocks /\ l.b # Null /\ m.lent[l.b] = Null
             /\ IsMemory(l.m) /\ l.m.hdrs = m.hdrs
             /\ l.m.lent[l.b] = [al |-> a, bytes |-> bytes, cells |-> cells]
             /\ \A c \in Blocks : c # l.b => l.m.lent[c] = m.lent[c]
<1>1. PICK b : b = Lends[FreeOf(m)]
  OBVIOUS
<1>2. b \in FreeOf(m)
  BY <1>1, MemoryAssumption DEF FreeOf
<1>3. b \in Blocks /\ b # Null /\ m.lent[b] = Null
  BY <1>2, MemoryAssumption DEF FreeOf
<1>4. PICK rec : rec = [al |-> a, bytes |-> bytes, cells |-> cells]
  OBVIOUS
<1>5. PICK K : K = [m.lent EXCEPT ![b] = rec]
  OBVIOUS
<1>6. K = [c \in Blocks |-> K[c]] /\ K[b] = rec /\ \A c \in Blocks : c # b => K[c] = m.lent[c]
  BY <1>3, <1>5 DEF IsMemory
<1>7. PICK q : q = [m EXCEPT !.lent[b] = rec]
  OBVIOUS
<1>8. q = [lent |-> K, hdrs |-> m.hdrs]
  BY <1>5, <1>7 DEF IsMemory
<1>9. q.lent = K /\ q.hdrs = m.hdrs /\ q = [lent |-> q.lent, hdrs |-> q.hdrs]
  BY <1>8
<1>10. IsMemory(q)
  BY <1>6, <1>9 DEF IsMemory
<1>11. Lend(m, a, bytes, cells) = [b |-> b, m |-> q]
  BY <1>1, <1>4, <1>7 DEF Lend, Answer
<1>12. QED
  BY <1>3, <1>4, <1>6, <1>9, <1>10, <1>11

(* A struct's block goes back; of null, nothing happens.                   *)
LEMMA GivingBack ==
  ASSUME NEW m, IsMemory(m), NEW d, StructOK(d, m.lent)
  PROVE  LET g == GiveBack(m, d.words, d.al, WordsBytes(d))
         IN  /\ IsMemory(g) /\ g.hdrs = m.hdrs
             /\ d.words # Null => g.lent[d.words] = Null
             /\ \A c \in Blocks : c # d.words => g.lent[c] = m.lent[c]
<1>1. CASE d.words = Null
  BY <1>1 DEF GiveBack
<1>2. CASE d.words # Null
  <2>1. /\ d.words \in Blocks /\ m.lent[d.words] # Null
        /\ m.lent[d.words].al = d.al /\ m.lent[d.words].bytes = WordsBytes(d)
    BY <1>2, StructFacts
  <2>2. PICK b \in Blocks : b = d.words
    BY <2>1
  <2>3. PICK K : K = [m.lent EXCEPT ![b] = Null]
    OBVIOUS
  <2>4. K = [c \in Blocks |-> K[c]] /\ K[b] = Null /\ \A c \in Blocks : c # b => K[c] = m.lent[c]
    BY <2>3 DEF IsMemory
  <2>5. PICK q : q = [m EXCEPT !.lent[b] = Null]
    OBVIOUS
  <2>6. q = [lent |-> K, hdrs |-> m.hdrs]
    BY <2>3, <2>5 DEF IsMemory
  <2>7. q.lent = K /\ q.hdrs = m.hdrs /\ q = [lent |-> q.lent, hdrs |-> q.hdrs]
    BY <2>6
  <2>8. IsMemory(q)
    BY <2>4, <2>7 DEF IsMemory
  <2>9. GiveBack(m, d.words, d.al, WordsBytes(d)) = q
    BY <1>2, <2>1, <2>2, <2>5 DEF GiveBack
  <2>10. QED
    BY <2>2, <2>4, <2>7, <2>8, <2>9
<1>3. QED
  BY <1>1, <1>2

(* The words of a struct are written: its block, and no other.             *)
LEMMA Writing ==
  ASSUME NEW m, IsMemory(m), NEW d, NEW u, NEW x, NEW bytes, NEW cells,
         d.words # Null => /\ d.words \in Blocks
                           /\ m.lent[d.words] = [al |-> x, bytes |-> bytes, cells |-> cells]
  PROVE  LET s == SetWords(d, m, u)
         IN  /\ IsMemory(s) /\ s.hdrs = m.hdrs
             /\ d.words # Null => s.lent[d.words] = [al |-> x, bytes |-> bytes, cells |-> u]
             /\ \A c \in Blocks : c # d.words => s.lent[c] = m.lent[c]
<1>1. CASE d.words = Null
  BY <1>1 DEF SetWords
<1>2. CASE d.words # Null
  <2>1. PICK b \in Blocks : b = d.words /\ m.lent[b] = [al |-> x, bytes |-> bytes, cells |-> cells]
    BY <1>2
  <2>2. PICK rec : rec = [al |-> x, bytes |-> bytes, cells |-> u]
    OBVIOUS
  <2>3. [m.lent[b] EXCEPT !.cells = u] = rec
    BY <2>1, <2>2
  <2>4. PICK K : K = [m.lent EXCEPT ![b] = rec]
    OBVIOUS
  <2>5. K = [c \in Blocks |-> K[c]] /\ K[b] = rec /\ \A c \in Blocks : c # b => K[c] = m.lent[c]
    BY <2>4 DEF IsMemory
  <2>6. PICK q : q = [m EXCEPT !.lent[b].cells = u]
    OBVIOUS
  <2>7. q = [m EXCEPT !.lent = [m.lent EXCEPT ![b] = [m.lent[b] EXCEPT !.cells = u]]]
    BY <2>6
  <2>8. q = [lent |-> K, hdrs |-> m.hdrs]
    BY <2>3, <2>4, <2>7 DEF IsMemory
  <2>9. q.lent = K /\ q.hdrs = m.hdrs /\ q = [lent |-> q.lent, hdrs |-> q.hdrs]
    BY <2>8
  <2>10. IsMemory(q)
    BY <2>5, <2>9 DEF IsMemory
  <2>11. SetWords(d, m, u) = q
    BY <1>2, <2>1, <2>6 DEF SetWords
  <2>12. QED
    BY <2>1, <2>2, <2>5, <2>9, <2>10, <2>11
<1>3. QED
  BY <1>1, <1>2

(* One more at p and one less again.                                       *)
LEMMA MoreAndLess ==
  ASSUME NEW P, NEW H \in [P -> Int], NEW p \in P
  PROVE  LET T == [H EXCEPT ![p] = @ + 1]
             R == [H EXCEPT ![p] = @ - 1]
         IN  /\ T \in [P -> Int] /\ T[p] = H[p] + 1 /\ \A q \in P : q # p => T[q] = H[q]
             /\ R \in [P -> Int] /\ R[p] = H[p] - 1 /\ \A q \in P : q # p => R[q] = H[q]
             /\ [T EXCEPT ![p] = @ - 1] = H
<1>1. PICK T : T = [H EXCEPT ![p] = @ + 1]
  OBVIOUS
<1>2. T \in [P -> Int] /\ T[p] = H[p] + 1 /\ \A q \in P : q # p => T[q] = H[q]
  BY <1>1
<1>3. PICK R : R = [H EXCEPT ![p] = @ - 1]
  OBVIOUS
<1>4. R \in [P -> Int] /\ R[p] = H[p] - 1 /\ \A q \in P : q # p => R[q] = H[q]
  BY <1>3
<1>5. PICK B0 : B0 = [T EXCEPT ![p] = @ - 1]
  OBVIOUS
<1>6. B0 \in [P -> Int] /\ \A q \in P : B0[q] = H[q]
  BY <1>2, <1>5
<1>7. B0 = H
  BY <1>6
<1>8. QED
  BY <1>1, <1>2, <1>3, <1>4, <1>5, <1>7

OneMore(H, a) == [H EXCEPT ![<<a, "bitset">>] = @ + 1]
OneLess(H, a) == [H EXCEPT ![<<a, "bitset">>] = @ - 1]

(* A header more, or one less: nothing of the blocks.                      *)
LEMMA HeaderMoves ==
  ASSUME NEW m, IsMemory(m), NEW a \in Als
  PROVE  /\ TakeHdr(m, a, "bitset") = [lent |-> m.lent, hdrs |-> OneMore(m.hdrs, a)]
         /\ ReturnHdr(m, a, "bitset") = [lent |-> m.lent, hdrs |-> OneLess(m.hdrs, a)]
         /\ IsMemory(TakeHdr(m, a, "bitset")) /\ IsMemory(ReturnHdr(m, a, "bitset"))
         /\ ReturnHdr(TakeHdr(m, a, "bitset"), a, "bitset") = m
<1>1. <<a, "bitset">> \in Als \X Kinds
  BY BitSetAssumption
<1>2. m.hdrs \in [Als \X Kinds -> Int] /\ m = [lent |-> m.lent, hdrs |-> m.hdrs]
  BY DEF IsMemory
<1>3. /\ OneMore(m.hdrs, a) \in [Als \X Kinds -> Int]
      /\ OneLess(m.hdrs, a) \in [Als \X Kinds -> Int]
      /\ OneLess(OneMore(m.hdrs, a), a) = m.hdrs
  <2>1. PICK P, H, p : P = Als \X Kinds /\ H = m.hdrs /\ p = <<a, "bitset">>
    OBVIOUS
  <2>2. H \in [P -> Int] /\ p \in P
    BY <1>1, <1>2, <2>1
  <2>3. /\ [H EXCEPT ![p] = @ + 1] \in [P -> Int]
        /\ [H EXCEPT ![p] = @ - 1] \in [P -> Int]
        /\ [[H EXCEPT ![p] = @ + 1] EXCEPT ![p] = @ - 1] = H
    BY <2>2, MoreAndLess
  <2>4. OneMore(H, a) = [H EXCEPT ![p] = @ + 1] /\ OneLess(H, a) = [H EXCEPT ![p] = @ - 1]
    BY <2>1 DEF OneMore, OneLess
  <2>5. OneLess(OneMore(H, a), a) = [OneMore(H, a) EXCEPT ![p] = @ - 1]
    BY <2>1 DEF OneLess
  <2>6. QED
    BY <2>1, <2>3, <2>4, <2>5
<1>4. /\ TakeHdr(m, a, "bitset") = [m EXCEPT !.hdrs = OneMore(m.hdrs, a)]
      /\ ReturnHdr(m, a, "bitset") = [m EXCEPT !.hdrs = OneLess(m.hdrs, a)]
  BY DEF TakeHdr, ReturnHdr, OneMore, OneLess
<1>5. PICK L, H, T, R : L = m.lent /\ H = m.hdrs /\ T = OneMore(H, a) /\ R = OneLess(H, a)
  OBVIOUS
<1>6. m = [lent |-> L, hdrs |-> H]
  BY <1>2, <1>5
<1>7. TakeHdr(m, a, "bitset") = [lent |-> L, hdrs |-> T]
  BY <1>4, <1>5, <1>6
<1>8. ReturnHdr(m, a, "bitset") = [lent |-> L, hdrs |-> R]
  BY <1>4, <1>5, <1>6
<1>9. ReturnHdr([lent |-> L, hdrs |-> T], a, "bitset") = [[lent |-> L, hdrs |-> T] EXCEPT !.hdrs = OneLess(T, a)]
  BY DEF ReturnHdr, OneLess
<1>10. ReturnHdr([lent |-> L, hdrs |-> T], a, "bitset") = m
  BY <1>3, <1>5, <1>6, <1>9
<1>11. IsMemory([lent |-> L, hdrs |-> T]) /\ IsMemory([lent |-> L, hdrs |-> R])
  BY <1>3, <1>5 DEF IsMemory
<1>12. QED
  BY <1>5, <1>7, <1>8, <1>10, <1>11

-----------------------------------------------------------------------------
(* One struct, its block and its header exchanged for others: x is what    *)
(* stood at a handle before a call and y what stands there after it, Null  *)
(* where there is no object.                                               *)

Blk(x)     == IF x = Null THEN Null ELSE x.words
Owes(x, a) == IF x # Null /\ x.al = a THEN 1 ELSE 0
Hdrs(m, a) == m.hdrs[<<a, "bitset">>]

(* The block and the header of x went and those of y came; others stand.   *)
Moves(x, m0, y, m) ==
  /\ IsMemory(m)
  /\ {Blk(x), Blk(y)} \subseteq Blocks \cup {Null}
  /\ \A b \in Blocks : b # Blk(x) /\ b # Blk(y) => m.lent[b] = m0.lent[b]
  /\ Blk(y) # Blk(x) => /\ Blk(y) # Null => m0.lent[Blk(y)] = Null
                        /\ Blk(x) # Null => m.lent[Blk(x)] = Null
  /\ \A a \in Als : Hdrs(m, a) = Hdrs(m0, a) + Owes(y, a) - Owes(x, a)

Exchanges(x, m0, y, m) ==
  /\ Moves(x, m0, y, m)
  /\ y # Null => StructOK(y, m.lent)

(* A struct over a block of its size, whatever the block holds.            *)
Fits(d, m) ==
  /\ d \in BitSets
  /\ d.nwords = WordsFor(d.nbits)
  /\ d.nwords = 0 <=> d.words = Null
  /\ WordsBytes(d) <= SizeMax
  /\ d.words # Null =>
       m.lent[d.words] = [al |-> d.al, bytes |-> WordsBytes(d), cells |-> m.lent[d.words].cells]

(* Headers are counted in whole numbers.                                   *)
LEMMA HdrsAreInts ==
  ASSUME NEW m, IsMemory(m), NEW a \in Als
  PROVE  Hdrs(m, a) \in Int
<1>1. <<a, "bitset">> \in Als \X Kinds
  BY BitSetAssumption
<1>2. QED
  BY <1>1 DEF IsMemory, Hdrs

(* The words of a universe of nothing.                                     *)
LEMMA NoWords ==
  ASSUME NEW n \in Nat, WordsFor(n) = 0
  PROVE  /\ Places(n) = {}
         /\ Raw(0) \in ClearWords(n)
         /\ \A u \in ClearWords(n) : u = Raw(0)
<1>1. Places(n) = {} /\ Raw(0) = [i \in {} |-> Junk]
  BY DEF Places, Raw
<1>2. Raw(0) \in [Places(n) -> SUBSET Ones]
  BY <1>1
<1>3. QED
  BY <1>1, <1>2 DEF ClearWords

(* What a struct's block holds is written over with clear words.           *)
LEMMA Filled ==
  ASSUME NEW x, NEW m0, NEW y, NEW m, Moves(x, m0, y, m), y # Null, Fits(y, m),
         NEW u \in ClearWords(y.nbits)
  PROVE  LET s == SetWords(y, m, u)
         IN  /\ Exchanges(x, m0, y, s)
             /\ WordsOf(y, s) = u
             /\ Members(y, s) = Bits(y.nbits, u)
<1>1. /\ y.nbits \in Nat /\ y.nwords = WordsFor(y.nbits) /\ y.words \in Blocks \cup {Null}
      /\ y.al \in Als
  BY DEF Fits, BitSets
<1>2. PICK cells : cells = m.lent[y.words].cells
  OBVIOUS
<1>3. y.words # Null => /\ y.words \in Blocks
                        /\ m.lent[y.words] = [al |-> y.al, bytes |-> WordsBytes(y), cells |-> cells]
  BY <1>1, <1>2 DEF Fits
<1>4. IsMemory(m)
  BY DEF Moves
<1>5. PICK s : s = SetWords(y, m, u)
  OBVIOUS
<1>6. /\ IsMemory(s) /\ s.hdrs = m.hdrs
      /\ y.words # Null => s.lent[y.words] = [al |-> y.al, bytes |-> WordsBytes(y), cells |-> u]
      /\ \A c \in Blocks : c # y.words => s.lent[c] = m.lent[c]
  BY <1>3, <1>4, <1>5, Writing
<1>7. WordsOf(y, s) = u
  <2>1. CASE y.words = Null
    <3>1. u = Raw(0)
      BY <1>1, <2>1, NoWords DEF Fits
    <3>2. QED
      BY <2>1, <3>1 DEF WordsOf
  <2>2. CASE y.words # Null
    BY <1>6, <2>2 DEF WordsOf
  <2>3. QED
    BY <2>1, <2>2
<1>8. StructOK(y, s.lent)
  <2>1. y.words # Null => s.lent[y.words] \in BlockOf(y)
    BY <1>6 DEF BlockOf
  <2>2. QED
    BY <2>1 DEF StructOK, Fits
<1>9. Moves(x, m0, y, s)
  <2>1. Blk(y) = y.words
    BY DEF Blk
  <2>2. \A b \in Blocks : b # Blk(x) /\ b # Blk(y) => s.lent[b] = m0.lent[b]
    BY <1>6, <2>1 DEF Moves
  <2>3. Blk(y) # Blk(x) => /\ Blk(y) # Null => m0.lent[Blk(y)] = Null
                           /\ Blk(x) # Null => m.lent[Blk(x)] = Null
    BY DEF Moves
  <2>4. ASSUME Blk(y) # Blk(x), Blk(x) # Null
        PROVE  s.lent[Blk(x)] = Null
    <3>1. Blk(x) \in Blocks /\ Blk(x) # y.words /\ m.lent[Blk(x)] = Null
      BY <2>1, <2>3, <2>4 DEF Moves
    <3>2. QED
      BY <1>6, <3>1
  <2>5. \A a \in Als : Hdrs(s, a) = Hdrs(m0, a) + Owes(y, a) - Owes(x, a)
    BY <1>6 DEF Moves, Hdrs
  <2>6. QED
    BY <1>6, <2>2, <2>3, <2>4, <2>5 DEF Moves
<1>10. Members(y, s) = Bits(y.nbits, u)
  BY <1>1, <1>7, MembersAreBits DEF Shown
<1>11. QED
  BY <1>5, <1>7, <1>8, <1>9, <1>10 DEF Exchanges

(* A struct without an exchange is one.                                    *)
LEMMA NothingMoves ==
  ASSUME NEW m, IsMemory(m), NEW d, StructOK(d, m.lent)
  PROVE  Moves(d, m, d, m) /\ Fits(d, m) /\ d # Null
<1>1. Fits(d, m) /\ d # Null
  BY StructFacts DEF StructOK, Fits
<1>2. \A a \in Als : Hdrs(m, a) = Hdrs(m, a) + Owes(d, a) - Owes(d, a)
  BY HdrsAreInts DEF Owes
<1>3. Blk(d) \in Blocks \cup {Null}
  BY StructFacts DEF Blk
<1>4. QED
  BY <1>1, <1>2, <1>3 DEF Moves

(* A header counted in and out.                                            *)
LEMMA HeaderCounts ==
  ASSUME NEW m, IsMemory(m), NEW a \in Als, NEW c \in Als
  PROVE  /\ Hdrs(TakeHdr(m, a, "bitset"), c) = Hdrs(m, c) + (IF c = a THEN 1 ELSE 0)
         /\ Hdrs(ReturnHdr(m, a, "bitset"), c) = Hdrs(m, c) - (IF c = a THEN 1 ELSE 0)
<1>1. PICK P, H, p, q : P = Als \X Kinds /\ H = m.hdrs /\ p = <<a, "bitset">> /\ q = <<c, "bitset">>
  OBVIOUS
<1>2. H \in [P -> Int] /\ p \in P /\ q \in P /\ (p = q <=> a = c)
  BY <1>1, BitSetAssumption DEF IsMemory
<1>3. PICK T, R : T = [H EXCEPT ![p] = @ + 1] /\ R = [H EXCEPT ![p] = @ - 1]
  OBVIOUS
<1>4. /\ T[p] = H[p] + 1 /\ R[p] = H[p] - 1
      /\ q # p => T[q] = H[q] /\ R[q] = H[q]
  BY <1>2, <1>3
<1>5. T = OneMore(m.hdrs, a) /\ R = OneLess(m.hdrs, a)
  BY <1>1, <1>3 DEF OneMore, OneLess
<1>6. TakeHdr(m, a, "bitset").hdrs = T /\ ReturnHdr(m, a, "bitset").hdrs = R
  BY <1>5, HeaderMoves
<1>7. H[q] \in Int
  BY <1>2
<1>8. CASE a = c
  BY <1>1, <1>2, <1>4, <1>6, <1>8 DEF Hdrs
<1>9. CASE a # c
  BY <1>1, <1>2, <1>4, <1>6, <1>7, <1>9 DEF Hdrs
<1>10. QED
  BY <1>8, <1>9

(* A set of nothing over words that are all zero.                          *)
LEMMA ZeroWords ==
  ASSUME NEW n \in Nat
  PROVE  LET u == [i \in 0 .. WordsFor(n) - 1 |-> {}]
         IN  u \in ClearWords(n) /\ Bits(n, u) = {}
<1>1. PICK u : u = [i \in Places(n) |-> {}]
  OBVIOUS
<1>2. u \in [Places(n) -> SUBSET Ones] /\ \A w \in Places(n) : u[w] = {}
  BY <1>1
<1>3. u \in ClearWords(n)
  BY <1>2 DEF ClearWords
<1>4. \A i \in 0 .. n - 1 : WordOf(i) \in Places(n)
  BY IndexIsLive
<1>5. Bits(n, u) = {}
  BY <1>2, <1>4 DEF Bits
<1>6. QED
  BY <1>1, <1>3, <1>5 DEF Places

(* A struct on a free block of its own and with a header of its own.       *)
LEMMA BlockTaken ==
  ASSUME NEW m, IsMemory(m), NEW a \in Als, NEW n \in Nat, NEW b \in Blocks, m.lent[b] = Null,
         WordsFor(n) > 0, WordsFor(n) * WordBytes <= SizeMax,
         NEW q, IsMemory(q), q.hdrs = TakeHdr(m, a, "bitset").hdrs,
         NEW u \in ClearWords(n),
         q.lent[b] = [al |-> a, bytes |-> WordsFor(n) * WordBytes, cells |-> u],
         \A c \in Blocks : c # b => q.lent[c] = m.lent[c]
  PROVE  LET d == [words |-> b, nbits |-> n, nwords |-> WordsFor(n), al |-> a]
         IN  Exchanges(Null, m, d, q) /\ WordsOf(d, q) = u /\ Members(d, q) = Bits(n, u)
<1>1. PICK d : d = [words |-> b, nbits |-> n, nwords |-> WordsFor(n), al |-> a]
  OBVIOUS
<1>2. /\ d.words = b /\ d.nbits = n /\ d.nwords = WordsFor(n) /\ d.al = a
      /\ WordsFor(n) \in Nat /\ b # Null
  BY <1>1, WordsForUniverse, MemoryAssumption
<1>3. d \in BitSets
  BY <1>1, <1>2 DEF BitSets
<1>4. d # Null
  BY <1>3, BitNullAssumption
<1>5. StructOK(d, q.lent)
  BY <1>2, <1>3 DEF StructOK, BlockOf, WordsBytes
<1>6. ASSUME NEW c \in Als
      PROVE  Hdrs(q, c) = Hdrs(m, c) + Owes(d, c) - Owes(Null, c)
  <2>1. Hdrs(q, c) = Hdrs(m, c) + (IF c = a THEN 1 ELSE 0)
    BY HeaderCounts DEF Hdrs
  <2>2. Owes(d, c) = (IF c = a THEN 1 ELSE 0) /\ Owes(Null, c) = 0
    BY <1>2, <1>4 DEF Owes
  <2>3. Hdrs(m, c) \in Int
    BY HdrsAreInts
  <2>4. QED
    BY <2>1, <2>2, <2>3
<1>7. Blk(d) = b /\ Blk(Null) = Null
  BY <1>2, <1>4 DEF Blk
<1>8. Exchanges(Null, m, d, q)
  BY <1>2, <1>5, <1>6, <1>7 DEF Exchanges, Moves
<1>9. WordsOf(d, q) = u
  BY <1>2 DEF WordsOf
<1>10. Members(d, q) = Bits(n, u)
  BY <1>2, <1>9, MembersAreBits DEF Shown
<1>11. QED
  BY <1>1, <1>8, <1>9, <1>10

(* A struct without words and with a header of its own.                    *)
LEMMA NoBlockTaken ==
  ASSUME NEW m, IsMemory(m), NEW a \in Als, NEW n \in Nat, WordsFor(n) = 0
  PROVE  LET d == [words |-> Null, nbits |-> n, nwords |-> WordsFor(n), al |-> a]
             q == TakeHdr(m, a, "bitset")
         IN  Exchanges(Null, m, d, q) /\ Members(d, q) = {}
<1>1. PICK d, q : /\ d = [words |-> Null, nbits |-> n, nwords |-> WordsFor(n), al |-> a]
                  /\ q = TakeHdr(m, a, "bitset")
  OBVIOUS
<1>2. d.words = Null /\ d.nbits = n /\ d.nwords = WordsFor(n) /\ d.nwords = 0 /\ d.al = a
  BY <1>1
<1>3. d \in BitSets
  BY <1>1 DEF BitSets
<1>4. d # Null
  BY <1>3, BitNullAssumption
<1>5. IsMemory(q) /\ q.lent = m.lent
  BY <1>1, HeaderMoves
<1>6. WordsBytes(d) = 0 /\ SizeMax \in Nat
  BY <1>2, BitSetAssumption, MemoryAssumption DEF WordsBytes
<1>7. StructOK(d, q.lent)
  BY <1>2, <1>3, <1>6 DEF StructOK
<1>8. ASSUME NEW c \in Als
      PROVE  Hdrs(q, c) = Hdrs(m, c) + Owes(d, c) - Owes(Null, c)
  <2>1. Hdrs(q, c) = Hdrs(m, c) + (IF c = a THEN 1 ELSE 0)
    BY <1>1, HeaderCounts
  <2>2. Owes(d, c) = (IF c = a THEN 1 ELSE 0) /\ Owes(Null, c) = 0
    BY <1>2, <1>4 DEF Owes
  <2>3. Hdrs(m, c) \in Int
    BY HdrsAreInts
  <2>4. QED
    BY <2>1, <2>2, <2>3
<1>9. Blk(d) = Null /\ Blk(Null) = Null
  BY <1>2, <1>4 DEF Blk
<1>10. Exchanges(Null, m, d, q)
  BY <1>5, <1>7, <1>8, <1>9 DEF Exchanges, Moves
<1>11. Members(d, q) = {}
  <2>1. \A i \in 0 .. n - 1 : WordOf(i) \in Places(n)
    BY IndexIsLive
  <2>2. Places(n) = {}
    BY NoWords
  <2>3. QED
    BY <1>2, <2>1, <2>2 DEF Members
<1>12. QED
  BY <1>1, <1>10, <1>11

-----------------------------------------------------------------------------
(* What each of the operations makes of a struct.                          *)

(* The answer r of a call that had m: y stands where x stood, a set S of   *)
(* indices below n, of the allocator a.                                    *)
Makes(x, m, r, a, n, S) ==
  /\ r.st = OK
  /\ Exchanges(x, m, r.d, r.m)
  /\ r.d # Null /\ r.d.al = a /\ r.d.nbits = n
  /\ Members(r.d, r.m) = S

(* tda_bitset_new_in.                                                      *)
LEMMA NewMakes ==
  ASSUME NEW m, IsMemory(m), NEW a \in Als, NEW n \in Nat, NEW hdr, NEW room
  PROVE  LET r == NewBits(m, a, n, hdr, room)
         IN  r = Result(NoMem, Null, m) \/ Makes(Null, m, r, a, n, {})
<1>1. PICK r, t, k : /\ r = NewBits(m, a, n, hdr, room)
                     /\ t = TakeHdr(m, a, "bitset")
                     /\ k = WordsFor(n)
  OBVIOUS
<1>2. PICK blk : blk = IF k = 0 THEN Answer(Null, t) ELSE Calloc(t, a, k, WordBytes, room, {})
  OBVIOUS
<1>3. r = IF hdr = 0 THEN Result(NoMem, Null, m)
          ELSE IF k > 0 /\ blk.b = Null THEN Result(NoMem, Null, ReturnHdr(t, a, "bitset"))
          ELSE Result(OK, [words |-> blk.b, nbits |-> n, nwords |-> k, al |-> a], blk.m)
  BY <1>1, <1>2 DEF NewBits
<1>4. k \in Nat
  BY <1>1, WordsForUniverse
<1>5. ReturnHdr(t, a, "bitset") = m /\ IsMemory(t) /\ t.lent = m.lent
  BY <1>1, HeaderMoves
<1>6. CASE hdr = 0 \/ (k > 0 /\ blk.b = Null)
  BY <1>1, <1>3, <1>5, <1>6
<1>7. CASE hdr # 0 /\ k = 0
  <2>1. blk = Answer(Null, t) /\ blk.b = Null /\ blk.m = t /\ ~ (k > 0)
    BY <1>2, <1>7 DEF Answer
  <2>2. PICK d : d = [words |-> Null, nbits |-> n, nwords |-> k, al |-> a]
    OBVIOUS
  <2>3. r = Result(OK, d, t)
    BY <1>3, <1>7, <2>1, <2>2
  <2>4. r.st = OK /\ r.d = d /\ r.m = t
    BY <2>3 DEF Result
  <2>5. Exchanges(Null, m, d, t) /\ Members(d, t) = {}
    BY <1>1, <1>7, <2>2, NoBlockTaken
  <2>6. d # Null /\ d.al = a /\ d.nbits = n
    <3>1. d \in BitSets
      BY <1>4, <2>2 DEF BitSets
    <3>2. QED
      BY <2>2, <3>1, BitNullAssumption
  <2>7. QED
    BY <1>1, <2>4, <2>5, <2>6 DEF Makes
<1>8. CASE hdr # 0 /\ k > 0 /\ blk.b # Null
  <2>1. blk = Calloc(t, a, k, WordBytes, room, {})
    BY <1>2, <1>4, <1>8
  <2>2. Answer(Null, t).b = Null
    BY DEF Answer
  <2>3. PICK u : u = [i \in 0 .. k - 1 |-> {}]
    OBVIOUS
  <2>4. /\ ~ Overflows(k, WordBytes) /\ Granted(t, k * WordBytes, room)
        /\ blk = Lend(t, a, k * WordBytes, u)
    BY <1>8, <2>1, <2>2, <2>3 DEF Calloc
  <2>5. FreeOf(t) # {} /\ k * WordBytes <= SizeMax
    BY <1>4, <2>4, WordsWithinBytes, MemoryAssumption DEF Granted, Overflows
  <2>6. /\ blk.b \in Blocks /\ t.lent[blk.b] = Null
        /\ IsMemory(blk.m) /\ blk.m.hdrs = t.hdrs
        /\ blk.m.lent[blk.b] = [al |-> a, bytes |-> k * WordBytes, cells |-> u]
        /\ \A c \in Blocks : c # blk.b => blk.m.lent[c] = t.lent[c]
    BY <1>5, <2>4, <2>5, Lending
  <2>7. PICK b, q : b \in Blocks /\ b = blk.b /\ q = blk.m
    BY <2>6
  <2>8. PICK d : d = [words |-> b, nbits |-> n, nwords |-> k, al |-> a]
    OBVIOUS
  <2>9. r = Result(OK, d, q)
    BY <1>3, <1>8, <2>7, <2>8
  <2>10. r.st = OK /\ r.d = d /\ r.m = q
    BY <2>9 DEF Result
  <2>11. u \in ClearWords(n) /\ Bits(n, u) = {}
    BY <1>1, <2>3, ZeroWords
  <2>12. /\ m.lent[b] = Null /\ q.hdrs = TakeHdr(m, a, "bitset").hdrs /\ IsMemory(q)
         /\ \A c \in Blocks : c # b => q.lent[c] = m.lent[c]
         /\ q.lent[b] = [al |-> a, bytes |-> WordsFor(n) * WordBytes, cells |-> u]
         /\ WordsFor(n) > 0 /\ WordsFor(n) * WordBytes <= SizeMax
    BY <1>1, <1>5, <1>8, <2>5, <2>6, <2>7
  <2>13. Exchanges(Null, m, d, q) /\ Members(d, q) = {}
    BY <1>1, <2>7, <2>8, <2>11, <2>12, BlockTaken
  <2>14. d # Null /\ d.al = a /\ d.nbits = n
    <3>1. d \in BitSets
      BY <1>4, <2>7, <2>8 DEF BitSets
    <3>2. QED
      BY <2>8, <3>1, BitNullAssumption
  <2>15. QED
    BY <1>1, <2>10, <2>13, <2>14 DEF Makes
<1>9. QED
  BY <1>4, <1>6, <1>7, <1>8

(* tda_bitset_copy_with.                                                   *)
LEMMA CopyMakes ==
  ASSUME NEW m, IsMemory(m), NEW a \in Als, NEW d, StructOK(d, m.lent), NEW hdr, NEW room
  PROVE  LET r == CopyWith(d, m, a, hdr, room)
         IN  r = Result(NoMem, Null, m) \/ Makes(Null, m, r, a, d.nbits, Members(d, m))
<1>1. PICK r, s : r = CopyWith(d, m, a, hdr, room) /\ s = NewBits(m, a, d.nbits, hdr, room)
  OBVIOUS
<1>2. PICK u : u = WordsOf(d, m)
  OBVIOUS
<1>3. r = IF s.st = NoMem THEN s ELSE Result(OK, s.d, SetWords(s.d, s.m, u))
  BY <1>1, <1>2 DEF CopyWith, WithWordsOf
<1>4. d.nbits \in Nat /\ u \in ClearWords(d.nbits) /\ Members(d, m) = Bits(d.nbits, u)
  BY <1>2, StructIsShown, MembersAreBits DEF Shown
<1>5. CASE s = Result(NoMem, Null, m)
  BY <1>1, <1>3, <1>5 DEF Result
<1>6. CASE Makes(Null, m, s, a, d.nbits, {})
  <2>1. /\ s.st # NoMem /\ s.d # Null /\ s.d.nbits = d.nbits /\ s.d.al = a
        /\ Moves(Null, m, s.d, s.m) /\ StructOK(s.d, s.m.lent) /\ IsMemory(s.m)
    BY <1>6, MemoryAssumption DEF Makes, Exchanges, Moves
  <2>2. PICK q : q = SetWords(s.d, s.m, u)
    OBVIOUS
  <2>3. Exchanges(Null, m, s.d, q) /\ Members(s.d, q) = Bits(d.nbits, u)
    BY <1>4, <2>1, <2>2, NothingMoves, Filled
  <2>4. r.st = OK /\ r.d = s.d /\ r.m = q
    BY <1>3, <2>1, <2>2 DEF Result
  <2>5. QED
    BY <1>1, <1>4, <2>1, <2>3, <2>4 DEF Makes
<1>7. QED
  BY <1>1, <1>4, <1>5, <1>6, NewMakes

(* A struct whose block stands shows what it showed.                       *)
LEMMA BlockStands ==
  ASSUME NEW d, NEW m, StructOK(d, m.lent), NEW p, d.words # Null => p.lent[d.words] = m.lent[d.words]
  PROVE  StructOK(d, p.lent) /\ WordsOf(d, p) = WordsOf(d, m) /\ Members(d, p) = Members(d, m)
<1>1. StructOK(d, p.lent)
  BY DEF StructOK
<1>2. WordsOf(d, p) = WordsOf(d, m)
  BY DEF WordsOf
<1>3. QED
  BY <1>1, <1>2, SameWordsSameMembers

(* release_words.                                                          *)
LEMMA ReleaseMakes ==
  ASSUME NEW m, IsMemory(m), NEW d, StructOK(d, m.lent)
  PROVE  Makes(d, m, ReleasedWords(d, m), d.al, 0, {})
<1>1. PICK g, y : /\ g = GiveBack(m, d.words, d.al, WordsBytes(d))
                  /\ y = [d EXCEPT !.words = Null, !.nbits = 0, !.nwords = 0]
  OBVIOUS
<1>2. d \in BitSets /\ d # Null /\ d.al \in Als /\ d.words \in Blocks \cup {Null}
  BY StructFacts
<1>3. /\ y \in BitSets
      /\ y.words = Null /\ y.nbits = 0 /\ y.nwords = 0 /\ y.al = d.al
  BY <1>1, <1>2 DEF BitSets
<1>4. y # Null
  BY <1>3, BitNullAssumption
<1>5. /\ IsMemory(g) /\ g.hdrs = m.hdrs
      /\ d.words # Null => g.lent[d.words] = Null
      /\ \A c \in Blocks : c # d.words => g.lent[c] = m.lent[c]
  BY <1>1, GivingBack
<1>6. WordsBytes(y) = 0 /\ SizeMax \in Nat
  BY <1>3, BitSetAssumption, MemoryAssumption DEF WordsBytes
<1>7. StructOK(y, g.lent)
  BY <1>3, <1>6, WordsForUniverse DEF StructOK
<1>8. Blk(d) = d.words /\ Blk(y) = Null
  BY <1>2, <1>3, <1>4 DEF Blk
<1>9. ASSUME NEW a \in Als
      PROVE  Hdrs(g, a) = Hdrs(m, a) + Owes(y, a) - Owes(d, a)
  BY <1>2, <1>3, <1>4, <1>5, HdrsAreInts DEF Owes, Hdrs
<1>10. Exchanges(d, m, y, g)
  BY <1>2, <1>5, <1>7, <1>8, <1>9 DEF Exchanges, Moves
<1>11. Members(y, g) = {}
  BY <1>3 DEF Members
<1>12. PICK r : r = ReleasedWords(d, m)
  OBVIOUS
<1>13. r.st = OK /\ r.d = y /\ r.m = g
  BY <1>1, <1>12 DEF ReleasedWords, Result
<1>14. QED
  BY <1>3, <1>4, <1>10, <1>11, <1>12, <1>13 DEF Makes

(* A struct y took the place of x, which is then dropped.                  *)
LEMMA Replaced ==
  ASSUME NEW m, NEW x, StructOK(x, m.lent), NEW y, NEW q, Exchanges(Null, m, y, q), y # Null,
         IsMemory(m)
  PROVE  LET p == Dropped(x, q)
         IN  Exchanges(x, m, y, p) /\ Members(y, p) = Members(y, q)
<1>1. PICK g, p : g = GiveBack(q, x.words, x.al, WordsBytes(x)) /\ p = Dropped(x, q)
  OBVIOUS
<1>2. p = ReturnHdr(g, x.al, "bitset")
  BY <1>1 DEF Dropped
<1>3. /\ x \in BitSets /\ x # Null /\ x.al \in Als /\ x.words \in Blocks \cup {Null}
      /\ x.words # Null => m.lent[x.words] # Null
  BY StructFacts
<1>4. Blk(x) = x.words /\ Blk(y) = y.words /\ Blk(Null) = Null
  BY <1>3 DEF Blk
<1>5. /\ IsMemory(q) /\ StructOK(y, q.lent) /\ y.words \in Blocks \cup {Null}
      /\ y.words # Null => m.lent[y.words] = Null
      /\ \A b \in Blocks : b # Null /\ b # y.words => q.lent[b] = m.lent[b]
  BY <1>4 DEF Exchanges, Moves
<1>6. x.words # Null => x.words # y.words /\ x.words \in Blocks
  BY <1>3, <1>5
<1>7. StructOK(x, q.lent)
  BY <1>5, <1>6, BlockStands
<1>8. /\ IsMemory(g) /\ g.hdrs = q.hdrs
      /\ x.words # Null => g.lent[x.words] = Null
      /\ \A c \in Blocks : c # x.words => g.lent[c] = q.lent[c]
  BY <1>1, <1>5, <1>7, GivingBack
<1>9. IsMemory(p) /\ p.lent = g.lent
  BY <1>2, <1>3, <1>8, HeaderMoves
<1>10. StructOK(y, p.lent) /\ Members(y, p) = Members(y, q)
  <2>1. y.words # Null => p.lent[y.words] = q.lent[y.words]
    BY <1>5, <1>6, <1>8, <1>9
  <2>2. QED
    BY <1>5, <2>1, BlockStands
<1>11. ASSUME NEW a \in Als
       PROVE  Hdrs(p, a) = Hdrs(m, a) + Owes(y, a) - Owes(x, a)
  <2>1. Hdrs(p, a) = Hdrs(g, a) - (IF a = x.al THEN 1 ELSE 0)
    BY <1>2, <1>3, <1>8, HeaderCounts
  <2>2. Hdrs(g, a) = Hdrs(q, a)
    BY <1>8 DEF Hdrs
  <2>3. Hdrs(q, a) = Hdrs(m, a) + Owes(y, a) - Owes(Null, a) /\ Owes(Null, a) = 0
    BY DEF Exchanges, Moves, Owes
  <2>4. Owes(x, a) = (IF a = x.al THEN 1 ELSE 0)
    BY <1>3 DEF Owes
  <2>5. Hdrs(m, a) \in Int /\ Owes(y, a) \in Int
    BY HdrsAreInts DEF Owes
  <2>6. QED
    BY <2>1, <2>2, <2>3, <2>4, <2>5
<1>12. \A b \in Blocks : b # x.words /\ b # y.words => p.lent[b] = m.lent[b]
  BY <1>5, <1>8, <1>9, MemoryAssumption
<1>13. Exchanges(x, m, y, p)
  BY <1>3, <1>4, <1>5, <1>8, <1>9, <1>10, <1>11, <1>12 DEF Exchanges, Moves
<1>14. QED
  BY <1>1, <1>10, <1>13

(* tda_bitset_drop.                                                        *)
LEMMA DropMakes ==
  ASSUME NEW m, IsMemory(m), NEW d, StructOK(d, m.lent)
  PROVE  Exchanges(d, m, Null, Dropped(d, m))
<1>1. PICK g, p : g = GiveBack(m, d.words, d.al, WordsBytes(d)) /\ p = Dropped(d, m)
  OBVIOUS
<1>2. p = ReturnHdr(g, d.al, "bitset")
  BY <1>1 DEF Dropped
<1>3. d # Null /\ d.al \in Als /\ d.words \in Blocks \cup {Null}
  BY StructFacts
<1>4. /\ IsMemory(g) /\ g.hdrs = m.hdrs
      /\ d.words # Null => g.lent[d.words] = Null
      /\ \A c \in Blocks : c # d.words => g.lent[c] = m.lent[c]
  BY <1>1, GivingBack
<1>5. IsMemory(p) /\ p.lent = g.lent
  BY <1>2, <1>3, <1>4, HeaderMoves
<1>6. ASSUME NEW a \in Als
      PROVE  Hdrs(p, a) = Hdrs(m, a) + Owes(Null, a) - Owes(d, a)
  <2>1. Hdrs(p, a) = Hdrs(g, a) - (IF a = d.al THEN 1 ELSE 0)
    BY <1>2, <1>3, <1>4, HeaderCounts
  <2>2. Hdrs(g, a) = Hdrs(m, a) /\ Hdrs(m, a) \in Int
    BY <1>4, HdrsAreInts DEF Hdrs
  <2>3. Owes(d, a) = (IF a = d.al THEN 1 ELSE 0) /\ Owes(Null, a) = 0
    BY <1>3 DEF Owes
  <2>4. QED
    BY <2>1, <2>2, <2>3
<1>7. Blk(d) = d.words /\ Blk(Null) = Null
  BY <1>3 DEF Blk
<1>8. QED
  BY <1>1, <1>3, <1>4, <1>5, <1>6, <1>7 DEF Exchanges, Moves

(* The struct and the block a copy assignment makes of e that holds another*)
(* number of words, before the words are copied.                           *)
BlockFor(d, e, m, room) == Realloc(m, e.words, WordsBytes(e), e.al, d.nwords, WordBytes, room)
StructOn(b, d, e)       == [e EXCEPT !.words = b, !.nwords = d.nwords, !.nbits = d.nbits]

(* A refusal moves nothing; else the struct has a block of the new size.   *)
LEMMA Resized ==
  ASSUME NEW m, IsMemory(m), NEW d, StructOK(d, m.lent), NEW e, StructOK(e, m.lent), NEW room,
         NEW new, new = BlockFor(d, e, m, room), NEW y, y = StructOn(new.b, d, e)
  PROVE  \/ d.nwords > 0 /\ new.b = Null /\ new.m = m
         \/ /\ ~ (d.nwords > 0 /\ new.b = Null)
            /\ Moves(e, m, y, new.m) /\ Fits(y, new.m)
            /\ y # Null /\ y.nbits = d.nbits /\ y.al = e.al
<1>1. PICK k, bytes : k = d.nwords /\ bytes = k * WordBytes
  OBVIOUS
<1>2. y = [e EXCEPT !.words = new.b, !.nwords = d.nwords, !.nbits = d.nbits]
  BY DEF StructOn
<1>3. /\ e \in BitSets /\ e # Null /\ e.al \in Als /\ e.words \in Blocks \cup {Null}
      /\ e.nwords \in Nat
      /\ e.words # Null => m.lent[e.words] # Null
      /\ d.nbits \in Nat /\ d.nwords \in Nat
  BY StructFacts
<1>4. /\ k \in Nat /\ k = WordsFor(d.nbits) /\ bytes \in Nat /\ bytes <= SizeMax
      /\ (bytes = 0 <=> k = 0)
  BY <1>1, <1>3, WordsWithinBytes DEF StructOK, WordsBytes
<1>5. /\ y.words = new.b /\ y.nwords = k /\ y.nbits = d.nbits /\ y.al = e.al
      /\ new.b \in Blocks \cup {Null} => y \in BitSets
  BY <1>1, <1>2, <1>3 DEF BitSets
<1>6. PICK cells : cells = [i \in 0 .. k - 1 |->
        IF i \in DOMAIN (IF e.words = Null THEN Raw(0) ELSE m.lent[e.words].cells)
        THEN (IF e.words = Null THEN Raw(0) ELSE m.lent[e.words].cells)[i] ELSE Junk]
  BY Zenon
<1>7. PICK l : l = Lend(m, e.al, bytes, cells)
  OBVIOUS
<1>8. new = IF bytes = 0 THEN Answer(Null, GiveBack(m, e.words, e.al, WordsBytes(e)))
            ELSE IF ~Granted(m, bytes, room) THEN Answer(Null, m)
            ELSE Answer(l.b, GiveBack(l.m, e.words, e.al, WordsBytes(e)))
  BY <1>1, <1>6, <1>7, Zenon DEF Realloc, BlockFor
<1>9. \A a \in Als : y # Null => Owes(y, a) = Owes(e, a)
  BY <1>3, <1>5 DEF Owes
<1>10. ASSUME new.b \in Blocks \cup {Null}, IsMemory(new.m), new.m.hdrs = m.hdrs,
              k = 0 <=> new.b = Null,
              new.b # Null =>
                /\ m.lent[new.b] = Null
                /\ new.m.lent[new.b] = [al |-> e.al, bytes |-> bytes, cells |-> cells],
              e.words # Null => new.m.lent[e.words] = Null,
              \A c \in Blocks : c # new.b /\ c # e.words => new.m.lent[c] = m.lent[c]
       PROVE  Moves(e, m, y, new.m) /\ Fits(y, new.m) /\ y # Null
  <2>1. y \in BitSets /\ y # Null
    BY <1>5, <1>10, BitNullAssumption
  <2>2. new.b # Null =>
          new.m.lent[new.b] = [al |-> e.al, bytes |-> bytes, cells |-> new.m.lent[new.b].cells]
    BY <1>10
  <2>3. Fits(y, new.m)
    BY <1>1, <1>4, <1>5, <1>10, <2>1, <2>2 DEF Fits, WordsBytes
  <2>4. ASSUME NEW a \in Als
        PROVE  Hdrs(new.m, a) = Hdrs(m, a) + Owes(y, a) - Owes(e, a)
    <3>1. Hdrs(new.m, a) = Hdrs(m, a) /\ Owes(y, a) = Owes(e, a)
      BY <1>9, <1>10, <2>1 DEF Hdrs
    <3>2. Hdrs(m, a) \in Int /\ Owes(e, a) \in Int
      BY HdrsAreInts DEF Owes
    <3>3. QED
      BY <3>1, <3>2
  <2>5. Blk(e) = e.words /\ Blk(y) = new.b
    BY <1>3, <1>5, <2>1 DEF Blk
  <2>6. Moves(e, m, y, new.m)
    BY <1>3, <1>10, <2>4, <2>5 DEF Moves
  <2>7. QED
    BY <2>1, <2>3, <2>6
<1>11. CASE k = 0
  <2>1. new.b = Null /\ new.m = GiveBack(m, e.words, e.al, WordsBytes(e))
    BY <1>4, <1>8, <1>11 DEF Answer
  <2>2. /\ IsMemory(new.m) /\ new.m.hdrs = m.hdrs
        /\ e.words # Null => new.m.lent[e.words] = Null
        /\ \A c \in Blocks : c # e.words => new.m.lent[c] = m.lent[c]
    BY <2>1, GivingBack
  <2>3. Moves(e, m, y, new.m) /\ Fits(y, new.m) /\ y # Null
    BY <1>10, <1>11, <2>1, <2>2
  <2>4. QED
    BY <1>1, <1>2, <1>5, <1>11, <2>3
<1>12. CASE k # 0 /\ ~Granted(m, bytes, room)
  <2>1. new.b = Null /\ new.m = m
    BY <1>4, <1>8, <1>12 DEF Answer
  <2>2. QED
    BY <1>1, <1>4, <1>12, <2>1
<1>13. CASE k # 0 /\ Granted(m, bytes, room)
  <2>1. new.b = l.b /\ new.m = GiveBack(l.m, e.words, e.al, WordsBytes(e))
    BY <1>4, <1>8, <1>13 DEF Answer
  <2>2. FreeOf(m) # {}
    BY <1>13 DEF Granted
  <2>3. /\ l.b \in Blocks /\ l.b # Null /\ m.lent[l.b] = Null
        /\ IsMemory(l.m) /\ l.m.hdrs = m.hdrs
        /\ l.m.lent[l.b] = [al |-> e.al, bytes |-> bytes, cells |-> cells]
        /\ \A c \in Blocks : c # l.b => l.m.lent[c] = m.lent[c]
    BY <1>7, <2>2, Lending
  <2>4. e.words # Null => e.words \in Blocks /\ e.words # l.b
    BY <1>3, <2>3
  <2>5. StructOK(e, l.m.lent)
    BY <2>3, <2>4, BlockStands
  <2>6. /\ IsMemory(new.m) /\ new.m.hdrs = l.m.hdrs
        /\ e.words # Null => new.m.lent[e.words] = Null
        /\ \A c \in Blocks : c # e.words => new.m.lent[c] = l.m.lent[c]
    BY <2>1, <2>3, <2>5, GivingBack
  <2>7. new.m.lent[new.b] = [al |-> e.al, bytes |-> bytes, cells |-> cells]
    BY <2>1, <2>3, <2>4, <2>6, MemoryAssumption
  <2>8. \A c \in Blocks : c # new.b /\ c # e.words => new.m.lent[c] = m.lent[c]
    BY <2>1, <2>3, <2>6
  <2>9. Moves(e, m, y, new.m) /\ Fits(y, new.m) /\ y # Null
    BY <1>10, <1>13, <2>1, <2>3, <2>6, <2>7, <2>8
  <2>10. QED
    BY <1>1, <1>2, <1>5, <2>1, <2>3, <2>9
<1>14. QED
  BY <1>11, <1>12, <1>13

(* tda_bitset_copy_assign.                                                 *)
LEMMA CopyAssignMakes ==
  ASSUME NEW m, IsMemory(m), NEW d, StructOK(d, m.lent), NEW e, StructOK(e, m.lent), NEW room
  PROVE  LET r == CopyAssigned(d, e, m, room)
         IN  r = Result(NoMem, e, m) \/ Makes(e, m, r, e.al, d.nbits, Members(d, m))
<1>1. PICK r : r = CopyAssigned(d, e, m, room)
  OBVIOUS
<1>2. PICK u : u = WordsOf(d, m)
  OBVIOUS
<1>3. d.nbits \in Nat /\ u \in ClearWords(d.nbits) /\ Members(d, m) = Bits(d.nbits, u)
  BY <1>2, StructIsShown, MembersAreBits DEF Shown
<1>4. PICK new : new = BlockFor(d, e, m, room)
  OBVIOUS
<1>5. PICK s : s = IF d.nwords = e.nwords THEN Result(OK, [e EXCEPT !.nbits = d.nbits], m)
                   ELSE IF d.nwords > 0 /\ new.b = Null THEN Result(NoMem, e, new.m)
                   ELSE Result(OK, StructOn(new.b, d, e), new.m)
  OBVIOUS
<1>6. r = IF s.st = NoMem THEN s ELSE Result(OK, s.d, SetWords(s.d, s.m, u))
  BY <1>1, <1>2, <1>4, <1>5 DEF CopyAssigned, WithWordsOf, BlockFor, StructOn
<1>7. ASSUME s.st = OK, Moves(e, m, s.d, s.m), Fits(s.d, s.m), s.d # Null,
             s.d.nbits = d.nbits, s.d.al = e.al
      PROVE  Makes(e, m, r, e.al, d.nbits, Members(d, m))
  <2>1. PICK q : q = SetWords(s.d, s.m, u)
    OBVIOUS
  <2>2. Exchanges(e, m, s.d, q) /\ Members(s.d, q) = Bits(d.nbits, u)
    BY <1>3, <1>7, <2>1, Filled
  <2>3. r.st = OK /\ r.d = s.d /\ r.m = q
    BY <1>6, <1>7, <2>1, MemoryAssumption DEF Result
  <2>4. QED
    BY <1>3, <1>7, <2>2, <2>3 DEF Makes
<1>8. CASE d.nwords = e.nwords
  <2>1. PICK y : y = [e EXCEPT !.nbits = d.nbits]
    OBVIOUS
  <2>2. e \in BitSets /\ e # Null /\ e.words \in Blocks \cup {Null}
    BY StructFacts
  <2>3. /\ y \in BitSets
        /\ y.nbits = d.nbits /\ y.al = e.al /\ y.words = e.words /\ y.nwords = e.nwords
    BY <1>3, <2>1, <2>2 DEF BitSets
  <2>4. y # Null
    BY <2>3, BitNullAssumption
  <2>5. Moves(e, m, e, m) /\ Fits(e, m)
    BY NothingMoves
  <2>6. y.nwords = WordsFor(y.nbits)
    BY <1>8, <2>3 DEF StructOK
  <2>7. WordsBytes(y) = WordsBytes(e)
    BY <2>3 DEF WordsBytes
  <2>8. Fits(y, m)
    BY <2>3, <2>5, <2>6, <2>7 DEF Fits
  <2>9. Blk(y) = Blk(e) /\ \A a \in Als : Owes(y, a) = Owes(e, a)
    BY <2>2, <2>3, <2>4 DEF Blk, Owes
  <2>10. Moves(e, m, y, m)
    BY <2>5, <2>9 DEF Moves
  <2>11. s.st = OK /\ s.d = y /\ s.m = m
    BY <1>5, <1>8, <2>1 DEF Result
  <2>12. QED
    BY <1>1, <1>7, <2>3, <2>4, <2>8, <2>10, <2>11
<1>9. CASE d.nwords # e.nwords
  <2>1. PICK y : y = StructOn(new.b, d, e)
    OBVIOUS
  <2>2. \/ d.nwords > 0 /\ new.b = Null /\ new.m = m
        \/ /\ ~ (d.nwords > 0 /\ new.b = Null)
           /\ Moves(e, m, y, new.m) /\ Fits(y, new.m)
           /\ y # Null /\ y.nbits = d.nbits /\ y.al = e.al
    BY <1>4, <2>1, Resized
  <2>3. CASE d.nwords > 0 /\ new.b = Null /\ new.m = m
    <3>1. s = Result(NoMem, e, m) /\ s.st = NoMem
      BY <1>5, <1>9, <2>3 DEF Result
    <3>2. QED
      BY <1>1, <1>6, <3>1
  <2>4. CASE /\ ~ (d.nwords > 0 /\ new.b = Null)
             /\ Moves(e, m, y, new.m) /\ Fits(y, new.m)
             /\ y # Null /\ y.nbits = d.nbits /\ y.al = e.al
    <3>1. s.st = OK /\ s.d = y /\ s.m = new.m
      BY <1>5, <1>9, <2>1, <2>4 DEF Result
    <3>2. QED
      BY <1>1, <1>7, <2>4, <3>1
  <2>5. QED
    BY <2>2, <2>3, <2>4
<1>10. QED
  BY <1>8, <1>9

-----------------------------------------------------------------------------
(* The bitsets together.                                                   *)

Live(D, a) == {h \in Handles : D[h] # Null /\ D[h].al = a}

(* The structs D and the memory m fit together: every struct has its own   *)
(* block, there are no other blocks, and headers are counted.              *)
Sound(D, m) ==
  /\ D \in [Handles -> BitSets \cup {Null}]
  /\ IsMemory(m)
  /\ \A h \in Handles : D[h] # Null => StructOK(D[h], m.lent)
  /\ \A h, g \in Handles :
       h # g /\ D[h] # Null /\ D[g] # Null /\ D[h].words # Null => D[h].words # D[g].words
  /\ \A b \in Blocks : m.lent[b] # Null => \E h \in Handles : D[h] # Null /\ D[h].words = b
  /\ \A a \in Als : IsFiniteSet(Live(D, a)) /\ Hdrs(m, a) = Cardinality(Live(D, a))

(* The inductive invariant. BooksBalance says of a block that it holds as  *)
(* many words as the set needs and no live bit too many in the last of     *)
(* them; that the words are words, and that their bytes do not overflow,   *)
(* is what a step needs besides.                                           *)
IInv == Sound(bs, mem)

(* What a handle shows, and what all of them do.                           *)
Obj(x, m) == IF x = Null THEN Null ELSE ObjOf(x, m)

ObjsOf(D, m) == [h \in Handles |-> Obj(D[h], m)]

(* What soundness says of one struct and of two.                           *)
LEMMA SoundFacts ==
  ASSUME NEW D, NEW m, Sound(D, m), NEW h \in Handles, D[h] # Null
  PROVE  /\ D \in [Handles -> BitSets \cup {Null}] /\ IsMemory(m)
         /\ D[h] \in BitSets /\ StructOK(D[h], m.lent)
         /\ D[h].words \in Blocks \cup {Null} /\ D[h].al \in Als
         /\ D[h].words # Null => m.lent[D[h].words] # Null
         /\ \A g \in Handles :
              g # h /\ D[g] # Null /\ D[g].words # Null =>
                /\ D[g].words # D[h].words
                /\ D[g].words \in Blocks /\ m.lent[D[g].words] # Null
  BY StructFacts DEF Sound

(* A count of the living when one handle changes.                          *)
LEMMA LivingCounted ==
  ASSUME NEW D \in [Handles -> BitSets \cup {Null}], NEW h \in Handles, NEW y \in BitSets \cup {Null},
         NEW a \in Als, IsFiniteSet(Live(D, a))
  PROVE  LET E == [D EXCEPT ![h] = y]
         IN  /\ IsFiniteSet(Live(E, a))
             /\ Cardinality(Live(E, a)) = Cardinality(Live(D, a)) + Owes(y, a) - Owes(D[h], a)
<1>1. PICK E : E = [D EXCEPT ![h] = y]
  OBVIOUS
<1>2. E[h] = y /\ \A g \in Handles : g # h => E[g] = D[g]
  BY <1>1
<1>3. Cardinality(Live(D, a)) \in Nat
  BY FS_CardinalityType
<1>4. PICK S : S = Live(D, a) \ {h}
  OBVIOUS
<1>5. /\ IsFiniteSet(S) /\ h \notin S
      /\ Cardinality(S) = Cardinality(Live(D, a)) - Owes(D[h], a)
  <2>1. CASE h \in Live(D, a)
    <3>1. Owes(D[h], a) = 1
      BY <2>1 DEF Live, Owes
    <3>2. QED
      BY <1>4, <2>1, <3>1, FS_RemoveElement
  <2>2. CASE h \notin Live(D, a)
    <3>1. S = Live(D, a) /\ Owes(D[h], a) = 0
      BY <1>4, <2>2 DEF Live, Owes
    <3>2. QED
      BY <1>3, <1>4, <2>2, <3>1
  <2>3. QED
    BY <2>1, <2>2
<1>6. Cardinality(S) \in Nat
  BY <1>5, FS_CardinalityType
<1>7. Live(E, a) \ {h} = S
  BY <1>2, <1>4 DEF Live
<1>8. IsFiniteSet(Live(E, a)) /\ Cardinality(Live(E, a)) = Cardinality(S) + Owes(y, a)
  <2>1. CASE h \in Live(E, a)
    <3>1. Live(E, a) = S \cup {h}
      BY <1>7, <2>1
    <3>2. Owes(y, a) = 1
      BY <1>2, <2>1 DEF Live, Owes
    <3>3. QED
      BY <1>5, <3>1, <3>2, FS_AddElement
  <2>2. CASE h \notin Live(E, a)
    <3>1. Live(E, a) = S
      BY <1>7, <2>2
    <3>2. Owes(y, a) = 0
      BY <1>2, <2>2 DEF Live, Owes
    <3>3. QED
      BY <1>5, <1>6, <3>1, <3>2
  <2>3. QED
    BY <2>1, <2>2
<1>9. Owes(D[h], a) \in Int /\ Owes(y, a) \in Int
  BY DEF Owes
<1>10. QED
  BY <1>1, <1>3, <1>5, <1>6, <1>8, <1>9

(* A call on one handle leaves all of them sound, and shows another object *)
(* there and nowhere else.                                                 *)
LEMMA ExchangeIsSound ==
  ASSUME NEW D, NEW m0, Sound(D, m0), NEW h \in Handles,
         NEW y, NEW m, Exchanges(D[h], m0, y, m)
  PROVE  /\ Sound(At(D, h, y), m)
         /\ ObjsOf(At(D, h, y), m) = At(ObjsOf(D, m0), h, Obj(y, m))
<1>1. /\ IsMemory(m) /\ y \in BitSets \cup {Null} /\ (y # Null => StructOK(y, m.lent))
      /\ {Blk(D[h]), Blk(y)} \subseteq Blocks \cup {Null}
      /\ Blk(y) # Null => m.lent[Blk(y)] # Null
  BY StructFacts DEF Exchanges, Moves, Blk
<1>2. PICK E \in [Handles -> BitSets \cup {Null}] :
        /\ E = [D EXCEPT ![h] = y] /\ E[h] = y
        /\ \A g \in Handles : g # h => E[g] = D[g]
  <2>1. D \in [Handles -> BitSets \cup {Null}]
    BY DEF Sound
  <2>2. [D EXCEPT ![h] = y] \in [Handles -> BitSets \cup {Null}]
    BY <1>1, <2>1
  <2>3. QED
    BY <2>1, <2>2
<1>3. \A g \in Handles : g # h /\ D[g] # Null /\ D[g].words # Null =>
        /\ D[g].words \in Blocks
        /\ D[g].words # Blk(y) /\ D[g].words # Blk(D[h])
        /\ m.lent[D[g].words] = m0.lent[D[g].words]
  <2>1. TAKE g \in Handles
  <2>2. HAVE g # h /\ D[g] # Null /\ D[g].words # Null
  <2>3. /\ D[g].words \in Blocks /\ m0.lent[D[g].words] # Null
        /\ D[h] # Null => D[g].words # D[h].words
    BY <2>2, SoundFacts
  <2>4. D[g].words # Blk(D[h])
    BY <2>2, <2>3 DEF Blk
  <2>5. D[g].words # Blk(y)
    BY <2>2, <2>3, <2>4 DEF Exchanges, Moves
  <2>6. QED
    BY <2>3, <2>4, <2>5 DEF Exchanges, Moves
<1>4. \A g \in Handles : g # h /\ D[g] # Null =>
        StructOK(D[g], m.lent) /\ Members(D[g], m) = Members(D[g], m0)
  BY <1>3, SoundFacts, BlockStands, SMTT(20)
<1>5. \A f, g \in Handles :
        f # g /\ E[f] # Null /\ E[g] # Null /\ E[f].words # Null => E[f].words # E[g].words
  <2>1. TAKE f, g \in Handles
  <2>2. HAVE f # g /\ E[f] # Null /\ E[g] # Null /\ E[f].words # Null
  <2>3. CASE f = h
    <3>1. g # h /\ E[g] = D[g] /\ Blk(y) = y.words /\ E[f] = y
      BY <1>2, <2>2, <2>3 DEF Blk
    <3>2. QED
      BY <1>3, <2>2, <3>1
  <2>4. CASE g = h
    <3>1. f # h /\ E[f] = D[f] /\ Blk(y) = y.words /\ E[g] = y
      BY <1>2, <2>2, <2>4 DEF Blk
    <3>2. QED
      BY <1>3, <2>2, <3>1
  <2>5. CASE f # h /\ g # h
    BY <1>2, <2>2, <2>5 DEF Sound
  <2>6. QED
    BY <2>3, <2>4, <2>5
<1>6. ASSUME NEW b \in Blocks, m.lent[b] # Null
      PROVE  \E g \in Handles : E[g] # Null /\ E[g].words = b
  <2>1. b # Null
    BY MemoryAssumption
  <2>2. CASE b = Blk(y)
    BY <1>2, <2>1, <2>2 DEF Blk
  <2>3. CASE b # Blk(y)
    <3>1. b # Blk(D[h])
      BY <1>6, <2>1, <2>3 DEF Exchanges, Moves
    <3>2. m0.lent[b] # Null
      BY <1>6, <2>3, <3>1 DEF Exchanges, Moves
    <3>3. PICK g \in Handles : D[g] # Null /\ D[g].words = b
      BY <3>2 DEF Sound
    <3>4. g # h
      BY <3>1, <3>3 DEF Blk
    <3>5. QED
      BY <1>2, <3>3, <3>4
  <2>4. QED
    BY <2>2, <2>3
<1>7. ASSUME NEW a \in Als
      PROVE  IsFiniteSet(Live(E, a)) /\ Hdrs(m, a) = Cardinality(Live(E, a))
  <2>1. IsFiniteSet(Live(D, a)) /\ Hdrs(m0, a) = Cardinality(Live(D, a))
    BY DEF Sound
  <2>2. Hdrs(m, a) = Hdrs(m0, a) + Owes(y, a) - Owes(D[h], a)
    BY DEF Exchanges, Moves
  <2>3. D \in [Handles -> BitSets \cup {Null}] /\ y \in BitSets \cup {Null}
    BY <1>1 DEF Sound
  <2>4. /\ IsFiniteSet(Live([D EXCEPT ![h] = y], a))
        /\ Cardinality(Live([D EXCEPT ![h] = y], a)) =
             Cardinality(Live(D, a)) + Owes(y, a) - Owes(D[h], a)
    BY <2>1, <2>3, LivingCounted
  <2>5. E = [D EXCEPT ![h] = y]
    BY <1>2
  <2>6. QED
    BY <2>1, <2>2, <2>4, <2>5, Zenon
<1>8. \A g \in Handles : E[g] # Null => StructOK(E[g], m.lent)
  BY <1>1, <1>2, <1>4
<1>9. Sound(E, m)
  BY <1>1, <1>2, <1>5, <1>6, <1>7, <1>8 DEF Sound
<1>10. ObjsOf(E, m) = [ObjsOf(D, m0) EXCEPT ![h] = Obj(y, m)]
  <2>1. \A g \in Handles : g # h => Obj(E[g], m) = Obj(D[g], m0)
    BY <1>2, <1>4 DEF Obj, ObjOf
  <2>2. QED
    BY <1>2, <2>1 DEF ObjsOf
<1>11. QED
  BY <1>2, <1>9, <1>10 DEF At

Swapped(F, h, g) == [F EXCEPT ![h] = F[g], ![g] = F[h]]

(* Two bitsets change places.                                              *)
LEMMA SwapIsSound ==
  ASSUME NEW D, NEW m, Sound(D, m), NEW h \in Handles, NEW g \in Handles,
         D[h] # Null, D[g] # Null, D[h].al = D[g].al
  PROVE  /\ Sound(Swapped(D, h, g), m)
         /\ ObjsOf(Swapped(D, h, g), m) = Swapped(ObjsOf(D, m), h, g)
<1>1. D \in [Handles -> BitSets \cup {Null}]
  BY DEF Sound
<1>2. PICK E \in [Handles -> BitSets \cup {Null}] : E = [D EXCEPT ![h] = D[g], ![g] = D[h]]
  BY <1>1
<1>3. E[h] = D[g] /\ E[g] = D[h] /\ \A f \in Handles : f # h /\ f # g => E[f] = D[f]
  BY <1>1, <1>2
<1>4. \A f \in Handles : E[f] # Null => StructOK(E[f], m.lent)
  BY <1>3 DEF Sound
<1>5. \A e, f \in Handles :
        e # f /\ E[e] # Null /\ E[f] # Null /\ E[e].words # Null => E[e].words # E[f].words
  BY <1>3 DEF Sound
<1>6. \A b \in Blocks : m.lent[b] # Null => \E f \in Handles : E[f] # Null /\ E[f].words = b
  BY <1>3 DEF Sound
<1>7. \A a \in Als : Live(E, a) = Live(D, a)
  BY <1>3 DEF Live
<1>8. Sound(E, m)
  BY <1>2, <1>4, <1>5, <1>6, <1>7 DEF Sound
<1>9. ObjsOf(E, m) = Swapped(ObjsOf(D, m), h, g)
  BY <1>3 DEF ObjsOf, Swapped
<1>10. QED
  BY <1>2, <1>8, <1>9 DEF Swapped

-----------------------------------------------------------------------------
(* Steps: what a call leaves sound, and what it shows of the objects.      *)

(* The objects and the invariant in the words of the lemmas on one struct. *)
LEMMA ObjsAre ==
  /\ Objs = ObjsOf(bs, mem)
  /\ Objs' = ObjsOf(bs', mem')
  /\ IInv' = Sound(bs', mem')
<1>1. Objs = ObjsOf(bs, mem)
  BY DEF Objs, ObjsOf, Obj, IsAlive
<1>2. Objs' = ObjsOf(bs', mem')
  BY DEF Objs, ObjsOf, Obj, IsAlive, ObjOf, Members, Test, WordsOf
<1>3. IInv' = Sound(bs', mem')
  BY DEF IInv, Sound, Hdrs
<1>4. QED
  BY <1>1, <1>2, <1>3

(* What a live handle shows, and a dead one.                               *)
LEMMA LiveShown ==
  ASSUME IInv, NEW h \in Handles, bs[h] # Null
  PROVE  /\ IsMemory(mem) /\ StructOK(bs[h], mem.lent) /\ Shown(bs[h], mem)
         /\ bs[h].nbits \in Nat /\ bs[h].al \in Als /\ bs[h].nwords = WordsFor(bs[h].nbits)
         /\ WordsOf(bs[h], mem) \in ClearWords(bs[h].nbits)
         /\ Objs[h] = [al |-> bs[h].al, nbits |-> bs[h].nbits, bits |-> Members(bs[h], mem)]
         /\ Members(bs[h], mem) = Bits(bs[h].nbits, WordsOf(bs[h], mem))
         /\ Objs[h].al = bs[h].al /\ Objs[h].nbits = bs[h].nbits
         /\ Objs[h].bits = Members(bs[h], mem)
         /\ Objs[h] # Null /\ B!Alive(h)
         /\ B!Universe(h) = 0 .. bs[h].nbits - 1
<1>1. /\ IsMemory(mem) /\ StructOK(bs[h], mem.lent)
      /\ bs[h].nbits \in Nat /\ bs[h].al \in Als /\ bs[h].nwords = WordsFor(bs[h].nbits)
  BY StructFacts DEF IInv, Sound, StructOK
<1>2. Shown(bs[h], mem)
  BY <1>1, StructIsShown
<1>3. /\ Members(bs[h], mem) = Bits(bs[h].nbits, WordsOf(bs[h], mem))
      /\ Members(bs[h], mem) \in SUBSET (0 .. bs[h].nbits - 1)
  BY <1>2, MembersAreBits
<1>4. Objs[h] = [al |-> bs[h].al, nbits |-> bs[h].nbits, bits |-> Members(bs[h], mem)]
  BY DEF Objs, ObjOf, IsAlive
<1>5. Members(bs[h], mem) \in SUBSET Nat
  BY <1>3
<1>6. Objs[h] \in [al : Als, nbits : Nat, bits : SUBSET Nat]
  BY <1>1, <1>4, <1>5
<1>7. Objs[h] # Null
  BY <1>6, BitNullAssumption
<1>8. B!Alive(h) /\ B!Universe(h) = 0 .. bs[h].nbits - 1
  BY <1>4, <1>7 DEF B!Alive, B!Universe
<1>9. QED
  BY <1>1, <1>2, <1>3, <1>4, <1>7, <1>8 DEF Shown

(* A handle without a bitset shows none, and exchanges start from nothing. *)
LEMMA DeadShown ==
  ASSUME NEW h \in Handles, bs[h] = Null
  PROVE  ~ B!Alive(h) /\ Objs[h] = Null
  BY DEF Objs, IsAlive, B!Alive

(* Nothing changes but the answer.                                         *)
LEMMA StandStill ==
  ASSUME IInv, UNCHANGED <<bs, mem>>
  PROVE  IInv' /\ Objs' = Objs
  BY ObjsAre DEF IInv

(* One struct is exchanged.                                                *)
LEMMA Exchanged ==
  ASSUME IInv, NEW h \in Handles, NEW y, NEW m, Exchanges(bs[h], mem, y, m),
         bs' = [bs EXCEPT ![h] = y], mem' = m
  PROVE  IInv' /\ Objs' = [Objs EXCEPT ![h] = Obj(y, m)]
<1>1. Sound(bs, mem)
  BY DEF IInv
<1>2. Sound(At(bs, h, y), m) /\ ObjsOf(At(bs, h, y), m) = At(ObjsOf(bs, mem), h, Obj(y, m))
  BY <1>1, ExchangeIsSound
<1>3. QED
  BY <1>2, ObjsAre DEF At

(* What is made is the object it is made to be.                            *)
LEMMA MadeIsShown ==
  ASSUME NEW x, NEW m, NEW r, NEW a, NEW n, NEW S, Makes(x, m, r, a, n, S)
  PROVE  Obj(r.d, r.m) = [al |-> a, nbits |-> n, bits |-> S]
  BY DEF Makes, Obj, ObjOf

(* A call that ends with its answer committed at one handle.               *)
LEMMA CommitMade ==
  ASSUME IInv, NEW h \in Handles, NEW r, NEW a, NEW n, NEW S,
         Makes(bs[h], mem, r, a, n, S), Commit(h, r)
  PROVE  IInv' /\ B!Becomes(h, [al |-> a, nbits |-> n, bits |-> S])
<1>1. Exchanges(bs[h], mem, r.d, r.m) /\ r.st = OK
  BY DEF Makes
<1>2. bs' = [bs EXCEPT ![h] = r.d] /\ mem' = r.m /\ answer' = OK
  BY <1>1 DEF Commit
<1>3. IInv' /\ Objs' = [Objs EXCEPT ![h] = Obj(r.d, r.m)]
  BY <1>1, <1>2, Exchanged
<1>4. Obj(r.d, r.m) = [al |-> a, nbits |-> n, bits |-> S]
  BY MadeIsShown
<1>5. QED
  BY <1>2, <1>3, <1>4 DEF B!Becomes

(* A call that was refused changes nothing.                                *)
LEMMA CommitRefused ==
  ASSUME IInv, NEW h \in Handles, Commit(h, Result(NoMem, bs[h], mem))
  PROVE  IInv' /\ B!Refused
<1>1. bs' = [bs EXCEPT ![h] = bs[h]] /\ mem' = mem /\ answer' = NoMem
  BY DEF Commit, Result
<1>2. bs' = bs
  BY <1>1 DEF IInv, Sound
<1>3. QED
  BY <1>1, <1>2, StandStill DEF B!Refused

(* tda_bitset_new_in.                                                      *)
LEMMA NewStep ==
  ASSUME IInv, NEW h \in Handles, NEW a \in Als, NEW n \in Lens, NEW hdr, NEW room,
         New(h, a, n, hdr, room)
  PROVE  IInv' /\ B!BitNew(h, a, n)
<1>1. PICK r : r = NewBits(mem, a, n, hdr, room)
  OBVIOUS
<1>2. bs[h] = Null /\ Commit(h, r)
  BY <1>1 DEF New, IsAlive
<1>3. n \in Nat /\ IsMemory(mem)
  BY BitSetAssumption DEF IInv, Sound
<1>4. r = Result(NoMem, Null, mem) \/ Makes(Null, mem, r, a, n, {})
  BY <1>1, <1>3, NewMakes
<1>5. IInv' /\ (B!Refused \/ B!Becomes(h, [al |-> a, nbits |-> n, bits |-> {}]))
  BY <1>2, <1>4, CommitMade, CommitRefused
<1>6. QED
  BY <1>2, <1>5, DeadShown DEF B!BitNew

(* tda_bitset_copy_with.                                                   *)
LEMMA CopyStep ==
  ASSUME IInv, NEW h \in Handles, NEW g \in Handles, NEW a \in Als, NEW hdr, NEW room,
         Copy(h, g, a, hdr, room)
  PROVE  IInv' /\ B!BitCopyWith(h, g, a)
<1>1. PICK r : r = CopyWith(bs[h], mem, a, hdr, room)
  OBVIOUS
<1>2. bs[h] # Null /\ bs[g] = Null /\ Commit(g, r)
  BY <1>1 DEF Copy, IsAlive
<1>3. IsMemory(mem) /\ StructOK(bs[h], mem.lent)
  BY <1>2, LiveShown
<1>4. r = Result(NoMem, Null, mem) \/ Makes(Null, mem, r, a, bs[h].nbits, Members(bs[h], mem))
  BY <1>1, <1>3, CopyMakes
<1>5. IInv' /\ (B!Refused \/ B!Becomes(g, [al |-> a, nbits |-> bs[h].nbits, bits |-> Members(bs[h], mem)]))
  BY <1>2, <1>4, CommitMade, CommitRefused
<1>6. [Objs[h] EXCEPT !.al = a] = [al |-> a, nbits |-> bs[h].nbits, bits |-> Members(bs[h], mem)]
  <2>1. Objs[h] = [al |-> bs[h].al, nbits |-> bs[h].nbits, bits |-> Members(bs[h], mem)]
    BY <1>2, LiveShown
  <2>2. QED
    BY <2>1
<1>7. B!Alive(h) /\ ~ B!Alive(g)
  BY <1>2, LiveShown, DeadShown
<1>8. QED
  BY <1>5, <1>6, <1>7 DEF B!BitCopyWith

(* tda_bitset_drop.                                                        *)
LEMMA DropStep ==
  ASSUME IInv, NEW h \in Handles, Drop(h)
  PROVE  IInv' /\ B!BitDrop(h)
<1>1. PICK m : m = Dropped(bs[h], mem)
  OBVIOUS
<1>2. bs[h] # Null /\ bs' = [bs EXCEPT ![h] = Null] /\ mem' = m /\ answer' = OK
  BY <1>1 DEF Drop, IsAlive, Commit, Result
<1>3. Exchanges(bs[h], mem, Null, m)
  BY <1>1, <1>2, LiveShown, DropMakes
<1>4. IInv' /\ Objs' = [Objs EXCEPT ![h] = Null]
  BY <1>2, <1>3, Exchanged DEF Obj
<1>5. QED
  BY <1>2, <1>4, LiveShown DEF B!BitDrop, B!Becomes

(* tda_bitset_copy_assign, of a bitset to itself as well.                  *)
LEMMA CopyAssignStep ==
  ASSUME IInv, NEW h \in Handles, NEW g \in Handles, NEW room, CopyAssign(h, g, room)
  PROVE  IInv' /\ (B!BitCopyAssign(h, g) \/ B!Done)
<1>1. bs[h] # Null /\ bs[g] # Null
  BY DEF CopyAssign, IsAlive
<1>2. CASE h = g
  <2>1. bs' = [bs EXCEPT ![g] = bs[g]] /\ mem' = mem /\ answer' = OK
    BY <1>2 DEF CopyAssign, Commit, Result
  <2>2. bs' = bs
    BY <2>1 DEF IInv, Sound
  <2>3. QED
    BY <2>1, <2>2, StandStill DEF B!Done
<1>3. CASE h # g
  <2>1. PICK r : r = CopyAssigned(bs[h], bs[g], mem, room)
    OBVIOUS
  <2>2. Commit(g, r)
    BY <1>3, <2>1 DEF CopyAssign
  <2>3. IsMemory(mem) /\ StructOK(bs[h], mem.lent) /\ StructOK(bs[g], mem.lent)
    BY <1>1, LiveShown
  <2>4. \/ r = Result(NoMem, bs[g], mem)
        \/ Makes(bs[g], mem, r, bs[g].al, bs[h].nbits, Members(bs[h], mem))
    BY <2>1, <2>3, CopyAssignMakes
  <2>5. IInv' /\ (\/ B!Refused
                  \/ B!Becomes(g, [al |-> bs[g].al, nbits |-> bs[h].nbits, bits |-> Members(bs[h], mem)]))
    BY <2>2, <2>4, CommitMade, CommitRefused
  <2>6. [Objs[h] EXCEPT !.al = Objs[g].al] =
          [al |-> bs[g].al, nbits |-> bs[h].nbits, bits |-> Members(bs[h], mem)]
    <3>1. Objs[h] = [al |-> bs[h].al, nbits |-> bs[h].nbits, bits |-> Members(bs[h], mem)]
      BY <1>1, LiveShown
    <3>2. Objs[g] = [al |-> bs[g].al, nbits |-> bs[g].nbits, bits |-> Members(bs[g], mem)]
      BY <1>1, LiveShown
    <3>3. QED
      BY <3>1, <3>2
  <2>7. QED
    BY <1>1, <2>5, <2>6, LiveShown DEF B!BitCopyAssign
<1>4. QED
  BY <1>2, <1>3

(* tda_bitset_swap.                                                        *)
LEMMA SwapStep ==
  ASSUME IInv, NEW h \in Handles, NEW g \in Handles, Swap(h, g)
  PROVE  IInv' /\ B!BitSwap(h, g)
<1>1. /\ bs[h] # Null /\ bs[g] # Null /\ bs[h].al = bs[g].al
      /\ bs' = Swapped(bs, h, g) /\ mem' = mem /\ answer' = OK
  BY DEF Swap, IsAlive, Swapped
<1>2. Sound(Swapped(bs, h, g), mem) /\ ObjsOf(Swapped(bs, h, g), mem) = Swapped(ObjsOf(bs, mem), h, g)
  BY <1>1, SwapIsSound DEF IInv
<1>3. IInv' /\ Objs' = Swapped(Objs, h, g)
  BY <1>1, <1>2, ObjsAre
<1>4. Objs' = [Objs EXCEPT ![g] = Objs[h], ![h] = Objs[g]]
  BY <1>3 DEF Swapped, Objs
<1>5. /\ B!Alive(h) /\ B!Alive(g)
      /\ Objs[h].al = bs[h].al /\ Objs[g].al = bs[g].al
  BY <1>1, LiveShown
<1>6. QED
  BY <1>1, <1>3, <1>4, <1>5 DEF B!BitSwap

(* With one allocator the target is released and the two change places.    *)
LEMMA MoveWithin ==
  ASSUME IInv, NEW h \in Handles, NEW g \in Handles, h # g, bs[h] # Null, bs[g] # Null,
         bs[h].al = bs[g].al, NEW r, r = ReleasedWords(bs[g], mem),
         bs' = [bs EXCEPT ![h] = r.d, ![g] = bs[h]], mem' = r.m
  PROVE  /\ IInv'
         /\ Objs' = [Objs EXCEPT ![g] = Objs[h],
                                 ![h] = [al |-> bs[g].al, nbits |-> 0, bits |-> {}]]
<1>1. Makes(bs[g], mem, r, bs[g].al, 0, {})
  BY LiveShown, ReleaseMakes
<1>2. /\ Exchanges(bs[g], mem, r.d, r.m) /\ r.d # Null /\ r.d.al = bs[g].al
      /\ Obj(r.d, r.m) = [al |-> bs[g].al, nbits |-> 0, bits |-> {}]
  BY <1>1, MadeIsShown DEF Makes
<1>3. PICK D, m : D = At(bs, g, r.d) /\ m = r.m
  OBVIOUS
<1>4. Sound(D, m) /\ ObjsOf(D, m) = At(Objs, g, Obj(r.d, m))
  BY <1>2, <1>3, ExchangeIsSound, ObjsAre DEF IInv
<1>5. bs \in [Handles -> BitSets \cup {Null}]
  BY DEF IInv, Sound
<1>6. D[g] = r.d /\ D[h] = bs[h] /\ bs' = Swapped(D, h, g)
  BY <1>3, <1>5 DEF At, Swapped
<1>7. Sound(Swapped(D, h, g), m) /\ ObjsOf(Swapped(D, h, g), m) = Swapped(ObjsOf(D, m), h, g)
  BY <1>2, <1>4, <1>6, SwapIsSound
<1>8. IInv' /\ Objs' = Swapped(At(Objs, g, Obj(r.d, m)), h, g)
  BY <1>3, <1>4, <1>6, <1>7, ObjsAre
<1>9. Objs' = [Objs EXCEPT ![g] = Objs[h], ![h] = Obj(r.d, m)]
  <2>1. PICK o : o = Obj(r.d, m)
    OBVIOUS
  <2>2. PICK F : F = Objs
    OBVIOUS
  <2>3. F = [f \in Handles |-> F[f]]
    BY <2>2 DEF Objs
  <2>4. Swapped(At(F, g, o), h, g) = [F EXCEPT ![g] = F[h], ![h] = o]
    BY <2>3 DEF Swapped, At
  <2>5. QED
    BY <1>8, <2>1, <2>2, <2>4
<1>10. QED
  BY <1>2, <1>3, <1>8, <1>9

(* With two a copy takes the place of the target, and the source is        *)
(* released.                                                               *)
LEMMA MoveAcross ==
  ASSUME IInv, NEW h \in Handles, NEW g \in Handles, h # g, bs[h] # Null, bs[g] # Null,
         NEW c, Makes(Null, mem, c, bs[g].al, bs[h].nbits, Members(bs[h], mem)),
         NEW r, r = ReleasedWords(bs[h], Dropped(bs[g], c.m)),
         bs' = [bs EXCEPT ![h] = r.d, ![g] = c.d], mem' = r.m
  PROVE  /\ IInv'
         /\ Objs' = [Objs EXCEPT
                       ![g] = [al |-> bs[g].al, nbits |-> bs[h].nbits, bits |-> Members(bs[h], mem)],
                       ![h] = [al |-> bs[h].al, nbits |-> 0, bits |-> {}]]
<1>1. PICK p : p = Dropped(bs[g], c.m)
  OBVIOUS
<1>2. Exchanges(Null, mem, c.d, c.m) /\ c.d # Null
  BY DEF Makes
<1>3. Exchanges(bs[g], mem, c.d, p) /\ Members(c.d, p) = Members(c.d, c.m)
  <2>1. StructOK(bs[g], mem.lent) /\ IsMemory(mem)
    BY LiveShown
  <2>2. QED
    BY <1>1, <1>2, <2>1, Replaced
<1>4. Obj(c.d, p) = [al |-> bs[g].al, nbits |-> bs[h].nbits, bits |-> Members(bs[h], mem)]
  BY <1>3 DEF Makes, Obj, ObjOf
<1>5. PICK D : D = At(bs, g, c.d)
  OBVIOUS
<1>6. Sound(D, p) /\ ObjsOf(D, p) = At(Objs, g, Obj(c.d, p))
  BY <1>3, <1>5, ExchangeIsSound, ObjsAre DEF IInv
<1>7. bs \in [Handles -> BitSets \cup {Null}]
  BY DEF IInv, Sound
<1>8. D[h] = bs[h] /\ D[h] # Null /\ bs' = At(D, h, r.d)
  BY <1>5, <1>7 DEF At
<1>9. IsMemory(p) /\ StructOK(bs[h], p.lent)
  BY <1>6, <1>8, SoundFacts
<1>10. Makes(bs[h], p, r, bs[h].al, 0, {})
  BY <1>1, <1>9, ReleaseMakes
<1>11. /\ Exchanges(bs[h], p, r.d, r.m)
       /\ Obj(r.d, r.m) = [al |-> bs[h].al, nbits |-> 0, bits |-> {}]
  BY <1>10, MadeIsShown DEF Makes
<1>12. Sound(At(D, h, r.d), r.m) /\ ObjsOf(At(D, h, r.d), r.m) = At(ObjsOf(D, p), h, Obj(r.d, r.m))
  <2>1. Sound(D, p) /\ Exchanges(D[h], p, r.d, r.m)
    BY <1>6, <1>8, <1>11, Zenon
  <2>2. QED
    BY <2>1, ExchangeIsSound
<1>13. bs' = At(D, h, r.d) /\ mem' = r.m /\ ObjsOf(D, p) = At(Objs, g, Obj(c.d, p))
  BY <1>6, <1>8
<1>14. IInv' /\ Objs' = At(At(Objs, g, Obj(c.d, p)), h, Obj(r.d, r.m))
  BY <1>12, <1>13, ObjsAre, ZenonT(40)
<1>15. QED
  BY <1>4, <1>11, <1>14, Zenon DEF At

(* tda_bitset_move_assign: within one allocator and across two.            *)
LEMMA MoveAssignStep ==
  ASSUME IInv, NEW h \in Handles, NEW g \in Handles, NEW hdr, NEW room,
         MoveAssign(h, g, hdr, room)
  PROVE  IInv' /\ (B!BitMoveAssign(h, g) \/ B!Done)
<1>1. bs[h] # Null /\ bs[g] # Null
  BY DEF MoveAssign, IsAlive
<1>2. CASE h = g
  <2>1. bs' = [bs EXCEPT ![h] = bs[g], ![g] = bs[g]] /\ mem' = mem /\ answer' = OK
    BY <1>2 DEF MoveAssign
  <2>2. bs' = bs
    BY <1>2, <2>1 DEF IInv, Sound
  <2>3. QED
    BY <2>1, <2>2, StandStill DEF B!Done
<1>3. CASE h # g
  <2>1. PICK d, e : d = bs[h] /\ e = bs[g]
    OBVIOUS
  <2>2. PICK c : c = CopyWith(d, mem, e.al, hdr, room)
    OBVIOUS
  <2>3. PICK r : r = IF d.al = e.al THEN ReleasedWords(e, mem) ELSE ReleasedWords(d, Dropped(e, c.m))
    OBVIOUS
  <2>4. PICK s : s = IF d.al # e.al /\ c.st = NoMem
                     THEN [st |-> NoMem, d |-> d, e |-> e, m |-> c.m]
                     ELSE [st |-> OK, d |-> r.d, e |-> IF d.al = e.al THEN d ELSE c.d, m |-> r.m]
    OBVIOUS
  <2>5. bs' = [bs EXCEPT ![h] = s.d, ![g] = s.e] /\ mem' = s.m /\ answer' = s.st
    BY <1>3, <2>1, <2>2, <2>3, <2>4 DEF MoveAssign, MoveAssigned
  <2>6. /\ Objs[h] = [al |-> d.al, nbits |-> d.nbits, bits |-> Members(d, mem)]
        /\ B!Alive(h) /\ d.al \in Als /\ StructOK(d, mem.lent) /\ IsMemory(mem)
    BY <1>1, <2>1, LiveShown
  <2>7. /\ Objs[g] = [al |-> e.al, nbits |-> e.nbits, bits |-> Members(e, mem)]
        /\ B!Alive(g) /\ e.al \in Als
    BY <1>1, <2>1, LiveShown
  <2>8. /\ [Objs[h] EXCEPT !.al = Objs[g].al] = [al |-> e.al, nbits |-> d.nbits, bits |-> Members(d, mem)]
        /\ [Objs[h] EXCEPT !.nbits = 0, !.bits = {}] = [al |-> d.al, nbits |-> 0, bits |-> {}]
    <3>1. PICK o, x : o = Objs[h] /\ x = Objs[g].al
      OBVIOUS
    <3>2. x = e.al
      BY <2>7, <3>1
    <3>3. PICK S : S = Members(d, mem)
      OBVIOUS
    <3>4. o = [al |-> d.al, nbits |-> d.nbits, bits |-> S]
      BY <2>6, <3>1, <3>3
    <3>5. [o EXCEPT !.al = x] = [al |-> x, nbits |-> d.nbits, bits |-> S]
      BY <3>4
    <3>6. [o EXCEPT !.nbits = 0, !.bits = {}] = [al |-> d.al, nbits |-> 0, bits |-> {}]
      <4>1. PICK z : z = [o EXCEPT !.nbits = 0]
        OBVIOUS
      <4>2. z = [al |-> d.al, nbits |-> 0, bits |-> S]
        BY <3>4, <4>1
      <4>3. [z EXCEPT !.bits = {}] = [al |-> d.al, nbits |-> 0, bits |-> {}]
        BY <4>2
      <4>4. QED
        BY <4>1, <4>3, Zenon
    <3>7. QED
      BY <3>1, <3>2, <3>3, <3>5, <3>6, Zenon
  <2>9. CASE d.al = e.al
    <3>1. r = ReleasedWords(bs[g], mem)
      BY <2>1, <2>3, <2>9
    <3>2. s.d = r.d /\ s.e = bs[h] /\ s.m = r.m /\ s.st = OK
      BY <2>1, <2>4, <2>9
    <3>3. bs[h].al = bs[g].al /\ bs' = [bs EXCEPT ![h] = r.d, ![g] = bs[h]] /\ mem' = r.m
      BY <2>1, <2>5, <2>9, <3>2
    <3>4. /\ IInv'
          /\ Objs' = [Objs EXCEPT ![g] = Objs[h], ![h] = [al |-> bs[g].al, nbits |-> 0, bits |-> {}]]
      BY <1>1, <1>3, <3>1, <3>3, MoveWithin
    <3>5. Objs[h] = [Objs[h] EXCEPT !.al = Objs[g].al]
      BY <2>6, <2>8, <2>9
    <3>6. Objs' = [Objs EXCEPT ![g] = [Objs[h] EXCEPT !.al = Objs[g].al],
                               ![h] = [Objs[h] EXCEPT !.nbits = 0, !.bits = {}]]
      BY <2>1, <2>8, <2>9, <3>4, <3>5
    <3>7. QED
      BY <1>3, <2>5, <2>6, <2>7, <3>2, <3>4, <3>6 DEF B!BitMoveAssign
  <2>10. CASE d.al # e.al
    <3>1. c = Result(NoMem, Null, mem) \/ Makes(Null, mem, c, e.al, d.nbits, Members(d, mem))
      BY <2>2, <2>6, <2>7, CopyMakes
    <3>2. CASE c = Result(NoMem, Null, mem)
      <4>1. s.d = d /\ s.e = e /\ s.m = mem /\ s.st = NoMem
        BY <2>4, <2>10, <3>2 DEF Result
      <4>2. bs' = bs /\ mem' = mem /\ answer' = NoMem
        BY <2>1, <2>5, <4>1 DEF IInv, Sound
      <4>3. IInv' /\ Objs' = Objs
        BY <4>2, StandStill
      <4>4. QED
        BY <1>3, <2>6, <2>7, <4>2, <4>3 DEF B!BitMoveAssign, B!Refused
    <3>3. CASE Makes(Null, mem, c, e.al, d.nbits, Members(d, mem))
      <4>1. c.st # NoMem
        BY <3>3, MemoryAssumption DEF Makes
      <4>2. s.d = r.d /\ s.e = c.d /\ s.m = r.m /\ s.st = OK
        BY <2>4, <2>10, <4>1
      <4>3. /\ r = ReleasedWords(bs[h], Dropped(bs[g], c.m))
            /\ Makes(Null, mem, c, bs[g].al, bs[h].nbits, Members(bs[h], mem))
            /\ bs' = [bs EXCEPT ![h] = r.d, ![g] = c.d] /\ mem' = r.m
        BY <2>1, <2>3, <2>5, <2>10, <3>3, <4>2
      <4>4. /\ IInv'
            /\ Objs' = [Objs EXCEPT
                 ![g] = [al |-> bs[g].al, nbits |-> bs[h].nbits, bits |-> Members(bs[h], mem)],
                 ![h] = [al |-> bs[h].al, nbits |-> 0, bits |-> {}]]
        BY <1>1, <1>3, <4>3, MoveAcross
      <4>5. Objs' = [Objs EXCEPT ![g] = [Objs[h] EXCEPT !.al = Objs[g].al],
                                 ![h] = [Objs[h] EXCEPT !.nbits = 0, !.bits = {}]]
        BY <2>1, <2>8, <4>4
      <4>6. QED
        BY <1>3, <2>5, <2>6, <2>7, <4>2, <4>4, <4>5 DEF B!BitMoveAssign
    <3>4. QED
      BY <3>1, <3>2, <3>3
  <2>11. QED
    BY <2>9, <2>10
<1>4. QED
  BY <1>2, <1>3

(* The words of one bitset are written.                                    *)
LEMMA StoreStep ==
  ASSUME IInv, NEW h \in Handles, bs[h] # Null, NEW u \in ClearWords(bs[h].nbits), Store(h, u)
  PROVE  /\ IInv' /\ B!Holds(h, Bits(bs[h].nbits, u))
<1>1. PICK d, s : d = bs[h] /\ s = SetWords(d, mem, u)
  OBVIOUS
<1>2. bs' = [bs EXCEPT ![h] = d] /\ mem' = s /\ answer' = OK
  BY <1>1 DEF Store, Commit, Result
<1>3. IsMemory(mem) /\ StructOK(d, mem.lent) /\ u \in ClearWords(d.nbits)
  BY <1>1, LiveShown
<1>4. Moves(d, mem, d, mem) /\ Fits(d, mem) /\ d # Null
  BY <1>3, NothingMoves
<1>5. Exchanges(d, mem, d, s) /\ Members(d, s) = Bits(d.nbits, u)
  BY <1>1, <1>3, <1>4, Filled
<1>6. IInv' /\ Objs' = [Objs EXCEPT ![h] = Obj(d, s)]
  <2>1. Exchanges(bs[h], mem, d, s)
    BY <1>1, <1>5
  <2>2. QED
    BY <1>2, <2>1, Exchanged
<1>7. PICK S, S0 : S = Bits(d.nbits, u) /\ S0 = Members(d, mem)
  OBVIOUS
<1>8. Obj(d, s) = [al |-> d.al, nbits |-> d.nbits, bits |-> S]
  BY <1>4, <1>5, <1>7 DEF Obj, ObjOf
<1>9. Objs[h] = [al |-> d.al, nbits |-> d.nbits, bits |-> S0]
  BY <1>1, <1>7, LiveShown
<1>10. [Objs[h] EXCEPT !.bits = S] = Obj(d, s)
  BY <1>8, <1>9
<1>11. QED
  BY <1>1, <1>2, <1>6, <1>7, <1>10 DEF B!Holds, B!Becomes

(* set, clear and flip of one index.                                       *)
LEMMA OneBitStep ==
  ASSUME IInv, NEW h \in Handles, bs[h] # Null, NEW i \in 0 .. bs[h].nbits - 1, OneBit(h, i)
  PROVE  IInv' /\ B!BitChange(h)
<1>1. PICK n, u, S : n = bs[h].nbits /\ u = WordsOf(bs[h], mem) /\ S = Members(bs[h], mem)
  OBVIOUS
<1>2. /\ n \in Nat /\ u \in ClearWords(n) /\ S = Bits(n, u) /\ i \in 0 .. n - 1
      /\ Objs[h].bits = S /\ B!Alive(h) /\ B!Universe(h) = 0 .. n - 1
  BY <1>1, LiveShown
<1>3. ASSUME NEW x \in {u[WordOf(i)] \cup BitOf(i), u[WordOf(i)] \cap Complement(BitOf(i)),
                        (u[WordOf(i)] \ BitOf(i)) \cup (BitOf(i) \ u[WordOf(i)])},
             Store(h, [u EXCEPT ![WordOf(i)] = x])
      PROVE  IInv' /\ B!BitChange(h)
  <2>1. PICK v : v = At(u, WordOf(i), x)
    OBVIOUS
  <2>2. v \in ClearWords(n) /\ Bits(n, v) \in {S \cup {i}, S \ {i}}
    BY <1>2, <2>1, OneBitChanged
  <2>3. IInv' /\ B!Holds(h, Bits(n, v))
    BY <1>1, <1>3, <2>1, <2>2, StoreStep DEF At
  <2>4. B!Holds(h, S \cup {i}) \/ B!Holds(h, S \ {i})
    BY <2>2, <2>3
  <2>5. QED
    BY <1>2, <2>3, <2>4 DEF B!BitChange
<1>4. \/ Store(h, [u EXCEPT ![WordOf(i)] = u[WordOf(i)] \cup BitOf(i)])
      \/ Store(h, [u EXCEPT ![WordOf(i)] = u[WordOf(i)] \cap Complement(BitOf(i))])
      \/ Store(h, [u EXCEPT ![WordOf(i)] = (u[WordOf(i)] \ BitOf(i)) \cup (BitOf(i) \ u[WordOf(i)])])
  BY <1>1 DEF OneBit
<1>5. QED
  BY <1>3, <1>4

(* set_all, clear_all and flip_all.                                        *)
LEMMA AllBitsStep ==
  ASSUME IInv, NEW h \in Handles, bs[h] # Null, AllBits(h)
  PROVE  IInv' /\ B!BitChange(h)
<1>1. PICK d, n, u, S : /\ d = bs[h] /\ n = d.nbits
                        /\ u = WordsOf(d, mem) /\ S = Members(d, mem)
  OBVIOUS
<1>2. /\ n \in Nat /\ d.nbits = n /\ d.nwords = WordsFor(n) /\ u \in ClearWords(n) /\ S = Bits(n, u)
      /\ Objs[h].bits = S /\ B!Alive(h) /\ B!Universe(h) = 0 .. n - 1
  BY <1>1, LiveShown
<1>3. PICK x, y, z : /\ x = ClearTail(d, [w \in DOMAIN u |-> Ones])
                     /\ y = [w \in DOMAIN u |-> {}]
                     /\ z = ClearTail(d, [w \in DOMAIN u |-> Complement(u[w])])
  OBVIOUS
<1>4. /\ x \in ClearWords(n) /\ Bits(n, x) = 0 .. n - 1
      /\ y \in ClearWords(n) /\ Bits(n, y) = {}
      /\ z \in ClearWords(n) /\ Bits(n, z) = (0 .. n - 1) \ S
  BY <1>2, <1>3, AllBitsChanged
<1>5. Store(h, x) \/ Store(h, y) \/ Store(h, z)
  BY <1>1, <1>3 DEF AllBits
<1>6. ASSUME NEW v \in ClearWords(n), Store(h, v)
      PROVE  IInv' /\ B!Holds(h, Bits(n, v))
  BY <1>1, <1>6, StoreStep
<1>7. IInv' /\ (B!Holds(h, 0 .. n - 1) \/ B!Holds(h, {}) \/ B!Holds(h, (0 .. n - 1) \ S))
  BY <1>4, <1>5, <1>6
<1>8. QED
  BY <1>2, <1>7 DEF B!BitChange

(* union, intersect, difference and symmetric_difference.                  *)
LEMMA CombineStep ==
  ASSUME IInv, NEW h \in Handles, NEW g \in Handles, bs[h] # Null, bs[g] # Null, Combine(h, g)
  PROVE  IInv' /\ B!BitCombine(h, g)
<1>1. PICK n, u, v, S, T : /\ n = bs[h].nbits
                           /\ u = WordsOf(bs[h], mem) /\ v = WordsOf(bs[g], mem)
                           /\ S = Members(bs[h], mem) /\ T = Members(bs[g], mem)
  OBVIOUS
<1>2. /\ n \in Nat /\ u \in ClearWords(n) /\ S = Bits(n, u)
      /\ Objs[h].bits = S /\ Objs[h].nbits = n /\ B!Alive(h)
  BY <1>1, LiveShown
<1>3. bs[g].nbits = n
  BY <1>1 DEF Combine
<1>4. /\ v \in ClearWords(n) /\ T = Bits(n, v)
      /\ Objs[g].bits = T /\ Objs[g].nbits = n /\ B!Alive(g)
  BY <1>1, <1>3, LiveShown
<1>5. PICK a, b, c, e : a = Joined(u, v) /\ b = Met(u, v) /\ c = Less(u, v) /\ e = Parted(u, v)
  OBVIOUS
<1>6. /\ a \in ClearWords(n) /\ Bits(n, a) = S \cup T
      /\ b \in ClearWords(n) /\ Bits(n, b) = S \cap T
      /\ c \in ClearWords(n) /\ Bits(n, c) = S \ T
      /\ e \in ClearWords(n) /\ Bits(n, e) = (S \ T) \cup (T \ S)
  BY <1>2, <1>4, <1>5, Combined
<1>7. Store(h, a) \/ Store(h, b) \/ Store(h, c) \/ Store(h, e)
  BY <1>1, <1>5 DEF Combine, Joined, Met, Less, Parted
<1>8. ASSUME NEW x \in ClearWords(n), Store(h, x)
      PROVE  IInv' /\ B!Holds(h, Bits(n, x))
  BY <1>1, <1>8, StoreStep
<1>9. IInv' /\ (\/ B!Holds(h, S \cup T)
                \/ B!Holds(h, S \cap T)
                \/ B!Holds(h, S \ T)
                \/ B!Holds(h, (S \ T) \cup (T \ S)))
  BY <1>6, <1>7, <1>8
<1>10. QED
  BY <1>2, <1>4, <1>9 DEF B!BitCombine

(* The questions of one bitset: test, count, any, all and the scans.       *)
LEMMA AskStep ==
  ASSUME IInv, NEW h \in Handles, bs[h] # Null, NEW i \in 0 .. bs[h].nbits, Ask(h, i)
  PROVE  IInv' /\ B!BitAsk(h, i)
<1>1. PICK d, S : d = bs[h] /\ S = Members(d, mem)
  OBVIOUS
<1>2. /\ d.nbits \in Nat /\ i \in 0 .. d.nbits /\ Shown(d, mem)
      /\ Objs[h].bits = S /\ B!Alive(h) /\ B!Universe(h) = 0 .. d.nbits - 1
  BY <1>1, LiveShown
<1>3. i < d.nbits => Test(d, mem, i) = (i \in S)
  <2>1. i < d.nbits => i \in 0 .. d.nbits - 1
    BY <1>2
  <2>2. i < d.nbits => (Test(d, mem, i) <=> i \in S)
    BY <1>1, <1>2, <2>1, MembersAreBits
  <2>3. QED
    BY <2>2 DEF Test
<1>4. Count(d, mem) = Cardinality(S)
  BY <1>1, <1>2, SetsAnswer
<1>5. HasAny(d, mem) = (S # {})
  <2>1. HasAny(d, mem) <=> S # {}
    BY <1>1, <1>2, SetsAnswer
  <2>2. QED
    BY <2>1 DEF HasAny
<1>6. HasAll(d, mem) = (S = 0 .. d.nbits - 1)
  <2>1. HasAll(d, mem) <=> S = 0 .. d.nbits - 1
    BY <1>1, <1>2, SetsAnswer
  <2>2. QED
    BY <2>1 DEF HasAll
<1>7. FindNext(d, mem, i) = B!First({j \in S : j >= i})
  BY <1>1, <1>2, FindNextFindsFirst
<1>8. FindNextClear(d, mem, i) = B!First({j \in (0 .. d.nbits - 1) \ S : j >= i})
  BY <1>1, <1>2, FindNextClearFindsFirst
<1>9. /\ UNCHANGED <<bs, mem>>
      /\ \/ i < d.nbits /\ answer' = <<"test", i, Test(d, mem, i)>>
         \/ answer' = <<"count", Count(d, mem)>>
         \/ answer' = <<"any", HasAny(d, mem)>>
         \/ answer' = <<"all", HasAll(d, mem)>>
         \/ answer' = <<"find_next", i, FindNext(d, mem, i)>>
         \/ answer' = <<"find_next_clear", i, FindNextClear(d, mem, i)>>
  BY <1>1 DEF Ask, Answers
<1>10. IInv' /\ Objs' = Objs
  BY <1>9, StandStill
<1>11. \/ answer' = <<"test", i, i \in S>>
       \/ answer' = <<"count", Cardinality(S)>>
       \/ answer' = <<"any", S # {}>>
       \/ answer' = <<"all", S = 0 .. d.nbits - 1>>
       \/ answer' = <<"find_next", i, B!First({j \in S : j >= i})>>
       \/ answer' = <<"find_next_clear", i, B!First({j \in (0 .. d.nbits - 1) \ S : j >= i})>>
  BY <1>3, <1>4, <1>5, <1>6, <1>7, <1>8, <1>9, Zenon
<1>12. B!Cardinality(S) = Cardinality(S)
  BY DEF B!Cardinality, Cardinality
<1>13. QED
  BY <1>2, <1>10, <1>11, <1>12, Zenon DEF B!BitAsk, B!Answers

(* The questions of two: eq, is_subset and intersects.                     *)
LEMMA AskBothStep ==
  ASSUME IInv, NEW h \in Handles, NEW g \in Handles, bs[h] # Null, bs[g] # Null, AskBoth(h, g)
  PROVE  IInv' /\ B!BitAskBoth(h, g)
<1>1. PICK d, e, S, T : d = bs[h] /\ e = bs[g] /\ S = Members(d, mem) /\ T = Members(e, mem)
  OBVIOUS
<1>2. Shown(d, mem) /\ Objs[h].bits = S /\ Objs[h].nbits = d.nbits /\ B!Alive(h)
  BY <1>1, LiveShown
<1>3. Shown(e, mem) /\ Objs[g].bits = T /\ Objs[g].nbits = e.nbits /\ B!Alive(g)
  BY <1>1, LiveShown
<1>4. Eq(d, e, mem) = (d.nbits = e.nbits /\ S = T)
  <2>1. Eq(d, e, mem) <=> (d.nbits = e.nbits /\ S = T)
    BY <1>1, <1>2, <1>3, PairsAnswer
  <2>2. QED
    BY <2>1 DEF Eq
<1>5. d.nbits = e.nbits => IsSubset(d, e, mem) = (S \subseteq T)
  <2>1. d.nbits = e.nbits => (IsSubset(d, e, mem) <=> S \subseteq T)
    BY <1>1, <1>2, <1>3, PairsAnswer
  <2>2. QED
    BY <2>1 DEF IsSubset
<1>6. d.nbits = e.nbits => Intersects(d, e, mem) = (S \cap T # {})
  <2>1. d.nbits = e.nbits => (Intersects(d, e, mem) <=> S \cap T # {})
    BY <1>1, <1>2, <1>3, PairsAnswer
  <2>2. QED
    BY <2>1 DEF Intersects
<1>7. /\ UNCHANGED <<bs, mem>>
      /\ \/ answer' = <<"eq", Eq(d, e, mem)>>
         \/ d.nbits = e.nbits /\ answer' = <<"is_subset", IsSubset(d, e, mem)>>
         \/ d.nbits = e.nbits /\ answer' = <<"intersects", Intersects(d, e, mem)>>
  BY <1>1 DEF AskBoth, Answers
<1>8. IInv' /\ Objs' = Objs
  BY <1>7, StandStill
<1>9. \/ answer' = <<"eq", d.nbits = e.nbits /\ S = T>>
      \/ answer' = <<"is_subset", S \subseteq T>>
      \/ answer' = <<"intersects", S \cap T # {}>>
  BY <1>4, <1>5, <1>6, <1>7, Zenon
<1>10. QED
  BY <1>2, <1>3, <1>8, <1>9 DEF B!BitAskBoth, B!Answers

-----------------------------------------------------------------------------
(* All of it: every step keeps the invariant and is one of the promise.    *)

(* Nothing is alive and nothing is lent at first.                          *)
LEMMA InitSound ==
  BitInit => IInv /\ B!BitInit
<1>1. SUFFICES ASSUME BitInit PROVE IInv /\ B!BitInit
  OBVIOUS
<1>2. /\ \A h \in Handles : bs[h] = Null
      /\ bs \in [Handles -> BitSets \cup {Null}] /\ answer = OK
  BY <1>1 DEF BitInit
<1>3. PICK L, H : L = [b \in Blocks |-> Null] /\ H = [p \in Als \X Kinds |-> 0]
  OBVIOUS
<1>4. mem = [lent |-> L, hdrs |-> H]
  BY <1>1, <1>3 DEF BitInit, Empty
<1>5. mem.lent = L /\ mem.hdrs = H
  BY <1>4
<1>6. IsMemory(mem)
  BY <1>3, <1>4, <1>5 DEF IsMemory
<1>7. \A b \in Blocks : mem.lent[b] = Null
  BY <1>3, <1>5
<1>8. ASSUME NEW a \in Als
      PROVE  IsFiniteSet(Live(bs, a)) /\ Hdrs(mem, a) = Cardinality(Live(bs, a))
  <2>1. Live(bs, a) = {}
    BY <1>2 DEF Live
  <2>2. PICK p : p = <<a, "bitset">>
    OBVIOUS
  <2>3. p \in Als \X Kinds
    BY <2>2, BitSetAssumption
  <2>4. H[p] = 0
    BY <1>3, <2>3
  <2>5. Hdrs(mem, a) = 0
    BY <1>5, <2>2, <2>4 DEF Hdrs
  <2>6. QED
    BY <2>1, <2>5, FS_EmptySet
<1>9. IInv
  BY <1>2, <1>6, <1>7, <1>8 DEF IInv, Sound
<1>10. B!BitInit
  BY <1>2 DEF B!BitInit, Objs, IsAlive
<1>11. QED
  BY <1>9, <1>10

(* A call on one bitset, and on two of one universe or allocator.          *)
LEMMA PlainStep ==
  ASSUME IInv, NEW h \in Handles, bs[h] # Null,
         \/ AllBits(h)
         \/ \E i \in 0 .. bs[h].nbits - 1 : OneBit(h, i)
         \/ \E i \in 0 .. bs[h].nbits : Ask(h, i)
         \/ \E g \in Handles : bs[g] # Null /\ (Swap(h, g) \/ Combine(h, g) \/ AskBoth(h, g))
  PROVE  IInv' /\ B!BitNext
<1>1. B!Alive(h) /\ Objs[h].nbits = bs[h].nbits
  BY LiveShown
<1>2. CASE AllBits(h)
  BY <1>2, AllBitsStep DEF B!BitNext
<1>3. ASSUME NEW i \in 0 .. bs[h].nbits - 1, OneBit(h, i)
      PROVE  IInv' /\ B!BitNext
  BY <1>3, OneBitStep DEF B!BitNext
<1>4. ASSUME NEW i \in 0 .. bs[h].nbits, Ask(h, i)
      PROVE  IInv' /\ B!BitNext
  BY <1>1, <1>4, AskStep DEF B!BitNext
<1>5. ASSUME NEW g \in Handles, bs[g] # Null, Swap(h, g) \/ Combine(h, g) \/ AskBoth(h, g)
      PROVE  IInv' /\ B!BitNext
  BY <1>5, SwapStep, CombineStep, AskBothStep DEF B!BitNext
<1>6. QED
  BY <1>2, <1>3, <1>4, <1>5

(* Every step keeps the invariant and is a step of the promise.            *)
LEMMA Inductive ==
  ASSUME IInv, BitNext
  PROVE  IInv' /\ B!BitNext
<1>1. PICK h \in Handles :
        \/ Drop(h)
        \/ /\ IsAlive(h)
           /\ \/ AllBits(h)
              \/ \E i \in 0 .. bs[h].nbits - 1 : OneBit(h, i)
              \/ \E i \in 0 .. bs[h].nbits : Ask(h, i)
              \/ \E g \in {x \in Handles : IsAlive(x)} : Swap(h, g) \/ Combine(h, g) \/ AskBoth(h, g)
        \/ \E room \in Nat, hdr \in 0 .. 1 :
             \/ \E a \in Als, n \in Lens : New(h, a, n, hdr, room)
             \/ \E g \in Handles :
                  \/ \E a \in Als : Copy(h, g, a, hdr, room)
                  \/ CopyAssign(h, g, room)
                  \/ MoveAssign(h, g, hdr, room)
  BY DEF BitNext, BitStep
<1>2. CASE Drop(h)
  BY <1>2, DropStep DEF B!BitNext
<1>3. CASE /\ IsAlive(h)
           /\ \/ AllBits(h)
              \/ \E i \in 0 .. bs[h].nbits - 1 : OneBit(h, i)
              \/ \E i \in 0 .. bs[h].nbits : Ask(h, i)
              \/ \E g \in {x \in Handles : IsAlive(x)} : Swap(h, g) \/ Combine(h, g) \/ AskBoth(h, g)
  BY <1>3, PlainStep DEF IsAlive
<1>4. ASSUME NEW room, NEW hdr, NEW a \in Als, NEW n \in Lens, New(h, a, n, hdr, room)
      PROVE  IInv' /\ B!BitNext
  BY <1>4, NewStep DEF B!BitNext
<1>5. ASSUME NEW room, NEW hdr, NEW g \in Handles, NEW a \in Als, Copy(h, g, a, hdr, room)
      PROVE  IInv' /\ B!BitNext
  BY <1>5, CopyStep DEF B!BitNext
<1>6. ASSUME NEW room, NEW g \in Handles, CopyAssign(h, g, room)
      PROVE  IInv' /\ B!BitNext
  BY <1>6, CopyAssignStep DEF B!BitNext
<1>7. ASSUME NEW room, NEW hdr, NEW g \in Handles, MoveAssign(h, g, hdr, room)
      PROVE  IInv' /\ B!BitNext
  BY <1>7, MoveAssignStep DEF B!BitNext
<1>8. QED
  BY <1>1, <1>2, <1>3, <1>4, <1>5, <1>6, <1>7

(* So is a step of nothing.                                                *)
LEMMA Stuttering ==
  ASSUME IInv, UNCHANGED bitVars
  PROVE  IInv' /\ UNCHANGED B!bVars
<1>1. UNCHANGED <<bs, mem>> /\ answer' = answer
  BY DEF bitVars
<1>2. IInv' /\ Objs' = Objs
  BY <1>1, StandStill
<1>3. QED
  BY <1>1, <1>2 DEF B!bVars

(* In every reachable state, of any number of bitsets of any universes on  *)
(* any allocators, structs, blocks and headers fit together, whatever was  *)
(* refused half way through a call.                                        *)
THEOREM AlwaysSound ==
  BitSpec => []IInv
<1>1. BitInit => IInv
  BY InitSound
<1>2. IInv /\ [BitNext]_bitVars => IInv'
  BY Inductive, Stuttering
<1>3. QED
  BY <1>1, <1>2, PTL DEF BitSpec

(* The invariant says what BooksBalance asks for.                          *)
LEMMA SoundBalances ==
  ASSUME IInv
  PROVE  BooksBalance
<1>1. Sound(bs, mem)
  BY DEF IInv
<1>2. ASSUME NEW h \in Handles, IsAlive(h)
      PROVE  BitSetSound(bs[h], mem) /\ TailIsClear(bs[h], mem)
  <2>1. PICK d : d = bs[h]
    OBVIOUS
  <2>2. StructOK(d, mem.lent) /\ d.nwords = WordsFor(d.nbits) /\ (d.nwords = 0 <=> d.words = Null)
    BY <1>1, <1>2, <2>1 DEF Sound, StructOK, IsAlive
  <2>3. d.nwords \in Nat
    BY <2>2, StructFacts
  <2>4. ASSUME d.nwords > 0
        PROVE  /\ IsLent(mem, d.words, d.al, d.nwords, WordBytes)
               /\ WordsOf(d, mem)[d.nwords - 1] \subseteq TailMask(d.nbits)
    <3>1. PICK u : u = mem.lent[d.words].cells
      OBVIOUS
    <3>2. d.words # Null /\ u \in ClearWords(d.nbits) /\ WordsOf(d, mem) = u
      <4>1. d.words # Null
        BY <2>2, <2>4
      <4>2. mem.lent[d.words].cells \in ClearWords(d.nbits)
        BY <2>2, <4>1, StructFacts
      <4>3. QED
        BY <3>1, <4>1, <4>2 DEF WordsOf
    <3>3. DOMAIN u = 0 .. d.nwords - 1 /\ u[d.nwords - 1] \subseteq TailMask(d.nbits)
      BY <2>2, <2>3, <2>4, <3>2 DEF ClearWords, Places, LiveOf
    <3>4. /\ mem.lent[d.words] # Null /\ mem.lent[d.words].al = d.al
          /\ mem.lent[d.words].bytes = d.nwords * WordBytes
      BY <2>2, <3>2, StructFacts DEF WordsBytes
    <3>5. QED
      BY <3>1, <3>2, <3>3, <3>4 DEF IsLent
  <2>5. QED
    BY <2>1, <2>2, <2>4 DEF BitSetSound, TailIsClear
<1>3. ASSUME NEW b \in Blocks
      PROVE  Cardinality({h \in Handles : IsAlive(h) /\ bs[h].words = b}) =
               IF mem.lent[b] = Null THEN 0 ELSE 1
  <2>1. PICK S : S = {h \in Handles : IsAlive(h) /\ bs[h].words = b}
    OBVIOUS
  <2>2. b # Null
    BY MemoryAssumption
  <2>3. CASE mem.lent[b] = Null
    <3>1. S = {}
      BY <1>1, <2>1, <2>2, <2>3, SoundFacts DEF IsAlive
    <3>2. QED
      BY <2>1, <2>3, <3>1, FS_EmptySet
  <2>4. CASE mem.lent[b] # Null
    <3>1. PICK h \in Handles : bs[h] # Null /\ bs[h].words = b
      BY <1>1, <2>4 DEF Sound
    <3>2. \A g \in S : g = h
      BY <1>1, <2>1, <2>2, <3>1 DEF Sound, IsAlive
    <3>3. S = {h}
      BY <2>1, <3>1, <3>2 DEF IsAlive
    <3>4. QED
      BY <2>1, <2>4, <3>3, FS_Singleton
  <2>5. QED
    BY <2>3, <2>4
<1>4. ASSUME NEW a \in Als
      PROVE  mem.hdrs[<<a, "bitset">>] = Cardinality({h \in Handles : IsAlive(h) /\ bs[h].al = a})
  BY <1>1 DEF Sound, Live, IsAlive, Hdrs
<1>5. QED
  BY <1>2, <1>3, <1>4 DEF BooksBalance

(* Every bitset stands on a block of its own with a clear tail, and no     *)
(* block and no header is lost or lent twice.                              *)
THEOREM BitSetsBalance ==
  BitSpec => []BooksBalance
<1>1. IInv => BooksBalance
  BY SoundBalances
<1>2. QED
  BY <1>1, AlwaysSound, PTL

(* A bitset is a set of indices: each call changes it as if there were no  *)
(* words, and count, any, all, the scans and the comparisons answer by it, *)
(* for every width of a word and every universe.                           *)
THEOREM WordsAreASet ==
  BitSpec => ImplementsBitStore
<1>1. BitInit => B!BitInit
  BY InitSound
<1>2. IInv /\ [BitNext]_bitVars => [B!BitNext]_B!bVars
  BY Inductive, Stuttering
<1>3. QED
  BY <1>1, <1>2, AlwaysSound, PTL DEF BitSpec, ImplementsBitStore, B!BitSpec
=============================================================================
