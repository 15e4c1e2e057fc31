----------------------------- MODULE HMapProofs -----------------------------
(***************************************************************************)
(* What MCHMap and MCHSet check of one map and of two, for any number of   *)
(* maps and sets, keys that collide as they like, and allocators that      *)
(* refuse what they like: chains are sound, entries never move, the books  *)
(* balance, the chains are a map, a set's header stays with its map, and   *)
(* objects are equal when their contents are.                              *)
(*                                                                         *)
(* What the links make of a memory is said by naming, for each map, the    *)
(* set of its nodes. First come the walks along a chain and over all of    *)
(* them; then each helper is shown to exchange a struct, its array and its *)
(* nodes for others, and to do to the entries what its caller is promised; *)
(* then an exchange in one map is shown to leave the others as they were.  *)
(***************************************************************************)
EXTENDS HSet, FiniteSetTheorems, WellFoundedInduction, TLAPS

-----------------------------------------------------------------------------
(* Natural numbers.                                                        *)

(* Naturals that are some have a least.                                    *)
LEMMA LeastNatural ==
  ASSUME NEW X \in SUBSET Nat, X # {}
  PROVE  \E n \in X : \A k \in X : n <= k
<1>1. IsWellFoundedOn(OpToRel(<, Nat), Nat)
  BY NatLessThanWellFounded
<1>2. PICK R : R = OpToRel(<, Nat)
  OBVIOUS
<1>3. \A x, y \in Nat : y < x => <<y, x>> \in R
  BY <1>2 DEF OpToRel
<1>4. X \subseteq Nat /\ IsWellFoundedOn(R, Nat)
  BY <1>1, <1>2
<1>5. PICK x \in X : \A y \in X : ~ (<<y, x>> \in R)
  BY <1>4, WFMin
<1>6. ASSUME NEW y \in X
      PROVE  x <= y
  <2>1. x \in Nat /\ y \in Nat
    OBVIOUS
  <2>2. ~ (y < x)
    BY <1>3, <1>5, <2>1, Zenon
  <2>3. QED
    BY <2>1, <2>2
<1>7. QED
  BY <1>6

(* Induction, over the set of the numbers up to n a formula holds of.      *)
LEMMA UpTo ==
  ASSUME NEW n \in Nat, NEW X \in SUBSET (0 .. n), 0 \in X, \A k \in X : k < n => k + 1 \in X
  PROVE  \A k \in 0 .. n : k \in X
<1>1. SUFFICES ASSUME (0 .. n) \ X # {}
      PROVE  FALSE
  OBVIOUS
<1>2. PICK k \in (0 .. n) \ X : \A l \in (0 .. n) \ X : k <= l
  <2>1. (0 .. n) \ X \in SUBSET Nat
    OBVIOUS
  <2>2. QED
    BY <1>1, <2>1, LeastNatural
<1>3. k # 0 /\ k - 1 \in 0 .. n /\ k - 1 < n /\ (k - 1) + 1 = k
  BY <1>2
<1>4. k - 1 \in X
  BY <1>2, <1>3
<1>5. QED
  BY <1>2, <1>3, <1>4

(* f goes from x on by what next leads to.                                 *)
Unrolled(f, n, x, next) == f = [k \in 0 .. n |-> IF k = 0 THEN x ELSE next[f[k - 1]]]

(* The function a recursion by steps defines is there.                     *)
LEMMA Iterated ==
  ASSUME NEW n \in Nat, NEW x, NEW next
  PROVE  \E f : Unrolled(f, n, x, next)
<1>1. PICK X : X = {l \in 0 .. n : \E f : Unrolled(f, l, x, next)}
  OBVIOUS
<1>2. 0 \in X
  <2>1. PICK f : f = [k \in 0 .. 0 |-> x]
    OBVIOUS
  <2>2. f = [k \in 0 .. 0 |-> IF k = 0 THEN x ELSE next[f[k - 1]]]
    BY <2>1
  <2>3. QED
    BY <1>1, <2>2 DEF Unrolled
<1>3. ASSUME NEW l \in X, l < n
      PROVE  l + 1 \in X
  <2>1. l \in 0 .. n /\ l + 1 \in 0 .. n
    BY <1>1, <1>3
  <2>2. PICK f : f = [k \in 0 .. l |-> IF k = 0 THEN x ELSE next[f[k - 1]]]
    BY <1>1 DEF Unrolled
  <2>3. PICK g : g = [k \in 0 .. l + 1 |-> IF k <= l THEN f[k] ELSE next[f[l]]]
    OBVIOUS
  <2>4. g = [k \in 0 .. l + 1 |-> IF k = 0 THEN x ELSE next[g[k - 1]]]
    BY <2>1, <2>2, <2>3
  <2>5. QED
    BY <1>1, <2>1, <2>4 DEF Unrolled
<1>4. n \in X
  <2>1. X \in SUBSET (0 .. n)
    BY <1>1
  <2>2. \A k \in 0 .. n : k \in X
    BY <1>2, <1>3, <2>1, UpTo
  <2>3. QED
    BY <2>2
<1>5. QED
  BY <1>1, <1>4

(* The number of nodes there can be.                                       *)
LEMMA NodesCounted == Cardinality(Nodes) \in Nat /\ \A X \in SUBSET Nodes : IsFiniteSet(X) /\ Cardinality(X) \in Nat
  BY HMapAssumption, FS_CardinalityType, FS_Subset

(* The constants, but for the functions among them.                        *)
LEMMA ConstantsAre ==
  /\ SizeMax \in Nat /\ 0 \in 0 .. SizeMax
  /\ Base \in 1 .. SizeMax
  /\ Caps \subseteq 0 .. SizeMax
  /\ Arrays \cap Nodes = {}
  /\ OK # NoMem
  BY HMapAssumption

-----------------------------------------------------------------------------
(* A chain.                                                                *)

(* From x the links in m lead along the n nodes of s, and end.             *)
Strung(m, x, n, s) ==
  /\ n \in Nat
  /\ s \in [1 .. n -> Nodes]
  /\ x = IF n = 0 THEN Null ELSE s[1]
  /\ \A k \in 1 .. n : m[s[k]].next = IF k = n THEN Null ELSE s[k + 1]
  /\ \A k, l \in 1 .. n : s[k] = s[l] => k = l

(* There are no more of them than nodes.                                   *)
LEMMA StrungIsShort ==
  ASSUME NEW m, NEW x, NEW n, NEW s, Strung(m, x, n, s)
  PROVE  n <= Cardinality(Nodes)
<1>1. s \in Injection(1 .. n, Nodes)
  BY DEF Strung, Injection, IsInjective
<1>2. Cardinality(1 .. n) = n
  BY FS_Interval DEF Strung
<1>3. QED
  BY <1>1, <1>2, FS_Injection, HMapAssumption DEF Strung

(* What the links lead to, one after another.                              *)
Steps(m) == [y \in Nodes \cup {Null} |-> IF y = Null THEN Null ELSE m[y].next]

(* The recursion of LinkedFrom.                                            *)
LEMMA LinkedFromIs ==
  ASSUME NEW m, NEW x, NEW k \in Nat
  PROVE  \E f : /\ f = [j \in 0 .. k |-> IF j = 0 THEN x ELSE Steps(m)[f[j - 1]]]
                /\ LinkedFrom(m, x, k) = f[k]
<1>1. PICK next : next = Steps(m)
  OBVIOUS
<1>2. \E f : Unrolled(f, k, x, next)
  BY Iterated
<1>3. PICK g : g = CHOOSE f : f = [j \in 0 .. k |-> IF j = 0 THEN x ELSE next[f[j - 1]]]
  OBVIOUS
<1>4. g = [j \in 0 .. k |-> IF j = 0 THEN x ELSE next[g[j - 1]]]
  BY <1>2, <1>3 DEF Unrolled
<1>5. LinkedFrom(m, x, k) = g[k]
  BY <1>1, <1>3 DEF LinkedFrom, Steps
<1>6. QED
  BY <1>1, <1>4, <1>5

(* Following the links of a chain one meets its nodes, and then nothing.   *)
LEMMA LinksMeet ==
  ASSUME NEW m, NEW x, NEW n, NEW s, Strung(m, x, n, s), NEW k \in Nat
  PROVE  LinkedFrom(m, x, k) = IF k < n THEN s[k + 1] ELSE Null
<1>1. PICK f : /\ f = [j \in 0 .. k |-> IF j = 0 THEN x ELSE Steps(m)[f[j - 1]]]
               /\ LinkedFrom(m, x, k) = f[k]
  BY LinkedFromIs, ZenonT(60)
<1>2. PICK X : X = {j \in 0 .. k : f[j] = IF j < n THEN s[j + 1] ELSE Null}
  OBVIOUS
<1>3. n \in Nat /\ s \in [1 .. n -> Nodes] /\ x = IF n = 0 THEN Null ELSE s[1]
  BY DEF Strung
<1>4. \A j \in 1 .. n : m[s[j]].next = IF j = n THEN Null ELSE s[j + 1]
  BY DEF Strung
<1>5. 0 \in X
  BY <1>1, <1>2, <1>3
<1>6. ASSUME NEW j \in X, j < k
      PROVE  j + 1 \in X
  <2>1. j \in 0 .. k /\ j + 1 \in 0 .. k /\ j + 1 # 0 /\ (j + 1) - 1 = j
    BY <1>2, <1>6
  <2>2. f[j + 1] = Steps(m)[f[j]]
    BY <1>1, <2>1
  <2>3. f[j] = IF j < n THEN s[j + 1] ELSE Null
    BY <1>2
  <2>4. CASE j < n
    <3>1. j + 1 \in 1 .. n
      BY <1>3, <2>1, <2>4
    <3>2. s[j + 1] \in Nodes /\ s[j + 1] # Null
      BY <1>3, <3>1, HMapNullAssumption
    <3>3. f[j + 1] = m[s[j + 1]].next
      BY <2>2, <2>3, <2>4, <3>2 DEF Steps
    <3>4. m[s[j + 1]].next = IF j + 1 = n THEN Null ELSE s[(j + 1) + 1]
      BY <1>4, <3>1
    <3>5. f[j + 1] = IF j + 1 < n THEN s[(j + 1) + 1] ELSE Null
      BY <1>3, <2>1, <2>4, <3>1, <3>3, <3>4
    <3>6. QED
      BY <1>2, <2>1, <3>5
  <2>5. CASE ~(j < n)
    <3>1. f[j + 1] = Null
      BY <2>2, <2>3, <2>5 DEF Steps
    <3>2. ~(j + 1 < n)
      BY <1>3, <2>1, <2>5
    <3>3. QED
      BY <1>2, <2>1, <3>1, <3>2
  <2>6. QED
    BY <2>4, <2>5
<1>7. X \in SUBSET (0 .. k)
  BY <1>2
<1>8. k \in X
  BY <1>5, <1>6, <1>7, UpTo
<1>9. QED
  BY <1>1, <1>2, <1>8

(* The chain the code walks is the one the links make.                     *)
LEMMA ChainIs ==
  ASSUME NEW m, NEW x, NEW n, NEW s, Strung(m, x, n, s)
  PROVE  Chain(m, x) = s
<1>1. n <= Cardinality(Nodes)
  BY StrungIsShort
<1>2. n \in Nat /\ s \in [1 .. n -> Nodes] /\ Cardinality(Nodes) \in Nat
  BY NodesCounted DEF Strung
<1>3. PICK L : L = {k \in 0 .. Cardinality(Nodes) - 1 : LinkedFrom(m, x, k) # Null}
  OBVIOUS
<1>4. ASSUME NEW k \in 0 .. Cardinality(Nodes) - 1
      PROVE  LinkedFrom(m, x, k) # Null <=> k < n
  <2>1. LinkedFrom(m, x, k) = IF k < n THEN s[k + 1] ELSE Null
    BY LinksMeet
  <2>2. k < n => s[k + 1] \in Nodes
    BY <1>2
  <2>3. QED
    BY <2>1, <2>2, HMapNullAssumption
<1>5. L = 0 .. n - 1
  BY <1>1, <1>2, <1>3, <1>4
<1>6. Cardinality(L) = n
  BY <1>2, <1>5, FS_Interval
<1>7. Chain(m, x) = [k \in 1 .. n |-> LinkedFrom(m, x, k - 1)]
  BY <1>3, <1>6 DEF Chain
<1>8. ASSUME NEW k \in 1 .. n
      PROVE  LinkedFrom(m, x, k - 1) = s[k]
  <2>1. k - 1 \in Nat /\ k - 1 < n /\ (k - 1) + 1 = k
    BY <1>2
  <2>2. QED
    BY <2>1, LinksMeet
<1>9. s = [k \in 1 .. n |-> s[k]]
  BY <1>2
<1>10. QED
  BY <1>7, <1>8, <1>9

(* A memory that has the nodes of a chain as they were has the chain.      *)
LEMMA StrungStays ==
  ASSUME NEW m, NEW q, NEW x, NEW n, NEW s, Strung(m, x, n, s),
         \A k \in 1 .. n : q[s[k]] = m[s[k]]
  PROVE  Strung(q, x, n, s)
<1>1. \A k \in 1 .. n : q[s[k]].next = IF k = n THEN Null ELSE s[k + 1]
  BY DEF Strung
<1>2. QED
  BY <1>1 DEF Strung

(* The nodes of a chain.                                                   *)
Along(n, s) == {s[k] : k \in 1 .. n}

(* A node put in front of a chain.                                         *)
LEMMA StrungInFront ==
  ASSUME NEW m, NEW q, NEW x, NEW n, NEW s, Strung(m, x, n, s),
         \A k \in 1 .. n : q[s[k]] = m[s[k]],
         NEW y \in Nodes, y \notin Along(n, s), q[y].next = x
  PROVE  \E t : Strung(q, y, n + 1, t) /\ Along(n + 1, t) = Along(n, s) \cup {y}
<1>1. n \in Nat /\ s \in [1 .. n -> Nodes] /\ x = IF n = 0 THEN Null ELSE s[1]
  BY DEF Strung
<1>2. \A k \in 1 .. n : q[s[k]].next = IF k = n THEN Null ELSE s[k + 1]
  BY DEF Strung
<1>3. \A k, l \in 1 .. n : s[k] = s[l] => k = l
  BY DEF Strung
<1>4. \A k \in 1 .. n : s[k] # y
  BY DEF Along
<1>5. PICK t : t = [k \in 1 .. n + 1 |-> IF k = 1 THEN y ELSE s[k - 1]]
  OBVIOUS
<1>6. t \in [1 .. n + 1 -> Nodes] /\ t[1] = y /\ \A k \in 1 .. n : t[k + 1] = s[k]
  BY <1>1, <1>5
<1>7. ASSUME NEW k \in 1 .. n + 1
      PROVE  q[t[k]].next = IF k = n + 1 THEN Null ELSE t[k + 1]
  <2>1. CASE k = 1
    BY <1>1, <1>6, <2>1
  <2>2. CASE k # 1
    <3>1. k - 1 \in 1 .. n /\ (k - 1) + 1 = k
      BY <1>1, <2>2
    <3>2. t[k] = s[k - 1]
      BY <1>6, <3>1
    <3>3. q[t[k]].next = IF k - 1 = n THEN Null ELSE s[k]
      BY <1>2, <3>1, <3>2
    <3>4. k # n + 1 => k \in 1 .. n
      BY <1>1
    <3>5. QED
      BY <1>1, <1>6, <3>1, <3>3, <3>4
  <2>3. QED
    BY <2>1, <2>2
<1>8. ASSUME NEW k \in 1 .. n + 1, NEW l \in 1 .. n + 1, t[k] = t[l]
      PROVE  k = l
  BY <1>1, <1>3, <1>4, <1>5, <1>8
<1>9. Along(n + 1, t) = Along(n, s) \cup {y}
  <2>1. ASSUME NEW k \in 1 .. n + 1
        PROVE  t[k] \in Along(n, s) \cup {y}
    BY <1>1, <1>5 DEF Along
  <2>2. ASSUME NEW k \in 1 .. n
        PROVE  s[k] \in Along(n + 1, t)
    <3>1. k + 1 \in 1 .. n + 1 /\ t[k + 1] = s[k]
      BY <1>1, <1>6
    <3>2. QED
      BY <3>1 DEF Along
  <2>3. y \in Along(n + 1, t)
    <3>1. 1 \in 1 .. n + 1
      BY <1>1
    <3>2. QED
      BY <1>6, <3>1 DEF Along
  <2>4. QED
    BY <2>1, <2>2, <2>3 DEF Along
<1>10. Strung(q, y, n + 1, t)
  BY <1>1, <1>6, <1>7, <1>8 DEF Strung
<1>11. QED
  BY <1>9, <1>10

-----------------------------------------------------------------------------
(* Memories that differ in what one call touches.                          *)

IsMemory(m) == m = [a \in Addrs |-> m[a]]

(* From m to q the blocks F became the blocks G; the others are as they    *)
(* were, what G has anew was free, and what it lacks is.                   *)
Swapped(F, m, G, q) ==
  /\ \A a \in Addrs : a \notin F /\ a \notin G => q[a] = m[a]
  /\ \A a \in G : a \notin F => m[a] = Null
  /\ \A a \in F : a \notin G => q[a] = Null

Lent(m, F) == \A a \in F : a \in Addrs /\ m[a] # Null

(* One exchange after another is one.                                      *)
LEMMA SwapsCompose ==
  ASSUME NEW F, NEW G \in SUBSET Addrs, NEW H, F \subseteq Addrs, H \subseteq Addrs, NEW m, NEW q, NEW r,
         Swapped(F, m, G, q), Swapped(G, q, H, r)
  PROVE  Swapped(F, m, H, r)
  BY DEF Swapped

(* Blocks that were lent, and were not what changed, are as they were.     *)
LEMMA SwapKeeps ==
  ASSUME NEW F, NEW m, NEW G, NEW q, Swapped(F, m, G, q), NEW H, Lent(m, H), F \cap H = {}
  PROVE  G \cap H = {} /\ \A a \in H : q[a] = m[a]
  BY DEF Swapped, Lent

(* Nothing for nothing is no change.                                       *)
LEMMA SwapOfNothing ==
  ASSUME NEW m, NEW q, Swapped({}, m, {}, q), IsMemory(m), IsMemory(q)
  PROVE  q = m
<1>1. \A a \in Addrs : q[a] = m[a]
  BY DEF Swapped
<1>2. [a \in Addrs |-> q[a]] = [a \in Addrs |-> m[a]]
  BY <1>1
<1>3. QED
  BY <1>2, Zenon DEF IsMemory

-----------------------------------------------------------------------------
(* A map over its nodes.                                                   *)

InBucket(m, n, Y, i) == {x \in Y : BucketOf(n, m[x].hash) = i}

(* The chain from y goes through the nodes Y.                              *)
Chained(m, y, Y) == \E l, s : Strung(m, y, l, s) /\ Along(l, s) = Y

(* The n buckets of the array b lead to the nodes Y, each in its own.      *)
Filed(m, b, n, Y) == \A i \in 0 .. n - 1 : Chained(m, m[b].slots[i], InBucket(m, n, Y, i))

EntryOK(d, m, x) == m[x] \in MapNodes /\ m[x].al = d.al /\ m[x].hash = d.hasher[m[x].key]

ArrayOK(d, m, n, b) == b \in Arrays /\ m[b] \in BucketArray(n) /\ m[b].al = d.al

(* The map d has in the memory m the nodes X.                              *)
MapOK(d, m, X) ==
  /\ d \in Maps /\ d.count \in Pow2s \cup {0}
  /\ X \subseteq Nodes
  /\ \A x \in X : EntryOK(d, m, x)
  /\ \A x, y \in X : m[x].key = m[y].key => x = y
  /\ d.len = Cardinality(X) /\ d.len <= d.count
  /\ d.count = 0 => d.buckets = Null
  /\ d.count # 0 => ArrayOK(d, m, d.count, d.buckets) /\ Filed(m, d.buckets, d.count, X)

Foot(d, X) == IF d = Null THEN {} ELSE X \cup ({d.buckets} \ {Null})

(* A bucket there is.                                                      *)
LEMMA BucketIs ==
  ASSUME NEW n \in Nat, n # 0, NEW hash \in Nat
  PROVE  BucketOf(n, hash) \in 0 .. n - 1
  BY DEF BucketOf

(* A hash is a natural number.                                             *)
LEMMA HashIs ==
  ASSUME NEW hs \in Hashers, NEW key \in Keys
  PROVE  hs[key] \in Nat
  BY HMapAssumption

(* A struct's fields.                                                      *)
LEMMA MapIs ==
  ASSUME NEW d \in Maps
  PROVE  /\ d # Null
         /\ d.buckets \in Arrays \cup {Null}
         /\ d.count \in Nat /\ d.len \in Nat /\ d.hasher \in Hashers /\ d.al \in Als
  BY HMapNullAssumption DEF Maps

(* A node's fields.                                                        *)
LEMMA NodeIs ==
  ASSUME NEW e \in MapNodes
  PROVE  /\ e # Null
         /\ e.al \in Als /\ e.key \in Keys /\ e.val \in Vals /\ e.hash \in Nat
         /\ e.next \in Nodes \cup {Null}
  BY HMapNullAssumption DEF MapNodes

(* Lengths are some, and none is too long.                                 *)
LEMMA LengthsAre == Pow2s \subseteq 0 .. SizeMax
  BY DEF Pow2s

(* An array of buckets.                                                    *)
LEMMA ArrayIs ==
  ASSUME NEW n \in 0 .. SizeMax, NEW e \in BucketArray(n)
  PROVE  e # Null /\ e.al \in Als /\ e.slots \in [0 .. n - 1 -> Nodes \cup {Null}]
  BY HMapNullAssumption DEF BucketArray

(* What a map stands on is lent.                                           *)
LEMMA FootIsLent ==
  ASSUME NEW d, NEW m, NEW X, MapOK(d, m, X)
  PROVE  Lent(m, Foot(d, X)) /\ Foot(d, X) \subseteq Addrs
<1>1. d \in Maps /\ d.count \in Pow2s \cup {0} /\ X \subseteq Nodes
  BY DEF MapOK
<1>2. d # Null /\ d.count \in Nat /\ d.buckets \in Arrays \cup {Null}
  BY <1>1, MapIs
<1>3. ASSUME NEW x \in X
      PROVE  x \in Addrs /\ m[x] # Null
  <2>1. m[x] \in MapNodes
    BY DEF MapOK, EntryOK
  <2>2. QED
    BY <1>1, <2>1, NodeIs DEF Addrs
<1>4. CASE d.count = 0
  <2>1. d.buckets = Null
    BY <1>4 DEF MapOK
  <2>2. Foot(d, X) = X
    BY <1>2, <2>1 DEF Foot
  <2>3. QED
    BY <1>3, <2>2 DEF Lent
<1>5. CASE d.count # 0
  <2>1. d.count \in 0 .. SizeMax
    BY <1>1, <1>5, LengthsAre
  <2>2. d.buckets \in Arrays /\ m[d.buckets] \in BucketArray(d.count)
    BY <1>5 DEF MapOK, ArrayOK
  <2>3. m[d.buckets] # Null
    BY <2>1, <2>2, ArrayIs
  <2>4. Foot(d, X) \subseteq X \cup {d.buckets}
    BY DEF Foot
  <2>5. d.buckets \in Addrs
    BY <2>2 DEF Addrs
  <2>6. QED
    BY <1>3, <2>3, <2>4, <2>5 DEF Lent
<1>6. QED
  BY <1>4, <1>5

(* A chain goes on as it was in a memory that has its nodes as they were.  *)
LEMMA ChainedStays ==
  ASSUME NEW m, NEW q, NEW y, NEW Y, Chained(m, y, Y), \A x \in Y : q[x] = m[x]
  PROVE  Chained(q, y, Y)
<1>1. PICK l, s : Strung(m, y, l, s) /\ Along(l, s) = Y
  BY DEF Chained
<1>2. \A k \in 1 .. l : s[k] \in Y
  BY <1>1 DEF Along
<1>3. \A k \in 1 .. l : q[s[k]] = m[s[k]]
  BY <1>2
<1>4. Strung(q, y, l, s)
  BY <1>1, <1>3, StrungStays
<1>5. QED
  BY <1>1, <1>4 DEF Chained

(* A map is as sound in any memory that has what it stands on as it was.   *)
LEMMA MapStays ==
  ASSUME NEW d, NEW m, NEW X, MapOK(d, m, X), NEW q, \A a \in Foot(d, X) : q[a] = m[a]
  PROVE  MapOK(d, q, X)
<1>1. d \in Maps /\ d.count \in Pow2s \cup {0} /\ X \subseteq Nodes
  BY DEF MapOK
<1>2. d # Null /\ d.count \in Nat
  BY <1>1, MapIs
<1>3. \A x \in X : q[x] = m[x]
  BY <1>2 DEF Foot
<1>4. \A x \in X : EntryOK(d, q, x)
  BY <1>3 DEF EntryOK, MapOK
<1>5. \A x, y \in X : q[x].key = q[y].key => x = y
  BY <1>3 DEF MapOK
<1>6. ASSUME d.count # 0
      PROVE  ArrayOK(d, q, d.count, d.buckets) /\ Filed(q, d.buckets, d.count, X)
  <2>1. ArrayOK(d, m, d.count, d.buckets) /\ Filed(m, d.buckets, d.count, X)
    BY <1>6 DEF MapOK
  <2>2. d.buckets \in Foot(d, X)
    BY <1>2, <2>1, HMapNullAssumption DEF Foot, ArrayOK
  <2>3. q[d.buckets] = m[d.buckets]
    BY <2>2
  <2>4. ASSUME NEW i \in 0 .. d.count - 1
        PROVE  Chained(q, q[d.buckets].slots[i], InBucket(q, d.count, X, i))
    <3>1. InBucket(q, d.count, X, i) = InBucket(m, d.count, X, i)
      BY <1>3 DEF InBucket
    <3>2. Chained(m, m[d.buckets].slots[i], InBucket(m, d.count, X, i))
      BY <2>1 DEF Filed
    <3>3. \A x \in InBucket(m, d.count, X, i) : q[x] = m[x]
      BY <1>3 DEF InBucket
    <3>4. Chained(q, m[d.buckets].slots[i], InBucket(m, d.count, X, i))
      BY <3>2, <3>3, ChainedStays
    <3>5. QED
      BY <2>3, <3>1, <3>4
  <2>5. QED
    BY <2>1, <2>3, <2>4 DEF Filed, ArrayOK
<1>7. QED
  BY <1>1, <1>4, <1>5, <1>6 DEF MapOK

-----------------------------------------------------------------------------
(* Looking a key up.                                                       *)

Matches(m, y, hash, key) == m[y].hash = hash /\ m[y].key = key

(* Where a search for a key goes on from a node, or stays.                 *)
Onward(m, hash, key) ==
  [y \in Nodes \cup {Null} |-> IF y = Null \/ Matches(m, y, hash, key) THEN y ELSE m[y].next]

(* The recursion of FindNode.                                              *)
LEMMA FindNodeIs ==
  ASSUME NEW d, NEW m, NEW key, d.count # 0
  PROVE  \E f : /\ Unrolled(f, Cardinality(Nodes), m[d.buckets].slots[BucketOf(d.count, d.hasher[key])],
                            Onward(m, d.hasher[key], key))
                /\ FindNode(d, m, key) = f[Cardinality(Nodes)]
<1>1. PICK next : next = Onward(m, d.hasher[key], key)
  OBVIOUS
<1>2. PICK x : x = m[d.buckets].slots[BucketOf(d.count, d.hasher[key])]
  OBVIOUS
<1>3. PICK n : n = Cardinality(Nodes)
  OBVIOUS
<1>4. \E f : Unrolled(f, n, x, next)
  <2>1. n \in Nat
    BY <1>3, NodesCounted
  <2>2. QED
    BY <2>1, Iterated
<1>5. PICK g : g = CHOOSE f : f = [j \in 0 .. n |-> IF j = 0 THEN x ELSE next[f[j - 1]]]
  OBVIOUS
<1>6. Unrolled(g, n, x, next)
  BY <1>4, <1>5 DEF Unrolled
<1>7. FindNode(d, m, key) = g[n]
  BY <1>1, <1>2, <1>3, <1>5 DEF FindNode, Onward, Matches
<1>8. QED
  BY <1>1, <1>2, <1>3, <1>6, <1>7

(* What is met after i steps along a chain.                                *)
Met(l, s, i) == IF i < l THEN s[i + 1] ELSE Null

(* A search stops at the node that matches, or at the end.                 *)
LEMMA SearchStops ==
  ASSUME NEW m, NEW x, NEW l, NEW s, Strung(m, x, l, s), NEW hash, NEW key,
         NEW p \in 0 .. l, \A i \in 1 .. p : ~Matches(m, s[i], hash, key),
         p < l => Matches(m, s[p + 1], hash, key),
         NEW n \in Nat, l <= n, NEW f, Unrolled(f, n, x, Onward(m, hash, key))
  PROVE  f[n] = Met(l, s, p)
<1>1. l \in Nat /\ s \in [1 .. l -> Nodes] /\ x = IF l = 0 THEN Null ELSE s[1]
  BY DEF Strung
<1>2. \A i \in 1 .. l : m[s[i]].next = IF i = l THEN Null ELSE s[i + 1]
  BY DEF Strung
<1>3. f = [j \in 0 .. n |-> IF j = 0 THEN x ELSE Onward(m, hash, key)[f[j - 1]]]
  BY DEF Unrolled
<1>4. PICK X : X = {k \in 0 .. n : f[k] = Met(l, s, IF k < p THEN k ELSE p)}
  OBVIOUS
<1>5. 0 \in X
  <2>1. f[0] = x
    BY <1>3
  <2>2. f[0] = Met(l, s, 0)
    BY <1>1, <2>1 DEF Met
  <2>3. QED
    BY <1>1, <1>4, <2>2
<1>6. ASSUME NEW k \in X, k < n
      PROVE  k + 1 \in X
  <2>1. k \in 0 .. n /\ k + 1 \in 0 .. n /\ k + 1 # 0 /\ (k + 1) - 1 = k
    BY <1>4, <1>6
  <2>2. f[k + 1] = Onward(m, hash, key)[f[k]]
    BY <1>3, <2>1
  <2>3. CASE k < p
    <3>1. f[k] = Met(l, s, k)
      BY <1>4, <2>3
    <3>2. k < l /\ k + 1 \in 1 .. l /\ k + 1 \in 1 .. p
      BY <1>1, <2>1, <2>3
    <3>3. f[k] = s[k + 1]
      BY <3>1, <3>2 DEF Met
    <3>4. ~Matches(m, s[k + 1], hash, key) /\ s[k + 1] \in Nodes /\ s[k + 1] # Null
      BY <1>1, <3>2, HMapNullAssumption
    <3>5. f[k + 1] = m[s[k + 1]].next
      BY <2>2, <3>3, <3>4 DEF Onward
    <3>6. m[s[k + 1]].next = Met(l, s, k + 1)
      BY <1>1, <1>2, <3>2 DEF Met
    <3>7. (IF k + 1 < p THEN k + 1 ELSE p) = k + 1
      BY <2>1, <2>3, <3>2
    <3>8. QED
      BY <1>4, <2>1, <3>5, <3>6, <3>7
  <2>4. CASE ~(k < p)
    <3>1. f[k] = Met(l, s, p)
      BY <1>4, <2>4
    <3>2. f[k + 1] = f[k]
      <4>1. CASE p < l
        <5>1. f[k] = s[p + 1] /\ p + 1 \in 1 .. l
          BY <1>1, <3>1, <4>1 DEF Met
        <5>2. s[p + 1] \in Nodes
          BY <1>1, <5>1
        <5>3. QED
          BY <2>2, <4>1, <5>1, <5>2 DEF Onward
      <4>2. CASE ~(p < l)
        <5>1. f[k] = Null
          BY <3>1, <4>2 DEF Met
        <5>2. QED
          BY <2>2, <5>1 DEF Onward
      <4>3. QED
        BY <4>1, <4>2
    <3>3. ~(k + 1 < p)
      BY <1>1, <2>1, <2>4
    <3>4. QED
      BY <1>4, <2>1, <3>1, <3>2, <3>3
  <2>5. QED
    BY <2>3, <2>4
<1>7. X \in SUBSET (0 .. n)
  BY <1>4
<1>8. n \in X
  BY <1>5, <1>6, <1>7, UpTo
<1>9. (IF n < p THEN n ELSE p) = p
  BY <1>1
<1>10. QED
  BY <1>4, <1>8, <1>9

(* A map that has a node has buckets.                                      *)
LEMMA NodesAreInBuckets ==
  ASSUME NEW d, NEW m, NEW X, MapOK(d, m, X)
  PROVE  /\ d.count = 0 => X = {}
         /\ IsFiniteSet(X) /\ Cardinality(X) \in Nat
<1>1. IsFiniteSet(X) /\ Cardinality(X) \in Nat
  BY NodesCounted DEF MapOK
<1>2. d.len = Cardinality(X) /\ d.len <= d.count
  BY DEF MapOK
<1>3. d.count = 0 => Cardinality(X) = 0
  BY <1>1, <1>2
<1>4. QED
  BY <1>1, <1>3, FS_EmptySet

(* The chain a key belongs to.                                             *)
LEMMA KeyHasAChain ==
  ASSUME NEW d, NEW m, NEW X, MapOK(d, m, X), d.count # 0, NEW key \in Keys
  PROVE  \E l, s : /\ Strung(m, m[d.buckets].slots[BucketOf(d.count, d.hasher[key])], l, s)
                   /\ Along(l, s) = InBucket(m, d.count, X, BucketOf(d.count, d.hasher[key]))
<1>1. d.count \in Nat /\ d.hasher[key] \in Nat
  BY MapIs, HashIs DEF MapOK
<1>2. BucketOf(d.count, d.hasher[key]) \in 0 .. d.count - 1
  BY <1>1, BucketIs
<1>3. Filed(m, d.buckets, d.count, X)
  BY DEF MapOK
<1>4. QED
  BY <1>2, <1>3 DEF Filed, Chained

(* A key that is there is found.                                           *)
LEMMA FindsNode ==
  ASSUME NEW d, NEW m, NEW X, MapOK(d, m, X), NEW x \in X
  PROVE  FindNode(d, m, m[x].key) = x
<1>1. d.count # 0
  BY NodesAreInBuckets
<1>2. PICK key : key = m[x].key
  OBVIOUS
<1>3. key \in Keys /\ m[x].hash = d.hasher[key]
  BY <1>2, NodeIs DEF MapOK, EntryOK
<1>4. PICK l, s : /\ Strung(m, m[d.buckets].slots[BucketOf(d.count, d.hasher[key])], l, s)
                  /\ Along(l, s) = InBucket(m, d.count, X, BucketOf(d.count, d.hasher[key]))
  BY <1>1, <1>3, KeyHasAChain
<1>5. x \in Along(l, s)
  BY <1>3, <1>4 DEF InBucket
<1>6. PICK j \in 1 .. l : s[j] = x
  BY <1>5 DEF Along
<1>7. l \in Nat /\ (\A i, k \in 1 .. l : s[i] = s[k] => i = k)
  BY <1>4 DEF Strung
<1>8. j - 1 \in 0 .. l /\ j - 1 < l /\ (j - 1) + 1 = j
  BY <1>7
<1>9. ASSUME NEW i \in 1 .. j - 1
      PROVE  ~Matches(m, s[i], d.hasher[key], key)
  <2>1. i \in 1 .. l /\ i # j
    BY <1>7
  <2>2. s[i] \in X /\ s[i] # x
    BY <1>4, <1>6, <1>7, <2>1 DEF Along, InBucket
  <2>3. m[s[i]].key # key
    BY <1>2, <2>2 DEF MapOK
  <2>4. QED
    BY <2>3 DEF Matches
<1>10. Matches(m, s[(j - 1) + 1], d.hasher[key], key)
  BY <1>2, <1>3, <1>6, <1>8 DEF Matches
<1>11. PICK f : /\ Unrolled(f, Cardinality(Nodes), m[d.buckets].slots[BucketOf(d.count, d.hasher[key])],
                            Onward(m, d.hasher[key], key))
                /\ FindNode(d, m, key) = f[Cardinality(Nodes)]
  BY <1>1, FindNodeIs
<1>12. l <= Cardinality(Nodes) /\ Cardinality(Nodes) \in Nat
  BY <1>4, StrungIsShort, NodesCounted
<1>13. f[Cardinality(Nodes)] = Met(l, s, j - 1)
  BY <1>4, <1>8, <1>9, <1>10, <1>11, <1>12, SearchStops
<1>14. Met(l, s, j - 1) = x
  BY <1>6, <1>8 DEF Met
<1>15. QED
  BY <1>2, <1>11, <1>13, <1>14

(* And one that is not there is not.                                       *)
LEMMA FindsNone ==
  ASSUME NEW d, NEW m, NEW X, MapOK(d, m, X), NEW key \in Keys, \A x \in X : m[x].key # key
  PROVE  FindNode(d, m, key) = Null
<1>1. CASE d.count = 0
  BY <1>1 DEF FindNode
<1>2. CASE d.count # 0
  <2>1. PICK l, s : /\ Strung(m, m[d.buckets].slots[BucketOf(d.count, d.hasher[key])], l, s)
                    /\ Along(l, s) = InBucket(m, d.count, X, BucketOf(d.count, d.hasher[key]))
    BY <1>2, KeyHasAChain
  <2>2. l \in Nat /\ l \in 0 .. l
    BY <2>1 DEF Strung
  <2>3. ASSUME NEW i \in 1 .. l
        PROVE  ~Matches(m, s[i], d.hasher[key], key)
    <3>1. s[i] \in X
      BY <2>1 DEF Along, InBucket
    <3>2. QED
      BY <3>1 DEF Matches
  <2>4. PICK f : /\ Unrolled(f, Cardinality(Nodes), m[d.buckets].slots[BucketOf(d.count, d.hasher[key])],
                             Onward(m, d.hasher[key], key))
                 /\ FindNode(d, m, key) = f[Cardinality(Nodes)]
    BY <1>2, FindNodeIs
  <2>5. l <= Cardinality(Nodes) /\ Cardinality(Nodes) \in Nat
    BY <2>1, StrungIsShort, NodesCounted
  <2>6. ~(l < l)
    BY <2>2
  <2>7. f[Cardinality(Nodes)] = Met(l, s, l)
    BY <2>1, <2>2, <2>3, <2>4, <2>5, <2>6, SearchStops
  <2>8. QED
    BY <2>4, <2>6, <2>7 DEF Met
<1>3. QED
  BY <1>1, <1>2

(* Either way.                                                             *)
LEMMA Finds ==
  ASSUME NEW d, NEW m, NEW X, MapOK(d, m, X), NEW key \in Keys
  PROVE  /\ FindNode(d, m, key) \in X \cup {Null}
         /\ FindNode(d, m, key) # Null => m[FindNode(d, m, key)].key = key
         /\ FindNode(d, m, key) = Null => \A x \in X : m[x].key # key
<1>1. CASE \A x \in X : m[x].key # key
  BY <1>1, FindsNone
<1>2. CASE \E x \in X : m[x].key = key
  <2>1. PICK x \in X : m[x].key = key
    BY <1>2
  <2>2. FindNode(d, m, key) = x
    BY <2>1, FindsNode
  <2>3. x # Null
    BY HMapNullAssumption DEF MapOK
  <2>4. QED
    BY <2>1, <2>2, <2>3
<1>3. QED
  BY <1>1, <1>2

-----------------------------------------------------------------------------
(* Entries.                                                                *)

EntriesOf(d, m) ==
  [k \in {k \in Keys : FindNode(d, m, k) # Null} |-> m[FindNode(d, m, k)].val]

KeysIn(m, X) == {m[x].key : x \in X}

(* e is what the nodes X hold, by key.                                     *)
Reads(e, m, X) == e \in [KeysIn(m, X) -> Vals] /\ \A x \in X : e[m[x].key] = m[x].val

(* What the nodes hold is one thing.                                       *)
LEMMA ReadsOnce ==
  ASSUME NEW e, NEW f, NEW m, NEW X, Reads(e, m, X), Reads(f, m, X)
  PROVE  e = f
<1>1. \A k \in KeysIn(m, X) : e[k] = f[k]
  BY DEF Reads, KeysIn
<1>2. e \in [KeysIn(m, X) -> Vals] /\ f \in [KeysIn(m, X) -> Vals]
  BY DEF Reads
<1>3. QED
  BY <1>1, <1>2

(* What the code finds in a map is what its nodes hold.                    *)
LEMMA FoundIsRead ==
  ASSUME NEW d, NEW m, NEW X, MapOK(d, m, X)
  PROVE  Reads(EntriesOf(d, m), m, X)
<1>1. PICK K : K = {k \in Keys : FindNode(d, m, k) # Null}
  OBVIOUS
<1>2. PICK e : e = EntriesOf(d, m)
  OBVIOUS
<1>3. e = [k \in K |-> m[FindNode(d, m, k)].val]
  BY <1>1, <1>2 DEF EntriesOf
<1>4. ASSUME NEW x \in X
      PROVE  m[x].key \in Keys /\ m[x].val \in Vals /\ FindNode(d, m, m[x].key) = x /\ x # Null
  <2>1. m[x] \in MapNodes /\ x \in Nodes
    BY DEF MapOK, EntryOK
  <2>2. FindNode(d, m, m[x].key) = x
    BY FindsNode
  <2>3. QED
    BY <2>1, <2>2, NodeIs, HMapNullAssumption
<1>5. ASSUME NEW k \in K
      PROVE  k \in KeysIn(m, X) /\ e[k] \in Vals
  <2>1. k \in Keys /\ FindNode(d, m, k) # Null
    BY <1>1
  <2>2. FindNode(d, m, k) \in X /\ m[FindNode(d, m, k)].key = k
    BY <2>1, Finds
  <2>3. QED
    BY <1>3, <1>4, <2>2 DEF KeysIn
<1>6. KeysIn(m, X) \subseteq K
  BY <1>1, <1>4 DEF KeysIn
<1>7. K = KeysIn(m, X)
  BY <1>5, <1>6
<1>8. e \in [KeysIn(m, X) -> Vals]
  BY <1>3, <1>5, <1>7
<1>9. \A x \in X : e[m[x].key] = m[x].val
  BY <1>1, <1>3, <1>4
<1>10. QED
  BY <1>2, <1>8, <1>9 DEF Reads

(* So what its nodes hold is what the code finds.                          *)
LEMMA ReadIsFound ==
  ASSUME NEW d, NEW m, NEW X, MapOK(d, m, X), NEW e, Reads(e, m, X)
  PROVE  EntriesOf(d, m) = e
  BY FoundIsRead, ReadsOnce

(* The keys and values of x are in q what they are in m.                   *)
Keeps(m, q, X) == \A x \in X : q[x].key = m[x].key /\ q[x].val = m[x].val

(* Nodes that keep their keys and values hold the same.                    *)
LEMMA KeepersRead ==
  ASSUME NEW e, NEW m, NEW q, NEW X, Reads(e, m, X), Keeps(m, q, X)
  PROVE  Reads(e, q, X)
<1>1. KeysIn(q, X) = KeysIn(m, X)
  BY DEF Keeps, KeysIn
<1>2. QED
  BY <1>1 DEF Reads, Keeps

(* No nodes hold no entries.                                               *)
LEMMA NothingRead ==
  ASSUME NEW m
  PROVE  Reads(M!NoEntries, m, {})
<1>1. KeysIn(m, {}) = {}
  BY DEF KeysIn
<1>2. M!NoEntries \in [{} -> Vals]
  BY DEF M!NoEntries
<1>3. QED
  BY <1>1, <1>2 DEF Reads

(* A node more, with a key of its own.                                     *)
LEMMA OneMoreRead ==
  ASSUME NEW e, NEW m, NEW q, NEW X, Reads(e, m, X), Keeps(m, q, X), NEW y, y \notin X,
         q[y].val \in Vals, q[y].key \notin KeysIn(m, X)
  PROVE  Reads(M!Put(e, q[y].key, q[y].val), q, X \cup {y})
<1>1. PICK k, v : k = q[y].key /\ v = q[y].val
  OBVIOUS
<1>2. e \in [KeysIn(m, X) -> Vals] /\ \A x \in X : e[m[x].key] = m[x].val
  BY DEF Reads
<1>3. KeysIn(q, X \cup {y}) = KeysIn(m, X) \cup {k}
  BY <1>1 DEF KeysIn, Keeps
<1>4. PICK f : f = [x \in KeysIn(m, X) \cup {k} |-> IF x = k THEN v ELSE e[x]]
  OBVIOUS
<1>5. M!Put(e, k, v) = f
  BY <1>2, <1>4 DEF M!Put
<1>6. f \in [KeysIn(m, X) \cup {k} -> Vals]
  BY <1>1, <1>2, <1>4
<1>7. ASSUME NEW x \in X \cup {y}
      PROVE  f[q[x].key] = q[x].val
  <2>1. CASE x = y
    BY <1>1, <1>4, <2>1
  <2>2. CASE x # y
    <3>1. x \in X /\ m[x].key \in KeysIn(m, X)
      BY <2>2 DEF KeysIn
    <3>2. q[x].key = m[x].key /\ q[x].val = m[x].val
      BY <3>1 DEF Keeps
    <3>3. m[x].key # k
      BY <1>1, <3>1
    <3>4. QED
      BY <1>2, <1>4, <3>1, <3>2, <3>3
  <2>3. QED
    BY <2>1, <2>2
<1>8. QED
  BY <1>1, <1>3, <1>5, <1>6, <1>7 DEF Reads

(* No key is in two of the nodes X.                                        *)
OneEach(m, X) == \A x, y \in X : m[x].key = m[y].key => x = y

(* A value written anew.                                                   *)
LEMMA OverwrittenRead ==
  ASSUME NEW e, NEW m, NEW q, NEW X, Reads(e, m, X), NEW y \in X,
         OneEach(m, X),
         Keeps(m, q, X \ {y}), q[y].key = m[y].key, q[y].val \in Vals
  PROVE  Reads(M!Put(e, m[y].key, q[y].val), q, X)
<1>1. PICK k, v : k = m[y].key /\ v = q[y].val
  OBVIOUS
<1>2. e \in [KeysIn(m, X) -> Vals] /\ \A x \in X : e[m[x].key] = m[x].val
  BY DEF Reads
<1>3. \A x \in X : q[x].key = m[x].key
  BY DEF Keeps
<1>4. KeysIn(q, X) = KeysIn(m, X) /\ k \in KeysIn(m, X)
  BY <1>1, <1>3 DEF KeysIn
<1>5. PICK f : f = [x \in KeysIn(m, X) |-> IF x = k THEN v ELSE e[x]]
  OBVIOUS
<1>6. M!Put(e, k, v) = f
  <2>1. DOMAIN e \cup {k} = KeysIn(m, X)
    BY <1>2, <1>4
  <2>2. QED
    BY <1>5, <2>1 DEF M!Put
<1>7. f \in [KeysIn(m, X) -> Vals]
  BY <1>1, <1>2, <1>5
<1>8. ASSUME NEW x \in X
      PROVE  f[q[x].key] = q[x].val
  <2>1. m[x].key \in KeysIn(m, X)
    BY DEF KeysIn
  <2>2. CASE x = y
    BY <1>1, <1>3, <1>5, <2>1, <2>2
  <2>3. CASE x # y
    <3>1. m[x].key # k
      BY <1>1, <2>3 DEF OneEach
    <3>2. q[x].val = m[x].val
      BY <2>3 DEF Keeps
    <3>3. QED
      BY <1>2, <1>3, <1>5, <2>1, <3>1, <3>2
  <2>4. QED
    BY <2>2, <2>3
<1>9. QED
  BY <1>1, <1>4, <1>6, <1>7, <1>8 DEF Reads

(* A node less.                                                            *)
LEMMA OneLessRead ==
  ASSUME NEW e, NEW m, NEW q, NEW X, Reads(e, m, X), NEW y \in X,
         OneEach(m, X), Keeps(m, q, X \ {y})
  PROVE  Reads(M!Without(e, m[y].key), q, X \ {y})
<1>1. PICK k : k = m[y].key
  OBVIOUS
<1>2. e \in [KeysIn(m, X) -> Vals] /\ \A x \in X : e[m[x].key] = m[x].val
  BY DEF Reads
<1>3. KeysIn(q, X \ {y}) = KeysIn(m, X) \ {k}
  BY <1>1 DEF KeysIn, Keeps, OneEach
<1>4. PICK f : f = [x \in KeysIn(m, X) \ {k} |-> e[x]]
  OBVIOUS
<1>5. M!Without(e, k) = f
  BY <1>2, <1>4 DEF M!Without
<1>6. f \in [KeysIn(m, X) \ {k} -> Vals]
  BY <1>2, <1>4
<1>7. ASSUME NEW x \in X \ {y}
      PROVE  f[q[x].key] = q[x].val
  <2>1. m[x].key \in KeysIn(m, X) /\ m[x].key # k
    BY <1>1 DEF KeysIn, OneEach
  <2>2. q[x].key = m[x].key /\ q[x].val = m[x].val
    BY DEF Keeps
  <2>3. QED
    BY <1>2, <1>4, <2>1, <2>2
<1>8. QED
  BY <1>1, <1>3, <1>5, <1>6, <1>7 DEF Reads

-----------------------------------------------------------------------------
(* The walk over a map.                                                    *)

(* s is the nodes Y, each once.                                            *)
Listing(s, Y) ==
  /\ s \in Seq(Nodes)
  /\ \A k \in 1 .. Len(s) : s[k] \in Y
  /\ \A y \in Y : \E k \in 1 .. Len(s) : s[k] = y
  /\ \A k, l \in 1 .. Len(s) : s[k] = s[l] => k = l

(* The chain in a bucket, listed.                                          *)
LEMMA ChainLists ==
  ASSUME NEW m, NEW x, NEW Y, Chained(m, x, Y)
  PROVE  Listing(Chain(m, x), Y)
<1>1. PICK l, s : Strung(m, x, l, s) /\ Along(l, s) = Y
  BY DEF Chained
<1>2. Chain(m, x) = s
  BY <1>1, ChainIs
<1>3. l \in Nat /\ s \in [1 .. l -> Nodes]
  BY <1>1 DEF Strung
<1>4. s \in Seq(Nodes)
  BY <1>3
<1>5. Len(s) = l
  BY <1>3, <1>4
<1>6. \A k, j \in 1 .. l : s[k] = s[j] => k = j
  BY <1>1 DEF Strung
<1>7. (\A k \in 1 .. l : s[k] \in Y) /\ \A y \in Y : \E k \in 1 .. l : s[k] = y
  BY <1>1 DEF Along
<1>8. QED
  BY <1>2, <1>4, <1>5, <1>6, <1>7 DEF Listing

(* A list after a list of other nodes.                                     *)
LEMMA ListsJoin ==
  ASSUME NEW s, NEW Y, Listing(s, Y), NEW t, NEW Z, Listing(t, Z), Y \cap Z = {}
  PROVE  Listing(s \o t, Y \cup Z)
<1>1. s \in Seq(Nodes) /\ t \in Seq(Nodes) /\ Len(s) \in Nat /\ Len(t) \in Nat
  BY DEF Listing
<1>2. s \o t \in Seq(Nodes) /\ Len(s \o t) = Len(s) + Len(t)
  BY <1>1
<1>3. \A k \in 1 .. Len(s) : (s \o t)[k] = s[k]
  BY <1>1
<1>4. \A k \in 1 .. Len(s) + Len(t) : k > Len(s) => (s \o t)[k] = t[k - Len(s)] /\ k - Len(s) \in 1 .. Len(t)
  BY <1>1
<1>5. \A k \in 1 .. Len(t) : k + Len(s) \in 1 .. Len(s) + Len(t) /\ (s \o t)[k + Len(s)] = t[k]
  BY <1>1
<1>6. ASSUME NEW k \in 1 .. Len(s) + Len(t)
      PROVE  \/ k \in 1 .. Len(s) /\ (s \o t)[k] = s[k] /\ s[k] \in Y
             \/ k > Len(s) /\ k - Len(s) \in 1 .. Len(t) /\ (s \o t)[k] = t[k - Len(s)] /\ t[k - Len(s)] \in Z
  <2>1. CASE k \in 1 .. Len(s)
    BY <1>3, <2>1 DEF Listing
  <2>2. CASE k \notin 1 .. Len(s)
    <3>1. k > Len(s)
      BY <1>1, <2>2
    <3>2. QED
      BY <1>4, <3>1 DEF Listing
  <2>3. QED
    BY <2>1, <2>2
<1>7. ASSUME NEW k \in 1 .. Len(s) + Len(t), NEW l \in 1 .. Len(s) + Len(t), (s \o t)[k] = (s \o t)[l]
      PROVE  k = l
  <2>1. CASE k \in 1 .. Len(s) /\ l \in 1 .. Len(s)
    BY <1>3, <1>7, <2>1 DEF Listing
  <2>2. CASE k > Len(s) /\ l > Len(s)
    <3>1. t[k - Len(s)] = t[l - Len(s)] /\ k - Len(s) \in 1 .. Len(t) /\ l - Len(s) \in 1 .. Len(t)
      BY <1>4, <1>7, <2>2
    <3>2. k - Len(s) = l - Len(s)
      BY <3>1 DEF Listing
    <3>3. QED
      BY <1>1, <3>2
  <2>3. CASE (s \o t)[k] \in Y /\ (s \o t)[l] \in Z
    BY <1>7, <2>3
  <2>4. CASE (s \o t)[k] \in Z /\ (s \o t)[l] \in Y
    BY <1>7, <2>4
  <2>5. QED
    BY <1>6, <2>1, <2>2, <2>3, <2>4
<1>8. ASSUME NEW y \in Y \cup Z
      PROVE  \E k \in 1 .. Len(s) + Len(t) : (s \o t)[k] = y
  <2>1. CASE y \in Y
    <3>1. PICK k \in 1 .. Len(s) : s[k] = y
      BY <2>1 DEF Listing
    <3>2. k \in 1 .. Len(s) + Len(t)
      BY <1>1
    <3>3. QED
      BY <1>3, <3>1, <3>2
  <2>2. CASE y \in Z
    <3>1. PICK k \in 1 .. Len(t) : t[k] = y
      BY <2>2 DEF Listing
    <3>2. QED
      BY <1>5, <3>1
  <2>3. QED
    BY <2>1, <2>2
<1>9. \A k \in 1 .. Len(s) + Len(t) : (s \o t)[k] \in Y \cup Z
  BY <1>6
<1>10. QED
  BY <1>2, <1>7, <1>8, <1>9 DEF Listing

(* The walk, bucket after bucket.                                          *)
Walked(f, m, b, n) ==
  f = [k \in 0 .. n |-> IF k = 0 THEN <<>> ELSE f[k - 1] \o Chain(m, m[b].slots[k - 1])]

(* The recursion of WalkOrder.                                             *)
LEMMA WalkIs ==
  ASSUME NEW d, NEW m, d.count \in Nat
  PROVE  \E f : Walked(f, m, d.buckets, d.count) /\ WalkOrder(d, m) = f[d.count]
<1>1. PICK n, b : n = d.count /\ b = d.buckets
  OBVIOUS
<1>2. PICK X : X = {l \in 0 .. n : \E f : Walked(f, m, b, l)}
  OBVIOUS
<1>3. n \in Nat
  BY <1>1
<1>4. 0 \in X
  <2>1. PICK f : f = [k \in 0 .. 0 |-> <<>>]
    OBVIOUS
  <2>2. f = [k \in 0 .. 0 |-> IF k = 0 THEN <<>> ELSE f[k - 1] \o Chain(m, m[b].slots[k - 1])]
    BY <2>1
  <2>3. Walked(f, m, b, 0)
    BY <2>2 DEF Walked
  <2>4. QED
    BY <1>2, <1>3, <2>3
<1>5. ASSUME NEW l \in X, l < n
      PROVE  l + 1 \in X
  <2>1. l \in 0 .. n /\ l + 1 \in 0 .. n
    BY <1>2, <1>3, <1>5
  <2>2. PICK f : f = [k \in 0 .. l |-> IF k = 0 THEN <<>> ELSE f[k - 1] \o Chain(m, m[b].slots[k - 1])]
    BY <1>2 DEF Walked
  <2>3. PICK g : g = [k \in 0 .. l + 1 |-> IF k <= l THEN f[k] ELSE f[l] \o Chain(m, m[b].slots[l])]
    OBVIOUS
  <2>4. g = [k \in 0 .. l + 1 |-> IF k = 0 THEN <<>> ELSE g[k - 1] \o Chain(m, m[b].slots[k - 1])]
    BY <2>1, <2>2, <2>3
  <2>5. Walked(g, m, b, l + 1)
    BY <2>4 DEF Walked
  <2>6. QED
    BY <1>2, <2>1, <2>5
<1>6. X \in SUBSET (0 .. n)
  BY <1>2
<1>7. n \in X
  <2>1. \A k \in 0 .. n : k \in X
    BY <1>3, <1>4, <1>5, <1>6, UpTo
  <2>2. QED
    BY <1>3, <2>1
<1>8. \E f : f = [k \in 0 .. n |-> IF k = 0 THEN <<>> ELSE f[k - 1] \o Chain(m, m[b].slots[k - 1])]
  BY <1>2, <1>7, ZenonT(30) DEF Walked
<1>9. PICK g : g = CHOOSE f : f = [k \in 0 .. n |-> IF k = 0 THEN <<>> ELSE f[k - 1] \o Chain(m, m[b].slots[k - 1])]
  BY ZenonT(30)
<1>10. Walked(g, m, b, n)
  BY <1>8, <1>9, ZenonT(30) DEF Walked
<1>11. WalkOrder(d, m) = g[n]
  BY <1>1, <1>9 DEF WalkOrder
<1>12. QED
  BY <1>1, <1>10, <1>11

(* It comes to every node of the map, and to none twice.                   *)
LEMMA WalkLists ==
  ASSUME NEW d, NEW m, NEW X, MapOK(d, m, X)
  PROVE  Listing(WalkOrder(d, m), X)
<1>1. PICK n, b : n = d.count /\ b = d.buckets
  OBVIOUS
<1>2. n \in Nat
  BY <1>1, MapIs DEF MapOK
<1>3. PICK f : Walked(f, m, b, n) /\ WalkOrder(d, m) = f[n]
  BY <1>1, <1>2, WalkIs
<1>4. \A i \in 0 .. n - 1 : Chained(m, m[b].slots[i], InBucket(m, n, X, i))
  BY <1>1, <1>2 DEF MapOK, Filed
<1>5. PICK K : K = {k \in 0 .. n : Listing(f[k], {x \in X : BucketOf(n, m[x].hash) < k})}
  OBVIOUS
<1>6. \A x \in X : n # 0 /\ BucketOf(n, m[x].hash) \in 0 .. n - 1
  <2>1. ASSUME NEW x \in X
        PROVE  n # 0 /\ m[x].hash \in Nat
    BY <1>1, NodesAreInBuckets, NodeIs DEF MapOK, EntryOK
  <2>2. QED
    BY <1>2, <2>1, BucketIs
<1>7. 0 \in K
  <2>1. f[0] = <<>>
    BY <1>2, <1>3 DEF Walked
  <2>2. {x \in X : BucketOf(n, m[x].hash) < 0} = {}
    BY <1>2, <1>6
  <2>3. Listing(<<>>, {})
    BY DEF Listing
  <2>4. QED
    BY <1>2, <1>5, <2>1, <2>2, <2>3
<1>8. ASSUME NEW k \in K, k < n
      PROVE  k + 1 \in K
  <2>1. k \in 0 .. n - 1 /\ k + 1 \in 0 .. n /\ k + 1 # 0 /\ (k + 1) - 1 = k
    BY <1>2, <1>5, <1>8, SMTT(40)
  <2>2. f[k + 1] = f[k] \o Chain(m, m[b].slots[k])
    BY <1>3, <2>1 DEF Walked
  <2>3. PICK Y, Z : Y = {x \in X : BucketOf(n, m[x].hash) < k} /\ Z = InBucket(m, n, X, k)
    OBVIOUS
  <2>4. Listing(f[k], Y)
    BY <1>5, <2>3
  <2>5. Listing(Chain(m, m[b].slots[k]), Z)
    BY <1>4, <2>1, <2>3, ChainLists
  <2>6. Y \cap Z = {}
    BY <2>1, <2>3 DEF InBucket
  <2>7. Y \cup Z = {x \in X : BucketOf(n, m[x].hash) < k + 1}
    <3>1. \A x \in X : BucketOf(n, m[x].hash) \in Nat
      BY <1>2, <1>6
    <3>2. \A x \in X : BucketOf(n, m[x].hash) < k + 1 <=> BucketOf(n, m[x].hash) < k \/ BucketOf(n, m[x].hash) = k
      BY <2>1, <3>1
    <3>3. QED
      BY <2>3, <3>2 DEF InBucket
  <2>8. Listing(f[k] \o Chain(m, m[b].slots[k]), Y \cup Z)
    BY <2>4, <2>5, <2>6, ListsJoin
  <2>9. QED
    BY <1>5, <2>1, <2>2, <2>7, <2>8
<1>9. K \in SUBSET (0 .. n)
  BY <1>5
<1>10. n \in K
  BY <1>2, <1>7, <1>8, <1>9, UpTo
<1>11. {x \in X : BucketOf(n, m[x].hash) < n} = X
  BY <1>2, <1>6
<1>12. QED
  BY <1>3, <1>5, <1>10, <1>11

-----------------------------------------------------------------------------
(* Nodes linked into an array of buckets.                                  *)

(* A bucket without nodes.                                                 *)
LEMMA NoChain ==
  ASSUME NEW m
  PROVE  Chained(m, Null, {})
<1>1. PICK s : s = [k \in 1 .. 0 |-> Null]
  OBVIOUS
<1>2. Strung(m, Null, 0, s)
  BY <1>1 DEF Strung
<1>3. Along(0, s) = {}
  BY DEF Along
<1>4. QED
  BY <1>2, <1>3 DEF Chained

(* An array whose buckets are all empty.                                   *)
LEMMA EmptyIsFiled ==
  ASSUME NEW m, NEW b, NEW n, \A i \in 0 .. n - 1 : m[b].slots[i] = Null
  PROVE  Filed(m, b, n, {})
<1>1. \A i \in 0 .. n - 1 : InBucket(m, n, {}, i) = {}
  BY DEF InBucket
<1>2. Chained(m, Null, {})
  BY NoChain
<1>3. QED
  BY <1>1, <1>2 DEF Filed

(* q is m with the node y put in front of its bucket in the array b.       *)
PutInFront(m, q, b, n, y) ==
  /\ q[y].hash \in Nat
  /\ q[y].next = m[b].slots[BucketOf(n, q[y].hash)]
  /\ q[b].slots = Pointing(m[b].slots, BucketOf(n, q[y].hash), y)

(* Then the array has that node too.                                       *)
LEMMA FrontIsFiled ==
  ASSUME NEW m, NEW q, NEW b, NEW n \in Nat, n # 0, NEW Y, Filed(m, b, n, Y),
         m[b].slots \in [0 .. n - 1 -> Nodes \cup {Null}],
         \A x \in Y : q[x] = m[x], NEW y \in Nodes, y \notin Y, PutInFront(m, q, b, n, y)
  PROVE  Filed(q, b, n, Y \cup {y})
<1>1. PICK i : i = BucketOf(n, q[y].hash)
  OBVIOUS
<1>2. q[y].hash \in Nat /\ q[y].next = m[b].slots[i] /\ q[b].slots = Pointing(m[b].slots, i, y)
  BY <1>1 DEF PutInFront
<1>3. i \in 0 .. n - 1
  BY <1>1, <1>2, BucketIs
<1>4. ASSUME NEW j \in 0 .. n - 1
      PROVE  Chained(q, q[b].slots[j], InBucket(q, n, Y \cup {y}, j))
  <2>1. PICK Z : Z = InBucket(m, n, Y, j)
    OBVIOUS
  <2>2. Chained(m, m[b].slots[j], Z)
    BY <2>1 DEF Filed
  <2>3. \A x \in Z : q[x] = m[x]
    BY <2>1 DEF InBucket
  <2>4. q[b].slots[j] = IF j = i THEN y ELSE m[b].slots[j]
    BY <1>2 DEF Pointing
  <2>5. CASE j = i
    <3>1. InBucket(q, n, Y \cup {y}, j) = Z \cup {y}
      BY <1>1, <2>1, <2>5 DEF InBucket
    <3>2. PICK l, s : Strung(m, m[b].slots[j], l, s) /\ Along(l, s) = Z
      BY <2>2 DEF Chained
    <3>3. \A k \in 1 .. l : s[k] \in Z
      BY <3>2 DEF Along
    <3>4. \A k \in 1 .. l : q[s[k]] = m[s[k]]
      BY <2>3, <3>3
    <3>5. y \notin Along(l, s)
      BY <2>1, <3>2 DEF InBucket
    <3>6. q[y].next = m[b].slots[j]
      BY <1>2, <2>5
    <3>7. \E t : Strung(q, y, l + 1, t) /\ Along(l + 1, t) = Along(l, s) \cup {y}
      BY <3>2, <3>4, <3>5, <3>6, StrungInFront
    <3>8. Chained(q, y, Z \cup {y})
      BY <3>2, <3>7 DEF Chained
    <3>9. QED
      BY <2>4, <2>5, <3>1, <3>8
  <2>6. CASE j # i
    <3>1. InBucket(q, n, Y \cup {y}, j) = Z
      BY <1>1, <2>1, <2>6 DEF InBucket
    <3>2. Chained(q, m[b].slots[j], Z)
      BY <2>2, <2>3, ChainedStays
    <3>3. QED
      BY <2>4, <2>6, <3>1, <3>2
  <2>7. QED
    BY <2>5, <2>6
<1>5. QED
  BY <1>4 DEF Filed

(* But for its link the node x is what it was.                             *)
Alike(m, q, x) ==
  /\ q[x] \in MapNodes
  /\ q[x].al = m[x].al /\ q[x].key = m[x].key /\ q[x].val = m[x].val /\ q[x].hash = m[x].hash

(* From m to q, only the array b and the nodes Y changed.                  *)
Touches(m, q, b, Y) == IsMemory(q) /\ \A a \in Addrs : a # b /\ a \notin Y => q[a] = m[a]

(* What LinkInFront does.                                                  *)
LEMMA InFrontIs ==
  ASSUME NEW m, IsMemory(m), NEW n \in 1 .. SizeMax, NEW b \in Arrays, m[b] \in BucketArray(n),
         NEW y \in Nodes, m[y] \in MapNodes, NEW q, q = LinkInFront(m, b, y, n)
  PROVE  /\ Touches(m, q, b, {y}) /\ Alike(m, q, y)
         /\ q[b] \in BucketArray(n) /\ q[b].al = m[b].al
         /\ PutInFront(m, q, b, n, y)
<1>1. PICK i : i = BucketOf(n, m[y].hash)
  OBVIOUS
<1>2. m[y].hash \in Nat /\ n \in Nat /\ n # 0
  BY NodeIs, HMapAssumption
<1>3. i \in 0 .. n - 1
  BY <1>1, <1>2, BucketIs
<1>4. n \in 0 .. SizeMax
  BY HMapAssumption
<1>5. m[b].al \in Als /\ m[b].slots \in [0 .. n - 1 -> Nodes \cup {Null}]
  BY <1>4, ArrayIs
<1>6. b # y /\ b \in Addrs /\ y \in Addrs
  BY HMapAssumption DEF Addrs
<1>7. PICK c : c = m[b].slots[i]
  OBVIOUS
<1>8. c \in Nodes \cup {Null}
  BY <1>3, <1>5, <1>7
<1>9. PICK t : t = Pointing(m[b].slots, i, y)
  OBVIOUS
<1>10. t \in [0 .. n - 1 -> Nodes \cup {Null}]
  BY <1>5, <1>9 DEF Pointing
<1>11. m = [a \in Addrs |-> m[a]]
  BY SMTT(40) DEF IsMemory
<1>12. q = [m EXCEPT ![y].next = c, ![b].slots = Pointing(@, i, y)]
  BY <1>1, <1>7, SMTT(40) DEF LinkInFront
<1>13. q = [a \in Addrs |-> IF a = b THEN [m[b] EXCEPT !.slots = t]
                            ELSE IF a = y THEN [m[y] EXCEPT !.next = c] ELSE m[a]]
  BY <1>6, <1>9, <1>11, <1>12, ZenonT(30)
<1>14. q[b] = [m[b] EXCEPT !.slots = t]
  BY <1>6, <1>13
<1>15. q[y] = [m[y] EXCEPT !.next = c]
  BY <1>6, <1>13
<1>16. q[b] \in BucketArray(n) /\ q[b].al = m[b].al /\ q[b].slots = t
  BY <1>5, <1>10, <1>14 DEF BucketArray
<1>17. Alike(m, q, y) /\ q[y].next = c
  BY <1>8, <1>15 DEF Alike, MapNodes
<1>18. Touches(m, q, b, {y})
  <2>1. \A a \in Addrs : a # b /\ a \notin {y} => q[a] = m[a]
    BY <1>13
  <2>2. q = [a \in Addrs |-> q[a]]
    BY <1>13
  <2>3. QED
    BY <2>1, <2>2 DEF Touches, IsMemory
<1>19. PutInFront(m, q, b, n, y)
  BY <1>1, <1>2, <1>7, <1>9, <1>16, <1>17 DEF PutInFront, Alike
<1>20. QED
  BY <1>16, <1>17, <1>18, <1>19

(* From m to q the nodes Y were linked into the array b.                   *)
LinkedUp(m, q, b, n, Y) ==
  /\ Touches(m, q, b, Y)
  /\ \A x \in Y : Alike(m, q, x)
  /\ q[b] \in BucketArray(n) /\ q[b].al = m[b].al
  /\ Filed(q, b, n, Y)

(* One more.                                                               *)
LEMMA LinksOneMore ==
  ASSUME NEW m, NEW q, NEW n \in 1 .. SizeMax, NEW b \in Arrays, NEW Y, Y \subseteq Nodes,
         LinkedUp(m, q, b, n, Y), NEW y \in Nodes, y \notin Y, m[y] \in MapNodes
  PROVE  LinkedUp(m, LinkInFront(q, b, y, n), b, n, Y \cup {y})
<1>1. PICK r : r = LinkInFront(q, b, y, n)
  OBVIOUS
<1>2. IsMemory(q) /\ (\A a \in Addrs : a # b /\ a \notin Y => q[a] = m[a]) /\ q[b] \in BucketArray(n)
  BY DEF LinkedUp, Touches
<1>3. b # y /\ b \in Addrs /\ y \in Addrs /\ b \notin Y /\ n \in 0 .. SizeMax /\ n \in Nat /\ n # 0
  BY HMapAssumption DEF Addrs
<1>4. q[y] = m[y]
  BY <1>2, <1>3
<1>5. /\ Touches(q, r, b, {y}) /\ Alike(q, r, y)
      /\ r[b] \in BucketArray(n) /\ r[b].al = q[b].al
      /\ PutInFront(q, r, b, n, y)
  BY <1>1, <1>2, <1>4, InFrontIs
<1>6. \A x \in Y : r[x] = q[x]
  <2>1. \A x \in Y : x \in Addrs /\ x # b /\ x # y
    BY <1>3 DEF Addrs
  <2>2. QED
    BY <1>5, <2>1 DEF Touches
<1>7. q[b].slots \in [0 .. n - 1 -> Nodes \cup {Null}]
  BY <1>2, <1>3, ArrayIs
<1>8. Filed(q, b, n, Y)
  BY DEF LinkedUp
<1>9. Filed(r, b, n, Y \cup {y})
  BY <1>3, <1>5, <1>6, <1>7, <1>8, FrontIsFiled
<1>10. \A x \in Y \cup {y} : Alike(m, r, x)
  <2>1. \A x \in Y : Alike(m, r, x)
    BY <1>6 DEF LinkedUp, Alike
  <2>2. Alike(m, r, y)
    BY <1>4, <1>5 DEF Alike
  <2>3. QED
    BY <2>1, <2>2
<1>11. Touches(m, r, b, Y \cup {y})
  BY <1>2, <1>5 DEF Touches
<1>12. r[b] \in BucketArray(n) /\ r[b].al = m[b].al
  BY <1>5 DEF LinkedUp
<1>13. QED
  BY <1>1, <1>9, <1>10, <1>11, <1>12 DEF LinkedUp

(* f is the memories between the first and the last of a list of links.    *)
LinkingAll(f, m, b, n, order, l) ==
  f = [k \in 0 .. l |-> IF k = 0 THEN m ELSE LinkInFront(f[k - 1], b, order[k], n)]

(* The recursion of LinkAll.                                               *)
LEMMA LinkAllIs ==
  ASSUME NEW m, NEW b, NEW n, NEW order, Len(order) \in Nat
  PROVE  \E f : LinkingAll(f, m, b, n, order, Len(order)) /\ LinkAll(m, b, n, order) = f[Len(order)]
<1>1. PICK L : L = Len(order)
  OBVIOUS
<1>2. PICK X : X = {l \in 0 .. L : \E f : LinkingAll(f, m, b, n, order, l)}
  OBVIOUS
<1>3. L \in Nat
  BY <1>1
<1>4. 0 \in X
  <2>1. PICK f : f = [k \in 0 .. 0 |-> m]
    OBVIOUS
  <2>2. f = [k \in 0 .. 0 |-> IF k = 0 THEN m ELSE LinkInFront(f[k - 1], b, order[k], n)]
    BY <2>1
  <2>3. LinkingAll(f, m, b, n, order, 0)
    BY <2>2 DEF LinkingAll
  <2>4. QED
    BY <1>2, <1>3, <2>3
<1>5. ASSUME NEW l \in X, l < L
      PROVE  l + 1 \in X
  <2>1. l \in 0 .. L /\ l + 1 \in 0 .. L
    BY <1>2, <1>3, <1>5
  <2>2. PICK f : f = [k \in 0 .. l |-> IF k = 0 THEN m ELSE LinkInFront(f[k - 1], b, order[k], n)]
    BY <1>2 DEF LinkingAll
  <2>3. PICK g : g = [k \in 0 .. l + 1 |-> IF k <= l THEN f[k] ELSE LinkInFront(f[l], b, order[l + 1], n)]
    OBVIOUS
  <2>4. g = [k \in 0 .. l + 1 |-> IF k = 0 THEN m ELSE LinkInFront(g[k - 1], b, order[k], n)]
    BY <2>1, <2>2, <2>3
  <2>5. LinkingAll(g, m, b, n, order, l + 1)
    BY <2>4 DEF LinkingAll
  <2>6. QED
    BY <1>2, <2>1, <2>5
<1>6. X \in SUBSET (0 .. L)
  BY <1>2
<1>7. L \in X
  <2>1. \A k \in 0 .. L : k \in X
    BY <1>3, <1>4, <1>5, <1>6, UpTo
  <2>2. QED
    BY <1>3, <2>1
<1>8. \E f : f = [k \in 0 .. L |-> IF k = 0 THEN m ELSE LinkInFront(f[k - 1], b, order[k], n)]
  BY <1>2, <1>7 DEF LinkingAll
<1>9. PICK g : g = CHOOSE f : f = [k \in 0 .. L |-> IF k = 0 THEN m ELSE LinkInFront(f[k - 1], b, order[k], n)]
  OBVIOUS
<1>10. LinkingAll(g, m, b, n, order, L)
  BY <1>8, <1>9 DEF LinkingAll
<1>11. LinkAll(m, b, n, order) = g[L]
  BY <1>1, <1>9 DEF LinkAll
<1>12. QED
  BY <1>1, <1>10, <1>11

(* The first k of a list.                                                  *)
UpToThe(s, k) == {s[i] : i \in 1 .. k}

(* The next of them is none of the first.                                  *)
LEMMA NextOfList ==
  ASSUME NEW s, NEW X, Listing(s, X), NEW k \in Nat, k < Len(s)
  PROVE  /\ s[k + 1] \in X /\ s[k + 1] \notin UpToThe(s, k)
         /\ UpToThe(s, k + 1) = UpToThe(s, k) \cup {s[k + 1]}
<1>1. Len(s) \in Nat
  BY DEF Listing
<1>2. k + 1 \in 1 .. Len(s) /\ \A i \in 1 .. k : i \in 1 .. Len(s) /\ i # k + 1
  BY <1>1
<1>3. s[k + 1] \in X
  BY <1>2 DEF Listing
<1>4. s[k + 1] \notin UpToThe(s, k)
  BY <1>2 DEF Listing, UpToThe
<1>5. 1 .. k + 1 = 1 .. k \cup {k + 1}
  OBVIOUS
<1>6. UpToThe(s, k + 1) = UpToThe(s, k) \cup {s[k + 1]}
  BY <1>5 DEF UpToThe
<1>7. QED
  BY <1>3, <1>4, <1>6

(* None is before the first, and all are before the end.                   *)
LEMMA WholeList ==
  ASSUME NEW s, NEW X, Listing(s, X)
  PROVE  UpToThe(s, 0) = {} /\ UpToThe(s, Len(s)) = X
  BY DEF Listing, UpToThe

(* All the nodes of a list, into an empty array.                           *)
LEMMA AllAreLinked ==
  ASSUME NEW m, IsMemory(m), NEW n \in 1 .. SizeMax, NEW b \in Arrays, m[b] \in BucketArray(n),
         Filed(m, b, n, {}), NEW X, X \subseteq Nodes, \A x \in X : m[x] \in MapNodes,
         NEW order, Listing(order, X)
  PROVE  LinkedUp(m, LinkAll(m, b, n, order), b, n, X)
<1>1. PICK L : L = Len(order)
  OBVIOUS
<1>2. L \in Nat
  BY <1>1 DEF Listing
<1>3. PICK f : LinkingAll(f, m, b, n, order, L) /\ LinkAll(m, b, n, order) = f[L]
  BY <1>1, <1>2, LinkAllIs
<1>4. PICK K : K = {k \in 0 .. L : LinkedUp(m, f[k], b, n, UpToThe(order, k))}
  OBVIOUS
<1>5. 0 \in K
  <2>1. f[0] = m
    BY <1>2, <1>3 DEF LinkingAll
  <2>2. UpToThe(order, 0) = {}
    BY WholeList
  <2>3. LinkedUp(m, m, b, n, {})
    BY DEF LinkedUp, Touches
  <2>4. QED
    BY <1>2, <1>4, <2>1, <2>2, <2>3
<1>6. ASSUME NEW k \in K, k < L
      PROVE  k + 1 \in K
  <2>1. k \in Nat /\ k + 1 \in 0 .. L /\ k + 1 # 0 /\ (k + 1) - 1 = k
    BY <1>2, <1>4, <1>6
  <2>2. f[k + 1] = LinkInFront(f[k], b, order[k + 1], n)
    BY <1>3, <2>1 DEF LinkingAll
  <2>3. PICK Y, y : Y = UpToThe(order, k) /\ y = order[k + 1]
    OBVIOUS
  <2>4. y \in X /\ y \notin Y /\ UpToThe(order, k + 1) = Y \cup {y}
    BY <1>1, <1>6, <2>1, <2>3, NextOfList
  <2>5. Y \subseteq Nodes
    BY <1>1, <1>2, <1>6, <2>1, <2>3 DEF UpToThe, Listing
  <2>6. LinkedUp(m, f[k], b, n, Y)
    BY <1>4, <2>3
  <2>7. LinkedUp(m, LinkInFront(f[k], b, y, n), b, n, Y \cup {y})
    BY <2>4, <2>5, <2>6, LinksOneMore
  <2>8. QED
    BY <1>4, <2>1, <2>2, <2>3, <2>4, <2>7
<1>7. K \in SUBSET (0 .. L)
  BY <1>4
<1>8. L \in K
  BY <1>2, <1>5, <1>6, <1>7, UpTo
<1>9. UpToThe(order, L) = X
  BY <1>1, WholeList
<1>10. QED
  BY <1>3, <1>4, <1>8, <1>9

-----------------------------------------------------------------------------
(* The lengths of arrays.                                                  *)

(* The recursion of Doubled.                                               *)
LEMMA DoubledIs ==
  /\ Doubled = [i \in 0 .. SizeMax |-> IF i = 0 THEN Base ELSE 2 * Doubled[i - 1]]
  /\ \A i \in 0 .. SizeMax : Doubled[i] \in Nat /\ i + 1 <= Doubled[i]
<1>1. PICK next : next = [x \in Nat |-> 2 * x]
  OBVIOUS
<1>2. SizeMax \in Nat /\ Base \in Nat /\ 1 <= Base
  BY ConstantsAre
<1>3. \E f : Unrolled(f, SizeMax, Base, next)
  BY <1>2, Iterated
<1>4. PICK f : f = [k \in 0 .. SizeMax |-> IF k = 0 THEN Base ELSE next[f[k - 1]]]
  BY <1>3 DEF Unrolled
<1>5. PICK X : X = {k \in 0 .. SizeMax : f[k] \in Nat}
  OBVIOUS
<1>6. \A k \in 0 .. SizeMax : f[k] \in Nat
  <2>1. 0 \in X
    BY <1>2, <1>4, <1>5
  <2>2. ASSUME NEW k \in X, k < SizeMax
        PROVE  k + 1 \in X
    <3>1. k + 1 \in 0 .. SizeMax /\ k + 1 # 0 /\ (k + 1) - 1 = k /\ f[k] \in Nat
      BY <1>2, <1>5, <2>2
    <3>2. f[k + 1] = 2 * f[k]
      BY <1>1, <1>4, <3>1
    <3>3. QED
      BY <1>5, <3>1, <3>2
  <2>3. X \in SUBSET (0 .. SizeMax)
    BY <1>5
  <2>4. \A k \in 0 .. SizeMax : k \in X
    BY <1>2, <2>1, <2>2, <2>3, UpTo
  <2>5. QED
    BY <1>5, <2>4
<1>7. f = [k \in 0 .. SizeMax |-> IF k = 0 THEN Base ELSE 2 * f[k - 1]]
  <2>1. \A k \in 0 .. SizeMax : k # 0 => k - 1 \in 0 .. SizeMax
    BY <1>2
  <2>2. \A k \in 0 .. SizeMax : k # 0 => next[f[k - 1]] = 2 * f[k - 1]
    BY <1>1, <1>6, <2>1
  <2>3. QED
    BY <1>4, <2>2
<1>8. Doubled = [i \in 0 .. SizeMax |-> IF i = 0 THEN Base ELSE 2 * Doubled[i - 1]]
  BY <1>7 DEF Doubled
<1>9. PICK Y : Y = {k \in 0 .. SizeMax : Doubled[k] \in Nat /\ k + 1 <= Doubled[k]}
  OBVIOUS
<1>10. 0 \in Y
  BY <1>2, <1>8, <1>9
<1>11. ASSUME NEW k \in Y, k < SizeMax
       PROVE  k + 1 \in Y
  <2>1. k + 1 \in 0 .. SizeMax /\ k + 1 # 0 /\ (k + 1) - 1 = k /\ k \in Nat
    BY <1>2, <1>9, <1>11
  <2>2. Doubled[k] \in Nat /\ k + 1 <= Doubled[k]
    BY <1>9
  <2>3. Doubled[k + 1] = 2 * Doubled[k]
    BY <1>8, <2>1
  <2>4. QED
    BY <1>9, <2>1, <2>2, <2>3
<1>12. Y \in SUBSET (0 .. SizeMax)
  BY <1>9
<1>13. \A k \in 0 .. SizeMax : k \in Y
  BY <1>2, <1>10, <1>11, <1>12, UpTo
<1>14. QED
  BY <1>8, <1>9, <1>13

(* The base is a length, and what a length doubles to when it is no more   *)
(* than SIZE_MAX; none is 0.                                               *)
LEMMA LengthsDouble ==
  /\ Base \in Pow2s
  /\ \A n \in Pow2s : n \in 1 .. SizeMax
  /\ \A n \in Pow2s : n * 2 <= SizeMax => n * 2 \in Pow2s
<1>1. SizeMax \in Nat /\ Base \in 1 .. SizeMax
  BY ConstantsAre
<1>2. Base \in Pow2s
  <2>1. 0 \in 0 .. SizeMax /\ Doubled[0] = Base
    BY <1>1, DoubledIs
  <2>2. QED
    BY <1>1, <2>1 DEF Pow2s
<1>3. \A n \in Pow2s : n \in 1 .. SizeMax
  <2>1. SUFFICES ASSUME NEW n \in Pow2s
        PROVE  n \in 1 .. SizeMax
    OBVIOUS
  <2>2. PICK i \in 0 .. SizeMax : n = Doubled[i]
    BY DEF Pow2s
  <2>3. n \in 0 .. SizeMax
    BY DEF Pow2s
  <2>4. n \in Nat /\ i + 1 <= n
    BY <2>2, DoubledIs
  <2>5. QED
    BY <1>1, <2>2, <2>3, <2>4
<1>4. \A n \in Pow2s : n * 2 <= SizeMax => n * 2 \in Pow2s
  <2>1. SUFFICES ASSUME NEW n \in Pow2s, n * 2 <= SizeMax
        PROVE  n * 2 \in Pow2s
    OBVIOUS
  <2>2. PICK i \in 0 .. SizeMax : n = Doubled[i]
    BY DEF Pow2s
  <2>3. n \in Nat /\ i + 1 <= n
    BY <2>2, DoubledIs
  <2>4. i + 1 \in 0 .. SizeMax /\ i + 1 # 0 /\ (i + 1) - 1 = i
    BY <1>1, <2>1, <2>2, <2>3
  <2>5. Doubled[i + 1] = 2 * Doubled[i]
    BY <2>4, DoubledIs
  <2>6. n * 2 = Doubled[i + 1] /\ n * 2 \in 0 .. SizeMax
    BY <1>1, <2>1, <2>2, <2>3, <2>5
  <2>7. QED
    BY <2>4, <2>6 DEF Pow2s
<1>5. QED
  BY <1>2, <1>3, <1>4

(* Rounding up comes to a length, or overflows.                            *)
LEMMA RoundsUp ==
  ASSUME NEW want \in Nat, RoundUpPow2(want) # 0
  PROVE  RoundUpPow2(want) \in Pow2s /\ want <= RoundUpPow2(want)
<1>1. \A n \in Pow2s : n \in Nat
  BY LengthsDouble
<1>2. PICK X : X = {n \in Pow2s : n >= want}
  OBVIOUS
<1>3. X # {}
  BY <1>2 DEF RoundUpPow2
<1>4. X \in SUBSET Nat
  BY <1>1, <1>2
<1>5. PICK n \in X : \A k \in X : n <= k
  BY <1>3, <1>4, LeastNatural
<1>6. n \in Pow2s /\ n >= want /\ \A x \in Pow2s : x >= want => n <= x
  BY <1>2, <1>5
<1>7. RoundUpPow2(want) = CHOOSE k \in Pow2s : k >= want /\ \A x \in Pow2s : x >= want => k <= x
  BY <1>6 DEF RoundUpPow2
<1>8. RoundUpPow2(want) \in Pow2s /\ RoundUpPow2(want) >= want
  BY <1>6, <1>7
<1>9. QED
  BY <1>1, <1>8

-----------------------------------------------------------------------------
(* Growth.                                                                 *)

(* The map d with the nodes X, in the memory m, became the map r.d with    *)
(* the nodes Y in r.m: it gave back and was lent what the two differ in,   *)
(* and a key that is in both is in the same node.                          *)
Turned(d, m, X, r, Y) ==
  /\ r.st \in {OK, NoMem}
  /\ MapOK(r.d, r.m, Y) /\ IsMemory(r.m)
  /\ r.d.al = d.al /\ r.d.hasher = d.hasher
  /\ Swapped(Foot(d, X), m, Foot(r.d, Y), r.m)
  /\ \A x \in X, y \in Y : m[x].key = r.m[y].key => x = y

(* Its nodes are those it had, and hold what they held.                    *)
Kept(d, m, X, r) == Turned(d, m, X, r, X) /\ Keeps(m, r.m, X)

(* Refused, it is as it was.                                               *)
Regrown(d, m, X, r) ==
  /\ Kept(d, m, X, r)
  /\ r.d.len = d.len
  /\ r.st = NoMem => r.d = d /\ r.m = m

(* A result is what it was made of.                                        *)
LEMMA ResultIs ==
  ASSUME NEW st, NEW d, NEW m
  PROVE  Result(st, d, m).st = st /\ Result(st, d, m).d = d /\ Result(st, d, m).m = m
  BY DEF Result

(* Nothing done.                                                           *)
LEMMA StandsStill ==
  ASSUME NEW d, NEW m, NEW X, MapOK(d, m, X), IsMemory(m), NEW st \in {OK, NoMem}
  PROVE  Regrown(d, m, X, Result(st, d, m))
<1>1. PICK r : r = Result(st, d, m)
  OBVIOUS
<1>2. r.st = st /\ r.d = d /\ r.m = m
  BY <1>1, ResultIs
<1>3. \A x, y \in X : m[x].key = m[y].key => x = y
  BY DEF MapOK
<1>4. Swapped(Foot(d, X), m, Foot(d, X), m)
  BY DEF Swapped
<1>5. Keeps(m, m, X)
  BY DEF Keeps
<1>6. QED
  BY <1>1, <1>2, <1>3, <1>4, <1>5 DEF Regrown, Kept, Turned

(* A free address, when there is one.                                      *)
LEMMA LentNext ==
  ASSUME NEW m, NEW S, S = Arrays \/ S = Nodes, FreeOf(m, S) # {}
  PROVE  NextOf(m, S) \in S /\ m[NextOf(m, S)] = Null
<1>1. FreeOf(m, S) \in (SUBSET Arrays) \cup (SUBSET Nodes)
  BY DEF FreeOf
<1>2. PICK T : T = FreeOf(m, S)
  OBVIOUS
<1>3. T \in (SUBSET Arrays) \cup (SUBSET Nodes) /\ T # {}
  BY <1>1, <1>2
<1>4. \A Z \in (SUBSET Arrays) \cup (SUBSET Nodes) : Z # {} => Lends[Z] \in Z
  BY HMapAssumption
<1>5. Lends[T] \in T
  BY <1>3, <1>4, Zenon
<1>6. QED
  BY <1>2, <1>5 DEF NextOf, FreeOf

(* m but for what is at x.                                                 *)
SetAt(m, q, x, e) == IsMemory(q) /\ \A a \in Addrs : q[a] = IF a = x THEN e ELSE m[a]

(* A memory written at one address.                                        *)
LEMMA WrittenIs ==
  ASSUME NEW m, IsMemory(m), NEW x, NEW e, NEW q, q = [m EXCEPT ![x] = e]
  PROVE  SetAt(m, q, x, e)
<1>1. m = [a \in Addrs |-> m[a]]
  BY DEF IsMemory
<1>2. q = [a \in Addrs |-> IF a = x THEN e ELSE m[a]]
  BY <1>1
<1>3. \A a \in Addrs : q[a] = IF a = x THEN e ELSE m[a]
  BY <1>2
<1>4. q = [a \in Addrs |-> q[a]]
  BY <1>2
<1>5. QED
  BY <1>3, <1>4 DEF SetAt, IsMemory

(* A whole array that goes back to the one that lent it is taken, and no   *)
(* array is none.                                                          *)
LEMMA ArrayGoesBack ==
  ASSUME NEW m, IsMemory(m), NEW b, NEW a, NEW n,
         \/ b = Null
         \/ n \in 0 .. SizeMax /\ m[b] \in BucketArray(n) /\ m[b].al = a
  PROVE  SetAt(m, GiveBackArray(m, b, a, n), b, Null)
<1>1. CASE b = Null
  <2>1. GiveBackArray(m, b, a, n) = m
    BY <1>1 DEF GiveBackArray
  <2>2. \A x \in Addrs : x # b
    BY <1>1, HMapNullAssumption DEF Addrs
  <2>3. SetAt(m, m, b, Null)
    BY <2>2 DEF SetAt
  <2>4. QED
    BY <2>1, <2>3
<1>2. CASE b # Null
  <2>1. n \in 0 .. SizeMax /\ m[b] \in BucketArray(n)
    BY <1>2
  <2>2. m[b].slots \in [0 .. n - 1 -> Nodes \cup {Null}]
    BY <2>1, ArrayIs
  <2>3. DOMAIN m[b].slots = 0 .. n - 1
    BY <2>2
  <2>4. PICK q : q = GiveBackArray(m, b, a, n)
    OBVIOUS
  <2>5. q = [m EXCEPT ![b] = Null]
    BY <1>2, <2>3, <2>4 DEF GiveBackArray
  <2>6. SetAt(m, q, b, Null)
    BY <2>5, WrittenIs
  <2>7. QED
    BY <2>4, <2>6
<1>3. QED
  BY <1>1, <1>2

(* The buckets of a map go back whole.                                     *)
LEMMA BucketsGoBack ==
  ASSUME NEW d, NEW m, NEW X, MapOK(d, m, X), NEW q, IsMemory(q),
         d.buckets # Null => q[d.buckets] = m[d.buckets]
  PROVE  SetAt(q, GiveBackArray(q, d.buckets, d.al, d.count), d.buckets, Null)
<1>1. d.count \in Pow2s \cup {0} /\ (d.buckets # Null => ArrayOK(d, m, d.count, d.buckets))
  BY DEF MapOK
<1>2. PICK b, n, a : b = d.buckets /\ n = d.count /\ a = d.al
  OBVIOUS
<1>3. \/ b = Null
      \/ n \in 0 .. SizeMax /\ q[b] \in BucketArray(n) /\ q[b].al = a
  <2>1. n \in 0 .. SizeMax
    BY <1>1, <1>2, LengthsAre, ConstantsAre
  <2>2. b # Null => m[b] \in BucketArray(n) /\ m[b].al = a /\ q[b] = m[b]
    BY <1>1, <1>2, Zenon DEF ArrayOK
  <2>3. QED
    BY <2>1, <2>2
<1>4. SetAt(q, GiveBackArray(q, b, a, n), b, Null)
  BY <1>3, ArrayGoesBack
<1>5. QED
  BY <1>2, <1>4

(* Buckets and chains stay as they were.                                   *)
LEMMA FiledStays ==
  ASSUME NEW m, NEW b, NEW n, NEW Y, Filed(m, b, n, Y), NEW q, q[b] = m[b], \A x \in Y : q[x] = m[x]
  PROVE  Filed(q, b, n, Y)
<1>1. SUFFICES ASSUME NEW i \in 0 .. n - 1
      PROVE  Chained(q, q[b].slots[i], InBucket(q, n, Y, i))
  BY DEF Filed
<1>2. InBucket(q, n, Y, i) = InBucket(m, n, Y, i)
  BY DEF InBucket
<1>3. PICK Z : Z = InBucket(m, n, Y, i)
  OBVIOUS
<1>4. Chained(m, m[b].slots[i], Z) /\ \A x \in Z : q[x] = m[x]
  BY <1>3 DEF Filed, InBucket
<1>5. QED
  BY <1>2, <1>3, <1>4, ChainedStays

(* All the nodes go over to a new array, or nothing happens.               *)
LEMMA RehashKeeps ==
  ASSUME NEW d, NEW m, NEW X, MapOK(d, m, X), IsMemory(m), NEW n \in Pow2s, d.len <= n, NEW room
  PROVE  Regrown(d, m, X, Rehash(d, m, n, room))
<1>1. PICK r : r = Rehash(d, m, n, room)
  OBVIOUS
<1>2. d \in Maps /\ d.count \in Pow2s \cup {0} /\ X \subseteq Nodes /\ (\A x \in X : EntryOK(d, m, x))
  BY DEF MapOK
<1>3. /\ d # Null /\ d.buckets \in Arrays \cup {Null}
      /\ d.count \in Nat /\ d.len \in Nat /\ d.hasher \in Hashers /\ d.al \in Als
  BY <1>2, MapIs
<1>4. CASE n > room \/ FreeOf(m, Arrays) = {}
  <2>1. r = Result(NoMem, d, m)
    BY <1>1, <1>4 DEF Rehash
  <2>2. QED
    BY <1>1, <2>1, StandsStill
<1>5. CASE ~(n > room) /\ FreeOf(m, Arrays) # {}
  <2>1. PICK b : b = NextOf(m, Arrays)
    OBVIOUS
  <2>2. b \in Arrays /\ m[b] = Null
    BY <1>5, <2>1, LentNext
  <2>3. PICK E : E = [al |-> d.al, slots |-> [i \in 0 .. n - 1 |-> Null]]
    OBVIOUS
  <2>4. PICK p : p = [m EXCEPT ![b] = E]
    OBVIOUS
  <2>5. PICK order : order = WalkOrder(d, m)
    OBVIOUS
  <2>6. PICK full : full = LinkAll(p, b, n, order)
    OBVIOUS
  <2>7. PICK q : q = GiveBackArray(full, d.buckets, d.al, d.count)
    OBVIOUS
  <2>8. PICK e : e = [d EXCEPT !.buckets = b, !.count = n]
    OBVIOUS
  <2>9. r = Result(OK, e, q)
    BY <1>1, <1>5, <2>1, <2>3, <2>4, <2>5, <2>6, <2>7, <2>8 DEF Rehash, Relinked
  <2>10. n \in 1 .. SizeMax /\ n \in 0 .. SizeMax /\ n \in Nat
    BY LengthsDouble, ConstantsAre
  <2>11. Lent(m, Foot(d, X)) /\ Foot(d, X) \subseteq Addrs
    BY FootIsLent
  <2>12. b \notin X /\ b # d.buckets /\ b \in Addrs /\ X \subseteq Addrs
    <3>1. b \notin Foot(d, X)
      BY <2>2, <2>11 DEF Lent
    <3>2. b # Null
      BY <2>2, HMapNullAssumption
    <3>3. QED
      BY <1>2, <1>3, <2>2, <3>1, <3>2 DEF Foot, Addrs
  <2>13. d.buckets \notin X
    BY <1>2, <1>3, ConstantsAre, HMapNullAssumption
  <2>14. SetAt(m, p, b, E)
    BY <2>4, WrittenIs
  <2>15. IsMemory(p) /\ p[b] = E /\ \A a \in Addrs : a # b => p[a] = m[a]
    BY <2>12, <2>14 DEF SetAt
  <2>16. E \in BucketArray(n) /\ E.al = d.al /\ \A i \in 0 .. n - 1 : E.slots[i] = Null
    BY <1>3, <2>3 DEF BucketArray
  <2>17. Filed(p, b, n, {})
    BY <2>15, <2>16, EmptyIsFiled
  <2>18. \A x \in X : p[x] = m[x] /\ p[x] \in MapNodes
    BY <1>2, <2>12, <2>15 DEF EntryOK
  <2>19. Listing(order, X)
    BY <2>5, WalkLists
  <2>20. p[b] \in BucketArray(n)
    BY <2>15, <2>16
  <2>21. LinkedUp(p, full, b, n, X)
    BY <1>2, <2>2, <2>6, <2>10, <2>15, <2>17, <2>18, <2>19, <2>20, AllAreLinked
  <2>22. /\ IsMemory(full) /\ (\A a \in Addrs : a # b /\ a \notin X => full[a] = p[a])
         /\ (\A x \in X : Alike(p, full, x))
         /\ full[b] \in BucketArray(n) /\ full[b].al = d.al
         /\ Filed(full, b, n, X)
    BY <2>15, <2>16, <2>21 DEF LinkedUp, Touches
  <2>23. d.buckets # Null => full[d.buckets] = m[d.buckets]
    BY <1>3, <2>12, <2>13, <2>15, <2>22 DEF Addrs
  <2>24. SetAt(full, q, d.buckets, Null)
    BY <2>7, <2>22, <2>23, BucketsGoBack
  <2>25. IsMemory(q) /\ \A a \in Addrs : q[a] = IF a = d.buckets THEN Null ELSE full[a]
    BY <2>24 DEF SetAt
  <2>26. q[b] = full[b] /\ \A x \in X : q[x] = full[x]
    BY <2>12, <2>13, <2>25
  <2>27. \A x \in X : Alike(m, q, x)
    BY <2>18, <2>22, <2>26 DEF Alike
  <2>28. /\ e \in Maps
         /\ e.buckets = b /\ e.count = n /\ e.len = d.len /\ e.hasher = d.hasher /\ e.al = d.al
    BY <1>2, <2>2, <2>8, <2>10 DEF Maps
  <2>29. MapOK(e, q, X)
    <3>1. \A x \in X : EntryOK(e, q, x)
      BY <1>2, <2>27, <2>28 DEF EntryOK, Alike
    <3>2. \A x, y \in X : q[x].key = q[y].key => x = y
      BY <2>27 DEF Alike, MapOK
    <3>3. ArrayOK(e, q, n, b)
      BY <2>2, <2>22, <2>26, <2>28 DEF ArrayOK
    <3>4. Filed(q, b, n, X)
      BY <2>22, <2>26, FiledStays
    <3>5. e.len = Cardinality(X) /\ e.len <= e.count /\ e.count \in Pow2s \cup {0} /\ e.count # 0
      BY <2>10, <2>28 DEF MapOK
    <3>6. QED
      BY <1>2, <2>28, <3>1, <3>2, <3>3, <3>4, <3>5 DEF MapOK
  <2>30. Swapped(Foot(d, X), m, Foot(e, X), q)
    <3>1. e # Null /\ b # Null
      BY <2>2, <2>28, MapIs, HMapNullAssumption
    <3>2. Foot(e, X) = X \cup {b}
      BY <2>28, <3>1 DEF Foot
    <3>3. Foot(d, X) = X \cup ({d.buckets} \ {Null})
      BY <1>3 DEF Foot
    <3>4. \A a \in Addrs : a # d.buckets /\ a \notin X /\ a # b => q[a] = m[a]
      BY <2>15, <2>22, <2>25
    <3>5. \A a \in Addrs : a # Null
      BY HMapNullAssumption DEF Addrs
    <3>6. d.buckets # Null => q[d.buckets] = Null
      BY <1>3, <2>25 DEF Addrs
    <3>7. QED
      BY <2>2, <3>2, <3>3, <3>4, <3>5, <3>6 DEF Swapped
  <2>31. Keeps(m, q, X)
    BY <2>27 DEF Keeps, Alike
  <2>32. \A x, y \in X : m[x].key = q[y].key => x = y
    BY <2>27 DEF Alike, MapOK
  <2>33. r.st = OK /\ r.d = e /\ r.m = q
    BY <2>9, ResultIs
  <2>34. OK # NoMem
    BY ConstantsAre
  <2>35. Turned(d, m, X, r, X)
    BY <2>25, <2>28, <2>29, <2>30, <2>32, <2>33 DEF Turned
  <2>36. QED
    BY <1>1, <2>28, <2>31, <2>33, <2>34, <2>35 DEF Regrown, Kept
<1>6. QED
  BY <1>4, <1>5

(* The array it goes over to has as many buckets as were asked for.        *)
LEMMA RehashCounts ==
  ASSUME NEW d \in Maps, NEW m, NEW n, NEW room, NEW r, r = Rehash(d, m, n, room), r.st = OK
  PROVE  r.d.count = n
<1>1. OK # NoMem
  BY ConstantsAre
<1>2. PICK b : b = NextOf(m, Arrays)
  OBVIOUS
<1>3. r # Result(NoMem, d, m)
  BY <1>1, ResultIs
<1>4. \E q : r = Result(OK, [d EXCEPT !.buckets = b, !.count = n], q)
  BY <1>2, <1>3 DEF Rehash
<1>5. r.d = [d EXCEPT !.buckets = b, !.count = n]
  BY <1>4, ResultIs
<1>6. QED
  BY <1>5 DEF Maps

(* After reserve_one there is room for one more, or nothing happened.      *)
LEMMA ReserveOneKeeps ==
  ASSUME NEW d, NEW m, NEW X, MapOK(d, m, X), IsMemory(m), NEW room,
         NEW r, r = ReserveOne(d, m, room)
  PROVE  Regrown(d, m, X, r) /\ (r.st = OK => r.d.len < r.d.count)
<1>1. d \in Maps /\ d.count \in Pow2s \cup {0} /\ d.len <= d.count
  BY DEF MapOK
<1>2. d.count \in Nat /\ d.len \in Nat
  BY <1>1, MapIs
<1>3. Base \in Pow2s /\ Base \in 1 .. SizeMax /\ SizeMax \in Nat /\ OK # NoMem
  BY LengthsDouble, ConstantsAre
<1>4. CASE d.len < d.count
  <2>1. r = Result(OK, d, m)
    BY <1>4 DEF ReserveOne
  <2>2. r.d = d
    BY <2>1, ResultIs
  <2>3. QED
    BY <1>4, <2>1, <2>2, StandsStill
<1>5. CASE ~(d.len < d.count) /\ d.count = 0
  <2>1. r = Rehash(d, m, Base, room)
    BY <1>5 DEF ReserveOne
  <2>2. d.len <= Base
    BY <1>2, <1>3, <1>1, <1>5
  <2>3. Regrown(d, m, X, r)
    BY <1>3, <2>1, <2>2, RehashKeeps
  <2>4. ASSUME r.st = OK
        PROVE  r.d.count = Base
    BY <1>1, <2>1, <2>4, RehashCounts
  <2>5. QED
    BY <1>1, <1>2, <1>3, <1>5, <2>3, <2>4 DEF Regrown
<1>6. CASE ~(d.len < d.count) /\ d.count # 0 /\ d.count * 2 > SizeMax
  <2>1. r = Result(NoMem, d, m)
    BY <1>6 DEF ReserveOne
  <2>2. r.st = NoMem
    BY <2>1, ResultIs
  <2>3. QED
    BY <1>3, <2>1, <2>2, StandsStill
<1>7. CASE ~(d.len < d.count) /\ d.count # 0 /\ ~(d.count * 2 > SizeMax)
  <2>1. r = Rehash(d, m, d.count * 2, room)
    BY <1>7 DEF ReserveOne
  <2>2. d.count * 2 \in Pow2s /\ d.len <= d.count * 2
    BY <1>1, <1>2, <1>3, <1>7, LengthsDouble
  <2>3. Regrown(d, m, X, r)
    BY <2>1, <2>2, RehashKeeps
  <2>4. ASSUME r.st = OK
        PROVE  r.d.count = d.count * 2
    BY <1>1, <2>1, <2>4, RehashCounts
  <2>5. QED
    BY <1>1, <1>2, <1>7, <2>3, <2>4 DEF Regrown
<1>8. QED
  BY <1>4, <1>5, <1>6, <1>7

(* A map that is told to have room for more grows, or stays as it was.     *)
LEMMA ReserveKeeps ==
  ASSUME NEW d, NEW m, NEW X, MapOK(d, m, X), IsMemory(m), NEW room, NEW cap \in Nat
  PROVE  Regrown(d, m, X, Reserve(d, m, cap, room))
<1>1. d \in Maps /\ d.count \in Pow2s \cup {0} /\ d.len <= d.count
  BY DEF MapOK
<1>2. d.count \in Nat /\ d.len \in Nat
  BY <1>1, MapIs
<1>3. CASE cap <= d.count
  <2>1. Reserve(d, m, cap, room) = Result(OK, d, m)
    BY <1>3 DEF Reserve
  <2>2. QED
    BY <2>1, StandsStill
<1>4. CASE ~(cap <= d.count) /\ RoundUpPow2(cap) = 0
  <2>1. Reserve(d, m, cap, room) = Result(NoMem, d, m)
    BY <1>4 DEF Reserve
  <2>2. QED
    BY <2>1, StandsStill
<1>5. CASE ~(cap <= d.count) /\ RoundUpPow2(cap) # 0
  <2>1. Reserve(d, m, cap, room) = Rehash(d, m, RoundUpPow2(cap), room)
    BY <1>5 DEF Reserve
  <2>2. RoundUpPow2(cap) \in Pow2s /\ cap <= RoundUpPow2(cap)
    BY <1>5, RoundsUp
  <2>3. RoundUpPow2(cap) \in Nat
    BY <2>2, LengthsDouble
  <2>4. d.len <= RoundUpPow2(cap)
    BY <1>1, <1>2, <1>5, <2>2, <2>3
  <2>5. QED
    BY <2>1, <2>2, <2>4, RehashKeeps
<1>6. QED
  BY <1>3, <1>4, <1>5

-----------------------------------------------------------------------------
(* Entries put in and overwritten.                                         *)

(* One change after another that kept the nodes is one.                    *)
LEMMA TurnsCompose ==
  ASSUME NEW d, NEW m, NEW X, MapOK(d, m, X), NEW p, Kept(d, m, X, p), NEW r, NEW Y,
         Turned(p.d, p.m, X, r, Y)
  PROVE  Turned(d, m, X, r, Y)
<1>1. /\ Swapped(Foot(d, X), m, Foot(p.d, X), p.m) /\ p.d.al = d.al /\ p.d.hasher = d.hasher
      /\ MapOK(p.d, p.m, X)
  BY DEF Kept, Turned
<1>2. /\ r.st \in {OK, NoMem} /\ MapOK(r.d, r.m, Y) /\ IsMemory(r.m)
      /\ r.d.al = p.d.al /\ r.d.hasher = p.d.hasher
      /\ Swapped(Foot(p.d, X), p.m, Foot(r.d, Y), r.m)
      /\ \A x \in X, y \in Y : p.m[x].key = r.m[y].key => x = y
  BY DEF Turned
<1>3. Foot(d, X) \subseteq Addrs /\ Foot(p.d, X) \subseteq Addrs /\ Foot(r.d, Y) \subseteq Addrs
  BY <1>1, <1>2, FootIsLent
<1>4. Swapped(Foot(d, X), m, Foot(r.d, Y), r.m)
  BY <1>1, <1>2, <1>3, SwapsCompose
<1>5. \A x \in X : p.m[x].key = m[x].key
  BY DEF Kept, Keeps
<1>6. \A x \in X, y \in Y : m[x].key = r.m[y].key => x = y
  BY <1>2, <1>5
<1>7. QED
  BY <1>1, <1>2, <1>4, <1>6 DEF Turned

(* Between m and q the map d got the node y, with the key and the value.   *)
Added(d, m, X, key, val, r, y) ==
  /\ y \in Nodes /\ y \notin X
  /\ Turned(d, m, X, r, X \cup {y})
  /\ Keeps(m, r.m, X)
  /\ r.m[y].key = key /\ r.m[y].val = val

(* The node that add_node makes.                                           *)
NodeFor(d, m, key, val) ==
  [al |-> d.al, key |-> key, val |-> val, hash |-> d.hasher[key],
   next |-> m[d.buckets].slots[BucketOf(d.count, d.hasher[key])]]

(* The node goes to the front of its bucket.                               *)
LEMMA NodeGoesIn ==
  ASSUME NEW d, NEW m, NEW X, MapOK(d, m, X), IsMemory(m), d.len < d.count,
         NEW key \in Keys, NEW val \in Vals, \A x \in X : m[x].key # key,
         NEW y \in Nodes, m[y] = Null,
         NEW r, r = Result(OK, [d EXCEPT !.len = @ + 1],
                           Linked(m, d.buckets, BucketOf(d.count, d.hasher[key]), y, NodeFor(d, m, key, val)))
  PROVE  Added(d, m, X, key, val, r, y)
<1>1. /\ d \in Maps /\ d.count \in Pow2s \cup {0} /\ X \subseteq Nodes /\ (\A x \in X : EntryOK(d, m, x))
      /\ (\A x, z \in X : m[x].key = m[z].key => x = z) /\ d.len = Cardinality(X)
  BY DEF MapOK
<1>2. /\ d # Null /\ d.buckets \in Arrays \cup {Null}
      /\ d.count \in Nat /\ d.len \in Nat /\ d.hasher \in Hashers /\ d.al \in Als
  BY <1>1, MapIs
<1>3. PICK b, n, hash : b = d.buckets /\ n = d.count /\ hash = d.hasher[key]
  OBVIOUS
<1>4. n # 0 /\ n \in Nat /\ n \in 0 .. SizeMax /\ hash \in Nat
  BY <1>1, <1>2, <1>3, LengthsAre, HashIs
<1>5. b \in Arrays /\ m[b] \in BucketArray(n) /\ m[b].al = d.al /\ Filed(m, b, n, X)
  BY <1>3, <1>4 DEF MapOK, ArrayOK
<1>6. m[b].slots \in [0 .. n - 1 -> Nodes \cup {Null}]
  BY <1>4, <1>5, ArrayIs
<1>7. PICK i : i = BucketOf(n, hash)
  OBVIOUS
<1>8. i \in 0 .. n - 1
  BY <1>4, <1>7, BucketIs
<1>9. PICK c : c = m[b].slots[i]
  OBVIOUS
<1>10. c \in Nodes \cup {Null}
  BY <1>6, <1>8, <1>9
<1>11. PICK node : node = [al |-> d.al, key |-> key, val |-> val, hash |-> hash, next |-> c]
  OBVIOUS
<1>12. node = NodeFor(d, m, key, val)
  BY <1>3, <1>7, <1>9, <1>11 DEF NodeFor
<1>13. /\ node \in MapNodes
       /\ node.al = d.al /\ node.key = key /\ node.val = val /\ node.hash = hash /\ node.next = c
  BY <1>2, <1>4, <1>10, <1>11 DEF MapNodes
<1>14. b # y /\ b \in Addrs /\ y \in Addrs /\ y # Null /\ b # Null /\ X \subseteq Addrs /\ b \notin X
  BY <1>1, <1>5, ConstantsAre, HMapNullAssumption DEF Addrs
<1>15. y \notin X
  BY <1>1, NodeIs DEF EntryOK
<1>16. PICK t : t = Pointing(m[b].slots, i, y)
  OBVIOUS
<1>17. t \in [0 .. n - 1 -> Nodes \cup {Null}]
  BY <1>6, <1>16 DEF Pointing
<1>18. PICK q : q = [m EXCEPT ![y] = node, ![b].slots = Pointing(@, i, y)]
  OBVIOUS
<1>19. q = Linked(m, b, i, y, node)
  BY <1>18 DEF Linked
<1>20. PICK e : e = [d EXCEPT !.len = @ + 1]
  OBVIOUS
<1>21. r = Result(OK, e, q)
  BY <1>3, <1>7, <1>12, <1>19, <1>20
<1>22. r.st = OK /\ r.d = e /\ r.m = q
  BY <1>21, ResultIs
<1>23. m = [a \in Addrs |-> m[a]]
  BY DEF IsMemory
<1>24. q = [a \in Addrs |-> IF a = b THEN [m[b] EXCEPT !.slots = t] ELSE IF a = y THEN node ELSE m[a]]
  BY <1>14, <1>16, <1>18, <1>23
<1>25. q[b] = [m[b] EXCEPT !.slots = t]
  BY <1>14, <1>24
<1>26. q[y] = node
  BY <1>14, <1>24
<1>27. \A a \in Addrs : a # b /\ a # y => q[a] = m[a]
  BY <1>24
<1>28. IsMemory(q)
  <2>1. q = [a \in Addrs |-> q[a]]
    BY <1>24
  <2>2. QED
    BY <2>1 DEF IsMemory
<1>29. m[b].al \in Als
  BY <1>4, <1>5, ArrayIs
<1>30. q[b] \in BucketArray(n) /\ q[b].al = m[b].al /\ q[b].slots = t
  BY <1>5, <1>17, <1>25, <1>29 DEF BucketArray
<1>31. \A x \in X : q[x] = m[x]
  BY <1>14, <1>15, <1>27
<1>32. PutInFront(m, q, b, n, y)
  BY <1>4, <1>7, <1>9, <1>13, <1>16, <1>26, <1>30 DEF PutInFront
<1>33. Filed(q, b, n, X \cup {y})
  BY <1>4, <1>5, <1>6, <1>15, <1>31, <1>32, FrontIsFiled
<1>34. /\ e \in Maps /\ e.buckets = b /\ e.count = n /\ e.len = d.len + 1
       /\ e.hasher = d.hasher /\ e.al = d.al
  BY <1>1, <1>2, <1>3, <1>20 DEF Maps
<1>35. MapOK(e, q, X \cup {y})
  <2>1. \A x \in X \cup {y} : EntryOK(e, q, x)
    <3>1. \A x \in X : EntryOK(e, q, x)
      BY <1>1, <1>31, <1>34 DEF EntryOK
    <3>2. EntryOK(e, q, y)
      BY <1>3, <1>13, <1>26, <1>34 DEF EntryOK
    <3>3. QED
      BY <3>1, <3>2
  <2>2. \A x, z \in X \cup {y} : q[x].key = q[z].key => x = z
    BY <1>1, <1>13, <1>26, <1>31
  <2>3. Cardinality(X \cup {y}) = Cardinality(X) + 1
    BY <1>1, <1>15, NodesCounted, FS_AddElement
  <2>4. e.len = Cardinality(X \cup {y}) /\ e.len <= e.count
    BY <1>1, <1>2, <1>3, <1>34, <2>3
  <2>5. ArrayOK(e, q, n, b)
    BY <1>5, <1>30, <1>34 DEF ArrayOK
  <2>6. X \cup {y} \subseteq Nodes /\ e.count \in Pow2s \cup {0} /\ e.count # 0
    BY <1>1, <1>3, <1>4, <1>34
  <2>7. QED
    BY <1>33, <1>34, <2>1, <2>2, <2>4, <2>5, <2>6 DEF MapOK
<1>36. Swapped(Foot(d, X), m, Foot(e, X \cup {y}), q)
  <2>1. e # Null
    BY <1>34, MapIs
  <2>2. Foot(d, X) = X \cup {b} /\ Foot(e, X \cup {y}) = X \cup {y} \cup {b}
    BY <1>2, <1>3, <1>14, <1>34, <2>1 DEF Foot
  <2>3. QED
    BY <1>14, <1>27, <2>2 DEF Swapped
<1>37. \A x \in X, z \in X \cup {y} : m[x].key = q[z].key => x = z
  BY <1>1, <1>13, <1>26, <1>31
<1>38. Turned(d, m, X, r, X \cup {y})
  BY <1>22, <1>28, <1>34, <1>35, <1>36, <1>37 DEF Turned
<1>39. Keeps(m, q, X)
  BY <1>31 DEF Keeps
<1>40. QED
  BY <1>13, <1>15, <1>22, <1>26, <1>38, <1>39 DEF Added

(* The map d came to hold the entries e.                                   *)
Becomes(d, m, X, r, e) == \E Y \in SUBSET Nodes : Turned(d, m, X, r, Y) /\ Reads(e, r.m, Y)

(* Kept nodes hold what they held.                                         *)
LEMMA KeptHolds ==
  ASSUME NEW d, NEW m, NEW X, MapOK(d, m, X), NEW r, Kept(d, m, X, r)
  PROVE  Becomes(d, m, X, r, EntriesOf(d, m))
<1>1. X \in SUBSET Nodes
  BY DEF MapOK
<1>2. Reads(EntriesOf(d, m), m, X) /\ Keeps(m, r.m, X) /\ Turned(d, m, X, r, X)
  BY FoundIsRead DEF Kept
<1>3. Reads(EntriesOf(d, m), r.m, X)
  BY <1>2, KeepersRead
<1>4. QED
  BY <1>1, <1>2, <1>3 DEF Becomes

(* A new node holds an entry more.                                         *)
LEMMA AddedHolds ==
  ASSUME NEW d, NEW m, NEW X, MapOK(d, m, X), NEW key \in Keys, NEW val \in Vals, \A x \in X : m[x].key # key,
         NEW r, NEW y, Added(d, m, X, key, val, r, y)
  PROVE  Becomes(d, m, X, r, M!Put(EntriesOf(d, m), key, val))
<1>1. X \cup {y} \in SUBSET Nodes
  BY DEF MapOK, Added
<1>2. PICK q : q = r.m
  OBVIOUS
<1>3. /\ y \notin X /\ Keeps(m, q, X) /\ q[y].key = key /\ q[y].val = val
      /\ Turned(d, m, X, r, X \cup {y})
  BY <1>2 DEF Added
<1>4. PICK e : e = EntriesOf(d, m)
  OBVIOUS
<1>5. Reads(e, m, X)
  BY <1>4, FoundIsRead
<1>6. q[y].key \notin KeysIn(m, X)
  BY <1>3 DEF KeysIn
<1>7. Reads(M!Put(e, q[y].key, q[y].val), q, X \cup {y})
  BY <1>3, <1>5, <1>6, OneMoreRead
<1>8. Reads(M!Put(e, key, val), q, X \cup {y})
  BY <1>3, <1>7
<1>9. QED
  BY <1>1, <1>2, <1>3, <1>4, <1>8 DEF Becomes

(* What add_node promises of a key that is not there.                      *)
AddsOrKeeps(d, m, X, key, val, r) ==
  \/ r.st = NoMem /\ Kept(d, m, X, r)
  \/ r.st = OK /\ \E y \in Nodes : Added(d, m, X, key, val, r, y)

(* That it keeps it.                                                       *)
LEMMA AddNodeTurns ==
  ASSUME NEW d, NEW m, NEW X, MapOK(d, m, X), IsMemory(m),
         NEW key \in Keys, NEW val \in Vals, \A x \in X : m[x].key # key, NEW room, NEW granted
  PROVE  AddsOrKeeps(d, m, X, key, val, AddNode(d, m, key, val, room, granted))
<1>1. PICK r : r = AddNode(d, m, key, val, room, granted)
  OBVIOUS
<1>2. PICK p : p = ReserveOne(d, m, room)
  OBVIOUS
<1>3. r = WithNode(d, p, key, val, granted)
  BY <1>1, <1>2 DEF AddNode
<1>4. Regrown(d, m, X, p) /\ (p.st = OK => p.d.len < p.d.count)
  BY <1>2, ReserveOneKeeps
<1>5. /\ Kept(d, m, X, p) /\ MapOK(p.d, p.m, X) /\ IsMemory(p.m) /\ Keeps(m, p.m, X)
      /\ p.d.al = d.al /\ p.d.hasher = d.hasher /\ p.st \in {OK, NoMem}
  BY <1>4 DEF Regrown, Kept, Turned
<1>6. OK # NoMem
  BY ConstantsAre
<1>7. CASE p.st = NoMem
  <2>1. r = p
    BY <1>3, <1>7 DEF WithNode
  <2>2. QED
    BY <1>1, <1>5, <1>7, <2>1 DEF AddsOrKeeps
<1>8. CASE p.st # NoMem /\ ~(granted /\ FreeOf(p.m, Nodes) # {})
  <2>1. r = Result(NoMem, p.d, p.m)
    BY <1>3, <1>8 DEF WithNode, NodeNew
  <2>2. r.st = NoMem /\ r.d = p.d /\ r.m = p.m
    BY <2>1, ResultIs
  <2>3. Kept(d, m, X, r)
    BY <1>5, <2>2 DEF Kept, Turned
  <2>4. QED
    BY <1>1, <2>2, <2>3 DEF AddsOrKeeps
<1>9. CASE p.st # NoMem /\ granted /\ FreeOf(p.m, Nodes) # {}
  <2>1. PICK y : y = NextOf(p.m, Nodes)
    OBVIOUS
  <2>2. y \in Nodes /\ p.m[y] = Null
    BY <1>9, <2>1, LentNext
  <2>3. y # Null
    BY <2>2, HMapNullAssumption
  <2>4. PICK e, i, node : /\ e = [p.d EXCEPT !.len = @ + 1]
                          /\ i = BucketOf(p.d.count, p.d.hasher[key])
                          /\ node = NodeFor(p.d, p.m, key, val)
    OBVIOUS
  <2>5. PICK new : new = NodeNew(p.m, d.al, key, val, d.hasher[key], granted)
    OBVIOUS
  <2>6. new.x = y /\ node = [new.node EXCEPT !.next = p.m[p.d.buckets].slots[i]]
    BY <1>5, <1>9, <2>1, <2>4, <2>5, SMTT(40) DEF NodeNew, NodeFor
  <2>7. i = Chosen(d, p.d, d.hasher[key])
    BY <1>5, <2>4, SMTT(40) DEF Chosen
  <2>8. r = Result(OK, e, Linked(p.m, p.d.buckets, i, y, node))
    <3>1. r = Result(OK, [p.d EXCEPT !.len = @ + 1],
                     Linked(p.m, p.d.buckets, i, new.x, [new.node EXCEPT !.next = p.m[p.d.buckets].slots[i]]))
      BY <1>3, <1>9, <2>3, <2>5, <2>6, <2>7 DEF WithNode
    <3>2. QED
      BY <2>4, <2>6, <3>1
  <2>9. p.d.len < p.d.count
    BY <1>4, <1>5, <1>9
  <2>10. \A x \in X : p.m[x].key # key
    BY <1>5 DEF Keeps
  <2>11. r = Result(OK, [p.d EXCEPT !.len = @ + 1],
                    Linked(p.m, p.d.buckets, BucketOf(p.d.count, p.d.hasher[key]), y, NodeFor(p.d, p.m, key, val)))
    BY <2>4, <2>8
  <2>12. PICK u, v : u = p.d /\ v = p.m
    OBVIOUS
  <2>13. Added(u, v, X, key, val, r, y)
    <3>1. MapOK(u, v, X) /\ IsMemory(v) /\ u.len < u.count /\ (\A x \in X : v[x].key # key) /\ v[y] = Null
      BY <1>5, <2>2, <2>9, <2>10, <2>12
    <3>2. r = Result(OK, [u EXCEPT !.len = @ + 1],
                     Linked(v, u.buckets, BucketOf(u.count, u.hasher[key]), y, NodeFor(u, v, key, val)))
      BY <2>11, <2>12
    <3>3. QED
      BY <2>2, <3>1, <3>2, NodeGoesIn
  <2>14. y \notin X /\ Turned(p.d, p.m, X, r, X \cup {y}) /\ Keeps(p.m, r.m, X) /\ r.m[y].key = key /\ r.m[y].val = val
    BY <2>12, <2>13 DEF Added
  <2>15. Turned(d, m, X, r, X \cup {y})
    BY <1>5, <2>14, TurnsCompose
  <2>16. Keeps(m, r.m, X)
    BY <1>5, <2>14 DEF Keeps
  <2>17. Added(d, m, X, key, val, r, y)
    BY <2>2, <2>14, <2>15, <2>16 DEF Added
  <2>18. r.st = OK
    BY <2>8, ResultIs
  <2>19. QED
    BY <1>1, <2>2, <2>17, <2>18 DEF AddsOrKeeps
<1>10. QED
  BY <1>7, <1>8, <1>9

(* A value overwritten where it lies.                                      *)
LEMMA OverwriteTurns ==
  ASSUME NEW d, NEW m, NEW X, MapOK(d, m, X), IsMemory(m), NEW x \in X, NEW val \in Vals,
         NEW q, q = [m EXCEPT ![x].val = val]
  PROVE  Becomes(d, m, X, Result(OK, d, q), M!Put(EntriesOf(d, m), m[x].key, val))
<1>1. /\ d \in Maps /\ d.count \in Pow2s \cup {0} /\ X \subseteq Nodes /\ (\A y \in X : EntryOK(d, m, y))
      /\ (\A y, z \in X : m[y].key = m[z].key => y = z) /\ d.len = Cardinality(X) /\ d.len <= d.count
  BY DEF MapOK
<1>2. d # Null /\ d.buckets \in Arrays \cup {Null} /\ d.count \in Nat
  BY <1>1, MapIs
<1>3. x \in Addrs /\ x \in Nodes /\ m[x] \in MapNodes
  BY <1>1 DEF Addrs, EntryOK
<1>4. m = [a \in Addrs |-> m[a]]
  BY DEF IsMemory
<1>5. q = [a \in Addrs |-> IF a = x THEN [m[x] EXCEPT !.val = val] ELSE m[a]]
  BY <1>3, <1>4
<1>6. q[x] = [m[x] EXCEPT !.val = val] /\ \A a \in Addrs : a # x => q[a] = m[a]
  BY <1>3, <1>5
<1>7. /\ q[x] \in MapNodes /\ q[x].al = m[x].al /\ q[x].key = m[x].key /\ q[x].val = val
      /\ q[x].hash = m[x].hash /\ q[x].next = m[x].next
  BY <1>3, <1>6 DEF MapNodes
<1>8. IsMemory(q)
  <2>1. q = [a \in Addrs |-> q[a]]
    BY <1>5
  <2>2. QED
    BY <2>1 DEF IsMemory
<1>9. \A y \in X : /\ q[y] \in MapNodes /\ q[y].al = m[y].al /\ q[y].key = m[y].key
                   /\ q[y].hash = m[y].hash /\ q[y].next = m[y].next
  <2>1. ASSUME NEW y \in X, y # x
        PROVE  q[y] = m[y] /\ m[y] \in MapNodes
    BY <1>1, <1>6, <2>1 DEF Addrs, EntryOK
  <2>2. QED
    BY <1>7, <2>1
<1>10. MapOK(d, q, X)
  <2>1. \A y \in X : EntryOK(d, q, y)
    BY <1>1, <1>9 DEF EntryOK
  <2>2. \A y, z \in X : q[y].key = q[z].key => y = z
    BY <1>1, <1>9
  <2>3. ASSUME d.count # 0
        PROVE  ArrayOK(d, q, d.count, d.buckets) /\ Filed(q, d.buckets, d.count, X)
    <3>1. PICK b, n : b = d.buckets /\ n = d.count
      OBVIOUS
    <3>2. ArrayOK(d, m, n, b) /\ Filed(m, b, n, X)
      BY <2>3, <3>1 DEF MapOK
    <3>3. b \in Addrs /\ b # x
      BY <1>3, <3>2, ConstantsAre DEF ArrayOK, Addrs
    <3>4. q[b] = m[b]
      BY <1>6, <3>3
    <3>5. ASSUME NEW i \in 0 .. n - 1
          PROVE  Chained(q, q[b].slots[i], InBucket(q, n, X, i))
      <4>1. InBucket(q, n, X, i) = InBucket(m, n, X, i)
        BY <1>9 DEF InBucket
      <4>2. PICK l, s : Strung(m, m[b].slots[i], l, s) /\ Along(l, s) = InBucket(m, n, X, i)
        BY <3>2 DEF Filed, Chained
      <4>3. \A k \in 1 .. l : s[k] \in X
        BY <4>2 DEF Along, InBucket
      <4>4. \A k \in 1 .. l : q[s[k]].next = m[s[k]].next
        BY <1>9, <4>3
      <4>5. Strung(q, m[b].slots[i], l, s)
        BY <4>2, <4>4 DEF Strung
      <4>6. QED
        BY <3>4, <4>1, <4>2, <4>5 DEF Chained
    <3>6. Filed(q, b, n, X)
      BY <3>5 DEF Filed
    <3>7. ArrayOK(d, q, n, b)
      BY <3>2, <3>4 DEF ArrayOK
    <3>8. QED
      BY <3>1, <3>6, <3>7
  <2>4. d.count = 0 => d.buckets = Null
    BY DEF MapOK
  <2>5. QED
    BY <1>1, <2>1, <2>2, <2>3, <2>4 DEF MapOK
<1>11. x \in Foot(d, X)
  BY <1>2 DEF Foot
<1>12. Swapped(Foot(d, X), m, Foot(d, X), q)
  BY <1>6, <1>11 DEF Swapped
<1>13. PICK r : r = Result(OK, d, q)
  OBVIOUS
<1>14. r.st = OK /\ r.d = d /\ r.m = q
  BY <1>13, ResultIs
<1>15. \A y, z \in X : m[y].key = q[z].key => y = z
  BY <1>1, <1>9
<1>16. Turned(d, m, X, r, X)
  BY <1>8, <1>10, <1>12, <1>14, <1>15 DEF Turned
<1>17. PICK e : e = EntriesOf(d, m)
  OBVIOUS
<1>18. Reads(e, m, X)
  BY <1>17, FoundIsRead
<1>19. Keeps(m, q, X \ {x})
  <2>1. \A y \in X : y \in Addrs
    BY <1>1 DEF Addrs
  <2>2. QED
    BY <1>6, <2>1 DEF Keeps
<1>20. Reads(M!Put(e, m[x].key, q[x].val), q, X)
  <2>1. OneEach(m, X)
    BY <1>1 DEF OneEach
  <2>2. q[x].key = m[x].key /\ q[x].val \in Vals
    BY <1>7
  <2>3. QED
    BY <1>18, <1>19, <2>1, <2>2, OverwrittenRead
<1>21. Reads(M!Put(e, m[x].key, val), r.m, X)
  BY <1>7, <1>14, <1>20
<1>22. X \in SUBSET Nodes
  BY <1>1
<1>23. QED
  BY <1>13, <1>16, <1>17, <1>21, <1>22 DEF Becomes

(* What insert promises.                                                   *)
InsertsOrKeeps(d, m, X, key, val, r) ==
  \/ r.st = NoMem /\ Kept(d, m, X, r) /\ key \notin DOMAIN EntriesOf(d, m)
  \/ r.st = OK /\ Becomes(d, m, X, r, M!Put(EntriesOf(d, m), key, val))

(* What is found under a key is one of the entries.                        *)
LEMMA FoundIsThere ==
  ASSUME NEW d, NEW m, NEW key \in Keys
  PROVE  key \in DOMAIN EntriesOf(d, m) <=> FindNode(d, m, key) # Null
  BY DEF EntriesOf

(* A key that is not there is added.                                       *)
LEMMA AddKeepsPromise ==
  ASSUME NEW d, NEW m, NEW X, MapOK(d, m, X), IsMemory(m), NEW key \in Keys, NEW val \in Vals,
         FindNode(d, m, key) = Null, NEW room, NEW granted
  PROVE  InsertsOrKeeps(d, m, X, key, val, AddNode(d, m, key, val, room, granted))
<1>1. PICK r : r = AddNode(d, m, key, val, room, granted)
  OBVIOUS
<1>2. \A x \in X : m[x].key # key
  BY Finds
<1>3. AddsOrKeeps(d, m, X, key, val, r)
  BY <1>1, <1>2, AddNodeTurns
<1>4. key \notin DOMAIN EntriesOf(d, m)
  BY FoundIsThere
<1>5. CASE r.st = NoMem /\ Kept(d, m, X, r)
  BY <1>1, <1>4, <1>5 DEF InsertsOrKeeps
<1>6. CASE r.st = OK /\ \E y \in Nodes : Added(d, m, X, key, val, r, y)
  <2>1. PICK y \in Nodes : Added(d, m, X, key, val, r, y)
    BY <1>6
  <2>2. Becomes(d, m, X, r, M!Put(EntriesOf(d, m), key, val))
    BY <1>2, <2>1, AddedHolds
  <2>3. QED
    BY <1>1, <1>6, <2>2 DEF InsertsOrKeeps
<1>7. QED
  BY <1>3, <1>5, <1>6 DEF AddsOrKeeps

(* A key that is there gets the value.                                     *)
LEMMA WriteTurns ==
  ASSUME NEW d, NEW m, NEW X, MapOK(d, m, X), IsMemory(m), NEW key \in Keys, NEW val \in Vals,
         NEW x, x = FindNode(d, m, key), x # Null, NEW q, q = [m EXCEPT ![x].val = val]
  PROVE  Becomes(d, m, X, Result(OK, d, q), M!Put(EntriesOf(d, m), key, val))
<1>1. x \in X /\ m[x].key = key
  BY Finds
<1>2. Becomes(d, m, X, Result(OK, d, q), M!Put(EntriesOf(d, m), m[x].key, val))
  BY <1>1, OverwriteTurns
<1>3. QED
  BY <1>1, <1>2

(* Either way insert keeps its promise.                                    *)
LEMMA InsertTurns ==
  ASSUME NEW d, NEW m, NEW X, MapOK(d, m, X), IsMemory(m), NEW key \in Keys, NEW val \in Vals,
         NEW room, NEW granted
  PROVE  InsertsOrKeeps(d, m, X, key, val, InsertInto(d, m, key, val, room, granted))
<1>1. CASE FindNode(d, m, key) = Null
  <2>1. InsertInto(d, m, key, val, room, granted) = AddNode(d, m, key, val, room, granted)
    BY <1>1 DEF InsertInto
  <2>2. QED
    BY <1>1, <2>1, AddKeepsPromise
<1>2. CASE FindNode(d, m, key) # Null
  <2>1. PICK x : x = FindNode(d, m, key)
    OBVIOUS
  <2>2. PICK q : q = [m EXCEPT ![x].val = val]
    OBVIOUS
  <2>3. InsertInto(d, m, key, val, room, granted) = Result(OK, d, q)
    BY <1>2, <2>1, <2>2 DEF InsertInto, Overwritten
  <2>4. Becomes(d, m, X, Result(OK, d, q), M!Put(EntriesOf(d, m), key, val))
    BY <1>2, <2>1, <2>2, WriteTurns
  <2>5. Result(OK, d, q).st = OK
    BY ResultIs
  <2>6. QED
    BY <2>3, <2>4, <2>5 DEF InsertsOrKeeps
<1>3. QED
  BY <1>1, <1>2

-----------------------------------------------------------------------------
(* Entries taken out.                                                      *)

(* The link to the j-th node of a chain is the one that it had.            *)
Unlinked(m, q, l, s, j) ==
  \A k \in 1 .. l : k # j => q[s[k]].next = IF k + 1 = j THEN m[s[j]].next ELSE m[s[k]].next

(* And so is the first, if that was it.                                    *)
FirstWithout(m, x, s, j) == IF j = 1 THEN m[s[j]].next ELSE x

(* Then the chain has the nodes it had but that one.                       *)
LEMMA StrungWithout ==
  ASSUME NEW m, NEW q, NEW x, NEW l, NEW s, Strung(m, x, l, s), NEW j \in 1 .. l,
         Unlinked(m, q, l, s, j)
  PROVE  Chained(q, FirstWithout(m, x, s, j), Along(l, s) \ {s[j]})
<1>1. l \in Nat /\ s \in [1 .. l -> Nodes] /\ x = IF l = 0 THEN Null ELSE s[1]
  BY DEF Strung
<1>2. \A k \in 1 .. l : m[s[k]].next = IF k = l THEN Null ELSE s[k + 1]
  BY DEF Strung
<1>3. \A k, i \in 1 .. l : s[k] = s[i] => k = i
  BY DEF Strung
<1>4. l # 0 /\ l - 1 \in Nat /\ j \in Nat
  BY <1>1
<1>5. PICK t : t = [k \in 1 .. l - 1 |-> IF k < j THEN s[k] ELSE s[k + 1]]
  OBVIOUS
<1>6. \A k \in 1 .. l - 1 : k \in 1 .. l /\ k + 1 \in 1 .. l
  BY <1>1
<1>7. t \in [1 .. l - 1 -> Nodes]
  BY <1>1, <1>5, <1>6
<1>8. PICK y : y = FirstWithout(m, x, s, j)
  OBVIOUS
<1>9. y = IF l - 1 = 0 THEN Null ELSE t[1]
  <2>1. CASE j = 1
    <3>1. y = IF 1 = l THEN Null ELSE s[2]
      BY <1>2, <1>8, <2>1 DEF FirstWithout
    <3>2. l # 1 => t[1] = s[2]
      BY <1>1, <1>4, <1>5, <2>1
    <3>3. QED
      BY <1>1, <3>1, <3>2
  <2>2. CASE j # 1
    <3>1. 1 \in 1 .. l - 1 /\ 1 < j /\ l - 1 # 0
      BY <1>1, <1>4, <2>2
    <3>2. t[1] = s[1]
      BY <1>5, <3>1
    <3>3. QED
      BY <1>1, <1>4, <1>8, <2>2, <3>1, <3>2 DEF FirstWithout
  <2>3. QED
    BY <2>1, <2>2
<1>10. ASSUME NEW k \in 1 .. l - 1
      PROVE  q[t[k]].next = IF k = l - 1 THEN Null ELSE t[k + 1]
  <2>1. k \in 1 .. l /\ k + 1 \in 1 .. l /\ k \in Nat
    BY <1>6
  <2>2. k # l - 1 => k + 1 \in 1 .. l - 1
    BY <1>1
  <2>3. CASE k < j
    <3>1. t[k] = s[k] /\ k # j
      BY <1>4, <1>5, <2>1, <2>3
    <3>2. q[t[k]].next = IF k + 1 = j THEN m[s[j]].next ELSE m[s[k]].next
      BY <2>1, <3>1 DEF Unlinked
    <3>3. CASE k + 1 = j
      <4>1. q[t[k]].next = IF j = l THEN Null ELSE s[j + 1]
        BY <1>2, <3>2, <3>3
      <4>2. k # l - 1 => t[k + 1] = s[(k + 1) + 1]
        BY <1>4, <1>5, <2>1, <2>2, <3>3
      <4>3. k = l - 1 <=> j = l
        BY <1>1, <2>1, <3>3
      <4>4. QED
        BY <3>3, <4>1, <4>2, <4>3
    <3>4. CASE k + 1 # j
      <4>1. q[t[k]].next = IF k = l THEN Null ELSE s[k + 1]
        BY <1>2, <2>1, <3>2, <3>4
      <4>2. k + 1 < j /\ k # l - 1 /\ k # l
        BY <1>1, <1>4, <2>1, <2>3, <3>4
      <4>3. t[k + 1] = s[k + 1]
        BY <1>5, <2>2, <4>2
      <4>4. QED
        BY <4>1, <4>2, <4>3
    <3>5. QED
      BY <3>3, <3>4
  <2>4. CASE ~(k < j)
    <3>1. t[k] = s[k + 1] /\ k + 1 # j /\ (k + 1) + 1 # j
      BY <1>4, <1>5, <2>1, <2>4
    <3>2. q[t[k]].next = m[s[k + 1]].next
      BY <2>1, <3>1 DEF Unlinked
    <3>3. q[t[k]].next = IF k + 1 = l THEN Null ELSE s[(k + 1) + 1]
      BY <1>2, <2>1, <3>2
    <3>4. k # l - 1 => t[k + 1] = s[(k + 1) + 1]
      BY <1>4, <1>5, <2>1, <2>2, <2>4
    <3>5. k + 1 = l <=> k = l - 1
      BY <1>1, <2>1
    <3>6. QED
      BY <3>3, <3>4, <3>5
  <2>5. QED
    BY <2>3, <2>4
<1>11. ASSUME NEW k \in 1 .. l - 1, NEW i \in 1 .. l - 1, t[k] = t[i]
       PROVE  k = i
  <2>1. k \in 1 .. l /\ k + 1 \in 1 .. l /\ i \in 1 .. l /\ i + 1 \in 1 .. l
    BY <1>6
  <2>2. (IF k < j THEN s[k] ELSE s[k + 1]) = (IF i < j THEN s[i] ELSE s[i + 1])
    BY <1>5, <1>11
  <2>3. CASE k < j /\ i < j
    BY <1>3, <2>1, <2>2, <2>3
  <2>4. CASE k < j /\ ~(i < j)
    <3>1. k = i + 1
      BY <1>3, <2>1, <2>2, <2>4
    <3>2. QED
      BY <1>4, <2>4, <3>1
  <2>5. CASE ~(k < j) /\ i < j
    <3>1. k + 1 = i
      BY <1>3, <2>1, <2>2, <2>5
    <3>2. QED
      BY <1>4, <2>5, <3>1
  <2>6. CASE ~(k < j) /\ ~(i < j)
    <3>1. k + 1 = i + 1
      BY <1>3, <2>1, <2>2, <2>6
    <3>2. QED
      BY <3>1
  <2>7. QED
    BY <2>3, <2>4, <2>5, <2>6
<1>12. Along(l - 1, t) = Along(l, s) \ {s[j]}
  <2>1. ASSUME NEW k \in 1 .. l - 1
        PROVE  t[k] \in Along(l, s) /\ t[k] # s[j]
    <3>1. k \in 1 .. l /\ k + 1 \in 1 .. l
      BY <1>6
    <3>2. t[k] = IF k < j THEN s[k] ELSE s[k + 1]
      BY <1>5
    <3>3. CASE k < j
      BY <1>3, <1>4, <3>1, <3>2, <3>3 DEF Along
    <3>4. CASE ~(k < j)
      <4>1. k + 1 # j
        BY <1>4, <3>4
      <4>2. QED
        BY <1>3, <3>1, <3>2, <3>4, <4>1 DEF Along
    <3>5. QED
      BY <3>3, <3>4
  <2>2. ASSUME NEW k \in 1 .. l, s[k] # s[j]
        PROVE  s[k] \in Along(l - 1, t)
    <3>1. k # j
      BY <2>2
    <3>2. CASE k < j
      <4>1. k \in 1 .. l - 1 /\ t[k] = s[k]
        BY <1>1, <1>5, <3>2
      <4>2. QED
        BY <4>1 DEF Along
    <3>3. CASE ~(k < j)
      <4>1. k - 1 \in 1 .. l - 1 /\ ~(k - 1 < j) /\ (k - 1) + 1 = k
        BY <1>1, <1>4, <3>1, <3>3
      <4>2. t[k - 1] = s[k]
        BY <1>5, <4>1
      <4>3. QED
        BY <4>1, <4>2 DEF Along
    <3>4. QED
      BY <3>2, <3>3
  <2>3. \A z \in Along(l - 1, t) : z \in Along(l, s) \ {s[j]}
    BY <2>1 DEF Along
  <2>4. \A z \in Along(l, s) \ {s[j]} : z \in Along(l - 1, t)
    BY <2>2 DEF Along
  <2>5. QED
    BY <2>3, <2>4
<1>13. Strung(q, y, l - 1, t)
  BY <1>4, <1>7, <1>9, <1>10, <1>11 DEF Strung
<1>14. QED
  BY <1>12, <1>13, <1>8 DEF Chained

(* The j-th node of a chain unlinked, and given back.                      *)
LEMMA RemoveFromIs ==
  ASSUME NEW d, NEW m, NEW X, MapOK(d, m, X), IsMemory(m), NEW x \in X,
         NEW i, i = BucketOf(d.count, m[x].hash),
         NEW l, NEW s, Strung(m, m[d.buckets].slots[i], l, s), \A k \in 1 .. l : s[k] \in X,
         NEW j \in 1 .. l, s[j] = x, NEW q, q = RemoveFrom(d, m, x)
  PROVE  /\ IsMemory(q) /\ q[x] = Null
         /\ \A a \in Addrs : a # d.buckets /\ a \notin Along(l, s) => q[a] = m[a]
         /\ \A y \in X : y # x => Alike(m, q, y)
         /\ Unlinked(m, q, l, s, j)
         /\ q[d.buckets] \in BucketArray(d.count) /\ q[d.buckets].al = m[d.buckets].al
         /\ q[d.buckets].slots = IF j = 1 THEN Pointing(m[d.buckets].slots, i, m[x].next)
                                 ELSE m[d.buckets].slots
<1>1. d \in Maps /\ d.count \in Pow2s \cup {0} /\ X \subseteq Nodes /\ (\A y \in X : EntryOK(d, m, y))
  BY DEF MapOK
<1>2. d.count # 0
  BY NodesAreInBuckets
<1>3. PICK b, n, c : b = d.buckets /\ n = d.count /\ c = m[x].next
  OBVIOUS
<1>4. b \in Arrays /\ m[b] \in BucketArray(n) /\ n \in 0 .. SizeMax
  BY <1>1, <1>2, <1>3, LengthsAre DEF MapOK, ArrayOK
<1>5. m[b].al \in Als /\ m[b].slots \in [0 .. n - 1 -> Nodes \cup {Null}]
  BY <1>4, ArrayIs
<1>6. x \in Nodes /\ m[x] \in MapNodes /\ m[x].al = d.al
  BY <1>1 DEF EntryOK
<1>7. c \in Nodes \cup {Null}
  BY <1>3, <1>6, NodeIs
<1>8. l \in Nat /\ s \in [1 .. l -> Nodes] /\ (\A k, h \in 1 .. l : s[k] = s[h] => k = h)
  BY DEF Strung
<1>9. Chain(m, m[b].slots[i]) = s
  BY <1>3, ChainIs
<1>10. DOMAIN s = 1 .. l /\ 1 \in 1 .. l
  BY <1>8
<1>11. m = [a \in Addrs |-> m[a]]
  BY DEF IsMemory
<1>12. b \in Addrs /\ x \in Addrs /\ b # x /\ b \notin X /\ X \subseteq Addrs
  BY <1>1, <1>4, <1>6, ConstantsAre DEF Addrs
<1>13. PICK prev : prev = s[CHOOSE k \in 1 .. l : k + 1 \in 1 .. l /\ s[k + 1] = x]
  OBVIOUS
<1>14. PICK cut : cut = IF s[1] = x THEN [m EXCEPT ![b].slots = Pointing(@, i, c)]
                        ELSE [m EXCEPT ![prev].next = c]
  OBVIOUS
<1>15. q = GiveBackNode(cut, x, d.al)
  BY <1>3, <1>9, <1>10, <1>13, <1>14 DEF RemoveFrom, Past
<1>16. CASE j = 1
  <2>1. cut = [m EXCEPT ![b].slots = Pointing(@, i, c)]
    BY <1>14, <1>16
  <2>2. PICK t : t = Pointing(m[b].slots, i, c)
    OBVIOUS
  <2>3. t \in [0 .. n - 1 -> Nodes \cup {Null}]
    BY <1>5, <1>7, <2>2 DEF Pointing
  <2>4. cut = [a \in Addrs |-> IF a = b THEN [m[b] EXCEPT !.slots = t] ELSE m[a]]
    BY <1>11, <1>12, <2>1, <2>2
  <2>5. cut[x] = m[x]
    BY <1>12, <2>4
  <2>6. q = [cut EXCEPT ![x] = Null]
    BY <1>6, <1>15, <2>5 DEF GiveBackNode
  <2>7. q = [a \in Addrs |-> IF a = x THEN Null ELSE IF a = b THEN [m[b] EXCEPT !.slots = t] ELSE m[a]]
    BY <2>4, <2>6
  <2>8. q[x] = Null /\ q[b] = [m[b] EXCEPT !.slots = t]
    BY <1>12, <2>7
  <2>9. \A a \in Addrs : a # x /\ a # b => q[a] = m[a]
    BY <2>7
  <2>10. IsMemory(q)
    <3>1. q = [a \in Addrs |-> q[a]]
      BY <2>7
    <3>2. QED
      BY <3>1 DEF IsMemory
  <2>11. q[b] \in BucketArray(n) /\ q[b].al = m[b].al /\ q[b].slots = t
    BY <1>4, <1>5, <2>3, <2>8 DEF BucketArray
  <2>12. \A y \in X : y # x => q[y] = m[y]
    BY <1>12, <2>9
  <2>13. \A y \in X : y # x => Alike(m, q, y)
    BY <1>1, <2>12 DEF Alike, EntryOK
  <2>14. Unlinked(m, q, l, s, j)
    <3>1. ASSUME NEW k \in 1 .. l, k # j
          PROVE  q[s[k]].next = IF k + 1 = j THEN m[s[j]].next ELSE m[s[k]].next
      <4>1. s[k] # x /\ s[k] \in X
        BY <1>8, <3>1
      <4>2. k + 1 # j
        BY <1>16
      <4>3. QED
        BY <2>12, <4>1, <4>2
    <3>2. QED
      BY <3>1 DEF Unlinked
  <2>15. x \in Along(l, s)
    BY DEF Along
  <2>16. QED
    BY <1>3, <1>16, <2>2, <2>8, <2>9, <2>10, <2>11, <2>13, <2>14, <2>15
<1>17. CASE j # 1
  <2>1. s[1] # x
    BY <1>8, <1>10, <1>17
  <2>2. j - 1 \in 1 .. l /\ (j - 1) + 1 = j
    BY <1>8, <1>17
  <2>3. PICK h \in 1 .. l : h + 1 \in 1 .. l /\ s[h + 1] = x /\ h = CHOOSE k \in 1 .. l : k + 1 \in 1 .. l /\ s[k + 1] = x
    BY <2>2
  <2>4. h \in Nat /\ h + 1 = j
    BY <1>8, <2>3
  <2>5. prev = s[h] /\ prev \in X /\ prev # x /\ prev \in Along(l, s)
    <3>1. h # j
      BY <2>4
    <3>2. QED
      BY <1>8, <1>13, <2>3, <3>1 DEF Along
  <2>6. cut = [m EXCEPT ![prev].next = c]
    BY <1>14, <2>1
  <2>7. prev \in Addrs /\ prev # b /\ m[prev] \in MapNodes
    BY <1>1, <1>12, <2>5 DEF EntryOK
  <2>8. cut = [a \in Addrs |-> IF a = prev THEN [m[prev] EXCEPT !.next = c] ELSE m[a]]
    BY <1>11, <2>6, <2>7
  <2>9. cut[x] = m[x]
    BY <1>12, <2>5, <2>8
  <2>10. q = [cut EXCEPT ![x] = Null]
    BY <1>6, <1>15, <2>9 DEF GiveBackNode
  <2>11. q = [a \in Addrs |-> IF a = x THEN Null ELSE IF a = prev THEN [m[prev] EXCEPT !.next = c] ELSE m[a]]
    BY <2>8, <2>10
  <2>12. q[x] = Null /\ q[prev] = [m[prev] EXCEPT !.next = c]
    BY <1>12, <2>5, <2>7, <2>11
  <2>13. \A a \in Addrs : a # x /\ a # prev => q[a] = m[a]
    BY <2>11
  <2>14. IsMemory(q)
    <3>1. q = [a \in Addrs |-> q[a]]
      BY <2>11
    <3>2. QED
      BY <3>1 DEF IsMemory
  <2>15. Alike(m, q, prev) /\ q[prev].next = c
    BY <1>7, <2>7, <2>12 DEF Alike, MapNodes
  <2>16. \A y \in X : y # x => Alike(m, q, y)
    <3>1. ASSUME NEW y \in X, y # x, y # prev
          PROVE  q[y] = m[y] /\ m[y] \in MapNodes
      BY <1>1, <1>12, <2>13, <3>1 DEF EntryOK
    <3>2. QED
      BY <2>15, <3>1 DEF Alike
  <2>17. q[b] = m[b]
    BY <1>12, <2>7, <2>13
  <2>18. Unlinked(m, q, l, s, j)
    <3>1. ASSUME NEW k \in 1 .. l, k # j
          PROVE  q[s[k]].next = IF k + 1 = j THEN m[s[j]].next ELSE m[s[k]].next
      <4>1. s[k] # x /\ s[k] \in X /\ s[k] \in Addrs
        BY <1>8, <1>12, <3>1
      <4>2. CASE k + 1 = j
        <5>1. k = h
          BY <2>4, <4>2
        <5>2. QED
          BY <1>3, <2>5, <2>15, <4>2, <5>1
      <4>3. CASE k + 1 # j
        <5>1. s[k] # prev
          BY <1>8, <2>4, <2>5, <4>3
        <5>2. QED
          BY <2>13, <4>1, <4>3, <5>1
      <4>4. QED
        BY <4>2, <4>3
    <3>2. QED
      BY <3>1 DEF Unlinked
  <2>19. x \in Along(l, s)
    BY DEF Along
  <2>20. QED
    BY <1>3, <1>4, <1>17, <2>5, <2>12, <2>13, <2>14, <2>16, <2>17, <2>18, <2>19
<1>18. QED
  BY <1>16, <1>17

(* A node taken out takes its entry along.                                 *)
LEMMA RemoveTurns ==
  ASSUME NEW d, NEW m, NEW X, MapOK(d, m, X), IsMemory(m), NEW x \in X,
         NEW r, r = Result(OK, [d EXCEPT !.len = @ - 1], RemoveFrom(d, m, x))
  PROVE  Becomes(d, m, X, r, M!Without(EntriesOf(d, m), m[x].key))
<1>1. /\ d \in Maps /\ d.count \in Pow2s \cup {0} /\ X \subseteq Nodes /\ (\A y \in X : EntryOK(d, m, y))
      /\ (\A y, z \in X : m[y].key = m[z].key => y = z) /\ d.len = Cardinality(X) /\ d.len <= d.count
  BY DEF MapOK
<1>2. /\ d # Null /\ d.buckets \in Arrays \cup {Null}
      /\ d.count \in Nat /\ d.len \in Nat /\ d.hasher \in Hashers /\ d.al \in Als
  BY <1>1, MapIs
<1>3. d.count # 0
  BY NodesAreInBuckets
<1>4. PICK b, n : b = d.buckets /\ n = d.count
  OBVIOUS
<1>5. b \in Arrays /\ m[b] \in BucketArray(n) /\ m[b].al = d.al /\ Filed(m, b, n, X) /\ n \in 0 .. SizeMax
  BY <1>1, <1>3, <1>4, LengthsAre DEF MapOK, ArrayOK
<1>6. m[b].slots \in [0 .. n - 1 -> Nodes \cup {Null}]
  BY <1>5, ArrayIs
<1>7. x \in Nodes /\ m[x] \in MapNodes
  BY <1>1 DEF EntryOK
<1>8. PICK i : i = BucketOf(n, m[x].hash)
  OBVIOUS
<1>9. i \in 0 .. n - 1
  BY <1>2, <1>3, <1>4, <1>7, <1>8, NodeIs, BucketIs
<1>10. PICK l, s : Strung(m, m[b].slots[i], l, s) /\ Along(l, s) = InBucket(m, n, X, i)
  BY <1>5, <1>9 DEF Filed, Chained
<1>11. \A k \in 1 .. l : s[k] \in X
  BY <1>10 DEF Along, InBucket
<1>12. PICK j \in 1 .. l : s[j] = x
  BY <1>8, <1>10 DEF Along, InBucket
<1>13. PICK q : q = RemoveFrom(d, m, x)
  OBVIOUS
<1>14. /\ IsMemory(q) /\ q[x] = Null
       /\ \A a \in Addrs : a # b /\ a \notin Along(l, s) => q[a] = m[a]
       /\ \A y \in X : y # x => Alike(m, q, y)
       /\ Unlinked(m, q, l, s, j)
       /\ q[b] \in BucketArray(n) /\ q[b].al = m[b].al
       /\ q[b].slots = IF j = 1 THEN Pointing(m[b].slots, i, m[x].next) ELSE m[b].slots
  BY <1>4, <1>8, <1>10, <1>11, <1>12, <1>13, RemoveFromIs
<1>15. PICK e : e = [d EXCEPT !.len = @ - 1]
  OBVIOUS
<1>16. r.st = OK /\ r.d = e /\ r.m = q
  BY <1>13, <1>15, ResultIs
<1>17. IsFiniteSet(X) /\ Cardinality(X) \in Nat
  BY <1>1, NodesCounted
<1>18. Cardinality(X \ {x}) = Cardinality(X) - 1
  BY <1>17, FS_RemoveElement
<1>19. d.len - 1 \in Nat
  <2>1. Cardinality(X \ {x}) \in Nat
    BY <1>1, NodesCounted
  <2>2. QED
    BY <1>1, <1>18, <2>1
<1>20. /\ e \in Maps /\ e.buckets = b /\ e.count = n /\ e.len = d.len - 1
       /\ e.hasher = d.hasher /\ e.al = d.al
  BY <1>1, <1>2, <1>4, <1>15, <1>19 DEF Maps
<1>21. PICK Y : Y = X \ {x}
  OBVIOUS
<1>22. \A y \in Y : Alike(m, q, y)
  BY <1>14, <1>21
<1>23. Filed(q, b, n, Y)
  <2>1. SUFFICES ASSUME NEW k \in 0 .. n - 1
        PROVE  Chained(q, q[b].slots[k], InBucket(q, n, Y, k))
    BY DEF Filed
  <2>2. InBucket(q, n, Y, k) = InBucket(m, n, X, k) \ {x}
    BY <1>21, <1>22 DEF InBucket, Alike
  <2>3. CASE k = i
    <3>1. PICK u, y : u = m[b].slots[i] /\ y = FirstWithout(m, u, s, j)
      OBVIOUS
    <3>2. q[b].slots[k] = y
      BY <1>6, <1>9, <1>12, <1>14, <2>3, <3>1 DEF Pointing, FirstWithout
    <3>3. Chained(q, y, Along(l, s) \ {s[j]})
      <4>1. Strung(m, u, l, s) /\ Unlinked(m, q, l, s, j)
        BY <1>10, <1>14, <3>1
      <4>2. QED
        BY <3>1, <4>1, StrungWithout
    <3>4. QED
      BY <1>10, <1>12, <2>2, <2>3, <3>2, <3>3
  <2>4. CASE k # i
    <3>1. PICK Z : Z = InBucket(m, n, X, k)
      OBVIOUS
    <3>2. Chained(m, m[b].slots[k], Z)
      BY <1>5, <3>1 DEF Filed
    <3>3. x \notin Z /\ (\A y \in Z : y \notin Along(l, s) /\ y \in X)
      BY <1>8, <1>10, <2>4, <3>1 DEF InBucket
    <3>4. \A y \in Z : y \in Addrs /\ y # b
      BY <1>1, <1>5, <3>3, ConstantsAre DEF Addrs
    <3>5. \A y \in Z : q[y] = m[y]
      BY <1>14, <3>3, <3>4
    <3>6. q[b].slots[k] = m[b].slots[k]
      BY <1>6, <1>14, <2>4 DEF Pointing
    <3>7. InBucket(q, n, Y, k) = Z
      BY <2>2, <3>1, <3>3
    <3>8. QED
      BY <3>2, <3>5, <3>6, <3>7, ChainedStays
  <2>5. QED
    BY <2>3, <2>4
<1>24. MapOK(e, q, Y)
  <2>1. \A y \in Y : EntryOK(e, q, y)
    BY <1>1, <1>20, <1>21, <1>22 DEF EntryOK, Alike
  <2>2. \A y, z \in Y : q[y].key = q[z].key => y = z
    BY <1>1, <1>21, <1>22 DEF Alike
  <2>3. e.len = Cardinality(Y) /\ e.len <= e.count
    BY <1>1, <1>2, <1>4, <1>18, <1>20, <1>21
  <2>4. ArrayOK(e, q, n, b)
    BY <1>5, <1>14, <1>20 DEF ArrayOK
  <2>5. Y \subseteq Nodes /\ e.count \in Pow2s \cup {0} /\ e.count # 0
    BY <1>1, <1>3, <1>4, <1>20, <1>21
  <2>6. QED
    BY <1>20, <1>23, <2>1, <2>2, <2>3, <2>4, <2>5 DEF MapOK
<1>25. Swapped(Foot(d, X), m, Foot(e, Y), q)
  <2>1. e # Null /\ b # Null /\ b # x
    BY <1>5, <1>7, <1>20, MapIs, ConstantsAre, HMapNullAssumption
  <2>2. Foot(d, X) = X \cup {b} /\ Foot(e, Y) = Y \cup {b}
    BY <1>2, <1>4, <1>20, <2>1 DEF Foot
  <2>3. Along(l, s) \subseteq X
    BY <1>10 DEF InBucket
  <2>4. QED
    BY <1>14, <1>21, <2>2, <2>3 DEF Swapped
<1>26. \A y \in X, z \in Y : m[y].key = q[z].key => y = z
  BY <1>1, <1>21, <1>22 DEF Alike
<1>27. Turned(d, m, X, r, Y)
  BY <1>14, <1>16, <1>20, <1>24, <1>25, <1>26 DEF Turned
<1>28. PICK f : f = EntriesOf(d, m)
  OBVIOUS
<1>29. Reads(f, m, X)
  BY <1>28, FoundIsRead
<1>30. Keeps(m, q, X \ {x}) /\ OneEach(m, X)
  BY <1>1, <1>21, <1>22 DEF Keeps, Alike, OneEach
<1>31. Reads(M!Without(f, m[x].key), q, X \ {x})
  BY <1>29, <1>30, OneLessRead
<1>32. Y \in SUBSET Nodes
  BY <1>1, <1>21
<1>33. QED
  BY <1>16, <1>21, <1>27, <1>28, <1>31, <1>32 DEF Becomes

-----------------------------------------------------------------------------
(* Nodes given back.                                                       *)

(* From m to q the blocks F were given back.                               *)
Freed(m, q, F) == IsMemory(q) /\ \A a \in Addrs : q[a] = IF a \in F THEN Null ELSE m[a]

(* f is the memories between the first and the last of a list of returns.  *)
GivingBack(f, m, a, order, l) ==
  f = [k \in 0 .. l |-> IF k = 0 THEN m ELSE GiveBackNode(f[k - 1], order[k], a)]

(* The recursion of GiveBackAll.                                           *)
LEMMA GiveBackAllIs ==
  ASSUME NEW m, NEW a, NEW order, Len(order) \in Nat
  PROVE  \E f : GivingBack(f, m, a, order, Len(order)) /\ GiveBackAll(m, a, order) = f[Len(order)]
<1>1. PICK L : L = Len(order)
  OBVIOUS
<1>2. PICK X : X = {l \in 0 .. L : \E f : GivingBack(f, m, a, order, l)}
  OBVIOUS
<1>3. L \in Nat
  BY <1>1
<1>4. 0 \in X
  <2>1. PICK f : f = [k \in 0 .. 0 |-> m]
    OBVIOUS
  <2>2. f = [k \in 0 .. 0 |-> IF k = 0 THEN m ELSE GiveBackNode(f[k - 1], order[k], a)]
    BY <2>1
  <2>3. GivingBack(f, m, a, order, 0)
    BY <2>2 DEF GivingBack
  <2>4. QED
    BY <1>2, <1>3, <2>3
<1>5. ASSUME NEW l \in X, l < L
      PROVE  l + 1 \in X
  <2>1. l \in 0 .. L /\ l + 1 \in 0 .. L
    BY <1>2, <1>3, <1>5
  <2>2. PICK f : f = [k \in 0 .. l |-> IF k = 0 THEN m ELSE GiveBackNode(f[k - 1], order[k], a)]
    BY <1>2 DEF GivingBack
  <2>3. PICK g : g = [k \in 0 .. l + 1 |-> IF k <= l THEN f[k] ELSE GiveBackNode(f[l], order[l + 1], a)]
    OBVIOUS
  <2>4. g = [k \in 0 .. l + 1 |-> IF k = 0 THEN m ELSE GiveBackNode(g[k - 1], order[k], a)]
    BY <2>1, <2>2, <2>3
  <2>5. GivingBack(g, m, a, order, l + 1)
    BY <2>4 DEF GivingBack
  <2>6. QED
    BY <1>2, <2>1, <2>5
<1>6. X \in SUBSET (0 .. L)
  BY <1>2
<1>7. L \in X
  <2>1. \A k \in 0 .. L : k \in X
    BY <1>3, <1>4, <1>5, <1>6, UpTo
  <2>2. QED
    BY <1>3, <2>1
<1>8. \E f : f = [k \in 0 .. L |-> IF k = 0 THEN m ELSE GiveBackNode(f[k - 1], order[k], a)]
  BY <1>2, <1>7 DEF GivingBack
<1>9. PICK g : g = CHOOSE f : f = [k \in 0 .. L |-> IF k = 0 THEN m ELSE GiveBackNode(f[k - 1], order[k], a)]
  OBVIOUS
<1>10. GivingBack(g, m, a, order, L)
  BY <1>8, <1>9 DEF GivingBack
<1>11. GiveBackAll(m, a, order) = g[L]
  BY <1>1, <1>9 DEF GiveBackAll
<1>12. QED
  BY <1>1, <1>10, <1>11

(* One more given back.                                                    *)
LEMMA FreesOneMore ==
  ASSUME NEW m, NEW q, NEW Y, Freed(m, q, Y), NEW y \in Nodes, y \notin Y, NEW a, m[y].al = a
  PROVE  Freed(m, GiveBackNode(q, y, a), Y \cup {y})
<1>1. y \in Addrs
  BY DEF Addrs
<1>2. q[y] = m[y]
  BY <1>1 DEF Freed
<1>3. PICK r : r = GiveBackNode(q, y, a)
  OBVIOUS
<1>4. r = [q EXCEPT ![y] = Null]
  BY <1>2, <1>3 DEF GiveBackNode
<1>5. IsMemory(q)
  BY DEF Freed
<1>6. SetAt(q, r, y, Null)
  BY <1>4, <1>5, WrittenIs
<1>7. \A c \in Addrs : r[c] = IF c \in Y \cup {y} THEN Null ELSE m[c]
  BY <1>6 DEF SetAt, Freed
<1>8. QED
  BY <1>3, <1>6, <1>7 DEF Freed, SetAt

(* All the nodes of a list given back to the one that lent them.           *)
LEMMA AllGoBack ==
  ASSUME NEW m, IsMemory(m), NEW a, NEW X, X \subseteq Nodes, \A x \in X : m[x].al = a,
         NEW order, Listing(order, X)
  PROVE  Freed(m, GiveBackAll(m, a, order), X)
<1>1. PICK L : L = Len(order)
  OBVIOUS
<1>2. L \in Nat
  BY <1>1 DEF Listing
<1>3. PICK f : GivingBack(f, m, a, order, L) /\ GiveBackAll(m, a, order) = f[L]
  BY <1>1, <1>2, GiveBackAllIs
<1>4. PICK K : K = {k \in 0 .. L : Freed(m, f[k], UpToThe(order, k))}
  OBVIOUS
<1>5. 0 \in K
  <2>1. f[0] = m
    BY <1>2, <1>3 DEF GivingBack
  <2>2. UpToThe(order, 0) = {}
    BY WholeList
  <2>3. Freed(m, m, {})
    BY DEF Freed
  <2>4. QED
    BY <1>2, <1>4, <2>1, <2>2, <2>3
<1>6. ASSUME NEW k \in K, k < L
      PROVE  k + 1 \in K
  <2>1. k \in Nat /\ k + 1 \in 0 .. L /\ k + 1 # 0 /\ (k + 1) - 1 = k
    BY <1>2, <1>4, <1>6
  <2>2. f[k + 1] = GiveBackNode(f[k], order[k + 1], a)
    BY <1>3, <2>1 DEF GivingBack
  <2>3. PICK Y, y : Y = UpToThe(order, k) /\ y = order[k + 1]
    OBVIOUS
  <2>4. y \in X /\ y \notin Y /\ UpToThe(order, k + 1) = Y \cup {y}
    BY <1>1, <1>6, <2>1, <2>3, NextOfList
  <2>5. Freed(m, f[k], Y)
    BY <1>4, <2>3
  <2>6. Freed(m, GiveBackNode(f[k], y, a), Y \cup {y})
    BY <2>4, <2>5, FreesOneMore
  <2>7. QED
    BY <1>4, <2>1, <2>2, <2>3, <2>4, <2>6
<1>7. K \in SUBSET (0 .. L)
  BY <1>4
<1>8. L \in K
  BY <1>2, <1>5, <1>6, <1>7, UpTo
<1>9. UpToThe(order, L) = X
  BY <1>1, WholeList
<1>10. QED
  BY <1>3, <1>4, <1>8, <1>9

(* Clearing gives back the nodes of a map, and nothing else.               *)
LEMMA NodesGoBack ==
  ASSUME NEW d, NEW m, NEW X, MapOK(d, m, X), IsMemory(m)
  PROVE  Freed(m, ClearNodes(d, m), X)
<1>1. X \subseteq Nodes /\ \A x \in X : m[x].al = d.al
  BY DEF MapOK, EntryOK
<1>2. PICK order, a : order = WalkOrder(d, m) /\ a = d.al
  OBVIOUS
<1>3. Listing(order, X)
  BY <1>2, WalkLists
<1>4. Freed(m, GiveBackAll(m, a, order), X)
  BY <1>1, <1>2, <1>3, AllGoBack
<1>5. QED
  BY <1>2, <1>4 DEF ClearNodes

(* Releasing gives back all a map stands on, and nothing else.             *)
LEMMA ReleaseFrees ==
  ASSUME NEW d, NEW m, NEW X, MapOK(d, m, X), IsMemory(m)
  PROVE  Freed(m, ReleasedMem(d, m), Foot(d, X))
<1>1. PICK p, q : p = ClearNodes(d, m) /\ q = ReleasedMem(d, m)
  OBVIOUS
<1>2. Freed(m, p, X)
  BY <1>1, NodesGoBack
<1>3. d \in Maps /\ X \subseteq Nodes
  BY DEF MapOK
<1>4. d # Null /\ d.buckets \in Arrays \cup {Null}
  BY <1>3, MapIs
<1>5. d.buckets # Null => d.buckets \in Addrs /\ d.buckets \notin X
  BY <1>3, <1>4, ConstantsAre DEF Addrs
<1>6. IsMemory(p) /\ (d.buckets # Null => p[d.buckets] = m[d.buckets])
  BY <1>2, <1>5 DEF Freed
<1>7. SetAt(p, GiveBackArray(p, d.buckets, d.al, d.count), d.buckets, Null)
  BY <1>6, BucketsGoBack
<1>8. SetAt(p, q, d.buckets, Null)
  BY <1>1, <1>7 DEF ReleasedMem
<1>9. \A a \in Addrs : a # Null
  BY HMapNullAssumption DEF Addrs
<1>10. \A a \in Addrs : q[a] = IF a \in X \cup ({d.buckets} \ {Null}) THEN Null ELSE m[a]
  BY <1>2, <1>8, <1>9 DEF Freed, SetAt
<1>11. QED
  BY <1>1, <1>4, <1>8, <1>10 DEF Freed, SetAt, Foot

(* A struct without buckets, of any allocator.                             *)
Bare(d) == d \in Maps /\ d.buckets = Null /\ d.count = 0 /\ d.len = 0

(* It is a map without nodes, and stands on nothing.                       *)
LEMMA BareIsEmpty ==
  ASSUME NEW d, Bare(d), NEW m
  PROVE  MapOK(d, m, {}) /\ Foot(d, {}) = {}
<1>1. Cardinality({}) = 0
  BY FS_EmptySet
<1>2. QED
  BY <1>1 DEF Bare, MapOK, Foot

(* So is one that is released, and one that is new.                        *)
LEMMA ReleasedIsBare ==
  ASSUME NEW d \in Maps
  PROVE  Bare(Released(d)) /\ Released(d).al = d.al /\ Released(d).hasher = d.hasher
  BY DEF Released, Bare, Maps

(* A new map, likewise.                                                   *)
LEMMA NewIsBare ==
  ASSUME NEW hs \in Hashers, NEW a \in Als
  PROVE  Bare(NewStruct(hs, a)) /\ NewStruct(hs, a).al = a /\ NewStruct(hs, a).hasher = hs
  BY DEF NewStruct, Bare, Maps

(* What was given back was exchanged for nothing.                          *)
LEMMA FreedIsSwapped ==
  ASSUME NEW m, NEW q, NEW F, F \subseteq Addrs, Freed(m, q, F)
  PROVE  Swapped(F, m, {}, q)
  BY DEF Freed, Swapped

(* A map released is empty.                                                *)
LEMMA ReleaseTurns ==
  ASSUME NEW d, NEW m, NEW X, MapOK(d, m, X), IsMemory(m)
  PROVE  Becomes(d, m, X, Result(OK, Released(d), ReleasedMem(d, m)), M!NoEntries)
<1>1. PICK e, q, r : e = Released(d) /\ q = ReleasedMem(d, m) /\ r = Result(OK, e, q)
  OBVIOUS
<1>2. r.st = OK /\ r.d = e /\ r.m = q
  BY <1>1, ResultIs
<1>3. Freed(m, q, Foot(d, X))
  BY <1>1, ReleaseFrees
<1>4. Foot(d, X) \subseteq Addrs
  BY FootIsLent
<1>5. Swapped(Foot(d, X), m, {}, q)
  BY <1>3, <1>4, FreedIsSwapped
<1>6. d \in Maps
  BY DEF MapOK
<1>7. Bare(e) /\ e.al = d.al /\ e.hasher = d.hasher
  BY <1>1, <1>6, ReleasedIsBare
<1>8. MapOK(e, q, {}) /\ Foot(e, {}) = {}
  BY <1>7, BareIsEmpty
<1>9. Turned(d, m, X, r, {})
  BY <1>2, <1>3, <1>5, <1>7, <1>8 DEF Turned, Freed
<1>10. Reads(M!NoEntries, r.m, {})
  BY NothingRead
<1>11. {} \in SUBSET Nodes
  OBVIOUS
<1>12. QED
  BY <1>1, <1>9, <1>10, <1>11 DEF Becomes

(* What Clear makes of the memory.                                         *)
Cleared(d, m) ==
  IF d.count = 0 THEN m
  ELSE [ClearNodes(d, m) EXCEPT ![d.buckets].slots = [i \in 0 .. d.count - 1 |-> Null]]

(* A map cleared keeps its buckets, all empty.                             *)
LEMMA ClearTurns ==
  ASSUME NEW d, NEW m, NEW X, MapOK(d, m, X), IsMemory(m),
         NEW r, r = Result(OK, [d EXCEPT !.len = 0], Cleared(d, m))
  PROVE  Becomes(d, m, X, r, M!NoEntries)
<1>1. PICK e, q : e = [d EXCEPT !.len = 0] /\ q = Cleared(d, m)
  OBVIOUS
<1>2. r.st = OK /\ r.d = e /\ r.m = q
  BY <1>1, ResultIs
<1>3. d \in Maps /\ d.count \in Pow2s \cup {0} /\ X \subseteq Nodes
  BY DEF MapOK
<1>4. /\ d # Null /\ d.buckets \in Arrays \cup {Null}
      /\ d.count \in Nat /\ d.len \in Nat /\ d.hasher \in Hashers /\ d.al \in Als
  BY <1>3, MapIs
<1>5. /\ e \in Maps /\ e.buckets = d.buckets /\ e.count = d.count /\ e.len = 0
      /\ e.hasher = d.hasher /\ e.al = d.al
  BY <1>1, <1>3, <1>4 DEF Maps
<1>6. e # Null
  BY <1>5, MapIs
<1>7. Cardinality({}) = 0
  BY FS_EmptySet
<1>8. MapOK(e, q, {}) /\ IsMemory(q) /\ Swapped(Foot(d, X), m, Foot(e, {}), q)
  <2>1. CASE d.count = 0
    <3>1. q = m
      BY <1>1, <2>1 DEF Cleared
    <3>2. X = {} /\ d.buckets = Null
      BY <2>1, NodesAreInBuckets DEF MapOK
    <3>3. MapOK(e, q, {})
      BY <1>5, <2>1, <3>2, BareIsEmpty DEF Bare
    <3>4. Swapped(Foot(d, X), m, Foot(e, {}), q)
      BY <1>4, <1>5, <1>6, <3>1, <3>2 DEF Foot, Swapped
    <3>5. QED
      BY <3>1, <3>3, <3>4
  <2>2. CASE d.count # 0
    <3>1. PICK b, n : b = d.buckets /\ n = d.count
      OBVIOUS
    <3>2. b \in Arrays /\ m[b] \in BucketArray(n) /\ m[b].al = d.al /\ n \in 0 .. SizeMax
      BY <1>3, <2>2, <3>1, LengthsAre DEF MapOK, ArrayOK
    <3>3. b \in Addrs /\ b \notin X /\ b # Null
      BY <1>3, <3>2, ConstantsAre, HMapNullAssumption DEF Addrs
    <3>4. PICK p, t : p = ClearNodes(d, m) /\ t = [i \in 0 .. n - 1 |-> Null]
      OBVIOUS
    <3>5. Freed(m, p, X)
      BY <3>4, NodesGoBack
    <3>6. p = [a \in Addrs |-> p[a]] /\ (\A a \in Addrs : p[a] = IF a \in X THEN Null ELSE m[a])
      BY <3>5 DEF Freed, IsMemory
    <3>7. q = [p EXCEPT ![b].slots = t]
      BY <1>1, <2>2, <3>1, <3>4 DEF Cleared
    <3>8. p[b] = m[b]
      BY <3>3, <3>6
    <3>9. q = [a \in Addrs |-> IF a = b THEN [m[b] EXCEPT !.slots = t] ELSE p[a]]
      BY <3>3, <3>6, <3>7, <3>8
    <3>10. q[b] = [m[b] EXCEPT !.slots = t] /\ (\A a \in Addrs : a # b => q[a] = p[a])
      BY <3>3, <3>9
    <3>11. IsMemory(q)
      <4>1. q = [a \in Addrs |-> q[a]]
        BY <3>9
      <4>2. QED
        BY <4>1 DEF IsMemory
    <3>12. m[b].al \in Als
      BY <3>2, ArrayIs
    <3>13. q[b] \in BucketArray(n) /\ q[b].al = d.al /\ q[b].slots = t
      BY <3>2, <3>4, <3>10, <3>12 DEF BucketArray
    <3>14. Filed(q, b, n, {})
      BY <3>4, <3>13, EmptyIsFiled
    <3>15. ArrayOK(e, q, n, b)
      BY <1>5, <3>2, <3>13 DEF ArrayOK
    <3>16. MapOK(e, q, {})
      BY <1>3, <1>4, <1>5, <1>7, <2>2, <3>1, <3>14, <3>15 DEF MapOK
    <3>17. Foot(d, X) = X \cup {b} /\ Foot(e, {}) = {b}
      BY <1>4, <1>5, <1>6, <3>1, <3>3 DEF Foot
    <3>18. \A a \in Addrs : a # b => q[a] = IF a \in X THEN Null ELSE m[a]
      BY <3>6, <3>10
    <3>19. X \subseteq Addrs
      BY <1>3 DEF Addrs
    <3>20. Swapped(Foot(d, X), m, Foot(e, {}), q)
      BY <3>3, <3>17, <3>18, <3>19 DEF Swapped
    <3>21. QED
      BY <3>11, <3>16, <3>20
  <2>3. QED
    BY <2>1, <2>2
<1>9. Turned(d, m, X, r, {})
  BY <1>2, <1>5, <1>8 DEF Turned
<1>10. Reads(M!NoEntries, r.m, {})
  BY NothingRead
<1>11. {} \in SUBSET Nodes
  OBVIOUS
<1>12. QED
  BY <1>9, <1>10, <1>11 DEF Becomes

-----------------------------------------------------------------------------
(* Maps made.                                                              *)

(* A new map of the allocator a: refused, and nothing is changed, or it    *)
(* holds the entries e, and stands on blocks that were free.               *)
Makes(hs, a, m, r, e) ==
  \/ r.st = NoMem /\ r.m = m
  \/ r.st = OK /\ Becomes(NewStruct(hs, a), m, {}, r, e)

(* One without entries.                                                    *)
LEMMA NewRawTurns ==
  ASSUME NEW hs \in Hashers, NEW a \in Als, NEW m, IsMemory(m), NEW cap \in Nat, NEW room
  PROVE  Regrown(NewStruct(hs, a), m, {}, NewRaw(cap, hs, a, m, room))
<1>1. PICK d : d = NewStruct(hs, a)
  OBVIOUS
<1>2. Bare(d)
  BY <1>1, NewIsBare
<1>3. MapOK(d, m, {})
  BY <1>2, BareIsEmpty
<1>4. Regrown(d, m, {}, Reserve(d, m, cap, room))
  BY <1>3, ReserveKeeps
<1>5. QED
  BY <1>1, <1>4 DEF NewRaw

(* So it is made as promised.                                              *)
LEMMA NewRawMakes ==
  ASSUME NEW hs \in Hashers, NEW a \in Als, NEW m, IsMemory(m), NEW cap \in Nat, NEW room
  PROVE  Makes(hs, a, m, NewRaw(cap, hs, a, m, room), M!NoEntries)
<1>1. PICK r, d : r = NewRaw(cap, hs, a, m, room) /\ d = NewStruct(hs, a)
  OBVIOUS
<1>2. Regrown(d, m, {}, r)
  BY <1>1, NewRawTurns
<1>3. Turned(d, m, {}, r, {}) /\ (r.st = NoMem => r.m = m)
  BY <1>2 DEF Regrown, Kept
<1>4. r.st \in {OK, NoMem}
  BY <1>3 DEF Turned
<1>5. Reads(M!NoEntries, r.m, {})
  BY NothingRead
<1>6. {} \in SUBSET Nodes
  OBVIOUS
<1>7. Becomes(d, m, {}, r, M!NoEntries)
  BY <1>3, <1>5, <1>6 DEF Becomes
<1>8. QED
  BY <1>1, <1>3, <1>4, <1>7 DEF Makes

(* A new map goes on with what its nodes are.                              *)
LEMMA BuildsOn ==
  ASSUME NEW d, Bare(d), NEW m, NEW r, NEW Y, Turned(d, m, {}, r, Y), NEW p, NEW Z, Turned(r.d, r.m, Y, p, Z)
  PROVE  Turned(d, m, {}, p, Z)
<1>1. /\ MapOK(r.d, r.m, Y) /\ r.d.al = d.al /\ r.d.hasher = d.hasher
      /\ Swapped(Foot(d, {}), m, Foot(r.d, Y), r.m)
  BY DEF Turned
<1>2. /\ p.st \in {OK, NoMem} /\ MapOK(p.d, p.m, Z) /\ IsMemory(p.m)
      /\ p.d.al = r.d.al /\ p.d.hasher = r.d.hasher
      /\ Swapped(Foot(r.d, Y), r.m, Foot(p.d, Z), p.m)
  BY DEF Turned
<1>3. Foot(d, {}) = {}
  BY BareIsEmpty
<1>4. Foot(r.d, Y) \subseteq Addrs /\ Foot(p.d, Z) \subseteq Addrs
  BY <1>1, <1>2, FootIsLent
<1>5. Swapped(Foot(d, {}), m, Foot(p.d, Z), p.m)
  BY <1>1, <1>2, <1>3, <1>4, SwapsCompose
<1>6. QED
  BY <1>1, <1>2, <1>5 DEF Turned

(* A copy on its way: unless it was refused a node, it holds what the      *)
(* nodes Z of the memory m do.                                             *)
Filling(hs, a, m, r, Z) ==
  \E Y \in SUBSET Nodes :
    /\ Turned(NewStruct(hs, a), m, {}, r, Y)
    /\ r.st = OK => \E e : Reads(e, m, Z) /\ Reads(e, r.m, Y)

(* One node more.                                                          *)
LEMMA FillsOneMore ==
  ASSUME NEW hs \in Hashers, NEW a \in Als, NEW m, NEW Z, NEW r, Filling(hs, a, m, r, Z),
         NEW z, z \notin Z, m[z] \in MapNodes, OneEach(m, Z \cup {z}), NEW room, NEW granted
  PROVE  Filling(hs, a, m, AddedTo(r, m[z], room, granted), Z \cup {z})
<1>1. PICK d : d = NewStruct(hs, a)
  OBVIOUS
<1>2. Bare(d)
  BY <1>1, NewIsBare
<1>3. PICK Y \in SUBSET Nodes :
        /\ Turned(d, m, {}, r, Y)
        /\ r.st = OK => \E e : Reads(e, m, Z) /\ Reads(e, r.m, Y)
  BY <1>1 DEF Filling
<1>4. r.st \in {OK, NoMem} /\ MapOK(r.d, r.m, Y) /\ IsMemory(r.m)
  BY <1>3 DEF Turned
<1>5. PICK p : p = AddedTo(r, m[z], room, granted)
  OBVIOUS
<1>6. OK # NoMem
  BY ConstantsAre
<1>7. CASE r.st = NoMem
  <2>1. p = r
    BY <1>5, <1>7 DEF AddedTo
  <2>2. QED
    BY <1>1, <1>3, <1>5, <1>6, <1>7, <2>1 DEF Filling
<1>8. CASE r.st = OK
  <2>1. PICK e : Reads(e, m, Z) /\ Reads(e, r.m, Y)
    BY <1>3, <1>8
  <2>2. PICK key, val : key = m[z].key /\ val = m[z].val
    OBVIOUS
  <2>3. key \in Keys /\ val \in Vals
    BY <2>2, NodeIs
  <2>4. PICK c, q : c = r.d /\ q = r.m
    OBVIOUS
  <2>5. p = InsertInto(c, q, key, val, room, granted)
    BY <1>5, <1>6, <1>8, <2>2, <2>4 DEF AddedTo
  <2>6. MapOK(c, q, Y) /\ IsMemory(q)
    BY <1>4, <2>4
  <2>7. InsertsOrKeeps(c, q, Y, key, val, p)
    BY <2>3, <2>5, <2>6, InsertTurns
  <2>8. CASE p.st = NoMem /\ Kept(c, q, Y, p)
    <3>1. Turned(r.d, r.m, Y, p, Y)
      BY <2>4, <2>8 DEF Kept
    <3>2. Turned(d, m, {}, p, Y)
      BY <1>2, <1>3, <3>1, BuildsOn
    <3>3. QED
      BY <1>1, <1>5, <1>6, <2>8, <3>2 DEF Filling
  <2>9. CASE p.st = OK /\ Becomes(c, q, Y, p, M!Put(EntriesOf(c, q), key, val))
    <3>1. EntriesOf(c, q) = e
      BY <2>1, <2>4, <2>6, ReadIsFound
    <3>2. PICK V \in SUBSET Nodes : Turned(c, q, Y, p, V) /\ Reads(M!Put(e, key, val), p.m, V)
      BY <2>9, <3>1 DEF Becomes
    <3>3. Turned(d, m, {}, p, V)
      BY <1>2, <1>3, <2>4, <3>2, BuildsOn
    <3>4. m[z].key \notin KeysIn(m, Z) /\ m[z].val \in Vals
      BY <2>2, <2>3 DEF KeysIn, OneEach
    <3>5. Keeps(m, m, Z)
      BY DEF Keeps
    <3>6. Reads(M!Put(e, m[z].key, m[z].val), m, Z \cup {z})
      BY <2>1, <3>4, <3>5, OneMoreRead
    <3>7. Reads(M!Put(e, key, val), m, Z \cup {z})
      BY <2>2, <3>6
    <3>8. \E f : Reads(f, m, Z \cup {z}) /\ Reads(f, p.m, V)
      BY <3>2, <3>7
    <3>9. QED
      BY <1>1, <1>5, <3>3, <3>8 DEF Filling
  <2>10. QED
    BY <2>7, <2>8, <2>9 DEF InsertsOrKeeps
<1>9. QED
  BY <1>4, <1>7, <1>8

(* f is the results between the first and the last node of a copy.         *)
FillingAll(f, d, a, m, room, grants, order, l) ==
  f = [k \in 0 .. l |->
         IF k = 0 THEN NewRaw(d.len, d.hasher, a, m, room)
         ELSE AddedTo(f[k - 1], m[order[k]], room, k <= grants)]

(* The recursion of Filled.                                                *)
LEMMA FilledIs ==
  ASSUME NEW d, NEW a, NEW m, NEW room, NEW grants, NEW order, order = WalkOrder(d, m), Len(order) \in Nat
  PROVE  \E f : FillingAll(f, d, a, m, room, grants, order, Len(order)) /\ Filled(d, a, m, room, grants) = f[Len(order)]
<1>1. PICK L, p : L = Len(order) /\ p = NewRaw(d.len, d.hasher, a, m, room)
  OBVIOUS
<1>2. PICK X : X = {l \in 0 .. L : \E f : FillingAll(f, d, a, m, room, grants, order, l)}
  OBVIOUS
<1>3. L \in Nat
  BY <1>1
<1>4. 0 \in X
  <2>1. PICK f : f = [k \in 0 .. 0 |-> p]
    OBVIOUS
  <2>2. f = [k \in 0 .. 0 |-> IF k = 0 THEN p ELSE AddedTo(f[k - 1], m[order[k]], room, k <= grants)]
    BY <2>1
  <2>3. FillingAll(f, d, a, m, room, grants, order, 0)
    BY <1>1, <2>2 DEF FillingAll
  <2>4. QED
    BY <1>2, <1>3, <2>3
<1>5. ASSUME NEW l \in X, l < L
      PROVE  l + 1 \in X
  <2>1. l \in 0 .. L /\ l + 1 \in 0 .. L
    BY <1>2, <1>3, <1>5
  <2>2. PICK f : f = [k \in 0 .. l |-> IF k = 0 THEN p ELSE AddedTo(f[k - 1], m[order[k]], room, k <= grants)]
    BY <1>1, <1>2 DEF FillingAll
  <2>3. PICK g : g = [k \in 0 .. l + 1 |-> IF k <= l THEN f[k] ELSE AddedTo(f[l], m[order[l + 1]], room, l + 1 <= grants)]
    OBVIOUS
  <2>4. g = [k \in 0 .. l + 1 |-> IF k = 0 THEN p ELSE AddedTo(g[k - 1], m[order[k]], room, k <= grants)]
    BY <2>1, <2>2, <2>3
  <2>5. FillingAll(g, d, a, m, room, grants, order, l + 1)
    BY <1>1, <2>4 DEF FillingAll
  <2>6. QED
    BY <1>2, <2>1, <2>5
<1>6. X \in SUBSET (0 .. L)
  BY <1>2
<1>7. L \in X
  <2>1. \A k \in 0 .. L : k \in X
    BY <1>3, <1>4, <1>5, <1>6, UpTo
  <2>2. QED
    BY <1>3, <2>1
<1>8. \E f : f = [k \in 0 .. L |-> IF k = 0 THEN p ELSE AddedTo(f[k - 1], m[order[k]], room, k <= grants)]
  BY <1>1, <1>2, <1>7 DEF FillingAll
<1>9. PICK g : g = CHOOSE f : f = [k \in 0 .. L |-> IF k = 0 THEN p ELSE AddedTo(f[k - 1], m[order[k]], room, k <= grants)]
  OBVIOUS
<1>10. FillingAll(g, d, a, m, room, grants, order, L)
  BY <1>1, <1>8, <1>9 DEF FillingAll
<1>11. Filled(d, a, m, room, grants) = g[L]
  BY <1>1, <1>9 DEF Filled
<1>12. QED
  BY <1>1, <1>10, <1>11

(* The copy when the walk has come to its end.                             *)
LEMMA FillsWhole ==
  ASSUME NEW d, NEW m, NEW X, MapOK(d, m, X), IsMemory(m), NEW a \in Als, NEW room, NEW grants
  PROVE  Filling(d.hasher, a, m, Filled(d, a, m, room, grants), X)
<1>1. PICK order, L : order = WalkOrder(d, m) /\ L = Len(order)
  OBVIOUS
<1>2. Listing(order, X)
  BY <1>1, WalkLists
<1>3. L \in Nat
  BY <1>1, <1>2 DEF Listing
<1>4. PICK f : FillingAll(f, d, a, m, room, grants, order, L) /\ Filled(d, a, m, room, grants) = f[L]
  BY <1>1, <1>3, FilledIs
<1>5. PICK hs : hs = d.hasher
  OBVIOUS
<1>6. hs \in Hashers /\ d.len \in Nat
  BY <1>5, MapIs DEF MapOK
<1>7. (\A x \in X : m[x] \in MapNodes) /\ OneEach(m, X)
  BY DEF MapOK, EntryOK, OneEach
<1>8. PICK K : K = {k \in 0 .. L : Filling(hs, a, m, f[k], UpToThe(order, k))}
  OBVIOUS
<1>9. 0 \in K
  <2>1. f[0] = NewRaw(d.len, hs, a, m, room)
    BY <1>3, <1>4, <1>5 DEF FillingAll
  <2>2. UpToThe(order, 0) = {}
    BY <1>2, WholeList
  <2>3. Regrown(NewStruct(hs, a), m, {}, f[0])
    BY <1>6, <2>1, NewRawTurns
  <2>4. Turned(NewStruct(hs, a), m, {}, f[0], {})
    BY <2>3 DEF Regrown, Kept
  <2>5. Reads(M!NoEntries, m, {}) /\ Reads(M!NoEntries, f[0].m, {})
    BY NothingRead
  <2>6. {} \in SUBSET Nodes
    OBVIOUS
  <2>7. Filling(hs, a, m, f[0], {})
    BY <2>4, <2>5, <2>6 DEF Filling
  <2>8. QED
    BY <1>3, <1>8, <2>2, <2>7
<1>10. ASSUME NEW k \in K, k < L
       PROVE  k + 1 \in K
  <2>1. k \in Nat /\ k + 1 \in 0 .. L /\ k + 1 # 0 /\ (k + 1) - 1 = k
    BY <1>3, <1>8, <1>10
  <2>2. f[k + 1] = AddedTo(f[k], m[order[k + 1]], room, k + 1 <= grants)
    BY <1>4, <2>1 DEF FillingAll
  <2>3. PICK Y, y, granted : Y = UpToThe(order, k) /\ y = order[k + 1] /\ granted = (k + 1 <= grants)
    OBVIOUS
  <2>4. y \in X /\ y \notin Y /\ UpToThe(order, k + 1) = Y \cup {y}
    BY <1>1, <1>2, <1>10, <2>1, <2>3, NextOfList
  <2>5. Y \subseteq X
    BY <1>1, <1>2, <1>3, <1>10, <2>1, <2>3 DEF UpToThe, Listing
  <2>6. Filling(hs, a, m, f[k], Y)
    BY <1>8, <2>3
  <2>7. m[y] \in MapNodes /\ OneEach(m, Y \cup {y})
    BY <1>7, <2>4, <2>5 DEF OneEach
  <2>8. Filling(hs, a, m, AddedTo(f[k], m[y], room, granted), Y \cup {y})
    BY <1>6, <2>4, <2>6, <2>7, FillsOneMore
  <2>9. f[k + 1] = AddedTo(f[k], m[y], room, granted)
    BY <2>2, <2>3
  <2>10. QED
    BY <1>8, <2>1, <2>4, <2>8, <2>9
<1>11. K \in SUBSET (0 .. L)
  BY <1>8
<1>12. L \in K
  BY <1>3, <1>9, <1>10, <1>11, UpTo
<1>13. UpToThe(order, L) = X
  BY <1>1, <1>2, WholeList
<1>14. QED
  BY <1>4, <1>5, <1>8, <1>12, <1>13

(* A clone holds what its original does, or leaves nothing behind.         *)
LEMMA CloneMakes ==
  ASSUME NEW d, NEW m, NEW X, MapOK(d, m, X), IsMemory(m), NEW a \in Als, NEW room, NEW grants
  PROVE  Makes(d.hasher, a, m, Clone(d, a, m, room, grants), EntriesOf(d, m))
<1>1. PICK hs, n, r : /\ hs = d.hasher /\ n = NewStruct(hs, a)
                      /\ r = Filled(d, a, m, room, grants)
  OBVIOUS
<1>2. hs \in Hashers
  BY <1>1, MapIs DEF MapOK
<1>3. Filling(hs, a, m, r, X)
  BY <1>1, FillsWhole
<1>4. PICK Y \in SUBSET Nodes :
        /\ Turned(n, m, {}, r, Y)
        /\ r.st = OK => \E e : Reads(e, m, X) /\ Reads(e, r.m, Y)
  BY <1>1, <1>3 DEF Filling
<1>5. /\ r.st \in {OK, NoMem} /\ MapOK(r.d, r.m, Y) /\ IsMemory(r.m)
      /\ Swapped(Foot(n, {}), m, Foot(r.d, Y), r.m)
  BY <1>4 DEF Turned
<1>6. PICK c : c = Clone(d, a, m, room, grants)
  OBVIOUS
<1>7. c = KeptWhole(r)
  BY <1>1, <1>6 DEF Clone
<1>8. OK # NoMem
  BY ConstantsAre
<1>9. CASE r.st = NoMem
  <2>1. PICK u, v, q : u = r.d /\ v = r.m /\ q = ReleasedMem(u, v)
    OBVIOUS
  <2>2. c = Result(NoMem, u, q)
    BY <1>7, <1>9, <2>1 DEF KeptWhole, Abandoned
  <2>3. c.st = NoMem /\ c.m = q
    BY <2>2, ResultIs
  <2>4. MapOK(u, v, Y) /\ IsMemory(v) /\ Swapped(Foot(n, {}), m, Foot(u, Y), v)
    BY <1>5, <2>1
  <2>5. Freed(v, q, Foot(u, Y))
    BY <2>1, <2>4, ReleaseFrees
  <2>6. Foot(u, Y) \subseteq Addrs
    BY <2>4, FootIsLent
  <2>7. Swapped(Foot(u, Y), v, {}, q)
    BY <2>5, <2>6, FreedIsSwapped
  <2>8. Foot(n, {}) = {}
    BY <1>1, <1>2, NewIsBare, BareIsEmpty
  <2>9. Swapped({}, m, {}, q)
    BY <2>4, <2>6, <2>7, <2>8, SwapsCompose
  <2>10. q = m
    BY <2>5, <2>9, SwapOfNothing DEF Freed
  <2>11. QED
    BY <1>1, <1>6, <2>3, <2>10 DEF Makes
<1>10. CASE r.st = OK
  <2>1. c = r
    BY <1>7, <1>8, <1>10 DEF KeptWhole
  <2>2. PICK e : Reads(e, m, X) /\ Reads(e, r.m, Y)
    BY <1>4, <1>10
  <2>3. EntriesOf(d, m) = e
    BY <2>2, ReadIsFound
  <2>4. Becomes(n, m, {}, r, e)
    BY <1>4, <2>2 DEF Becomes
  <2>5. QED
    BY <1>1, <1>6, <1>10, <2>1, <2>3, <2>4 DEF Makes
<1>11. QED
  BY <1>5, <1>9, <1>10

-----------------------------------------------------------------------------
(* All maps together.                                                      *)

FitsIn(d, m, X) == IF d = Null THEN X = {} ELSE MapOK(d, m, X)

(* N gives the nodes of each map of p: each stands on blocks of its own,   *)
(* and nothing else is lent.                                               *)
Sound(p, m, N) ==
  /\ p \in [Handles -> Maps \cup {Null}]
  /\ IsMemory(m)
  /\ N \in [Handles -> SUBSET Nodes]
  /\ \A h \in Handles : FitsIn(p[h], m, N[h])
  /\ \A h, g \in Handles : h # g => Foot(p[h], N[h]) \cap Foot(p[g], N[g]) = {}
  /\ \A a \in Addrs : m[a] # Null => \E h \in Handles : a \in Foot(p[h], N[h])

(* What a caller sees of a struct, and of all of them.                     *)
Seen(d, m) ==
  IF d = Null THEN Null ELSE [al |-> d.al, hasher |-> d.hasher, entries |-> EntriesOf(d, m)]

Sight(p, m) == [h \in Handles |-> Seen(p[h], m)]

(* A key that is found before and after is found in one node.              *)
NodesStay(d, m, e, q) ==
  \A key \in Keys :
    FindNode(d, m, key) # Null /\ FindNode(e, q, key) # Null => FindNode(d, m, key) = FindNode(e, q, key)

(* Nodes do not change their keys, unless a map has another one's entries. *)
Stays(p, m, u, q) ==
  \A h \in Handles : p[h] # Null /\ u[h] # Null =>
    \/ \E g \in Handles : g # h /\ p[g] # Null /\ EntriesOf(u[h], q) = EntriesOf(p[g], m)
    \/ NodesStay(p[h], m, u[h], q)

(* What no map stands on is no map's.                                      *)
LEMMA FootFits ==
  ASSUME NEW d, NEW m, NEW X, FitsIn(d, m, X)
  PROVE  Lent(m, Foot(d, X)) /\ Foot(d, X) \subseteq Addrs
<1>1. CASE d = Null
  BY <1>1 DEF Foot, Lent
<1>2. CASE d # Null
  BY <1>2, FootIsLent DEF FitsIn
<1>3. QED
  BY <1>1, <1>2

(* A map whose blocks are as they were is as it was.                       *)
LEMMA FitStays ==
  ASSUME NEW d, NEW m, NEW X, FitsIn(d, m, X), NEW q, \A a \in Foot(d, X) : q[a] = m[a]
  PROVE  FitsIn(d, q, X) /\ Seen(d, q) = Seen(d, m) /\ (d # Null => NodesStay(d, m, d, q))
<1>1. CASE d = Null
  BY <1>1 DEF FitsIn, Seen
<1>2. CASE d # Null
  <2>1. MapOK(d, m, X)
    BY <1>2 DEF FitsIn
  <2>2. MapOK(d, q, X)
    BY <2>1, MapStays
  <2>3. \A x \in X : q[x] = m[x]
    BY <1>2 DEF Foot
  <2>4. Keeps(m, q, X)
    BY <2>3 DEF Keeps
  <2>5. PICK e : e = EntriesOf(d, m)
    OBVIOUS
  <2>6. Reads(e, m, X)
    BY <2>1, <2>5, FoundIsRead
  <2>7. Reads(e, q, X)
    BY <2>4, <2>6, KeepersRead
  <2>8. EntriesOf(d, q) = e
    BY <2>2, <2>7, ReadIsFound
  <2>9. NodesStay(d, m, d, q)
    <3>1. SUFFICES ASSUME NEW key \in Keys, FindNode(d, m, key) # Null, FindNode(d, q, key) # Null
          PROVE  FindNode(d, m, key) = FindNode(d, q, key)
      BY DEF NodesStay
    <3>2. PICK x, y : x = FindNode(d, m, key) /\ y = FindNode(d, q, key)
      OBVIOUS
    <3>3. x \in X /\ m[x].key = key
      BY <2>1, <3>1, <3>2, Finds
    <3>4. y \in X /\ q[y].key = key
      BY <2>2, <3>1, <3>2, Finds
    <3>5. m[y].key = key
      BY <2>3, <3>4
    <3>6. x = y
      BY <2>1, <3>3, <3>4, <3>5 DEF MapOK
    <3>7. QED
      BY <3>2, <3>6
  <2>10. QED
    BY <1>2, <2>2, <2>5, <2>8, <2>9 DEF FitsIn, Seen
<1>3. QED
  BY <1>1, <1>2

(* The struct at h, with what it stands on, was exchanged for e and Y.     *)
Exchange(p, m, N, h, e, Y, q) ==
  /\ Swapped(Foot(p[h], N[h]), m, Foot(e, Y), q) /\ IsMemory(q)
  /\ e \in Maps \cup {Null} /\ Y \in SUBSET Nodes /\ FitsIn(e, q, Y)

(* Then every other map stands on what it did.                             *)
LEMMA OthersStand ==
  ASSUME NEW p, NEW m, NEW N, Sound(p, m, N), NEW h \in Handles, NEW e, NEW Y, NEW q,
         Exchange(p, m, N, h, e, Y, q), NEW g \in Handles, g # h
  PROVE  /\ Foot(e, Y) \cap Foot(p[g], N[g]) = {}
         /\ \A a \in Foot(p[g], N[g]) : q[a] = m[a]
<1>1. PICK F, G, H : F = Foot(p[h], N[h]) /\ G = Foot(e, Y) /\ H = Foot(p[g], N[g])
  OBVIOUS
<1>2. FitsIn(p[g], m, N[g]) /\ F \cap H = {}
  BY <1>1 DEF Sound
<1>3. Lent(m, H)
  BY <1>1, <1>2, FootFits
<1>4. Swapped(F, m, G, q)
  BY <1>1 DEF Exchange
<1>5. G \cap H = {} /\ \A a \in H : q[a] = m[a]
  BY <1>2, <1>3, <1>4, SwapKeeps
<1>6. QED
  BY <1>1, <1>5

(* And is as it was.                                                       *)
LEMMA OthersStay ==
  ASSUME NEW p, NEW m, NEW N, Sound(p, m, N), NEW h \in Handles, NEW e, NEW Y, NEW q,
         Exchange(p, m, N, h, e, Y, q), NEW g \in Handles, g # h
  PROVE  FitsIn(p[g], q, N[g]) /\ Seen(p[g], q) = Seen(p[g], m) /\ (p[g] # Null => NodesStay(p[g], m, p[g], q))
<1>1. \A a \in Foot(p[g], N[g]) : q[a] = m[a]
  BY OthersStand
<1>2. PICK d, X : d = p[g] /\ X = N[g]
  OBVIOUS
<1>3. FitsIn(d, m, X) /\ \A a \in Foot(d, X) : q[a] = m[a]
  BY <1>1, <1>2 DEF Sound
<1>4. FitsIn(d, q, X) /\ Seen(d, q) = Seen(d, m) /\ (d # Null => NodesStay(d, m, d, q))
  BY <1>3, FitStays
<1>5. QED
  BY <1>2, <1>4

(* What is seen at h becomes f.                                            *)
SeenAnew(p, m, u, q, h, f) == Sight(u, q) = [Sight(p, m) EXCEPT ![h] = f]

(* All together are sound again, and are seen to differ at h only.         *)
LEMMA ExchangeIsSound ==
  ASSUME NEW p, NEW m, NEW N, Sound(p, m, N), NEW h \in Handles, NEW e, NEW Y, NEW q,
         Exchange(p, m, N, h, e, Y, q), NEW u, u = [p EXCEPT ![h] = e], NEW K, K = [N EXCEPT ![h] = Y]
  PROVE  Sound(u, q, K) /\ SeenAnew(p, m, u, q, h, Seen(e, q))
<1>1. /\ p \in [Handles -> Maps \cup {Null}] /\ N \in [Handles -> SUBSET Nodes]
      /\ \A g, f \in Handles : g # f => Foot(p[g], N[g]) \cap Foot(p[f], N[f]) = {}
      /\ \A a \in Addrs : m[a] # Null => \E g \in Handles : a \in Foot(p[g], N[g])
  BY DEF Sound
<1>2. Swapped(Foot(p[h], N[h]), m, Foot(e, Y), q) /\ IsMemory(q) /\ FitsIn(e, q, Y)
  BY DEF Exchange
<1>3. u \in [Handles -> Maps \cup {Null}] /\ K \in [Handles -> SUBSET Nodes]
  BY <1>1 DEF Exchange
<1>4. u[h] = e /\ K[h] = Y /\ \A g \in Handles : g # h => u[g] = p[g] /\ K[g] = N[g]
  BY <1>1
<1>5. \A g \in Handles : g # h => /\ Foot(e, Y) \cap Foot(p[g], N[g]) = {}
                                  /\ FitsIn(p[g], q, N[g]) /\ Seen(p[g], q) = Seen(p[g], m)
  BY OthersStand, OthersStay
<1>6. \A g \in Handles : FitsIn(u[g], q, K[g])
  BY <1>2, <1>4, <1>5
<1>7. ASSUME NEW g \in Handles, NEW f \in Handles, g # f
      PROVE  Foot(u[g], K[g]) \cap Foot(u[f], K[f]) = {}
  BY <1>1, <1>4, <1>5, <1>7
<1>8. ASSUME NEW a \in Addrs, q[a] # Null
      PROVE  \E g \in Handles : a \in Foot(u[g], K[g])
  <2>1. CASE a \in Foot(e, Y)
    BY <1>4, <2>1
  <2>2. CASE a \notin Foot(e, Y)
    <3>1. a \notin Foot(p[h], N[h])
      BY <1>2, <1>8, <2>2 DEF Swapped
    <3>2. m[a] # Null
      BY <1>2, <1>8, <2>2, <3>1 DEF Swapped
    <3>3. PICK g \in Handles : a \in Foot(p[g], N[g])
      BY <1>1, <3>2
    <3>4. g # h
      BY <3>1, <3>3
    <3>5. QED
      BY <1>4, <3>3, <3>4
  <2>3. QED
    BY <2>1, <2>2
<1>9. Sound(u, q, K)
  BY <1>2, <1>3, <1>6, <1>7, <1>8 DEF Sound
<1>10. \A g \in Handles : Seen(u[g], q) = IF g = h THEN Seen(e, q) ELSE Seen(p[g], m)
  BY <1>4, <1>5
<1>11. Sight(u, q) = [g \in Handles |-> IF g = h THEN Seen(e, q) ELSE Seen(p[g], m)]
  BY <1>10 DEF Sight
<1>12. [Sight(p, m) EXCEPT ![h] = Seen(e, q)] = [g \in Handles |-> IF g = h THEN Seen(e, q) ELSE Seen(p[g], m)]
  BY DEF Sight
<1>13. QED
  BY <1>9, <1>11, <1>12 DEF SeenAnew

(* From p and m a step comes to maps u in a memory q that are sound, are   *)
(* seen as o, and have every node where it was.                            *)
Leads(p, m, u, q, o) == (\E K : Sound(u, q, K)) /\ Sight(u, q) = o /\ Stays(p, m, u, q)

(* An exchange at a handle is such a step, if that map's nodes stay.       *)
LEMMA ExchangeLeads ==
  ASSUME NEW p, NEW m, NEW N, Sound(p, m, N), NEW h \in Handles, NEW e, NEW Y, NEW q,
         Exchange(p, m, N, h, e, Y, q), NEW u, u = [p EXCEPT ![h] = e],
         \/ p[h] = Null \/ e = Null
         \/ NodesStay(p[h], m, e, q)
         \/ \E g \in Handles : g # h /\ p[g] # Null /\ EntriesOf(e, q) = EntriesOf(p[g], m)
  PROVE  Leads(p, m, u, q, [Sight(p, m) EXCEPT ![h] = Seen(e, q)])
<1>1. PICK K : K = [N EXCEPT ![h] = Y]
  OBVIOUS
<1>2. Sound(u, q, K) /\ SeenAnew(p, m, u, q, h, Seen(e, q))
  BY <1>1, ExchangeIsSound
<1>3. p \in [Handles -> Maps \cup {Null}]
  BY DEF Sound
<1>4. u[h] = e /\ \A g \in Handles : g # h => u[g] = p[g]
  BY <1>3
<1>5. \A g \in Handles : g # h /\ p[g] # Null => NodesStay(p[g], m, p[g], q)
  BY OthersStay
<1>6. Stays(p, m, u, q)
  <2>1. SUFFICES ASSUME NEW g \in Handles, p[g] # Null, u[g] # Null
        PROVE  \/ \E f \in Handles : f # g /\ p[f] # Null /\ EntriesOf(u[g], q) = EntriesOf(p[f], m)
               \/ NodesStay(p[g], m, u[g], q)
    BY DEF Stays
  <2>2. CASE g = h
    BY <1>4, <2>1, <2>2
  <2>3. CASE g # h
    BY <1>4, <1>5, <2>1, <2>3
  <2>4. QED
    BY <2>2, <2>3
<1>7. QED
  BY <1>2, <1>6 DEF Leads, SeenAnew

(* What turned out to hold e is seen so, and its nodes stay.               *)
LEMMA TurnedIsSeen ==
  ASSUME NEW d, NEW m, NEW X, MapOK(d, m, X), NEW r, NEW Y, Turned(d, m, X, r, Y), NEW e, Reads(e, r.m, Y)
  PROVE  /\ Seen(r.d, r.m) = [al |-> d.al, hasher |-> d.hasher, entries |-> e]
         /\ NodesStay(d, m, r.d, r.m)
<1>1. PICK c, q : c = r.d /\ q = r.m
  OBVIOUS
<1>2. MapOK(c, q, Y) /\ c.al = d.al /\ c.hasher = d.hasher
  BY <1>1 DEF Turned
<1>3. EntriesOf(c, q) = e
  BY <1>1, <1>2, ReadIsFound
<1>4. c # Null
  BY <1>2, MapIs DEF MapOK
<1>5. NodesStay(d, m, c, q)
  <2>1. SUFFICES ASSUME NEW key \in Keys, FindNode(d, m, key) # Null, FindNode(c, q, key) # Null
        PROVE  FindNode(d, m, key) = FindNode(c, q, key)
    BY DEF NodesStay
  <2>2. PICK x, y : x = FindNode(d, m, key) /\ y = FindNode(c, q, key)
    OBVIOUS
  <2>3. x \in X /\ m[x].key = key
    BY <2>1, <2>2, Finds
  <2>4. y \in Y /\ q[y].key = key
    BY <1>2, <2>1, <2>2, Finds
  <2>5. m[x].key = r.m[y].key
    BY <1>1, <2>3, <2>4
  <2>6. x = y
    BY <2>3, <2>4, <2>5 DEF Turned
  <2>7. QED
    BY <2>2, <2>6
<1>6. QED
  BY <1>1, <1>2, <1>3, <1>4, <1>5 DEF Seen

(* The struct at h is exchanged for d, which is seen as f.                 *)
Trade(p, m, N, h, d, q, f) == \E Y : Exchange(p, m, N, h, d, Y, q) /\ Seen(d, q) = f

(* Who has a map's nodes after a trade, if anyone.                         *)
Settled(p, m, h, d, q) ==
  \/ p[h] = Null \/ d = Null
  \/ NodesStay(p[h], m, d, q)
  \/ \E g \in Handles : g # h /\ p[g] # Null /\ EntriesOf(d, q) = EntriesOf(p[g], m)

(* The step to maps seen as before but for f at h.                         *)
LeadsAt(p, m, u, q, h, f) == Leads(p, m, u, q, [Sight(p, m) EXCEPT ![h] = f])

(* A trade is a step.                                                      *)
LEMMA TradeLeads ==
  ASSUME NEW p, NEW m, NEW N, Sound(p, m, N), NEW h \in Handles, NEW d, NEW q, NEW f,
         Trade(p, m, N, h, d, q, f), Settled(p, m, h, d, q), NEW u, u = [p EXCEPT ![h] = d]
  PROVE  LeadsAt(p, m, u, q, h, f)
<1>1. PICK Y : Exchange(p, m, N, h, d, Y, q) /\ Seen(d, q) = f
  BY DEF Trade
<1>2. Leads(p, m, u, q, [Sight(p, m) EXCEPT ![h] = Seen(d, q)])
  BY <1>1, ExchangeLeads DEF Settled
<1>3. QED
  BY <1>1, <1>2 DEF LeadsAt

(* A call on one map that makes it hold e.                                 *)
LEMMA CallTrades ==
  ASSUME NEW p, NEW m, NEW N, Sound(p, m, N), NEW h \in Handles, NEW d, d = p[h], d # Null,
         NEW r, NEW e, Becomes(d, m, N[h], r, e), NEW c, c = r.d, NEW q, q = r.m
  PROVE  /\ Trade(p, m, N, h, c, q, [al |-> d.al, hasher |-> d.hasher, entries |-> e])
         /\ NodesStay(d, m, c, q)
<1>1. PICK Y \in SUBSET Nodes : Turned(d, m, N[h], r, Y) /\ Reads(e, r.m, Y)
  BY DEF Becomes
<1>2. PICK X : X = N[h]
  OBVIOUS
<1>3. MapOK(d, m, X)
  BY <1>2 DEF Sound, FitsIn
<1>4. Seen(c, q) = [al |-> d.al, hasher |-> d.hasher, entries |-> e] /\ NodesStay(d, m, c, q)
  BY <1>1, <1>2, <1>3, TurnedIsSeen
<1>5. MapOK(c, q, Y) /\ IsMemory(q) /\ Swapped(Foot(d, X), m, Foot(c, Y), q)
  BY <1>1, <1>2 DEF Turned
<1>6. c \in Maps /\ c # Null
  BY <1>5, MapIs DEF MapOK
<1>7. Exchange(p, m, N, h, c, Y, q)
  BY <1>2, <1>5, <1>6 DEF Exchange, FitsIn
<1>8. QED
  BY <1>4, <1>7 DEF Trade

(* Such a call is a step in which the others stand still.                  *)
LEMMA CallLeads ==
  ASSUME NEW p, NEW m, NEW N, Sound(p, m, N), NEW h \in Handles, p[h] # Null,
         NEW r, NEW e, Becomes(p[h], m, N[h], r, e), NEW u, u = [p EXCEPT ![h] = r.d]
  PROVE  LeadsAt(p, m, u, r.m, h, [al |-> p[h].al, hasher |-> p[h].hasher, entries |-> e])
<1>1. PICK d, c, q, f : d = p[h] /\ c = r.d /\ q = r.m /\ f = [al |-> p[h].al, hasher |-> p[h].hasher, entries |-> e]
  OBVIOUS
<1>2. Trade(p, m, N, h, c, q, f) /\ NodesStay(d, m, c, q)
  BY <1>1, CallTrades
<1>3. Settled(p, m, h, c, q)
  BY <1>1, <1>2 DEF Settled
<1>4. LeadsAt(p, m, u, q, h, f)
  BY <1>1, <1>2, <1>3, TradeLeads
<1>5. QED
  BY <1>1, <1>4

(* What came to be from nothing where nothing was.                         *)
LEMMA BirthTrades ==
  ASSUME NEW p, NEW m, NEW N, Sound(p, m, N), NEW h \in Handles, p[h] = Null,
         NEW hs \in Hashers, NEW a \in Als, NEW r, NEW e, Makes(hs, a, m, r, e), r.st = OK,
         NEW c, c = r.d, NEW q, q = r.m
  PROVE  Trade(p, m, N, h, c, q, [al |-> a, hasher |-> hs, entries |-> e]) /\ c # Null
<1>1. PICK d : d = NewStruct(hs, a)
  OBVIOUS
<1>2. Bare(d) /\ d.al = a /\ d.hasher = hs
  BY <1>1, NewIsBare
<1>3. MapOK(d, m, {}) /\ Foot(d, {}) = {}
  BY <1>2, BareIsEmpty
<1>4. Becomes(d, m, {}, r, e)
  BY <1>1, ConstantsAre DEF Makes
<1>5. PICK Y \in SUBSET Nodes : Turned(d, m, {}, r, Y) /\ Reads(e, r.m, Y)
  BY <1>4 DEF Becomes
<1>6. Seen(c, q) = [al |-> d.al, hasher |-> d.hasher, entries |-> e]
  BY <1>3, <1>5, TurnedIsSeen
<1>7. MapOK(c, q, Y) /\ IsMemory(q) /\ Swapped({}, m, Foot(c, Y), q)
  BY <1>3, <1>5 DEF Turned
<1>8. c \in Maps /\ c # Null
  BY <1>7, MapIs DEF MapOK
<1>9. Foot(p[h], N[h]) = {}
  BY DEF Foot
<1>10. Exchange(p, m, N, h, c, Y, q)
  BY <1>7, <1>8, <1>9 DEF Exchange, FitsIn
<1>11. QED
  BY <1>2, <1>6, <1>8, <1>10 DEF Trade

(* A map that is dropped.                                                  *)
LEMMA DropTrades ==
  ASSUME NEW p, NEW m, NEW N, Sound(p, m, N), NEW h \in Handles, p[h] # Null
  PROVE  Trade(p, m, N, h, Null, ReleasedMem(p[h], m), Null)
<1>1. PICK d, X, q : d = p[h] /\ X = N[h] /\ q = ReleasedMem(d, m)
  OBVIOUS
<1>2. MapOK(d, m, X) /\ IsMemory(m)
  BY <1>1 DEF Sound, FitsIn
<1>3. Freed(m, q, Foot(d, X)) /\ Foot(d, X) \subseteq Addrs
  BY <1>1, <1>2, ReleaseFrees, FootIsLent
<1>4. Swapped(Foot(d, X), m, {}, q) /\ IsMemory(q)
  BY <1>3, FreedIsSwapped DEF Freed
<1>5. Foot(Null, {}) = {} /\ FitsIn(Null, q, {}) /\ Seen(Null, q) = Null
  BY DEF Foot, FitsIn, Seen
<1>6. Exchange(p, m, N, h, Null, {}, q)
  BY <1>1, <1>4, <1>5 DEF Exchange
<1>7. QED
  BY <1>1, <1>5, <1>6 DEF Trade

(* What came to be from nothing takes the place of a map that is dropped.  *)
LEMMA ReplaceTrades ==
  ASSUME NEW p, NEW m, NEW N, Sound(p, m, N), NEW g \in Handles, NEW d, d = p[g], d # Null,
         NEW hs \in Hashers, NEW r, NEW e, Makes(hs, d.al, m, r, e), r.st = OK,
         NEW c, c = r.d, NEW q, q = ReleasedMem(d, r.m)
  PROVE  Trade(p, m, N, g, c, q, [al |-> d.al, hasher |-> hs, entries |-> e]) /\ c # Null
<1>1. PICK X, n, z : X = N[g] /\ n = NewStruct(hs, d.al) /\ z = r.m
  OBVIOUS
<1>2. MapOK(d, m, X)
  BY <1>1 DEF Sound, FitsIn
<1>3. d.al \in Als
  BY <1>2, MapIs DEF MapOK
<1>4. Bare(n) /\ n.al = d.al /\ n.hasher = hs
  BY <1>1, <1>3, NewIsBare
<1>5. Foot(n, {}) = {}
  BY <1>4, BareIsEmpty
<1>6. Becomes(n, m, {}, r, e)
  BY <1>1, ConstantsAre DEF Makes
<1>7. PICK Y \in SUBSET Nodes : Turned(n, m, {}, r, Y) /\ Reads(e, r.m, Y)
  BY <1>6 DEF Becomes
<1>8. /\ MapOK(c, z, Y) /\ IsMemory(z) /\ Swapped({}, m, Foot(c, Y), z) /\ Reads(e, z, Y)
      /\ c.al = d.al /\ c.hasher = hs
  BY <1>1, <1>4, <1>5, <1>7 DEF Turned
<1>9. PICK F, G : F = Foot(d, X) /\ G = Foot(c, Y)
  OBVIOUS
<1>10. Lent(m, F) /\ F \subseteq Addrs /\ G \subseteq Addrs
  BY <1>2, <1>8, <1>9, FootIsLent
<1>11. G \cap F = {} /\ \A a \in F : z[a] = m[a]
  <2>1. Swapped({}, m, G, z) /\ {} \cap F = {}
    BY <1>8, <1>9
  <2>2. QED
    BY <1>10, <2>1, SwapKeeps
<1>12. MapOK(d, z, X)
  BY <1>2, <1>9, <1>11, MapStays
<1>13. Freed(z, q, F)
  BY <1>1, <1>8, <1>9, <1>12, ReleaseFrees
<1>14. Swapped(F, m, G, q) /\ IsMemory(q)
  BY <1>8, <1>9, <1>10, <1>11, <1>13 DEF Swapped, Freed
<1>15. \A a \in G : q[a] = z[a]
  BY <1>10, <1>11, <1>13 DEF Freed
<1>16. MapOK(c, q, Y)
  BY <1>8, <1>9, <1>15, MapStays
<1>17. c \in Maps /\ c # Null
  BY <1>16, MapIs DEF MapOK
<1>18. Reads(e, q, Y)
  <2>1. \A x \in Y : q[x] = z[x]
    BY <1>9, <1>15, <1>17 DEF Foot
  <2>2. Keeps(z, q, Y)
    BY <2>1 DEF Keeps
  <2>3. QED
    BY <1>8, <2>2, KeepersRead
<1>19. EntriesOf(c, q) = e
  BY <1>16, <1>18, ReadIsFound
<1>20. Exchange(p, m, N, g, c, Y, q)
  BY <1>1, <1>9, <1>14, <1>16, <1>17 DEF Exchange, FitsIn
<1>21. Seen(c, q) = [al |-> d.al, hasher |-> hs, entries |-> e]
  BY <1>8, <1>17, <1>19 DEF Seen
<1>22. QED
  BY <1>17, <1>20, <1>21 DEF Trade

(* Two maps that change places.                                            *)
Crossed(f, g, h, v) == v = [f EXCEPT ![h] = f[g], ![g] = f[h]]

(* Are as sound, each on what it stood on.                                 *)
LEMMA CrossingIsSound ==
  ASSUME NEW p, NEW m, NEW N, Sound(p, m, N), NEW h \in Handles, NEW g \in Handles,
         NEW u, Crossed(p, g, h, u), NEW K, Crossed(N, g, h, K)
  PROVE  Sound(u, m, K) /\ Crossed(Sight(p, m), g, h, Sight(u, m))
<1>1. PICK at : at = [f \in Handles |-> IF f = g THEN h ELSE IF f = h THEN g ELSE f]
  OBVIOUS
<1>2. /\ p \in [Handles -> Maps \cup {Null}] /\ IsMemory(m) /\ N \in [Handles -> SUBSET Nodes]
      /\ \A f \in Handles : FitsIn(p[f], m, N[f])
      /\ \A f, e \in Handles : f # e => Foot(p[f], N[f]) \cap Foot(p[e], N[e]) = {}
      /\ \A a \in Addrs : m[a] # Null => \E f \in Handles : a \in Foot(p[f], N[f])
  BY DEF Sound
<1>3. u \in [Handles -> Maps \cup {Null}] /\ K \in [Handles -> SUBSET Nodes]
  BY <1>2 DEF Crossed
<1>4. \A f \in Handles : at[f] \in Handles /\ u[f] = p[at[f]] /\ K[f] = N[at[f]] /\ at[at[f]] = f
  BY <1>1, <1>2 DEF Crossed
<1>5. \A f, e \in Handles : f # e => at[f] # at[e]
  BY <1>4
<1>6. \A f \in Handles : FitsIn(u[f], m, K[f])
  BY <1>2, <1>4
<1>7. \A f, e \in Handles : f # e => Foot(u[f], K[f]) \cap Foot(u[e], K[e]) = {}
  BY <1>2, <1>4, <1>5
<1>8. ASSUME NEW a \in Addrs, m[a] # Null
      PROVE  \E f \in Handles : a \in Foot(u[f], K[f])
  <2>1. PICK f \in Handles : a \in Foot(p[f], N[f])
    BY <1>2, <1>8
  <2>2. at[f] \in Handles /\ u[at[f]] = p[f] /\ K[at[f]] = N[f]
    BY <1>4
  <2>3. QED
    BY <2>1, <2>2
<1>9. Sound(u, m, K)
  BY <1>2, <1>3, <1>6, <1>7, <1>8 DEF Sound
<1>10. \A f \in Handles : Sight(u, m)[f] = Sight(p, m)[at[f]]
  BY <1>4 DEF Sight
<1>11. Sight(u, m) = [f \in Handles |-> Sight(u, m)[f]] /\ Sight(p, m) = [f \in Handles |-> Sight(p, m)[f]]
  BY DEF Sight
<1>12. Crossed(Sight(p, m), g, h, Sight(u, m))
  BY <1>1, <1>10, <1>11 DEF Crossed
<1>13. QED
  BY <1>9, <1>12

(* A map seen as another one has its entries.                              *)
LEMMA SeenAlike ==
  ASSUME NEW d, NEW m, NEW e, NEW q, d # Null, e # Null, Seen(d, m) = Seen(e, q)
  PROVE  EntriesOf(d, m) = EntriesOf(e, q)
  BY DEF Seen

(* The step to maps that are seen to have changed places.                  *)
LeadsAcross(p, m, u, q, h, g) ==
  \E o : Crossed(Sight(p, m), g, h, o) /\ Leads(p, m, u, q, o)

(* Two maps that change places.                                            *)
LEMMA CrossingLeads ==
  ASSUME NEW p, NEW m, NEW N, Sound(p, m, N), NEW h \in Handles, NEW g \in Handles,
         p[h] # Null, p[g] # Null, NEW u, Crossed(p, g, h, u)
  PROVE  LeadsAcross(p, m, u, m, h, g)
<1>1. PICK K, o : K = [N EXCEPT ![h] = N[g], ![g] = N[h]] /\ o = Sight(u, m)
  OBVIOUS
<1>2. Crossed(N, g, h, K)
  BY <1>1 DEF Crossed
<1>3. Sound(u, m, K) /\ Crossed(Sight(p, m), g, h, o)
  BY <1>1, <1>2, CrossingIsSound
<1>4. p \in [Handles -> Maps \cup {Null}]
  BY DEF Sound
<1>5. u[h] = p[g] /\ u[g] = p[h] /\ \A f \in Handles : f # h /\ f # g => u[f] = p[f]
  BY <1>4 DEF Crossed
<1>6. ASSUME NEW f \in Handles
      PROVE  NodesStay(p[f], m, p[f], m)
  BY DEF NodesStay
<1>7. Stays(p, m, u, m)
  <2>1. SUFFICES ASSUME NEW f \in Handles, p[f] # Null, u[f] # Null
        PROVE  \/ \E e \in Handles : e # f /\ p[e] # Null /\ EntriesOf(u[f], m) = EntriesOf(p[e], m)
               \/ NodesStay(p[f], m, u[f], m)
    BY DEF Stays
  <2>2. CASE h = g \/ (f # h /\ f # g)
    <3>1. u[f] = p[f]
      BY <1>5, <2>2
    <3>2. QED
      BY <1>6, <3>1
  <2>3. CASE h # g /\ f = h
    <3>1. EntriesOf(u[f], m) = EntriesOf(p[g], m)
      BY <1>5, <2>3
    <3>2. QED
      BY <2>3, <3>1
  <2>4. CASE h # g /\ f = g
    <3>1. EntriesOf(u[f], m) = EntriesOf(p[h], m)
      BY <1>5, <2>4, SMTT(40)
    <3>2. QED
      BY <2>4, <3>1, SMTT(40)
  <2>5. QED
    BY <2>2, <2>3, <2>4
<1>8. QED
  BY <1>1, <1>3, <1>7 DEF LeadsAcross, Leads

(* In a map without buckets nothing is found, so that no node of it moved. *)
LEMMA BareStays ==
  ASSUME NEW d, NEW m, NEW e, Bare(e), NEW q
  PROVE  NodesStay(d, m, e, q)
  BY DEF NodesStay, FindNode, Bare

(* What is seen of two maps that exchange all they have: what the one had, *)
(* and nothing with the other's allocator and hasher.                      *)
HandedOver(v, h, g, o) ==
  o = [v EXCEPT ![g] = v[h], ![h] = [al |-> v[g].al, hasher |-> v[g].hasher, entries |-> M!NoEntries]]

LeadsOver(p, m, u, q, h, g) ==
  \E o : HandedOver(Sight(p, m), h, g, o) /\ Leads(p, m, u, q, o)

(* g is released and then has what h had, and h what g has left.           *)
LEMMA HandOverLeads ==
  ASSUME NEW p, NEW m, NEW N, Sound(p, m, N), NEW h \in Handles, NEW g \in Handles, h # g,
         p[h] # Null, p[g] # Null,
         NEW u, u = [p EXCEPT ![g] = p[h], ![h] = Released(p[g])], NEW q, q = ReleasedMem(p[g], m)
  PROVE  LeadsOver(p, m, u, q, h, g)
<1>1. PICK d, X, c, r, v : /\ d = p[g] /\ X = N[g] /\ c = Released(d) /\ r = Result(OK, c, q)
                           /\ v = [p EXCEPT ![g] = c]
  OBVIOUS
<1>2. MapOK(d, m, X) /\ IsMemory(m) /\ p \in [Handles -> Maps \cup {Null}]
  BY <1>1 DEF Sound, FitsIn
<1>3. r.d = c /\ r.m = q /\ Bare(c) /\ c # Null
  <2>1. r.d = c /\ r.m = q
    BY <1>1, ResultIs
  <2>2. d \in Maps
    BY <1>2 DEF MapOK
  <2>3. Bare(c)
    BY <1>1, <2>2, ReleasedIsBare
  <2>4. c \in Maps
    BY <2>3 DEF Bare
  <2>5. QED
    BY <2>1, <2>3, <2>4, MapIs
<1>4. Becomes(d, m, X, r, M!NoEntries)
  BY <1>1, <1>2, ReleaseTurns
<1>5. Trade(p, m, N, g, c, q, [al |-> d.al, hasher |-> d.hasher, entries |-> M!NoEntries])
  BY <1>1, <1>3, <1>4, CallTrades
<1>6. PICK Y, f : /\ Exchange(p, m, N, g, c, Y, q) /\ Seen(c, q) = f
                  /\ f = [al |-> d.al, hasher |-> d.hasher, entries |-> M!NoEntries]
  BY <1>5 DEF Trade
<1>7. PICK J : J = [N EXCEPT ![g] = Y]
  OBVIOUS
<1>8. Sound(v, q, J) /\ SeenAnew(p, m, v, q, g, Seen(c, q))
  BY <1>1, <1>6, <1>7, ExchangeIsSound
<1>9. PICK K : K = [J EXCEPT ![h] = J[g], ![g] = J[h]]
  OBVIOUS
<1>10. Crossed(J, g, h, K)
  BY <1>9 DEF Crossed
<1>11. v[g] = c /\ v[h] = p[h]
  BY <1>1, <1>2
<1>12. Crossed(v, g, h, u)
  BY <1>1, <1>2, <1>11 DEF Crossed
<1>13. Sound(u, q, K) /\ Crossed(Sight(v, q), g, h, Sight(u, q))
  BY <1>8, <1>10, <1>12, CrossingIsSound
<1>14. PICK s, t, o : s = Sight(p, m) /\ t = Sight(v, q) /\ o = Sight(u, q)
  OBVIOUS
<1>15. t = [s EXCEPT ![g] = f] /\ o = [t EXCEPT ![h] = t[g], ![g] = t[h]]
  BY <1>6, <1>8, <1>13, <1>14 DEF SeenAnew, Crossed
<1>16. s = [e \in Handles |-> s[e]] /\ s[g].al = d.al /\ s[g].hasher = d.hasher
  BY <1>1, <1>14 DEF Sight, Seen
<1>17. t[g] = f /\ t[h] = s[h] /\ f = [al |-> s[g].al, hasher |-> s[g].hasher, entries |-> M!NoEntries]
  BY <1>6, <1>15, <1>16
<1>18. o = [s EXCEPT ![g] = s[h], ![h] = f]
  BY <1>15, <1>16, <1>17
<1>19. HandedOver(s, h, g, o)
  BY <1>17, <1>18 DEF HandedOver
<1>20. /\ u[h] = c /\ u[g] = p[h] /\ \A e \in Handles : e # h /\ e # g => u[e] = p[e]
  BY <1>1, <1>2
<1>21. \A e \in Handles : e # g => Seen(p[e], q) = Seen(p[e], m) /\ (p[e] # Null => NodesStay(p[e], m, p[e], q))
  BY <1>6, OthersStay
<1>22. Stays(p, m, u, q)
  <2>1. SUFFICES ASSUME NEW e \in Handles, p[e] # Null, u[e] # Null
        PROVE  \/ \E f2 \in Handles : f2 # e /\ p[f2] # Null /\ EntriesOf(u[e], q) = EntriesOf(p[f2], m)
               \/ NodesStay(p[e], m, u[e], q)
    BY DEF Stays
  <2>2. CASE e = h
    BY <1>3, <1>20, <2>2, BareStays
  <2>3. CASE e = g
    <3>1. PICK b : b = p[h]
      OBVIOUS
    <3>2. b # Null /\ Seen(b, q) = Seen(b, m)
      BY <1>21, <3>1
    <3>3. EntriesOf(b, q) = EntriesOf(b, m)
      BY <3>2, SeenAlike
    <3>4. QED
      BY <1>20, <2>3, <3>1, <3>3
  <2>4. CASE e # h /\ e # g
    BY <1>20, <1>21, <2>1, <2>4
  <2>5. QED
    BY <2>2, <2>3, <2>4
<1>23. QED
  BY <1>13, <1>14, <1>19, <1>22 DEF LeadsOver, Leads

(* What is seen of two maps when a copy of the one takes the place of the  *)
(* other, and the one is emptied.                                          *)
CopiedOver(v, h, g, o) ==
  o = [v EXCEPT ![g] = [al |-> v[g].al, hasher |-> v[h].hasher, entries |-> v[h].entries],
                ![h] = [al |-> v[h].al, hasher |-> v[h].hasher, entries |-> M!NoEntries]]

LeadsCopied(p, m, u, q, h, g) ==
  \E o : CopiedOver(Sight(p, m), h, g, o) /\ Leads(p, m, u, q, o)

(* g is exchanged for the copy, and then h is released.                    *)
LEMMA CopyAndEmptyLeads ==
  ASSUME NEW p, NEW m, NEW N, Sound(p, m, N), NEW h \in Handles, NEW g \in Handles, h # g,
         p[h] # Null, p[g] # Null, NEW c, c # Null, NEW z,
         Trade(p, m, N, g, c, z, [al |-> p[g].al, hasher |-> p[h].hasher, entries |-> EntriesOf(p[h], m)]),
         NEW u, u = [p EXCEPT ![g] = c, ![h] = Released(p[h])], NEW q, q = ReleasedMem(p[h], z)
  PROVE  LeadsCopied(p, m, u, q, h, g)
<1>1. PICK d, a, f : d = p[h] /\ a = p[g].al /\ f = [al |-> a, hasher |-> d.hasher, entries |-> EntriesOf(d, m)]
  OBVIOUS
<1>2. PICK Y : Exchange(p, m, N, g, c, Y, z) /\ Seen(c, z) = f
  BY <1>1 DEF Trade
<1>3. PICK v, J : v = [p EXCEPT ![g] = c] /\ J = [N EXCEPT ![g] = Y]
  OBVIOUS
<1>4. Sound(v, z, J) /\ SeenAnew(p, m, v, z, g, Seen(c, z))
  BY <1>2, <1>3, ExchangeIsSound
<1>5. p \in [Handles -> Maps \cup {Null}] /\ N \in [Handles -> SUBSET Nodes]
  BY DEF Sound
<1>6. v[h] = d /\ J[h] = N[h] /\ v[g] = c /\ d # Null
  BY <1>1, <1>3, <1>5
<1>7. PICK X : X = J[h]
  OBVIOUS
<1>8. MapOK(d, z, X) /\ IsMemory(z)
  BY <1>4, <1>6, <1>7 DEF Sound, FitsIn
<1>9. PICK e, r : e = Released(d) /\ r = Result(OK, e, q)
  OBVIOUS
<1>10. r.d = e /\ r.m = q /\ Bare(e) /\ e # Null
  <2>1. r.d = e /\ r.m = q
    BY <1>9, ResultIs
  <2>2. d \in Maps
    BY <1>8 DEF MapOK
  <2>3. Bare(e)
    BY <1>9, <2>2, ReleasedIsBare
  <2>4. e \in Maps
    BY <2>3 DEF Bare
  <2>5. QED
    BY <2>1, <2>3, <2>4, MapIs
<1>11. Becomes(d, z, X, r, M!NoEntries)
  BY <1>1, <1>8, <1>9, ReleaseTurns
<1>12. Trade(v, z, J, h, e, q, [al |-> d.al, hasher |-> d.hasher, entries |-> M!NoEntries])
  BY <1>4, <1>6, <1>7, <1>10, <1>11, CallTrades
<1>13. PICK Z, b : /\ Exchange(v, z, J, h, e, Z, q) /\ Seen(e, q) = b
                   /\ b = [al |-> d.al, hasher |-> d.hasher, entries |-> M!NoEntries]
  BY <1>12 DEF Trade
<1>14. PICK K : K = [J EXCEPT ![h] = Z]
  OBVIOUS
<1>15. u = [v EXCEPT ![h] = e]
  BY <1>1, <1>3, <1>5, <1>9
<1>16. Sound(u, q, K) /\ SeenAnew(v, z, u, q, h, Seen(e, q))
  <2>1. PICK x : x = [v EXCEPT ![h] = e]
    OBVIOUS
  <2>2. Sound(x, q, K) /\ SeenAnew(v, z, x, q, h, Seen(e, q))
    BY <1>4, <1>13, <1>14, <2>1, ExchangeIsSound
  <2>3. QED
    BY <1>15, <2>1, <2>2
<1>17. PICK s, t, o : s = Sight(p, m) /\ t = Sight(v, z) /\ o = Sight(u, q)
  OBVIOUS
<1>18. t = [s EXCEPT ![g] = f] /\ o = [t EXCEPT ![h] = b]
  BY <1>2, <1>4, <1>13, <1>16, <1>17 DEF SeenAnew
<1>19. /\ s = [w \in Handles |-> s[w]] /\ s[g].al = a
       /\ s[h].al = d.al /\ s[h].hasher = d.hasher /\ s[h].entries = EntriesOf(d, m)
  BY <1>1, <1>17 DEF Sight, Seen
<1>20. o = [s EXCEPT ![g] = f, ![h] = b]
  BY <1>18, <1>19
<1>21. /\ f = [al |-> s[g].al, hasher |-> s[h].hasher, entries |-> s[h].entries]
       /\ b = [al |-> s[h].al, hasher |-> s[h].hasher, entries |-> M!NoEntries]
  BY <1>1, <1>13, <1>19
<1>22. CopiedOver(s, h, g, o)
  BY <1>20, <1>21 DEF CopiedOver
<1>23. u[h] = e /\ u[g] = c /\ \A w \in Handles : w # h /\ w # g => u[w] = p[w] /\ v[w] = p[w] /\ J[w] = N[w]
  BY <1>3, <1>5, <1>15
<1>24. Stays(p, m, u, q)
  <2>1. SUFFICES ASSUME NEW w \in Handles, p[w] # Null, u[w] # Null
        PROVE  \/ \E x \in Handles : x # w /\ p[x] # Null /\ EntriesOf(u[w], q) = EntriesOf(p[x], m)
               \/ NodesStay(p[w], m, u[w], q)
    BY DEF Stays
  <2>2. CASE w = h
    BY <1>10, <1>23, <2>2, BareStays
  <2>3. CASE w = g
    <3>1. Seen(v[g], q) = Seen(v[g], z)
      BY <1>4, <1>13, OthersStay
    <3>2. Seen(c, q) = f
      BY <1>2, <1>6, <3>1
    <3>3. EntriesOf(c, q) = EntriesOf(d, m)
      BY <1>1, <3>2 DEF Seen
    <3>4. EntriesOf(u[w], q) = EntriesOf(p[h], m)
      BY <1>1, <1>23, <2>3, <3>3
    <3>5. QED
      BY <2>3, <3>4
  <2>4. CASE w # h /\ w # g
    <3>1. PICK x, W : x = p[w] /\ W = N[w]
      OBVIOUS
    <3>2. FitsIn(x, m, W)
      BY <3>1 DEF Sound
    <3>3. \A n \in Foot(x, W) : z[n] = m[n]
      BY <1>2, <2>4, <3>1, OthersStand
    <3>4. \A n \in Foot(v[w], J[w]) : q[n] = z[n]
      BY <1>4, <1>13, <2>4, OthersStand
    <3>5. \A n \in Foot(x, W) : q[n] = m[n]
      BY <1>23, <2>4, <3>1, <3>3, <3>4
    <3>6. x # Null => NodesStay(x, m, x, q)
      BY <3>2, <3>5, FitStays
    <3>7. QED
      BY <1>23, <2>1, <2>4, <3>1, <3>6
  <2>5. QED
    BY <2>2, <2>3, <2>4
<1>25. QED
  BY <1>16, <1>17, <1>22, <1>24 DEF LeadsCopied, Leads

-----------------------------------------------------------------------------
(* The program's maps, and the headers that go with them.                  *)

(* Of objects o, those on the allocator a.                                 *)
On(o, a) == {h \in Handles : o[h] # Null /\ o[h].al = a}

(* The headers H are counted.                                              *)
Counted(o, H) ==
  /\ H \in [Als -> Nat]
  /\ \A a \in Als : IsFiniteSet(On(o, a)) /\ H[a] = Cardinality(On(o, a))

(* The maps are sound over the nodes they have, and each has its header.   *)
IInv ==
  /\ \E N : Sound(map, mem, N)
  /\ Counted(Shown, hdrs)
  /\ status \in {OK, NoMem}

(* A set that changes at one member, counted.                              *)
LEMMA CountMoves ==
  ASSUME NEW T, IsFiniteSet(T), NEW U, NEW g, \A h : h # g => (h \in T <=> h \in U)
  PROVE  /\ IsFiniteSet(U)
         /\ Cardinality(U) = Cardinality(T) + (IF g \in U THEN 1 ELSE 0) - (IF g \in T THEN 1 ELSE 0)
<1>1. Cardinality(T) \in Nat
  BY FS_CardinalityType
<1>2. CASE g \in U
  <2>1. U = T \cup {g}
    BY <1>2
  <2>2. IsFiniteSet(U) /\ Cardinality(U) = IF g \in T THEN Cardinality(T) ELSE Cardinality(T) + 1
    BY <2>1, FS_AddElement
  <2>3. QED
    BY <1>1, <1>2, <2>2
<1>3. CASE g \notin U
  <2>1. U = T \ {g}
    BY <1>3
  <2>2. IsFiniteSet(U) /\ Cardinality(U) = IF g \in T THEN Cardinality(T) - 1 ELSE Cardinality(T)
    BY <2>1, FS_RemoveElement
  <2>3. QED
    BY <1>1, <1>3, <2>2
<1>4. QED
  BY <1>2, <1>3

(* An object that comes with its header.                                   *)
LEMMA HdrComes ==
  ASSUME NEW o, NEW H, Counted(o, H), NEW g \in Handles, o[g] = Null, NEW a \in Als,
         NEW v, \A h \in Handles : h # g => v[h] = o[h], v[g] # Null, v[g].al = a
  PROVE  Counted(v, TakeHdr(H, a))
<1>1. H \in [Als -> Nat] /\ \A b \in Als : IsFiniteSet(On(o, b)) /\ H[b] = Cardinality(On(o, b))
  BY DEF Counted
<1>2. PICK G : G = TakeHdr(H, a)
  OBVIOUS
<1>3. G \in [Als -> Nat] /\ \A b \in Als : G[b] = IF b = a THEN H[b] + 1 ELSE H[b]
  BY <1>1, <1>2 DEF TakeHdr
<1>4. ASSUME NEW b \in Als
      PROVE  IsFiniteSet(On(v, b)) /\ G[b] = Cardinality(On(v, b))
  <2>1. PICK T, U : T = On(o, b) /\ U = On(v, b)
    OBVIOUS
  <2>2. IsFiniteSet(T) /\ H[b] = Cardinality(T) /\ H[b] \in Nat
    BY <1>1, <2>1
  <2>3. \A h : h # g => (h \in T <=> h \in U)
    BY <2>1 DEF On
  <2>4. g \notin T /\ (g \in U <=> b = a)
    BY <2>1 DEF On
  <2>5. /\ IsFiniteSet(U)
        /\ Cardinality(U) = Cardinality(T) + (IF g \in U THEN 1 ELSE 0) - (IF g \in T THEN 1 ELSE 0)
    BY <2>2, <2>3, CountMoves
  <2>6. QED
    BY <1>3, <2>1, <2>2, <2>4, <2>5
<1>5. QED
  BY <1>2, <1>3, <1>4 DEF Counted

(* One that goes with it.                                                  *)
LEMMA HdrGoes ==
  ASSUME NEW o, NEW H, Counted(o, H), NEW g \in Handles, o[g] # Null, NEW a \in Als, o[g].al = a,
         NEW v, \A h \in Handles : h # g => v[h] = o[h], v[g] = Null
  PROVE  Counted(v, ReturnHdr(H, a))
<1>1. H \in [Als -> Nat] /\ \A b \in Als : IsFiniteSet(On(o, b)) /\ H[b] = Cardinality(On(o, b))
  BY DEF Counted
<1>2. PICK G : G = ReturnHdr(H, a)
  OBVIOUS
<1>3. DOMAIN G = Als /\ G = [b \in Als |-> G[b]] /\ \A b \in Als : G[b] = IF b = a THEN H[b] - 1 ELSE H[b]
  BY <1>1, <1>2 DEF ReturnHdr
<1>4. ASSUME NEW b \in Als
      PROVE  IsFiniteSet(On(v, b)) /\ G[b] = Cardinality(On(v, b)) /\ G[b] \in Nat
  <2>1. PICK T, U : T = On(o, b) /\ U = On(v, b)
    OBVIOUS
  <2>2. IsFiniteSet(T) /\ H[b] = Cardinality(T) /\ H[b] \in Nat
    BY <1>1, <2>1
  <2>3. \A h : h # g => (h \in T <=> h \in U)
    BY <2>1 DEF On
  <2>4. g \notin U /\ (g \in T <=> b = a)
    BY <2>1 DEF On
  <2>5. /\ IsFiniteSet(U)
        /\ Cardinality(U) = Cardinality(T) + (IF g \in U THEN 1 ELSE 0) - (IF g \in T THEN 1 ELSE 0)
    BY <2>2, <2>3, CountMoves
  <2>6. Cardinality(U) \in Nat
    BY <2>5, FS_CardinalityType
  <2>7. G[b] = Cardinality(U)
    BY <1>3, <2>2, <2>4, <2>5
  <2>8. QED
    BY <2>1, <2>5, <2>6, <2>7
<1>5. G \in [Als -> Nat]
  BY <1>3, <1>4
<1>6. QED
  BY <1>2, <1>4, <1>5 DEF Counted

(* Every object stays where it is, on its allocator.                       *)
Seated(o, v) ==
  \A h \in Handles : /\ v[h] = Null <=> o[h] = Null
                     /\ o[h] # Null => v[h].al = o[h].al

(* Then the headers are counted on.                                        *)
LEMMA HdrsStay ==
  ASSUME NEW o, NEW H, Counted(o, H), NEW v, Seated(o, v)
  PROVE  Counted(v, H)
<1>1. \A a : On(v, a) = On(o, a)
  BY DEF On, Seated
<1>2. QED
  BY <1>1 DEF Counted

(* A header that comes and goes.                                           *)
LEMMA HdrComesAndGoes ==
  ASSUME NEW H \in [Als -> Nat], NEW a \in Als
  PROVE  ReturnHdr(TakeHdr(H, a), a) = H
<1>1. PICK G : G = TakeHdr(H, a)
  OBVIOUS
<1>2. G \in [Als -> Nat] /\ \A b \in Als : G[b] = IF b = a THEN H[b] + 1 ELSE H[b]
  BY <1>1 DEF TakeHdr
<1>3. PICK K : K = ReturnHdr(G, a)
  OBVIOUS
<1>4. K = [b \in Als |-> K[b]] /\ \A b \in Als : K[b] = IF b = a THEN G[b] - 1 ELSE G[b]
  BY <1>2, <1>3 DEF ReturnHdr
<1>5. \A b \in Als : H[b] \in Nat /\ K[b] = H[b]
  BY <1>2, <1>4
<1>6. H = [b \in Als |-> H[b]]
  OBVIOUS
<1>7. K = H
  BY <1>4, <1>5, <1>6
<1>8. QED
  BY <1>1, <1>3, <1>7

(* What is shown is what the structs and the memory make.                  *)
LEMMA ShownIs == Shown = Sight(map, mem) /\ Shown' = Sight(map', mem')
<1>1. \A h \in Handles : Entries(h) = EntriesOf(map[h], mem) /\ Entries(h)' = EntriesOf(map'[h], mem')
  BY DEF Entries, EntriesOf
<1>2. ASSUME NEW h \in Handles
      PROVE  /\ (IF Alive(h) THEN [al |-> map[h].al, hasher |-> map[h].hasher, entries |-> Entries(h)] ELSE Null)
                = Seen(map[h], mem)
             /\ (IF Alive(h) THEN [al |-> map[h].al, hasher |-> map[h].hasher, entries |-> Entries(h)] ELSE Null)'
                = Seen(map'[h], mem')
  BY <1>1 DEF Alive, Seen
<1>3. QED
  BY <1>2 DEF Shown, Sight

(* A sound map is seen, with its allocator and its hasher.                 *)
LEMMA SeenIs ==
  ASSUME NEW d, NEW m, NEW X, MapOK(d, m, X), NEW f, f = Seen(d, m)
  PROVE  /\ d # Null /\ f # Null
         /\ f.al = d.al /\ f.hasher = d.hasher /\ f.entries = EntriesOf(d, m)
         /\ f.al \in Als /\ f.hasher \in Hashers /\ f \in Objects
         /\ f = [al |-> f.al, hasher |-> f.hasher, entries |-> f.entries]
<1>1. PICK e : e = EntriesOf(d, m)
  OBVIOUS
<1>2. d # Null /\ d.al \in Als /\ d.hasher \in Hashers
  BY MapIs DEF MapOK
<1>3. e \in [KeysIn(m, X) -> Vals]
  BY <1>1, FoundIsRead DEF Reads
<1>4. \A x \in X : m[x].key \in Keys
  BY NodeIs DEF MapOK, EntryOK
<1>5. KeysIn(m, X) \in SUBSET Keys
  BY <1>4 DEF KeysIn
<1>6. f = [al |-> d.al, hasher |-> d.hasher, entries |-> e]
  BY <1>1, <1>2 DEF Seen
<1>7. e \in UNION {[S -> Vals] : S \in SUBSET Keys}
  BY <1>3, <1>5
<1>8. f \in Objects
  BY <1>2, <1>6, <1>7 DEF Objects
<1>9. QED
  BY <1>1, <1>2, <1>6, <1>8, HMapNullAssumption

-----------------------------------------------------------------------------
(* Steps.                                                                  *)

(* A step to sound maps that are seen as o, each node where it was.        *)
Comes(o) == IInv' /\ Stays(map, mem, map', mem') /\ Shown' = o

(* Those of S that are there are there still, on their allocators.         *)
Seating(S) ==
  \A g \in S : Shown[g] # Null => Shown'[g] # Null /\ Shown'[g].al = Shown[g].al

(* A step that keeps the invariant and the nodes, and is one of MapStore's.*)
Goes(S) == IInv' /\ Stays(map, mem, map', mem') /\ M!MapNext /\ Seating(S)

(* What leads somewhere comes there, if the headers are counted there.     *)
LEMMA LeadsComes ==
  ASSUME NEW o, Leads(map, mem, map', mem', o), Counted(o, hdrs'), status' \in {OK, NoMem}
  PROVE  Comes(o)
<1>1. PICK K : Sound(map', mem', K)
  BY DEF Leads
<1>2. Shown' = o /\ Stays(map, mem, map', mem')
  BY ShownIs DEF Leads
<1>3. Counted(Shown', hdrs')
  BY <1>2
<1>4. IInv'
  BY <1>1, <1>3 DEF IInv
<1>5. QED
  BY <1>2, <1>4 DEF Comes

(* What is seen of a live map.                                             *)
LEMMA LiveIsShown ==
  ASSUME IInv, NEW h \in Handles
  PROVE  /\ Alive(h) <=> Shown[h] # Null
         /\ Alive(h) => /\ map[h].al = Shown[h].al /\ map[h].hasher = Shown[h].hasher
                        /\ EntriesOf(map[h], mem) = Shown[h].entries
                        /\ Shown[h].al \in Als /\ Shown[h].hasher \in Hashers /\ Shown[h] \in Objects
                        /\ Shown[h] = [al |-> Shown[h].al, hasher |-> Shown[h].hasher, entries |-> Shown[h].entries]
<1>1. PICK N : Sound(map, mem, N)
  BY DEF IInv
<1>2. PICK f : f = Seen(map[h], mem)
  OBVIOUS
<1>3. Shown[h] = f
  BY <1>2, ShownIs DEF Sight
<1>4. CASE Alive(h)
  <2>1. PICK d : d = map[h]
    OBVIOUS
  <2>2. MapOK(d, mem, N[h]) /\ f = Seen(d, mem)
    BY <1>1, <1>2, <1>4, <2>1 DEF Alive, Sound, FitsIn
  <2>3. /\ f # Null
        /\ f.al = d.al /\ f.hasher = d.hasher /\ f.entries = EntriesOf(d, mem)
        /\ f.al \in Als /\ f.hasher \in Hashers /\ f \in Objects
        /\ f = [al |-> f.al, hasher |-> f.hasher, entries |-> f.entries]
    BY <2>2, SeenIs
  <2>4. QED
    BY <1>3, <1>4, <2>1, <2>3
<1>5. CASE ~Alive(h)
  BY <1>2, <1>3, <1>5 DEF Alive, Seen
<1>6. QED
  BY <1>4, <1>5

(* A live map's nodes.                                                     *)
LEMMA LiveIsOK ==
  ASSUME NEW N, Sound(map, mem, N), NEW h \in Handles, Alive(h)
  PROVE  MapOK(map[h], mem, N[h]) /\ IsMemory(mem) /\ map[h] # Null /\ map[h] \in Maps
<1>1. map[h] # Null
  BY DEF Alive
<1>2. MapOK(map[h], mem, N[h]) /\ IsMemory(mem)
  BY <1>1 DEF Sound, FitsIn
<1>3. map[h] \in Maps
  BY <1>2 DEF MapOK
<1>4. QED
  BY <1>1, <1>2, <1>3

(* Nothing is done to any map.                                             *)
LEMMA StillComes ==
  ASSUME IInv, UNCHANGED <<map, mem, hdrs>>, status' \in {OK, NoMem}
  PROVE  Comes(Shown)
<1>1. PICK N : Sound(map, mem, N)
  BY DEF IInv
<1>2. \A h \in Handles : NodesStay(map[h], mem, map[h], mem)
  BY DEF NodesStay
<1>3. Stays(map, mem, map', mem')
  BY <1>2 DEF Stays
<1>4. Sight(map', mem') = Shown
  BY ShownIs
<1>5. Sound(map', mem', N)
  BY <1>1
<1>6. Leads(map, mem, map', mem', Shown)
  BY <1>3, <1>4, <1>5 DEF Leads
<1>7. Counted(Shown, hdrs')
  BY DEF IInv
<1>8. QED
  BY <1>6, <1>7, LeadsComes

(* What is nothing to a caller, be it done or refused.                     *)
LEMMA HousekeepingGoes ==
  ASSUME IInv, Comes(Shown), status' \in {OK, NoMem}, NEW h \in Handles, Alive(h)
  PROVE  Goes(Handles)
<1>1. M!Alive(h)
  BY LiveIsShown DEF M!Alive
<1>2. M!MapHousekeeping
  BY <1>1 DEF Comes, M!MapHousekeeping, M!Done, M!Refused
<1>3. M!MapNext
  BY <1>2 DEF M!MapNext
<1>4. Seating(Handles)
  BY DEF Comes, Seating
<1>5. QED
  BY <1>3, <1>4 DEF Goes, Comes

(* The step in which h comes to hold e.                                    *)
Holds(h, e) == \E o : o = [Shown EXCEPT ![h].entries = e] /\ Seated(Shown, o) /\ Comes(o)

(* A call that does.                                                       *)
LEMMA CallComes ==
  ASSUME IInv, NEW N, Sound(map, mem, N), NEW h \in Handles, Alive(h),
         NEW r, NEW e, Becomes(map[h], mem, N[h], r, e), Commit(h, r), r.st \in {OK, NoMem}
  PROVE  Holds(h, e)
<1>1. PICK d, f, u, q, o : /\ d = map[h] /\ f = [al |-> map[h].al, hasher |-> map[h].hasher, entries |-> e]
                           /\ u = [map EXCEPT ![h] = r.d] /\ q = r.m /\ o = [Shown EXCEPT ![h] = f]
  OBVIOUS
<1>2. d # Null
  BY <1>1 DEF Alive
<1>3. LeadsAt(map, mem, u, q, h, f)
  BY <1>1, <1>2, CallLeads
<1>4. Leads(map, mem, u, q, o)
  BY <1>1, <1>3, ShownIs DEF LeadsAt
<1>5. map' = u /\ mem' = q /\ hdrs' = hdrs /\ status' \in {OK, NoMem}
  BY <1>1 DEF Commit
<1>6. /\ Shown[h] # Null
      /\ Shown[h].al = d.al /\ Shown[h].hasher = d.hasher
      /\ Shown[h] = [al |-> Shown[h].al, hasher |-> Shown[h].hasher, entries |-> Shown[h].entries]
  BY <1>1, LiveIsShown
<1>7. o = [Shown EXCEPT ![h].entries = e]
  BY <1>1, <1>6
<1>8. Shown = [g \in Handles |-> Shown[g]]
  BY DEF Shown
<1>9. o[h] # Null
  <2>1. PICK Y : Turned(d, mem, N[h], r, Y)
    BY <1>1 DEF Becomes
  <2>2. PICK c, x : c = r.d /\ x = Seen(c, q)
    OBVIOUS
  <2>3. MapOK(c, q, Y)
    BY <1>1, <2>1, <2>2 DEF Turned
  <2>4. x # Null
    BY <2>2, <2>3, SeenIs
  <2>5. u[h] = c
    BY <1>1, <2>2 DEF Sound
  <2>6. QED
    BY <1>4, <2>2, <2>4, <2>5 DEF Leads, Sight
<1>10. Seated(Shown, o)
  BY <1>1, <1>6, <1>8, <1>9 DEF Seated
<1>11. Counted(o, hdrs')
  BY <1>5, <1>10, HdrsStay DEF IInv
<1>12. Leads(map, mem, map', mem', o)
  BY <1>4, <1>5
<1>13. Comes(o)
  BY <1>5, <1>11, <1>12, LeadsComes
<1>14. QED
  BY <1>7, <1>10, <1>13 DEF Holds

(* A map that comes to hold what it held is seen as it was.                *)
LEMMA HoldsTheSame ==
  ASSUME IInv, NEW h \in Handles, Alive(h), Holds(h, EntriesOf(map[h], mem))
  PROVE  Comes(Shown)
<1>1. PICK o : o = [Shown EXCEPT ![h].entries = EntriesOf(map[h], mem)] /\ Comes(o)
  BY DEF Holds
<1>2. /\ EntriesOf(map[h], mem) = Shown[h].entries
      /\ Shown[h] = [al |-> Shown[h].al, hasher |-> Shown[h].hasher, entries |-> Shown[h].entries]
  BY LiveIsShown
<1>3. Shown = [g \in Handles |-> Shown[g]]
  BY DEF Shown
<1>4. o = Shown
  BY <1>1, <1>2, <1>3
<1>5. QED
  BY <1>1, <1>4

(* What MapStore's call on h has to be for the step to be one of its own.  *)
IsCall(h) ==
  \/ \E k \in Keys, v \in Vals : M!MapInsert(h, k, v) \/ M!MapGetOrInsert(h, k, v) \/ M!MapWrite(h, k, v)
  \/ \E k \in Keys : M!MapRemove(h, k)
  \/ M!MapClear(h)

(* A call by which h comes to hold e, and is said to.                      *)
LEMMA HoldsGoes ==
  ASSUME IInv, NEW h \in Handles, Alive(h), NEW e, Holds(h, e), status' = OK,
         M!Becomes(h, e) => IsCall(h)
  PROVE  Goes(Handles)
<1>1. PICK o : o = [Shown EXCEPT ![h].entries = e] /\ Seated(Shown, o) /\ Comes(o)
  BY DEF Holds
<1>2. Shown' = [Shown EXCEPT ![h].entries = e] /\ IInv' /\ Stays(map, mem, map', mem') /\ Shown' = o
  BY <1>1 DEF Comes
<1>3. IsCall(h)
  BY <1>2 DEF M!Becomes
<1>4. M!MapNext
  BY <1>3 DEF IsCall, M!MapNext
<1>5. Seating(Handles)
  BY <1>1, <1>2 DEF Seated, Seating
<1>6. QED
  BY <1>2, <1>4, <1>5 DEF Goes

(* Whatever keeps the entries is housekeeping.                             *)
LEMMA KeptGoes ==
  ASSUME IInv, NEW N, Sound(map, mem, N), NEW h \in Handles, Alive(h), NEW r, Kept(map[h], mem, N[h], r), Commit(h, r)
  PROVE  Comes(Shown) /\ status' \in {OK, NoMem} /\ Goes(Handles)
<1>1. MapOK(map[h], mem, N[h])
  BY LiveIsOK
<1>2. PICK d, X : d = map[h] /\ X = N[h]
  OBVIOUS
<1>3. Becomes(d, mem, X, r, EntriesOf(d, mem))
  BY <1>1, <1>2, KeptHolds
<1>4. r.st \in {OK, NoMem}
  BY DEF Kept, Turned
<1>5. Holds(h, EntriesOf(d, mem))
  BY <1>2, <1>3, <1>4, CallComes
<1>6. Comes(Shown)
  BY <1>2, <1>5, HoldsTheSame
<1>7. status' \in {OK, NoMem}
  BY <1>4 DEF Commit
<1>8. QED
  BY <1>6, <1>7, HousekeepingGoes

(* insert.                                                                 *)
LEMMA InsertGoes ==
  ASSUME IInv, NEW h \in Handles, NEW key \in Keys, NEW val \in Vals, NEW room, NEW granted,
         Insert(h, key, val, room, granted)
  PROVE  Goes(Handles)
<1>1. PICK N : Sound(map, mem, N)
  BY DEF IInv
<1>2. PICK d, X, r : d = map[h] /\ X = N[h] /\ r = InsertInto(d, mem, key, val, room, granted)
  OBVIOUS
<1>3. Alive(h) /\ Commit(h, r)
  BY <1>2 DEF Insert
<1>4. MapOK(d, mem, X) /\ IsMemory(mem)
  BY <1>1, <1>2, <1>3, LiveIsOK
<1>5. InsertsOrKeeps(d, mem, X, key, val, r)
  BY <1>2, <1>4, InsertTurns
<1>6. CASE r.st = NoMem /\ Kept(d, mem, X, r)
  BY <1>1, <1>2, <1>3, <1>6, KeptGoes
<1>7. CASE r.st = OK /\ Becomes(d, mem, X, r, M!Put(EntriesOf(d, mem), key, val))
  <2>1. PICK e : e = M!Put(EntriesOf(d, mem), key, val)
    OBVIOUS
  <2>2. Holds(h, e)
    BY <1>1, <1>2, <1>3, <1>7, <2>1, CallComes
  <2>3. e = M!Put(Shown[h].entries, key, val) /\ M!Alive(h)
    BY <1>2, <1>3, <2>1, LiveIsShown DEF M!Alive
  <2>4. M!Becomes(h, e) => M!MapInsert(h, key, val)
    BY <2>3 DEF M!MapInsert
  <2>5. M!Becomes(h, e) => IsCall(h)
    BY <2>4 DEF IsCall
  <2>6. status' = OK
    BY <1>3, <1>7 DEF Commit
  <2>7. QED
    BY <1>3, <2>2, <2>5, <2>6, HoldsGoes
<1>8. QED
  BY <1>5, <1>6, <1>7 DEF InsertsOrKeeps

(* get_or_insert.                                                          *)
LEMMA GetOrInsertGoes ==
  ASSUME IInv, NEW h \in Handles, NEW key \in Keys, NEW val \in Vals, NEW room, NEW granted,
         GetOrInsert(h, key, val, room, granted)
  PROVE  Goes(Handles)
<1>1. CASE FindNode(map[h], mem, key) # Null /\ Nothing
  <2>1. Comes(Shown) /\ status' \in {OK, NoMem} /\ Alive(h)
    BY <1>1, StillComes DEF Nothing, GetOrInsert
  <2>2. QED
    BY <2>1, HousekeepingGoes
<1>2. CASE FindNode(map[h], mem, key) = Null /\ Commit(h, AddNode(map[h], mem, key, val, room, granted))
  <2>1. InsertInto(map[h], mem, key, val, room, granted) = AddNode(map[h], mem, key, val, room, granted)
    BY <1>2 DEF InsertInto
  <2>2. Insert(h, key, val, room, granted)
    BY <1>2, <2>1 DEF Insert, GetOrInsert
  <2>3. QED
    BY <2>2, InsertGoes
<1>3. QED
  BY <1>1, <1>2 DEF GetOrInsert

(* A store to a value.                                                     *)
LEMMA WriteValGoes ==
  ASSUME IInv, NEW h \in Handles, NEW key \in Keys, NEW val \in Vals, WriteVal(h, key, val)
  PROVE  Goes(Handles)
<1>1. PICK N : Sound(map, mem, N)
  BY DEF IInv
<1>2. PICK d, X, x, q, r : /\ d = map[h] /\ X = N[h] /\ x = FindNode(d, mem, key)
                           /\ q = [mem EXCEPT ![x].val = val] /\ r = Result(OK, d, q)
  OBVIOUS
<1>3. Alive(h) /\ Commit(h, r) /\ x # Null
  BY <1>2 DEF WriteVal
<1>4. MapOK(d, mem, X) /\ IsMemory(mem)
  BY <1>1, <1>2, <1>3, LiveIsOK
<1>5. PICK e : e = M!Put(EntriesOf(d, mem), key, val)
  OBVIOUS
<1>6. Becomes(d, mem, X, r, e)
  BY <1>2, <1>3, <1>4, <1>5, WriteTurns
<1>7. r.st = OK
  BY <1>2, ResultIs
<1>8. Holds(h, e)
  BY <1>1, <1>2, <1>3, <1>6, <1>7, CallComes
<1>9. e = M!Put(Shown[h].entries, key, val) /\ M!Alive(h)
  BY <1>2, <1>3, <1>5, LiveIsShown DEF M!Alive
<1>10. M!Becomes(h, e) => M!MapInsert(h, key, val)
  BY <1>9 DEF M!MapInsert
<1>11. M!Becomes(h, e) => IsCall(h)
  BY <1>10 DEF IsCall
<1>12. status' = OK
  BY <1>3, <1>7 DEF Commit
<1>13. QED
  BY <1>3, <1>8, <1>11, <1>12, HoldsGoes

(* remove.                                                                 *)
LEMMA RemoveGoes ==
  ASSUME IInv, NEW h \in Handles, NEW key \in Keys, Remove(h, key)
  PROVE  Goes(Handles)
<1>1. PICK N : Sound(map, mem, N)
  BY DEF IInv
<1>2. PICK d, X, x, r : /\ d = map[h] /\ X = N[h] /\ x = FindNode(d, mem, key)
                        /\ r = Result(OK, [d EXCEPT !.len = @ - 1], RemoveFrom(d, mem, x))
  OBVIOUS
<1>3. Alive(h)
  BY DEF Remove
<1>4. MapOK(d, mem, X) /\ IsMemory(mem)
  BY <1>1, <1>2, <1>3, LiveIsOK
<1>5. CASE x = Null /\ Nothing
  <2>1. Comes(Shown) /\ status' \in {OK, NoMem}
    BY <1>5, StillComes DEF Nothing
  <2>2. QED
    BY <1>3, <2>1, HousekeepingGoes
<1>6. CASE x # Null /\ RemoveNode(h, x)
  <2>1. x \in X /\ mem[x].key = key
    BY <1>2, <1>4, <1>6, Finds
  <2>2. Commit(h, r)
    BY <1>2, <1>6 DEF RemoveNode
  <2>3. PICK e : e = M!Without(EntriesOf(d, mem), key)
    OBVIOUS
  <2>4. Becomes(d, mem, X, r, M!Without(EntriesOf(d, mem), mem[x].key))
    BY <1>2, <1>4, <2>1, RemoveTurns
  <2>5. r.st = OK
    BY <1>2, ResultIs
  <2>6. Holds(h, e)
    BY <1>1, <1>2, <1>3, <2>1, <2>2, <2>3, <2>4, <2>5, CallComes
  <2>7. e = M!Without(Shown[h].entries, key) /\ M!Alive(h)
    BY <1>2, <1>3, <2>3, LiveIsShown DEF M!Alive
  <2>8. M!Becomes(h, e) => M!MapRemove(h, key)
    BY <2>7 DEF M!MapRemove
  <2>9. M!Becomes(h, e) => IsCall(h)
    BY <2>8 DEF IsCall
  <2>10. status' = OK
    BY <2>2, <2>5 DEF Commit
  <2>11. QED
    BY <1>3, <2>6, <2>9, <2>10, HoldsGoes
<1>7. QED
  BY <1>2, <1>5, <1>6 DEF Remove

(* What leaves a map without entries.                                      *)
LEMMA EmptyGoes ==
  ASSUME IInv, NEW h \in Handles, Alive(h), Holds(h, M!NoEntries), status' = OK
  PROVE  Goes(Handles)
<1>1. M!Alive(h)
  BY LiveIsShown DEF M!Alive
<1>2. M!Becomes(h, M!NoEntries) => M!MapClear(h)
  BY <1>1 DEF M!MapClear
<1>3. M!Becomes(h, M!NoEntries) => IsCall(h)
  BY <1>2 DEF IsCall
<1>4. QED
  BY <1>3, HoldsGoes

(* clear.                                                                  *)
LEMMA ClearGoes ==
  ASSUME IInv, NEW h \in Handles, Clear(h)
  PROVE  Goes(Handles)
<1>1. PICK N : Sound(map, mem, N)
  BY DEF IInv
<1>2. PICK d, X, r : d = map[h] /\ X = N[h] /\ r = Result(OK, [d EXCEPT !.len = 0], Cleared(d, mem))
  OBVIOUS
<1>3. Alive(h) /\ status' = OK
  BY DEF Clear
<1>4. MapOK(d, mem, X) /\ IsMemory(mem)
  BY <1>1, <1>2, <1>3, LiveIsOK
<1>5. Becomes(d, mem, X, r, M!NoEntries)
  BY <1>2, <1>4, ClearTurns
<1>6. r.st = OK /\ r.d = [d EXCEPT !.len = 0] /\ r.m = Cleared(d, mem)
  BY <1>2, ResultIs
<1>7. Commit(h, r)
  BY <1>2, <1>3, <1>6 DEF Clear, Commit, Cleared
<1>8. Holds(h, M!NoEntries)
  BY <1>1, <1>2, <1>3, <1>5, <1>6, <1>7, CallComes
<1>9. QED
  BY <1>3, <1>8, EmptyGoes

(* reserve.                                                                *)
LEMMA ReserveCapGoes ==
  ASSUME IInv, NEW h \in Handles, NEW cap \in Caps, NEW room, ReserveCap(h, cap, room)
  PROVE  Goes(Handles)
<1>1. PICK N : Sound(map, mem, N)
  BY DEF IInv
<1>2. PICK d, X, r : d = map[h] /\ X = N[h] /\ r = Reserve(d, mem, cap, room)
  OBVIOUS
<1>3. Alive(h) /\ Commit(h, r)
  BY <1>2 DEF ReserveCap
<1>4. MapOK(d, mem, X) /\ IsMemory(mem)
  BY <1>1, <1>2, <1>3, LiveIsOK
<1>5. cap \in Nat
  BY ConstantsAre
<1>6. Regrown(d, mem, X, r)
  BY <1>2, <1>4, <1>5, ReserveKeeps
<1>7. Kept(d, mem, X, r)
  BY <1>6 DEF Regrown
<1>8. QED
  BY <1>1, <1>2, <1>3, <1>7, KeptGoes

(* shrink_to_fit.                                                          *)
LEMMA ShrinkToFitGoes ==
  ASSUME IInv, NEW h \in Handles, NEW room, ShrinkToFit(h, room)
  PROVE  Goes(Handles)
<1>1. PICK N : Sound(map, mem, N)
  BY DEF IInv
<1>2. PICK d, X, want : d = map[h] /\ X = N[h] /\ want = RoundUpPow2(d.len)
  OBVIOUS
<1>3. Alive(h)
  BY DEF ShrinkToFit
<1>4. MapOK(d, mem, X) /\ IsMemory(mem)
  BY <1>1, <1>2, <1>3, LiveIsOK
<1>5. CASE d.len = 0 /\ Commit(h, Result(OK, Released(d), ReleasedMem(d, mem)))
  <2>1. PICK r : r = Result(OK, Released(d), ReleasedMem(d, mem))
    OBVIOUS
  <2>2. Becomes(d, mem, X, r, M!NoEntries)
    BY <1>4, <2>1, ReleaseTurns
  <2>3. r.st = OK
    BY <2>1, ResultIs
  <2>4. Commit(h, r)
    BY <1>5, <2>1
  <2>5. Holds(h, M!NoEntries)
    BY <1>1, <1>2, <1>3, <2>2, <2>3, <2>4, CallComes
  <2>6. status' = OK
    BY <2>3, <2>4 DEF Commit
  <2>7. QED
    BY <1>3, <2>5, <2>6, EmptyGoes
<1>6. CASE Nothing
  <2>1. Comes(Shown) /\ status' \in {OK, NoMem}
    BY <1>6, StillComes DEF Nothing
  <2>2. QED
    BY <1>3, <2>1, HousekeepingGoes
<1>7. CASE want # 0 /\ Commit(h, Rehash(d, mem, want, room))
  <2>1. d.len \in Nat
    BY <1>4, MapIs DEF MapOK
  <2>2. want \in Pow2s /\ d.len <= want
    BY <1>2, <1>7, <2>1, RoundsUp
  <2>3. PICK r : r = Rehash(d, mem, want, room)
    OBVIOUS
  <2>4. Regrown(d, mem, X, r)
    BY <1>4, <2>2, <2>3, RehashKeeps
  <2>5. Kept(d, mem, X, r)
    BY <2>4 DEF Regrown
  <2>6. Commit(h, r)
    BY <1>7, <2>3
  <2>7. QED
    BY <1>1, <1>2, <1>3, <2>5, <2>6, KeptGoes
<1>8. QED
  BY <1>2, <1>5, <1>6, <1>7 DEF ShrinkToFit

-----------------------------------------------------------------------------
(* Maps that come and go, and two at a time.                               *)

(* What a trade brings is seen.                                            *)
LEMMA TradedIsSeen ==
  ASSUME NEW p, NEW m, NEW N, NEW h, NEW d, NEW q, NEW f, Trade(p, m, N, h, d, q, f), d # Null
  PROVE  f # Null /\ f.al = d.al
<1>1. PICK Y : Exchange(p, m, N, h, d, Y, q) /\ Seen(d, q) = f
  BY DEF Trade
<1>2. MapOK(d, q, Y)
  BY <1>1 DEF Exchange, FitsIn
<1>3. QED
  BY <1>1, <1>2, SeenIs

(* A trade is a step, if the headers are counted after it.                 *)
LEMMA TradeComes ==
  ASSUME NEW N, Sound(map, mem, N), NEW h \in Handles, NEW d, NEW q, NEW f,
         Trade(map, mem, N, h, d, q, f), Settled(map, mem, h, d, q),
         map' = [map EXCEPT ![h] = d], mem' = q, NEW o, o = [Shown EXCEPT ![h] = f],
         Counted(o, hdrs'), status' \in {OK, NoMem}
  PROVE  Comes(o)
<1>1. PICK u : u = [map EXCEPT ![h] = d]
  OBVIOUS
<1>2. LeadsAt(map, mem, u, q, h, f)
  BY <1>1, TradeLeads
<1>3. Leads(map, mem, u, q, o)
  BY <1>2, ShownIs DEF LeadsAt
<1>4. Leads(map, mem, map', mem', o)
  BY <1>1, <1>3
<1>5. QED
  BY <1>4, LeadsComes

(* What a constructor's allocators answer it, from the header on.          *)
Refused(a, r) ==
  /\ r.st = NoMem
  /\ hdrs' = ReturnHdr(TakeHdr(hdrs, a), a)
  /\ mem' = r.m
  /\ status' = NoMem
  /\ UNCHANGED map

Born(g, a, r) ==
  /\ r.st = OK
  /\ map' = [map EXCEPT ![g] = r.d]
  /\ mem' = r.m
  /\ hdrs' = TakeHdr(hdrs, a)
  /\ status' = OK

(* Refused, it leaves nothing behind.                                      *)
LEMMA RefusedComes ==
  ASSUME IInv, NEW hs, NEW a \in Als, NEW r, NEW e, Makes(hs, a, mem, r, e), Refused(a, r)
  PROVE  Comes(Shown) /\ status' = NoMem
<1>1. hdrs \in [Als -> Nat]
  BY DEF IInv, Counted
<1>2. hdrs' = hdrs
  BY <1>1, HdrComesAndGoes DEF Refused
<1>3. mem' = mem
  BY ConstantsAre DEF Makes, Refused
<1>4. QED
  BY <1>2, <1>3, StillComes DEF Refused

(* Done, it brings an object with what it was to hold.                     *)
LEMMA BornComes ==
  ASSUME IInv, NEW g \in Handles, ~Alive(g), NEW hs \in Hashers, NEW a \in Als,
         NEW r, NEW e, Makes(hs, a, mem, r, e), Born(g, a, r),
         NEW f, f = [al |-> a, hasher |-> hs, entries |-> e]
  PROVE  IInv' /\ Stays(map, mem, map', mem') /\ Shown' = [Shown EXCEPT ![g] = f] /\ Seating(Handles)
<1>1. PICK N : Sound(map, mem, N)
  BY DEF IInv
<1>2. PICK c, q : c = r.d /\ q = r.m
  OBVIOUS
<1>3. r.st = OK /\ map' = [map EXCEPT ![g] = c] /\ mem' = q /\ hdrs' = TakeHdr(hdrs, a) /\ status' \in {OK, NoMem}
  BY <1>2 DEF Born
<1>4. map[g] = Null
  BY DEF Alive
<1>5. Trade(map, mem, N, g, c, q, f) /\ c # Null
  BY <1>1, <1>2, <1>3, <1>4, BirthTrades
<1>6. f # Null /\ f.al = a
  BY <1>5, TradedIsSeen
<1>7. Settled(map, mem, g, c, q)
  BY <1>4 DEF Settled
<1>8. PICK o : o = [Shown EXCEPT ![g] = f]
  OBVIOUS
<1>9. o[g] = f /\ \A h \in Handles : h # g => o[h] = Shown[h]
  BY <1>8 DEF Shown
<1>10. Shown[g] = Null
  BY LiveIsShown
<1>11. Counted(o, TakeHdr(hdrs, a))
  BY <1>6, <1>9, <1>10, HdrComes DEF IInv
<1>12. Counted(o, hdrs')
  BY <1>3, <1>11
<1>13. Comes(o)
  BY <1>1, <1>3, <1>5, <1>7, <1>8, <1>12, TradeComes
<1>14. Shown' = o
  BY <1>13 DEF Comes
<1>15. Seating(Handles)
  BY <1>9, <1>10, <1>14 DEF Seating
<1>16. QED
  BY <1>8, <1>13, <1>15 DEF Comes

(* A constructor without entries.                                          *)
LEMMA NewIsNext ==
  ASSUME IInv, NEW g \in Handles, ~Alive(g), NEW hs \in Hashers, NEW a \in Als,
         NEW o, o = [al |-> a, hasher |-> hs, entries |-> M!NoEntries],
         M!Refused \/ (Shown' = [Shown EXCEPT ![g] = o] /\ status' = OK)
  PROVE  M!MapNext
<1>1. ~M!Alive(g)
  BY LiveIsShown DEF M!Alive
<1>2. M!MapNew(g, o)
  BY <1>1 DEF M!MapNew
<1>3. QED
  BY <1>2 DEF M!MapNext

(* A refusal is seen as one.                                               *)
LEMMA RefusedIsSeen ==
  ASSUME Comes(Shown), status' = NoMem
  PROVE  M!Refused /\ Seating(Handles) /\ IInv' /\ Stays(map, mem, map', mem')
  BY DEF Comes, M!Refused, Seating

(* new, new_with_capacity and so on.                                       *)
LEMMA NewRawGoes ==
  ASSUME IInv, NEW g \in Handles, ~Alive(g), NEW hs \in Hashers, NEW a \in Als, NEW cap \in Nat, NEW room,
         NEW r, r = NewRaw(cap, hs, a, mem, room),
         Refuse \/ Refused(a, r) \/ Born(g, a, r)
  PROVE  Goes(Handles)
<1>1. PICK N : Sound(map, mem, N)
  BY DEF IInv
<1>2. IsMemory(mem)
  BY <1>1 DEF Sound
<1>3. Makes(hs, a, mem, r, M!NoEntries)
  BY <1>2, NewRawMakes
<1>4. PICK o : o = [al |-> a, hasher |-> hs, entries |-> M!NoEntries]
  OBVIOUS
<1>5. CASE Refuse \/ Refused(a, r)
  <2>1. Comes(Shown) /\ status' = NoMem
    BY <1>3, <1>5, RefusedComes, StillComes DEF Refuse
  <2>2. M!Refused /\ Seating(Handles) /\ IInv' /\ Stays(map, mem, map', mem')
    BY <2>1, RefusedIsSeen
  <2>3. M!MapNext
    BY <1>4, <2>2, NewIsNext
  <2>4. QED
    BY <2>2, <2>3 DEF Goes
<1>6. CASE Born(g, a, r)
  <2>1. IInv' /\ Stays(map, mem, map', mem') /\ Shown' = [Shown EXCEPT ![g] = o] /\ Seating(Handles)
    BY <1>3, <1>4, <1>6, BornComes
  <2>2. status' = OK
    BY <1>6 DEF Born
  <2>3. M!MapNext
    BY <1>4, <2>1, <2>2, NewIsNext
  <2>4. QED
    BY <2>1, <2>3 DEF Goes
<1>7. QED
  BY <1>5, <1>6

(* A copy.                                                                 *)
LEMMA CloneGoes ==
  ASSUME IInv, NEW h \in Handles, Alive(h), NEW g \in Handles, ~Alive(g), NEW a \in Als, NEW room, NEW grants,
         NEW r, r = Clone(map[h], a, mem, room, grants),
         Refuse \/ Refused(a, r) \/ Born(g, a, r)
  PROVE  Goes(Handles)
<1>1. PICK N : Sound(map, mem, N)
  BY DEF IInv
<1>2. PICK d, X : d = map[h] /\ X = N[h]
  OBVIOUS
<1>3. MapOK(d, mem, X) /\ IsMemory(mem)
  BY <1>1, <1>2, LiveIsOK
<1>4. PICK hs, e : hs = d.hasher /\ e = EntriesOf(d, mem)
  OBVIOUS
<1>5. Makes(hs, a, mem, r, e)
  BY <1>2, <1>3, <1>4, CloneMakes
<1>6. hs \in Hashers /\ Shown[h].hasher = hs /\ Shown[h].entries = e
      /\ Shown[h] = [al |-> Shown[h].al, hasher |-> Shown[h].hasher, entries |-> Shown[h].entries]
      /\ M!Alive(h) /\ ~M!Alive(g)
  BY <1>2, <1>4, LiveIsShown DEF M!Alive
<1>7. CASE Refuse \/ Refused(a, r)
  <2>1. Comes(Shown) /\ status' = NoMem
    BY <1>5, <1>7, RefusedComes, StillComes DEF Refuse
  <2>2. QED
    BY <2>1, HousekeepingGoes
<1>8. CASE Born(g, a, r)
  <2>1. PICK o : o = [al |-> a, hasher |-> hs, entries |-> e]
    OBVIOUS
  <2>2. IInv' /\ Stays(map, mem, map', mem') /\ Shown' = [Shown EXCEPT ![g] = o] /\ Seating(Handles)
    BY <1>5, <1>6, <1>8, <2>1, BornComes
  <2>3. status' = OK
    BY <1>8 DEF Born
  <2>4. [Shown[h] EXCEPT !.al = a] = o
    BY <1>6, <2>1
  <2>5. M!MapCopyWith(h, g, a)
    BY <1>6, <2>2, <2>3, <2>4 DEF M!MapCopyWith, M!MapNew
  <2>6. M!MapNext
    BY <2>5 DEF M!MapNext
  <2>7. QED
    BY <2>2, <2>6 DEF Goes
<1>9. QED
  BY <1>7, <1>8

(* How a constructor ends.                                                 *)
LEMMA ConstructIs ==
  ASSUME NEW g, NEW a, NEW hdr, NEW r, Construct(g, a, hdr, r)
  PROVE  ~Alive(g) /\ (Refuse \/ Refused(a, r) \/ Born(g, a, r))
  BY DEF Construct, Refused, Born

(* drop.                                                                   *)
LEMMA DropGoes ==
  ASSUME IInv, NEW h \in Handles, Drop(h)
  PROVE  Goes(Handles \ {h})
<1>1. PICK N : Sound(map, mem, N)
  BY DEF IInv
<1>2. PICK d, q : d = map[h] /\ q = ReleasedMem(d, mem)
  OBVIOUS
<1>3. Alive(h) /\ d # Null /\ map' = [map EXCEPT ![h] = Null] /\ mem' = q /\ hdrs' = ReturnHdr(hdrs, d.al) /\ status' = OK
  BY <1>2 DEF Drop, Alive
<1>4. Trade(map, mem, N, h, Null, q, Null)
  BY <1>1, <1>2, <1>3, DropTrades
<1>5. Settled(map, mem, h, Null, q)
  BY DEF Settled
<1>6. PICK o : o = [Shown EXCEPT ![h] = Null]
  OBVIOUS
<1>7. o[h] = Null /\ \A g \in Handles : g # h => o[g] = Shown[g]
  BY <1>6 DEF Shown
<1>8. Shown[h] # Null /\ Shown[h].al = d.al /\ d.al \in Als
  BY <1>2, <1>3, LiveIsShown
<1>9. Counted(o, ReturnHdr(hdrs, d.al))
  BY <1>7, <1>8, HdrGoes DEF IInv
<1>10. Counted(o, hdrs') /\ status' \in {OK, NoMem}
  BY <1>3, <1>9
<1>11. Comes(o)
  BY <1>1, <1>3, <1>4, <1>5, <1>6, <1>10, TradeComes
<1>12. Shown' = o
  BY <1>11 DEF Comes
<1>13. M!MapDrop(h)
  BY <1>3, <1>6, <1>8, <1>12 DEF M!MapDrop, M!Alive
<1>14. M!MapNext
  BY <1>13 DEF M!MapNext
<1>15. Seating(Handles \ {h})
  BY <1>7, <1>12 DEF Seating
<1>16. QED
  BY <1>11, <1>14, <1>15 DEF Goes, Comes

(* A trade that leaves h with another map's entries is settled.            *)
LEMMA CopySettles ==
  ASSUME NEW p, NEW m, NEW N, NEW h \in Handles, NEW g \in Handles, h # g, p[h] # Null,
         NEW c, c # Null, NEW q, NEW f, Trade(p, m, N, g, c, q, f), f.entries = EntriesOf(p[h], m)
  PROVE  Settled(p, m, g, c, q)
<1>1. Seen(c, q) = f
  BY DEF Trade
<1>2. EntriesOf(c, q) = f.entries
  BY <1>1 DEF Seen
<1>3. QED
  BY <1>2 DEF Settled

(* A clone that was refused.                                               *)
LEMMA CloneRefusedGoes ==
  ASSUME IInv, NEW h \in Handles, Alive(h), NEW hs, NEW a, NEW r, NEW e, Makes(hs, a, mem, r, e), CloneRefused(r)
  PROVE  Goes(Handles)
<1>1. mem' = mem /\ UNCHANGED <<map, hdrs>> /\ status' \in {OK, NoMem}
  BY ConstantsAre DEF CloneRefused, Makes
<1>2. Comes(Shown)
  BY <1>1, StillComes
<1>3. QED
  BY <1>1, <1>2, HousekeepingGoes

(* copy_assign.                                                            *)
LEMMA CopyAssignGoes ==
  ASSUME IInv, NEW h \in Handles, NEW g \in Handles, NEW hdr, NEW room, NEW grants,
         CopyAssign(h, g, hdr, room, grants)
  PROVE  Goes(Handles)
<1>1. PICK N : Sound(map, mem, N)
  BY DEF IInv
<1>2. Alive(h) /\ Alive(g)
  BY DEF CopyAssign
<1>3. PICK d, b, X, r : d = map[h] /\ b = map[g] /\ X = N[h] /\ r = Clone(d, b.al, mem, room, grants)
  OBVIOUS
<1>4. MapOK(d, mem, X) /\ IsMemory(mem) /\ d # Null /\ b # Null /\ b.al \in Als /\ d.hasher \in Hashers
  BY <1>1, <1>2, <1>3, LiveIsOK, MapIs
<1>5. PICK hs, e : hs = d.hasher /\ e = EntriesOf(d, mem)
  OBVIOUS
<1>6. Makes(hs, b.al, mem, r, e)
  BY <1>3, <1>4, <1>5, CloneMakes
<1>7. CASE Nothing \/ Refuse
  <2>1. Comes(Shown) /\ status' \in {OK, NoMem}
    BY <1>7, StillComes DEF Nothing, Refuse
  <2>2. QED
    BY <1>2, <2>1, HousekeepingGoes
<1>8. CASE CloneRefused(r)
  BY <1>2, <1>6, <1>8, CloneRefusedGoes
<1>9. CASE h # g /\ TakesPlaceOf(g, r)
  <2>1. PICK c, q, f : c = r.d /\ q = ReleasedMem(b, r.m) /\ f = [al |-> b.al, hasher |-> hs, entries |-> e]
    OBVIOUS
  <2>2. /\ r.st = OK /\ map' = [map EXCEPT ![g] = c] /\ mem' = q /\ hdrs' = hdrs
        /\ status' = OK /\ status' \in {OK, NoMem}
    BY <1>3, <1>9, <2>1 DEF TakesPlaceOf
  <2>3. hs \in Hashers
    BY <1>4, <1>5
  <2>4. Trade(map, mem, N, g, c, q, f) /\ c # Null
    BY <1>1, <1>3, <1>4, <1>6, <2>1, <2>2, <2>3, ReplaceTrades
  <2>5. f # Null
    BY <2>4, TradedIsSeen
  <2>6. f.entries = EntriesOf(map[h], mem) /\ map[h] # Null
    BY <1>3, <1>4, <1>5, <2>1
  <2>7. Settled(map, mem, g, c, q)
    BY <1>9, <2>4, <2>6, CopySettles
  <2>8. PICK o : o = [Shown EXCEPT ![g] = f]
    OBVIOUS
  <2>9. /\ Shown[h].hasher = hs /\ Shown[h].entries = e /\ Shown[g].al = b.al /\ Shown[g] # Null
        /\ Shown[h] = [al |-> Shown[h].al, hasher |-> Shown[h].hasher, entries |-> Shown[h].entries]
    BY <1>2, <1>3, <1>5, LiveIsShown
  <2>10. o[g] = f /\ \A k \in Handles : k # g => o[k] = Shown[k]
    BY <2>8 DEF Shown
  <2>11. Seated(Shown, o)
    BY <2>1, <2>5, <2>9, <2>10 DEF Seated
  <2>12. Counted(o, hdrs')
    BY <2>2, <2>11, HdrsStay DEF IInv
  <2>13. Comes(o)
    BY <1>1, <2>2, <2>4, <2>7, <2>8, <2>12, TradeComes
  <2>14. Shown' = o
    BY <2>13 DEF Comes
  <2>15. [Shown[h] EXCEPT !.al = Shown[g].al] = f
    BY <2>1, <2>9
  <2>16. M!Alive(h) /\ M!Alive(g)
    BY <1>2, LiveIsShown DEF M!Alive
  <2>17. M!MapCopyAssign(h, g)
    BY <2>2, <2>8, <2>14, <2>15, <2>16 DEF M!MapCopyAssign
  <2>18. M!MapNext
    BY <2>17 DEF M!MapNext
  <2>19. Seating(Handles)
    BY <2>11, <2>14 DEF Seated, Seating
  <2>20. QED
    BY <2>13, <2>18, <2>19 DEF Goes, Comes
<1>10. QED
  BY <1>3, <1>7, <1>8, <1>9 DEF CopyAssign, Replace

(* Two live maps that are seen as o, and counted.                          *)
LEMMA PairComes ==
  ASSUME IInv, NEW o, Leads(map, mem, map', mem', o), Seated(Shown, o), hdrs' = hdrs, status' = OK,
         o = Shown' => M!MapNext
  PROVE  Goes(Handles)
<1>1. Counted(o, hdrs')
  BY HdrsStay DEF IInv
<1>2. Comes(o)
  BY <1>1, LeadsComes
<1>3. Shown' = o
  BY <1>2 DEF Comes
<1>4. Seating(Handles)
  BY <1>3 DEF Seated, Seating
<1>5. QED
  BY <1>2, <1>3, <1>4 DEF Comes, Goes

(* swap.                                                                   *)
LEMMA SwapGoes ==
  ASSUME IInv, NEW h \in Handles, NEW g \in Handles, Swap(h, g)
  PROVE  Goes(Handles)
<1>1. PICK N : Sound(map, mem, N)
  BY DEF IInv
<1>2. Alive(h) /\ Alive(g) /\ map[h].al = map[g].al /\ mem' = mem /\ hdrs' = hdrs /\ status' = OK
  BY DEF Swap
<1>3. map[h] # Null /\ map[g] # Null
  BY <1>2 DEF Alive
<1>4. PICK u : u = map'
  OBVIOUS
<1>5. Crossed(map, g, h, u)
  BY <1>4 DEF Swap, Crossed
<1>6. LeadsAcross(map, mem, u, mem, h, g)
  BY <1>1, <1>3, <1>5, CrossingLeads
<1>7. PICK o : Crossed(Shown, g, h, o) /\ Leads(map, mem, u, mem, o)
  BY <1>6, ShownIs DEF LeadsAcross
<1>8. Leads(map, mem, map', mem', o)
  BY <1>2, <1>4, <1>7
<1>9. Shown[h] # Null /\ Shown[g] # Null /\ Shown[h].al = Shown[g].al
  BY <1>2, LiveIsShown
<1>10. o = [Shown EXCEPT ![h] = Shown[g], ![g] = Shown[h]]
  BY <1>7 DEF Crossed
<1>11. Shown = [k \in Handles |-> Shown[k]]
  BY DEF Shown
<1>12. Seated(Shown, o)
  BY <1>9, <1>10, <1>11 DEF Seated
<1>13. o = Shown' => M!MapSwap(h, g)
  BY <1>2, <1>9, <1>10 DEF M!MapSwap, M!Alive
<1>14. o = Shown' => M!MapNext
  BY <1>13 DEF M!MapNext
<1>15. QED
  BY <1>2, <1>8, <1>12, <1>14, PairComes

(* What of a move the allocators have in common.                           *)
MoveSeen(h, g, o) ==
  \E hs \in {Shown[h].hasher, Shown[g].hasher} :
    o = [Shown EXCEPT ![g] = [Shown[h] EXCEPT !.al = Shown[g].al],
                      ![h] = [al |-> Shown[h].al, hasher |-> hs, entries |-> M!NoEntries]]

(* What is left of the source, and what the target gets, is there.         *)
LEMMA ObjectsMove ==
  ASSUME NEW x \in Objects, NEW y \in Objects, NEW hs \in Hashers
  PROVE  /\ [x EXCEPT !.al = y.al] # Null
         /\ [al |-> x.al, hasher |-> hs, entries |-> M!NoEntries] # Null
<1>1. x.al \in Als /\ y.al \in Als
  BY DEF Objects
<1>2. [x EXCEPT !.al = y.al] \in Objects
  BY <1>1 DEF Objects
<1>3. M!NoEntries \in [{} -> Vals]
  BY DEF M!NoEntries
<1>4. {} \in SUBSET Keys
  OBVIOUS
<1>5. M!NoEntries \in UNION {[S -> Vals] : S \in SUBSET Keys}
  BY <1>3, <1>4
<1>6. [al |-> x.al, hasher |-> hs, entries |-> M!NoEntries] \in Objects
  BY <1>1, <1>5 DEF Objects
<1>7. QED
  BY <1>2, <1>6, HMapNullAssumption

(* A move of one object to another.                                        *)
LEMMA MoveGoes ==
  ASSUME IInv, NEW h \in Handles, NEW g \in Handles, h # g, Alive(h), Alive(g),
         NEW o, Leads(map, mem, map', mem', o), MoveSeen(h, g, o), hdrs' = hdrs, status' = OK
  PROVE  Goes(Handles)
<1>1. PICK hs \in {Shown[h].hasher, Shown[g].hasher} :
        o = [Shown EXCEPT ![g] = [Shown[h] EXCEPT !.al = Shown[g].al],
                          ![h] = [al |-> Shown[h].al, hasher |-> hs, entries |-> M!NoEntries]]
  BY DEF MoveSeen
<1>2. /\ Shown[h] # Null /\ Shown[g] # Null /\ Shown[h] \in Objects /\ Shown[g] \in Objects
      /\ Shown[h] = [al |-> Shown[h].al, hasher |-> Shown[h].hasher, entries |-> Shown[h].entries]
  BY LiveIsShown
<1>3. hs \in Hashers
  BY <1>1, <1>2 DEF Objects
<1>4. PICK v, w : /\ v = [Shown[h] EXCEPT !.al = Shown[g].al]
                  /\ w = [al |-> Shown[h].al, hasher |-> hs, entries |-> M!NoEntries]
  OBVIOUS
<1>5. v # Null /\ w # Null
  BY <1>2, <1>3, <1>4, ObjectsMove
<1>6. Shown = [k \in Handles |-> Shown[k]]
  BY DEF Shown
<1>7. o[g] = v /\ o[h] = w /\ \A k \in Handles : k # g /\ k # h => o[k] = Shown[k]
  BY <1>1, <1>4, <1>6
<1>8. v.al = Shown[g].al /\ w.al = Shown[h].al
  BY <1>2, <1>4
<1>9. Seated(Shown, o)
  BY <1>2, <1>5, <1>7, <1>8 DEF Seated
<1>10. o = Shown' => M!MapMoveAssign(h, g)
  BY <1>1, <1>2 DEF M!MapMoveAssign, M!Alive
<1>11. o = Shown' => M!MapNext
  BY <1>10 DEF M!MapNext
<1>12. QED
  BY <1>9, <1>11, PairComes

(* A move between objects of one allocator.                                *)
LEMMA HandOverGoes ==
  ASSUME IInv, NEW h \in Handles, NEW g \in Handles, h # g, Alive(h), Alive(g), map[h].al = map[g].al, HandOver(h, g)
  PROVE  Goes(Handles)
<1>1. PICK N : Sound(map, mem, N)
  BY DEF IInv
<1>2. PICK u, q : u = map' /\ q = mem'
  OBVIOUS
<1>3. /\ u = [map EXCEPT ![g] = map[h], ![h] = Released(map[g])] /\ q = ReleasedMem(map[g], mem)
      /\ hdrs' = hdrs /\ status' = OK
  BY <1>2 DEF HandOver
<1>4. map[h] # Null /\ map[g] # Null
  BY DEF Alive
<1>5. LeadsOver(map, mem, u, q, h, g)
  BY <1>1, <1>3, <1>4, HandOverLeads
<1>6. PICK o : HandedOver(Shown, h, g, o) /\ Leads(map, mem, u, q, o)
  BY <1>5, ShownIs DEF LeadsOver
<1>7. /\ Shown[h].al = Shown[g].al
      /\ Shown[h] = [al |-> Shown[h].al, hasher |-> Shown[h].hasher, entries |-> Shown[h].entries]
  BY LiveIsShown
<1>8. [Shown[h] EXCEPT !.al = Shown[g].al] = Shown[h]
  BY <1>7
<1>9. MoveSeen(h, g, o)
  BY <1>6, <1>7, <1>8 DEF HandedOver, MoveSeen
<1>10. Leads(map, mem, map', mem', o)
  BY <1>2, <1>6
<1>11. QED
  BY <1>3, <1>9, <1>10, MoveGoes

(* A move between objects of two allocators.                               *)
LEMMA CopyOverGoes ==
  ASSUME IInv, NEW h \in Handles, NEW g \in Handles, h # g, Alive(h), Alive(g),
         NEW r, NEW hs, hs = map[h].hasher, NEW e, e = EntriesOf(map[h], mem),
         Makes(hs, map[g].al, mem, r, e), TakesPlaceAndEmpties(h, g, r)
  PROVE  Goes(Handles)
<1>1. PICK N : Sound(map, mem, N)
  BY DEF IInv
<1>2. PICK u, q, c, z, b, f : /\ u = map' /\ q = mem' /\ c = r.d /\ b = map[g] /\ z = ReleasedMem(b, r.m)
                              /\ f = [al |-> b.al, hasher |-> hs, entries |-> e]
  OBVIOUS
<1>3. /\ u = [map EXCEPT ![g] = c, ![h] = Released(map[h])] /\ q = ReleasedMem(map[h], z)
      /\ hdrs' = hdrs /\ status' = OK /\ r.st = OK
  BY <1>2 DEF TakesPlaceAndEmpties
<1>4. map[h] # Null /\ map[g] # Null /\ b # Null
  BY <1>2 DEF Alive
<1>5. hs \in Hashers
  BY LiveIsShown
<1>6. Trade(map, mem, N, g, c, z, f) /\ c # Null
  BY <1>1, <1>2, <1>3, <1>4, <1>5, ReplaceTrades
<1>7. f = [al |-> map[g].al, hasher |-> map[h].hasher, entries |-> EntriesOf(map[h], mem)]
  BY <1>2
<1>8. LeadsCopied(map, mem, u, q, h, g)
  BY <1>1, <1>3, <1>4, <1>6, <1>7, CopyAndEmptyLeads
<1>9. PICK o : CopiedOver(Shown, h, g, o) /\ Leads(map, mem, u, q, o)
  BY <1>8, ShownIs DEF LeadsCopied
<1>10. Shown[h] = [al |-> Shown[h].al, hasher |-> Shown[h].hasher, entries |-> Shown[h].entries]
  BY LiveIsShown
<1>11. [Shown[h] EXCEPT !.al = Shown[g].al] = [al |-> Shown[g].al, hasher |-> Shown[h].hasher, entries |-> Shown[h].entries]
  BY <1>10
<1>12. MoveSeen(h, g, o)
  BY <1>9, <1>11 DEF CopiedOver, MoveSeen
<1>13. Leads(map, mem, map', mem', o)
  BY <1>2, <1>9
<1>14. QED
  BY <1>3, <1>12, <1>13, MoveGoes

(* move_assign.                                                            *)
LEMMA MoveAssignGoes ==
  ASSUME IInv, NEW h \in Handles, NEW g \in Handles, NEW hdr, NEW room, NEW grants,
         MoveAssign(h, g, hdr, room, grants)
  PROVE  Goes(Handles)
<1>1. PICK N : Sound(map, mem, N)
  BY DEF IInv
<1>2. Alive(h) /\ Alive(g)
  BY DEF MoveAssign
<1>3. PICK d, a, X, r : d = map[h] /\ a = map[g].al /\ X = N[h] /\ r = Clone(d, a, mem, room, grants)
  OBVIOUS
<1>4. MapOK(d, mem, X) /\ IsMemory(mem) /\ a \in Als
  BY <1>1, <1>2, <1>3, LiveIsOK, MapIs
<1>5. PICK hs, e : hs = d.hasher /\ e = EntriesOf(d, mem)
  OBVIOUS
<1>6. Makes(hs, a, mem, r, e)
  BY <1>3, <1>4, <1>5, CloneMakes
<1>7. CASE Nothing \/ Refuse
  <2>1. Comes(Shown) /\ status' \in {OK, NoMem}
    BY <1>7, StillComes DEF Nothing, Refuse
  <2>2. QED
    BY <1>2, <2>1, HousekeepingGoes
<1>8. CASE h # g /\ map[h].al = map[g].al /\ HandOver(h, g)
  BY <1>2, <1>8, HandOverGoes
<1>9. CASE CloneRefused(r)
  BY <1>2, <1>6, <1>9, CloneRefusedGoes
<1>10. CASE map[h].al # map[g].al /\ TakesPlaceAndEmpties(h, g, r)
  <2>1. h # g
    BY <1>10
  <2>2. hs = map[h].hasher /\ e = EntriesOf(map[h], mem) /\ Makes(hs, map[g].al, mem, r, e)
    BY <1>3, <1>5, <1>6
  <2>3. QED
    BY <1>2, <1>10, <2>1, <2>2, CopyOverGoes
<1>11. QED
  BY <1>3, <1>7, <1>8, <1>9, <1>10 DEF MoveAssign, ReplaceAndEmpty

-----------------------------------------------------------------------------
(* The program.                                                            *)

(* A constructor.                                                          *)
LEMMA NewCapGoes ==
  ASSUME IInv, NEW h \in Handles, NEW cap \in Nat, NEW hs \in Hashers, NEW a \in Als, NEW hdr, NEW room,
         NewCap(h, cap, hs, a, hdr, room)
  PROVE  Goes(Handles)
<1>1. PICK r : r = NewRaw(cap, hs, a, mem, room)
  OBVIOUS
<1>2. Construct(h, a, hdr, r)
  BY <1>1 DEF NewCap
<1>3. ~Alive(h) /\ (Refuse \/ Refused(a, r) \/ Born(h, a, r))
  BY <1>2, ConstructIs
<1>4. QED
  BY <1>1, <1>3, NewRawGoes

(* copy and copy_with.                                                     *)
LEMMA CopyWithGoes ==
  ASSUME IInv, NEW h \in Handles, NEW g \in Handles, NEW a \in Als, NEW hdr, NEW room, NEW grants,
         CopyWith(h, g, a, hdr, room, grants)
  PROVE  Goes(Handles)
<1>1. PICK r : r = Clone(map[h], a, mem, room, grants)
  OBVIOUS
<1>2. Alive(h) /\ Construct(g, a, hdr, r)
  BY <1>1 DEF CopyWith
<1>3. ~Alive(g) /\ (Refuse \/ Refused(a, r) \/ Born(g, a, r))
  BY <1>2, ConstructIs
<1>4. QED
  BY <1>1, <1>2, <1>3, CloneGoes

(* A call with what its allocator answers.                                 *)
LEMMA GrowStepGoes ==
  ASSUME IInv, NEW h \in Handles, NEW room, GrowStep(h, room)
  PROVE  Goes(Handles)
<1>1. CASE \E a \in Als, hs \in Hashers, cap \in Caps : NewCap(h, cap, hs, a, TRUE, room)
  <2>1. \A cap \in Caps : cap \in Nat
    BY ConstantsAre
  <2>2. QED
    BY <1>1, <2>1, NewCapGoes
<1>2. CASE \E key \in Keys, val \in Vals, granted \in BOOLEAN :
             Insert(h, key, val, room, granted) \/ GetOrInsert(h, key, val, room, granted)
  BY <1>2, InsertGoes, GetOrInsertGoes
<1>3. CASE \E cap \in Caps : ReserveCap(h, cap, room)
  BY <1>3, ReserveCapGoes
<1>4. CASE ShrinkToFit(h, room)
  BY <1>4, ShrinkToFitGoes
<1>5. QED
  BY <1>1, <1>2, <1>3, <1>4 DEF GrowStep

(* One with another object.                                                *)
LEMMA PairStepGoes ==
  ASSUME IInv, NEW h \in Handles, NEW g \in Handles, NEW ans, PairStep(h, g, ans)
  PROVE  Goes(Handles)
<1>1. CASE \E a \in Als : CopyWith(h, g, a, ans[1], ans[2], ans[3])
  BY <1>1, CopyWithGoes
<1>2. CASE CopyAssign(h, g, ans[1], ans[2], ans[3])
  BY <1>2, CopyAssignGoes
<1>3. CASE MoveAssign(h, g, ans[1], ans[2], ans[3])
  BY <1>3, MoveAssignGoes
<1>4. QED
  BY <1>1, <1>2, <1>3 DEF PairStep

(* One that asks no allocator for anything it gets.                        *)
LEMMA PlainStepGoes ==
  ASSUME IInv, NEW h \in Handles, PlainStep(h)
  PROVE  Goes(Handles \ {h})
<1>1. Goes(Handles) => Goes(Handles \ {h})
  BY DEF Goes, Seating
<1>2. CASE \E a \in Als, hs \in Hashers : NewCap(h, 0, hs, a, FALSE, 0)
  BY <1>1, <1>2, NewCapGoes
<1>3. CASE Drop(h)
  BY <1>3, DropGoes
<1>4. CASE \E g \in Handles : Swap(h, g)
  BY <1>1, <1>4, SwapGoes
<1>5. CASE \E key \in Keys : Remove(h, key) \/ \E val \in Vals : WriteVal(h, key, val)
  BY <1>1, <1>5, RemoveGoes, WriteValGoes
<1>6. CASE Clear(h)
  BY <1>1, <1>6, ClearGoes
<1>7. QED
  BY <1>2, <1>3, <1>4, <1>5, <1>6 DEF PlainStep

(* Every step of the program.                                              *)
LEMMA NextGoes ==
  ASSUME IInv, Next
  PROVE  IInv' /\ Stays(map, mem, map', mem') /\ M!MapNext
<1>1. PICK h \in Handles :
        \/ PlainStep(h)
        \/ \E room \in Rooms : GrowStep(h, room)
        \/ \E g \in Handles, ans \in Answers(h) : PairStep(h, g, ans)
  BY DEF Next
<1>2. CASE PlainStep(h)
  BY <1>2, PlainStepGoes DEF Goes
<1>3. CASE \E room \in Rooms : GrowStep(h, room)
  BY <1>3, GrowStepGoes DEF Goes
<1>4. CASE \E g \in Handles, ans \in Answers(h) : PairStep(h, g, ans)
  BY <1>4, PairStepGoes DEF Goes
<1>5. QED
  BY <1>1, <1>2, <1>3, <1>4

(* Nothing is there in the beginning.                                      *)
LEMMA InitIsSound == Init => IInv /\ M!MapInit
<1>1. SUFFICES ASSUME Init
      PROVE  IInv /\ M!MapInit
  OBVIOUS
<1>2. map = [h \in Handles |-> Null] /\ mem = [x \in Addrs |-> Null] /\ hdrs = [a \in Als |-> 0] /\ status = OK
  BY <1>1 DEF Init
<1>3. PICK N : N = [h \in Handles |-> {}]
  OBVIOUS
<1>4. \A h \in Handles : map[h] = Null /\ N[h] = {} /\ FitsIn(map[h], mem, N[h]) /\ Foot(map[h], N[h]) = {}
  BY <1>2, <1>3 DEF FitsIn, Foot
<1>5. map \in [Handles -> Maps \cup {Null}] /\ N \in [Handles -> SUBSET Nodes]
  BY <1>2, <1>3
<1>6. IsMemory(mem) /\ \A a \in Addrs : mem[a] = Null
  BY <1>2 DEF IsMemory
<1>7. Sound(map, mem, N)
  BY <1>4, <1>5, <1>6 DEF Sound
<1>8. Shown = [h \in Handles |-> Null]
  BY <1>4 DEF Shown, Alive
<1>9. Counted(Shown, hdrs)
  <2>1. hdrs \in [Als -> Nat]
    BY <1>2
  <2>2. \A a \in Als : hdrs[a] = 0 /\ On(Shown, a) = {}
    BY <1>2, <1>8 DEF On
  <2>3. QED
    BY <2>1, <2>2, FS_EmptySet DEF Counted
<1>10. QED
  BY <1>2, <1>7, <1>8, <1>9 DEF IInv, M!MapInit

(* A step that writes nothing.                                             *)
LEMMA StutterIsSound ==
  ASSUME IInv, UNCHANGED vars
  PROVE  IInv' /\ Shown' = Shown /\ status' = status
<1>1. map' = map /\ mem' = mem /\ hdrs' = hdrs /\ status' = status
  BY DEF vars
<1>2. Comes(Shown)
  BY <1>1, StillComes DEF IInv
<1>3. QED
  BY <1>1, <1>2 DEF Comes

(* The maps of every program of maps are sound, each on blocks of its own, *)
(* nothing else is lent, and every map has its header.                     *)
THEOREM MapsAreSound == Spec => []IInv
<1>1. Init => IInv
  BY InitIsSound
<1>2. IInv /\ [Next]_vars => IInv'
  BY NextGoes, StutterIsSound
<1>3. QED
  BY <1>1, <1>2, PTL DEF Spec

(* Maps implement MapStore: each call does to the entries what its header  *)
(* says, to no other object anything, and a refused call nothing.          *)
THEOREM MapsImplementMapStore == Spec => ImplementsMapStore
<1>1. Init => M!MapInit
  BY InitIsSound
<1>2. IInv /\ [Next]_vars => [M!MapNext]_(M!mVars)
  BY NextGoes, StutterIsSound DEF M!mVars
<1>3. QED
  BY <1>1, <1>2, MapsAreSound, PTL DEF Spec, ImplementsMapStore, M!MapSpec

(* The body of EntriesStay, for one map.                                   *)
EntryStays(h) ==
  Alive(h) /\ map'[h] # Null =>
    \/ \E g \in Handles : g # h /\ Alive(g) /\ Entries(h)' = Entries(g)
    \/ \A key \in Keys :
         LET x == FindNode(map[h], mem, key)
             y == FindNode(map'[h], mem', key)
         IN  x # Null /\ y # Null => x = y

(* It holds of every step.                                                 *)
LEMMA StepKeepsEntries ==
  ASSUME IInv, Next, NEW h \in Handles
  PROVE  EntryStays(h)
<1>1. Stays(map, mem, map', mem')
  BY NextGoes
<1>2. \A g \in Handles : Entries(g) = EntriesOf(map[g], mem) /\ Entries(g)' = EntriesOf(map'[g], mem')
  BY DEF Entries, EntriesOf
<1>3. SUFFICES ASSUME map[h] # Null, map'[h] # Null, ~NodesStay(map[h], mem, map'[h], mem')
      PROVE  \E g \in Handles : g # h /\ Alive(g) /\ Entries(h)' = Entries(g)
  BY DEF EntryStays, NodesStay, Alive
<1>4. QED
  BY <1>1, <1>2, <1>3 DEF Stays, Alive

(* An entry stays in its node, whatever the buckets do and whatever else   *)
(* is removed, unless its map comes to have another one's entries.         *)
THEOREM EntriesAlwaysStay == Spec => EntriesStay
<1>1. IInv /\ [Next]_vars =>
        [\A h \in Handles : Alive(h) /\ map'[h] # Null =>
           \/ \E g \in Handles : g # h /\ Alive(g) /\ Entries(h)' = Entries(g)
           \/ \A key \in Keys :
                LET x == FindNode(map[h], mem, key)
                    y == FindNode(map'[h], mem', key)
                IN  x # Null /\ y # Null => x = y]_vars
  <2>1. SUFFICES ASSUME IInv, Next
        PROVE  \A h \in Handles : EntryStays(h)
    BY DEF EntryStays
  <2>2. QED
    BY <2>1, StepKeepsEntries
<1>2. QED
  BY <1>1, MapsAreSound, PTL DEF Spec, EntriesStay

-----------------------------------------------------------------------------
(* What the links of a program's maps lead to.                             *)

(* A bucket leads to the nodes that belong in it, and its chain ends.      *)
LEMMA BucketLeads ==
  ASSUME NEW N, Sound(map, mem, N), NEW h \in Handles, Alive(h), NEW i \in Slots(h)
  PROVE  /\ NodesIn(h, i) = InBucket(mem, map[h].count, N[h], i)
         /\ ChainIn(h, i) # <<>> => mem[SE!Last(ChainIn(h, i))].next = Null
<1>1. PICK d, X : d = map[h] /\ X = N[h]
  OBVIOUS
<1>2. MapOK(d, mem, X)
  BY <1>1, LiveIsOK
<1>3. d.count # 0 /\ i \in 0 .. d.count - 1
  BY <1>1 DEF Slots
<1>4. Chained(mem, mem[d.buckets].slots[i], InBucket(mem, d.count, X, i))
  BY <1>2, <1>3 DEF MapOK, Filed
<1>5. PICK l, s : Strung(mem, mem[d.buckets].slots[i], l, s) /\ Along(l, s) = InBucket(mem, d.count, X, i)
  BY <1>4 DEF Chained
<1>6. ChainIn(h, i) = s
  BY <1>1, <1>5, ChainIs DEF ChainIn
<1>7. l \in Nat /\ s \in [1 .. l -> Nodes] /\ DOMAIN s = 1 .. l
  BY <1>5 DEF Strung
<1>8. s \in Seq(Nodes) /\ Len(s) = l
  BY <1>7
<1>9. NodesIn(h, i) = Along(l, s)
  BY <1>6, <1>7 DEF NodesIn, SE!ToSet, Along
<1>10. ASSUME s # <<>>
       PROVE  mem[SE!Last(s)].next = Null
  <2>1. l # 0
    BY <1>8, <1>10
  <2>2. l \in 1 .. l
    BY <1>7, <2>1
  <2>3. mem[s[l]].next = Null
    BY <1>5, <2>2 DEF Strung
  <2>4. SE!Last(s) = s[l]
    BY <1>8 DEF SE!Last
  <2>5. QED
    BY <2>3, <2>4
<1>11. QED
  BY <1>1, <1>5, <1>6, <1>9, <1>10

(* All of them lead to all nodes of the map.                               *)
LEMMA NodesAre ==
  ASSUME NEW N, Sound(map, mem, N), NEW h \in Handles, Alive(h)
  PROVE  NodesOf(h) = N[h]
<1>1. PICK d, X : d = map[h] /\ X = N[h]
  OBVIOUS
<1>2. MapOK(d, mem, X)
  BY <1>1, LiveIsOK
<1>3. \A i \in Slots(h) : NodesIn(h, i) = InBucket(mem, d.count, X, i)
  BY <1>1, BucketLeads
<1>4. ASSUME NEW x \in NodesOf(h)
      PROVE  x \in X
  BY <1>3, <1>4 DEF NodesOf, InBucket
<1>5. ASSUME NEW x \in X
      PROVE  x \in NodesOf(h)
  <2>1. d.count # 0
    BY <1>2, <1>5, NodesAreInBuckets
  <2>2. d \in Maps /\ mem[x] \in MapNodes
    BY <1>2, <1>5 DEF MapOK, EntryOK
  <2>3. d.count \in Nat /\ mem[x].hash \in Nat
    BY <2>2, MapIs, NodeIs
  <2>4. d.count # 0 /\ BucketOf(d.count, mem[x].hash) \in 0 .. d.count - 1
    BY <2>1, <2>3, BucketIs
  <2>5. PICK i \in Slots(h) : i = BucketOf(d.count, mem[x].hash)
    BY <1>1, <2>4 DEF Slots
  <2>6. x \in NodesIn(h, i)
    BY <1>3, <2>5 DEF InBucket
  <2>7. QED
    BY <2>6 DEF NodesOf
<1>6. QED
  BY <1>1, <1>4, <1>5

(* What is lent is what it was lent as.                                    *)
LEMMA BlocksAreTyped ==
  ASSUME NEW N, Sound(map, mem, N)
  PROVE  /\ \A x \in Nodes : mem[x] \in MapNodes \cup {Null}
         /\ \A b \in Arrays : mem[b] = Null \/ \E n \in Pow2s : mem[b] \in BucketArray(n)
<1>1. ASSUME NEW a \in Addrs, mem[a] # Null
      PROVE  (a \in Nodes /\ mem[a] \in MapNodes) \/ (a \in Arrays /\ \E n \in Pow2s : mem[a] \in BucketArray(n))
  <2>1. PICK h \in Handles : a \in Foot(map[h], N[h])
    BY <1>1 DEF Sound
  <2>2. PICK d, X : d = map[h] /\ X = N[h]
    OBVIOUS
  <2>3. d # Null /\ (a \in X \/ (a = d.buckets /\ a # Null))
    BY <2>1, <2>2 DEF Foot
  <2>4. MapOK(d, mem, X)
    BY <2>2, <2>3 DEF Sound, FitsIn
  <2>5. CASE a \in X
    <3>1. X \subseteq Nodes /\ mem[a] \in MapNodes
      BY <2>4, <2>5 DEF MapOK, EntryOK
    <3>2. QED
      BY <2>5, <3>1
  <2>6. CASE a = d.buckets /\ a # Null
    <3>1. d.count # 0 /\ d.count \in Pow2s
      BY <2>4, <2>6 DEF MapOK
    <3>2. ArrayOK(d, mem, d.count, d.buckets)
      BY <2>4, <3>1 DEF MapOK
    <3>3. d.buckets \in Arrays /\ mem[d.buckets] \in BucketArray(d.count)
      BY <3>2 DEF ArrayOK
    <3>4. QED
      BY <2>6, <3>1, <3>3
  <2>7. QED
    BY <2>3, <2>5, <2>6
<1>2. Arrays \cap Nodes = {}
  BY ConstantsAre
<1>3. QED
  BY <1>1, <1>2 DEF Addrs

(* The types.                                                              *)
LEMMA ProgramIsTyped ==
  ASSUME IInv
  PROVE  TypeOK
<1>1. PICK N : Sound(map, mem, N)
  BY DEF IInv
<1>2. \A h \in Handles : Alive(h) => map[h].count \in Pow2s \cup {0}
  BY <1>1, LiveIsOK DEF MapOK
<1>3. map \in [Handles -> Maps \cup {Null}]
  BY <1>1 DEF Sound
<1>4. DOMAIN mem = Addrs
  BY <1>1 DEF Sound, IsMemory
<1>5. hdrs \in [Als -> Nat] /\ status \in {OK, NoMem}
  BY DEF IInv, Counted
<1>6. QED
  BY <1>1, <1>2, <1>3, <1>4, <1>5, BlocksAreTyped DEF TypeOK

(* Chains are sound: each node is in the bucket its key's hash chooses,    *)
(* once and with no other node of its key, every chain ends, and len is    *)
(* how many nodes there are, no more than buckets.                         *)
THEOREM ChainsAlwaysSound == Spec => []ChainsSound
<1>1. ASSUME IInv
      PROVE  ChainsSound
  <2>1. PICK N : Sound(map, mem, N)
    BY <1>1 DEF IInv
  <2>2. ASSUME NEW h \in Handles, Alive(h)
        PROVE  /\ \A i \in Slots(h) :
                    /\ ChainIn(h, i) # <<>> => mem[SE!Last(ChainIn(h, i))].next = Null
                    /\ \A x \in NodesIn(h, i) : /\ mem[x].hash = map[h].hasher[mem[x].key]
                                                /\ BucketOf(map[h].count, mem[x].hash) = i
               /\ \A x, y \in NodesOf(h) : mem[x].key = mem[y].key => x = y
               /\ map[h].len = Cardinality(NodesOf(h)) /\ map[h].len <= map[h].count
    <3>1. PICK d, X : d = map[h] /\ X = N[h]
      OBVIOUS
    <3>2. MapOK(d, mem, X)
      BY <2>1, <2>2, <3>1, LiveIsOK
    <3>3. NodesOf(h) = X
      BY <2>1, <2>2, <3>1, NodesAre
    <3>4. ASSUME NEW i \in Slots(h)
          PROVE  /\ ChainIn(h, i) # <<>> => mem[SE!Last(ChainIn(h, i))].next = Null
                 /\ \A x \in NodesIn(h, i) : mem[x].hash = d.hasher[mem[x].key] /\ BucketOf(d.count, mem[x].hash) = i
      <4>1. NodesIn(h, i) = InBucket(mem, d.count, X, i)
        BY <2>1, <2>2, <3>1, BucketLeads
      <4>2. ChainIn(h, i) # <<>> => mem[SE!Last(ChainIn(h, i))].next = Null
        BY <2>1, <2>2, BucketLeads
      <4>3. \A x \in X : mem[x].hash = d.hasher[mem[x].key]
        BY <3>2 DEF MapOK, EntryOK
      <4>4. QED
        BY <4>1, <4>2, <4>3 DEF InBucket
    <3>5. (\A x, y \in X : mem[x].key = mem[y].key => x = y) /\ d.len = Cardinality(X) /\ d.len <= d.count
      BY <3>2 DEF MapOK
    <3>6. QED
      BY <3>1, <3>3, <3>4, <3>5
  <2>3. TypeOK
    BY <1>1, ProgramIsTyped
  <2>4. QED
    BY <2>2, <2>3 DEF ChainsSound
<1>2. QED
  BY <1>1, MapsAreSound, PTL

(* What is lent and what maps link to are the same.                        *)
LEMMA BooksAreBalanced ==
  ASSUME IInv
  PROVE  BooksBalance
<1>1. PICK N : Sound(map, mem, N)
  BY DEF IInv
<1>2. ASSUME NEW h \in Handles, Alive(h)
      PROVE  /\ map[h] # Null
             /\ NodesOf(h) = N[h] /\ Foot(map[h], N[h]) = N[h] \cup ({map[h].buckets} \ {Null})
             /\ \A x \in NodesOf(h) : mem[x].al = map[h].al
             /\ map[h].count > 0 => /\ mem[map[h].buckets] # Null /\ map[h].buckets # Null
                                    /\ mem[map[h].buckets].al = map[h].al
                                    /\ DOMAIN mem[map[h].buckets].slots = 0 .. map[h].count - 1
             /\ map[h].count \in Nat /\ (map[h].count = 0 => map[h].buckets = Null)
  <2>1. PICK d, X : d = map[h] /\ X = N[h]
    OBVIOUS
  <2>2. MapOK(d, mem, X) /\ d # Null /\ d \in Maps
    BY <1>1, <1>2, <2>1, LiveIsOK
  <2>3. NodesOf(h) = X
    BY <1>1, <1>2, <2>1, NodesAre
  <2>4. \A x \in X : mem[x].al = d.al
    BY <2>2 DEF MapOK, EntryOK
  <2>5. ASSUME d.count > 0
        PROVE  /\ mem[d.buckets] # Null /\ d.buckets # Null /\ mem[d.buckets].al = d.al
               /\ DOMAIN mem[d.buckets].slots = 0 .. d.count - 1
    <3>1. d.count # 0 /\ d.count \in Pow2s
      BY <2>2, <2>5 DEF MapOK
    <3>2. d.count \in 0 .. SizeMax
      BY <3>1, LengthsAre
    <3>3. ArrayOK(d, mem, d.count, d.buckets)
      BY <2>2, <3>1 DEF MapOK
    <3>4. d.buckets \in Arrays /\ mem[d.buckets] \in BucketArray(d.count) /\ mem[d.buckets].al = d.al
      BY <3>3 DEF ArrayOK
    <3>5. mem[d.buckets] # Null /\ mem[d.buckets].slots \in [0 .. d.count - 1 -> Nodes \cup {Null}]
      BY <3>2, <3>4, ArrayIs
    <3>6. QED
      BY <3>4, <3>5, HMapNullAssumption
  <2>6. d.count \in Nat /\ (d.count = 0 => d.buckets = Null)
    BY <2>2, MapIs DEF MapOK
  <2>7. Foot(d, X) = X \cup ({d.buckets} \ {Null})
    BY <2>2 DEF Foot
  <2>8. QED
    BY <2>1, <2>2, <2>3, <2>4, <2>5, <2>6, <2>7
<1>3. EveryBlockIsOwned
  <2>1. \A h \in Handles : Alive(h) /\ map[h].count > 0 =>
          LET d == map[h]
          IN  /\ mem[d.buckets] # Null
              /\ mem[d.buckets].al = d.al
              /\ DOMAIN mem[d.buckets].slots = 0 .. d.count - 1
              /\ \A x \in NodesOf(h) : mem[x].al = d.al
    BY <1>2
  <2>2. ASSUME NEW h \in Handles, NEW g \in Handles, h # g, Alive(h), Alive(g), map[h].count > 0
        PROVE  map[h].buckets # map[g].buckets /\ NodesOf(h) \cap NodesOf(g) = {}
    <3>1. Foot(map[h], N[h]) \cap Foot(map[g], N[g]) = {}
      BY <1>1, <2>2 DEF Sound
    <3>2. map[h].buckets # Null
      BY <1>2, <2>2
    <3>3. map[h].buckets \in Foot(map[h], N[h])
      BY <1>2, <2>2, <3>2
    <3>4. map[g].buckets = map[h].buckets => map[g].buckets \in Foot(map[g], N[g])
      BY <1>2, <2>2, <3>2
    <3>5. NodesOf(h) \subseteq Foot(map[h], N[h]) /\ NodesOf(g) \subseteq Foot(map[g], N[g])
      BY <1>2, <2>2
    <3>6. QED
      BY <3>1, <3>3, <3>4, <3>5
  <2>3. QED
    BY <2>1, <2>2 DEF EveryBlockIsOwned
<1>4. ASSUME NEW x \in Addrs, mem[x] # Null
      PROVE  \E h \in Handles : Alive(h) /\ (x = map[h].buckets \/ x \in NodesOf(h))
  <2>1. PICK h \in Handles : x \in Foot(map[h], N[h])
    BY <1>1, <1>4 DEF Sound
  <2>2. Alive(h)
    BY <2>1 DEF Foot, Alive
  <2>3. QED
    BY <1>2, <2>1, <2>2
<1>5. ASSUME NEW a \in Als
      PROVE  hdrs[a] = Cardinality({h \in Handles : Alive(h) /\ map[h].al = a})
  <2>1. {h \in Handles : Alive(h) /\ map[h].al = a} = On(Shown, a)
    BY LiveIsShown DEF On
  <2>2. QED
    BY <2>1 DEF IInv, Counted
<1>6. QED
  BY <1>3, <1>4, <1>5 DEF BooksBalance, NothingLeaks

-----------------------------------------------------------------------------
(* Sets.                                                                   *)

(* The maps are sound, and every set has one, on the allocator of its own  *)
(* header.                                                                 *)
SetIInv ==
  /\ IInv
  /\ set \in [Handles -> Als \cup {Null}]
  /\ \A h \in Handles : IsSet(h) => Shown[h] # Null /\ set[h] = Shown[h].al

(* A map that was made is there, and leaves nothing when it is given up.   *)
LEMMA MadeIs ==
  ASSUME NEW hs \in Hashers, NEW a \in Als, NEW m, IsMemory(m), NEW r, NEW e,
         Makes(hs, a, m, r, e), r.st = OK
  PROVE  r.d # Null /\ r.d.al = a /\ GivenUp(r) = m
<1>1. PICK d, c, q, z : d = NewStruct(hs, a) /\ c = r.d /\ q = r.m /\ z = ReleasedMem(c, q)
  OBVIOUS
<1>2. Bare(d) /\ d.al = a
  BY <1>1, NewIsBare
<1>3. Foot(d, {}) = {}
  BY <1>2, BareIsEmpty
<1>4. Becomes(d, m, {}, r, e)
  BY <1>1, ConstantsAre DEF Makes
<1>5. PICK Y \in SUBSET Nodes : Turned(d, m, {}, r, Y) /\ Reads(e, r.m, Y)
  BY <1>4 DEF Becomes
<1>6. PICK F : F = Foot(c, Y)
  OBVIOUS
<1>7. MapOK(c, q, Y) /\ IsMemory(q) /\ Swapped({}, m, F, q) /\ c.al = a
  BY <1>1, <1>2, <1>3, <1>5, <1>6 DEF Turned
<1>8. Freed(q, z, F) /\ F \subseteq Addrs
  BY <1>1, <1>6, <1>7, ReleaseFrees, FootIsLent
<1>9. Swapped(F, q, {}, z) /\ IsMemory(z)
  BY <1>8, FreedIsSwapped DEF Freed
<1>10. Swapped({}, m, {}, z)
  BY <1>7, <1>8, <1>9, SwapsCompose
<1>11. z = m
  BY <1>9, <1>10, SwapOfNothing
<1>12. c \in Maps /\ c # Null
  BY <1>7, MapIs DEF MapOK
<1>13. QED
  BY <1>1, <1>7, <1>11, <1>12 DEF GivenUp

(* A step that leaves the sets and their maps where they are.              *)
LEMMA SetsStay ==
  ASSUME SetIInv, Goes(Handles), UNCHANGED set
  PROVE  SetIInv' /\ M!MapNext
<1>1. IInv' /\ M!MapNext
  BY DEF Goes
<1>2. set' = set /\ \A h \in Handles : set'[h] = set[h]
  OBVIOUS
<1>3. ASSUME NEW h \in Handles, set[h] # Null
      PROVE  Shown'[h] # Null /\ set[h] = Shown'[h].al
  BY <1>3 DEF SetIInv, IsSet, Goes, Seating
<1>4. QED
  BY <1>1, <1>2, <1>3 DEF SetIInv, IsSet

(* A constructor, of a map that is made of nothing.                        *)
LEMMA WrapGoes ==
  ASSUME SetIInv, NEW g \in Handles, NEW hs \in Hashers, NEW a \in Als, NEW r, NEW e,
         Makes(hs, a, mem, r, e), NEW n, Wrap(g, a, r, n),
         Refuse \/ Refused(a, r) \/ Born(g, a, r) => Goes(Handles)
  PROVE  SetIInv' /\ M!MapNext
<1>1. PICK N : Sound(map, mem, N)
  BY DEF SetIInv, IInv
<1>2. IsMemory(mem) /\ hdrs \in [Als -> Nat] /\ map \in [Handles -> Maps \cup {Null}]
  BY <1>1 DEF Sound, SetIInv, IInv, Counted
<1>3. CASE (Refuse \/ Refused(a, r)) /\ UNCHANGED set
  BY <1>3, SetsStay
<1>4. CASE /\ r.st = OK /\ mem' = GivenUp(r) /\ hdrs' = ReturnHdr(TakeHdr(hdrs, a), a)
           /\ status' = NoMem /\ UNCHANGED <<map, set>>
  <2>1. mem' = mem
    BY <1>2, <1>4, MadeIs
  <2>2. hdrs' = hdrs
    BY <1>2, <1>4, HdrComesAndGoes
  <2>3. Refuse /\ UNCHANGED set
    BY <1>4, <2>1, <2>2 DEF Refuse
  <2>4. QED
    BY <1>3, <2>3
<1>5. CASE Born(g, a, r) /\ set' = [set EXCEPT ![g] = a]
  <2>1. Goes(Handles)
    BY <1>5
  <2>2. IInv' /\ M!MapNext
    BY <2>1 DEF Goes
  <2>3. r.st = OK /\ map' = [map EXCEPT ![g] = r.d]
    BY <1>5 DEF Born
  <2>4. map'[g] # Null /\ map'[g].al = a
    BY <1>2, <2>3, MadeIs
  <2>5. Shown'[g] # Null /\ Shown'[g].al = a
    <3>1. PICK d : d = map'[g]
      OBVIOUS
    <3>2. Shown'[g] = Seen(d, mem')
      BY <3>1, ShownIs DEF Sight
    <3>3. PICK K : Sound(map', mem', K)
      BY <2>2 DEF IInv
    <3>4. MapOK(d, mem', K[g])
      BY <2>4, <3>1, <3>3 DEF Sound, FitsIn
    <3>5. PICK f : f = Seen(d, mem')
      OBVIOUS
    <3>6. f # Null /\ f.al = d.al
      BY <3>4, <3>5, SeenIs
    <3>7. QED
      BY <2>4, <3>1, <3>2, <3>5, <3>6
  <2>6. set \in [Handles -> Als \cup {Null}]
    BY DEF SetIInv
  <2>7. set'[g] = a /\ set' \in [Handles -> Als \cup {Null}] /\ \A h \in Handles : h # g => set'[h] = set[h]
    BY <1>5, <2>6
  <2>8. ASSUME NEW h \in Handles, set'[h] # Null
        PROVE  Shown'[h] # Null /\ set'[h] = Shown'[h].al
    <3>1. CASE h = g
      BY <2>5, <2>7, <3>1
    <3>2. CASE h # g
      <4>1. set[h] # Null /\ set'[h] = set[h]
        BY <2>7, <2>8, <3>2
      <4>2. Shown[h] # Null /\ set[h] = Shown[h].al
        BY <4>1 DEF SetIInv, IsSet
      <4>3. QED
        BY <2>1, <4>1, <4>2 DEF Goes, Seating
    <3>3. QED
      BY <3>1, <3>2
  <2>9. QED
    BY <2>2, <2>7, <2>8 DEF SetIInv, IsSet
<1>6. QED
  BY <1>3, <1>4, <1>5 DEF Wrap, Refused, Born

(* Calls that go to the map as they are.                                   *)
LEMMA SetForwardsGoes ==
  ASSUME SetIInv, NEW h \in Handles, SetForwards(h)
  PROVE  SetIInv' /\ M!MapNext
<1>1. IInv /\ UNCHANGED set /\ NoVal \in Vals
  BY NoValAssumption DEF SetIInv, SetForwards
<1>2. \/ \E room \in Rooms :
           \/ \E key \in Keys, granted \in BOOLEAN : Insert(h, key, NoVal, room, granted)
           \/ \E cap \in Caps : ReserveCap(h, cap, room)
           \/ ShrinkToFit(h, room)
      \/ \E key \in Keys : Remove(h, key)
      \/ Clear(h)
  BY DEF SetForwards
<1>3. Goes(Handles)
  BY <1>1, <1>2, InsertGoes, ReserveCapGoes, ShrinkToFitGoes, RemoveGoes, ClearGoes
<1>4. QED
  BY <1>1, <1>3, SetsStay

(* A set that is dropped, header and all.                                  *)
LEMMA SetDropGoes ==
  ASSUME SetIInv, NEW h \in Handles, SetDrop(h)
  PROVE  SetIInv' /\ M!MapNext
<1>1. IInv /\ IsSet(h) /\ Drop(h)
  BY DEF SetIInv, SetDrop
<1>2. Goes(Handles \ {h})
  BY <1>1, DropGoes
<1>3. Alive(h)
  BY <1>1 DEF Drop
<1>4. set[h] = map[h].al
  BY <1>1, <1>3, LiveIsShown DEF SetIInv
<1>5. set' = [set EXCEPT ![h] = Null]
  BY <1>4 DEF SetDrop
<1>6. set \in [Handles -> Als \cup {Null}]
  BY DEF SetIInv
<1>7. set' \in [Handles -> Als \cup {Null}] /\ set'[h] = Null /\ \A g \in Handles : g # h => set'[g] = set[g]
  BY <1>5, <1>6
<1>8. ASSUME NEW g \in Handles, set'[g] # Null
      PROVE  Shown'[g] # Null /\ set'[g] = Shown'[g].al
  <2>1. g # h /\ set'[g] = set[g] /\ g \in Handles \ {h}
    BY <1>7, <1>8
  <2>2. Shown[g] # Null /\ set[g] = Shown[g].al
    BY <1>8, <2>1 DEF SetIInv, IsSet
  <2>3. QED
    BY <1>2, <2>1, <2>2 DEF Goes, Seating
<1>9. QED
  BY <1>2, <1>7, <1>8 DEF SetIInv, IsSet, Goes

(* Constructors of an empty set.                                           *)
LEMMA SetNewGoes ==
  ASSUME SetIInv, NEW g \in Handles, NEW cap \in Nat, NEW hs \in Hashers, NEW a \in Als, NEW n, NEW room,
         SetNew(g, cap, hs, a, n, room)
  PROVE  SetIInv' /\ M!MapNext
<1>1. PICK r : r = NewRaw(cap, hs, a, mem, room)
  OBVIOUS
<1>2. Wrap(g, a, r, n)
  BY <1>1 DEF SetNew
<1>3. IInv /\ ~Alive(g)
  BY <1>2 DEF Wrap, SetIInv
<1>4. PICK N : Sound(map, mem, N)
  BY <1>3 DEF IInv
<1>5. IsMemory(mem)
  BY <1>4 DEF Sound
<1>6. Makes(hs, a, mem, r, M!NoEntries)
  BY <1>1, <1>5, NewRawMakes
<1>7. Refuse \/ Refused(a, r) \/ Born(g, a, r) => Goes(Handles)
  BY <1>1, <1>3, NewRawGoes
<1>8. QED
  BY <1>2, <1>6, <1>7, WrapGoes

(* A copy of a set.                                                        *)
LEMMA SetCopyWithGoes ==
  ASSUME SetIInv, NEW h \in Handles, NEW g \in Handles, NEW a \in Als, NEW n, NEW room, NEW grants,
         SetCopyWith(h, g, a, n, room, grants)
  PROVE  SetIInv' /\ M!MapNext
<1>1. PICK d, r : d = map[h] /\ r = Clone(d, a, mem, room, grants)
  OBVIOUS
<1>2. IsSet(h) /\ Wrap(g, a, r, n)
  BY <1>1 DEF SetCopyWith
<1>3. IInv /\ ~Alive(g)
  BY <1>2 DEF Wrap, SetIInv
<1>4. Alive(h)
  BY <1>2, <1>3, LiveIsShown DEF SetIInv
<1>5. PICK N : Sound(map, mem, N)
  BY <1>3 DEF IInv
<1>6. PICK X : X = N[h]
  OBVIOUS
<1>7. MapOK(d, mem, X) /\ IsMemory(mem) /\ d \in Maps
  BY <1>1, <1>4, <1>5, <1>6, LiveIsOK
<1>8. PICK hs, e : hs = d.hasher /\ e = EntriesOf(d, mem)
  OBVIOUS
<1>9. Makes(hs, a, mem, r, e)
  BY <1>1, <1>7, <1>8, CloneMakes
<1>10. hs \in Hashers
  BY <1>7, <1>8, MapIs
<1>11. Refuse \/ Refused(a, r) \/ Born(g, a, r) => Goes(Handles)
  BY <1>1, <1>3, <1>4, CloneGoes
<1>12. QED
  BY <1>2, <1>9, <1>10, <1>11, WrapGoes

(* Two sets at a time.                                                     *)
LEMMA SetPairGoes ==
  ASSUME SetIInv, NEW h \in Handles, NEW g \in Handles, NEW ans, SetSwap(h, g) \/ SetAssign(h, g, ans)
  PROVE  SetIInv' /\ M!MapNext
<1>1. IInv /\ UNCHANGED set
  BY DEF SetIInv, SetSwap, SetAssign
<1>2. \/ Swap(h, g) \/ CopyAssign(h, g, ans[1], ans[2], ans[3]) \/ MoveAssign(h, g, ans[1], ans[2], ans[3])
  BY DEF SetSwap, SetAssign
<1>3. Goes(Handles)
  BY <1>1, <1>2, SwapGoes, CopyAssignGoes, MoveAssignGoes
<1>4. QED
  BY <1>1, <1>3, SetsStay

(* A call of a set.                                                        *)
LEMMA SetStepGoes ==
  ASSUME SetIInv, NEW h \in Handles, SetStep(h)
  PROVE  SetIInv' /\ M!MapNext
<1>1. CASE SetDrop(h)
  BY <1>1, SetDropGoes
<1>2. CASE SetForwards(h)
  BY <1>2, SetForwardsGoes
<1>3. CASE \E a \in Als, hs \in Hashers, cap \in Caps, n \in 0 .. 2, room \in Rooms : SetNew(h, cap, hs, a, n, room)
  <2>1. \A cap \in Caps : cap \in Nat
    BY ConstantsAre
  <2>2. QED
    BY <1>3, <2>1, SetNewGoes
<1>4. CASE \E g \in Handles : SetSwap(h, g)
  BY <1>4, SetPairGoes
<1>5. CASE \E g \in Handles, ans \in Answers(h) : SetAssign(h, g, ans)
  BY <1>5, SetPairGoes
<1>6. CASE \E g \in Handles, ans \in Answers(h) : \E a \in Als, n \in 0 .. 2 : SetCopyWith(h, g, a, n, ans[2], ans[3])
  BY <1>6, SetCopyWithGoes
<1>7. QED
  BY <1>1, <1>2, <1>3, <1>4, <1>5, <1>6 DEF SetStep

(* A call of a map that is no set's.                                       *)
LEMMA LooseStepGoes ==
  ASSUME SetIInv, LooseStep
  PROVE  SetIInv' /\ M!MapNext
<1>1. IInv /\ Next /\ UNCHANGED set /\ \A h \in Handles : IsSet(h) => map'[h] = map[h]
  BY DEF SetIInv, LooseStep
<1>2. IInv' /\ M!MapNext
  BY <1>1, NextGoes
<1>3. ASSUME NEW h \in Handles, set[h] # Null
      PROVE  Shown'[h] # Null /\ set[h] = Shown'[h].al
  <2>1. PICK d : d = map[h]
    OBVIOUS
  <2>2. Shown[h] # Null /\ set[h] = Shown[h].al
    BY <1>3 DEF SetIInv, IsSet
  <2>3. d # Null /\ set[h] = d.al
    BY <1>1, <2>1, <2>2, LiveIsShown DEF Alive
  <2>4. map'[h] = d
    BY <1>1, <1>3, <2>1 DEF IsSet
  <2>5. PICK K : Sound(map', mem', K)
    BY <1>2 DEF IInv
  <2>6. MapOK(d, mem', K[h])
    BY <2>3, <2>4, <2>5 DEF Sound, FitsIn
  <2>7. PICK f : f = Seen(d, mem')
    OBVIOUS
  <2>8. f # Null /\ f.al = d.al
    BY <2>6, <2>7, SeenIs
  <2>9. Shown'[h] = f
    BY <2>4, <2>7, ShownIs DEF Sight
  <2>10. QED
    BY <2>3, <2>8, <2>9
<1>4. set' = set
  BY <1>1
<1>5. QED
  BY <1>2, <1>3, <1>4 DEF SetIInv, IsSet

(* Steps of maps and sets, and of neither.                                 *)
LEMMA SetNextGoes ==
  ASSUME SetIInv, [SetNext]_setVars
  PROVE  SetIInv' /\ [M!MapNext]_(M!mVars)
<1>1. CASE LooseStep
  BY <1>1, LooseStepGoes
<1>2. CASE \E h \in Handles : SetStep(h)
  BY <1>2, SetStepGoes
<1>3. CASE UNCHANGED setVars
  <2>1. UNCHANGED vars /\ set' = set
    BY <1>3 DEF setVars
  <2>2. IInv' /\ Shown' = Shown /\ status' = status
    BY <2>1, StutterIsSound DEF SetIInv
  <2>3. QED
    BY <2>1, <2>2 DEF SetIInv, IsSet, M!mVars
<1>4. QED
  BY <1>1, <1>2, <1>3 DEF SetNext

(* A set and its map are one thing in two blocks, of one allocator.        *)
THEOREM SetsAreSound == SetSpec => []SetIInv
<1>1. SetInit => SetIInv
  BY InitIsSound DEF SetInit, SetIInv, IsSet
<1>2. SetIInv /\ [SetNext]_setVars => SetIInv'
  BY SetNextGoes
<1>3. QED
  BY <1>1, <1>2, PTL DEF SetSpec

(* A set's header is on the allocator its map is on, which is the one drop *)
(* gives it back to.                                                       *)
THEOREM WrappersAlwaysStay == SetSpec => []WrappersStayWithTheirMap
<1>1. ASSUME SetIInv
      PROVE  WrappersStayWithTheirMap
  <2>1. IInv
    BY <1>1 DEF SetIInv
  <2>2. ASSUME NEW h \in Handles, IsSet(h)
        PROVE  Alive(h) /\ set[h] = map[h].al
    BY <1>1, <2>1, <2>2, LiveIsShown DEF SetIInv
  <2>3. QED
    BY <2>2 DEF WrappersStayWithTheirMap
<1>2. QED
  BY <1>1, SetsAreSound, PTL

(* Whatever of two objects and of their copies was refused, what is lent   *)
(* is what live maps link to, each block once, and every header is one's.  *)
THEOREM MapBooksAlwaysBalance == SetSpec => []BooksBalance
<1>1. SetIInv => BooksBalance
  BY BooksAreBalanced DEF SetIInv
<1>2. QED
  BY <1>1, SetsAreSound, PTL

(* A set and the maps beside it implement MapStore.                        *)
THEOREM SetsImplementMapStore == SetSpec => ImplementsMapStore
<1>1. SetInit => M!MapInit
  BY InitIsSound DEF SetInit
<1>2. SetIInv /\ [SetNext]_setVars => [M!MapNext]_(M!mVars)
  BY SetNextGoes
<1>3. QED
  BY <1>1, <1>2, SetsAreSound, PTL DEF SetSpec, ImplementsMapStore, M!MapSpec

-----------------------------------------------------------------------------
(* Two objects compared.                                                   *)

(* There are as many entries as nodes.                                     *)
LEMMA EntriesCounted ==
  ASSUME NEW d, NEW m, NEW X, MapOK(d, m, X)
  PROVE  /\ IsFiniteSet(DOMAIN EntriesOf(d, m))
         /\ d.len = Cardinality(DOMAIN EntriesOf(d, m))
<1>1. PICK K, e, f : K = KeysIn(m, X) /\ e = EntriesOf(d, m) /\ f = [x \in X |-> m[x].key]
  OBVIOUS
<1>2. DOMAIN e = K
  BY <1>1, FoundIsRead DEF Reads
<1>3. f \in [X -> K]
  BY <1>1 DEF KeysIn
<1>4. \A x, y \in X : f[x] = f[y] => x = y
  BY <1>1 DEF MapOK
<1>5. \A k \in K : \E x \in X : f[x] = k
  BY <1>1 DEF KeysIn
<1>6. f \in Surjection(X, K) /\ f \in Injection(X, K)
  <2>1. f \in Surjection(X, K)
    BY <1>3, <1>5, SMTT(30) DEF Surjection
  <2>2. f \in Injection(X, K)
    BY <1>3, <1>4, SMTT(30) DEF Injection, IsInjective
  <2>3. QED
    BY <2>1, <2>2
<1>7. IsFiniteSet(X) /\ d.len = Cardinality(X)
  BY NodesAreInBuckets DEF MapOK
<1>8. IsFiniteSet(K) /\ Cardinality(K) = Cardinality(X)
  BY <1>6, <1>7, FS_Surjection
<1>9. QED
  BY <1>1, <1>2, <1>7, <1>8

(* What a lookup says of a key is what is there under it.                  *)
LEMMA GetIsThere ==
  ASSUME NEW d, NEW m, NEW key \in Keys, NEW e, e = EntriesOf(d, m)
  PROVE  /\ Contains(d, m, key) <=> key \in DOMAIN e
         /\ key \in DOMAIN e => Get(d, m, key) = e[key]
  BY DEF Contains, Get, EntriesOf

(* All that e has under a key of d is alike.                               *)
Matched(f, e, alike) ==
  \A k \in DOMAIN f : k \in DOMAIN e /\ (f[k] = e[k] \/ {f[k], e[k]} \subseteq alike)

(* The walk compares what is there, key by key.                            *)
LEMMA WalkCompares ==
  ASSUME NEW c, NEW d, NEW m, NEW X, NEW Y, MapOK(c, m, X), MapOK(d, m, Y), NEW alike,
         NEW f, f = EntriesOf(c, m), NEW e, e = EntriesOf(d, m)
  PROVE  /\ EqImpl(c, d, m, alike) <=> c.len = d.len /\ Matched(f, e, alike)
         /\ HSetEq(c, d, m) <=> c.len = d.len /\ DOMAIN f \subseteq DOMAIN e
<1>1. PICK s : s = WalkOrder(c, m)
  OBVIOUS
<1>2. Listing(s, X)
  BY <1>1, WalkLists
<1>3. Len(s) \in Nat /\ DOMAIN s = 1 .. Len(s)
  BY <1>2 DEF Listing
<1>4. f \in [KeysIn(m, X) -> Vals] /\ \A x \in X : f[m[x].key] = m[x].val
  BY FoundIsRead DEF Reads
<1>5. \A i \in DOMAIN s : s[i] \in X /\ m[s[i]].key \in DOMAIN f
  BY <1>2, <1>3, <1>4 DEF Listing, KeysIn
<1>6. \A k \in DOMAIN f : \E i \in DOMAIN s : m[s[i]].key = k
  BY <1>2, <1>3, <1>4 DEF Listing, KeysIn
<1>7. DOMAIN f \subseteq Keys
  BY DEF EntriesOf
<1>8. ASSUME NEW i \in DOMAIN s
      PROVE  LET x == s[i]
                 y == Get(d, m, m[x].key)
                 k == m[x].key
             IN  /\ Contains(d, m, k) <=> k \in DOMAIN e
                 /\ Contains(d, m, k) /\ (m[x].val = y \/ {m[x].val, y} \subseteq alike)
                      <=> k \in DOMAIN e /\ (f[k] = e[k] \/ {f[k], e[k]} \subseteq alike)
  <2>1. PICK x, k : x = s[i] /\ k = m[x].key
    OBVIOUS
  <2>2. x \in X /\ k \in Keys /\ f[k] = m[x].val
    BY <1>4, <1>5, <1>7, <2>1
  <2>3. Contains(d, m, k) <=> k \in DOMAIN e
    BY <2>2, GetIsThere
  <2>4. k \in DOMAIN e => Get(d, m, k) = e[k]
    BY <2>2, GetIsThere
  <2>5. QED
    BY <2>1, <2>2, <2>3, <2>4
<1>9. (\A i \in DOMAIN s :
         LET x == s[i]
             y == Get(d, m, m[x].key)
         IN  Contains(d, m, m[x].key) /\ (m[x].val = y \/ {m[x].val, y} \subseteq alike))
      <=> Matched(f, e, alike)
  BY <1>5, <1>6, <1>8 DEF Matched
<1>10. (\A i \in DOMAIN s : Contains(d, m, m[s[i]].key)) <=> DOMAIN f \subseteq DOMAIN e
  BY <1>5, <1>6, <1>8
<1>11. QED
  BY <1>1, <1>9, <1>10 DEF EqImpl, HSetEq

(* Keys of as many entries are no fewer.                                   *)
LEMMA KeysMatch ==
  ASSUME NEW c, NEW d, NEW m, NEW X, NEW Y, MapOK(c, m, X), MapOK(d, m, Y),
         NEW f, f = EntriesOf(c, m), NEW e, e = EntriesOf(d, m)
  PROVE  c.len = d.len /\ DOMAIN f \subseteq DOMAIN e <=> DOMAIN f = DOMAIN e
<1>1. IsFiniteSet(DOMAIN e) /\ d.len = Cardinality(DOMAIN e) /\ c.len = Cardinality(DOMAIN f)
  BY EntriesCounted
<1>2. ASSUME c.len = d.len, DOMAIN f \subseteq DOMAIN e
      PROVE  DOMAIN f = DOMAIN e
  BY <1>1, <1>2, FS_Subset
<1>3. QED
  BY <1>1, <1>2

(* Two maps.                                                               *)
LEMMA MapsCompare ==
  ASSUME NEW c, NEW d, NEW m, NEW X, NEW Y, MapOK(c, m, X), MapOK(d, m, Y),
         NEW f, f = EntriesOf(c, m), NEW e, e = EntriesOf(d, m)
  PROVE  /\ HMapEq(c, d, m) <=> f = e
         /\ HMapEqBy(c, d, m, Vals) <=> DOMAIN f = DOMAIN e
         /\ HSetEq(c, d, m) <=> DOMAIN f = DOMAIN e
<1>1. c.len = d.len /\ DOMAIN f \subseteq DOMAIN e <=> DOMAIN f = DOMAIN e
  BY KeysMatch
<1>2. HSetEq(c, d, m) <=> DOMAIN f = DOMAIN e
  BY <1>1, WalkCompares
<1>3. f \in [DOMAIN f -> Vals] /\ e \in [DOMAIN e -> Vals]
  BY FoundIsRead DEF Reads
<1>4. HMapEq(c, d, m) <=> f = e
  <2>1. HMapEq(c, d, m) <=> c.len = d.len /\ Matched(f, e, {})
    BY WalkCompares DEF HMapEq
  <2>2. Matched(f, e, {}) <=> \A k \in DOMAIN f : k \in DOMAIN e /\ f[k] = e[k]
    BY DEF Matched
  <2>3. ASSUME c.len = d.len, Matched(f, e, {})
        PROVE  f = e
    <3>1. DOMAIN f = DOMAIN e /\ \A k \in DOMAIN f : f[k] = e[k]
      BY <1>1, <2>2, <2>3
    <3>2. QED
      BY <1>3, <3>1
  <2>4. f = e => c.len = d.len /\ Matched(f, e, {})
    BY <1>1, <2>2
  <2>5. QED
    BY <2>1, <2>3, <2>4
<1>5. HMapEqBy(c, d, m, Vals) <=> DOMAIN f = DOMAIN e
  <2>1. HMapEqBy(c, d, m, Vals) <=> c.len = d.len /\ Matched(f, e, Vals)
    BY WalkCompares DEF HMapEqBy
  <2>2. Matched(f, e, Vals) <=> DOMAIN f \subseteq DOMAIN e
    BY <1>3 DEF Matched
  <2>3. QED
    BY <1>1, <2>1, <2>2
<1>6. QED
  BY <1>2, <1>4, <1>5

(* Maps and sets are equal when their contents are: a walk of one, with a  *)
(* lookup in the other under its own hasher, and the lengths, decide it.   *)
THEOREM AlwaysEqualByContents == SetSpec => []EqualByContents
<1>1. ASSUME IInv
      PROVE  EqualByContents
  <2>1. PICK N : Sound(map, mem, N)
    BY <1>1 DEF IInv
  <2>2. ASSUME NEW h \in Handles, NEW g \in Handles, Alive(h), Alive(g)
        PROVE  /\ HMapEq(map[h], map[g], mem) <=> Entries(h) = Entries(g)
               /\ HMapEqBy(map[h], map[g], mem, Vals) <=> DOMAIN Entries(h) = DOMAIN Entries(g)
               /\ HSetEq(map[h], map[g], mem) <=> DOMAIN Entries(h) = DOMAIN Entries(g)
    <3>1. PICK c, d, X, Y, f, e : /\ c = map[h] /\ d = map[g] /\ X = N[h] /\ Y = N[g]
                                  /\ f = EntriesOf(c, mem) /\ e = EntriesOf(d, mem)
      OBVIOUS
    <3>2. MapOK(c, mem, X) /\ MapOK(d, mem, Y)
      BY <2>1, <2>2, <3>1, LiveIsOK
    <3>3. f = Entries(h) /\ e = Entries(g)
      BY <3>1 DEF Entries, EntriesOf
    <3>4. /\ HMapEq(c, d, mem) <=> f = e
          /\ HMapEqBy(c, d, mem, Vals) <=> DOMAIN f = DOMAIN e
          /\ HSetEq(c, d, mem) <=> DOMAIN f = DOMAIN e
      BY <3>1, <3>2, MapsCompare
    <3>5. QED
      BY <3>1, <3>3, <3>4
  <2>3. QED
    BY <2>2 DEF EqualByContents
<1>2. SetIInv => EqualByContents
  BY <1>1 DEF SetIInv
<1>3. QED
  BY <1>2, SetsAreSound, PTL
=============================================================================
