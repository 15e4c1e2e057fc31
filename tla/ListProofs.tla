----------------------------- MODULE ListProofs -----------------------------
(***************************************************************************)
(* What MCList checks of two lists and four nodes, for any number of       *)
(* lists, nodes and allocators that refuse whatever they like: both        *)
(* directions of links agree, and no node and no header is lost or shared. *)
(*                                                                         *)
(* Of one list, links say that its nodes are a line: a sequence without    *)
(* repetition, linked both ways. A call unlinks, links or relinks nodes,   *)
(* and each operator of List is shown to turn lines into lines and to      *)
(* leave all nodes of others alone. Of all lists, no node is in two of     *)
(* them and every node lent is in one; a call exchanges the nodes of one   *)
(* list, or of two, for others that were theirs or free.                   *)
(***************************************************************************)
EXTENDS List, FiniteSetTheorems, SequenceTheorems, WellFoundedInduction, TLAPS

-----------------------------------------------------------------------------
(* Natural numbers.                                                        *)

(* Naturals that are some have a least.                                    *)
LEMMA LeastNatural ==
  ASSUME NEW X \in SUBSET Nat, X # {}
  PROVE  \E n \in X : \A k \in X : n <= k
<1>1. IsWellFoundedOn(OpToRel(<, Nat), Nat)
  BY NatLessThanWellFounded
<1>2. PICK R : R = OpToRel(<, Nat)
  OBVIOUS
<1>3. \A x, y \in Nat : y < x => <<y, x>> \in R
  BY <1>2 DEF OpToRel
<1>4. X \subseteq Nat /\ IsWellFoundedOn(R, Nat)
  BY <1>1, <1>2
<1>5. PICK x \in X : \A y \in X : ~ (<<y, x>> \in R)
  BY <1>4, WFMin
<1>6. ASSUME NEW y \in X
      PROVE  x <= y
  <2>1. x \in Nat /\ y \in Nat
    OBVIOUS
  <2>2. ~ (y < x)
    BY <1>3, <1>5, <2>1, Zenon
  <2>3. QED
    BY <2>1, <2>2
<1>7. QED
  BY <1>6

(* Induction, over the set of the numbers up to n a formula holds of.      *)
LEMMA UpTo ==
  ASSUME NEW n \in Nat, NEW X \in SUBSET (0 .. n), 0 \in X, \A k \in X : k < n => k + 1 \in X
  PROVE  \A k \in 0 .. n : k \in X
<1>1. SUFFICES ASSUME (0 .. n) \ X # {}
      PROVE  FALSE
  OBVIOUS
<1>2. PICK k \in (0 .. n) \ X : \A l \in (0 .. n) \ X : k <= l
  <2>1. (0 .. n) \ X \in SUBSET Nat
    OBVIOUS
  <2>2. QED
    BY <1>1, <2>1, LeastNatural
<1>3. k # 0 /\ k - 1 \in 0 .. n /\ k - 1 < n /\ (k - 1) + 1 = k
  BY <1>2
<1>4. k - 1 \in X
  BY <1>2, <1>3
<1>5. QED
  BY <1>2, <1>3, <1>4

-----------------------------------------------------------------------------
(* Answers.                                                                *)

(* A set with another member has one more, at the most.                    *)
LEMMA AtMostOneMore ==
  ASSUME NEW S, IsFiniteSet(S), NEW n \in Nat, Cardinality(S) <= n, NEW x, NEW T, T = S \cup {x}
  PROVE  IsFiniteSet(T) /\ Cardinality(T) <= n + 1
<1>1. Cardinality(S) \in Nat
  BY FS_CardinalityType
<1>2. IsFiniteSet(T) /\ Cardinality(T) = IF x \in S THEN Cardinality(S) ELSE Cardinality(S) + 1
  BY FS_AddElement
<1>3. QED
  BY <1>1, <1>2

(* A call that was refused did not answer OK.                              *)
LEMMA StatusesDiffer == OK # NoMem
<1>1. SUFFICES ASSUME OK = NoMem
               PROVE  FALSE
  OBVIOUS
<1>2. PICK A, B, C, D : A = {} \cup {OK} /\ B = A \cup {Yes} /\ C = B \cup {No} /\ D = C \cup {Null}
  OBVIOUS
<1>3. IsFiniteSet({}) /\ Cardinality({}) <= 0
  BY FS_EmptySet
<1>4. IsFiniteSet(A) /\ Cardinality(A) <= 1
  <2>1. A = {} \cup {OK}
    BY <1>2
  <2>2. 0 \in Nat /\ 0 + 1 = 1
    OBVIOUS
  <2>3. QED
    BY <1>3, <2>1, <2>2, AtMostOneMore
<1>5. IsFiniteSet(B) /\ Cardinality(B) <= 2
  <2>1. B = A \cup {Yes}
    BY <1>2
  <2>2. 1 \in Nat /\ 1 + 1 = 2
    OBVIOUS
  <2>3. QED
    BY <1>4, <2>1, <2>2, AtMostOneMore
<1>6. IsFiniteSet(C) /\ Cardinality(C) <= 3
  <2>1. C = B \cup {No}
    BY <1>2
  <2>2. 2 \in Nat /\ 2 + 1 = 3
    OBVIOUS
  <2>3. QED
    BY <1>5, <2>1, <2>2, AtMostOneMore
<1>7. IsFiniteSet(D) /\ Cardinality(D) <= 4
  <2>1. D = C \cup {Null}
    BY <1>2
  <2>2. 3 \in Nat /\ 3 + 1 = 4
    OBVIOUS
  <2>3. QED
    BY <1>6, <2>1, <2>2, AtMostOneMore
<1>8. {OK, NoMem, Yes, No, Null} = D
  BY <1>1, <1>2
<1>9. Cardinality(D) = 5
  BY <1>8, ListAssumption
<1>10. QED
  BY <1>7, <1>9

-----------------------------------------------------------------------------
(* Walks.                                                                  *)

Memories == [Nodes -> ListNodes \cup {Null}]
Links    == [Nodes -> Nodes \cup {Null}]

(* s is a sequence of n nodes, all different.                              *)
IsLine(s, n) ==
  /\ n \in Nat
  /\ s \in [1 .. n -> Nodes]
  /\ \A k, l \in 1 .. n : s[k] = s[l] => k = l

Along(s) == {s[k] : k \in DOMAIN s}

(* No line is longer than there are nodes.                                 *)
LEMMA LineIsShort ==
  ASSUME NEW s, NEW n, IsLine(s, n)
  PROVE  n <= Cardinality(Nodes) /\ Cardinality(Nodes) \in Nat
<1>1. s \in Injection(1 .. n, Nodes)
  BY DEF IsLine, Injection, IsInjective
<1>2. Cardinality(1 .. n) = n
  BY FS_Interval DEF IsLine
<1>3. QED
  BY <1>1, <1>2, FS_Injection, FS_CardinalityType, ListAssumption DEF IsLine

(* The links of a memory.                                                  *)
LEMMA LinksAre ==
  ASSUME NEW m \in Memories
  PROVE  Nexts(m) \in Links /\ Prevs(m) \in Links
<1>1. ASSUME NEW x \in Nodes
      PROVE  /\ (IF m[x] = Null THEN Null ELSE m[x].next) \in Nodes \cup {Null}
             /\ (IF m[x] = Null THEN Null ELSE m[x].prev) \in Nodes \cup {Null}
  BY DEF Memories, ListNodes
<1>2. QED
  BY <1>1 DEF Nexts, Prevs, Links

(* What the recursion of Walk says of a function.                          *)
Walked(f, n, links) ==
  f = [p \in (0 .. n) \X (Nodes \cup {Null}) |->
         IF p[1] = 0 \/ p[2] = Null THEN <<>>
         ELSE <<p[2]>> \o f[<<p[1] - 1, links[p[2]]>>]]

(* There is one it says that of.                                           *)
LEMMA WalkedThere ==
  ASSUME NEW n \in Nat, NEW links \in Links
  PROVE  \E f : Walked(f, n, links)
<1>1. PICK X : X = {l \in 0 .. n : \E f : Walked(f, l, links)}
  OBVIOUS
<1>2. 0 \in X
  <2>1. PICK f : f = [p \in (0 .. 0) \X (Nodes \cup {Null}) |-> <<>>]
    OBVIOUS
  <2>2. \A p \in (0 .. 0) \X (Nodes \cup {Null}) : p[1] = 0
    OBVIOUS
  <2>3. f = [p \in (0 .. 0) \X (Nodes \cup {Null}) |->
               IF p[1] = 0 \/ p[2] = Null THEN <<>>
               ELSE <<p[2]>> \o f[<<p[1] - 1, links[p[2]]>>]]
    BY <2>1, <2>2
  <2>4. QED
    BY <1>1, <2>3 DEF Walked
<1>3. ASSUME NEW l \in X, l < n
      PROVE  l + 1 \in X
  <2>1. l \in 0 .. n /\ l + 1 \in 0 .. n
    BY <1>1, <1>3
  <2>2. PICK f : Walked(f, l, links)
    BY <1>1
  <2>3. PICK g : g = [p \in (0 .. l + 1) \X (Nodes \cup {Null}) |->
                        IF p[1] = 0 \/ p[2] = Null THEN <<>>
                        ELSE <<p[2]>> \o f[<<p[1] - 1, links[p[2]]>>]]
    OBVIOUS
  <2>4. ASSUME NEW p \in (0 .. l) \X (Nodes \cup {Null})
        PROVE  g[p] = f[p]
    <3>1. p \in (0 .. l + 1) \X (Nodes \cup {Null})
      BY <2>1
    <3>2. QED
      BY <2>2, <2>3, <3>1 DEF Walked
  <2>5. ASSUME NEW p \in (0 .. l + 1) \X (Nodes \cup {Null}), p[1] # 0, p[2] # Null
        PROVE  g[<<p[1] - 1, links[p[2]]>>] = f[<<p[1] - 1, links[p[2]]>>]
    <3>1. p[1] - 1 \in 0 .. l /\ links[p[2]] \in Nodes \cup {Null}
      BY <2>1, <2>5 DEF Links
    <3>2. <<p[1] - 1, links[p[2]]>> \in (0 .. l) \X (Nodes \cup {Null})
      BY <3>1
    <3>3. QED
      BY <2>4, <3>2
  <2>6. g = [p \in (0 .. l + 1) \X (Nodes \cup {Null}) |->
               IF p[1] = 0 \/ p[2] = Null THEN <<>>
               ELSE <<p[2]>> \o g[<<p[1] - 1, links[p[2]]>>]]
    BY <2>3, <2>5
  <2>7. QED
    BY <1>1, <2>1, <2>6 DEF Walked
<1>4. n \in X
  <2>1. X \in SUBSET (0 .. n)
    BY <1>1
  <2>2. \A k \in 0 .. n : k \in X
    BY <1>2, <1>3, <2>1, UpTo
  <2>3. QED
    BY <2>2
<1>5. QED
  BY <1>1, <1>4

(* A node in front of a line.                                              *)
LEMMA InFrontIs ==
  ASSUME NEW x \in Nodes, NEW l \in Nat, NEW t \in [1 .. l -> Nodes]
  PROVE  <<x>> \o t = [k \in 1 .. l + 1 |-> IF k = 1 THEN x ELSE t[k - 1]]
<1>1. <<x>> \in Seq(Nodes) /\ Len(<<x>>) = 1 /\ <<x>>[1] = x
  OBVIOUS
<1>2. t \in Seq(Nodes) /\ Len(t) = l
  OBVIOUS
<1>3. PICK u : u = <<x>> \o t
  OBVIOUS
<1>4. /\ u \in Seq(Nodes) /\ Len(u) = 1 + l
      /\ \A k \in 1 .. 1 + l : u[k] = IF k <= 1 THEN <<x>>[k] ELSE t[k - 1]
  BY <1>1, <1>2, <1>3, ConcatProperties, ZenonT(30)
<1>5. DOMAIN u = 1 .. l + 1 /\ u = [k \in 1 .. l + 1 |-> u[k]]
  BY <1>4
<1>6. \A k \in 1 .. l + 1 : u[k] = IF k = 1 THEN x ELSE t[k - 1]
  BY <1>1, <1>4
<1>7. QED
  BY <1>3, <1>5, <1>6

(* Links that lead along a line, and end there, are walked along it.       *)
LEMMA WalkIs ==
  ASSUME NEW links \in Links, NEW s, NEW n, IsLine(s, n), NEW x, x = NthOf(s, 1),
         \A k \in 1 .. n : links[s[k]] = NthOf(s, k + 1)
  PROVE  Walk(links, x) = s
<1>1. n \in Nat /\ s \in [1 .. n -> Nodes] /\ DOMAIN s = 1 .. n
  BY DEF IsLine
<1>2. PICK C : C = Cardinality(Nodes) /\ C \in Nat /\ n <= C
  BY LineIsShort
<1>3. PICK from : from = CHOOSE f : f = [p \in (0 .. C) \X (Nodes \cup {Null}) |->
         IF p[1] = 0 \/ p[2] = Null THEN <<>>
         ELSE <<p[2]>> \o f[<<p[1] - 1, links[p[2]]>>]]
  OBVIOUS
<1>4. from = [p \in (0 .. C) \X (Nodes \cup {Null}) |->
         IF p[1] = 0 \/ p[2] = Null THEN <<>>
         ELSE <<p[2]>> \o from[<<p[1] - 1, links[p[2]]>>]]
  <2>1. \E f : Walked(f, C, links)
    BY <1>2, WalkedThere
  <2>2. QED
    BY <1>3, <2>1 DEF Walked
<1>5. Walk(links, x) = from[<<C, x>>]
  BY <1>2, <1>3 DEF Walk
<1>. DEFINE Least(a, b) == IF a < b THEN a ELSE b
            Rest(j, i)  == [k \in 1 .. Least(j, n + 1 - i) |-> s[i + k - 1]]
<1>6. PICK X : X = {j \in 0 .. C : \A i \in 1 .. n + 1 : from[<<j, NthOf(s, i)>>] = Rest(j, i)}
  OBVIOUS
<1>7. \A i \in 1 .. n + 1 : NthOf(s, i) \in Nodes \cup {Null} /\ (NthOf(s, i) = Null <=> i = n + 1)
  BY <1>1, ListAssumption DEF NthOf
<1>8. 0 \in X
  <2>1. ASSUME NEW i \in 1 .. n + 1
        PROVE  from[<<0, NthOf(s, i)>>] = Rest(0, i)
    <3>1. <<0, NthOf(s, i)>> \in (0 .. C) \X (Nodes \cup {Null})
      BY <1>2, <1>7
    <3>2. from[<<0, NthOf(s, i)>>] = <<>>
      BY <1>4, <3>1
    <3>3. 1 .. Least(0, n + 1 - i) = {}
      BY <1>1
    <3>4. QED
      BY <3>2, <3>3
  <2>2. QED
    BY <1>2, <1>6, <2>1
<1>9. ASSUME NEW j \in X, j < C
      PROVE  j + 1 \in X
  <2>1. j \in 0 .. C /\ j + 1 \in 0 .. C /\ (j + 1) - 1 = j /\ j + 1 # 0
    BY <1>2, <1>6, <1>9
  <2>2. ASSUME NEW i \in 1 .. n + 1
        PROVE  from[<<j + 1, NthOf(s, i)>>] = Rest(j + 1, i)
    <3>1. <<j + 1, NthOf(s, i)>> \in (0 .. C) \X (Nodes \cup {Null})
      BY <1>7, <2>1
    <3>2. CASE i = n + 1
      <4>1. from[<<j + 1, NthOf(s, i)>>] = <<>>
        BY <1>4, <1>7, <3>1, <3>2
      <4>2. 1 .. Least(j + 1, n + 1 - i) = {}
        BY <1>1, <2>1, <3>2
      <4>3. QED
        BY <4>1, <4>2
    <3>3. CASE i # n + 1
      <4>1. i \in 1 .. n /\ NthOf(s, i) = s[i] /\ s[i] \in Nodes /\ i + 1 \in 1 .. n + 1
        BY <1>1, <3>3 DEF NthOf
      <4>2. from[<<j + 1, s[i]>>] = <<s[i]>> \o from[<<j, NthOf(s, i + 1)>>]
        BY <1>4, <1>7, <2>1, <3>1, <3>3, <4>1
      <4>3. from[<<j, NthOf(s, i + 1)>>] = Rest(j, i + 1)
        BY <1>6, <4>1
      <4>4. PICK l : l = Least(j, n + 1 - (i + 1)) /\ l \in Nat /\ l + 1 = Least(j + 1, n + 1 - i)
        BY <1>1, <2>1, <4>1
      <4>5. \A k \in 1 .. l : s[(i + 1) + k - 1] \in Nodes
        BY <1>1, <2>1, <4>1, <4>4
      <4>6. PICK t : t = [k \in 1 .. l |-> s[(i + 1) + k - 1]]
        OBVIOUS
      <4>7. t \in [1 .. l -> Nodes]
        BY <4>5, <4>6
      <4>8. <<s[i]>> \o t = [k \in 1 .. l + 1 |-> IF k = 1 THEN s[i] ELSE t[k - 1]]
        <5>1. s[i] \in Nodes /\ l \in Nat
          BY <4>1, <4>4
        <5>2. QED
          BY <4>7, <5>1, InFrontIs
      <4>9. [k \in 1 .. l + 1 |-> IF k = 1 THEN s[i] ELSE t[k - 1]] = [k \in 1 .. l + 1 |-> s[i + k - 1]]
        <5>1. ASSUME NEW k \in 1 .. l + 1
              PROVE  (IF k = 1 THEN s[i] ELSE t[k - 1]) = s[i + k - 1]
          <6>1. CASE k = 1
            BY <4>1, <6>1
          <6>2. CASE k # 1
            <7>1. k - 1 \in 1 .. l /\ (i + 1) + (k - 1) - 1 = i + k - 1
              BY <4>1, <4>4, <6>2
            <7>2. QED
              BY <4>6, <6>2, <7>1
          <6>3. QED
            BY <6>1, <6>2
        <5>2. QED
          BY <5>1
      <4>10. QED
        BY <4>1, <4>2, <4>3, <4>4, <4>6, <4>8, <4>9
    <3>4. QED
      BY <3>2, <3>3
  <2>3. QED
    BY <1>6, <2>1, <2>2
<1>10. C \in X
  <2>1. X \in SUBSET (0 .. C)
    BY <1>6
  <2>2. \A k \in 0 .. C : k \in X
    BY <1>2, <1>8, <1>9, <2>1, UpTo
  <2>3. QED
    BY <1>2, <2>2
<1>11. from[<<C, NthOf(s, 1)>>] = Rest(C, 1)
  BY <1>1, <1>6, <1>10
<1>12. Rest(C, 1) = [k \in 1 .. n |-> s[k]]
  <2>1. Least(C, n + 1 - 1) = n
    BY <1>1, <1>2
  <2>2. \A k \in 1 .. n : 1 + k - 1 = k
    BY <1>1
  <2>3. QED
    BY <2>1, <2>2
<1>13. QED
  BY <1>1, <1>5, <1>11, <1>12

-----------------------------------------------------------------------------
(* One list.                                                               *)

(* In m the struct d has the nodes of s, linked both ways.                 *)
Holds(d, m, s) ==
  /\ d \in Lists
  /\ IsLine(s, d.len)
  /\ d.head = NthOf(s, 1) /\ d.tail = NthOf(s, d.len)
  /\ \A k \in 1 .. d.len :
       /\ m[s[k]] \in ListNodes
       /\ m[s[k]].al = d.al
       /\ m[s[k]].next = NthOf(s, k + 1)
       /\ m[s[k]].prev = NthOf(s, k - 1)

(* From m to q no node has come or gone, and of those not in A nothing     *)
(* changed, of those in A only the links.                                  *)
Rewired(m, q, A) ==
  /\ q \in Memories
  /\ \A y \in Nodes : y \notin A => q[y] = m[y]
  /\ \A y \in Nodes : m[y] = Null => q[y] = Null
  /\ \A y \in Nodes : m[y] # Null => q[y] # Null /\ q[y].val = m[y].val /\ q[y].al = m[y].al

(* What a struct that holds a line is.                                     *)
LEMMA HoldsIs ==
  ASSUME NEW d, NEW m, NEW s, Holds(d, m, s)
  PROVE  /\ d \in Lists /\ d.len \in Nat /\ d.al \in Als
         /\ d = [head |-> d.head, tail |-> d.tail, len |-> d.len, al |-> d.al]
         /\ s \in [1 .. d.len -> Nodes] /\ DOMAIN s = 1 .. d.len
         /\ s \in Seq(Nodes) /\ Len(s) = d.len
         /\ \A k, l \in 1 .. d.len : s[k] = s[l] => k = l
         /\ \A k \in 1 .. d.len : s[k] \in Nodes /\ s[k] # Null /\ m[s[k]] # Null
         /\ Along(s) \subseteq Nodes
<1>1. d \in Lists /\ IsLine(s, d.len) /\ \A k \in 1 .. d.len : m[s[k]] \in ListNodes
  BY DEF Holds
<1>2. /\ d.len \in Nat /\ d.al \in Als
      /\ d = [head |-> d.head, tail |-> d.tail, len |-> d.len, al |-> d.al]
  BY <1>1 DEF Lists
<1>3. s \in [1 .. d.len -> Nodes] /\ DOMAIN s = 1 .. d.len /\ \A k, l \in 1 .. d.len : s[k] = s[l] => k = l
  BY <1>1 DEF IsLine
<1>4. s \in Seq(Nodes) /\ Len(s) = d.len
  BY <1>2, <1>3
<1>5. \A k \in 1 .. d.len : s[k] \in Nodes /\ s[k] # Null /\ m[s[k]] # Null
  BY <1>1, <1>3, ListAssumption, ListNullAssumption
<1>6. Along(s) \subseteq Nodes
  BY <1>3 DEF Along
<1>7. QED
  BY <1>1, <1>2, <1>3, <1>4, <1>5, <1>6

(* What the neighbour at a place is.                                       *)
LEMMA NthIs ==
  ASSUME NEW s, NEW n \in Nat, s \in [1 .. n -> Nodes], NEW k \in Int
  PROVE  /\ k \in 1 .. n => NthOf(s, k) = s[k] /\ s[k] \in Nodes /\ NthOf(s, k) # Null
         /\ k \notin 1 .. n => NthOf(s, k) = Null
         /\ NthOf(s, k) \in Nodes \cup {Null}
<1>1. DOMAIN s = 1 .. n
  OBVIOUS
<1>2. QED
  BY <1>1, ListAssumption DEF NthOf

(* A memory that has the nodes of a line as they were holds it.            *)
LEMMA HoldsStays ==
  ASSUME NEW d, NEW m, NEW s, Holds(d, m, s), NEW q, \A y \in Along(s) : q[y] = m[y]
  PROVE  Holds(d, q, s)
<1>1. \A k \in 1 .. d.len : s[k] \in Along(s)
  BY HoldsIs DEF Along
<1>2. \A k \in 1 .. d.len : q[s[k]] = m[s[k]]
  BY <1>1
<1>3. QED
  BY <1>2 DEF Holds

(* The walk from the head meets the nodes of the line.                     *)
LEMMA NodesOfIs ==
  ASSUME NEW m \in Memories, NEW d, NEW s, Holds(d, m, s)
  PROVE  NodesOf(d, m) = s
<1>1. IsLine(s, d.len) /\ d.head = NthOf(s, 1) /\ DOMAIN s = 1 .. d.len
  BY HoldsIs DEF Holds
<1>2. ASSUME NEW k \in 1 .. d.len
      PROVE  Nexts(m)[s[k]] = NthOf(s, k + 1)
  <2>1. s[k] \in Nodes /\ m[s[k]] # Null
    BY HoldsIs
  <2>2. m[s[k]].next = NthOf(s, k + 1)
    BY DEF Holds
  <2>3. QED
    BY <2>1, <2>2 DEF Nexts
<1>3. Nexts(m) \in Links
  BY LinksAre
<1>4. Walk(Nexts(m), d.head) = s
  BY <1>1, <1>2, <1>3, WalkIs
<1>5. QED
  BY <1>4 DEF NodesOf

(* A line, from its other end.                                             *)
Backwards(s, n) == [k \in 1 .. n |-> s[n + 1 - k]]

(* A line has the same nodes from its other end.                           *)
LEMMA BackwardsIs ==
  ASSUME NEW s, NEW n, IsLine(s, n)
  PROVE  /\ IsLine(Backwards(s, n), n)
         /\ Along(Backwards(s, n)) = Along(s)
         /\ \A k \in Int : NthOf(Backwards(s, n), k) = NthOf(s, n + 1 - k)
<1>1. n \in Nat /\ s \in [1 .. n -> Nodes] /\ DOMAIN s = 1 .. n
  BY DEF IsLine
<1>2. PICK t : t = Backwards(s, n)
  OBVIOUS
<1>3. \A k \in 1 .. n : n + 1 - k \in 1 .. n /\ n + 1 - (n + 1 - k) = k
  BY <1>1
<1>4. t \in [1 .. n -> Nodes] /\ \A k \in 1 .. n : t[k] = s[n + 1 - k]
  BY <1>1, <1>2, <1>3 DEF Backwards
<1>5. \A k, l \in 1 .. n : t[k] = t[l] => k = l
  <2>1. TAKE k, l \in 1 .. n
  <2>2. HAVE t[k] = t[l]
  <2>3. n + 1 - k = n + 1 - l
    BY <1>3, <1>4, <2>2 DEF IsLine
  <2>4. QED
    BY <1>1, <2>3
<1>6. Along(t) = Along(s)
  <2>1. ASSUME NEW k \in 1 .. n
        PROVE  t[k] \in Along(s) /\ s[k] \in Along(t)
    <3>1. t[k] = s[n + 1 - k] /\ s[k] = t[n + 1 - k]
      BY <1>3, <1>4
    <3>2. QED
      BY <1>1, <1>3, <1>4, <3>1 DEF Along
  <2>2. QED
    BY <1>1, <1>4, <2>1 DEF Along
<1>7. ASSUME NEW k \in Int
      PROVE  NthOf(t, k) = NthOf(s, n + 1 - k)
  <2>1. k \in 1 .. n <=> n + 1 - k \in 1 .. n
    BY <1>1
  <2>2. DOMAIN t = 1 .. n
    BY <1>4
  <2>3. QED
    BY <1>1, <1>4, <2>1, <2>2 DEF NthOf
<1>8. QED
  BY <1>1, <1>2, <1>4, <1>5, <1>6, <1>7 DEF IsLine

(* The walk from the tail meets them too.                                  *)
LEMMA WalkBackIs ==
  ASSUME NEW m \in Memories, NEW d, NEW s, Holds(d, m, s)
  PROVE  Walk(Prevs(m), d.tail) = Backwards(s, d.len)
<1>1. IsLine(s, d.len) /\ d.tail = NthOf(s, d.len) /\ d.len \in Nat
  BY HoldsIs DEF Holds
<1>2. PICK t : t = Backwards(s, d.len)
  OBVIOUS
<1>3. IsLine(t, d.len) /\ \A k \in Int : NthOf(t, k) = NthOf(s, d.len + 1 - k)
  BY <1>1, <1>2, BackwardsIs
<1>4. ASSUME NEW k \in 1 .. d.len
      PROVE  Prevs(m)[t[k]] = NthOf(t, k + 1)
  <2>1. PICK l \in 1 .. d.len : l = d.len + 1 - k
    BY <1>1
  <2>2. t[k] = s[l]
    BY <1>2, <2>1 DEF Backwards
  <2>3. s[l] \in Nodes /\ m[s[l]] # Null
    BY HoldsIs
  <2>4. m[s[l]].prev = NthOf(s, l - 1)
    BY DEF Holds
  <2>5. l - 1 = d.len + 1 - (k + 1)
    BY <1>1, <2>1
  <2>6. NthOf(t, k + 1) = NthOf(s, l - 1)
    BY <1>3, <2>5
  <2>7. QED
    BY <2>2, <2>3, <2>4, <2>6 DEF Prevs
<1>5. Prevs(m) \in Links
  BY LinksAre
<1>6. d.tail = NthOf(t, 1)
  <2>1. d.len + 1 - 1 = d.len
    BY <1>1
  <2>2. QED
    BY <1>1, <1>3, <2>1
<1>7. QED
  BY <1>2, <1>3, <1>4, <1>5, <1>6, WalkIs

-----------------------------------------------------------------------------
(* One node more, and one less.                                            *)

(* x can be linked to the two neighbours; in q it is, and was not in m.    *)
MayLink(m, x, prev, next) ==
  /\ x \in Nodes /\ m[x] # Null
  /\ prev \in Nodes \cup {Null} /\ next \in Nodes \cup {Null}
  /\ x # prev /\ x # next
  /\ prev = next => prev = Null
  /\ prev # Null => m[prev] # Null
  /\ next # Null => m[next] # Null

IsLinked(m, q, x, prev, next) ==
  /\ Rewired(m, q, {x, prev, next})
  /\ q[x].prev = prev /\ q[x].next = next
  /\ prev # Null => q[prev].next = x /\ q[prev].prev = m[prev].prev
  /\ next # Null => q[next].prev = x /\ q[next].next = m[next].next

(* The memory of link_node, node by node.                                  *)
LEMMA LinkedMemIs ==
  ASSUME NEW d, NEW m \in Memories, NEW x, NEW prev, NEW next, MayLink(m, x, prev, next)
  PROVE  IsLinked(m, LinkNode(d, m, x, prev, next).m, x, prev, next)
<1>. /\ x \in Nodes /\ m[x] # Null
     /\ prev \in Nodes \cup {Null} /\ next \in Nodes \cup {Null}
     /\ x # prev /\ x # next
     /\ prev = next => prev = Null
     /\ prev # Null => m[prev] # Null
     /\ next # Null => m[next] # Null
  BY DEF MayLink
<1>0. PICK q : q = LinkNode(d, m, x, prev, next).m
  OBVIOUS
<1>1. PICK m1 : m1 = [m EXCEPT ![x].prev = prev, ![x].next = next]
  OBVIOUS
<1>2. PICK m2 : m2 = SetNext(m1, prev, x)
  OBVIOUS
<1>3. q = SetPrev(m2, next, x)
  BY <1>0, <1>1, <1>2 DEF LinkNode, Result
<1>4. m \in [Nodes -> ListNodes \cup {Null}] /\ Null \notin Nodes /\ Null \notin ListNodes
  BY ListAssumption, ListNullAssumption DEF Memories
<1>5. /\ m1 \in [Nodes -> ListNodes \cup {Null}]
      /\ \A y \in Nodes : y # x => m1[y] = m[y]
      /\ m1[x].prev = prev /\ m1[x].next = next /\ m1[x].val = m[x].val /\ m1[x].al = m[x].al
      /\ m1[x] # Null
  <2>1. m[x] \in ListNodes
    BY <1>4
  <2>2. PICK v : v = [[m[x] EXCEPT !.prev = prev] EXCEPT !.next = next]
    OBVIOUS
  <2>3. v \in ListNodes /\ v.prev = prev /\ v.next = next /\ v.val = m[x].val /\ v.al = m[x].al
    BY <2>1, <2>2 DEF ListNodes
  <2>4. m1 = [m EXCEPT ![x] = v]
    BY <1>1, <1>4, <2>2
  <2>5. QED
    BY <1>4, <2>3, <2>4
<1>6. /\ m2 \in [Nodes -> ListNodes \cup {Null}]
      /\ \A y \in Nodes : y # prev => m2[y] = m1[y]
      /\ prev # Null => /\ m2[prev].prev = m1[prev].prev /\ m2[prev].next = x
                        /\ m2[prev].val = m1[prev].val /\ m2[prev].al = m1[prev].al
                        /\ m2[prev] # Null
  <2>1. CASE prev = Null
    BY <1>2, <1>4, <1>5, <2>1 DEF SetNext
  <2>2. CASE prev # Null
    <3>1. m1[prev] \in ListNodes
      BY <1>4, <1>5, <2>2
    <3>2. PICK v : v = [m1[prev] EXCEPT !.next = x]
      OBVIOUS
    <3>3. v \in ListNodes /\ v.prev = m1[prev].prev /\ v.next = x /\ v.val = m1[prev].val /\ v.al = m1[prev].al
      BY <3>1, <3>2 DEF ListNodes
    <3>4. m2 = [m1 EXCEPT ![prev] = v]
      BY <1>2, <1>5, <2>2, <3>2 DEF SetNext
    <3>5. QED
      BY <1>4, <1>5, <2>2, <3>3, <3>4
  <2>3. QED
    BY <2>1, <2>2
<1>7. /\ q \in [Nodes -> ListNodes \cup {Null}]
      /\ \A y \in Nodes : y # next => q[y] = m2[y]
      /\ next # Null => /\ q[next].next = m2[next].next /\ q[next].prev = x
                        /\ q[next].val = m2[next].val /\ q[next].al = m2[next].al
                        /\ q[next] # Null
  <2>1. CASE next = Null
    BY <1>3, <1>4, <1>6, <2>1 DEF SetPrev
  <2>2. CASE next # Null
    <3>1. m2[next] \in ListNodes
      BY <1>4, <1>5, <1>6, <2>2
    <3>2. PICK v : v = [m2[next] EXCEPT !.prev = x]
      OBVIOUS
    <3>3. v \in ListNodes /\ v.next = m2[next].next /\ v.prev = x /\ v.val = m2[next].val /\ v.al = m2[next].al
      BY <3>1, <3>2 DEF ListNodes
    <3>4. q = [m2 EXCEPT ![next] = v]
      BY <1>3, <1>6, <2>2, <3>2 DEF SetPrev
    <3>5. QED
      BY <1>4, <1>6, <2>2, <3>3, <3>4
  <2>3. QED
    BY <2>1, <2>2
<1>8. Rewired(m, q, {x, prev, next})
  <2>1. \A y \in Nodes : y \notin {x, prev, next} => q[y] = m[y]
    BY <1>5, <1>6, <1>7
  <2>2. \A y \in Nodes : y \in {x, prev, next} => m[y] # Null
    BY <1>4
  <2>3. ASSUME NEW y \in Nodes, y \in {x, prev, next}
        PROVE  q[y] # Null /\ q[y].val = m[y].val /\ q[y].al = m[y].al
    BY <1>4, <1>5, <1>6, <1>7, <2>3
  <2>4. QED
    BY <1>7, <2>1, <2>2, <2>3 DEF Rewired, Memories
<1>9. /\ q[x].prev = prev /\ q[x].next = next
      /\ prev # Null => q[prev].next = x /\ q[prev].prev = m[prev].prev
      /\ next # Null => q[next].prev = x /\ q[next].next = m[next].next
  BY <1>4, <1>5, <1>6, <1>7
<1>10. QED
  BY <1>0, <1>8, <1>9 DEF IsLinked

(* x after the first i of the n nodes of s; s without its node i.          *)
PutIn(s, n, i, x) == [k \in 1 .. n + 1 |-> IF k <= i THEN s[k] ELSE IF k = i + 1 THEN x ELSE s[k - 1]]
TakenOut(s, n, i) == [k \in 1 .. n - 1 |-> IF k < i THEN s[k] ELSE s[k + 1]]

(* A line with a node put in.                                              *)
LEMMA PutInIs ==
  ASSUME NEW s, NEW n, IsLine(s, n), NEW i \in 0 .. n, NEW x \in Nodes, x \notin Along(s),
         NEW t, t = PutIn(s, n, i, x)
  PROVE  /\ IsLine(t, n + 1)
         /\ Along(t) = Along(s) \cup {x}
         /\ t[i + 1] = x
         /\ \A k \in 1 .. i : t[k] = s[k]
         /\ \A k \in i + 1 .. n : t[k + 1] = s[k]
         /\ \A k \in 0 .. i : NthOf(t, k) = NthOf(s, k)
         /\ \A k \in i + 1 .. n + 1 : NthOf(t, k + 1) = NthOf(s, k)
         /\ NthOf(t, i + 1) = x
<1>1. n \in Nat /\ s \in [1 .. n -> Nodes] /\ DOMAIN s = 1 .. n /\ \A k, l \in 1 .. n : s[k] = s[l] => k = l
  BY DEF IsLine
<1>2. \A k \in 1 .. n : s[k] # x /\ s[k] \in Nodes
  BY <1>1 DEF Along
<1>3. /\ DOMAIN t = 1 .. n + 1
      /\ t[i + 1] = x
      /\ \A k \in 1 .. i : t[k] = s[k]
      /\ \A k \in i + 1 .. n : t[k + 1] = s[k]
  BY <1>1 DEF PutIn
<1>4. ASSUME NEW k \in 1 .. n + 1
      PROVE  \/ k = i + 1
             \/ k \in 1 .. i /\ k \in 1 .. n
             \/ k - 1 \in i + 1 .. n /\ k - 1 \in 1 .. n /\ (k - 1) + 1 = k
  BY <1>1
<1>5. t \in [1 .. n + 1 -> Nodes]
  <2>1. \A k \in 1 .. n + 1 : t[k] \in Nodes
    BY <1>2, <1>3, <1>4
  <2>2. t = [k \in 1 .. n + 1 |-> t[k]]
    BY DEF PutIn
  <2>3. QED
    BY <2>1, <2>2
<1>6. \A k, l \in 1 .. n + 1 : t[k] = t[l] => k = l
  <2>1. TAKE k, l \in 1 .. n + 1
  <2>2. HAVE t[k] = t[l]
  <2>5. CASE k = i + 1
    BY <1>2, <1>3, <1>4, <2>2, <2>5
  <2>6. CASE k \in 1 .. i /\ k \in 1 .. n
    <3>1. t[k] = s[k]
      BY <1>3, <2>6
    <3>2. l # i + 1
      BY <1>2, <1>3, <2>2, <2>6, <3>1
    <3>3. CASE l \in 1 .. i /\ l \in 1 .. n
      BY <1>1, <1>3, <2>2, <2>6, <3>1, <3>3
    <3>4. CASE l - 1 \in i + 1 .. n /\ l - 1 \in 1 .. n /\ (l - 1) + 1 = l
      <4>1. t[l] = s[l - 1]
        BY <1>3, <3>4
      <4>2. k = l - 1
        BY <1>1, <2>2, <2>6, <3>1, <3>4, <4>1
      <4>3. QED
        BY <1>1, <2>6, <3>4, <4>2
    <3>5. QED
      BY <1>4, <3>2, <3>3, <3>4
  <2>7. CASE k - 1 \in i + 1 .. n /\ k - 1 \in 1 .. n /\ (k - 1) + 1 = k
    <3>1. t[k] = s[k - 1]
      BY <1>3, <2>7
    <3>2. ASSUME l \in 1 .. i
          PROVE  FALSE
      <4>1. t[l] = s[l] /\ l \in 1 .. n
        BY <1>1, <1>3, <3>2
      <4>2. k - 1 = l
        BY <1>1, <2>2, <2>7, <3>1, <4>1
      <4>3. QED
        BY <1>1, <2>7, <3>2, <4>2
    <3>3. l # i + 1
      BY <1>2, <1>3, <2>2, <2>7, <3>1
    <3>4. t[l] = s[l - 1] /\ l - 1 \in 1 .. n
      BY <1>3, <1>4, <3>2, <3>3
    <3>5. k - 1 = l - 1
      BY <1>1, <2>2, <2>7, <3>1, <3>4
    <3>6. QED
      BY <3>5
  <2>8. QED
    BY <1>4, <2>5, <2>6, <2>7
<1>7. Along(t) = Along(s) \cup {x}
  <2>1. ASSUME NEW k \in 1 .. n + 1
        PROVE  t[k] \in Along(s) \cup {x}
    BY <1>1, <1>3, <1>4 DEF Along
  <2>2. ASSUME NEW k \in 1 .. n
        PROVE  s[k] \in Along(t)
    <3>1. CASE k <= i
      <4>1. t[k] = s[k] /\ k \in DOMAIN t
        BY <1>1, <1>3, <3>1
      <4>2. QED
        BY <4>1 DEF Along
    <3>2. CASE ~(k <= i)
      <4>1. t[k + 1] = s[k] /\ k + 1 \in DOMAIN t
        BY <1>1, <1>3, <3>2
      <4>2. QED
        BY <4>1 DEF Along
    <3>3. QED
      BY <3>1, <3>2
  <2>3. x \in Along(t)
    <3>1. i + 1 \in DOMAIN t
      BY <1>1, <1>3
    <3>2. QED
      BY <1>3, <3>1 DEF Along
  <2>4. QED
    BY <1>1, <1>3, <2>1, <2>2, <2>3 DEF Along
<1>8. ASSUME NEW k \in 0 .. i
      PROVE  NthOf(t, k) = NthOf(s, k)
  <2>1. k \in DOMAIN t <=> k \in DOMAIN s
    BY <1>1, <1>3
  <2>2. k \in DOMAIN s => t[k] = s[k]
    BY <1>1, <1>3
  <2>3. QED
    BY <2>1, <2>2 DEF NthOf
<1>9. ASSUME NEW k \in i + 1 .. n + 1
      PROVE  NthOf(t, k + 1) = NthOf(s, k)
  <2>1. k + 1 \in DOMAIN t <=> k \in DOMAIN s
    BY <1>1, <1>3
  <2>2. k \in DOMAIN s => t[k + 1] = s[k]
    BY <1>1, <1>3
  <2>3. QED
    BY <2>1, <2>2 DEF NthOf
<1>10. NthOf(t, i + 1) = x
  <2>1. i + 1 \in DOMAIN t
    BY <1>1, <1>3
  <2>2. QED
    BY <1>3, <2>1 DEF NthOf
<1>11. IsLine(t, n + 1)
  BY <1>1, <1>5, <1>6 DEF IsLine
<1>12. QED
  BY <1>3, <1>7, <1>8, <1>9, <1>10, <1>11

(* link_node puts a node where its neighbours are.                         *)
LEMMA LinkIs ==
  ASSUME NEW m \in Memories, NEW d, NEW s, Holds(d, m, s), NEW i \in 0 .. d.len,
         NEW x \in Nodes, x \notin Along(s), m[x] # Null, m[x].al = d.al,
         NEW r, r = LinkNode(d, m, x, NthOf(s, i), NthOf(s, i + 1)),
         NEW t, t = PutIn(s, d.len, i, x)
  PROVE  /\ Holds(r.d, r.m, t) /\ r.st = OK
         /\ r.d.al = d.al /\ r.d.len = d.len + 1
         /\ Along(t) = Along(s) \cup {x}
         /\ Rewired(m, r.m, Along(t))
<1>1. PICK n : n = d.len
  OBVIOUS
<1>2. /\ d \in Lists /\ n \in Nat /\ s \in [1 .. n -> Nodes] /\ DOMAIN s = 1 .. n /\ d.al \in Als
      /\ \A k \in 1 .. n : s[k] \in Nodes /\ s[k] # Null /\ m[s[k]] # Null
      /\ \A k, l \in 1 .. n : s[k] = s[l] => k = l
  BY <1>1, HoldsIs
<1>20. IsLine(s, n)
  BY <1>1 DEF Holds
<1>3. PICK prev, next : prev = NthOf(s, i) /\ next = NthOf(s, i + 1)
  OBVIOUS
<1>4. /\ i \in 1 .. n => prev = s[i] /\ prev # Null
      /\ i = 0 => prev = Null
      /\ i + 1 \in 1 .. n => next = s[i + 1] /\ next # Null
      /\ i = n => next = Null
      /\ prev \in Nodes \cup {Null} /\ next \in Nodes \cup {Null}
  BY <1>1, <1>2, <1>3, NthIs
<1>5. \A k \in 1 .. n : s[k] # x
  BY <1>2 DEF Along
<1>6. /\ x # prev /\ x # next
      /\ prev = next => prev = Null
      /\ prev # Null => m[prev] # Null
      /\ next # Null => m[next] # Null
  BY <1>1, <1>2, <1>4, <1>5, ListAssumption
<1>7. PICK q : q = r.m
  OBVIOUS
<1>21. q = LinkNode(d, m, x, prev, next).m /\ m[x] # Null /\ x \in Nodes /\ m \in Memories
  BY <1>3, <1>7
<1>8. /\ Rewired(m, q, {x, prev, next})
      /\ q[x].prev = prev /\ q[x].next = next
      /\ prev # Null => q[prev].next = x /\ q[prev].prev = m[prev].prev
      /\ next # Null => q[next].prev = x /\ q[next].next = m[next].next
  <2>1. MayLink(m, x, prev, next)
    BY <1>4, <1>6, <1>21 DEF MayLink
  <2>2. IsLinked(m, q, x, prev, next)
    BY <1>21, <2>1, LinkedMemIs
  <2>3. QED
    BY <2>2 DEF IsLinked
<1>9. /\ IsLine(t, n + 1) /\ Along(t) = Along(s) \cup {x} /\ t[i + 1] = x
      /\ \A k \in 1 .. i : t[k] = s[k]
      /\ \A k \in i + 1 .. n : t[k + 1] = s[k]
      /\ \A k \in 0 .. i : NthOf(t, k) = NthOf(s, k)
      /\ \A k \in i + 1 .. n + 1 : NthOf(t, k + 1) = NthOf(s, k)
      /\ NthOf(t, i + 1) = x
  BY <1>1, <1>2, <1>20, PutInIs
<1>10. /\ r.d.head = (IF prev = Null THEN x ELSE d.head)
       /\ r.d.tail = (IF next = Null THEN x ELSE d.tail)
       /\ r.d.len = n + 1 /\ r.d.al = d.al /\ r.d \in Lists /\ r.st = OK
  <2>1. PICK e : e = [d EXCEPT !.head = IF prev = Null THEN x ELSE @,
                               !.tail = IF next = Null THEN x ELSE @,
                               !.len  = @ + 1]
    OBVIOUS
  <2>2. r.d = e /\ r.st = OK
    BY <1>3, <2>1 DEF LinkNode, Result
  <2>3. d \in [head : Nodes \cup {Null}, tail : Nodes \cup {Null}, len : Nat, al : Als]
    BY <1>2 DEF Lists
  <2>4. /\ e.head = (IF prev = Null THEN x ELSE d.head)
        /\ e.tail = (IF next = Null THEN x ELSE d.tail)
        /\ e.len = d.len + 1 /\ e.al = d.al
        /\ e \in [head : Nodes \cup {Null}, tail : Nodes \cup {Null}, len : Nat, al : Als]
    <3>1. e = [head |-> IF prev = Null THEN x ELSE d.head, tail |-> IF next = Null THEN x ELSE d.tail,
               len |-> d.len + 1, al |-> d.al]
      BY <2>1, <2>3
    <3>2. d.len + 1 \in Nat /\ d.head \in Nodes \cup {Null} /\ d.tail \in Nodes \cup {Null} /\ d.al \in Als
      BY <2>3
    <3>3. /\ (IF prev = Null THEN x ELSE d.head) \in Nodes \cup {Null}
          /\ (IF next = Null THEN x ELSE d.tail) \in Nodes \cup {Null}
      BY <3>2
    <3>4. QED
      BY <3>1, <3>2, <3>3
  <2>5. QED
    BY <1>1, <2>2, <2>4 DEF Lists
<1>11. \A k \in 1 .. n : /\ m[s[k]].next = NthOf(s, k + 1) /\ m[s[k]].prev = NthOf(s, k - 1)
                         /\ m[s[k]].al = d.al
  BY <1>1 DEF Holds
<1>12. /\ q \in [Nodes -> ListNodes \cup {Null}]
       /\ \A y \in Nodes : y \notin {x, prev, next} => q[y] = m[y]
       /\ \A y \in Nodes : m[y] # Null => q[y] # Null /\ q[y].al = m[y].al
  BY <1>8 DEF Rewired, Memories
<1>13. ASSUME NEW k \in 1 .. n
       PROVE  /\ q[s[k]] \in ListNodes /\ q[s[k]].al = d.al
              /\ q[s[k]].next = IF k = i THEN x ELSE NthOf(s, k + 1)
              /\ q[s[k]].prev = IF k = i + 1 THEN x ELSE NthOf(s, k - 1)
  <2>1. q[s[k]] \in ListNodes /\ q[s[k]].al = d.al
    BY <1>2, <1>11, <1>12
  <2>2. CASE k = i
    <3>1. prev = s[k] /\ prev # Null /\ k # i + 1
      BY <1>1, <1>2, <1>4, <2>2
    <3>2. QED
      BY <1>8, <1>11, <2>1, <2>2, <3>1
  <2>3. CASE k = i + 1
    <3>1. next = s[k] /\ next # Null /\ k # i
      BY <1>1, <1>2, <1>4, <2>3
    <3>2. QED
      BY <1>8, <1>11, <2>1, <2>3, <3>1
  <2>4. CASE k # i /\ k # i + 1
    <3>1. s[k] # prev /\ s[k] # next /\ s[k] # x
      BY <1>1, <1>2, <1>4, <1>5, <2>4
    <3>2. q[s[k]] = m[s[k]]
      BY <1>2, <1>12, <3>1
    <3>3. QED
      BY <1>11, <2>1, <2>4, <3>2
  <2>5. QED
    BY <2>2, <2>3, <2>4
<1>14. ASSUME NEW k \in 1 .. n + 1
       PROVE  /\ q[t[k]] \in ListNodes /\ q[t[k]].al = r.d.al
              /\ q[t[k]].next = NthOf(t, k + 1)
              /\ q[t[k]].prev = NthOf(t, k - 1)
  <2>1. CASE k = i + 1
    <3>1. t[k] = x /\ q[x] \in ListNodes /\ q[x].al = d.al
      BY <1>9, <1>12, <2>1
    <3>2. i + 1 \in i + 1 .. n + 1 /\ i \in 0 .. i
      BY <1>1, <1>2
    <3>3. NthOf(t, (i + 1) + 1) = next /\ NthOf(t, i) = prev
      BY <1>3, <1>9, <3>2
    <3>4. k - 1 = i
      BY <1>1, <1>2, <2>1
    <3>5. QED
      BY <1>8, <1>10, <2>1, <3>1, <3>3, <3>4
  <2>2. CASE k <= i
    <3>1. k \in 1 .. i /\ k \in 1 .. n /\ k # i + 1 /\ k - 1 \in 0 .. i
      BY <1>1, <1>2, <2>2
    <3>2. t[k] = s[k] /\ NthOf(t, k - 1) = NthOf(s, k - 1)
      BY <1>9, <3>1
    <3>3. CASE k = i
      BY <1>9, <1>10, <1>13, <3>1, <3>2, <3>3
    <3>4. CASE k # i
      <4>1. k + 1 \in 0 .. i
        BY <1>1, <1>2, <3>1, <3>4
      <4>2. NthOf(t, k + 1) = NthOf(s, k + 1)
        BY <1>9, <4>1
      <4>3. QED
        BY <1>10, <1>13, <3>1, <3>2, <3>4, <4>2
    <3>5. QED
      BY <3>3, <3>4
  <2>3. CASE k > i + 1
    <3>1. PICK l : l = k - 1 /\ l \in i + 1 .. n /\ l \in 1 .. n /\ k = l + 1 /\ l # i /\ l + 1 \in i + 1 .. n + 1
      BY <1>1, <1>2, <2>3
    <3>2. t[k] = s[l] /\ NthOf(t, k + 1) = NthOf(s, l + 1)
      BY <1>9, <3>1
    <3>3. CASE l = i + 1
      BY <1>9, <1>10, <1>13, <3>1, <3>2, <3>3
    <3>4. CASE l # i + 1
      <4>1. l - 1 \in i + 1 .. n + 1 /\ (l - 1) + 1 = k - 1
        BY <1>1, <1>2, <3>1, <3>4
      <4>2. NthOf(t, k - 1) = NthOf(s, l - 1)
        BY <1>9, <4>1
      <4>3. QED
        BY <1>10, <1>13, <3>1, <3>2, <3>4, <4>2
    <3>5. QED
      BY <3>3, <3>4
  <2>4. QED
    BY <1>1, <1>2, <2>1, <2>2, <2>3
<1>15. r.d.head = NthOf(t, 1) /\ r.d.tail = NthOf(t, n + 1)
  <2>1. d.head = NthOf(s, 1) /\ d.tail = NthOf(s, n)
    BY <1>1 DEF Holds
  <2>2. r.d.head = NthOf(t, 1)
    <3>1. CASE i = 0
      BY <1>4, <1>9, <1>10, <3>1
    <3>2. CASE i # 0
      <4>1. 1 \in 0 .. i /\ i \in 1 .. n
        BY <1>1, <1>2, <3>2
      <4>2. QED
        BY <1>4, <1>9, <1>10, <2>1, <4>1
    <3>3. QED
      BY <3>1, <3>2
  <2>3. r.d.tail = NthOf(t, n + 1)
    <3>1. CASE i = n
      BY <1>4, <1>9, <1>10, <3>1
    <3>2. CASE i # n
      <4>1. n \in i + 1 .. n + 1 /\ i + 1 \in 1 .. n
        BY <1>1, <1>2, <3>2
      <4>2. QED
        BY <1>4, <1>9, <1>10, <2>1, <4>1
    <3>3. QED
      BY <3>1, <3>2
  <2>4. QED
    BY <2>2, <2>3
<1>16. Holds(r.d, r.m, t)
  BY <1>7, <1>9, <1>10, <1>14, <1>15 DEF Holds
<1>17. Rewired(m, r.m, Along(t))
  <2>1. \A y \in Nodes : y \in {x, prev, next} => y \in Along(t)
    <3>1. prev \in Nodes => i \in 1 .. n
      BY <1>1, <1>2, <1>4, ListAssumption
    <3>2. next \in Nodes => i + 1 \in 1 .. n
      BY <1>1, <1>2, <1>4, ListAssumption
    <3>3. \A k \in 1 .. n : s[k] \in Along(t)
      BY <1>2, <1>9 DEF Along
    <3>4. QED
      BY <1>4, <1>9, <3>1, <3>2, <3>3
  <2>2. QED
    BY <1>7, <1>8, <2>1 DEF Rewired
<1>18. QED
  BY <1>1, <1>9, <1>10, <1>16, <1>17

(* From m to q the next link of one node and the prev link of another were *)
(* set to a and to b.                                                      *)
MaySet(m, prev, next, a, b) ==
  /\ prev \in Nodes \cup {Null} /\ next \in Nodes \cup {Null}
  /\ a \in Nodes \cup {Null} /\ b \in Nodes \cup {Null}
  /\ prev = next => prev = Null
  /\ prev # Null => m[prev] # Null
  /\ next # Null => m[next] # Null

AreSet(m, q, prev, next, a, b) ==
  /\ Rewired(m, q, {prev, next})
  /\ prev # Null => q[prev].next = a /\ q[prev].prev = m[prev].prev
  /\ next # Null => q[next].prev = b /\ q[next].next = m[next].next

(* Two links set, one after the other.                                     *)
LEMMA SetLinksAre ==
  ASSUME NEW m \in Memories, NEW prev, NEW next, NEW a, NEW b, MaySet(m, prev, next, a, b)
  PROVE  AreSet(m, SetPrev(SetNext(m, prev, a), next, b), prev, next, a, b)
<1>. /\ prev \in Nodes \cup {Null} /\ next \in Nodes \cup {Null}
     /\ a \in Nodes \cup {Null} /\ b \in Nodes \cup {Null}
     /\ prev = next => prev = Null
     /\ prev # Null => m[prev] # Null
     /\ next # Null => m[next] # Null
  BY DEF MaySet
<1>1. PICK m2 : m2 = SetNext(m, prev, a)
  OBVIOUS
<1>2. PICK q : q = SetPrev(m2, next, b)
  OBVIOUS
<1>3. m \in [Nodes -> ListNodes \cup {Null}] /\ Null \notin Nodes /\ Null \notin ListNodes
  BY ListAssumption, ListNullAssumption DEF Memories
<1>4. /\ m2 \in [Nodes -> ListNodes \cup {Null}]
      /\ \A y \in Nodes : y # prev => m2[y] = m[y]
      /\ prev # Null => /\ m2[prev].prev = m[prev].prev /\ m2[prev].next = a
                        /\ m2[prev].val = m[prev].val /\ m2[prev].al = m[prev].al
                        /\ m2[prev] # Null
  <2>1. CASE prev = Null
    BY <1>1, <1>3, <2>1 DEF SetNext
  <2>2. CASE prev # Null
    <3>1. m[prev] \in ListNodes
      BY <1>3, <2>2
    <3>2. PICK v : v = [m[prev] EXCEPT !.next = a]
      OBVIOUS
    <3>3. v \in ListNodes /\ v.prev = m[prev].prev /\ v.next = a /\ v.val = m[prev].val /\ v.al = m[prev].al
      BY <3>1, <3>2 DEF ListNodes
    <3>4. m2 = [m EXCEPT ![prev] = v]
      BY <1>1, <1>3, <2>2, <3>2 DEF SetNext
    <3>5. QED
      BY <1>3, <2>2, <3>3, <3>4
  <2>3. QED
    BY <2>1, <2>2
<1>5. /\ q \in [Nodes -> ListNodes \cup {Null}]
      /\ \A y \in Nodes : y # next => q[y] = m2[y]
      /\ next # Null => /\ q[next].next = m2[next].next /\ q[next].prev = b
                        /\ q[next].val = m2[next].val /\ q[next].al = m2[next].al
                        /\ q[next] # Null
  <2>1. CASE next = Null
    BY <1>2, <1>3, <1>4, <2>1 DEF SetPrev
  <2>2. CASE next # Null
    <3>1. m2[next] \in ListNodes
      BY <1>3, <1>4, <2>2
    <3>2. PICK v : v = [m2[next] EXCEPT !.prev = b]
      OBVIOUS
    <3>3. v \in ListNodes /\ v.next = m2[next].next /\ v.prev = b /\ v.val = m2[next].val /\ v.al = m2[next].al
      BY <3>1, <3>2 DEF ListNodes
    <3>4. q = [m2 EXCEPT ![next] = v]
      BY <1>2, <1>4, <2>2, <3>2 DEF SetPrev
    <3>5. QED
      BY <1>3, <1>4, <2>2, <3>3, <3>4
  <2>3. QED
    BY <2>1, <2>2
<1>6. Rewired(m, q, {prev, next})
  <2>1. \A y \in Nodes : y \notin {prev, next} => q[y] = m[y]
    BY <1>4, <1>5
  <2>2. \A y \in Nodes : y \in {prev, next} => m[y] # Null
    BY <1>3
  <2>3. ASSUME NEW y \in Nodes, y \in {prev, next}
        PROVE  q[y] # Null /\ q[y].val = m[y].val /\ q[y].al = m[y].al
    BY <1>3, <1>4, <1>5, <2>3
  <2>4. QED
    BY <1>5, <2>1, <2>2, <2>3 DEF Rewired, Memories
<1>7. /\ prev # Null => q[prev].next = a /\ q[prev].prev = m[prev].prev
      /\ next # Null => q[next].prev = b /\ q[next].next = m[next].next
  BY <1>3, <1>4, <1>5
<1>8. QED
  BY <1>1, <1>2, <1>6, <1>7 DEF AreSet

(* A line with a node taken out.                                           *)
LEMMA TakenOutIs ==
  ASSUME NEW s, NEW n, IsLine(s, n), NEW i \in 1 .. n, NEW t, t = TakenOut(s, n, i)
  PROVE  /\ IsLine(t, n - 1)
         /\ Along(t) = Along(s) \ {s[i]}
         /\ \A k \in 1 .. i - 1 : t[k] = s[k]
         /\ \A k \in i .. n - 1 : t[k] = s[k + 1]
         /\ \A k \in 0 .. i - 1 : NthOf(t, k) = NthOf(s, k)
         /\ \A k \in i .. n : NthOf(t, k) = NthOf(s, k + 1)
<1>1. n \in Nat /\ s \in [1 .. n -> Nodes] /\ DOMAIN s = 1 .. n /\ \A k, l \in 1 .. n : s[k] = s[l] => k = l
  BY DEF IsLine
<1>2. /\ DOMAIN t = 1 .. n - 1
      /\ \A k \in 1 .. i - 1 : t[k] = s[k]
      /\ \A k \in i .. n - 1 : t[k] = s[k + 1]
  BY <1>1 DEF TakenOut
<1>3. PICK to : to = [k \in 1 .. n - 1 |-> IF k < i THEN k ELSE k + 1]
  OBVIOUS
<1>4. /\ \A k \in 1 .. n - 1 : to[k] \in 1 .. n /\ to[k] # i /\ t[k] = s[to[k]]
      /\ \A k, l \in 1 .. n - 1 : to[k] = to[l] => k = l
      /\ \A k \in 1 .. n : k # i => \E l \in 1 .. n - 1 : to[l] = k
  <2>1. \A k \in 1 .. n - 1 : to[k] \in 1 .. n /\ to[k] # i
    BY <1>1, <1>3
  <2>2. ASSUME NEW k \in 1 .. n - 1
        PROVE  t[k] = s[to[k]]
    <3>1. to[k] = IF k < i THEN k ELSE k + 1
      BY <1>3
    <3>2. t[k] = IF k < i THEN s[k] ELSE s[k + 1]
      BY DEF TakenOut
    <3>3. QED
      BY <3>1, <3>2
  <2>3. \A k, l \in 1 .. n - 1 : to[k] = to[l] => k = l
    BY <1>1, <1>3
  <2>4. ASSUME NEW k \in 1 .. n, k # i
        PROVE  \E l \in 1 .. n - 1 : to[l] = k
    <3>1. CASE k < i
      <4>1. k \in 1 .. n - 1 /\ to[k] = k
        BY <1>1, <1>3, <3>1
      <4>2. QED
        BY <4>1
    <3>2. CASE ~(k < i)
      <4>1. k - 1 \in 1 .. n - 1 /\ to[k - 1] = k
        BY <1>1, <1>3, <2>4, <3>2
      <4>2. QED
        BY <4>1
    <3>3. QED
      BY <3>1, <3>2
  <2>5. QED
    BY <2>1, <2>2, <2>3, <2>4
<1>5. t \in [1 .. n - 1 -> Nodes]
  <2>1. \A k \in 1 .. n - 1 : t[k] \in Nodes
    BY <1>1, <1>4
  <2>2. t = [k \in 1 .. n - 1 |-> t[k]]
    BY DEF TakenOut
  <2>3. QED
    BY <2>1, <2>2
<1>6. \A k, l \in 1 .. n - 1 : t[k] = t[l] => k = l
  BY <1>1, <1>4
<1>7. Along(t) = Along(s) \ {s[i]}
  <2>1. ASSUME NEW k \in 1 .. n - 1
        PROVE  t[k] \in Along(s) /\ t[k] # s[i]
    <3>1. PICK l \in 1 .. n : l # i /\ t[k] = s[l]
      BY <1>4
    <3>2. QED
      BY <1>1, <3>1 DEF Along
  <2>2. ASSUME NEW k \in 1 .. n, s[k] # s[i]
        PROVE  s[k] \in Along(t)
    <3>1. PICK l \in 1 .. n - 1 : to[l] = k
      BY <1>4, <2>2
    <3>2. t[l] = s[k] /\ l \in DOMAIN t
      BY <1>2, <1>4, <3>1
    <3>3. QED
      BY <3>2 DEF Along
  <2>3. QED
    BY <1>1, <1>2, <2>1, <2>2 DEF Along
<1>8. ASSUME NEW k \in 0 .. i - 1
      PROVE  NthOf(t, k) = NthOf(s, k)
  <2>1. k \in DOMAIN t <=> k \in DOMAIN s
    BY <1>1, <1>2
  <2>2. k \in DOMAIN s => t[k] = s[k]
    BY <1>1, <1>2
  <2>3. QED
    BY <2>1, <2>2 DEF NthOf
<1>9. ASSUME NEW k \in i .. n
      PROVE  NthOf(t, k) = NthOf(s, k + 1)
  <2>1. k \in DOMAIN t <=> k + 1 \in DOMAIN s
    BY <1>1, <1>2
  <2>2. k + 1 \in DOMAIN s => t[k] = s[k + 1]
    BY <1>1, <1>2
  <2>3. QED
    BY <2>1, <2>2 DEF NthOf
<1>10. IsLine(t, n - 1)
  BY <1>1, <1>5, <1>6 DEF IsLine
<1>11. QED
  BY <1>2, <1>7, <1>8, <1>9, <1>10

(* unlink_node leaves the others linked, and the node as it was.           *)
LEMMA UnlinkIs ==
  ASSUME NEW m \in Memories, NEW d, NEW s, Holds(d, m, s), NEW i \in 1 .. d.len,
         NEW r, r = UnlinkNode(d, m, s[i]), NEW t, t = TakenOut(s, d.len, i)
  PROVE  /\ Holds(r.d, r.m, t) /\ r.st = OK
         /\ r.d.al = d.al /\ r.d.len = d.len - 1
         /\ Along(t) = Along(s) \ {s[i]}
         /\ Rewired(m, r.m, Along(t))
<1>1. PICK n : n = d.len
  OBVIOUS
<1>2. /\ d \in Lists /\ n \in Nat /\ s \in [1 .. n -> Nodes] /\ DOMAIN s = 1 .. n /\ d.al \in Als
      /\ \A k \in 1 .. n : s[k] \in Nodes /\ s[k] # Null /\ m[s[k]] # Null
      /\ \A k, l \in 1 .. n : s[k] = s[l] => k = l
  BY <1>1, HoldsIs
<1>3. IsLine(s, n)
  BY <1>1 DEF Holds
<1>4. PICK prev, next : prev = NthOf(s, i - 1) /\ next = NthOf(s, i + 1)
  OBVIOUS
<1>5. /\ i - 1 \in 1 .. n => prev = s[i - 1] /\ prev # Null
      /\ i = 1 => prev = Null
      /\ i + 1 \in 1 .. n => next = s[i + 1] /\ next # Null
      /\ i = n => next = Null
      /\ prev \in Nodes \cup {Null} /\ next \in Nodes \cup {Null}
  BY <1>1, <1>2, <1>4, NthIs
<1>6. \A k \in 1 .. n : /\ m[s[k]].next = NthOf(s, k + 1) /\ m[s[k]].prev = NthOf(s, k - 1)
                        /\ m[s[k]].al = d.al
  BY <1>1 DEF Holds
<1>7. PICK q : q = r.m
  OBVIOUS
<1>8. q = SetPrev(SetNext(m, prev, next), next, prev)
  BY <1>1, <1>4, <1>6, <1>7 DEF UnlinkNode, Result
<1>9. MaySet(m, prev, next, next, prev)
  <2>1. i = 1 \/ i - 1 \in 1 .. n
    BY <1>1, <1>2
  <2>2. i = n \/ i + 1 \in 1 .. n
    BY <1>1, <1>2
  <2>3. prev # Null => m[prev] # Null
    BY <1>2, <1>5, <2>1
  <2>4. next # Null => m[next] # Null
    BY <1>2, <1>5, <2>2
  <2>5. prev = next => prev = Null
    BY <1>1, <1>2, <1>5, <2>1, <2>2
  <2>6. QED
    BY <1>5, <2>3, <2>4, <2>5 DEF MaySet
<1>10. AreSet(m, q, prev, next, next, prev)
  BY <1>8, <1>9, SetLinksAre
<1>11. /\ Rewired(m, q, {prev, next})
       /\ prev # Null => q[prev].next = next /\ q[prev].prev = m[prev].prev
       /\ next # Null => q[next].prev = prev /\ q[next].next = m[next].next
  BY <1>10 DEF AreSet
<1>12. /\ q \in [Nodes -> ListNodes \cup {Null}]
       /\ \A y \in Nodes : y \notin {prev, next} => q[y] = m[y]
       /\ \A y \in Nodes : m[y] # Null => q[y] # Null /\ q[y].al = m[y].al
  BY <1>11 DEF Rewired, Memories
<1>13. /\ IsLine(t, n - 1) /\ Along(t) = Along(s) \ {s[i]}
       /\ \A k \in 1 .. i - 1 : t[k] = s[k]
       /\ \A k \in i .. n - 1 : t[k] = s[k + 1]
       /\ \A k \in 0 .. i - 1 : NthOf(t, k) = NthOf(s, k)
       /\ \A k \in i .. n : NthOf(t, k) = NthOf(s, k + 1)
  BY <1>1, <1>3, TakenOutIs
<1>14. /\ r.d.head = (IF prev = Null THEN next ELSE d.head)
       /\ r.d.tail = (IF next = Null THEN prev ELSE d.tail)
       /\ r.d.len = n - 1 /\ r.d.al = d.al /\ r.d \in Lists /\ r.st = OK
  <2>1. PICK e : e = [d EXCEPT !.head = IF prev = Null THEN next ELSE @,
                               !.tail = IF next = Null THEN prev ELSE @,
                               !.len  = @ - 1]
    OBVIOUS
  <2>2. r.d = e /\ r.st = OK
    BY <1>1, <1>4, <1>6, <2>1 DEF UnlinkNode, Result
  <2>3. d \in [head : Nodes \cup {Null}, tail : Nodes \cup {Null}, len : Nat, al : Als]
    BY <1>2 DEF Lists
  <2>4. e = [head |-> IF prev = Null THEN next ELSE d.head, tail |-> IF next = Null THEN prev ELSE d.tail,
             len |-> d.len - 1, al |-> d.al]
    BY <2>1, <2>3
  <2>5. d.len - 1 \in Nat /\ d.head \in Nodes \cup {Null} /\ d.tail \in Nodes \cup {Null} /\ d.al \in Als
    BY <1>1, <2>3
  <2>6. /\ (IF prev = Null THEN next ELSE d.head) \in Nodes \cup {Null}
        /\ (IF next = Null THEN prev ELSE d.tail) \in Nodes \cup {Null}
    BY <1>5, <2>5
  <2>7. QED
    BY <1>1, <2>2, <2>4, <2>5, <2>6 DEF Lists
<1>15. ASSUME NEW k \in 1 .. n, k # i
       PROVE  /\ q[s[k]] \in ListNodes /\ q[s[k]].al = d.al
              /\ q[s[k]].next = IF k = i - 1 THEN next ELSE NthOf(s, k + 1)
              /\ q[s[k]].prev = IF k = i + 1 THEN prev ELSE NthOf(s, k - 1)
  <2>1. q[s[k]] \in ListNodes /\ q[s[k]].al = d.al
    BY <1>2, <1>6, <1>12
  <2>2. CASE k = i - 1
    <3>1. prev = s[k] /\ prev # Null /\ k # i + 1
      BY <1>1, <1>2, <1>5, <2>2
    <3>2. QED
      BY <1>6, <1>11, <2>1, <2>2, <3>1
  <2>3. CASE k = i + 1
    <3>1. next = s[k] /\ next # Null /\ k # i - 1
      BY <1>1, <1>2, <1>5, <2>3
    <3>2. QED
      BY <1>6, <1>11, <2>1, <2>3, <3>1
  <2>4. CASE k # i - 1 /\ k # i + 1
    <3>1. prev # s[k]
      <4>1. i = 1 \/ i - 1 \in 1 .. n
        BY <1>1, <1>2
      <4>2. QED
        BY <1>2, <1>5, <2>4, <4>1
    <3>2. next # s[k]
      <4>1. i = n \/ i + 1 \in 1 .. n
        BY <1>1, <1>2
      <4>2. QED
        BY <1>2, <1>5, <2>4, <4>1
    <3>3. q[s[k]] = m[s[k]]
      BY <1>2, <1>12, <3>1, <3>2
    <3>4. QED
      BY <1>6, <2>1, <2>4, <3>3
  <2>5. QED
    BY <2>2, <2>3, <2>4
<1>16. ASSUME NEW k \in 1 .. n - 1
       PROVE  /\ q[t[k]] \in ListNodes /\ q[t[k]].al = r.d.al
              /\ q[t[k]].next = NthOf(t, k + 1)
              /\ q[t[k]].prev = NthOf(t, k - 1)
  <2>1. CASE k < i
    <3>1. k \in 1 .. i - 1 /\ k \in 1 .. n /\ k # i /\ k # i + 1 /\ k - 1 \in 0 .. i - 1
      BY <1>1, <1>2, <2>1
    <3>2. t[k] = s[k] /\ NthOf(t, k - 1) = NthOf(s, k - 1)
      BY <1>13, <3>1
    <3>3. NthOf(t, k + 1) = IF k = i - 1 THEN next ELSE NthOf(s, k + 1)
      <4>1. CASE k = i - 1
        <5>1. k + 1 = i /\ i \in i .. n
          BY <1>1, <1>2, <4>1
        <5>2. QED
          BY <1>4, <1>13, <4>1, <5>1
      <4>2. CASE k # i - 1
        <5>1. k + 1 \in 0 .. i - 1
          BY <1>1, <1>2, <3>1, <4>2
        <5>2. QED
          BY <1>13, <4>2, <5>1
      <4>3. QED
        BY <4>1, <4>2
    <3>4. QED
      BY <1>14, <1>15, <3>1, <3>2, <3>3
  <2>2. CASE ~(k < i)
    <3>1. PICK l : l = k + 1 /\ l \in 1 .. n /\ l # i /\ l # i - 1 /\ k \in i .. n - 1 /\ k \in i .. n /\ l \in i .. n
      BY <1>1, <1>2, <2>2
    <3>2. t[k] = s[l] /\ NthOf(t, k + 1) = NthOf(s, l + 1)
      BY <1>13, <3>1
    <3>3. NthOf(t, k - 1) = IF l = i + 1 THEN prev ELSE NthOf(s, l - 1)
      <4>1. CASE l = i + 1
        <5>1. k = i /\ i - 1 \in 0 .. i - 1
          BY <1>1, <1>2, <3>1, <4>1
        <5>2. QED
          BY <1>4, <1>13, <4>1, <5>1
      <4>2. CASE l # i + 1
        <5>1. k - 1 \in i .. n /\ (k - 1) + 1 = l - 1
          BY <1>1, <1>2, <3>1, <4>2
        <5>2. QED
          BY <1>13, <4>2, <5>1
      <4>3. QED
        BY <4>1, <4>2
    <3>4. q[s[l]].next = NthOf(s, l + 1)
      BY <1>15, <3>1
    <3>5. QED
      BY <1>14, <1>15, <3>1, <3>2, <3>3, <3>4
  <2>3. QED
    BY <2>1, <2>2
<1>17. r.d.head = NthOf(t, 1) /\ r.d.tail = NthOf(t, n - 1)
  <2>1. d.head = NthOf(s, 1) /\ d.tail = NthOf(s, n)
    BY <1>1 DEF Holds
  <2>2. r.d.head = NthOf(t, 1)
    <3>1. CASE i = 1
      <4>1. 1 \in i .. n
        BY <1>1, <1>2, <3>1
      <4>2. QED
        BY <1>4, <1>5, <1>13, <1>14, <3>1, <4>1
    <3>2. CASE i # 1
      <4>1. 1 \in 0 .. i - 1 /\ i - 1 \in 1 .. n
        BY <1>1, <1>2, <3>2
      <4>2. QED
        BY <1>5, <1>13, <1>14, <2>1, <4>1
    <3>3. QED
      BY <3>1, <3>2
  <2>3. r.d.tail = NthOf(t, n - 1)
    <3>1. CASE i = n
      <4>1. n - 1 \in 0 .. i - 1
        BY <1>1, <1>2, <3>1
      <4>2. QED
        BY <1>4, <1>5, <1>13, <1>14, <3>1, <4>1
    <3>2. CASE i # n
      <4>1. n - 1 \in i .. n /\ i + 1 \in 1 .. n /\ (n - 1) + 1 = n
        BY <1>1, <1>2, <3>2
      <4>2. QED
        BY <1>5, <1>13, <1>14, <2>1, <4>1
    <3>3. QED
      BY <3>1, <3>2
  <2>4. QED
    BY <2>2, <2>3
<1>18. Holds(r.d, r.m, t)
  BY <1>7, <1>13, <1>14, <1>16, <1>17 DEF Holds
<1>19. Rewired(m, r.m, Along(t))
  <2>1. prev \in Nodes => prev \in Along(t)
    <3>1. prev \in Nodes => i - 1 \in 1 .. n
      BY <1>1, <1>2, <1>5, ListAssumption
    <3>2. i - 1 \in 1 .. n => s[i - 1] \in Along(s) /\ s[i - 1] # s[i]
      BY <1>1, <1>2 DEF Along
    <3>3. QED
      BY <1>5, <1>13, <3>1, <3>2
  <2>2. next \in Nodes => next \in Along(t)
    <3>1. next \in Nodes => i + 1 \in 1 .. n
      BY <1>1, <1>2, <1>5, ListAssumption
    <3>2. i + 1 \in 1 .. n => s[i + 1] \in Along(s) /\ s[i + 1] # s[i]
      BY <1>1, <1>2 DEF Along
    <3>3. QED
      BY <1>5, <1>13, <3>1, <3>2
  <2>3. \A y \in Nodes : y \in {prev, next} => y \in Along(t)
    BY <2>1, <2>2
  <2>4. QED
    BY <1>7, <1>11, <2>3 DEF Rewired
<1>20. QED
  BY <1>1, <1>13, <1>14, <1>18, <1>19

-----------------------------------------------------------------------------
(* Nodes lent and given back.                                              *)

(* From m to q the nodes F became the nodes G; the others are as they      *)
(* were, what G has anew was free, and what it lacks is.                   *)
Swapped(F, m, G, q) ==
  /\ q \in Memories
  /\ \A y \in Nodes : y \notin F /\ y \notin G => q[y] = m[y]
  /\ \A y \in Nodes : y \in G /\ y \notin F => m[y] = Null
  /\ \A y \in Nodes : y \in F /\ y \notin G => q[y] = Null

(* A node that was there, and is, has its elem and its lender.             *)
SameElems(m, q) ==
  \A y \in Nodes : m[y] # Null /\ q[y] # Null => q[y].val = m[y].val /\ q[y].al = m[y].al

(* A change of links alone.                                                *)
LEMMA RewiredIsSwapped ==
  ASSUME NEW m, NEW q, NEW A, Rewired(m, q, A)
  PROVE  Swapped(A, m, A, q) /\ SameElems(m, q)
  BY DEF Rewired, Swapped, SameElems

(* One change after the other; what was there in between was before.       *)
LEMMA RewiredTwice ==
  ASSUME NEW m, NEW q, NEW r, NEW A, Rewired(m, q, A), Rewired(q, r, A)
  PROVE  Rewired(m, r, A)
  BY DEF Rewired

(* The line of no nodes.                                                   *)
LEMMA NoLine ==
  /\ IsLine(<<>>, 0) /\ Along(<<>>) = {} /\ \A k : NthOf(<<>>, k) = Null
<1>1. <<>> \in [1 .. 0 -> Nodes]
  OBVIOUS
<1>2. DOMAIN <<>> = {}
  OBVIOUS
<1>3. QED
  BY <1>1, <1>2 DEF IsLine, Along, NthOf

(* A struct of no nodes.                                                   *)
LEMMA EmptyHolds ==
  ASSUME NEW d, NEW m, d \in Lists, d.head = Null, d.tail = Null, d.len = 0
  PROVE  Holds(d, m, <<>>)
<1>1. \A k \in 1 .. d.len : FALSE
  OBVIOUS
<1>2. QED
  BY <1>1, NoLine DEF Holds

(* A struct made empty has no nodes.                                       *)
LEMMA EmptiedHolds ==
  ASSUME NEW d \in Lists, NEW m
  PROVE  Holds(Emptied(d), m, <<>>) /\ Emptied(d) \in Lists /\ Emptied(d).al = d.al /\ Emptied(d).len = 0
<1>1. d \in [head : Nodes \cup {Null}, tail : Nodes \cup {Null}, len : Nat, al : Als]
  BY DEF Lists
<1>2. Emptied(d) = [head |-> Null, tail |-> Null, len |-> 0, al |-> d.al]
  <2>1. PICK e : e = [d EXCEPT !.head = Null, !.tail = Null, !.len = 0]
    OBVIOUS
  <2>2. e = [head |-> Null, tail |-> Null, len |-> 0, al |-> d.al]
    BY <1>1, <2>1
  <2>3. QED
    BY <2>1, <2>2 DEF Emptied
<1>3. Emptied(d) \in Lists
  BY <1>1, <1>2 DEF Lists
<1>4. Emptied(d).head = Null /\ Emptied(d).tail = Null /\ Emptied(d).len = 0 /\ Emptied(d).al = d.al
  BY <1>2
<1>5. QED
  BY <1>3, <1>4, EmptyHolds

(* So has a new one.                                                       *)
LEMMA NewHolds ==
  ASSUME NEW a \in Als, NEW m
  PROVE  Holds(NewStruct(a), m, <<>>) /\ NewStruct(a) \in Lists /\ NewStruct(a).al = a /\ NewStruct(a).len = 0
<1>1. NewStruct(a) \in Lists
  BY DEF NewStruct, Lists
<1>2. NewStruct(a).head = Null /\ NewStruct(a).tail = Null /\ NewStruct(a).len = 0 /\ NewStruct(a).al = a
  BY DEF NewStruct
<1>3. QED
  BY <1>1, <1>2, EmptyHolds

(* node_new lends a node that was free, or none.                           *)
LEMMA NodeNewIs ==
  ASSUME NEW m \in Memories, NEW a \in Als, NEW val \in Vals, NEW granted, NEW new, new = NodeNew(m, a, val, granted)
  PROVE  \/ new.x = Null /\ new.m = m
         \/ /\ new.x \in Nodes /\ new.x # Null /\ m[new.x] = Null
            /\ new.m \in Memories
            /\ new.m[new.x] # Null /\ new.m[new.x].al = a /\ new.m[new.x].val = val
            /\ \A y \in Nodes : y # new.x => new.m[y] = m[y]
<1>1. PICK x : x = IF granted /\ FreeOf(m) # {} THEN NextOf(m) ELSE Null
  OBVIOUS
<1>2. PICK v : v = [al |-> a, val |-> val, next |-> Null, prev |-> Null]
  OBVIOUS
<1>3. new = [x |-> x, m |-> IF x = Null THEN m ELSE [m EXCEPT ![x] = v]]
  BY <1>1, <1>2 DEF NodeNew
<1>4. new.x = x /\ new.m = (IF x = Null THEN m ELSE [m EXCEPT ![x] = v])
  BY <1>3
<1>5. CASE x = Null
  BY <1>4, <1>5
<1>6. CASE x # Null
  <2>1. granted /\ FreeOf(m) # {} /\ x = Lends[FreeOf(m)]
    BY <1>1, <1>6 DEF NextOf
  <2>2. FreeOf(m) \in SUBSET Nodes
    BY DEF FreeOf
  <2>3. x \in FreeOf(m)
    BY <2>1, <2>2, ListAssumption
  <2>4. x \in Nodes /\ m[x] = Null
    BY <2>3 DEF FreeOf
  <2>5. v \in ListNodes /\ v # Null /\ v.al = a /\ v.val = val
    BY <1>2, ListNullAssumption DEF ListNodes
  <2>6. m \in [Nodes -> ListNodes \cup {Null}]
    BY DEF Memories
  <2>7. new.m = [m EXCEPT ![x] = v]
    BY <1>4, <1>6
  <2>8. new.m \in Memories /\ new.m[x] = v /\ \A y \in Nodes : y # x => new.m[y] = m[y]
    BY <2>4, <2>5, <2>6, <2>7 DEF Memories
  <2>9. QED
    BY <1>4, <1>6, <2>4, <2>5, <2>8
<1>7. QED
  BY <1>5, <1>6

(* One more node with the elem, after the first i, in r.                   *)
OneMore(d, m, s, i, val, r, x) ==
  /\ r.st = OK
  /\ x \in Nodes /\ m[x] = Null
  /\ Holds(r.d, r.m, PutIn(s, d.len, i, x))
  /\ r.d.al = d.al /\ r.d.len = d.len + 1
  /\ Along(PutIn(s, d.len, i, x)) = Along(s) \cup {x}
  /\ Swapped(Along(s), m, Along(s) \cup {x}, r.m)
  /\ SameElems(m, r.m)
  /\ r.m[x] # Null /\ r.m[x].val = val

(* insert_between.                                                         *)
LEMMA InsertIs ==
  ASSUME NEW m \in Memories, NEW d, NEW s, Holds(d, m, s), NEW i \in 0 .. d.len, NEW val \in Vals, NEW granted,
         NEW r, r = InsertBetween(d, m, NthOf(s, i), NthOf(s, i + 1), val, granted)
  PROVE  \/ r.st = NoMem /\ r.d = d /\ r.m = m
         \/ \E x : OneMore(d, m, s, i, val, r, x)
<1>1. PICK new : new = NodeNew(m, d.al, val, granted)
  OBVIOUS
<1>2. d.al \in Als /\ Along(s) \subseteq Nodes /\ \A y \in Along(s) : m[y] # Null
  BY HoldsIs DEF Along
<1>3. CASE new.x = Null
  BY <1>1, <1>3 DEF InsertBetween, Result
<1>4. CASE new.x # Null
  <2>1. PICK x, q : x = new.x /\ q = new.m
    OBVIOUS
  <2>2. /\ x \in Nodes /\ m[x] = Null /\ q \in Memories
        /\ q[x] # Null /\ q[x].al = d.al /\ q[x].val = val
        /\ \A y \in Nodes : y # x => q[y] = m[y]
    BY <1>1, <1>2, <1>4, <2>1, NodeNewIs
  <2>3. x \notin Along(s) /\ \A y \in Along(s) : q[y] = m[y]
    BY <1>2, <2>2
  <2>4. Holds(d, q, s)
    BY <2>3, HoldsStays
  <2>5. r = LinkNode(d, q, x, NthOf(s, i), NthOf(s, i + 1))
    BY <1>1, <1>4, <2>1 DEF InsertBetween
  <2>6. PICK t : t = PutIn(s, d.len, i, x)
    OBVIOUS
  <2>7. /\ Holds(r.d, r.m, t) /\ r.st = OK
        /\ r.d.al = d.al /\ r.d.len = d.len + 1
        /\ Along(t) = Along(s) \cup {x}
        /\ Rewired(q, r.m, Along(t))
    BY <2>2, <2>3, <2>4, <2>5, <2>6, LinkIs
  <2>8. Swapped(Along(s), m, Along(s) \cup {x}, r.m) /\ SameElems(m, r.m) /\ r.m[x] # Null /\ r.m[x].val = val
    BY <2>2, <2>7 DEF Rewired, Swapped, SameElems
  <2>9. OneMore(d, m, s, i, val, r, x)
    BY <2>2, <2>6, <2>7, <2>8 DEF OneMore
  <2>10. QED
    BY <2>9
<1>5. QED
  BY <1>3, <1>4

(* remove_node.                                                            *)
LEMMA RemovedIs ==
  ASSUME NEW m \in Memories, NEW d, NEW s, Holds(d, m, s), NEW i \in 1 .. d.len,
         NEW r, r = Removed(d, m, s[i]), NEW t, t = TakenOut(s, d.len, i)
  PROVE  /\ r.st = OK
         /\ Holds(r.d, r.m, t)
         /\ r.d.al = d.al /\ r.d.len = d.len - 1
         /\ Along(t) = Along(s) \ {s[i]}
         /\ Swapped(Along(s), m, Along(t), r.m)
         /\ SameElems(m, r.m)
<1>1. PICK x : x = s[i]
  OBVIOUS
<1>2. x \in Nodes /\ m[x] # Null /\ x \in Along(s)
  BY <1>1, HoldsIs DEF Along
<1>3. m[x].al = d.al
  BY <1>1 DEF Holds
<1>4. PICK u : u = UnlinkNode(d, m, x)
  OBVIOUS
<1>5. /\ Holds(u.d, u.m, t)
      /\ u.d.al = d.al /\ u.d.len = d.len - 1
      /\ Along(t) = Along(s) \ {x}
      /\ Rewired(m, u.m, Along(t))
  BY <1>1, <1>4, UnlinkIs
<1>6. u.m[x] = m[x] /\ u.m \in Memories
  BY <1>2, <1>5 DEF Rewired
<1>7. r.st = OK /\ r.d = u.d /\ r.m = [u.m EXCEPT ![x] = Null]
  BY <1>1, <1>3, <1>4, <1>6 DEF Removed, Result, GiveBack
<1>8. r.m \in Memories /\ r.m[x] = Null /\ \A y \in Nodes : y # x => r.m[y] = u.m[y]
  BY <1>2, <1>6, <1>7 DEF Memories
<1>9. Along(t) \subseteq Nodes /\ \A y \in Along(t) : r.m[y] = u.m[y]
  BY <1>5, <1>8, HoldsIs
<1>10. Holds(u.d, r.m, t)
  BY <1>5, <1>9, HoldsStays
<1>11. Swapped(Along(s), m, Along(t), r.m) /\ SameElems(m, r.m)
  BY <1>2, <1>5, <1>8 DEF Rewired, Swapped, SameElems
<1>12. QED
  BY <1>1, <1>5, <1>7, <1>10, <1>11

(* clear_nodes gives all nodes back.                                       *)
LEMMA ClearedIs ==
  ASSUME NEW m \in Memories, NEW d, NEW s, Holds(d, m, s), NEW q, q = ClearedMem(d, m)
  PROVE  /\ q \in Memories
         /\ \A y \in Nodes : q[y] = IF y \in Along(s) THEN Null ELSE m[y]
         /\ Swapped(Along(s), m, {}, q)
         /\ SameElems(m, q)
<1>1. NodesOf(d, m) = s
  BY NodesOfIs
<1>2. SE!ToSet(s) = Along(s)
  BY DEF SE!ToSet, Along
<1>3. q = [x \in Nodes |-> IF x \in Along(s) /\ m[x].al = d.al THEN Null ELSE m[x]]
  BY <1>1, <1>2 DEF ClearedMem
<1>4. ASSUME NEW y \in Along(s)
      PROVE  m[y].al = d.al
  <2>1. PICK k \in 1 .. d.len : y = s[k]
    BY HoldsIs DEF Along
  <2>2. QED
    BY <2>1 DEF Holds
<1>5. \A y \in Nodes : q[y] = IF y \in Along(s) THEN Null ELSE m[y]
  BY <1>3, <1>4
<1>6. q \in Memories
  BY <1>3 DEF Memories
<1>7. QED
  BY <1>5, <1>6 DEF Swapped, SameElems

-----------------------------------------------------------------------------
(* Two lists made one.                                                     *)

Joined(s, n, t, l) == [k \in 1 .. n + l |-> IF k <= n THEN s[k] ELSE t[k - n]]

(* Two lines that have no node in common make one.                         *)
LEMMA JoinedIs ==
  ASSUME NEW s, NEW n, IsLine(s, n), NEW t, NEW l, IsLine(t, l), Along(s) \cap Along(t) = {},
         NEW u, u = Joined(s, n, t, l)
  PROVE  /\ IsLine(u, n + l)
         /\ Along(u) = Along(s) \cup Along(t)
         /\ \A k \in 1 .. n : u[k] = s[k]
         /\ \A k \in 1 .. l : u[n + k] = t[k]
         /\ \A k \in 0 .. n : NthOf(u, k) = NthOf(s, k)
         /\ \A k \in 1 .. l + 1 : NthOf(u, n + k) = NthOf(t, k)
<1>1. /\ n \in Nat /\ s \in [1 .. n -> Nodes] /\ DOMAIN s = 1 .. n
      /\ l \in Nat /\ t \in [1 .. l -> Nodes] /\ DOMAIN t = 1 .. l
      /\ \A j, k \in 1 .. n : s[j] = s[k] => j = k
      /\ \A j, k \in 1 .. l : t[j] = t[k] => j = k
  BY DEF IsLine
<1>2. \A j \in 1 .. n, k \in 1 .. l : s[j] # t[k]
  BY <1>1 DEF Along
<1>3. \A k \in 1 .. n : k \in 1 .. n + l /\ u[k] = s[k]
  BY <1>1 DEF Joined
<1>4. \A k \in 1 .. l : n + k \in 1 .. n + l /\ u[n + k] = t[k]
  BY <1>1 DEF Joined
<1>5. ASSUME NEW k \in 1 .. n + l
      PROVE  k \in 1 .. n \/ \E j \in 1 .. l : k = n + j
  <2>1. CASE k <= n
    BY <1>1, <2>1
  <2>2. CASE k > n
    <3>1. k - n \in 1 .. l /\ k = n + (k - n)
      BY <1>1, <2>2
    <3>2. QED
      BY <3>1
  <2>3. QED
    BY <1>1, <2>1, <2>2
<1>6. n + l \in Nat /\ DOMAIN u = 1 .. n + l
  BY <1>1 DEF Joined
<1>7. u \in [1 .. n + l -> Nodes]
  <2>1. ASSUME NEW k \in 1 .. n + l
        PROVE  u[k] \in Nodes
    BY <1>1, <1>3, <1>4, <1>5
  <2>2. u = [k \in 1 .. n + l |-> u[k]]
    BY DEF Joined
  <2>3. QED
    BY <2>1, <2>2
<1>8. ASSUME NEW j \in 1 .. n + l, NEW k \in 1 .. n + l, u[j] = u[k]
      PROVE  j = k
  <2>1. CASE j \in 1 .. n /\ k \in 1 .. n
    BY <1>1, <1>3, <1>8, <2>1
  <2>2. CASE j \in 1 .. n /\ k \notin 1 .. n
    <3>1. PICK b \in 1 .. l : k = n + b
      BY <1>5, <2>2
    <3>2. QED
      BY <1>2, <1>3, <1>4, <1>8, <2>2, <3>1
  <2>3. CASE j \notin 1 .. n /\ k \in 1 .. n
    <3>1. PICK b \in 1 .. l : j = n + b
      BY <1>5, <2>3
    <3>2. QED
      BY <1>2, <1>3, <1>4, <1>8, <2>3, <3>1
  <2>4. CASE j \notin 1 .. n /\ k \notin 1 .. n
    <3>1. PICK a \in 1 .. l : j = n + a
      BY <1>5, <2>4
    <3>2. PICK b \in 1 .. l : k = n + b
      BY <1>5, <2>4
    <3>3. t[a] = t[b]
      BY <1>4, <1>8, <3>1, <3>2
    <3>4. a = b
      BY <1>1, <3>3
    <3>5. QED
      BY <3>1, <3>2, <3>4
  <2>5. QED
    BY <2>1, <2>2, <2>3, <2>4
<1>9. Along(u) = Along(s) \cup Along(t)
  <2>1. ASSUME NEW y \in Along(u)
        PROVE  y \in Along(s) \cup Along(t)
    <3>1. PICK k \in 1 .. n + l : y = u[k]
      BY <1>6 DEF Along
    <3>2. CASE k \in 1 .. n
      BY <1>1, <1>3, <3>1, <3>2 DEF Along
    <3>3. CASE k \notin 1 .. n
      <4>1. PICK j \in 1 .. l : k = n + j
        BY <1>5, <3>3
      <4>2. QED
        BY <1>1, <1>4, <3>1, <4>1 DEF Along
    <3>4. QED
      BY <3>2, <3>3
  <2>2. ASSUME NEW y \in Along(s)
        PROVE  y \in Along(u)
    BY <1>1, <1>3, <1>6, <2>2 DEF Along
  <2>3. ASSUME NEW y \in Along(t)
        PROVE  y \in Along(u)
    <3>1. PICK k \in 1 .. l : y = t[k]
      BY <1>1, <2>3 DEF Along
    <3>2. y = u[n + k] /\ n + k \in 1 .. n + l
      BY <1>4, <3>1
    <3>3. QED
      BY <1>6, <3>2 DEF Along
  <2>4. QED
    BY <2>1, <2>2, <2>3
<1>10. ASSUME NEW k \in 0 .. n
       PROVE  NthOf(u, k) = NthOf(s, k)
  <2>1. CASE k = 0
    <3>1. k \notin 1 .. n /\ k \notin 1 .. n + l
      BY <2>1
    <3>2. QED
      BY <1>1, <1>6, <3>1 DEF NthOf
  <2>2. CASE k # 0
    <3>1. k \in 1 .. n
      BY <1>1, <2>2
    <3>2. QED
      BY <1>1, <1>3, <1>6, <3>1 DEF NthOf
  <2>3. QED
    BY <2>1, <2>2
<1>11. ASSUME NEW k \in 1 .. l + 1
       PROVE  NthOf(u, n + k) = NthOf(t, k)
  <2>1. CASE k = l + 1
    <3>1. k \notin 1 .. l /\ n + k \notin 1 .. n + l
      BY <1>1, <2>1
    <3>2. QED
      BY <1>1, <1>6, <3>1 DEF NthOf
  <2>2. CASE k # l + 1
    <3>1. k \in 1 .. l
      BY <1>1, <2>2
    <3>2. QED
      BY <1>1, <1>4, <1>6, <3>1 DEF NthOf
  <2>3. QED
    BY <2>1, <2>2
<1>12. QED
  BY <1>3, <1>4, <1>6, <1>7, <1>8, <1>9, <1>10, <1>11 DEF IsLine

(* What a struct is that has the nodes of f and, behind them, those of g.  *)
JoinsUp(d, f, g) ==
  /\ d \in Lists
  /\ d.head = f.head /\ d.tail = g.tail
  /\ d.len = f.len + g.len /\ d.al = f.al

MayJoin(m, d, f, s, g, t) ==
  /\ Holds(f, m, s) /\ Holds(g, m, t)
  /\ f.len > 0 /\ g.len > 0 /\ f.al = g.al
  /\ Along(s) \cap Along(t) = {}
  /\ JoinsUp(d, f, g)

IsJoined(m, d, q, s, t, u) ==
  /\ Holds(d, q, u)
  /\ Along(u) = Along(s) \cup Along(t)
  /\ Rewired(m, q, Along(u))

(* The last node of f linked to the first one of g.                        *)
LEMMA JoinIs ==
  ASSUME NEW m \in Memories, NEW d, NEW f, NEW s, NEW g, NEW t, MayJoin(m, d, f, s, g, t)
  PROVE  IsJoined(m, d, SetPrev(SetNext(m, f.tail, g.head), g.head, f.tail), s, t, Joined(s, f.len, t, g.len))
<1>. /\ Holds(f, m, s) /\ Holds(g, m, t)
     /\ f.len > 0 /\ g.len > 0 /\ f.al = g.al
     /\ Along(s) \cap Along(t) = {}
     /\ JoinsUp(d, f, g)
  BY DEF MayJoin
<1>. PICK q, u : q = SetPrev(SetNext(m, f.tail, g.head), g.head, f.tail) /\ u = Joined(s, f.len, t, g.len)
  OBVIOUS
<1>1. PICK n, l : n = f.len /\ l = g.len
  OBVIOUS
<1>2. /\ n \in Nat /\ s \in [1 .. n -> Nodes] /\ DOMAIN s = 1 .. n
      /\ \A k \in 1 .. n : s[k] \in Nodes /\ s[k] # Null /\ m[s[k]] # Null
      /\ \A j, k \in 1 .. n : s[j] = s[k] => j = k
  BY <1>1, HoldsIs
<1>3. /\ l \in Nat /\ t \in [1 .. l -> Nodes] /\ DOMAIN t = 1 .. l
      /\ \A k \in 1 .. l : t[k] \in Nodes /\ t[k] # Null /\ m[t[k]] # Null
      /\ \A j, k \in 1 .. l : t[j] = t[k] => j = k
  BY <1>1, HoldsIs
<1>4. IsLine(s, n) /\ IsLine(t, l)
  BY <1>1 DEF Holds
<1>5. /\ \A k \in 1 .. n : m[s[k]].al = f.al /\ m[s[k]].next = NthOf(s, k + 1) /\ m[s[k]].prev = NthOf(s, k - 1)
      /\ \A k \in 1 .. l : m[t[k]].al = f.al /\ m[t[k]].next = NthOf(t, k + 1) /\ m[t[k]].prev = NthOf(t, k - 1)
      /\ f.head = NthOf(s, 1) /\ f.tail = NthOf(s, n) /\ g.head = NthOf(t, 1) /\ g.tail = NthOf(t, l)
  BY <1>1 DEF Holds
<1>6. n \in 1 .. n /\ 1 \in 1 .. l /\ 1 \in 1 .. n /\ l \in 1 .. l
  BY <1>1, <1>2, <1>3
<1>7. PICK a, b : a = f.tail /\ b = g.head
  OBVIOUS
<1>8. a = s[n] /\ b = t[1] /\ a # b /\ a # Null /\ b # Null /\ a \in Nodes /\ b \in Nodes /\ m[a] # Null /\ m[b] # Null
  <2>1. a = s[n] /\ b = t[1]
    BY <1>2, <1>3, <1>5, <1>6, <1>7 DEF NthOf
  <2>2. s[n] \in Along(s) /\ t[1] \in Along(t)
    BY <1>2, <1>3, <1>6 DEF Along
  <2>3. QED
    BY <1>2, <1>3, <1>6, <2>1, <2>2
<1>9. AreSet(m, q, a, b, b, a)
  <2>1. MaySet(m, a, b, b, a)
    BY <1>8 DEF MaySet
  <2>2. QED
    BY <1>7, <2>1, SetLinksAre
<1>10. /\ Rewired(m, q, {a, b})
       /\ q[a].next = b /\ q[a].prev = m[a].prev
       /\ q[b].prev = a /\ q[b].next = m[b].next
  BY <1>8, <1>9 DEF AreSet
<1>11. /\ q \in [Nodes -> ListNodes \cup {Null}]
       /\ \A y \in Nodes : y \notin {a, b} => q[y] = m[y]
       /\ \A y \in Nodes : m[y] # Null => q[y] # Null /\ q[y].al = m[y].al
  BY <1>10 DEF Rewired, Memories
<1>12. /\ IsLine(u, n + l)
       /\ Along(u) = Along(s) \cup Along(t)
       /\ \A k \in 1 .. n : u[k] = s[k]
       /\ \A k \in 1 .. l : u[n + k] = t[k]
       /\ \A k \in 0 .. n : NthOf(u, k) = NthOf(s, k)
       /\ \A k \in 1 .. l + 1 : NthOf(u, n + k) = NthOf(t, k)
  BY <1>1, <1>4, JoinedIs
<1>13. \A j \in 1 .. n, k \in 1 .. l : s[j] # t[k]
  <2>1. (\A j \in 1 .. n : s[j] \in Along(s)) /\ (\A k \in 1 .. l : t[k] \in Along(t))
    BY <1>2, <1>3 DEF Along
  <2>2. QED
    BY <2>1
<1>14. ASSUME NEW k \in 1 .. n
       PROVE  /\ q[u[k]] \in ListNodes /\ q[u[k]].al = f.al
              /\ q[u[k]].next = NthOf(u, k + 1) /\ q[u[k]].prev = NthOf(u, k - 1)
  <2>1. u[k] = s[k] /\ q[s[k]] \in ListNodes /\ q[s[k]].al = f.al
    <3>1. u[k] = s[k]
      BY <1>12
    <3>2. s[k] \in Nodes /\ m[s[k]] # Null /\ m[s[k]].al = f.al
      BY <1>2, <1>5
    <3>3. q[s[k]] # Null /\ q[s[k]].al = f.al /\ q[s[k]] \in ListNodes \cup {Null}
      BY <1>11, <3>2
    <3>4. QED
      BY <3>1, <3>3
  <2>2. s[k] # b
    BY <1>6, <1>8, <1>13
  <2>3. k - 1 \in 0 .. n /\ NthOf(u, k - 1) = m[s[k]].prev
    <3>1. k - 1 \in 0 .. n
      BY <1>2
    <3>2. QED
      BY <1>5, <1>12, <3>1
  <2>4. CASE k = n
    <3>1. NthOf(u, k + 1) = b
      BY <1>5, <1>6, <1>7, <1>12, <2>4
    <3>2. QED
      BY <1>8, <1>10, <2>1, <2>3, <2>4, <3>1
  <2>5. CASE k # n
    <3>1. k + 1 \in 0 .. n /\ s[k] # a
      BY <1>2, <1>6, <1>8, <2>5
    <3>2. q[s[k]] = m[s[k]]
      BY <1>2, <1>11, <2>2, <3>1
    <3>3. QED
      BY <1>5, <1>12, <2>1, <2>3, <3>1, <3>2
  <2>6. QED
    BY <2>4, <2>5
<1>15. ASSUME NEW k \in 1 .. l
       PROVE  /\ q[t[k]] \in ListNodes /\ q[t[k]].al = f.al
              /\ q[t[k]].next = NthOf(u, n + k + 1) /\ q[t[k]].prev = NthOf(u, n + k - 1)
  <2>1. q[t[k]] \in ListNodes /\ q[t[k]].al = f.al
    BY <1>3, <1>5, <1>11
  <2>2. t[k] # a
    BY <1>6, <1>8, <1>13
  <2>3. NthOf(u, n + k + 1) = m[t[k]].next
    <3>1. k + 1 \in 1 .. l + 1 /\ n + (k + 1) = n + k + 1
      BY <1>2, <1>3
    <3>2. NthOf(u, n + (k + 1)) = NthOf(t, k + 1)
      BY <1>12, <3>1
    <3>3. QED
      BY <1>5, <3>1, <3>2
  <2>4. CASE k = 1
    <3>1. n + k - 1 = n /\ n \in 0 .. n
      BY <1>2, <2>4
    <3>2. NthOf(u, n + k - 1) = a
      BY <1>5, <1>7, <1>12, <3>1
    <3>3. QED
      BY <1>8, <1>10, <2>1, <2>3, <2>4, <3>2
  <2>5. CASE k # 1
    <3>1. k - 1 \in 1 .. l + 1 /\ n + (k - 1) = n + k - 1 /\ t[k] # b
      BY <1>2, <1>3, <1>6, <1>8, <2>5
    <3>2. q[t[k]] = m[t[k]]
      BY <1>3, <1>11, <2>2, <3>1
    <3>3. NthOf(u, n + (k - 1)) = NthOf(t, k - 1)
      BY <1>12, <3>1
    <3>4. QED
      BY <1>5, <2>1, <2>3, <3>1, <3>2, <3>3
  <2>6. QED
    BY <2>4, <2>5
<1>16. ASSUME NEW k \in 1 .. n + l
       PROVE  /\ q[u[k]] \in ListNodes /\ q[u[k]].al = f.al
              /\ q[u[k]].next = NthOf(u, k + 1) /\ q[u[k]].prev = NthOf(u, k - 1)
  <2>1. CASE k <= n
    <3>1. k \in 1 .. n
      BY <1>2, <2>1
    <3>2. QED
      BY <1>14, <3>1
  <2>2. CASE k > n
    <3>1. PICK j : j = k - n /\ j \in 1 .. l /\ k = n + j /\ k + 1 = n + j + 1 /\ k - 1 = n + j - 1
      BY <1>2, <1>3, <2>2
    <3>2. u[k] = t[j]
      BY <1>12, <3>1
    <3>3. /\ q[t[j]] \in ListNodes /\ q[t[j]].al = f.al
          /\ q[t[j]].next = NthOf(u, k + 1) /\ q[t[j]].prev = NthOf(u, k - 1)
      BY <1>15, <3>1
    <3>4. QED
      BY <3>2, <3>3
  <2>3. QED
    BY <1>2, <2>1, <2>2
<1>17. d.len = n + l /\ d.al = f.al /\ d \in Lists /\ d.head = NthOf(u, 1) /\ d.tail = NthOf(u, n + l)
  <2>1. d.len = n + l /\ d.al = f.al /\ d \in Lists /\ d.head = f.head /\ d.tail = g.tail
    BY <1>1 DEF JoinsUp
  <2>2. 1 \in 0 .. n /\ l \in 1 .. l + 1
    BY <1>2, <1>3, <1>6
  <2>3. NthOf(u, 1) = f.head /\ NthOf(u, n + l) = g.tail
    BY <1>5, <1>12, <2>2
  <2>4. QED
    BY <2>1, <2>3
<1>18. Holds(d, q, u)
  BY <1>12, <1>16, <1>17 DEF Holds
<1>19. Rewired(m, q, Along(u))
  <2>1. a \in Along(u) /\ b \in Along(u)
    BY <1>2, <1>3, <1>6, <1>8, <1>12 DEF Along
  <2>2. QED
    BY <1>10, <2>1 DEF Rewired
<1>20. QED
  BY <1>12, <1>18, <1>19 DEF IsJoined

(* splice_nodes.                                                           *)
LEMMA SpliceIs ==
  ASSUME NEW m \in Memories, NEW d, NEW s, Holds(d, m, s), NEW e, NEW t, Holds(e, m, t),
         e.len > 0, d.al = e.al, Along(s) \cap Along(t) = {}, NEW front \in BOOLEAN,
         NEW r, r = SpliceNodes(d, e, m, front)
  PROVE  /\ r.st = OK
         /\ r.d.al = d.al /\ r.d.len = d.len + e.len
         /\ \E u : Holds(r.d, r.m, u) /\ Along(u) = Along(s) \cup Along(t)
         /\ Rewired(m, r.m, Along(s) \cup Along(t))
<1>1. /\ d \in [head : Nodes \cup {Null}, tail : Nodes \cup {Null}, len : Nat, al : Als]
      /\ e \in [head : Nodes \cup {Null}, tail : Nodes \cup {Null}, len : Nat, al : Als]
      /\ s \in [1 .. d.len -> Nodes]
  BY HoldsIs DEF Lists
<1>2. CASE d.len = 0
  <2>1. PICK f : f = [d EXCEPT !.head = e.head, !.tail = e.tail, !.len = @ + e.len]
    OBVIOUS
  <2>2. r.st = OK /\ r.d = f /\ r.m = m
    BY <1>2, <2>1 DEF SpliceNodes, Result
  <2>3. f = [head |-> e.head, tail |-> e.tail, len |-> d.len + e.len, al |-> d.al]
    BY <1>1, <2>1
  <2>4. e = [head |-> e.head, tail |-> e.tail, len |-> e.len, al |-> e.al] /\ d.len + e.len = e.len
    BY <1>1, <1>2
  <2>5. f = e
    BY <2>3, <2>4
  <2>6. Along(s) = {}
    <3>1. 1 .. d.len = {} /\ DOMAIN s = 1 .. d.len
      BY <1>1, <1>2
    <3>2. QED
      BY <3>1 DEF Along
  <2>7. Rewired(m, m, Along(s) \cup Along(t))
    BY DEF Rewired
  <2>8. QED
    BY <2>2, <2>4, <2>5, <2>6, <2>7
<1>3. CASE d.len # 0
  <2>1. PICK fst, snd : fst = (IF front THEN e ELSE d) /\ snd = (IF front THEN d ELSE e)
    OBVIOUS
  <2>2. PICK a, b : a = (IF front THEN t ELSE s) /\ b = (IF front THEN s ELSE t)
    OBVIOUS
  <2>3. PICK f : f = [d EXCEPT !.head = fst.head, !.tail = snd.tail, !.len = @ + e.len]
    OBVIOUS
  <2>4. PICK q : q = SetPrev(SetNext(m, fst.tail, snd.head), snd.head, fst.tail)
    OBVIOUS
  <2>5. r.st = OK /\ r.d = f /\ r.m = q
    BY <1>3, <2>1, <2>3, <2>4 DEF SpliceNodes, Result
  <2>6. f = [head |-> fst.head, tail |-> snd.tail, len |-> d.len + e.len, al |-> d.al]
    BY <1>1, <2>3
  <2>7. /\ Holds(fst, m, a) /\ Holds(snd, m, b) /\ fst.len > 0 /\ snd.len > 0
        /\ fst.al = snd.al /\ fst.al = d.al /\ d.len + e.len = fst.len + snd.len
        /\ fst.head \in Nodes \cup {Null} /\ snd.tail \in Nodes \cup {Null}
        /\ Along(a) \cap Along(b) = {} /\ Along(a) \cup Along(b) = Along(s) \cup Along(t)
    <3>1. CASE front
      BY <1>1, <1>3, <2>1, <2>2, <3>1
    <3>2. CASE ~front
      BY <1>1, <1>3, <2>1, <2>2, <3>2
    <3>3. QED
      BY <3>1, <3>2
  <2>8. JoinsUp(f, fst, snd)
    BY <1>1, <2>6, <2>7 DEF JoinsUp, Lists
  <2>9. PICK u : u = Joined(a, fst.len, b, snd.len)
    OBVIOUS
  <2>10. Holds(f, q, u) /\ Along(u) = Along(a) \cup Along(b) /\ Rewired(m, q, Along(u))
    <3>1. MayJoin(m, f, fst, a, snd, b)
      BY <2>7, <2>8 DEF MayJoin
    <3>2. IsJoined(m, f, q, a, b, u)
      BY <2>4, <2>9, <3>1, JoinIs
    <3>3. QED
      BY <3>2 DEF IsJoined
  <2>11. f.al = d.al /\ f.len = d.len + e.len
    BY <2>6
  <2>12. QED
    BY <2>5, <2>7, <2>10, <2>11
<1>4. QED
  BY <1>2, <1>3

-----------------------------------------------------------------------------
(* One list linked anew.                                                   *)

(* What reverse makes of the struct, and of the memory.                    *)
Turned(d) == [d EXCEPT !.head = d.tail, !.tail = d.head]

TurnedMem(m, A) ==
  [x \in Nodes |-> IF x \in A THEN [m[x] EXCEPT !.next = m[x].prev, !.prev = m[x].next] ELSE m[x]]

(* reverse: the links of its nodes exchanged.                              *)
LEMMA ReversedIs ==
  ASSUME NEW m \in Memories, NEW d, NEW s, Holds(d, m, s),
         NEW f, f = Turned(d), NEW q, q = TurnedMem(m, Along(s))
  PROVE  /\ f.al = d.al /\ f.len = d.len
         /\ \E u : Holds(f, q, u) /\ Along(u) = Along(s)
         /\ Rewired(m, q, Along(s))
<1>1. PICK n : n = d.len
  OBVIOUS
<1>2. /\ n \in Nat /\ d \in Lists /\ s \in [1 .. n -> Nodes] /\ DOMAIN s = 1 .. n
      /\ \A k \in 1 .. n : s[k] \in Nodes /\ m[s[k]] # Null
      /\ Along(s) \subseteq Nodes
  BY <1>1, HoldsIs
<1>3. IsLine(s, n) /\ d.head = NthOf(s, 1) /\ d.tail = NthOf(s, n)
  BY <1>1 DEF Holds
<1>4. PICK u : u = Backwards(s, n)
  OBVIOUS
<1>5. IsLine(u, n) /\ Along(u) = Along(s) /\ \A k \in Int : NthOf(u, k) = NthOf(s, n + 1 - k)
  BY <1>3, <1>4, BackwardsIs
<1>6. f = [head |-> d.tail, tail |-> d.head, len |-> n, al |-> d.al] /\ f \in Lists
  <2>1. d \in [head : Nodes \cup {Null}, tail : Nodes \cup {Null}, len : Nat, al : Als]
    BY <1>2 DEF Lists
  <2>2. f = [head |-> d.tail, tail |-> d.head, len |-> n, al |-> d.al]
    BY <1>1, <2>1 DEF Turned
  <2>3. QED
    BY <1>2, <2>1, <2>2 DEF Lists
<1>7. ASSUME NEW x \in Nodes
      PROVE  /\ q[x] \in ListNodes \cup {Null}
             /\ x \notin Along(s) => q[x] = m[x]
             /\ x \in Along(s) => /\ q[x] \in ListNodes /\ m[x] # Null
                                  /\ q[x].val = m[x].val /\ q[x].al = m[x].al
                                  /\ q[x].next = m[x].prev /\ q[x].prev = m[x].next
  <2>1. m[x] \in ListNodes \cup {Null}
    BY DEF Memories
  <2>2. CASE x \in Along(s)
    <3>1. m[x] # Null
      BY <1>2, <2>2 DEF Along
    <3>2. m[x] \in [al : Als, val : Vals, next : Nodes \cup {Null}, prev : Nodes \cup {Null}]
      BY <2>1, <3>1 DEF ListNodes
    <3>3. PICK y : y = [m[x] EXCEPT !.next = m[x].prev, !.prev = m[x].next]
      OBVIOUS
    <3>4. y = [al |-> m[x].al, val |-> m[x].val, next |-> m[x].prev, prev |-> m[x].next]
      BY <3>2, <3>3
    <3>5. q[x] = y
      BY <2>2, <3>3 DEF TurnedMem
    <3>6. y \in ListNodes
      BY <3>2, <3>4 DEF ListNodes
    <3>7. QED
      BY <2>2, <3>1, <3>4, <3>5, <3>6
  <2>3. CASE x \notin Along(s)
    BY <2>1, <2>3 DEF TurnedMem
  <2>4. QED
    BY <2>2, <2>3
<1>8. q \in Memories
  <2>1. q = [x \in Nodes |-> q[x]]
    BY DEF TurnedMem
  <2>2. QED
    BY <1>7, <2>1 DEF Memories
<1>9. Rewired(m, q, Along(s))
  BY <1>7, <1>8, ListNullAssumption DEF Rewired
<1>10. ASSUME NEW k \in 1 .. n
       PROVE  /\ q[u[k]] \in ListNodes /\ q[u[k]].al = d.al
              /\ q[u[k]].next = NthOf(u, k + 1) /\ q[u[k]].prev = NthOf(u, k - 1)
  <2>1. PICK j : j = n + 1 - k /\ j \in 1 .. n /\ n + 1 - (k + 1) = j - 1 /\ n + 1 - (k - 1) = j + 1
    BY <1>2
  <2>2. u[k] = s[j] /\ s[j] \in Along(s) /\ s[j] \in Nodes
    BY <1>2, <1>4, <2>1 DEF Backwards, Along
  <2>3. m[s[j]].al = d.al /\ m[s[j]].next = NthOf(s, j + 1) /\ m[s[j]].prev = NthOf(s, j - 1)
    BY <1>1, <2>1 DEF Holds
  <2>4. NthOf(u, k + 1) = NthOf(s, n + 1 - (k + 1)) /\ NthOf(u, k - 1) = NthOf(s, n + 1 - (k - 1))
    BY <1>5
  <2>5. QED
    BY <1>7, <2>1, <2>2, <2>3, <2>4
<1>11. f.head = NthOf(u, 1) /\ f.tail = NthOf(u, n)
  <2>1. n + 1 - 1 = n /\ n + 1 - n = 1
    BY <1>2
  <2>2. QED
    BY <1>2, <1>3, <1>5, <1>6, <2>1
<1>12. Holds(f, q, u)
  <2>1. f.len = n /\ f.al = d.al
    BY <1>6
  <2>2. QED
    BY <1>5, <1>6, <1>10, <1>11, <2>1 DEF Holds
<1>13. QED
  BY <1>1, <1>5, <1>6, <1>9, <1>12

(* The elems of the nodes A changed, from m to q, and nothing else.        *)
Rewritten(m, q, A) ==
  /\ q \in Memories
  /\ \A y \in Nodes : y \notin A => q[y] = m[y]
  /\ \A y \in Nodes : m[y] = Null <=> q[y] = Null
  /\ \A y \in Nodes : m[y] # Null => q[y].al = m[y].al /\ q[y].next = m[y].next /\ q[y].prev = m[y].prev

(* Elems are not what a line is held by.                                   *)
LEMMA RewrittenHolds ==
  ASSUME NEW m \in Memories, NEW q, NEW A, Rewritten(m, q, A), NEW d, NEW s, Holds(d, m, s)
  PROVE  Holds(d, q, s)
<1>1. \A k \in 1 .. d.len : s[k] \in Nodes /\ m[s[k]] # Null
  BY HoldsIs
<1>2. q \in [Nodes -> ListNodes \cup {Null}]
  BY DEF Rewritten, Memories
<1>3. ASSUME NEW k \in 1 .. d.len
      PROVE  /\ q[s[k]] \in ListNodes /\ q[s[k]].al = m[s[k]].al
             /\ q[s[k]].next = m[s[k]].next /\ q[s[k]].prev = m[s[k]].prev
  BY <1>1, <1>2 DEF Rewritten
<1>4. QED
  BY <1>3 DEF Holds

(* Elems written are no change of whose the nodes are.                     *)
LEMMA RewrittenIsSwapped ==
  ASSUME NEW m, NEW q, NEW A, Rewritten(m, q, A)
  PROVE  Swapped(A, m, A, q)
  BY DEF Rewritten, Swapped

(* A store through the address of an elem.                                 *)
LEMMA WriteIs ==
  ASSUME NEW m \in Memories, NEW x \in Nodes, m[x] # Null, NEW val \in Vals,
         NEW q, q = [m EXCEPT ![x].val = val]
  PROVE  Rewritten(m, q, {x})
<1>1. m \in [Nodes -> ListNodes \cup {Null}]
  BY DEF Memories
<1>2. m[x] \in [al : Als, val : Vals, next : Nodes \cup {Null}, prev : Nodes \cup {Null}]
  BY <1>1 DEF ListNodes
<1>3. PICK y : y = [m[x] EXCEPT !.val = val]
  OBVIOUS
<1>4. y = [al |-> m[x].al, val |-> val, next |-> m[x].next, prev |-> m[x].prev]
  BY <1>2, <1>3
<1>5. y \in ListNodes /\ y # Null
  BY <1>2, <1>4, ListNullAssumption DEF ListNodes
<1>6. q = [m EXCEPT ![x] = y]
  BY <1>1, <1>3
<1>7. q \in Memories /\ q[x] = y /\ \A z \in Nodes : z # x => q[z] = m[z]
  BY <1>1, <1>5, <1>6 DEF Memories
<1>8. QED
  BY <1>4, <1>5, <1>7 DEF Rewritten

(* The first elems of a list overwritten.                                  *)
LEMMA OverwrittenIs ==
  ASSUME NEW m \in Memories, NEW s, NEW n, IsLine(s, n), \A k \in 1 .. n : m[s[k]] # Null,
         NEW vs \in Seq(Vals), NEW q, q = Overwritten(m, s, vs)
  PROVE  Rewritten(m, q, Along(s))
<1>1. n \in Nat /\ s \in [1 .. n -> Nodes] /\ DOMAIN s = 1 .. n /\ \A j, k \in 1 .. n : s[j] = s[k] => j = k
  BY DEF IsLine
<1>2. PICK first : first = {s[i] : i \in {i \in DOMAIN s : i <= Len(vs)}}
  OBVIOUS
<1>3. q = [x \in Nodes |-> IF x \in first THEN [m[x] EXCEPT !.val = vs[PlaceOf(s, x)]] ELSE m[x]]
  BY <1>2 DEF Overwritten
<1>4. ASSUME NEW x \in Nodes, x \in first
      PROVE  /\ x \in Along(s) /\ m[x] # Null
             /\ q[x] \in ListNodes /\ q[x].al = m[x].al /\ q[x].next = m[x].next /\ q[x].prev = m[x].prev
  <2>1. PICK i \in 1 .. n : x = s[i] /\ i <= Len(vs)
    BY <1>1, <1>2, <1>4
  <2>2. PICK p : p = PlaceOf(s, x)
    OBVIOUS
  <2>3. p \in 1 .. n /\ s[p] = x
    BY <1>1, <2>1, <2>2 DEF PlaceOf
  <2>4. p = i
    BY <1>1, <2>1, <2>3
  <2>5. vs[p] \in Vals
    BY <2>1, <2>4
  <2>6. x \in Along(s) /\ m[x] # Null
    BY <1>1, <2>1 DEF Along
  <2>7. m[x] \in [al : Als, val : Vals, next : Nodes \cup {Null}, prev : Nodes \cup {Null}]
    BY <2>6 DEF Memories, ListNodes
  <2>8. PICK y : y = [m[x] EXCEPT !.val = vs[p]]
    OBVIOUS
  <2>9. y = [al |-> m[x].al, val |-> vs[p], next |-> m[x].next, prev |-> m[x].prev]
    BY <2>7, <2>8
  <2>10. y \in ListNodes
    BY <2>5, <2>7, <2>9 DEF ListNodes
  <2>11. q[x] = y
    BY <1>3, <1>4, <2>2, <2>8
  <2>12. QED
    BY <2>6, <2>9, <2>10, <2>11
<1>5. \A x \in Nodes : x \notin first => q[x] = m[x]
  BY <1>3
<1>6. q \in Memories
  <2>1. \A x \in Nodes : q[x] \in ListNodes \cup {Null}
    BY <1>4, <1>5 DEF Memories
  <2>2. q = [x \in Nodes |-> q[x]]
    BY <1>3
  <2>3. QED
    BY <2>1, <2>2 DEF Memories
<1>7. \A x \in Nodes : x \in first => q[x] # Null
  BY <1>4, ListNullAssumption
<1>8. QED
  BY <1>4, <1>5, <1>6, <1>7 DEF Rewritten

(* A node has one place on a line.                                         *)
LEMMA PlaceIs ==
  ASSUME NEW s, NEW n, IsLine(s, n), NEW k \in 1 .. n
  PROVE  PlaceOf(s, s[k]) = k
<1>1. DOMAIN s = 1 .. n /\ \A j \in 1 .. n : s[j] = s[k] => j = k
  BY DEF IsLine
<1>2. PICK p : p = PlaceOf(s, s[k])
  OBVIOUS
<1>3. p \in 1 .. n /\ s[p] = s[k]
  BY <1>1, <1>2 DEF PlaceOf
<1>4. QED
  BY <1>1, <1>2, <1>3

(* The next links of a line, set.                                          *)
LEMMA NextLinkedIs ==
  ASSUME NEW m \in Memories, NEW s, NEW n, IsLine(s, n), \A k \in 1 .. n : m[s[k]] # Null,
         NEW q, q = NextLinked(m, s)
  PROVE  /\ Rewired(m, q, Along(s))
         /\ \A k \in 1 .. n : q[s[k]].next = NthOf(s, k + 1)
<1>1. n \in Nat /\ s \in [1 .. n -> Nodes] /\ DOMAIN s = 1 .. n
  BY DEF IsLine
<1>2. SE!ToSet(s) = Along(s)
  BY DEF SE!ToSet, Along
<1>3. ASSUME NEW k \in 1 .. n
      PROVE  /\ q[s[k]] \in ListNodes
             /\ q[s[k]].val = m[s[k]].val /\ q[s[k]].al = m[s[k]].al
             /\ q[s[k]].next = NthOf(s, k + 1)
  <2>1. PICK x : x = s[k] /\ x \in Nodes /\ x \in Along(s) /\ m[x] # Null
    BY <1>1 DEF Along
  <2>2. PlaceOf(s, x) = k
    BY <2>1, PlaceIs
  <2>3. PICK z : z = NthOf(s, k + 1) /\ z \in Nodes \cup {Null}
    BY <1>1, NthIs
  <2>4. m[x] \in [al : Als, val : Vals, next : Nodes \cup {Null}, prev : Nodes \cup {Null}]
    BY <2>1 DEF Memories, ListNodes
  <2>5. PICK y : y = [m[x] EXCEPT !.next = z]
    OBVIOUS
  <2>6. y = [al |-> m[x].al, val |-> m[x].val, next |-> z, prev |-> m[x].prev]
    BY <2>4, <2>5
  <2>7. y \in ListNodes
    BY <2>3, <2>4, <2>6 DEF ListNodes
  <2>8. q[x] = y
    BY <1>2, <2>1, <2>2, <2>3, <2>5 DEF NextLinked
  <2>9. QED
    BY <2>1, <2>3, <2>6, <2>7, <2>8
<1>4. \A x \in Nodes : x \notin Along(s) => q[x] = m[x]
  BY <1>2 DEF NextLinked
<1>5. \A x \in Along(s) : q[x] \in ListNodes /\ q[x].val = m[x].val /\ q[x].al = m[x].al /\ m[x] # Null
  BY <1>1, <1>3 DEF Along
<1>6. q \in Memories
  <2>1. \A x \in Nodes : q[x] \in ListNodes \cup {Null}
    BY <1>4, <1>5 DEF Memories
  <2>2. q = [x \in Nodes |-> q[x]]
    BY DEF NextLinked
  <2>3. QED
    BY <2>1, <2>2 DEF Memories
<1>7. QED
  BY <1>3, <1>4, <1>5, <1>6, ListNullAssumption DEF Rewired

(* The prev links of a line, set.                                          *)
LEMMA PrevLinkedIs ==
  ASSUME NEW m \in Memories, NEW s, NEW n, IsLine(s, n), \A k \in 1 .. n : m[s[k]] # Null,
         NEW q, q = PrevLinked(m, s)
  PROVE  /\ Rewired(m, q, Along(s))
         /\ \A k \in 1 .. n : q[s[k]].prev = NthOf(s, k - 1) /\ q[s[k]].next = m[s[k]].next
<1>1. n \in Nat /\ s \in [1 .. n -> Nodes] /\ DOMAIN s = 1 .. n
  BY DEF IsLine
<1>2. SE!ToSet(s) = Along(s)
  BY DEF SE!ToSet, Along
<1>3. ASSUME NEW k \in 1 .. n
      PROVE  /\ q[s[k]] \in ListNodes
             /\ q[s[k]].val = m[s[k]].val /\ q[s[k]].al = m[s[k]].al
             /\ q[s[k]].prev = NthOf(s, k - 1) /\ q[s[k]].next = m[s[k]].next
  <2>1. PICK x : x = s[k] /\ x \in Nodes /\ x \in Along(s) /\ m[x] # Null
    BY <1>1 DEF Along
  <2>2. PlaceOf(s, x) = k
    BY <2>1, PlaceIs
  <2>3. PICK z : z = NthOf(s, k - 1) /\ z \in Nodes \cup {Null}
    BY <1>1, NthIs
  <2>4. m[x] \in [al : Als, val : Vals, next : Nodes \cup {Null}, prev : Nodes \cup {Null}]
    BY <2>1 DEF Memories, ListNodes
  <2>5. PICK y : y = [m[x] EXCEPT !.prev = z]
    OBVIOUS
  <2>6. y = [al |-> m[x].al, val |-> m[x].val, next |-> m[x].next, prev |-> z]
    BY <2>4, <2>5
  <2>7. y \in ListNodes
    BY <2>3, <2>4, <2>6 DEF ListNodes
  <2>8. q[x] = y
    BY <1>2, <2>1, <2>2, <2>3, <2>5 DEF PrevLinked
  <2>9. QED
    BY <2>1, <2>3, <2>6, <2>7, <2>8
<1>4. \A x \in Nodes : x \notin Along(s) => q[x] = m[x]
  BY <1>2 DEF PrevLinked
<1>5. \A x \in Along(s) : q[x] \in ListNodes /\ q[x].val = m[x].val /\ q[x].al = m[x].al /\ m[x] # Null
  BY <1>1, <1>3 DEF Along
<1>6. q \in Memories
  <2>1. \A x \in Nodes : q[x] \in ListNodes \cup {Null}
    BY <1>4, <1>5 DEF Memories
  <2>2. q = [x \in Nodes |-> q[x]]
    BY DEF PrevLinked
  <2>3. QED
    BY <2>1, <2>2 DEF Memories
<1>7. QED
  BY <1>3, <1>4, <1>5, <1>6, ListNullAssumption DEF Rewired

(* The nodes of a line, all of one allocator.                              *)
LinesUp(m, u, n, a) ==
  /\ IsLine(u, n)
  /\ \A k \in 1 .. n : m[u[k]] # Null /\ m[u[k]].al = a

(* Next links and then, from them, prev links and the tail: a list.        *)
LEMMA RelinkIs ==
  ASSUME NEW m \in Memories, NEW d \in Lists, NEW u, LinesUp(m, u, d.len, d.al), d.head = NthOf(u, 1),
         NEW r, r = RelinkPrev(d, NextLinked(m, u))
  PROVE  /\ r.st = OK /\ r.d.al = d.al /\ r.d.len = d.len
         /\ Holds(r.d, r.m, u)
         /\ Rewired(m, r.m, Along(u))
<1>1. PICK n : n = d.len
  OBVIOUS
<1>2. IsLine(u, n) /\ n \in Nat /\ u \in [1 .. n -> Nodes] /\ DOMAIN u = 1 .. n
  BY <1>1 DEF LinesUp, IsLine
<1>3. \A k \in 1 .. n : m[u[k]] # Null /\ m[u[k]].al = d.al /\ u[k] \in Nodes
  BY <1>1, <1>2 DEF LinesUp
<1>4. PICK q : q = NextLinked(m, u)
  OBVIOUS
<1>5. Rewired(m, q, Along(u)) /\ \A k \in 1 .. n : q[u[k]].next = NthOf(u, k + 1)
  BY <1>2, <1>3, <1>4, NextLinkedIs
<1>6. q \in Memories /\ \A k \in 1 .. n : q[u[k]] # Null
  BY <1>3, <1>5 DEF Rewired
<1>7. NodesOf(d, q) = u
  <2>1. \A k \in 1 .. n : Nexts(q)[u[k]] = NthOf(u, k + 1)
    BY <1>3, <1>5, <1>6 DEF Nexts
  <2>2. Nexts(q) \in Links
    BY <1>6, LinksAre
  <2>3. Walk(Nexts(q), d.head) = u
    BY <1>2, <2>1, <2>2, WalkIs
  <2>4. QED
    BY <2>3 DEF NodesOf
<1>8. PICK w : w = PrevLinked(q, u)
  OBVIOUS
<1>9. /\ Rewired(q, w, Along(u))
      /\ \A k \in 1 .. n : w[u[k]].prev = NthOf(u, k - 1) /\ w[u[k]].next = q[u[k]].next
  BY <1>2, <1>6, <1>8, PrevLinkedIs
<1>10. Rewired(m, w, Along(u))
  BY <1>5, <1>9, RewiredTwice
<1>11. PICK f : f = [d EXCEPT !.tail = NthOf(u, n)]
  OBVIOUS
<1>12. f = [head |-> d.head, tail |-> NthOf(u, n), len |-> d.len, al |-> d.al] /\ f \in Lists
  <2>1. d \in [head : Nodes \cup {Null}, tail : Nodes \cup {Null}, len : Nat, al : Als]
    BY DEF Lists
  <2>2. f = [head |-> d.head, tail |-> NthOf(u, n), len |-> d.len, al |-> d.al]
    BY <1>11, <2>1
  <2>3. NthOf(u, n) \in Nodes \cup {Null}
    BY <1>2 DEF NthOf
  <2>4. QED
    BY <2>1, <2>2, <2>3 DEF Lists
<1>13. r.st = OK /\ r.d = f /\ r.m = w
  <2>1. Len(u) = n
    BY <1>2
  <2>2. RelinkPrev(d, q) = Result(OK, [d EXCEPT !.tail = NthOf(u, n)], PrevLinked(q, u))
    BY <1>7, <2>1 DEF RelinkPrev
  <2>3. QED
    BY <1>4, <1>8, <1>11, <2>2 DEF Result
<1>14. \A k \in 1 .. n : /\ w[u[k]] \in ListNodes /\ w[u[k]].al = d.al
                         /\ w[u[k]].next = NthOf(u, k + 1) /\ w[u[k]].prev = NthOf(u, k - 1)
  BY <1>3, <1>5, <1>9, <1>10 DEF Rewired, Memories
<1>15. f.head = NthOf(u, 1) /\ f.tail = NthOf(u, n) /\ f.len = n /\ f.al = d.al
  BY <1>1, <1>12
<1>16. Holds(f, w, u)
  BY <1>2, <1>12, <1>14, <1>15 DEF Holds
<1>17. QED
  BY <1>1, <1>10, <1>13, <1>15, <1>16

-----------------------------------------------------------------------------
(* Recursion from 0 to n.                                                  *)

StaysIn(g, n, S) == \A k \in 1 .. n, x \in S : g[<<k, x>>] \in S

GoesOnBy(f, n, S, a, g) ==
  /\ f \in [0 .. n -> S]
  /\ f[0] = a
  /\ \A k \in 1 .. n : f[k] = g[<<k, f[k - 1]>>]

(* There is a function that starts at a and goes on by g.                  *)
LEMMA RecursionThere ==
  ASSUME NEW n \in Nat, NEW S, NEW a \in S, NEW g, StaysIn(g, n, S)
  PROVE  \E f : GoesOnBy(f, n, S, a, g)
<1>. \A k \in 1 .. n, x \in S : g[<<k, x>>] \in S
  BY DEF StaysIn
<1>1. PICK X : X = {l \in 0 .. n : \E f \in [0 .. l -> S] : f[0] = a /\ \A k \in 1 .. l : f[k] = g[<<k, f[k - 1]>>]}
  OBVIOUS
<1>2. 0 \in X
  <2>1. PICK f : f = [k \in 0 .. 0 |-> a]
    OBVIOUS
  <2>2. f \in [0 .. 0 -> S] /\ f[0] = a /\ 1 .. 0 = {}
    BY <2>1
  <2>3. QED
    BY <1>1, <2>2
<1>3. ASSUME NEW l \in X, l < n
      PROVE  l + 1 \in X
  <2>1. l \in 0 .. n /\ l + 1 \in 1 .. n /\ l + 1 \in 0 .. n
    BY <1>1, <1>3
  <2>2. PICK f \in [0 .. l -> S] : f[0] = a /\ \A k \in 1 .. l : f[k] = g[<<k, f[k - 1]>>]
    BY <1>1
  <2>3. PICK b : b = g[<<l + 1, f[l]>>] /\ b \in S
    BY <2>1, <2>2
  <2>4. PICK h : h = [k \in 0 .. l + 1 |-> IF k = l + 1 THEN b ELSE f[k]]
    OBVIOUS
  <2>5. h \in [0 .. l + 1 -> S]
    BY <2>1, <2>3, <2>4
  <2>6. h[l + 1] = b /\ h[l] = f[l] /\ h[0] = a
    BY <2>1, <2>2, <2>4
  <2>7. ASSUME NEW k \in 1 .. l + 1
        PROVE  h[k] = g[<<k, h[k - 1]>>]
    <3>1. CASE k = l + 1
      <4>1. k - 1 = l
        BY <2>1, <3>1
      <4>2. QED
        BY <2>3, <2>6, <3>1, <4>1
    <3>2. CASE k # l + 1
      <4>1. k \in 1 .. l /\ k - 1 \in 0 .. l + 1 /\ k - 1 # l + 1 /\ k \in 0 .. l + 1
        BY <2>1, <3>2
      <4>2. h[k] = f[k] /\ h[k - 1] = f[k - 1]
        BY <2>4, <3>2, <4>1
      <4>3. QED
        BY <2>2, <4>1, <4>2
    <3>3. QED
      BY <3>1, <3>2
  <2>8. QED
    BY <1>1, <2>1, <2>5, <2>6, <2>7
<1>4. n \in X
  <2>1. X \in SUBSET (0 .. n)
    BY <1>1
  <2>2. \A k \in 0 .. n : k \in X
    BY <1>2, <1>3, <2>1, UpTo
  <2>3. QED
    BY <2>2
<1>5. QED
  BY <1>1, <1>4 DEF GoesOnBy

-----------------------------------------------------------------------------
(* Merging.                                                                *)

(* What the recursion of MergeChains says of a function.                   *)
IsTaken(f, N, m, s, t) ==
  f = [k \in 0 .. N |-> IF k = 0 THEN <<0, 0>> ELSE OneTaken(m, s, t, f[k - 1])]

(* There is one it says that of.                                           *)
LEMMA TakenThere ==
  ASSUME NEW m, NEW s, NEW t, NEW N \in Nat
  PROVE  \E f : IsTaken(f, N, m, s, t)
<1>1. PICK S : S = Nat \X Nat
  OBVIOUS
<1>2. ASSUME NEW p \in S
      PROVE  OneTaken(m, s, t, p) \in S
  <2>1. <<p[1] + 1, p[2]>> \in S /\ <<p[1], p[2] + 1>> \in S
    BY <1>1
  <2>2. QED
    BY <2>1 DEF OneTaken
<1>3. PICK g : g = [x \in (1 .. N) \X S |-> OneTaken(m, s, t, x[2])]
  OBVIOUS
<1>4. \A k \in 1 .. N, p \in S : g[<<k, p>>] = OneTaken(m, s, t, p) /\ g[<<k, p>>] \in S
  BY <1>2, <1>3
<1>5. <<0, 0>> \in S
  BY <1>1
<1>6. PICK f : f \in [0 .. N -> S] /\ f[0] = <<0, 0>> /\ \A k \in 1 .. N : f[k] = g[<<k, f[k - 1]>>]
  <2>1. StaysIn(g, N, S)
    BY <1>4 DEF StaysIn
  <2>2. PICK f : GoesOnBy(f, N, S, <<0, 0>>, g)
    BY <1>5, <2>1, RecursionThere
  <2>3. QED
    BY <2>2 DEF GoesOnBy
<1>7. ASSUME NEW k \in 0 .. N
      PROVE  f[k] = IF k = 0 THEN <<0, 0>> ELSE OneTaken(m, s, t, f[k - 1])
  <2>1. CASE k = 0
    BY <1>6, <2>1
  <2>2. CASE k # 0
    <3>1. k \in 1 .. N /\ k - 1 \in 0 .. N
      BY <2>2
    <3>2. QED
      BY <1>4, <1>6, <2>2, <3>1
  <2>3. QED
    BY <2>1, <2>2
<1>8. f = [k \in 0 .. N |-> IF k = 0 THEN <<0, 0>> ELSE OneTaken(m, s, t, f[k - 1])]
  BY <1>6, <1>7
<1>9. QED
  BY <1>8 DEF IsTaken

Apart(s, n, t, l) == IsLine(s, n) /\ IsLine(t, l) /\ Along(s) \cap Along(t) = {}

AllOf(u, s, n, t, l) == IsLine(u, n + l) /\ Along(u) = Along(s) \cup Along(t)

(* Two lines merged are one line, of the nodes of both.                    *)
LEMMA MergedIs ==
  ASSUME NEW m, NEW s, NEW n, NEW t, NEW l, Apart(s, n, t, l)
  PROVE  AllOf(MergeChains(m, s, t), s, n, t, l)
<1>. IsLine(s, n) /\ IsLine(t, l) /\ Along(s) \cap Along(t) = {}
  BY DEF Apart
<1>. PICK u : u = MergeChains(m, s, t)
  OBVIOUS
<1>1. /\ n \in Nat /\ s \in [1 .. n -> Nodes] /\ DOMAIN s = 1 .. n /\ Len(s) = n
      /\ l \in Nat /\ t \in [1 .. l -> Nodes] /\ DOMAIN t = 1 .. l /\ Len(t) = l
      /\ \A j, k \in 1 .. n : s[j] = s[k] => j = k
      /\ \A j, k \in 1 .. l : t[j] = t[k] => j = k
  BY DEF IsLine
<1>2. PICK N : N = n + l /\ N \in Nat
  BY <1>1
<1>3. PICK f : f = CHOOSE g : g = [k \in 0 .. Len(s) + Len(t) |->
                                    IF k = 0 THEN <<0, 0>> ELSE OneTaken(m, s, t, g[k - 1])]
  OBVIOUS
<1>4. f = [k \in 0 .. N |-> IF k = 0 THEN <<0, 0>> ELSE OneTaken(m, s, t, f[k - 1])]
  <2>1. PICK M : M = Len(s) + Len(t) /\ M = N
    BY <1>1, <1>2
  <2>2. f = CHOOSE g : g = [k \in 0 .. M |-> IF k = 0 THEN <<0, 0>> ELSE OneTaken(m, s, t, g[k - 1])]
    BY <1>3, <2>1
  <2>3. \E g : IsTaken(g, M, m, s, t)
    BY <1>2, <2>1, TakenThere
  <2>4. f = [k \in 0 .. M |-> IF k = 0 THEN <<0, 0>> ELSE OneTaken(m, s, t, f[k - 1])]
    BY <2>2, <2>3 DEF IsTaken
  <2>5. QED
    BY <2>1, <2>4
<1>5. u = [k \in 1 .. N |-> IF f[k][1] > f[k - 1][1] THEN s[f[k][1]] ELSE t[f[k][2]]]
  <2>1. Len(s) + Len(t) = N
    BY <1>1, <1>2
  <2>2. u = [k \in 1 .. Len(s) + Len(t) |-> IF f[k][1] > f[k - 1][1] THEN s[f[k][1]] ELSE t[f[k][2]]]
    BY <1>3 DEF MergeChains
  <2>3. QED
    BY <2>1, <2>2
<1>6. f[0] = <<0, 0>> /\ \A k \in 1 .. N : f[k] = OneTaken(m, s, t, f[k - 1])
  <2>1. 0 \in 0 .. N /\ \A k \in 1 .. N : k \in 0 .. N /\ k # 0
    BY <1>2
  <2>2. QED
    BY <1>4, <2>1
<1>. DEFINE Front(a, b) == {s[i] : i \in 1 .. a} \cup {t[i] : i \in 1 .. b}
            Counts(p, k) == p \in (0 .. n) \X (0 .. l) /\ p[1] + p[2] = k
<1>7. ASSUME NEW k \in 1 .. N, Counts(f[k - 1], k - 1)
      PROVE  LET p == f[k - 1]
             IN  /\ Counts(f[k], k)
                 /\ \/ f[k] = <<p[1] + 1, p[2]>> /\ p[1] + 1 \in 1 .. n /\ u[k] = s[p[1] + 1]
                    \/ f[k] = <<p[1], p[2] + 1>> /\ p[2] + 1 \in 1 .. l /\ u[k] = t[p[2] + 1]
  <2>1. PICK a \in 0 .. n, b \in 0 .. l : f[k - 1] = <<a, b>> /\ a + b = k - 1
    BY <1>7
  <2>2. f[k] = OneTaken(m, s, t, <<a, b>>)
    BY <1>6, <2>1
  <2>3. CASE f[k] = <<a + 1, b>> /\ a < n
    <3>1. a + 1 \in 1 .. n /\ a + 1 > a
      BY <1>1, <2>3
    <3>2. f[k][1] > f[k - 1][1] /\ f[k][1] = a + 1
      BY <2>1, <2>3, <3>1
    <3>3. u[k] = s[a + 1]
      BY <1>5, <3>2
    <3>4. (a + 1) + b = k /\ <<a + 1, b>> \in (0 .. n) \X (0 .. l)
      BY <1>1, <2>1, <3>1
    <3>5. QED
      BY <2>1, <2>3, <3>1, <3>3, <3>4
  <2>4. CASE f[k] = <<a, b + 1>> /\ (a < n => b < l)
    <3>1. b + 1 \in 1 .. l
      <4>1. b < l
        BY <1>1, <1>2, <2>1, <2>4
      <4>2. QED
        BY <1>1, <4>1
    <3>2. ~(f[k][1] > f[k - 1][1]) /\ f[k][2] = b + 1
      BY <1>1, <2>1, <2>4
    <3>3. u[k] = t[b + 1]
      BY <1>5, <3>2
    <3>4. a + (b + 1) = k /\ <<a, b + 1>> \in (0 .. n) \X (0 .. l)
      BY <1>1, <2>1, <3>1
    <3>5. QED
      BY <2>1, <2>4, <3>1, <3>3, <3>4
  <2>5. QED
    <3>1. CASE a < n /\ (b = l \/ m[s[a + 1]].val <= m[t[b + 1]].val)
      BY <1>1, <2>2, <2>3, <3>1 DEF OneTaken
    <3>2. CASE ~(a < n /\ (b = l \/ m[s[a + 1]].val <= m[t[b + 1]].val))
      <4>1. f[k] = <<a, b + 1>>
        BY <1>1, <2>2, <3>2 DEF OneTaken
      <4>2. a < n => b < l
        BY <1>1, <3>2
      <4>3. QED
        BY <2>4, <4>1, <4>2
    <3>3. QED
      BY <3>1, <3>2
<1>8. PICK X : X = {k \in 0 .. N : Counts(f[k], k) /\ {u[j] : j \in 1 .. k} = Front(f[k][1], f[k][2])}
  OBVIOUS
<1>9. 0 \in X
  <2>1. Counts(f[0], 0)
    BY <1>1, <1>6
  <2>2. 1 .. 0 = {}
    OBVIOUS
  <2>3. {u[j] : j \in 1 .. 0} = {} /\ Front(0, 0) = {}
    BY <2>2
  <2>4. QED
    BY <1>2, <1>6, <1>8, <2>1, <2>3
<1>10. ASSUME NEW k \in X, k < N
       PROVE  k + 1 \in X
  <2>1. k \in 0 .. N /\ k + 1 \in 1 .. N /\ (k + 1) - 1 = k /\ k + 1 \in 0 .. N
    BY <1>2, <1>8, <1>10
  <2>2. Counts(f[k], k) /\ {u[j] : j \in 1 .. k} = Front(f[k][1], f[k][2])
    BY <1>8
  <2>3. PICK a \in 0 .. n, b \in 0 .. l : f[k] = <<a, b>>
    BY <2>2
  <2>4. /\ Counts(f[k + 1], k + 1)
        /\ \/ f[k + 1] = <<a + 1, b>> /\ u[k + 1] = s[a + 1]
           \/ f[k + 1] = <<a, b + 1>> /\ u[k + 1] = t[b + 1]
    BY <1>7, <2>1, <2>2, <2>3
  <2>5. {u[j] : j \in 1 .. k + 1} = {u[j] : j \in 1 .. k} \cup {u[k + 1]}
    <3>1. 1 .. k + 1 = (1 .. k) \cup {k + 1}
      BY <2>1
    <3>2. QED
      BY <3>1
  <2>6. CASE f[k + 1] = <<a + 1, b>> /\ u[k + 1] = s[a + 1]
    <3>1. 1 .. a + 1 = (1 .. a) \cup {a + 1}
      OBVIOUS
    <3>2. Front(a + 1, b) = Front(a, b) \cup {s[a + 1]}
      BY <3>1
    <3>3. {u[j] : j \in 1 .. k + 1} = Front(f[k + 1][1], f[k + 1][2])
      <4>1. f[k + 1][1] = a + 1 /\ f[k + 1][2] = b /\ f[k][1] = a /\ f[k][2] = b
        BY <2>3, <2>6
      <4>2. QED
        BY <2>2, <2>5, <2>6, <3>2, <4>1
    <3>4. QED
      BY <1>8, <2>1, <2>4, <3>3
  <2>7. CASE f[k + 1] = <<a, b + 1>> /\ u[k + 1] = t[b + 1]
    <3>1. 1 .. b + 1 = (1 .. b) \cup {b + 1}
      OBVIOUS
    <3>2. Front(a, b + 1) = Front(a, b) \cup {t[b + 1]}
      BY <3>1
    <3>3. {u[j] : j \in 1 .. k + 1} = Front(f[k + 1][1], f[k + 1][2])
      <4>1. f[k + 1][1] = a /\ f[k + 1][2] = b + 1 /\ f[k][1] = a /\ f[k][2] = b
        BY <2>3, <2>7
      <4>2. QED
        BY <2>2, <2>5, <2>7, <3>2, <4>1
    <3>4. QED
      BY <1>8, <2>1, <2>4, <3>3
  <2>8. QED
    BY <2>4, <2>6, <2>7
<1>11. \A k \in 0 .. N : k \in X
  <2>1. X \in SUBSET (0 .. N)
    BY <1>8
  <2>2. QED
    BY <1>2, <1>9, <1>10, <2>1, UpTo
<1>12. Along(u) = Along(s) \cup Along(t)
  <2>1. N \in X
    BY <1>2, <1>11
  <2>2. Counts(f[N], N) /\ {u[j] : j \in 1 .. N} = Front(f[N][1], f[N][2])
    BY <1>8, <2>1
  <2>3. f[N][1] = n /\ f[N][2] = l
    BY <1>1, <1>2, <2>2
  <2>4. DOMAIN u = 1 .. N
    BY <1>5
  <2>5. QED
    BY <1>1, <2>2, <2>3, <2>4 DEF Along
<1>13. u \in [1 .. N -> Nodes]
  <2>1. Along(u) \subseteq Nodes
    BY <1>1, <1>12 DEF Along
  <2>2. u = [k \in 1 .. N |-> u[k]] /\ DOMAIN u = 1 .. N
    BY <1>5
  <2>3. \A k \in 1 .. N : u[k] \in Nodes
    BY <2>1, <2>2 DEF Along
  <2>4. QED
    BY <2>2, <2>3
<1>14. ASSUME NEW k \in 1 .. N
       PROVE  u[k] \notin {u[j] : j \in 1 .. k - 1}
  <2>1. k - 1 \in 0 .. N
    BY <1>2
  <2>2. Counts(f[k - 1], k - 1) /\ {u[j] : j \in 1 .. k - 1} = Front(f[k - 1][1], f[k - 1][2])
    BY <1>8, <1>11, <2>1
  <2>3. PICK a \in 0 .. n, b \in 0 .. l : f[k - 1] = <<a, b>>
    BY <2>2
  <2>4. \/ a + 1 \in 1 .. n /\ u[k] = s[a + 1]
        \/ b + 1 \in 1 .. l /\ u[k] = t[b + 1]
    BY <1>7, <2>2, <2>3
  <2>5. {u[j] : j \in 1 .. k - 1} = Front(a, b)
    <3>1. f[k - 1][1] = a /\ f[k - 1][2] = b
      BY <2>3
    <3>2. QED
      BY <2>2, <3>1
  <2>6. \A i \in 1 .. a : i \in 1 .. n /\ i # a + 1
    BY <1>1
  <2>7. \A i \in 1 .. b : i \in 1 .. l /\ i # b + 1
    BY <1>1
  <2>8. \A i \in 1 .. n, j \in 1 .. l : s[i] # t[j]
    <3>1. (\A i \in 1 .. n : s[i] \in Along(s)) /\ (\A j \in 1 .. l : t[j] \in Along(t))
      BY <1>1 DEF Along
    <3>2. QED
      BY <3>1
  <2>9. CASE a + 1 \in 1 .. n /\ u[k] = s[a + 1]
    <3>1. \A i \in 1 .. a : s[i] # s[a + 1]
      BY <1>1, <2>6, <2>9
    <3>2. \A i \in 1 .. b : t[i] # s[a + 1]
      BY <2>7, <2>8, <2>9
    <3>3. QED
      BY <2>5, <2>9, <3>1, <3>2
  <2>10. CASE b + 1 \in 1 .. l /\ u[k] = t[b + 1]
    <3>1. \A i \in 1 .. b : t[i] # t[b + 1]
      BY <1>1, <2>7, <2>10
    <3>2. \A i \in 1 .. a : s[i] # t[b + 1]
      BY <2>6, <2>8, <2>10
    <3>3. QED
      BY <2>5, <2>10, <3>1, <3>2
  <2>11. QED
    BY <2>4, <2>9, <2>10
<1>15. ASSUME NEW j \in 1 .. N, NEW k \in 1 .. N, u[j] = u[k]
       PROVE  j = k
  <2>1. CASE j < k
    <3>1. j \in 1 .. k - 1
      BY <2>1
    <3>2. QED
      BY <1>14, <1>15, <3>1
  <2>2. CASE k < j
    <3>1. k \in 1 .. j - 1
      BY <2>2
    <3>2. QED
      BY <1>14, <1>15, <3>1
  <2>3. QED
    BY <2>1, <2>2
<1>16. QED
  BY <1>2, <1>12, <1>13, <1>15 DEF IsLine, AllOf

-----------------------------------------------------------------------------
(* Sorting.                                                                *)

(* What the recursion of SortChain says of a function.                     *)
IsSorting(f, l, m, s) ==
  f = [n \in 0 .. l |->
         LET half == n \div 2
         IN  [i \in 0 .. Len(s) - n |->
                IF n < 2 THEN SubSeq(s, i + 1, i + n)
                ELSE MergeChains(m, f[half][i], f[n - half][i + half])]]

(* There is one it says that of.                                           *)
LEMMA SortingThere ==
  ASSUME NEW m, NEW s, NEW Ls \in Nat
  PROVE  \E f : IsSorting(f, Ls, m, s)
<1>1. PICK X : X = {l \in 0 .. Ls : \E f : IsSorting(f, l, m, s)}
  OBVIOUS
<1>2. 0 \in X
  <2>1. PICK f : f = [n \in 0 .. 0 |-> [i \in 0 .. Len(s) - n |-> SubSeq(s, i + 1, i + n)]]
    OBVIOUS
  <2>2. \A n \in 0 .. 0 : n < 2
    OBVIOUS
  <2>3. f = [n \in 0 .. 0 |->
               LET half == n \div 2
               IN  [i \in 0 .. Len(s) - n |->
                      IF n < 2 THEN SubSeq(s, i + 1, i + n)
                      ELSE MergeChains(m, f[half][i], f[n - half][i + half])]]
    BY <2>1, <2>2
  <2>4. QED
    BY <1>1, <2>3 DEF IsSorting
<1>3. ASSUME NEW l \in X, l < Ls
      PROVE  l + 1 \in X
  <2>1. l \in 0 .. Ls /\ l + 1 \in 0 .. Ls /\ l \in Nat
    BY <1>1, <1>3
  <2>2. PICK f : IsSorting(f, l, m, s)
    BY <1>1
  <2>3. PICK g : g = [n \in 0 .. l + 1 |->
                        LET half == n \div 2
                        IN  [i \in 0 .. Len(s) - n |->
                               IF n < 2 THEN SubSeq(s, i + 1, i + n)
                               ELSE MergeChains(m, f[half][i], f[n - half][i + half])]]
    OBVIOUS
  <2>4. ASSUME NEW n \in 0 .. l
        PROVE  g[n] = f[n]
    <3>1. n \in 0 .. l + 1
      BY <2>1
    <3>2. QED
      BY <2>2, <2>3, <3>1 DEF IsSorting
  <2>5. ASSUME NEW n \in 0 .. l + 1, ~(n < 2)
        PROVE  g[n \div 2] = f[n \div 2] /\ g[n - (n \div 2)] = f[n - (n \div 2)]
    <3>1. n \div 2 \in 0 .. l /\ n - (n \div 2) \in 0 .. l
      BY <2>1, <2>5
    <3>2. QED
      BY <2>4, <3>1
  <2>6. ASSUME NEW n \in 0 .. l + 1
        PROVE  g[n] = LET half == n \div 2
                      IN  [i \in 0 .. Len(s) - n |->
                             IF n < 2 THEN SubSeq(s, i + 1, i + n)
                             ELSE MergeChains(m, g[half][i], g[n - half][i + half])]
    <3>1. g[n] = LET half == n \div 2
                 IN  [i \in 0 .. Len(s) - n |->
                        IF n < 2 THEN SubSeq(s, i + 1, i + n)
                        ELSE MergeChains(m, f[half][i], f[n - half][i + half])]
      BY <2>3
    <3>2. CASE n < 2
      BY <3>1, <3>2
    <3>3. CASE ~(n < 2)
      BY <2>5, <3>1, <3>3
    <3>4. QED
      BY <3>2, <3>3
  <2>7. IsSorting(g, l + 1, m, s)
    <3>1. g = [n \in 0 .. l + 1 |-> g[n]]
      BY <2>3
    <3>2. QED
      BY <2>6, <3>1 DEF IsSorting
  <2>8. QED
    BY <1>1, <2>1, <2>7
<1>4. Ls \in X
  <2>1. X \in SUBSET (0 .. Ls)
    BY <1>1
  <2>2. \A k \in 0 .. Ls : k \in X
    BY <1>2, <1>3, <2>1, UpTo
  <2>3. QED
    BY <2>2
<1>5. QED
  BY <1>1, <1>4

(* The n nodes after the first i.                                          *)
Part(s, i, n) == {s[k] : k \in i + 1 .. i + n}

(* A sequence is a function.                                               *)
LEMMA SeqIsFun ==
  ASSUME NEW T, NEW t \in Seq(T), NEW n, Len(t) = n
  PROVE  t \in [1 .. n -> T] /\ DOMAIN t = 1 .. n
  OBVIOUS

(* A part of a line that is a line, of no or one node.                     *)
LEMMA ShortPartIs ==
  ASSUME NEW s, NEW Ls, IsLine(s, Ls), NEW n \in {0, 1}, NEW i \in 0 .. Ls - n,
         NEW t, t = SubSeq(s, i + 1, i + n)
  PROVE  IsLine(t, n) /\ Along(t) = Part(s, i, n)
<1>1. Ls \in Nat /\ s \in [1 .. Ls -> Nodes]
  BY DEF IsLine
<1>2. n \in Nat /\ i \in Nat
  BY <1>1
<1>3. \A k \in i + 1 .. i + n : s[k] \in Nodes
  BY <1>1
<1>4. /\ t \in Seq(Nodes)
      /\ Len(t) = (IF i + 1 <= i + n THEN (i + n) - (i + 1) + 1 ELSE 0)
      /\ \A k \in 1 .. (i + n) - (i + 1) + 1 : t[k] = s[(i + 1) + k - 1]
  <2>1. i + 1 \in Int /\ i + n \in Int
    BY <1>2
  <2>2. /\ SubSeq(s, i + 1, i + n) \in Seq(Nodes)
        /\ Len(SubSeq(s, i + 1, i + n)) = (IF i + 1 <= i + n THEN (i + n) - (i + 1) + 1 ELSE 0)
        /\ \A k \in 1 .. (i + n) - (i + 1) + 1 : SubSeq(s, i + 1, i + n)[k] = s[(i + 1) + k - 1]
    BY <1>3, <2>1, SubSeqProperties
  <2>3. QED
    BY <2>2
<1>5. Len(t) = n
  BY <1>2, <1>4
<1>6. t \in [1 .. n -> Nodes] /\ DOMAIN t = 1 .. n
  BY <1>4, <1>5, SeqIsFun
<1>7. IsLine(t, n)
  <2>1. \A j, k \in 1 .. n : j = k
    OBVIOUS
  <2>2. QED
    BY <1>2, <1>6, <2>1 DEF IsLine
<1>8. CASE n = 0
  <2>1. 1 .. n = {} /\ i + 1 .. i + n = {}
    BY <1>2, <1>8
  <2>2. QED
    BY <1>6, <1>7, <2>1 DEF Along, Part
<1>9. CASE n = 1
  <2>1. 1 .. n = {1} /\ i + 1 .. i + n = {i + 1}
    BY <1>2, <1>9
  <2>2. t[1] = s[i + 1]
    BY <1>2, <1>4, <1>9
  <2>3. QED
    BY <1>6, <1>7, <2>1, <2>2 DEF Along, Part
<1>10. QED
  BY <1>8, <1>9

(* A line sorted is a line of the same nodes.                              *)
LEMMA SortedLineIs ==
  ASSUME NEW m, NEW s, NEW Ls, IsLine(s, Ls), NEW u, u = SortChain(m, s)
  PROVE  IsLine(u, Ls) /\ Along(u) = Along(s)
<1>1. Ls \in Nat /\ s \in [1 .. Ls -> Nodes] /\ DOMAIN s = 1 .. Ls /\ Len(s) = Ls
  BY DEF IsLine
<1>2. PICK f : f = CHOOSE g : g = [n \in 0 .. Len(s) |->
         LET half == n \div 2
         IN  [i \in 0 .. Len(s) - n |->
                IF n < 2 THEN SubSeq(s, i + 1, i + n)
                ELSE MergeChains(m, g[half][i], g[n - half][i + half])]]
  OBVIOUS
<1>3. IsSorting(f, Len(s), m, s)
  <2>1. \E g : IsSorting(g, Len(s), m, s)
    BY <1>1, SortingThere
  <2>2. QED
    BY <1>2, <2>1 DEF IsSorting
<1>4. u = f[Ls][0]
  BY <1>1, <1>2 DEF SortChain
<1>5. ASSUME NEW n \in 0 .. Ls, NEW i \in 0 .. Ls - n
      PROVE  f[n][i] = IF n < 2 THEN SubSeq(s, i + 1, i + n)
                       ELSE MergeChains(m, f[n \div 2][i], f[n - (n \div 2)][i + (n \div 2)])
  <2>1. f[n] = [j \in 0 .. Ls - n |->
                 IF n < 2 THEN SubSeq(s, j + 1, j + n)
                 ELSE MergeChains(m, f[n \div 2][j], f[n - (n \div 2)][j + (n \div 2)])]
    BY <1>1, <1>3 DEF IsSorting
  <2>2. QED
    BY <2>1
<1>. DEFINE Fine(n) == \A i \in 0 .. Ls - n : IsLine(f[n][i], n) /\ Along(f[n][i]) = Part(s, i, n)
<1>6. PICK X : X = {l \in 0 .. Ls : \A n \in 0 .. l : Fine(n)}
  OBVIOUS
<1>7. ASSUME NEW n \in 0 .. Ls, n \in {0, 1}
      PROVE  Fine(n)
  <2>1. ASSUME NEW i \in 0 .. Ls - n
        PROVE  IsLine(f[n][i], n) /\ Along(f[n][i]) = Part(s, i, n)
    <3>1. f[n][i] = SubSeq(s, i + 1, i + n)
      <4>1. n < 2
        BY <1>7
      <4>2. QED
        BY <1>5, <4>1
    <3>2. QED
      BY <1>7, <3>1, ShortPartIs
  <2>2. QED
    BY <2>1
<1>8. 0 \in X
  <2>1. 0 .. 0 = {0} /\ 0 \in 0 .. Ls
    BY <1>1
  <2>2. QED
    BY <1>6, <1>7, <2>1
<1>9. ASSUME NEW l \in X, l < Ls
      PROVE  l + 1 \in X
  <2>1. l \in 0 .. Ls /\ l + 1 \in 0 .. Ls /\ l \in Nat /\ \A n \in 0 .. l : Fine(n)
    BY <1>1, <1>6, <1>9
  <2>2. Fine(l + 1)
    <3>1. CASE l + 1 < 2
      BY <1>7, <2>1, <3>1
    <3>2. CASE ~(l + 1 < 2)
      <4>1. PICK n, a, b : n = l + 1 /\ a = n \div 2 /\ b = n - a
        OBVIOUS
      <4>2. a \in 0 .. l /\ b \in 0 .. l /\ a + b = n /\ a \in Nat /\ b \in Nat /\ n \in 0 .. Ls /\ n \in Nat
        BY <2>1, <3>2, <4>1
      <4>3. ASSUME NEW i \in 0 .. Ls - n
            PROVE  IsLine(f[n][i], n) /\ Along(f[n][i]) = Part(s, i, n)
        <5>1. i \in 0 .. Ls - a /\ i + a \in 0 .. Ls - b /\ i \in Nat
          BY <1>1, <4>2
        <5>2. PICK v, w : v = f[a][i] /\ w = f[b][i + a]
          OBVIOUS
        <5>3. /\ IsLine(v, a) /\ Along(v) = Part(s, i, a)
              /\ IsLine(w, b) /\ Along(w) = Part(s, i + a, b)
          BY <2>1, <4>2, <5>1, <5>2
        <5>4. Along(v) \cap Along(w) = {}
          <6>1. ASSUME NEW x \in Along(v), x \in Along(w)
                PROVE  FALSE
            <7>1. PICK j \in i + 1 .. i + a : x = s[j]
              BY <5>3 DEF Part
            <7>2. PICK k \in i + a + 1 .. i + a + b : x = s[k]
              BY <5>3, <6>1 DEF Part
            <7>3. j \in 1 .. Ls /\ k \in 1 .. Ls /\ j # k
              BY <1>1, <4>2, <5>1
            <7>4. QED
              BY <7>1, <7>2, <7>3 DEF IsLine
          <6>2. QED
            BY <6>1
        <5>5. f[n][i] = MergeChains(m, v, w)
          BY <1>5, <3>2, <4>1, <4>2, <5>2
        <5>6. IsLine(f[n][i], a + b) /\ Along(f[n][i]) = Along(v) \cup Along(w)
          <6>1. Apart(v, a, w, b)
            BY <5>3, <5>4 DEF Apart
          <6>2. AllOf(f[n][i], v, a, w, b)
            BY <5>5, <6>1, MergedIs
          <6>3. QED
            BY <6>2 DEF AllOf
        <5>7. Part(s, i, a) \cup Part(s, i + a, b) = Part(s, i, n)
          <6>1. i + 1 .. i + n = (i + 1 .. i + a) \cup (i + a + 1 .. i + a + b)
            BY <4>2, <5>1
          <6>2. QED
            BY <6>1 DEF Part
        <5>8. QED
          BY <4>2, <5>3, <5>6, <5>7
      <4>4. QED
        BY <4>1, <4>3
    <3>3. QED
      BY <3>1, <3>2
  <2>3. ASSUME NEW n \in 0 .. l + 1
        PROVE  Fine(n)
    <3>1. n \in 0 .. l \/ n = l + 1
      BY <2>1
    <3>2. QED
      BY <2>1, <2>2, <3>1
  <2>4. QED
    BY <1>6, <2>1, <2>3
<1>10. Ls \in X
  <2>1. X \in SUBSET (0 .. Ls)
    BY <1>6
  <2>2. \A k \in 0 .. Ls : k \in X
    BY <1>1, <1>8, <1>9, <2>1, UpTo
  <2>3. QED
    BY <1>1, <2>2
<1>11. IsLine(f[Ls][0], Ls) /\ Along(f[Ls][0]) = Part(s, 0, Ls)
  <2>1. Fine(Ls)
    BY <1>1, <1>6, <1>10
  <2>2. 0 \in 0 .. Ls - Ls
    BY <1>1
  <2>3. QED
    BY <2>1, <2>2
<1>12. Part(s, 0, Ls) = Along(s)
  <2>1. 0 + 1 .. 0 + Ls = 1 .. Ls
    BY <1>1
  <2>2. QED
    BY <1>1, <2>1 DEF Part, Along
<1>13. QED
  BY <1>4, <1>11, <1>12

(* The list d, linked anew, has n nodes, those of A.                       *)
Relinked(d, m, A, n, r) ==
  /\ r.st = OK
  /\ r.d.al = d.al /\ r.d.len = n
  /\ \E u : Holds(r.d, r.m, u) /\ Along(u) = A
  /\ Rewired(m, r.m, A)

(* A struct with another head and length, and a line for it.               *)
LEMMA RelinkedFrom ==
  ASSUME NEW m \in Memories, NEW d \in Lists, NEW n, NEW u, LinesUp(m, u, n, d.al), n > 0,
         NEW f, f = [head |-> u[1], tail |-> d.tail, len |-> n, al |-> d.al]
  PROVE  Relinked(d, m, Along(u), n, RelinkPrev(f, NextLinked(m, u)))
<1>1. n \in Nat /\ u \in [1 .. n -> Nodes] /\ DOMAIN u = 1 .. n /\ 1 \in 1 .. n
  BY DEF LinesUp, IsLine
<1>2. u[1] = NthOf(u, 1) /\ u[1] \in Nodes
  BY <1>1 DEF NthOf
<1>3. f \in Lists /\ f.len = n /\ f.al = d.al /\ f.head = NthOf(u, 1)
  <2>1. d.tail \in Nodes \cup {Null} /\ d.al \in Als
    BY DEF Lists
  <2>2. QED
    BY <1>1, <1>2, <2>1 DEF Lists
<1>4. PICK r : r = RelinkPrev(f, NextLinked(m, u))
  OBVIOUS
<1>5. LinesUp(m, u, f.len, f.al)
  BY <1>3
<1>6. /\ r.st = OK /\ r.d.al = f.al /\ r.d.len = f.len
      /\ Holds(r.d, r.m, u)
      /\ Rewired(m, r.m, Along(u))
  BY <1>3, <1>4, <1>5, RelinkIs
<1>7. QED
  BY <1>3, <1>4, <1>6 DEF Relinked

(* sort: the same nodes.                                                   *)
LEMMA SortIs ==
  ASSUME NEW m \in Memories, NEW d, NEW s, Holds(d, m, s)
  PROVE  Relinked(d, m, Along(s), d.len, Sorted(d, m))
<1>1. d \in Lists /\ NodesOf(d, m) = s /\ IsLine(s, d.len)
  BY NodesOfIs DEF Holds
<1>2. PICK u : u = SortChain(m, s)
  OBVIOUS
<1>3. PICK f : f = [d EXCEPT !.head = u[1]]
  OBVIOUS
<1>4. Sorted(d, m) = IF d.len < 2 THEN Result(OK, d, m) ELSE RelinkPrev(f, NextLinked(m, u))
  BY <1>1, <1>2, <1>3 DEF Sorted
<1>5. CASE d.len < 2
  <2>1. Rewired(m, m, Along(s))
    BY DEF Rewired
  <2>2. QED
    BY <1>4, <1>5, <2>1 DEF Relinked, Result
<1>6. CASE ~(d.len < 2)
  <2>1. d \in [head : Nodes \cup {Null}, tail : Nodes \cup {Null}, len : Nat, al : Als]
    BY <1>1 DEF Lists
  <2>2. f = [head |-> u[1], tail |-> d.tail, len |-> d.len, al |-> d.al]
    BY <1>3, <2>1
  <2>3. IsLine(u, d.len) /\ Along(u) = Along(s)
    BY <1>1, <1>2, SortedLineIs
  <2>4. \A k \in 1 .. d.len : m[s[k]] # Null /\ m[s[k]].al = d.al
    BY ListNullAssumption DEF Holds
  <2>5. DOMAIN s = 1 .. d.len /\ DOMAIN u = 1 .. d.len
    BY <1>1, <2>3 DEF IsLine
  <2>6. \A x \in Along(s) : m[x] # Null /\ m[x].al = d.al
    BY <2>4, <2>5 DEF Along
  <2>7. \A k \in 1 .. d.len : u[k] \in Along(s)
    BY <2>3, <2>5 DEF Along
  <2>8. LinesUp(m, u, d.len, d.al) /\ d.len > 0
    BY <1>6, <2>1, <2>3, <2>6, <2>7 DEF LinesUp
  <2>9. Relinked(d, m, Along(u), d.len, RelinkPrev(f, NextLinked(m, u)))
    BY <1>1, <2>2, <2>8, RelinkedFrom
  <2>10. QED
    BY <1>4, <1>6, <2>3, <2>9
<1>7. QED
  BY <1>5, <1>6

(* Two lists with no node in common, of one allocator.                     *)
MayMerge(m, d, s, e, t) ==
  /\ Holds(d, m, s) /\ Holds(e, m, t)
  /\ e.len > 0 /\ d.al = e.al
  /\ Along(s) \cap Along(t) = {}

(* merge_into: the nodes of both.                                          *)
LEMMA MergeIntoIs ==
  ASSUME NEW m \in Memories, NEW d, NEW s, NEW e, NEW t, MayMerge(m, d, s, e, t)
  PROVE  Relinked(d, m, Along(s) \cup Along(t), d.len + e.len, MergeInto(d, e, m))
<1>1. Holds(d, m, s) /\ Holds(e, m, t) /\ e.len > 0 /\ d.al = e.al /\ Along(s) \cap Along(t) = {}
  BY DEF MayMerge
<1>2. d \in Lists /\ NodesOf(d, m) = s /\ IsLine(s, d.len)
  BY <1>1, NodesOfIs DEF Holds
<1>3. NodesOf(e, m) = t /\ IsLine(t, e.len)
  BY <1>1, NodesOfIs DEF Holds
<1>4. PICK u : u = MergeChains(m, s, t)
  OBVIOUS
<1>5. PICK f : f = [d EXCEPT !.head = u[1], !.len = @ + e.len]
  OBVIOUS
<1>6. MergeInto(d, e, m) = RelinkPrev(f, NextLinked(m, u))
  BY <1>2, <1>3, <1>4, <1>5 DEF MergeInto
<1>7. PICK n : n = d.len + e.len
  OBVIOUS
<1>8. f = [head |-> u[1], tail |-> d.tail, len |-> n, al |-> d.al] /\ n > 0 /\ n \in Nat
  <2>1. d \in [head : Nodes \cup {Null}, tail : Nodes \cup {Null}, len : Nat, al : Als]
    BY <1>2 DEF Lists
  <2>2. e.len \in Nat
    BY <1>3 DEF IsLine
  <2>3. f = [head |-> u[1], tail |-> d.tail, len |-> d.len + e.len, al |-> d.al]
    BY <1>5, <2>1
  <2>4. d.len \in Nat
    BY <2>1
  <2>5. n > 0 /\ n \in Nat
    BY <1>1, <1>7, <2>2, <2>4
  <2>6. QED
    BY <1>7, <2>3, <2>5
<1>9. IsLine(u, n) /\ Along(u) = Along(s) \cup Along(t)
  <2>1. Apart(s, d.len, t, e.len)
    BY <1>1, <1>2, <1>3 DEF Apart
  <2>2. AllOf(u, s, d.len, t, e.len)
    BY <1>4, <2>1, MergedIs
  <2>3. QED
    BY <1>7, <2>2 DEF AllOf
<1>10. \A x \in Along(s) : m[x] # Null /\ m[x].al = d.al
  <2>1. \A k \in 1 .. d.len : m[s[k]] # Null /\ m[s[k]].al = d.al
    BY <1>1, ListNullAssumption DEF Holds
  <2>2. DOMAIN s = 1 .. d.len
    BY <1>2 DEF IsLine
  <2>3. QED
    BY <2>1, <2>2 DEF Along
<1>11. \A x \in Along(t) : m[x] # Null /\ m[x].al = d.al
  <2>1. \A k \in 1 .. e.len : m[t[k]] # Null /\ m[t[k]].al = d.al
    BY <1>1, ListNullAssumption DEF Holds
  <2>2. DOMAIN t = 1 .. e.len
    BY <1>3 DEF IsLine
  <2>3. QED
    BY <2>1, <2>2 DEF Along
<1>12. LinesUp(m, u, n, d.al)
  <2>1. \A k \in 1 .. n : u[k] \in Along(u)
    BY <1>9 DEF Along, IsLine
  <2>2. QED
    BY <1>9, <1>10, <1>11, <2>1 DEF LinesUp
<1>13. Relinked(d, m, Along(u), n, RelinkPrev(f, NextLinked(m, u)))
  BY <1>2, <1>8, <1>12, RelinkedFrom
<1>14. QED
  BY <1>6, <1>7, <1>9, <1>13

(* splice_nodes, likewise.                                                 *)
LEMMA SpliceNodesIs ==
  ASSUME NEW m \in Memories, NEW d, NEW s, NEW e, NEW t, MayMerge(m, d, s, e, t), NEW front \in BOOLEAN
  PROVE  Relinked(d, m, Along(s) \cup Along(t), d.len + e.len, SpliceNodes(d, e, m, front))
<1>1. Holds(d, m, s) /\ Holds(e, m, t) /\ e.len > 0 /\ d.al = e.al /\ Along(s) \cap Along(t) = {}
  BY DEF MayMerge
<1>2. PICK r : r = SpliceNodes(d, e, m, front)
  OBVIOUS
<1>3. /\ r.st = OK
      /\ r.d.al = d.al /\ r.d.len = d.len + e.len
      /\ \E u : Holds(r.d, r.m, u) /\ Along(u) = Along(s) \cup Along(t)
      /\ Rewired(m, r.m, Along(s) \cup Along(t))
  BY <1>1, <1>2, SpliceIs
<1>4. QED
  BY <1>2, <1>3 DEF Relinked

-----------------------------------------------------------------------------
(* Building.                                                               *)

(* One change after another.                                               *)
LEMMA SwappedTwice ==
  ASSUME NEW m, NEW q, NEW r, NEW F, NEW G, NEW H, Swapped(F, m, G, q), Swapped(G, q, H, r)
  PROVE  Swapped(F, m, H, r)
  BY DEF Swapped

(* In r is a list of a, all of nodes that were free in m.                  *)
BuiltOf(r, a, m) ==
  /\ r.st \in {OK, NoMem}
  /\ r.d.al = a
  /\ r.m \in Memories
  /\ \E t : Holds(r.d, r.m, t) /\ Swapped({}, m, Along(t), r.m)

(* One more elem at the back.                                              *)
LEMMA PushedIs ==
  ASSUME NEW m \in Memories, NEW a \in Als, NEW r, BuiltOf(r, a, m), NEW val \in Vals, NEW granted,
         NEW p, p = Pushed(r, val, granted)
  PROVE  /\ BuiltOf(p, a, m)
         /\ p.st = OK => r.st = OK /\ p.d.len = r.d.len + 1
<1>1. PICK t : Holds(r.d, r.m, t) /\ Swapped({}, m, Along(t), r.m)
  BY DEF BuiltOf
<1>2. r.m \in Memories /\ r.d.al = a /\ r.st \in {OK, NoMem}
  BY DEF BuiltOf
<1>3. OK # NoMem
  BY StatusesDiffer
<1>4. CASE r.st = NoMem
  BY <1>3, <1>4 DEF Pushed
<1>5. CASE r.st # NoMem
  <2>1. PICK n : n = r.d.len /\ n \in Nat /\ t \in [1 .. n -> Nodes] /\ n \in 0 .. n
    BY <1>1, HoldsIs
  <2>2. r.d.tail = NthOf(t, n) /\ NthOf(t, n + 1) = Null
    <3>1. r.d.tail = NthOf(t, n)
      BY <1>1, <2>1 DEF Holds
    <3>2. n + 1 \notin DOMAIN t
      BY <2>1
    <3>3. QED
      BY <3>1, <3>2 DEF NthOf
  <2>3. p = InsertBetween(r.d, r.m, NthOf(t, n), NthOf(t, n + 1), val, granted)
    BY <1>5, <2>2 DEF Pushed
  <2>4. n \in 0 .. r.d.len
    BY <2>1
  <2>5. \/ p.st = NoMem /\ p.d = r.d /\ p.m = r.m
        \/ \E x : OneMore(r.d, r.m, t, n, val, p, x)
    BY <1>1, <1>2, <2>3, <2>4, InsertIs
  <2>6. CASE p.st = NoMem /\ p.d = r.d /\ p.m = r.m
    BY <1>1, <1>2, <1>3, <2>6 DEF BuiltOf
  <2>7. CASE \E x : OneMore(r.d, r.m, t, n, val, p, x)
    <3>1. PICK x : OneMore(r.d, r.m, t, n, val, p, x)
      BY <2>7
    <3>2. PICK u : u = PutIn(t, n, n, x)
      OBVIOUS
    <3>3. /\ p.st = OK /\ Holds(p.d, p.m, u) /\ p.d.al = a /\ p.d.len = n + 1
          /\ Swapped(Along(t), r.m, Along(u), p.m)
      BY <1>2, <2>1, <3>1, <3>2 DEF OneMore
    <3>4. Swapped({}, m, Along(u), p.m)
      BY <1>1, <3>3, SwappedTwice
    <3>5. p.m \in Memories
      BY <3>4 DEF Swapped
    <3>6. r.st = OK
      BY <1>2, <1>5
    <3>7. QED
      BY <2>1, <3>3, <3>4, <3>5, <3>6 DEF BuiltOf
  <2>8. QED
    BY <2>5, <2>6, <2>7
<1>6. QED
  BY <1>4, <1>5

(* What the recursion of Built says of a function.                         *)
IsBuilding(f, n, a, m, vs, grants) ==
  f = [i \in 0 .. n |->
         IF i = 0 THEN Result(OK, NewStruct(a), m) ELSE Pushed(f[i - 1], vs[i], i <= grants)]

(* There is one it says that of.                                           *)
LEMMA BuildingThere ==
  ASSUME NEW a, NEW m, NEW vs, NEW grants, NEW n \in Nat
  PROVE  \E f : IsBuilding(f, n, a, m, vs, grants)
<1>1. PICK X : X = {l \in 0 .. n : \E f : IsBuilding(f, l, a, m, vs, grants)}
  OBVIOUS
<1>2. 0 \in X
  <2>1. PICK f : f = [i \in 0 .. 0 |-> Result(OK, NewStruct(a), m)]
    OBVIOUS
  <2>2. \A i \in 0 .. 0 : i = 0
    OBVIOUS
  <2>3. f = [i \in 0 .. 0 |->
               IF i = 0 THEN Result(OK, NewStruct(a), m) ELSE Pushed(f[i - 1], vs[i], i <= grants)]
    BY <2>1, <2>2
  <2>4. QED
    BY <1>1, <2>3 DEF IsBuilding
<1>3. ASSUME NEW l \in X, l < n
      PROVE  l + 1 \in X
  <2>1. l \in 0 .. n /\ l + 1 \in 0 .. n /\ l \in Nat
    BY <1>1, <1>3
  <2>2. PICK f : IsBuilding(f, l, a, m, vs, grants)
    BY <1>1
  <2>3. PICK g : g = [i \in 0 .. l + 1 |->
                        IF i = 0 THEN Result(OK, NewStruct(a), m) ELSE Pushed(f[i - 1], vs[i], i <= grants)]
    OBVIOUS
  <2>4. ASSUME NEW i \in 0 .. l
        PROVE  g[i] = f[i]
    <3>1. i \in 0 .. l + 1
      BY <2>1
    <3>2. QED
      BY <2>2, <2>3, <3>1 DEF IsBuilding
  <2>5. ASSUME NEW i \in 0 .. l + 1, i # 0
        PROVE  g[i - 1] = f[i - 1]
    <3>1. i - 1 \in 0 .. l
      BY <2>1, <2>5
    <3>2. QED
      BY <2>4, <3>1
  <2>6. g = [i \in 0 .. l + 1 |->
               IF i = 0 THEN Result(OK, NewStruct(a), m) ELSE Pushed(g[i - 1], vs[i], i <= grants)]
    BY <2>3, <2>5
  <2>7. QED
    BY <1>1, <2>1, <2>6 DEF IsBuilding
<1>4. n \in X
  <2>1. X \in SUBSET (0 .. n)
    BY <1>1
  <2>2. \A k \in 0 .. n : k \in X
    BY <1>2, <1>3, <2>1, UpTo
  <2>3. QED
    BY <2>2
<1>5. QED
  BY <1>1, <1>4

(* A list of n nodes built, or nothing.                                    *)
NewList(r, a, m, n) ==
  /\ r.st = OK
  /\ r.d.al = a /\ r.d.len = n
  /\ \E t : Holds(r.d, r.m, t) /\ Swapped({}, m, Along(t), r.m)

(* A list built holds all elems; what was built of one that was refused    *)
(* has been given back.                                                    *)
LEMMA BuiltIs ==
  ASSUME NEW m \in Memories, NEW a \in Als, NEW vs \in Seq(Vals), NEW grants, NEW r, r = Built(a, m, vs, grants)
  PROVE  \/ NewList(r, a, m, Len(vs))
         \/ r.st = NoMem /\ r.m = m
<1>1. PICK n : n = Len(vs) /\ n \in Nat /\ \A i \in 1 .. n : vs[i] \in Vals
  OBVIOUS
<1>2. PICK f : f = CHOOSE g : g = [i \in 0 .. Len(vs) |->
        IF i = 0 THEN Result(OK, NewStruct(a), m) ELSE Pushed(g[i - 1], vs[i], i <= grants)]
  OBVIOUS
<1>3. f = [i \in 0 .. n |->
             IF i = 0 THEN Result(OK, NewStruct(a), m) ELSE Pushed(f[i - 1], vs[i], i <= grants)]
  <2>1. \E g : IsBuilding(g, Len(vs), a, m, vs, grants)
    BY <1>1, BuildingThere
  <2>2. IsBuilding(f, Len(vs), a, m, vs, grants)
    BY <1>2, <2>1 DEF IsBuilding
  <2>3. QED
    BY <1>1, <2>2 DEF IsBuilding
<1>4. r = IF f[n].st = NoMem THEN Abandoned(f[n]) ELSE f[n]
  BY <1>1, <1>2 DEF Built
<1>5. f[0] = Result(OK, NewStruct(a), m) /\ \A i \in 1 .. n : f[i] = Pushed(f[i - 1], vs[i], i <= grants)
  <2>1. 0 \in 0 .. n /\ \A i \in 1 .. n : i \in 0 .. n /\ i # 0
    BY <1>1
  <2>2. QED
    BY <1>3, <2>1
<1>6. PICK X : X = {k \in 0 .. n : BuiltOf(f[k], a, m) /\ (f[k].st = OK => f[k].d.len = k)}
  OBVIOUS
<1>7. 0 \in X
  <2>1. f[0].st = OK /\ f[0].d = NewStruct(a) /\ f[0].m = m
    BY <1>5 DEF Result
  <2>2. Holds(NewStruct(a), m, <<>>) /\ NewStruct(a).al = a /\ NewStruct(a).len = 0
    BY NewHolds
  <2>3. Swapped({}, m, Along(<<>>), m)
    BY NoLine DEF Swapped
  <2>4. BuiltOf(f[0], a, m) /\ f[0].d.len = 0
    BY <2>1, <2>2, <2>3 DEF BuiltOf
  <2>5. QED
    BY <1>1, <1>6, <2>4
<1>8. ASSUME NEW k \in X, k < n
      PROVE  k + 1 \in X
  <2>1. k \in 0 .. n /\ k + 1 \in 1 .. n /\ (k + 1) - 1 = k /\ k + 1 \in 0 .. n
    BY <1>1, <1>6, <1>8
  <2>2. BuiltOf(f[k], a, m) /\ (f[k].st = OK => f[k].d.len = k)
    BY <1>6
  <2>3. PICK val, granted : val = vs[k + 1] /\ val \in Vals /\ granted = (k + 1 <= grants)
    BY <1>1, <2>1
  <2>4. f[k + 1] = Pushed(f[k], val, granted)
    BY <1>5, <2>1, <2>3
  <2>5. BuiltOf(f[k + 1], a, m) /\ (f[k + 1].st = OK => f[k].st = OK /\ f[k + 1].d.len = f[k].d.len + 1)
    BY <2>2, <2>3, <2>4, PushedIs
  <2>6. QED
    BY <1>6, <2>1, <2>2, <2>5
<1>9. n \in X
  <2>1. X \in SUBSET (0 .. n)
    BY <1>6
  <2>2. \A k \in 0 .. n : k \in X
    BY <1>1, <1>7, <1>8, <2>1, UpTo
  <2>3. QED
    BY <1>1, <2>2
<1>10. BuiltOf(f[n], a, m) /\ (f[n].st = OK => f[n].d.len = n)
  BY <1>6, <1>9
<1>11. PICK t : Holds(f[n].d, f[n].m, t) /\ Swapped({}, m, Along(t), f[n].m)
  BY <1>10 DEF BuiltOf
<1>12. CASE f[n].st = NoMem
  <2>1. PICK q : q = ClearedMem(f[n].d, f[n].m)
    OBVIOUS
  <2>2. r.st = NoMem /\ r.m = q
    BY <1>4, <1>12, <2>1 DEF Abandoned, Result
  <2>3. f[n].m \in Memories
    BY <1>10 DEF BuiltOf
  <2>4. q \in Memories /\ Swapped(Along(t), f[n].m, {}, q)
    BY <1>11, <2>1, <2>3, ClearedIs
  <2>5. Swapped({}, m, {}, q)
    BY <1>11, <2>4, SwappedTwice
  <2>6. \A y \in Nodes : q[y] = m[y]
    BY <2>5 DEF Swapped
  <2>7. q = m
    BY <2>4, <2>6 DEF Memories
  <2>8. QED
    BY <2>2, <2>7
<1>13. CASE f[n].st # NoMem
  <2>1. f[n].st = OK /\ r = f[n]
    BY <1>4, <1>10, <1>13 DEF BuiltOf
  <2>2. NewList(r, a, m, n)
    BY <1>10, <1>11, <2>1 DEF NewList, BuiltOf
  <2>3. QED
    BY <1>1, <2>2
<1>14. QED
  BY <1>12, <1>13

-----------------------------------------------------------------------------
(* Shortening.                                                             *)

(* What the recursion of Shortened says of a function.                     *)
IsShortening(f, n, d, m) ==
  f = [k \in 0 .. n |->
         IF k = 0 THEN Result(OK, d, m) ELSE Removed(f[k - 1].d, f[k - 1].m, f[k - 1].d.tail)]

(* There is one it says that of.                                           *)
LEMMA ShorteningThere ==
  ASSUME NEW d, NEW m, NEW n \in Nat
  PROVE  \E f : IsShortening(f, n, d, m)
<1>1. PICK X : X = {l \in 0 .. n : \E f : IsShortening(f, l, d, m)}
  OBVIOUS
<1>2. 0 \in X
  <2>1. PICK f : f = [i \in 0 .. 0 |-> Result(OK, d, m)]
    OBVIOUS
  <2>2. \A i \in 0 .. 0 : i = 0
    OBVIOUS
  <2>3. f = [k \in 0 .. 0 |->
               IF k = 0 THEN Result(OK, d, m) ELSE Removed(f[k - 1].d, f[k - 1].m, f[k - 1].d.tail)]
    BY <2>1, <2>2
  <2>4. QED
    BY <1>1, <2>3 DEF IsShortening
<1>3. ASSUME NEW l \in X, l < n
      PROVE  l + 1 \in X
  <2>1. l \in 0 .. n /\ l + 1 \in 0 .. n /\ l \in Nat
    BY <1>1, <1>3
  <2>2. PICK f : IsShortening(f, l, d, m)
    BY <1>1
  <2>3. PICK g : g = [k \in 0 .. l + 1 |->
                        IF k = 0 THEN Result(OK, d, m) ELSE Removed(f[k - 1].d, f[k - 1].m, f[k - 1].d.tail)]
    OBVIOUS
  <2>4. ASSUME NEW k \in 0 .. l
        PROVE  g[k] = f[k]
    <3>1. k \in 0 .. l + 1
      BY <2>1
    <3>2. QED
      BY <2>2, <2>3, <3>1 DEF IsShortening
  <2>5. ASSUME NEW k \in 0 .. l + 1, k # 0
        PROVE  g[k - 1] = f[k - 1]
    <3>1. k - 1 \in 0 .. l
      BY <2>1, <2>5
    <3>2. QED
      BY <2>4, <3>1
  <2>6. g = [k \in 0 .. l + 1 |->
               IF k = 0 THEN Result(OK, d, m) ELSE Removed(g[k - 1].d, g[k - 1].m, g[k - 1].d.tail)]
    BY <2>3, <2>5
  <2>7. QED
    BY <1>1, <2>1, <2>6 DEF IsShortening
<1>4. n \in X
  <2>1. X \in SUBSET (0 .. n)
    BY <1>1
  <2>2. \A k \in 0 .. n : k \in X
    BY <1>2, <1>3, <2>1, UpTo
  <2>3. QED
    BY <2>2
<1>5. QED
  BY <1>1, <1>4

(* Of the list d, n nodes are left in r.                                   *)
Shorter(d, m, s, n, r) ==
  /\ r.st = OK
  /\ r.d.al = d.al /\ r.d.len = n
  /\ \E t : /\ Holds(r.d, r.m, t)
            /\ Along(t) \subseteq Along(s)
            /\ Swapped(Along(s), m, Along(t), r.m)

(* One node less.                                                          *)
LEMMA OneLess ==
  ASSUME NEW d, NEW m \in Memories, NEW s, NEW n, NEW r, Shorter(d, m, s, n, r), n > 0
  PROVE  Shorter(d, m, s, n - 1, Removed(r.d, r.m, r.d.tail))
<1>1. PICK t : /\ Holds(r.d, r.m, t)
               /\ Along(t) \subseteq Along(s)
               /\ Swapped(Along(s), m, Along(t), r.m)
  BY DEF Shorter
<1>2. r.d.al = d.al /\ r.d.len = n /\ r.m \in Memories
  BY <1>1 DEF Shorter, Swapped
<1>3. n \in Nat /\ t \in [1 .. n -> Nodes] /\ DOMAIN t = 1 .. n /\ n \in 1 .. r.d.len
  BY <1>1, <1>2, HoldsIs
<1>4. r.d.tail = t[n]
  BY <1>1, <1>2, <1>3 DEF Holds, NthOf
<1>5. PICK p, u : p = Removed(r.d, r.m, t[n]) /\ u = TakenOut(t, r.d.len, n)
  OBVIOUS
<1>6. /\ p.st = OK
      /\ Holds(p.d, p.m, u)
      /\ p.d.al = r.d.al /\ p.d.len = r.d.len - 1
      /\ Along(u) = Along(t) \ {t[n]}
      /\ Swapped(Along(t), r.m, Along(u), p.m)
  BY <1>1, <1>2, <1>3, <1>5, RemovedIs
<1>7. Swapped(Along(s), m, Along(u), p.m)
  BY <1>1, <1>6, SwappedTwice
<1>8. Along(u) \subseteq Along(s)
  BY <1>1, <1>6
<1>9. QED
  BY <1>2, <1>4, <1>5, <1>6, <1>7, <1>8 DEF Shorter

(* A list shortened has the nodes it is to have, the others are back.      *)
LEMMA ShortenedIs ==
  ASSUME NEW m \in Memories, NEW d, NEW s, Holds(d, m, s), NEW n \in Nat
  PROVE  Shorter(d, m, s, IF n < d.len THEN n ELSE d.len, Shortened(d, m, n))
<1>1. PICK gone : gone = (IF n < d.len THEN d.len - n ELSE 0)
  OBVIOUS
<1>2. gone \in Nat /\ d.len \in Nat /\ gone <= d.len /\ d.len - gone = (IF n < d.len THEN n ELSE d.len)
  BY <1>1, HoldsIs
<1>3. PICK f : f = CHOOSE g : g = [k \in 0 .. gone |->
        IF k = 0 THEN Result(OK, d, m) ELSE Removed(g[k - 1].d, g[k - 1].m, g[k - 1].d.tail)]
  OBVIOUS
<1>4. f = [k \in 0 .. gone |->
             IF k = 0 THEN Result(OK, d, m) ELSE Removed(f[k - 1].d, f[k - 1].m, f[k - 1].d.tail)]
  <2>1. \E g : IsShortening(g, gone, d, m)
    BY <1>2, ShorteningThere
  <2>2. QED
    BY <1>3, <2>1 DEF IsShortening
<1>5. Shortened(d, m, n) = f[gone]
  BY <1>1, <1>3 DEF Shortened
<1>6. f[0] = Result(OK, d, m) /\ \A k \in 1 .. gone : f[k] = Removed(f[k - 1].d, f[k - 1].m, f[k - 1].d.tail)
  <2>1. 0 \in 0 .. gone /\ \A k \in 1 .. gone : k \in 0 .. gone /\ k # 0
    BY <1>2
  <2>2. QED
    BY <1>4, <2>1
<1>7. PICK X : X = {k \in 0 .. gone : Shorter(d, m, s, d.len - k, f[k])}
  OBVIOUS
<1>8. 0 \in X
  <2>1. f[0].st = OK /\ f[0].d = d /\ f[0].m = m /\ d.len - 0 = d.len
    BY <1>2, <1>6 DEF Result
  <2>2. Swapped(Along(s), m, Along(s), m)
    BY DEF Swapped
  <2>3. Shorter(d, m, s, d.len - 0, f[0])
    BY <2>1, <2>2 DEF Shorter
  <2>4. QED
    BY <1>2, <1>7, <2>3
<1>9. ASSUME NEW k \in X, k < gone
      PROVE  k + 1 \in X
  <2>1. k \in 0 .. gone /\ k + 1 \in 1 .. gone /\ (k + 1) - 1 = k /\ k + 1 \in 0 .. gone
    BY <1>2, <1>7, <1>9
  <2>2. Shorter(d, m, s, d.len - k, f[k])
    BY <1>7
  <2>3. d.len - k > 0 /\ (d.len - k) - 1 = d.len - (k + 1)
    BY <1>2, <1>9, <2>1
  <2>4. f[k + 1] = Removed(f[k].d, f[k].m, f[k].d.tail)
    BY <1>6, <2>1
  <2>5. Shorter(d, m, s, (d.len - k) - 1, f[k + 1])
    BY <2>2, <2>3, <2>4, OneLess
  <2>6. QED
    BY <1>7, <2>1, <2>3, <2>5
<1>10. gone \in X
  <2>1. X \in SUBSET (0 .. gone)
    BY <1>7
  <2>2. \A k \in 0 .. gone : k \in X
    BY <1>2, <1>8, <1>9, <2>1, UpTo
  <2>3. QED
    BY <1>2, <2>2
<1>11. QED
  BY <1>2, <1>5, <1>7, <1>10

-----------------------------------------------------------------------------
(* All lists.                                                              *)

(* The nodes of the list a handle has.                                     *)
Owned(Ls, m, h) == IF Ls[h] = Null THEN {} ELSE Along(NodesOf(Ls[h], m))

(* The struct has the nodes A, linked both ways.                           *)
Stands(d, m, A) == \E u : Holds(d, m, u) /\ Along(u) = A

(* Every list stands; no node is in two; every node lent is in one.        *)
Sound(Ls, m) ==
  /\ Ls \in [Handles -> Lists \cup {Null}]
  /\ m \in Memories
  /\ \A h \in Handles : Ls[h] # Null => Stands(Ls[h], m, Owned(Ls, m, h))
  /\ \A h, g \in Handles : h # g => Owned(Ls, m, h) \cap Owned(Ls, m, g) = {}
  /\ \A x \in Nodes : m[x] # Null => \E h \in Handles : x \in Owned(Ls, m, h)

Held(Ls, a) == {h \in Handles : Ls[h] # Null /\ Ls[h].al = a}

(* Every allocator has lent as many headers as there are lists of it.      *)
Counted(Ls, H) ==
  /\ H \in [Als -> Nat]
  /\ \A a \in Als : IsFiniteSet(Held(Ls, a)) /\ H[a] = Cardinality(Held(Ls, a))

(* A struct that stands has one set of nodes.                              *)
LEMMA StandsIs ==
  ASSUME NEW m \in Memories, NEW d, NEW A, Stands(d, m, A)
  PROVE  /\ Along(NodesOf(d, m)) = A
         /\ Holds(d, m, NodesOf(d, m))
         /\ d \in Lists /\ d # Null
         /\ A \subseteq Nodes
         /\ \A x \in A : m[x] # Null
<1>1. PICK u : Holds(d, m, u) /\ Along(u) = A
  BY DEF Stands
<1>2. NodesOf(d, m) = u
  BY <1>1, NodesOfIs
<1>3. d \in Lists /\ Along(u) \subseteq Nodes /\ DOMAIN u = 1 .. d.len /\ \A k \in 1 .. d.len : m[u[k]] # Null
  BY <1>1, HoldsIs
<1>4. d # Null
  BY <1>3, ListNullAssumption
<1>5. \A x \in A : m[x] # Null
  BY <1>1, <1>3 DEF Along
<1>6. QED
  BY <1>1, <1>2, <1>3, <1>4, <1>5

(* A struct stands in a memory that has its nodes as they were.            *)
LEMMA StandsStill ==
  ASSUME NEW m, NEW d, NEW A, Stands(d, m, A), NEW q, \A x \in A : q[x] = m[x]
  PROVE  Stands(d, q, A)
<1>1. PICK u : Holds(d, m, u) /\ Along(u) = A
  BY DEF Stands
<1>2. Holds(d, q, u)
  BY <1>1, HoldsStays
<1>3. QED
  BY <1>1, <1>2 DEF Stands

(* The lists of the handles B are others, which have the nodes that O      *)
(* says; of the lists before they had F, and all others are as they were.  *)
Changes(Ls, m, B, Ls2, q, O) ==
  /\ B \subseteq Handles
  /\ Ls2 \in [Handles -> Lists \cup {Null}]
  /\ \A h \in Handles : h \notin B => Ls2[h] = Ls[h]
  /\ \A h \in B : \/ Ls2[h] = Null /\ O[h] = {}
                  \/ Stands(Ls2[h], q, O[h])
  /\ \A h, g \in B : h # g => O[h] \cap O[g] = {}
  /\ Swapped(UNION {Owned(Ls, m, h) : h \in B}, m, UNION {O[h] : h \in B}, q)

(* Lists changed so are sound.                                             *)
LEMMA ChangesKeep ==
  ASSUME NEW Ls, NEW m, Sound(Ls, m), NEW B, NEW Ls2, NEW q, NEW O, Changes(Ls, m, B, Ls2, q, O)
  PROVE  Sound(Ls2, q)
<1>1. PICK F, G : F = UNION {Owned(Ls, m, h) : h \in B} /\ G = UNION {O[h] : h \in B}
  OBVIOUS
<1>2. /\ q \in Memories
      /\ \A y \in Nodes : y \notin F /\ y \notin G => q[y] = m[y]
      /\ \A y \in Nodes : y \in G /\ y \notin F => m[y] = Null
      /\ \A y \in Nodes : y \in F /\ y \notin G => q[y] = Null
  BY <1>1 DEF Changes, Swapped
<1>3. /\ B \subseteq Handles
      /\ Ls2 \in [Handles -> Lists \cup {Null}]
      /\ \A h \in Handles : h \notin B => Ls2[h] = Ls[h]
      /\ \A h \in B : (Ls2[h] = Null /\ O[h] = {}) \/ Stands(Ls2[h], q, O[h])
      /\ \A h, g \in B : h # g => O[h] \cap O[g] = {}
  BY DEF Changes
<1>4. /\ m \in Memories
      /\ \A h \in Handles : Ls[h] # Null => Stands(Ls[h], m, Owned(Ls, m, h))
      /\ \A h, g \in Handles : h # g => Owned(Ls, m, h) \cap Owned(Ls, m, g) = {}
      /\ \A x \in Nodes : m[x] # Null => \E h \in Handles : x \in Owned(Ls, m, h)
  BY DEF Sound
<1>5. ASSUME NEW h \in Handles, h \notin B
      PROVE  /\ Ls2[h] = Ls[h]
             /\ Owned(Ls2, q, h) = Owned(Ls, m, h)
             /\ Ls2[h] # Null => Stands(Ls2[h], q, Owned(Ls2, q, h))
             /\ Owned(Ls, m, h) \cap F = {} /\ Owned(Ls, m, h) \cap G = {}
  <2>1. Ls2[h] = Ls[h]
    BY <1>3, <1>5
  <2>2. Owned(Ls, m, h) \cap F = {}
    BY <1>1, <1>3, <1>4, <1>5
  <2>3. CASE Ls[h] = Null
    BY <2>1, <2>2, <2>3 DEF Owned
  <2>4. CASE Ls[h] # Null
    <3>1. PICK A : A = Owned(Ls, m, h) /\ Stands(Ls[h], m, A)
      BY <1>4, <2>4
    <3>2. A \subseteq Nodes /\ \A x \in A : m[x] # Null
      BY <1>4, <3>1, StandsIs
    <3>3. A \cap G = {}
      BY <1>2, <2>2, <3>1, <3>2
    <3>4. \A x \in A : q[x] = m[x]
      BY <1>2, <2>2, <3>1, <3>2, <3>3
    <3>5. Stands(Ls[h], q, A)
      BY <3>1, <3>4, StandsStill
    <3>6. Along(NodesOf(Ls[h], q)) = A
      BY <1>2, <3>5, StandsIs
    <3>7. Owned(Ls2, q, h) = A
      BY <2>1, <2>4, <3>6 DEF Owned
    <3>8. QED
      BY <2>1, <2>2, <3>1, <3>3, <3>5, <3>7
  <2>5. QED
    BY <2>3, <2>4
<1>6. ASSUME NEW h \in B
      PROVE  /\ Owned(Ls2, q, h) = O[h]
             /\ Ls2[h] # Null => Stands(Ls2[h], q, Owned(Ls2, q, h))
             /\ O[h] \subseteq G
  <2>1. O[h] \subseteq G
    BY <1>1
  <2>2. CASE Ls2[h] = Null /\ O[h] = {}
    BY <2>1, <2>2 DEF Owned
  <2>3. CASE Stands(Ls2[h], q, O[h])
    <3>1. Ls2[h] # Null /\ Along(NodesOf(Ls2[h], q)) = O[h]
      BY <1>2, <2>3, StandsIs
    <3>2. QED
      BY <2>1, <2>3, <3>1 DEF Owned
  <2>4. QED
    BY <1>3, <2>2, <2>3
<1>7. ASSUME NEW h \in Handles, NEW g \in Handles, h # g
      PROVE  Owned(Ls2, q, h) \cap Owned(Ls2, q, g) = {}
  <2>1. CASE h \in B /\ g \in B
    BY <1>3, <1>6, <1>7, <2>1
  <2>2. CASE h \in B /\ g \notin B
    <3>1. Owned(Ls2, q, h) \subseteq G
      BY <1>6, <2>2
    <3>2. Owned(Ls2, q, g) \cap G = {}
      BY <1>5, <2>2
    <3>3. QED
      BY <3>1, <3>2
  <2>3. CASE h \notin B /\ g \in B
    <3>1. Owned(Ls2, q, g) \subseteq G
      BY <1>6, <2>3
    <3>2. Owned(Ls2, q, h) \cap G = {}
      BY <1>5, <2>3
    <3>3. QED
      BY <3>1, <3>2
  <2>4. CASE h \notin B /\ g \notin B
    BY <1>4, <1>5, <1>7, <2>4
  <2>5. QED
    BY <2>1, <2>2, <2>3, <2>4
<1>8. ASSUME NEW x \in Nodes, q[x] # Null
      PROVE  \E h \in Handles : x \in Owned(Ls2, q, h)
  <2>1. CASE x \in G
    <3>1. PICK h \in B : x \in O[h]
      BY <1>1, <2>1
    <3>2. QED
      BY <1>3, <1>6, <3>1
  <2>2. CASE x \notin G
    <3>1. x \notin F /\ m[x] # Null
      BY <1>2, <1>8, <2>2
    <3>2. PICK h \in Handles : x \in Owned(Ls, m, h)
      BY <1>4, <3>1
    <3>3. h \notin B
      BY <1>1, <3>1, <3>2
    <3>4. QED
      BY <1>5, <3>2, <3>3
  <2>3. QED
    BY <2>1, <2>2
<1>9. \A h \in Handles : Ls2[h] # Null => Stands(Ls2[h], q, Owned(Ls2, q, h))
  BY <1>5, <1>6
<1>10. QED
  BY <1>2, <1>3, <1>7, <1>8, <1>9 DEF Sound

(* The same lists, of the same allocators: the headers are counted.        *)
LEMMA CountedStays ==
  ASSUME NEW Ls, NEW H, Counted(Ls, H), NEW Ls2,
         \A h \in Handles : (Ls2[h] = Null <=> Ls[h] = Null) /\ (Ls[h] # Null => Ls2[h].al = Ls[h].al)
  PROVE  Counted(Ls2, H)
<1>1. ASSUME NEW a \in Als
      PROVE  Held(Ls2, a) = Held(Ls, a)
  BY DEF Held
<1>2. QED
  BY <1>1 DEF Counted

(* The struct of one handle put in the place of another.                   *)
LEMMA OtherStruct ==
  ASSUME NEW Ls \in [Handles -> Lists \cup {Null}], NEW h \in Handles, NEW d \in Lists \cup {Null}
  PROVE  /\ [Ls EXCEPT ![h] = d] \in [Handles -> Lists \cup {Null}]
         /\ [Ls EXCEPT ![h] = d][h] = d
         /\ \A k \in Handles : k # h => [Ls EXCEPT ![h] = d][k] = Ls[k]
  OBVIOUS

-----------------------------------------------------------------------------
(* What a step may do.                                                     *)

AllSound(Ls, m, H) == Sound(Ls, m) /\ Counted(Ls, H)

(* The list of a handle becomes one of other nodes.                        *)
OneMay(Ls, m, h, d, G, q) ==
  /\ h \in Handles /\ Ls[h] # Null
  /\ Stands(d, q, G) /\ d.al = Ls[h].al
  /\ Swapped(Owned(Ls, m, h), m, G, q)

(* One list is changed that way: all of them stand on.                     *)
LEMMA OneChanges ==
  ASSUME NEW Ls, NEW m, NEW H, AllSound(Ls, m, H), NEW h, NEW d, NEW G, NEW q, OneMay(Ls, m, h, d, G, q)
  PROVE  AllSound([Ls EXCEPT ![h] = d], q, H)
<1>1. /\ h \in Handles /\ Ls[h] # Null /\ Stands(d, q, G) /\ d.al = Ls[h].al
      /\ Swapped(Owned(Ls, m, h), m, G, q) /\ q \in Memories
  BY DEF OneMay, Swapped
<1>2. d \in Lists /\ d # Null
  BY <1>1, StandsIs
<1>3. Sound(Ls, m) /\ Counted(Ls, H) /\ Ls \in [Handles -> Lists \cup {Null}]
  BY DEF AllSound, Sound
<1>4. PICK Ls2 : Ls2 = [Ls EXCEPT ![h] = d]
  OBVIOUS
<1>5. Ls2 \in [Handles -> Lists \cup {Null}] /\ Ls2[h] = d /\ \A k \in Handles : k # h => Ls2[k] = Ls[k]
  BY <1>1, <1>2, <1>3, <1>4, OtherStruct
<1>6. PICK O : O = [k \in {h} |-> G]
  OBVIOUS
<1>7. UNION {Owned(Ls, m, k) : k \in {h}} = Owned(Ls, m, h) /\ UNION {O[k] : k \in {h}} = G /\ O[h] = G
  BY <1>6
<1>8. Changes(Ls, m, {h}, Ls2, q, O)
  BY <1>1, <1>5, <1>7 DEF Changes
<1>9. Sound(Ls2, q)
  BY <1>3, <1>8, ChangesKeep
<1>10. Counted(Ls2, H)
  <2>1. \A k \in Handles : (Ls2[k] = Null <=> Ls[k] = Null) /\ (Ls[k] # Null => Ls2[k].al = Ls[k].al)
    BY <1>1, <1>2, <1>5
  <2>2. QED
    BY <1>3, <2>1, CountedStays
<1>11. QED
  BY <1>4, <1>9, <1>10 DEF AllSound

(* The lists of two handles become ones of other nodes.                    *)
TwoMay(Ls, m, h, d, F, g, e, G, q) ==
  /\ h \in Handles /\ Ls[h] # Null /\ g \in Handles /\ Ls[g] # Null /\ h # g
  /\ Stands(d, q, F) /\ d.al = Ls[h].al
  /\ Stands(e, q, G) /\ e.al = Ls[g].al
  /\ F \cap G = {}
  /\ Swapped(Owned(Ls, m, h) \cup Owned(Ls, m, g), m, F \cup G, q)

(* Two lists are changed that way.                                         *)
LEMMA TwoChange ==
  ASSUME NEW Ls, NEW m, NEW H, AllSound(Ls, m, H),
         NEW h, NEW d, NEW F, NEW g, NEW e, NEW G, NEW q, TwoMay(Ls, m, h, d, F, g, e, G, q)
  PROVE  AllSound([Ls EXCEPT ![h] = d, ![g] = e], q, H)
<1>1. /\ h \in Handles /\ Ls[h] # Null /\ g \in Handles /\ Ls[g] # Null /\ h # g
      /\ Stands(d, q, F) /\ d.al = Ls[h].al
      /\ Stands(e, q, G) /\ e.al = Ls[g].al
      /\ F \cap G = {}
      /\ Swapped(Owned(Ls, m, h) \cup Owned(Ls, m, g), m, F \cup G, q) /\ q \in Memories
  BY DEF TwoMay, Swapped
<1>2. d \in Lists /\ d # Null /\ e \in Lists /\ e # Null
  BY <1>1, StandsIs
<1>3. Sound(Ls, m) /\ Counted(Ls, H) /\ Ls \in [Handles -> Lists \cup {Null}]
  BY DEF AllSound, Sound
<1>4. PICK Ls2 : Ls2 = [Ls EXCEPT ![h] = d, ![g] = e]
  OBVIOUS
<1>5. /\ Ls2 \in [Handles -> Lists \cup {Null}] /\ Ls2[h] = d /\ Ls2[g] = e
      /\ \A k \in Handles : k # h /\ k # g => Ls2[k] = Ls[k]
  BY <1>1, <1>2, <1>3, <1>4
<1>6. PICK O : O = [k \in {h, g} |-> IF k = h THEN F ELSE G]
  OBVIOUS
<1>7. /\ UNION {Owned(Ls, m, k) : k \in {h, g}} = Owned(Ls, m, h) \cup Owned(Ls, m, g)
      /\ O[h] = F /\ O[g] = G /\ UNION {O[k] : k \in {h, g}} = F \cup G
  BY <1>1, <1>6
<1>8. Changes(Ls, m, {h, g}, Ls2, q, O)
  BY <1>1, <1>5, <1>7 DEF Changes
<1>9. Sound(Ls2, q)
  BY <1>3, <1>8, ChangesKeep
<1>10. Counted(Ls2, H)
  <2>1. \A k \in Handles : (Ls2[k] = Null <=> Ls[k] = Null) /\ (Ls[k] # Null => Ls2[k].al = Ls[k].al)
    BY <1>1, <1>2, <1>5
  <2>2. QED
    BY <1>3, <2>1, CountedStays
<1>11. QED
  BY <1>4, <1>9, <1>10 DEF AllSound

(* A list comes, with a header.                                            *)
ComesMay(Ls, m, h, d, G, q) ==
  /\ h \in Handles /\ Ls[h] = Null
  /\ Stands(d, q, G)
  /\ Swapped({}, m, G, q)

(* A list comes that way, with its header.                                 *)
LEMMA OneComes ==
  ASSUME NEW Ls, NEW m, NEW H, AllSound(Ls, m, H), NEW h, NEW d, NEW G, NEW q, ComesMay(Ls, m, h, d, G, q)
  PROVE  AllSound([Ls EXCEPT ![h] = d], q, TakeHdr(H, d.al))
<1>1. /\ h \in Handles /\ Ls[h] = Null /\ Stands(d, q, G) /\ Swapped({}, m, G, q) /\ q \in Memories
  BY DEF ComesMay, Swapped
<1>2. d \in Lists /\ d # Null
  BY <1>1, StandsIs
<1>3. Sound(Ls, m) /\ Counted(Ls, H) /\ Ls \in [Handles -> Lists \cup {Null}]
  BY DEF AllSound, Sound
<1>4. PICK Ls2 : Ls2 = [Ls EXCEPT ![h] = d]
  OBVIOUS
<1>5. Ls2 \in [Handles -> Lists \cup {Null}] /\ Ls2[h] = d /\ \A k \in Handles : k # h => Ls2[k] = Ls[k]
  BY <1>1, <1>2, <1>3, <1>4, OtherStruct
<1>6. PICK O : O = [k \in {h} |-> G]
  OBVIOUS
<1>7. UNION {Owned(Ls, m, k) : k \in {h}} = {} /\ UNION {O[k] : k \in {h}} = G /\ O[h] = G
  BY <1>1, <1>6 DEF Owned
<1>8. Changes(Ls, m, {h}, Ls2, q, O)
  BY <1>1, <1>5, <1>7 DEF Changes
<1>9. Sound(Ls2, q)
  BY <1>3, <1>8, ChangesKeep
<1>10. PICK a, K : a = d.al /\ a \in Als /\ K = TakeHdr(H, a)
  BY <1>2 DEF Lists
<1>11. K \in [Als -> Nat] /\ K[a] = H[a] + 1 /\ \A b \in Als : b # a => K[b] = H[b]
  BY <1>3, <1>10 DEF Counted, TakeHdr
<1>12. ASSUME NEW b \in Als
       PROVE  IsFiniteSet(Held(Ls2, b)) /\ K[b] = Cardinality(Held(Ls2, b))
  <2>1. IsFiniteSet(Held(Ls, b)) /\ H[b] = Cardinality(Held(Ls, b))
    BY <1>3 DEF Counted
  <2>2. CASE b = a
    <3>1. Held(Ls2, b) = Held(Ls, b) \cup {h} /\ h \notin Held(Ls, b)
      BY <1>1, <1>2, <1>5, <1>10, <2>2 DEF Held
    <3>2. IsFiniteSet(Held(Ls2, b)) /\ Cardinality(Held(Ls2, b)) = Cardinality(Held(Ls, b)) + 1
      BY <2>1, <3>1, FS_AddElement
    <3>3. QED
      BY <1>11, <2>1, <2>2, <3>2
  <2>3. CASE b # a
    <3>1. Held(Ls2, b) = Held(Ls, b)
      BY <1>1, <1>5, <1>10, <2>3 DEF Held
    <3>2. QED
      BY <1>11, <2>1, <2>3, <3>1
  <2>4. QED
    BY <2>2, <2>3
<1>13. Counted(Ls2, K)
  BY <1>11, <1>12 DEF Counted
<1>14. QED
  BY <1>4, <1>9, <1>10, <1>13 DEF AllSound

(* A list goes, and its header.                                            *)
LEMMA OneGoes ==
  ASSUME NEW Ls, NEW m, NEW H, AllSound(Ls, m, H), NEW h \in Handles, Ls[h] # Null, NEW q, Swapped(Owned(Ls, m, h), m, {}, q)
  PROVE  AllSound([Ls EXCEPT ![h] = Null], q, ReturnHdr(H, Ls[h].al))
<1>1. Sound(Ls, m) /\ Counted(Ls, H) /\ Ls \in [Handles -> Lists \cup {Null}] /\ Ls[h] \in Lists
  BY DEF AllSound, Sound
<1>2. PICK Ls2 : Ls2 = [Ls EXCEPT ![h] = Null]
  OBVIOUS
<1>3. Ls2 \in [Handles -> Lists \cup {Null}] /\ Ls2[h] = Null /\ \A k \in Handles : k # h => Ls2[k] = Ls[k]
  BY <1>1, <1>2
<1>4. PICK O : O = [k \in {h} |-> {}]
  OBVIOUS
<1>5. UNION {Owned(Ls, m, k) : k \in {h}} = Owned(Ls, m, h) /\ UNION {O[k] : k \in {h}} = {} /\ O[h] = {}
  BY <1>4
<1>6. Changes(Ls, m, {h}, Ls2, q, O)
  BY <1>3, <1>5 DEF Changes
<1>7. Sound(Ls2, q)
  BY <1>1, <1>6, ChangesKeep
<1>8. PICK a, K : a = Ls[h].al /\ a \in Als /\ K = ReturnHdr(H, a)
  BY <1>1 DEF Lists
<1>9. \A b \in Als : IsFiniteSet(Held(Ls, b)) /\ H[b] = Cardinality(Held(Ls, b)) /\ H[b] \in Nat
  BY <1>1 DEF Counted
<1>10. K = [H EXCEPT ![a] = @ - 1] /\ H \in [Als -> Nat]
  BY <1>1, <1>8 DEF ReturnHdr, Counted
<1>11. K[a] = H[a] - 1 /\ \A b \in Als : b # a => K[b] = H[b]
  BY <1>8, <1>10
<1>12. ASSUME NEW b \in Als
       PROVE  IsFiniteSet(Held(Ls2, b)) /\ K[b] = Cardinality(Held(Ls2, b))
  <2>1. CASE b = a
    <3>1. Held(Ls2, b) = Held(Ls, b) \ {h} /\ h \in Held(Ls, b)
      BY <1>3, <1>8, <2>1 DEF Held
    <3>2. IsFiniteSet(Held(Ls2, b)) /\ Cardinality(Held(Ls2, b)) = Cardinality(Held(Ls, b)) - 1
      BY <1>9, <3>1, FS_RemoveElement
    <3>3. QED
      BY <1>9, <1>11, <2>1, <3>2
  <2>2. CASE b # a
    <3>1. Held(Ls2, b) = Held(Ls, b)
      BY <1>3, <1>8, <2>2 DEF Held
    <3>2. QED
      BY <1>9, <1>11, <2>2, <3>1
  <2>3. QED
    BY <2>1, <2>2
<1>13. K \in [Als -> Nat]
  <2>1. \A b \in Als : K[b] \in Nat
    BY <1>12, FS_CardinalityType
  <2>2. QED
    BY <1>10, <2>1
<1>14. Counted(Ls2, K)
  BY <1>12, <1>13 DEF Counted
<1>15. QED
  BY <1>2, <1>7, <1>8, <1>14 DEF AllSound

-----------------------------------------------------------------------------
(* The inductive invariant, and the calls.                                 *)

Said == {OK, NoMem, Yes, No, Null} \cup Nodes

(* Every list stands, no node is in two of them, every node lent is in     *)
(* one, and every header lent is of one.                                   *)
LinkInv == AllSound(list, mem, hdrs) /\ status \in Said

(* What a live list is.                                                    *)
ListIs(h, d, s) ==
  /\ h \in Handles /\ d = list[h] /\ d # Null /\ d \in Lists
  /\ mem \in Memories
  /\ Holds(d, mem, s) /\ NodesOf(d, mem) = s
  /\ Owned(list, mem, h) = Along(s)

(* A list that is alive has a struct and a line of nodes.                  *)
LEMMA AliveIs ==
  ASSUME LinkInv, NEW h \in Handles, Alive(h)
  PROVE  \E d, s : ListIs(h, d, s)
<1>1. list[h] # Null /\ mem \in Memories /\ Stands(list[h], mem, Owned(list, mem, h))
  BY DEF LinkInv, AllSound, Sound, Alive
<1>2. PICK d, s : d = list[h] /\ s = NodesOf(d, mem)
  OBVIOUS
<1>3. Holds(d, mem, s) /\ d \in Lists /\ Along(s) = Owned(list, mem, h)
  BY <1>1, <1>2, StandsIs
<1>4. QED
  BY <1>1, <1>2, <1>3 DEF ListIs

(* The nodes of two lists differ.                                          *)
LEMMA TwoAre ==
  ASSUME LinkInv, NEW h, NEW d, NEW s, ListIs(h, d, s), NEW g, NEW e, NEW t, ListIs(g, e, t), h # g
  PROVE  Along(s) \cap Along(t) = {}
  BY DEF LinkInv, AllSound, Sound, ListIs

(* A call that leaves all as it is.                                        *)
LEMMA NothingKeeps ==
  ASSUME LinkInv, list' = list, mem' = mem, hdrs' = hdrs, status' \in Said
  PROVE  LinkInv'
  BY DEF LinkInv, Said

(* A refusal, and a call with nothing to do.                               *)
LEMMA RefuseKeeps ==
  ASSUME LinkInv, Refuse \/ Nothing
  PROVE  LinkInv'
  BY NothingKeeps DEF Refuse, Nothing, Said

(* A call that changes one list.                                           *)
LEMMA CommitKeeps ==
  ASSUME LinkInv, NEW h, NEW r, Commit(h, r), r.st \in {OK, NoMem},
         NEW G, OneMay(list, mem, h, r.d, G, r.m)
  PROVE  LinkInv'
<1>1. AllSound(list, mem, hdrs)
  BY DEF LinkInv
<1>2. PICK d, q : d = r.d /\ q = r.m
  OBVIOUS
<1>3. AllSound([list EXCEPT ![h] = d], q, hdrs)
  BY <1>1, <1>2, OneChanges
<1>4. list' = [list EXCEPT ![h] = d] /\ mem' = q /\ hdrs' = hdrs /\ status' \in Said
  BY <1>2 DEF Commit, Said
<1>5. QED
  BY <1>3, <1>4 DEF LinkInv, Said

(* One that ends as it began.                                              *)
LEMMA CommitNothing ==
  ASSUME LinkInv, NEW h \in Handles, NEW r, Commit(h, r), r.st \in {OK, NoMem}, r.d = list[h], r.m = mem
  PROVE  LinkInv'
<1>1. list \in [Handles -> Lists \cup {Null}]
  BY DEF LinkInv, AllSound, Sound
<1>2. [list EXCEPT ![h] = list[h]] = list
  BY <1>1
<1>3. QED
  BY <1>2, NothingKeeps DEF Commit, Said

(* A call that changes two.                                                *)
LEMMA CommitBothKeeps ==
  ASSUME LinkInv, NEW h, NEW d, NEW F, NEW g, NEW e, NEW G, NEW q, CommitBoth(h, d, g, e, q),
         TwoMay(list, mem, h, d, F, g, e, G, q)
  PROVE  LinkInv'
<1>1. AllSound(list, mem, hdrs)
  BY DEF LinkInv
<1>2. AllSound([list EXCEPT ![h] = d, ![g] = e], q, hdrs)
  BY <1>1, TwoChange
<1>3. list' = [list EXCEPT ![h] = d, ![g] = e] /\ mem' = q /\ hdrs' = hdrs /\ status' \in Said
  BY DEF CommitBoth, Said
<1>4. QED
  BY <1>2, <1>3 DEF LinkInv, Said

(* A list put into another's place, linked anew.                           *)
LEMMA RelinkedKeeps ==
  ASSUME LinkInv, NEW h, NEW d, NEW s, ListIs(h, d, s), NEW n, NEW r, Relinked(d, mem, Along(s), n, r), Commit(h, r)
  PROVE  LinkInv'
<1>1. r.st = OK /\ r.d.al = d.al /\ Stands(r.d, r.m, Along(s)) /\ Rewired(mem, r.m, Along(s))
  BY DEF Relinked, Stands
<1>2. Swapped(Along(s), mem, Along(s), r.m)
  BY <1>1, RewiredIsSwapped
<1>3. OneMay(list, mem, h, r.d, Along(s), r.m)
  BY <1>1, <1>2 DEF OneMay, ListIs
<1>4. QED
  BY <1>1, <1>3, CommitKeeps

-----------------------------------------------------------------------------
(* Nodes put in and taken out.                                             *)

(* insert_between, at a place of the list.                                 *)
LEMMA InsertKeeps ==
  ASSUME LinkInv, NEW h, NEW d, NEW s, ListIs(h, d, s), NEW i \in 0 .. d.len, NEW val \in Vals, NEW granted,
         Commit(h, InsertBetween(d, mem, NthOf(s, i), NthOf(s, i + 1), val, granted))
  PROVE  LinkInv'
<1>1. PICK r : r = InsertBetween(d, mem, NthOf(s, i), NthOf(s, i + 1), val, granted)
  OBVIOUS
<1>2. Commit(h, r)
  BY <1>1
<1>3. h \in Handles /\ d = list[h] /\ mem \in Memories /\ Holds(d, mem, s) /\ Owned(list, mem, h) = Along(s) /\ d # Null
  BY DEF ListIs
<1>4. \/ r.st = NoMem /\ r.d = d /\ r.m = mem
      \/ \E x : OneMore(d, mem, s, i, val, r, x)
  BY <1>1, <1>3, InsertIs
<1>5. CASE r.st = NoMem /\ r.d = d /\ r.m = mem
  BY <1>2, <1>3, <1>5, CommitNothing
<1>6. CASE \E x : OneMore(d, mem, s, i, val, r, x)
  <2>1. PICK x : OneMore(d, mem, s, i, val, r, x)
    BY <1>6
  <2>2. PICK G : G = Along(s) \cup {x}
    OBVIOUS
  <2>3. r.st = OK /\ Stands(r.d, r.m, G) /\ r.d.al = d.al /\ Swapped(Along(s), mem, G, r.m)
    BY <2>1, <2>2 DEF OneMore, Stands
  <2>4. OneMay(list, mem, h, r.d, G, r.m)
    BY <1>3, <2>3 DEF OneMay
  <2>5. QED
    BY <1>2, <2>3, <2>4, CommitKeeps
<1>7. QED
  BY <1>4, <1>5, <1>6

(* The neighbours of a place.                                              *)
LEMMA PlacesAre ==
  ASSUME NEW h, NEW d, NEW s, ListIs(h, d, s)
  PROVE  /\ d.len \in Nat /\ DOMAIN s = 1 .. d.len
         /\ NthOf(s, 0) = Null /\ NthOf(s, d.len + 1) = Null
         /\ d.head = NthOf(s, 1) /\ d.tail = NthOf(s, d.len)
         /\ \A k \in 1 .. d.len : /\ NthOf(s, k) = s[k] /\ s[k] \in Nodes /\ mem[s[k]] # Null
                                  /\ mem[s[k]].prev = NthOf(s, k - 1) /\ mem[s[k]].next = NthOf(s, k + 1)
                                  /\ mem[s[k]].al = d.al
         /\ d.len > 0 => d.head = s[1] /\ d.tail = s[d.len] /\ 1 \in 1 .. d.len /\ d.len \in 1 .. d.len
<1>1. Holds(d, mem, s)
  BY DEF ListIs
<1>2. /\ d.len \in Nat /\ DOMAIN s = 1 .. d.len
      /\ \A k \in 1 .. d.len : s[k] \in Nodes /\ mem[s[k]] # Null
  BY <1>1, HoldsIs
<1>3. d.head = NthOf(s, 1) /\ d.tail = NthOf(s, d.len)
  BY <1>1 DEF Holds
<1>4. \A k \in 1 .. d.len : /\ mem[s[k]].prev = NthOf(s, k - 1) /\ mem[s[k]].next = NthOf(s, k + 1)
                            /\ mem[s[k]].al = d.al
  BY <1>1 DEF Holds
<1>5. \A k \in 1 .. d.len : NthOf(s, k) = s[k]
  BY <1>2 DEF NthOf
<1>6. NthOf(s, 0) = Null /\ NthOf(s, d.len + 1) = Null
  <2>1. 0 \notin 1 .. d.len /\ d.len + 1 \notin 1 .. d.len
    BY <1>2
  <2>2. QED
    BY <1>2, <2>1 DEF NthOf
<1>7. ASSUME d.len > 0
      PROVE  d.head = s[1] /\ d.tail = s[d.len] /\ 1 \in 1 .. d.len /\ d.len \in 1 .. d.len
  <2>1. 1 \in 1 .. d.len /\ d.len \in 1 .. d.len
    BY <1>2, <1>7
  <2>2. QED
    BY <1>3, <1>5, <2>1
<1>8. QED
  BY <1>2, <1>3, <1>4, <1>5, <1>6, <1>7

(* A node a program comes by has a place.                                  *)
LEMMA InListIs ==
  ASSUME NEW h, NEW d, NEW s, ListIs(h, d, s), NEW x, InList(h, x)
  PROVE  \E i \in 1 .. d.len : x = s[i]
<1>1. /\ mem \in Memories /\ Holds(d, mem, s) /\ NodesOf(d, mem) = s /\ d = list[h]
  BY DEF ListIs
<1>2. PICK t : t = Walk(Prevs(mem), d.tail) /\ Along(t) = Along(s)
  <2>1. Walk(Prevs(mem), d.tail) = Backwards(s, d.len)
    BY <1>1, WalkBackIs
  <2>2. Along(Backwards(s, d.len)) = Along(s)
    BY <1>1, BackwardsIs DEF Holds
  <2>3. QED
    BY <2>1, <2>2
<1>3. SE!ToSet(s) = Along(s) /\ SE!ToSet(t) = Along(t)
  BY DEF SE!ToSet, Along
<1>4. x \in Along(s)
  BY <1>1, <1>2, <1>3 DEF InList
<1>5. DOMAIN s = 1 .. d.len
  BY PlacesAre
<1>6. QED
  BY <1>4, <1>5 DEF Along

(* tda_list_push_front.                                                    *)
LEMMA PushFrontKeeps ==
  ASSUME LinkInv, NEW h \in Handles, NEW val \in Vals, NEW granted, PushFront(h, val, granted)
  PROVE  LinkInv'
<1>1. PICK d, s : ListIs(h, d, s)
  BY AliveIs DEF PushFront
<1>2. d = list[h] /\ d.len \in Nat /\ NthOf(s, 0) = Null /\ d.head = NthOf(s, 0 + 1)
  BY <1>1, PlacesAre DEF ListIs
<1>3. Commit(h, InsertBetween(d, mem, NthOf(s, 0), NthOf(s, 0 + 1), val, granted))
  BY <1>2 DEF PushFront
<1>4. 0 \in 0 .. d.len
  BY <1>2
<1>5. QED
  BY <1>1, <1>3, <1>4, InsertKeeps

(* tda_list_push_back.                                                     *)
LEMMA PushBackKeeps ==
  ASSUME LinkInv, NEW h \in Handles, NEW val \in Vals, NEW granted, PushBack(h, val, granted)
  PROVE  LinkInv'
<1>1. PICK d, s : ListIs(h, d, s)
  BY AliveIs DEF PushBack
<1>2. PICK i : i = d.len
  OBVIOUS
<1>3. d = list[h] /\ i \in Nat /\ d.tail = NthOf(s, i) /\ NthOf(s, i + 1) = Null
  BY <1>1, <1>2, PlacesAre DEF ListIs
<1>4. Commit(h, InsertBetween(d, mem, NthOf(s, i), NthOf(s, i + 1), val, granted))
  BY <1>3 DEF PushBack
<1>5. i \in 0 .. d.len
  BY <1>2, <1>3
<1>6. QED
  BY <1>1, <1>4, <1>5, InsertKeeps

(* tda_list_insert_before.                                                 *)
LEMMA InsertBeforeKeeps ==
  ASSUME LinkInv, NEW h \in Handles, NEW at, NEW val \in Vals, NEW granted, InsertBefore(h, at, val, granted)
  PROVE  LinkInv'
<1>1. PICK d, s : ListIs(h, d, s)
  BY AliveIs DEF InsertBefore, InList
<1>2. PICK k \in 1 .. d.len : at = s[k]
  BY <1>1, InListIs DEF InsertBefore
<1>3. d = list[h] /\ d.len \in Nat /\ mem[at].prev = NthOf(s, k - 1) /\ at = NthOf(s, k)
  BY <1>1, <1>2, PlacesAre DEF ListIs
<1>4. PICK i : i = k - 1 /\ i \in 0 .. d.len /\ i + 1 = k
  BY <1>2, <1>3
<1>5. Commit(h, InsertBetween(d, mem, NthOf(s, i), NthOf(s, i + 1), val, granted))
  BY <1>3, <1>4 DEF InsertBefore
<1>6. QED
  BY <1>1, <1>4, <1>5, InsertKeeps

(* tda_list_insert_after.                                                  *)
LEMMA InsertAfterKeeps ==
  ASSUME LinkInv, NEW h \in Handles, NEW at, NEW val \in Vals, NEW granted, InsertAfter(h, at, val, granted)
  PROVE  LinkInv'
<1>1. PICK d, s : ListIs(h, d, s)
  BY AliveIs DEF InsertAfter, InList
<1>2. PICK i \in 1 .. d.len : at = s[i]
  BY <1>1, InListIs DEF InsertAfter
<1>3. d = list[h] /\ d.len \in Nat /\ mem[at].next = NthOf(s, i + 1) /\ at = NthOf(s, i)
  BY <1>1, <1>2, PlacesAre DEF ListIs
<1>4. i \in 0 .. d.len
  BY <1>2, <1>3
<1>5. Commit(h, InsertBetween(d, mem, NthOf(s, i), NthOf(s, i + 1), val, granted))
  BY <1>3 DEF InsertAfter
<1>6. QED
  BY <1>1, <1>4, <1>5, InsertKeeps

(* remove_node, at a place of the list.                                    *)
LEMMA RemovedKeeps ==
  ASSUME LinkInv, NEW h, NEW d, NEW s, ListIs(h, d, s), NEW i \in 1 .. d.len, Commit(h, Removed(d, mem, s[i]))
  PROVE  LinkInv'
<1>1. PICK r, t : r = Removed(d, mem, s[i]) /\ t = TakenOut(s, d.len, i)
  OBVIOUS
<1>2. Commit(h, r)
  BY <1>1
<1>3. h \in Handles /\ d = list[h] /\ mem \in Memories /\ Holds(d, mem, s) /\ Owned(list, mem, h) = Along(s) /\ d # Null
  BY DEF ListIs
<1>4. /\ r.st = OK /\ Holds(r.d, r.m, t) /\ r.d.al = d.al
      /\ Swapped(Along(s), mem, Along(t), r.m)
  BY <1>1, <1>3, RemovedIs
<1>5. OneMay(list, mem, h, r.d, Along(t), r.m)
  BY <1>3, <1>4 DEF OneMay, Stands
<1>6. QED
  BY <1>2, <1>4, <1>5, CommitKeeps

(* tda_list_pop_front, tda_list_pop_back, tda_list_remove.                 *)
LEMMA PopsKeep ==
  ASSUME LinkInv, NEW h \in Handles, PopFront(h) \/ PopBack(h) \/ \E x : Remove(h, x)
  PROVE  LinkInv'
<1>1. PICK d, s : ListIs(h, d, s)
  BY AliveIs DEF PopFront, PopBack, Remove, InList
<1>2. d = list[h] /\ (d.len > 0 => d.head = s[1] /\ d.tail = s[d.len] /\ 1 \in 1 .. d.len /\ d.len \in 1 .. d.len)
  BY <1>1, PlacesAre DEF ListIs
<1>3. \E i \in 1 .. d.len : Commit(h, Removed(d, mem, s[i]))
  <2>1. CASE PopFront(h)
    BY <1>2, <2>1 DEF PopFront
  <2>2. CASE PopBack(h)
    BY <1>2, <2>2 DEF PopBack
  <2>3. CASE \E x : Remove(h, x)
    <3>1. PICK x : InList(h, x) /\ Commit(h, Removed(d, mem, x))
      BY <1>2, <2>3 DEF Remove
    <3>2. QED
      BY <1>1, <3>1, InListIs
  <2>4. QED
    BY <2>1, <2>2, <2>3
<1>4. QED
  BY <1>1, <1>3, RemovedKeeps

(* tda_list_clear.                                                         *)
LEMMA ClearKeeps ==
  ASSUME LinkInv, NEW h \in Handles, Clear(h)
  PROVE  LinkInv'
<1>1. PICK d, s : ListIs(h, d, s)
  BY AliveIs DEF Clear
<1>2. d = list[h] /\ d \in Lists /\ d # Null /\ mem \in Memories /\ Holds(d, mem, s) /\ Owned(list, mem, h) = Along(s)
  BY <1>1 DEF ListIs
<1>3. PICK r : r = Result(OK, Emptied(d), ClearedMem(d, mem))
  OBVIOUS
<1>4. r.st = OK /\ r.d = Emptied(d) /\ r.m = ClearedMem(d, mem)
  BY <1>3 DEF Result
<1>5. Swapped(Along(s), mem, {}, r.m)
  BY <1>2, <1>4, ClearedIs
<1>6. Stands(r.d, r.m, {}) /\ r.d.al = d.al
  BY <1>2, <1>4, EmptiedHolds, NoLine DEF Stands
<1>7. OneMay(list, mem, h, r.d, {}, r.m)
  BY <1>2, <1>5, <1>6 DEF OneMay
<1>8. Commit(h, r)
  BY <1>2, <1>3 DEF Clear
<1>9. QED
  BY <1>4, <1>7, <1>8, CommitKeeps

(* Elems written, links as they were.                                      *)
LEMMA RewrittenKeeps ==
  ASSUME LinkInv, NEW h, NEW d, NEW s, ListIs(h, d, s), NEW q, NEW A, A \subseteq Along(s), Rewritten(mem, q, A),
         Commit(h, Result(OK, d, q))
  PROVE  LinkInv'
<1>1. PICK r : r = Result(OK, d, q)
  OBVIOUS
<1>2. r.st = OK /\ r.d = d /\ r.m = q /\ Commit(h, r)
  BY <1>1 DEF Result
<1>3. h \in Handles /\ d = list[h] /\ mem \in Memories /\ Holds(d, mem, s) /\ Owned(list, mem, h) = Along(s) /\ d # Null
  BY DEF ListIs
<1>4. Holds(d, q, s)
  BY <1>3, RewrittenHolds
<1>5. Rewritten(mem, q, Along(s))
  BY DEF Rewritten
<1>6. Swapped(Along(s), mem, Along(s), q)
  BY <1>5, RewrittenIsSwapped
<1>7. OneMay(list, mem, h, r.d, Along(s), r.m)
  BY <1>2, <1>3, <1>4, <1>6 DEF OneMay, Stands
<1>8. QED
  BY <1>2, <1>7, CommitKeeps

(* A store through the address of an elem.                                 *)
LEMMA WriteElemKeeps ==
  ASSUME LinkInv, NEW h \in Handles, NEW x, NEW val \in Vals, WriteElem(h, x, val)
  PROVE  LinkInv'
<1>1. PICK d, s : ListIs(h, d, s)
  BY AliveIs DEF WriteElem, InList
<1>2. PICK i \in 1 .. d.len : x = s[i]
  BY <1>1, InListIs DEF WriteElem
<1>3. d = list[h] /\ mem \in Memories /\ x \in Nodes /\ mem[x] # Null /\ x \in Along(s)
  BY <1>1, <1>2, PlacesAre DEF ListIs, Along
<1>4. PICK q : q = [mem EXCEPT ![x].val = val]
  OBVIOUS
<1>5. Rewritten(mem, q, {x})
  BY <1>3, <1>4, WriteIs
<1>6. Commit(h, Result(OK, d, q))
  BY <1>3, <1>4 DEF WriteElem
<1>7. QED
  BY <1>1, <1>3, <1>5, <1>6, RewrittenKeeps

(* tda_list_copy_from_span.                                                *)
LEMMA CopyFromSpanKeeps ==
  ASSUME LinkInv, NEW h \in Handles, NEW vs \in Seq(Vals), CopyFromSpan(h, vs)
  PROVE  LinkInv'
<1>1. PICK d, s : ListIs(h, d, s)
  BY AliveIs DEF CopyFromSpan
<1>2. d = list[h] /\ mem \in Memories /\ NodesOf(d, mem) = s
  BY <1>1 DEF ListIs
<1>3. PICK q : q = Overwritten(mem, s, vs)
  OBVIOUS
<1>4. IsLine(s, d.len) /\ \A k \in 1 .. d.len : mem[s[k]] # Null
  BY <1>1, PlacesAre DEF ListIs, Holds
<1>5. Rewritten(mem, q, Along(s))
  BY <1>2, <1>3, <1>4, OverwrittenIs
<1>6. Commit(h, Result(OK, d, q))
  BY <1>2, <1>3 DEF CopyFromSpan
<1>7. QED
  BY <1>1, <1>5, <1>6, RewrittenKeeps

(* tda_list_reverse.                                                       *)
LEMMA ReverseKeeps ==
  ASSUME LinkInv, NEW h \in Handles, Reverse(h)
  PROVE  LinkInv'
<1>1. PICK d, s : ListIs(h, d, s)
  BY AliveIs DEF Reverse
<1>2. d = list[h] /\ mem \in Memories /\ Holds(d, mem, s) /\ NodesOf(d, mem) = s
  BY <1>1 DEF ListIs
<1>3. PICK f, q : f = Turned(d) /\ q = TurnedMem(mem, Along(s))
  OBVIOUS
<1>4. PICK r : r = Result(OK, f, q)
  OBVIOUS
<1>5. SE!ToSet(s) = Along(s)
  BY DEF SE!ToSet, Along
<1>6. Commit(h, r)
  BY <1>2, <1>3, <1>4, <1>5 DEF Reverse, Turned, TurnedMem
<1>7. f.al = d.al /\ f.len = d.len /\ (\E u : Holds(f, q, u) /\ Along(u) = Along(s)) /\ Rewired(mem, q, Along(s))
  BY <1>2, <1>3, ReversedIs
<1>8. r.st = OK /\ r.d = f /\ r.m = q
  BY <1>4 DEF Result
<1>9. Relinked(d, mem, Along(s), d.len, r)
  BY <1>7, <1>8 DEF Relinked
<1>10. QED
  BY <1>1, <1>6, <1>9, RelinkedKeeps

(* tda_list_sort.                                                          *)
LEMMA SortKeeps ==
  ASSUME LinkInv, NEW h \in Handles, Sort(h)
  PROVE  LinkInv'
<1>1. PICK d, s : ListIs(h, d, s)
  BY AliveIs DEF Sort
<1>2. d = list[h] /\ mem \in Memories /\ Holds(d, mem, s)
  BY <1>1 DEF ListIs
<1>3. PICK r : r = Sorted(d, mem)
  OBVIOUS
<1>4. Commit(h, r)
  BY <1>2, <1>3 DEF Sort
<1>5. Relinked(d, mem, Along(s), d.len, r)
  BY <1>2, <1>3, SortIs
<1>6. QED
  BY <1>1, <1>4, <1>5, RelinkedKeeps

-----------------------------------------------------------------------------
(* Lifetime.                                                               *)

(* The elems of a list.                                                    *)
LEMMA ElemsAre ==
  ASSUME NEW h, NEW d, NEW s, ListIs(h, d, s)
  PROVE  Elems(d, mem) \in Seq(Vals) /\ Len(Elems(d, mem)) = d.len
<1>1. d.len \in Nat /\ DOMAIN s = 1 .. d.len /\ NodesOf(d, mem) = s /\ mem \in Memories
  BY PlacesAre DEF ListIs
<1>2. \A k \in 1 .. d.len : mem[s[k]].val \in Vals
  <2>1. \A k \in 1 .. d.len : mem[s[k]] \in ListNodes
    BY DEF ListIs, Holds
  <2>2. QED
    BY <2>1 DEF ListNodes
<1>3. PICK vs : vs = [k \in 1 .. d.len |-> mem[s[k]].val]
  OBVIOUS
<1>4. Elems(d, mem) = vs
  BY <1>1, <1>3 DEF Elems
<1>5. vs \in Seq(Vals) /\ Len(vs) = d.len
  BY <1>1, <1>2, <1>3
<1>6. QED
  BY <1>4, <1>5

(* A list that was built stands on nodes that were free.                   *)
LEMMA NewListIs ==
  ASSUME NEW m, NEW a, NEW n, NEW r, NewList(r, a, m, n)
  PROVE  \E t : Holds(r.d, r.m, t) /\ Swapped({}, m, Along(t), r.m) /\ r.m \in Memories /\ r.d.al = a /\ r.d.len = n
                /\ r.st = OK
  BY DEF NewList, Swapped

(* A header taken and returned.                                            *)
LEMMA HeaderBack ==
  ASSUME NEW H \in [Als -> Nat], NEW a \in Als
  PROVE  ReturnHdr(TakeHdr(H, a), a) = H
<1>1. PICK K : K = TakeHdr(H, a)
  OBVIOUS
<1>2. K \in [Als -> Nat] /\ K[a] = H[a] + 1 /\ \A b \in Als : b # a => K[b] = H[b]
  BY <1>1 DEF TakeHdr
<1>3. K[a] - 1 = H[a]
  <2>1. H[a] \in Nat /\ K[a] = H[a] + 1
    BY <1>2
  <2>2. QED
    BY <2>1
<1>4. [K EXCEPT ![a] = H[a]] = H
  <2>1. PICK M : M = [K EXCEPT ![a] = H[a]]
    OBVIOUS
  <2>2. M \in [Als -> Nat]
    BY <1>2, <2>1
  <2>3. M[a] = H[a] /\ \A b \in Als : b # a => M[b] = H[b]
    BY <1>2, <2>1
  <2>4. QED
    BY <2>1, <2>2, <2>3
<1>5. QED
  BY <1>1, <1>3, <1>4 DEF ReturnHdr

(* A new list stands, or what was lent for it is back.                     *)
LEMMA NewWithKeeps ==
  ASSUME LinkInv, NEW h \in Handles, NEW a \in Als, NEW vs \in Seq(Vals), NEW hdr, NEW grants,
         NewWith(h, a, vs, hdr, grants)
  PROVE  LinkInv'
<1>1. mem \in Memories /\ AllSound(list, mem, hdrs) /\ hdrs \in [Als -> Nat]
  BY DEF LinkInv, AllSound, Sound, Counted
<1>2. PICK r : r = Built(a, mem, vs, grants)
  OBVIOUS
<1>3. NewList(r, a, mem, Len(vs)) \/ (r.st = NoMem /\ r.m = mem)
  BY <1>1, <1>2, BuiltIs
<1>4. CASE Refuse
  BY <1>4, RefuseKeeps
<1>5. CASE /\ r.st = NoMem
           /\ mem' = r.m
           /\ hdrs' = ReturnHdr(TakeHdr(hdrs, a), a)
           /\ status' = NoMem
           /\ UNCHANGED list
  <2>1. r.m = mem
    BY <1>3, <1>5, StatusesDiffer DEF NewList
  <2>2. ReturnHdr(TakeHdr(hdrs, a), a) = hdrs
    BY <1>1, HeaderBack
  <2>3. QED
    BY <1>5, <2>1, <2>2, NothingKeeps DEF Said
<1>6. CASE /\ r.st = OK
           /\ mem' = r.m
           /\ hdrs' = TakeHdr(hdrs, a)
           /\ list' = [list EXCEPT ![h] = r.d]
           /\ status' = OK
  <2>1. NewList(r, a, mem, Len(vs))
    BY <1>3, <1>6, StatusesDiffer
  <2>2. PICK t : Holds(r.d, r.m, t) /\ Swapped({}, mem, Along(t), r.m) /\ r.d.al = a
    BY <2>1, NewListIs
  <2>3. ComesMay(list, mem, h, r.d, Along(t), r.m)
    BY <2>2 DEF NewWith, Alive, ComesMay, Stands
  <2>4. PICK d, q : d = r.d /\ q = r.m
    OBVIOUS
  <2>5. AllSound([list EXCEPT ![h] = d], q, TakeHdr(hdrs, d.al))
    BY <1>1, <2>3, <2>4, OneComes
  <2>6. QED
    BY <1>6, <2>2, <2>4, <2>5 DEF LinkInv, Said
<1>7. QED
  BY <1>2, <1>4, <1>5, <1>6 DEF NewWith

(* tda_list_copy_with.                                                     *)
LEMMA CopyWithKeeps ==
  ASSUME LinkInv, NEW h \in Handles, NEW g \in Handles, NEW a \in Als, NEW hdr, NEW grants,
         CopyWith(h, g, a, hdr, grants)
  PROVE  LinkInv'
<1>1. PICK d, s : ListIs(h, d, s)
  BY AliveIs DEF CopyWith
<1>2. d = list[h]
  BY <1>1 DEF ListIs
<1>3. PICK vs : vs = Elems(d, mem) /\ vs \in Seq(Vals)
  BY <1>1, ElemsAre
<1>4. NewWith(g, a, vs, hdr, grants)
  BY <1>2, <1>3 DEF CopyWith
<1>5. QED
  BY <1>3, <1>4, NewWithKeeps

(* tda_list_drop.                                                          *)
LEMMA DropKeeps ==
  ASSUME LinkInv, NEW h \in Handles, Drop(h)
  PROVE  LinkInv'
<1>1. PICK d, s : ListIs(h, d, s)
  BY AliveIs DEF Drop
<1>2. d = list[h] /\ mem \in Memories /\ Holds(d, mem, s) /\ Owned(list, mem, h) = Along(s) /\ d # Null
  BY <1>1 DEF ListIs
<1>3. PICK q : q = ClearedMem(d, mem)
  OBVIOUS
<1>4. Swapped(Along(s), mem, {}, q)
  BY <1>2, <1>3, ClearedIs
<1>5. AllSound(list, mem, hdrs)
  BY DEF LinkInv
<1>6. AllSound([list EXCEPT ![h] = Null], q, ReturnHdr(hdrs, list[h].al))
  BY <1>2, <1>4, <1>5, OneGoes
<1>7. QED
  BY <1>2, <1>3, <1>6 DEF LinkInv, Drop, Said

-----------------------------------------------------------------------------
(* From one list to another.                                               *)

(* Other nodes taken along, unchanged in number.                           *)
LEMMA SwappedWith ==
  ASSUME NEW m, NEW q, NEW F, NEW G, Swapped(F, m, G, q), NEW E
  PROVE  Swapped(F \cup E, m, G \cup E, q)
  BY DEF Swapped

(* tda_list_swap.                                                          *)
LEMMA SwapKeeps ==
  ASSUME LinkInv, NEW h \in Handles, NEW g \in Handles, Swap(h, g)
  PROVE  LinkInv'
<1>1. PICK d, s : ListIs(h, d, s)
  BY AliveIs DEF Swap
<1>2. PICK e, t : ListIs(g, e, t)
  BY AliveIs DEF Swap
<1>3. d = list[h] /\ e = list[g] /\ CommitBoth(h, e, g, d, mem) /\ d.al = e.al
  BY <1>1, <1>2 DEF Swap, ListIs
<1>4. CASE h = g
  <2>1. list \in [Handles -> Lists \cup {Null}]
    BY DEF LinkInv, AllSound, Sound
  <2>2. [list EXCEPT ![h] = list[h], ![h] = list[h]] = list
    BY <2>1
  <2>3. list' = list /\ mem' = mem /\ hdrs' = hdrs /\ status' \in Said
    BY <1>3, <1>4, <2>2 DEF CommitBoth, Said
  <2>4. QED
    BY <2>3, NothingKeeps
<1>5. CASE h # g
  <2>1. Along(s) \cap Along(t) = {}
    BY <1>1, <1>2, <1>5, TwoAre
  <2>2. Swapped(Along(s) \cup Along(t), mem, Along(t) \cup Along(s), mem)
    BY <1>1 DEF Swapped, ListIs
  <2>3. TwoMay(list, mem, h, e, Along(t), g, d, Along(s), mem)
    BY <1>1, <1>2, <1>3, <1>5, <2>1, <2>2 DEF TwoMay, Stands, ListIs
  <2>4. QED
    BY <1>3, <2>3, CommitBothKeeps
<1>6. QED
  BY <1>4, <1>5

(* A copy that was refused has left nothing behind.                        *)
LEMMA CopyRefusedKeeps ==
  ASSUME LinkInv, NEW h, NEW d, NEW s, ListIs(h, d, s), NEW a \in Als, NEW hdr, NEW grants,
         CopyRefused(h, a, hdr, grants)
  PROVE  LinkInv'
<1>1. d = list[h] /\ mem \in Memories
  BY DEF ListIs
<1>2. PICK vs : vs = Elems(d, mem) /\ vs \in Seq(Vals)
  BY ElemsAre
<1>3. PICK r : r = Built(a, mem, vs, grants)
  OBVIOUS
<1>4. NewList(r, a, mem, Len(vs)) \/ (r.st = NoMem /\ r.m = mem)
  BY <1>1, <1>2, <1>3, BuiltIs
<1>5. CASE Refuse
  BY <1>5, RefuseKeeps
<1>6. CASE r.st = NoMem /\ mem' = r.m /\ status' = NoMem /\ UNCHANGED <<list, hdrs>>
  <2>1. r.m = mem
    BY <1>4, <1>6, StatusesDiffer DEF NewList
  <2>2. QED
    BY <1>6, <2>1, NothingKeeps DEF Said
<1>7. QED
  BY <1>1, <1>2, <1>3, <1>5, <1>6 DEF CopyRefused

(* The list h takes over the nodes of g, which is left empty.              *)
LEMMA TakesOver ==
  ASSUME LinkInv, NEW h, NEW d, NEW s, ListIs(h, d, s), NEW g, NEW e, NEW t, ListIs(g, e, t), h # g,
         NEW n, NEW r, Relinked(d, mem, Along(s) \cup Along(t), n, r),
         CommitBoth(h, r.d, g, Emptied(e), r.m)
  PROVE  LinkInv'
<1>1. PICK A : A = Along(s) \cup Along(t)
  OBVIOUS
<1>2. r.d.al = d.al /\ Stands(r.d, r.m, A) /\ Rewired(mem, r.m, A)
  BY <1>1 DEF Relinked, Stands
<1>3. Swapped(A, mem, A, r.m)
  BY <1>2, RewiredIsSwapped
<1>4. PICK f : f = Emptied(e) /\ Stands(f, r.m, {}) /\ f.al = e.al
  <2>1. e \in Lists
    BY DEF ListIs
  <2>2. QED
    BY <2>1, EmptiedHolds, NoLine DEF Stands
<1>5. A = A \cup {} /\ A \cap {} = {}
  OBVIOUS
<1>6. TwoMay(list, mem, h, r.d, A, g, f, {}, r.m)
  BY <1>1, <1>2, <1>3, <1>4, <1>5 DEF TwoMay, ListIs
<1>7. QED
  BY <1>4, <1>6, CommitBothKeeps

(* The list h takes over a copy of the nodes of g, which is emptied.       *)
LEMMA TakesCopy ==
  ASSUME LinkInv, NEW h, NEW d, NEW s, ListIs(h, d, s), NEW g, NEW e, NEW t, ListIs(g, e, t), h # g,
         NEW b, NEW u, Swapped({}, mem, Along(u), b.m),
         NEW n, NEW r, Relinked(d, b.m, Along(s) \cup Along(u), n, r),
         CommitBoth(h, r.d, g, Emptied(e), ClearedMem(e, r.m))
  PROVE  LinkInv'
<1>1. PICK A : A = Along(s) \cup Along(u)
  OBVIOUS
<1>2. r.d.al = d.al /\ Stands(r.d, r.m, A) /\ Rewired(b.m, r.m, A)
  BY <1>1 DEF Relinked, Stands
<1>3. Swapped(A, b.m, A, r.m)
  BY <1>2, RewiredIsSwapped
<1>4. Along(s) \cap Along(t) = {}
  BY TwoAre
<1>5. /\ mem \in Memories /\ Holds(d, mem, s) /\ Holds(e, mem, t)
      /\ Along(t) \subseteq Nodes /\ \A y \in Along(t) : mem[y] # Null
  <2>1. mem \in Memories /\ Holds(d, mem, s) /\ Holds(e, mem, t)
    BY DEF ListIs
  <2>2. Stands(e, mem, Along(t))
    BY <2>1 DEF Stands
  <2>3. QED
    BY <2>1, <2>2, StandsIs
<1>6. \A y \in Along(t) : y \notin A
  BY <1>1, <1>4, <1>5 DEF Swapped
<1>7. \A y \in Along(t) : b.m[y] = mem[y] /\ r.m[y] = mem[y]
  BY <1>1, <1>2, <1>5, <1>6 DEF Swapped, Rewired
<1>8. Holds(e, r.m, t) /\ r.m \in Memories
  BY <1>3, <1>5, <1>7, HoldsStays DEF Swapped
<1>9. PICK q : q = ClearedMem(e, r.m)
  OBVIOUS
<1>10. Swapped(Along(t), r.m, {}, q)
  BY <1>8, <1>9, ClearedIs
<1>11. Stands(r.d, q, A)
  <2>1. A \subseteq Nodes
    BY <1>2, <1>8, StandsIs
  <2>2. \A y \in A : q[y] = r.m[y]
    BY <1>6, <1>10, <2>1 DEF Swapped
  <2>3. QED
    BY <1>2, <2>2, StandsStill
<1>12. Swapped(Along(s) \cup Along(t), mem, A, q)
  <2>1. PICK E : E = Along(s) \cup Along(t)
    OBVIOUS
  <2>2. Swapped(E, mem, A \cup Along(t), b.m)
    <3>1. Swapped({} \cup E, mem, Along(u) \cup E, b.m)
      BY SwappedWith
    <3>2. {} \cup E = E /\ Along(u) \cup E = A \cup Along(t)
      BY <1>1, <2>1
    <3>3. QED
      BY <3>1, <3>2
  <2>3. Swapped(A \cup Along(t), b.m, A \cup Along(t), r.m)
    BY <1>3, SwappedWith
  <2>4. Swapped(A \cup Along(t), r.m, A, q)
    <3>1. Swapped(Along(t) \cup A, r.m, {} \cup A, q)
      BY <1>10, SwappedWith
    <3>2. Along(t) \cup A = A \cup Along(t) /\ {} \cup A = A
      OBVIOUS
    <3>3. QED
      BY <3>1, <3>2
  <2>5. Swapped(E, mem, A \cup Along(t), r.m)
    BY <2>2, <2>3, SwappedTwice
  <2>6. QED
    BY <2>1, <2>4, <2>5, SwappedTwice
<1>13. PICK f : f = Emptied(e) /\ Stands(f, q, {}) /\ f.al = e.al
  <2>1. e \in Lists
    BY DEF ListIs
  <2>2. QED
    BY <2>1, EmptiedHolds, NoLine DEF Stands
<1>14. A = A \cup {} /\ A \cap {} = {}
  OBVIOUS
<1>15. TwoMay(list, mem, h, r.d, A, g, f, {}, q)
  BY <1>2, <1>11, <1>12, <1>13, <1>14 DEF TwoMay, ListIs
<1>16. QED
  BY <1>9, <1>13, <1>15, CommitBothKeeps

(* A copy of a list, where it may be merged with another.                  *)
LEMMA CopyMayMerge ==
  ASSUME LinkInv, NEW h, NEW d, NEW s, ListIs(h, d, s), NEW n, n > 0, NEW b, NewList(b, d.al, mem, n)
  PROVE  \E u : Swapped({}, mem, Along(u), b.m) /\ MayMerge(b.m, d, s, b.d, u) /\ b.m \in Memories
<1>1. PICK u : Holds(b.d, b.m, u) /\ Swapped({}, mem, Along(u), b.m) /\ b.m \in Memories /\ b.d.al = d.al /\ b.d.len = n
  BY NewListIs
<1>2. mem \in Memories /\ Holds(d, mem, s)
  BY DEF ListIs
<1>3. Along(s) \subseteq Nodes /\ \A y \in Along(s) : mem[y] # Null
  <2>1. Stands(d, mem, Along(s))
    BY <1>2 DEF Stands
  <2>2. QED
    BY <1>2, <2>1, StandsIs
<1>4. Along(s) \cap Along(u) = {}
  BY <1>1, <1>3 DEF Swapped
<1>5. \A y \in Along(s) : b.m[y] = mem[y]
  BY <1>1, <1>3, <1>4 DEF Swapped
<1>6. Holds(d, b.m, s)
  BY <1>2, <1>5, HoldsStays
<1>7. MayMerge(b.m, d, s, b.d, u)
  BY <1>1, <1>4, <1>6 DEF MayMerge
<1>8. QED
  BY <1>1, <1>7

(* tda_list_splice_front, tda_list_splice_back.                            *)
LEMMA SpliceKeeps ==
  ASSUME LinkInv, NEW h \in Handles, NEW g \in Handles, NEW front \in BOOLEAN, NEW hdr, NEW grants,
         Splice(h, g, front, hdr, grants)
  PROVE  LinkInv'
<1>1. PICK d, s : ListIs(h, d, s)
  BY AliveIs DEF Splice
<1>2. PICK e, t : ListIs(g, e, t)
  BY AliveIs DEF Splice
<1>3. d = list[h] /\ e = list[g] /\ h # g /\ d.al \in Als
  <2>1. d \in Lists
    BY <1>1 DEF ListIs
  <2>2. QED
    BY <1>1, <1>2, <2>1 DEF Splice, ListIs, Lists
<1>4. PICK b : b = Built(d.al, mem, Elems(e, mem), grants)
  OBVIOUS
<1>5. CASE Nothing
  BY <1>5, RefuseKeeps
<1>6. CASE CopyRefused(g, d.al, hdr, grants)
  BY <1>2, <1>3, <1>6, CopyRefusedKeeps
<1>7. ASSUME e.len > 0, d.al = e.al, NEW r, r = SpliceNodes(d, e, mem, front),
             CommitBoth(h, r.d, g, Emptied(e), r.m)
      PROVE  LinkInv'
  <2>1. Along(s) \cap Along(t) = {}
    BY <1>1, <1>2, <1>3, TwoAre
  <2>2. MayMerge(mem, d, s, e, t) /\ mem \in Memories
    BY <1>1, <1>2, <1>7, <2>1 DEF MayMerge, ListIs
  <2>3. Relinked(d, mem, Along(s) \cup Along(t), d.len + e.len, r)
    BY <1>7, <2>2, SpliceNodesIs
  <2>4. QED
    BY <1>1, <1>2, <1>3, <1>7, <2>3, TakesOver
<1>8. ASSUME e.len > 0, b.st = OK, NEW r, r = SpliceNodes(d, b.d, b.m, front),
             CommitBoth(h, r.d, g, Emptied(e), ClearedMem(e, r.m))
      PROVE  LinkInv'
  <2>1. PICK vs : vs = Elems(e, mem) /\ vs \in Seq(Vals) /\ Len(vs) = e.len
    BY <1>2, ElemsAre
  <2>2. mem \in Memories
    BY <1>1 DEF ListIs
  <2>3. NewList(b, d.al, mem, e.len)
    BY <1>3, <1>4, <1>8, <2>1, <2>2, BuiltIs, StatusesDiffer
  <2>4. PICK u : Swapped({}, mem, Along(u), b.m) /\ MayMerge(b.m, d, s, b.d, u) /\ b.m \in Memories
    BY <1>1, <1>8, <2>3, CopyMayMerge
  <2>5. Relinked(d, b.m, Along(s) \cup Along(u), d.len + b.d.len, r)
    BY <1>8, <2>4, SpliceNodesIs
  <2>6. QED
    BY <1>1, <1>2, <1>3, <1>8, <2>4, <2>5, TakesCopy
<1>9. QED
  BY <1>3, <1>4, <1>5, <1>6, <1>7, <1>8 DEF Splice

(* tda_list_merge.                                                         *)
LEMMA MergeKeeps ==
  ASSUME LinkInv, NEW h \in Handles, NEW g \in Handles, NEW hdr, NEW grants, Merge(h, g, hdr, grants)
  PROVE  LinkInv'
<1>1. PICK d, s : ListIs(h, d, s)
  BY AliveIs DEF Merge
<1>2. PICK e, t : ListIs(g, e, t)
  BY AliveIs DEF Merge
<1>3. d = list[h] /\ e = list[g] /\ h # g /\ d.al \in Als
  <2>1. d \in Lists
    BY <1>1 DEF ListIs
  <2>2. QED
    BY <1>1, <1>2, <2>1 DEF Merge, ListIs, Lists
<1>4. PICK b : b = Built(d.al, mem, Elems(e, mem), grants)
  OBVIOUS
<1>5. CASE Nothing
  BY <1>5, RefuseKeeps
<1>6. CASE CopyRefused(g, d.al, hdr, grants)
  BY <1>2, <1>3, <1>6, CopyRefusedKeeps
<1>7. ASSUME e.len > 0, d.al = e.al, NEW r, r = MergeInto(d, e, mem),
             CommitBoth(h, r.d, g, Emptied(e), r.m)
      PROVE  LinkInv'
  <2>1. Along(s) \cap Along(t) = {}
    BY <1>1, <1>2, <1>3, TwoAre
  <2>2. MayMerge(mem, d, s, e, t) /\ mem \in Memories
    BY <1>1, <1>2, <1>7, <2>1 DEF MayMerge, ListIs
  <2>3. Relinked(d, mem, Along(s) \cup Along(t), d.len + e.len, r)
    BY <1>7, <2>2, MergeIntoIs
  <2>4. QED
    BY <1>1, <1>2, <1>3, <1>7, <2>3, TakesOver
<1>8. ASSUME e.len > 0, b.st = OK, NEW r, r = MergeInto(d, b.d, b.m),
             CommitBoth(h, r.d, g, Emptied(e), ClearedMem(e, r.m))
      PROVE  LinkInv'
  <2>1. PICK vs : vs = Elems(e, mem) /\ vs \in Seq(Vals) /\ Len(vs) = e.len
    BY <1>2, ElemsAre
  <2>2. mem \in Memories
    BY <1>1 DEF ListIs
  <2>3. NewList(b, d.al, mem, e.len)
    BY <1>3, <1>4, <1>8, <2>1, <2>2, BuiltIs, StatusesDiffer
  <2>4. PICK u : Swapped({}, mem, Along(u), b.m) /\ MayMerge(b.m, d, s, b.d, u) /\ b.m \in Memories
    BY <1>1, <1>8, <2>3, CopyMayMerge
  <2>5. Relinked(d, b.m, Along(s) \cup Along(u), d.len + b.d.len, r)
    BY <1>8, <2>4, MergeIntoIs
  <2>6. QED
    BY <1>1, <1>2, <1>3, <1>8, <2>4, <2>5, TakesCopy
<1>9. QED
  BY <1>3, <1>4, <1>5, <1>6, <1>7, <1>8 DEF Merge

-----------------------------------------------------------------------------
(* Assignment.                                                             *)

(* What a list is left with once it was overwritten and shortened, and     *)
(* what was built aside: nodes W of its own S, and free ones U.            *)
CutAndSpare(m, d, s, cut, w, spare, u) ==
  /\ cut.st = OK /\ spare.st = OK
  /\ cut.d.al = d.al /\ spare.d.al = d.al
  /\ Holds(cut.d, cut.m, w) /\ Holds(spare.d, cut.m, u)
  /\ Along(w) \cap Along(u) = {}
  /\ Swapped(Along(s), m, Along(w) \cup Along(u), cut.m)

(* The spare nodes built, the elems written, the rest given back.          *)
LEMMA CutAndSpareAre ==
  ASSUME NEW m \in Memories, NEW d, NEW s, Holds(d, m, s), NEW vs \in Seq(Vals), NEW k, NEW n \in Nat,
         NEW spare, NewList(spare, d.al, m, k),
         NEW cut, cut = Shortened(d, Overwritten(spare.m, s, vs), n)
  PROVE  \E w, u : CutAndSpare(m, d, s, cut, w, spare, u)
<1>1. PICK u : Holds(spare.d, spare.m, u) /\ Swapped({}, m, Along(u), spare.m) /\ spare.m \in Memories
               /\ spare.d.al = d.al /\ spare.st = OK
  BY NewListIs
<1>2. PICK S, U : S = Along(s) /\ U = Along(u)
  OBVIOUS
<1>3. S \subseteq Nodes /\ \A y \in S : m[y] # Null
  <2>1. Stands(d, m, S)
    BY <1>2 DEF Stands
  <2>2. QED
    BY <2>1, StandsIs
<1>4. S \cap U = {}
  BY <1>1, <1>2, <1>3 DEF Swapped
<1>5. \A y \in S : spare.m[y] = m[y]
  BY <1>1, <1>2, <1>3, <1>4 DEF Swapped
<1>6. Holds(d, spare.m, s)
  BY <1>2, <1>5, HoldsStays
<1>7. PICK q : q = Overwritten(spare.m, s, vs)
  OBVIOUS
<1>8. Rewritten(spare.m, q, S)
  <2>1. IsLine(s, d.len)
    BY DEF Holds
  <2>2. \A i \in 1 .. d.len : spare.m[s[i]] # Null
    BY <1>6, HoldsIs
  <2>3. QED
    BY <1>1, <1>2, <1>7, <2>1, <2>2, OverwrittenIs
<1>9. Holds(d, q, s) /\ q \in Memories /\ Swapped(S, spare.m, S, q)
  BY <1>1, <1>6, <1>8, RewrittenHolds, RewrittenIsSwapped DEF Rewritten
<1>10. PICK l : Shorter(d, q, s, l, cut)
  BY <1>7, <1>9, ShortenedIs
<1>11. PICK w : Holds(cut.d, cut.m, w) /\ Along(w) \subseteq S /\ Swapped(S, q, Along(w), cut.m)
  BY <1>2, <1>10 DEF Shorter
<1>12. PICK W : W = Along(w)
  OBVIOUS
<1>13. U \subseteq Nodes
  BY <1>1, <1>2, HoldsIs
<1>14. \A y \in U : q[y] = spare.m[y] /\ cut.m[y] = q[y]
  BY <1>4, <1>8, <1>11, <1>12, <1>13 DEF Swapped, Rewritten
<1>15. Holds(spare.d, cut.m, u)
  BY <1>1, <1>2, <1>14, HoldsStays
<1>16. Swapped(S, m, W \cup U, cut.m)
  <2>1. Swapped(S, m, S \cup U, spare.m)
    <3>1. Swapped({} \cup S, m, U \cup S, spare.m)
      BY <1>1, <1>2, SwappedWith
    <3>2. {} \cup S = S /\ U \cup S = S \cup U
      OBVIOUS
    <3>3. QED
      BY <3>1, <3>2
  <2>2. Swapped(S \cup U, spare.m, S \cup U, q)
    BY <1>9, SwappedWith
  <2>3. Swapped(S \cup U, q, W \cup U, cut.m)
    BY <1>11, <1>12, SwappedWith
  <2>4. Swapped(S, m, S \cup U, q)
    BY <2>1, <2>2, SwappedTwice
  <2>5. QED
    BY <2>3, <2>4, SwappedTwice
<1>17. W \cap U = {}
  BY <1>4, <1>11, <1>12
<1>18. cut.st = OK /\ cut.d.al = d.al
  BY <1>10 DEF Shorter
<1>19. QED
  BY <1>1, <1>2, <1>11, <1>12, <1>15, <1>16, <1>17, <1>18 DEF CutAndSpare

(* The nodes built aside, behind those that were kept.                     *)
LEMMA CutAndSpareKeep ==
  ASSUME LinkInv, NEW g, NEW d, NEW s, ListIs(g, d, s),
         NEW cut, NEW w, NEW spare, NEW u, CutAndSpare(mem, d, s, cut, w, spare, u),
         Commit(g, IF spare.d.len = 0 THEN cut ELSE SpliceNodes(cut.d, spare.d, cut.m, FALSE))
  PROVE  LinkInv'
<1>1. g \in Handles /\ d = list[g] /\ d # Null /\ Owned(list, mem, g) = Along(s)
  BY DEF ListIs
<1>2. /\ cut.st = OK /\ cut.d.al = d.al /\ spare.d.al = d.al
      /\ Holds(cut.d, cut.m, w) /\ Holds(spare.d, cut.m, u)
      /\ Along(w) \cap Along(u) = {}
      /\ Swapped(Along(s), mem, Along(w) \cup Along(u), cut.m)
      /\ cut.m \in Memories
  BY DEF CutAndSpare, Swapped
<1>3. spare.d.len \in Nat /\ DOMAIN u = 1 .. spare.d.len
  BY <1>2, HoldsIs
<1>4. CASE spare.d.len = 0
  <2>1. Along(u) = {}
    BY <1>3, <1>4 DEF Along
  <2>2. Along(w) \cup Along(u) = Along(w)
    BY <2>1
  <2>3. OneMay(list, mem, g, cut.d, Along(w), cut.m)
    BY <1>1, <1>2, <2>2 DEF OneMay, Stands
  <2>4. Commit(g, cut)
    BY <1>4
  <2>5. QED
    BY <1>2, <2>3, <2>4, CommitKeeps
<1>5. CASE spare.d.len # 0
  <2>1. PICK r : r = SpliceNodes(cut.d, spare.d, cut.m, FALSE)
    OBVIOUS
  <2>2. PICK A : A = Along(w) \cup Along(u)
    OBVIOUS
  <2>3. MayMerge(cut.m, cut.d, w, spare.d, u)
    BY <1>2, <1>3, <1>5 DEF MayMerge
  <2>4. Relinked(cut.d, cut.m, A, cut.d.len + spare.d.len, r)
    BY <1>2, <2>1, <2>2, <2>3, SpliceNodesIs
  <2>5. r.st = OK /\ r.d.al = d.al /\ Stands(r.d, r.m, A) /\ Rewired(cut.m, r.m, A)
    BY <1>2, <2>4 DEF Relinked, Stands
  <2>6. Swapped(A, cut.m, A, r.m)
    BY <2>5, RewiredIsSwapped
  <2>7. Swapped(Along(s), mem, A, r.m)
    BY <1>2, <2>2, <2>6, SwappedTwice
  <2>8. OneMay(list, mem, g, r.d, A, r.m)
    BY <1>1, <2>5, <2>7 DEF OneMay
  <2>9. Commit(g, r)
    BY <1>5, <2>1
  <2>10. QED
    BY <2>5, <2>8, <2>9, CommitKeeps
<1>6. QED
  BY <1>4, <1>5

(* copy_assign.                                                            *)
LEMMA CopyAssignKeeps ==
  ASSUME LinkInv, NEW h \in Handles, NEW g \in Handles, NEW grants, CopyAssign(h, g, grants)
  PROVE  LinkInv'
<1>1. PICK d, s : ListIs(g, d, s)
  BY AliveIs DEF CopyAssign
<1>2. PICK e, t : ListIs(h, e, t)
  BY AliveIs DEF CopyAssign
<1>3. /\ d = list[g] /\ e = list[h] /\ mem \in Memories /\ Holds(d, mem, s) /\ NodesOf(d, mem) = s
      /\ d.len \in Nat /\ e.len \in Nat /\ d.al \in Als
  <2>1. d \in Lists /\ e \in Lists
    BY <1>1, <1>2 DEF ListIs
  <2>2. d.al \in Als /\ d.len \in Nat /\ e.len \in Nat
    BY <2>1 DEF Lists
  <2>3. QED
    BY <1>1, <1>2, <2>2 DEF ListIs
<1>4. PICK vs : vs = Elems(e, mem) /\ vs \in Seq(Vals) /\ Len(vs) = e.len
  BY <1>2, ElemsAre
<1>5. PICK us : us = SubSeq(vs, d.len + 1, Len(vs)) /\ us \in Seq(Vals)
  <2>1. PICK k, l : k = d.len + 1 /\ l = Len(vs) /\ k \in Int /\ l \in Int
    BY <1>3, <1>4
  <2>2. \A i \in k .. l : vs[i] \in Vals
    BY <1>3, <1>4, <2>1
  <2>3. SubSeq(vs, k, l) \in Seq(Vals)
    BY <2>1, <2>2, SubSeqProperties
  <2>4. QED
    BY <2>1, <2>3
<1>6. PICK spare : spare = Built(d.al, mem, us, grants)
  OBVIOUS
<1>7. NewList(spare, d.al, mem, Len(us)) \/ (spare.st = NoMem /\ spare.m = mem)
  <2>1. us \in Seq(Vals) /\ mem \in Memories /\ d.al \in Als
    BY <1>3, <1>5
  <2>2. QED
    BY <1>6, <2>1, BuiltIs
<1>8. CASE Nothing
  BY <1>8, RefuseKeeps
<1>9. CASE spare.st = NoMem /\ Commit(g, Result(NoMem, d, spare.m))
  <2>1. spare.m = mem
    BY <1>7, <1>9, StatusesDiffer DEF NewList
  <2>2. PICK r : r = Result(NoMem, d, mem)
    OBVIOUS
  <2>3. r.st = NoMem /\ r.d = list[g] /\ r.m = mem /\ Commit(g, r)
    BY <1>3, <1>9, <2>1, <2>2 DEF Result
  <2>4. QED
    BY <2>3, CommitNothing
<1>10. PICK cut : cut = Shortened(d, Overwritten(spare.m, s, vs), e.len)
  OBVIOUS
<1>11. CASE spare.st = OK /\ Commit(g, IF spare.d.len = 0 THEN cut ELSE SpliceNodes(cut.d, spare.d, cut.m, FALSE))
  <2>1. NewList(spare, d.al, mem, Len(us))
    <3>1. spare.st # NoMem
      BY <1>11, StatusesDiffer
    <3>2. QED
      BY <1>7, <3>1
  <2>2. PICK w, u : CutAndSpare(mem, d, s, cut, w, spare, u)
    <3>1. PICK k, n : k = Len(us) /\ n = e.len
      OBVIOUS
    <3>2. mem \in Memories /\ Holds(d, mem, s) /\ vs \in Seq(Vals) /\ n \in Nat
      BY <1>3, <1>4, <3>1
    <3>3. NewList(spare, d.al, mem, k) /\ cut = Shortened(d, Overwritten(spare.m, s, vs), n)
      BY <1>10, <2>1, <3>1
    <3>4. QED
      BY <3>2, <3>3, CutAndSpareAre
  <2>3. QED
    BY <1>1, <1>11, <2>2, CutAndSpareKeep
<1>12. QED
  BY <1>3, <1>4, <1>5, <1>6, <1>8, <1>9, <1>10, <1>11 DEF CopyAssign

(* A list, when another was built or taken apart: its nodes are others.    *)
LEMMA NewApart ==
  ASSUME NEW m \in Memories, NEW d, NEW s, Holds(d, m, s), NEW q, NEW U, Swapped({}, m, U, q)
  PROVE  Along(s) \cap U = {} /\ Holds(d, q, s)
<1>1. Along(s) \subseteq Nodes /\ \A y \in Along(s) : m[y] # Null
  <2>1. Stands(d, m, Along(s))
    BY DEF Stands
  <2>2. QED
    BY <2>1, StandsIs
<1>2. Along(s) \cap U = {}
  BY <1>1 DEF Swapped
<1>3. \A y \in Along(s) : q[y] = m[y]
  BY <1>1, <1>2 DEF Swapped
<1>4. QED
  BY <1>2, <1>3, HoldsStays

(* The nodes of one list given back, where another one stands.             *)
LEMMA ClearedApart ==
  ASSUME NEW m \in Memories, NEW e, NEW t, Holds(e, m, t), NEW d, NEW s, Holds(d, m, s),
         Along(s) \cap Along(t) = {}, NEW q, q = ClearedMem(e, m)
  PROVE  q \in Memories /\ Swapped(Along(t), m, {}, q) /\ Holds(d, q, s)
<1>1. /\ q \in Memories /\ Swapped(Along(t), m, {}, q)
      /\ \A y \in Nodes : q[y] = IF y \in Along(t) THEN Null ELSE m[y]
  BY ClearedIs
<1>2. Along(s) \subseteq Nodes
  BY HoldsIs
<1>3. \A y \in Along(s) : q[y] = m[y]
  BY <1>1, <1>2
<1>4. QED
  BY <1>1, <1>3, HoldsStays

(* The target gives its nodes back, and has those of the source.           *)
LEMMA MovesOver ==
  ASSUME LinkInv, NEW h, NEW d, NEW s, ListIs(h, d, s), NEW g, NEW e, NEW t, ListIs(g, e, t),
         h # g, d.al = e.al, CommitBoth(g, d, h, Emptied(e), ClearedMem(e, mem))
  PROVE  LinkInv'
<1>1. PICK S, T : S = Along(s) /\ T = Along(t)
  OBVIOUS
<1>2. /\ mem \in Memories /\ Holds(d, mem, s) /\ Holds(e, mem, t) /\ e \in Lists
      /\ S \cap T = {}
  BY <1>1, TwoAre DEF ListIs
<1>3. PICK q : q = ClearedMem(e, mem)
  OBVIOUS
<1>4. Swapped(T, mem, {}, q) /\ Holds(d, q, s)
  BY <1>1, <1>2, <1>3, ClearedApart
<1>5. Swapped(T \cup S, mem, {} \cup S, q)
  BY <1>4, SwappedWith
<1>6. {} \cup S = S \cup {} /\ S \cap {} = {}
  OBVIOUS
<1>7. Swapped(T \cup S, mem, S \cup {}, q)
  BY <1>5, <1>6
<1>8. PICK f : f = Emptied(e) /\ Stands(f, q, {}) /\ f.al = e.al
  BY <1>2, EmptiedHolds, NoLine DEF Stands
<1>9. TwoMay(list, mem, g, d, S, h, f, {}, q)
  BY <1>1, <1>4, <1>6, <1>7, <1>8 DEF TwoMay, ListIs, Stands
<1>10. QED
  BY <1>3, <1>8, <1>9, CommitBothKeeps

(* Two lists given back for one that was built of free nodes.              *)
LEMMA BothCleared ==
  ASSUME NEW m \in Memories, NEW d, NEW s, Holds(d, m, s), NEW e, NEW t, Holds(e, m, t),
         Along(s) \cap Along(t) = {}, NEW b, NEW u, Holds(b.d, b.m, u), Swapped({}, m, Along(u), b.m),
         NEW q, q = ClearedMem(d, ClearedMem(e, b.m))
  PROVE  /\ Holds(b.d, q, u)
         /\ Swapped(Along(t) \cup Along(s), m, Along(u) \cup {}, q)
<1>1. PICK S, T, U : S = Along(s) /\ T = Along(t) /\ U = Along(u)
  OBVIOUS
<1>2. b.m \in Memories
  BY DEF Swapped
<1>3. S \cap U = {} /\ Holds(d, b.m, s)
  BY <1>1, NewApart
<1>4. T \cap U = {} /\ Holds(e, b.m, t)
  BY <1>1, NewApart
<1>5. PICK p : p = ClearedMem(e, b.m)
  OBVIOUS
<1>6. p \in Memories /\ Swapped(T, b.m, {}, p) /\ Holds(d, p, s)
  BY <1>1, <1>2, <1>3, <1>4, <1>5, ClearedApart
<1>7. Holds(b.d, p, u)
  <2>1. Along(u) \cap Along(t) = {}
    BY <1>1, <1>4
  <2>2. QED
    BY <1>2, <1>4, <1>5, <2>1, ClearedApart
<1>8. Holds(b.d, q, u) /\ Swapped(S, p, {}, q)
  <2>1. Along(u) \cap Along(s) = {}
    BY <1>1, <1>3
  <2>2. q = ClearedMem(d, p)
    BY <1>5
  <2>3. QED
    BY <1>1, <1>6, <1>7, <2>1, <2>2, ClearedApart
<1>9. Swapped(T \cup S, m, U \cup {}, q)
  <2>1. PICK E, F : E = T \cup S /\ F = S \cup U
    OBVIOUS
  <2>2. Swapped(E, m, U \cup E, b.m)
    <3>1. Swapped({} \cup E, m, U \cup E, b.m)
      BY <1>1, SwappedWith
    <3>2. {} \cup E = E
      OBVIOUS
    <3>3. QED
      BY <3>1, <3>2
  <2>3. Swapped(U \cup E, b.m, F, p)
    <3>1. Swapped(T \cup F, b.m, {} \cup F, p)
      BY <1>6, SwappedWith
    <3>2. T \cup F = U \cup E /\ {} \cup F = F
      BY <2>1
    <3>3. QED
      BY <3>1, <3>2
  <2>4. Swapped(F, p, U \cup {}, q)
    <3>1. Swapped(S \cup U, p, {} \cup U, q)
      BY <1>8, SwappedWith
    <3>2. S \cup U = F /\ {} \cup U = U \cup {}
      BY <2>1
    <3>3. QED
      BY <3>1, <3>2
  <2>5. Swapped(E, m, F, p)
    BY <2>2, <2>3, SwappedTwice
  <2>6. QED
    BY <2>1, <2>4, <2>5, SwappedTwice
<1>10. QED
  BY <1>1, <1>8, <1>9

(* move_assign.                                                            *)
LEMMA MoveAssignKeeps ==
  ASSUME LinkInv, NEW h \in Handles, NEW g \in Handles, NEW hdr, NEW grants, MoveAssign(h, g, hdr, grants)
  PROVE  LinkInv'
<1>1. PICK d, s : ListIs(h, d, s)
  BY AliveIs DEF MoveAssign
<1>2. PICK e, t : ListIs(g, e, t)
  BY AliveIs DEF MoveAssign
<1>3. /\ d = list[h] /\ e = list[g] /\ mem \in Memories /\ Holds(d, mem, s) /\ Holds(e, mem, t)
      /\ e.al \in Als /\ d \in Lists
  <2>1. e \in Lists
    BY <1>2 DEF ListIs
  <2>2. e.al \in Als
    BY <2>1 DEF Lists
  <2>3. QED
    BY <1>1, <1>2, <2>2 DEF ListIs
<1>4. PICK b : b = Built(e.al, mem, Elems(d, mem), grants)
  OBVIOUS
<1>5. CASE Nothing
  BY <1>5, RefuseKeeps
<1>6. CASE h # g /\ d.al = e.al /\ CommitBoth(g, d, h, Emptied(e), ClearedMem(e, mem))
  BY <1>1, <1>2, <1>6, MovesOver
<1>7. CASE CopyRefused(h, e.al, hdr, grants)
  BY <1>1, <1>3, <1>7, CopyRefusedKeeps
<1>8. CASE d.al # e.al /\ b.st = OK /\ CommitBoth(g, b.d, h, Emptied(d), ClearedMem(d, ClearedMem(e, b.m)))
  <2>1. h # g
    BY <1>3, <1>8
  <2>2. Along(s) \cap Along(t) = {}
    BY <1>1, <1>2, <2>1, TwoAre
  <2>3. PICK vs : vs = Elems(d, mem) /\ vs \in Seq(Vals)
    BY <1>1, ElemsAre
  <2>4. NewList(b, e.al, mem, Len(vs))
    BY <1>3, <1>4, <1>8, <2>3, BuiltIs, StatusesDiffer
  <2>5. PICK u : Holds(b.d, b.m, u) /\ Swapped({}, mem, Along(u), b.m) /\ b.d.al = e.al
    BY <2>4, NewListIs
  <2>6. PICK q : q = ClearedMem(d, ClearedMem(e, b.m))
    OBVIOUS
  <2>7. Holds(b.d, q, u) /\ Swapped(Along(t) \cup Along(s), mem, Along(u) \cup {}, q)
    BY <1>3, <2>2, <2>5, <2>6, BothCleared
  <2>8. PICK f : f = Emptied(d) /\ Stands(f, q, {}) /\ f.al = d.al
    BY <1>3, EmptiedHolds, NoLine DEF Stands
  <2>9. PICK c : c = b.d
    OBVIOUS
  <2>10. Stands(c, q, Along(u)) /\ c.al = e.al /\ Along(u) \cap {} = {}
    BY <2>5, <2>7, <2>9 DEF Stands
  <2>11. TwoMay(list, mem, g, c, Along(u), h, f, {}, q)
    BY <1>1, <1>2, <2>1, <2>7, <2>8, <2>10 DEF TwoMay, ListIs
  <2>12. QED
    BY <1>8, <2>6, <2>8, <2>9, <2>11, CommitBothKeeps
<1>9. QED
  BY <1>3, <1>4, <1>5, <1>6, <1>7, <1>8 DEF MoveAssign

-----------------------------------------------------------------------------
(* One node to another place.                                              *)

(* More nodes may be said to have changed.                                 *)
LEMMA RewiredWider ==
  ASSUME NEW m, NEW q, NEW A, Rewired(m, q, A), NEW B, A \subseteq B
  PROVE  Rewired(m, q, B)
  BY DEF Rewired

(* The neighbours of a place, by the node behind it.                       *)
LEMMA PrevOfIs ==
  ASSUME NEW d, NEW m, NEW s, Holds(d, m, s), NEW at, at = Null \/ at \in Along(s)
  PROVE  \E k \in 0 .. d.len : PrevOf(d, m, at) = NthOf(s, k) /\ at = NthOf(s, k + 1)
<1>1. d.len \in Nat /\ DOMAIN s = 1 .. d.len /\ \A k \in 1 .. d.len : s[k] # Null
  BY HoldsIs
<1>2. CASE at = Null
  <2>1. d.tail = NthOf(s, d.len)
    BY DEF Holds
  <2>2. d.len + 1 \notin DOMAIN s
    BY <1>1
  <2>3. QED
    BY <1>1, <1>2, <2>1, <2>2 DEF PrevOf, NthOf
<1>3. CASE at # Null
  <2>1. PICK j \in 1 .. d.len : at = s[j]
    BY <1>1, <1>3 DEF Along
  <2>2. m[at].prev = NthOf(s, j - 1) /\ at = NthOf(s, j)
    BY <1>1, <2>1 DEF Holds, NthOf
  <2>3. j - 1 \in 0 .. d.len /\ (j - 1) + 1 = j
    BY <1>1, <2>1
  <2>4. QED
    BY <1>3, <2>2, <2>3 DEF PrevOf
<1>4. QED
  BY <1>2, <1>3

(* A node unlinked and linked again, all in one list.                      *)
LEMMA NodeMovesWithin ==
  ASSUME LinkInv, NEW h, NEW d, NEW s, ListIs(h, d, s), NEW i \in 1 .. d.len, NEW x, x = s[i],
         NEW at, at = Null \/ at \in Along(s), at # x,
         NEW out, out = UnlinkNode(d, mem, x),
         Commit(h, LinkNode(out.d, out.m, x, PrevOf(out.d, out.m, at), at))
  PROVE  LinkInv'
<1>1. mem \in Memories /\ Holds(d, mem, s) /\ d.len \in Nat
  BY PlacesAre DEF ListIs
<1>2. PICK w : w = TakenOut(s, d.len, i)
  OBVIOUS
<1>3. /\ Holds(out.d, out.m, w) /\ out.d.al = d.al
      /\ Along(w) = Along(s) \ {x} /\ Rewired(mem, out.m, Along(w))
  BY <1>1, <1>2, UnlinkIs
<1>4. x \in Nodes /\ x \in Along(s) /\ mem[x] # Null /\ mem[x].al = d.al
  BY PlacesAre DEF Along
<1>5. out.m \in Memories /\ out.m[x] # Null /\ out.m[x].al = out.d.al /\ x \notin Along(w)
  BY <1>3, <1>4 DEF Rewired
<1>6. at = Null \/ at \in Along(w)
  BY <1>3
<1>7. PICK k \in 0 .. out.d.len : PrevOf(out.d, out.m, at) = NthOf(w, k) /\ at = NthOf(w, k + 1)
  BY <1>3, <1>6, PrevOfIs
<1>8. PICK r, v : r = LinkNode(out.d, out.m, x, NthOf(w, k), NthOf(w, k + 1)) /\ v = PutIn(w, out.d.len, k, x)
  OBVIOUS
<1>9. /\ Holds(r.d, r.m, v) /\ r.st = OK /\ r.d.al = out.d.al
      /\ Along(v) = Along(w) \cup {x} /\ Rewired(out.m, r.m, Along(v))
  BY <1>3, <1>4, <1>5, <1>8, LinkIs
<1>10. Along(v) = Along(s)
  BY <1>3, <1>4, <1>9
<1>11. Rewired(mem, out.m, Along(s))
  BY <1>3, RewiredWider
<1>12. Rewired(mem, r.m, Along(s))
  BY <1>9, <1>10, <1>11, RewiredTwice
<1>13. Relinked(d, mem, Along(s), r.d.len, r)
  BY <1>3, <1>9, <1>10, <1>12 DEF Relinked
<1>14. Commit(h, r)
  BY <1>7, <1>8
<1>15. QED
  BY <1>13, <1>14, RelinkedKeeps

(* A node unlinked from one list and linked into another.                  *)
LEMMA NodeMovesOver ==
  ASSUME LinkInv, NEW h, NEW d, NEW s, ListIs(h, d, s), NEW g, NEW e, NEW t, ListIs(g, e, t),
         h # g, d.al = e.al, NEW i \in 1 .. e.len, NEW x, x = t[i],
         NEW at, at = Null \/ at \in Along(s),
         NEW out, out = UnlinkNode(e, mem, x),
         NEW r, r = LinkNode(d, out.m, x, PrevOf(d, out.m, at), at),
         CommitBoth(h, r.d, g, out.d, r.m)
  PROVE  LinkInv'
<1>1. /\ mem \in Memories /\ Holds(d, mem, s) /\ Holds(e, mem, t)
  BY DEF ListIs
<1>2. PICK S, T : S = Along(s) /\ T = Along(t) /\ S \cap T = {} /\ S \subseteq Nodes /\ T \subseteq Nodes
  BY <1>1, TwoAre, HoldsIs
<1>3. PICK w : w = TakenOut(t, e.len, i)
  OBVIOUS
<1>4. PICK W : W = Along(w)
  OBVIOUS
<1>5. /\ Holds(out.d, out.m, w) /\ out.d.al = e.al
      /\ W = T \ {x} /\ Rewired(mem, out.m, W)
  BY <1>1, <1>2, <1>3, <1>4, UnlinkIs
<1>6. x \in Nodes /\ x \in T /\ mem[x] # Null /\ mem[x].al = e.al
  BY <1>2, PlacesAre DEF Along
<1>7. out.m \in Memories /\ out.m[x] # Null /\ out.m[x].al = d.al /\ x \notin S
  BY <1>2, <1>5, <1>6 DEF Rewired
<1>8. Holds(d, out.m, s)
  <2>1. \A y \in S : out.m[y] = mem[y]
    BY <1>2, <1>5 DEF Rewired
  <2>2. QED
    BY <1>1, <1>2, <2>1, HoldsStays
<1>9. PICK k \in 0 .. d.len : PrevOf(d, out.m, at) = NthOf(s, k) /\ at = NthOf(s, k + 1)
  BY <1>8, PrevOfIs
<1>10. r = LinkNode(d, out.m, x, NthOf(s, k), NthOf(s, k + 1))
  BY <1>9
<1>11. PICK v : v = PutIn(s, d.len, k, x)
  OBVIOUS
<1>12. PICK V : V = Along(v)
  OBVIOUS
<1>13. /\ Holds(r.d, r.m, v) /\ r.d.al = d.al
       /\ V = S \cup {x} /\ Rewired(out.m, r.m, V)
  BY <1>2, <1>6, <1>7, <1>8, <1>10, <1>11, <1>12, LinkIs
<1>14. Holds(out.d, r.m, w)
  <2>1. \A y \in W : r.m[y] = out.m[y]
    BY <1>2, <1>5, <1>13 DEF Rewired
  <2>2. PICK f, p, q : f = out.d /\ p = out.m /\ q = r.m
    OBVIOUS
  <2>3. Holds(f, p, w) /\ \A y \in Along(w) : q[y] = p[y]
    BY <1>4, <1>5, <2>1, <2>2
  <2>4. Holds(f, q, w)
    BY <2>3, HoldsStays
  <2>5. QED
    BY <2>2, <2>4
<1>15. V \cup W = S \cup T /\ V \cap W = {} /\ V \subseteq S \cup T /\ W \subseteq S \cup T
  BY <1>2, <1>5, <1>6, <1>13
<1>16. Rewired(mem, r.m, S \cup T)
  <2>1. Rewired(mem, out.m, S \cup T)
    BY <1>5, <1>15, RewiredWider
  <2>2. Rewired(out.m, r.m, S \cup T)
    BY <1>13, <1>15, RewiredWider
  <2>3. QED
    BY <2>1, <2>2, RewiredTwice
<1>17. Swapped(S \cup T, mem, V \cup W, r.m)
  BY <1>15, <1>16, RewiredIsSwapped
<1>18. PICK f, q : f = r.d /\ q = r.m
  OBVIOUS
<1>19. Stands(f, q, V) /\ Stands(out.d, q, W)
  BY <1>4, <1>12, <1>13, <1>14, <1>18 DEF Stands
<1>20. TwoMay(list, mem, h, f, V, g, out.d, W, q)
  BY <1>2, <1>5, <1>13, <1>15, <1>17, <1>18, <1>19 DEF TwoMay, ListIs
<1>21. QED
  BY <1>18, <1>20, CommitBothKeeps

(* A copy of a node put into one list, the node removed from another.      *)
LEMMA NodeCopiedOver ==
  ASSUME LinkInv, NEW h, NEW d, NEW s, ListIs(h, d, s), NEW g, NEW e, NEW t, ListIs(g, e, t),
         h # g, NEW i \in 1 .. e.len, NEW x, x = t[i],
         NEW k, NEW val, NEW b, NEW y, OneMore(d, mem, s, k, val, b, y),
         NEW old, old = Removed(e, b.m, x),
         CommitBoth(h, b.d, g, old.d, old.m)
  PROVE  LinkInv'
<1>1. mem \in Memories /\ Holds(d, mem, s) /\ Holds(e, mem, t)
  BY DEF ListIs
<1>2. PICK S, T : S = Along(s) /\ T = Along(t) /\ S \cap T = {} /\ T \subseteq Nodes
  BY <1>1, TwoAre, HoldsIs
<1>3. PICK V, v : V = S \cup {y} /\ v = PutIn(s, d.len, k, y)
  OBVIOUS
<1>4. /\ y \in Nodes /\ mem[y] = Null
      /\ Holds(b.d, b.m, v) /\ Along(v) = V
      /\ b.d.al = d.al
      /\ Swapped(S, mem, V, b.m)
  BY <1>2, <1>3 DEF OneMore
<1>5. T \cap V = {}
  <2>1. Stands(e, mem, T)
    BY <1>1, <1>2 DEF Stands
  <2>2. \A z \in T : mem[z] # Null
    BY <1>1, <2>1, StandsIs
  <2>3. QED
    BY <1>2, <1>3, <1>4, <2>2
<1>6. Holds(e, b.m, t) /\ b.m \in Memories
  <2>1. \A z \in T : b.m[z] = mem[z]
    BY <1>2, <1>4, <1>5 DEF Swapped
  <2>2. b.m \in Memories
    BY <1>4 DEF Swapped
  <2>3. QED
    BY <1>1, <1>2, <2>1, <2>2, HoldsStays
<1>7. PICK w : w = TakenOut(t, e.len, i)
  OBVIOUS
<1>8. PICK W : W = Along(w)
  OBVIOUS
<1>9. Holds(old.d, old.m, w) /\ old.d.al = e.al /\ W = T \ {x} /\ Swapped(T, b.m, W, old.m)
  BY <1>2, <1>6, <1>7, <1>8, RemovedIs
<1>10. Holds(b.d, old.m, v)
  <2>1. V \subseteq Nodes
    BY <1>4, HoldsIs
  <2>2. \A z \in V : old.m[z] = b.m[z]
    BY <1>5, <1>9, <2>1 DEF Swapped
  <2>3. QED
    BY <1>4, <2>2, HoldsStays
<1>11. Swapped(S \cup T, mem, V \cup W, old.m)
  <2>1. Swapped(S \cup T, mem, V \cup T, b.m)
    BY <1>4, SwappedWith
  <2>2. Swapped(V \cup T, b.m, V \cup W, old.m)
    <3>1. Swapped(T \cup V, b.m, W \cup V, old.m)
      BY <1>9, SwappedWith
    <3>2. T \cup V = V \cup T /\ W \cup V = V \cup W
      OBVIOUS
    <3>3. QED
      BY <3>1, <3>2
  <2>3. QED
    BY <2>1, <2>2, SwappedTwice
<1>12. PICK f, c, q : f = b.d /\ c = old.d /\ q = old.m
  OBVIOUS
<1>13. Stands(f, q, V) /\ Stands(c, q, W) /\ V \cap W = {}
  BY <1>4, <1>5, <1>8, <1>9, <1>10, <1>12 DEF Stands
<1>14. TwoMay(list, mem, h, f, V, g, c, W, q)
  BY <1>2, <1>4, <1>9, <1>11, <1>12, <1>13 DEF TwoMay, ListIs
<1>15. QED
  BY <1>12, <1>14, CommitBothKeeps

(* splice_node.                                                            *)
LEMMA SpliceNodeKeeps ==
  ASSUME LinkInv, NEW h \in Handles, NEW g \in Handles, NEW x, NEW at, NEW granted,
         SpliceNode(h, at, g, x, granted)
  PROVE  LinkInv'
<1>1. PICK d, s : ListIs(h, d, s)
  BY AliveIs DEF SpliceNode
<1>2. PICK e, t : ListIs(g, e, t)
  BY AliveIs DEF SpliceNode, InList
<1>3. d = list[h] /\ e = list[g] /\ mem \in Memories /\ Holds(d, mem, s) /\ (h = g => d = e /\ s = t)
  BY <1>1, <1>2 DEF ListIs
<1>4. PICK i \in 1 .. e.len : x = t[i]
  BY <1>2, InListIs DEF SpliceNode
<1>5. at = Null \/ at \in Along(s)
  <2>1. CASE at = Null
    BY <2>1
  <2>2. CASE InList(h, at)
    <3>1. PICK j \in 1 .. d.len : at = s[j]
      BY <1>1, <2>2, InListIs
    <3>2. QED
      BY <1>1, <3>1, PlacesAre DEF Along
  <2>3. QED
    BY <2>1, <2>2 DEF SpliceNode
<1>6. at # x
  BY DEF SpliceNode
<1>7. PICK out, d1 : out = UnlinkNode(e, mem, x) /\ d1 = IF h = g THEN out.d ELSE d
  OBVIOUS
<1>8. PICK in : in = LinkNode(d1, out.m, x, PrevOf(d1, out.m, at), at)
  OBVIOUS
<1>9. PICK new, val : new = InsertBetween(d, mem, PrevOf(d, mem, at), at, val, granted) /\ val = mem[x].val
  OBVIOUS
<1>10. PICK old : old = Removed(e, new.m, x)
  OBVIOUS
<1>11. CASE Refuse
  BY <1>11, RefuseKeeps
<1>12. CASE d.al # e.al /\ new.st = OK /\ CommitBoth(h, new.d, g, old.d, old.m)
  <2>1. PICK k \in 0 .. d.len : PrevOf(d, mem, at) = NthOf(s, k) /\ at = NthOf(s, k + 1)
    BY <1>3, <1>5, PrevOfIs
  <2>2. val \in Vals
    <3>1. mem[x] \in ListNodes
      BY <1>2, <1>4 DEF ListIs, Holds
    <3>2. QED
      BY <1>9, <3>1 DEF ListNodes
  <2>3. new = InsertBetween(d, mem, NthOf(s, k), NthOf(s, k + 1), val, granted)
    BY <1>9, <2>1
  <2>4. PICK y : OneMore(d, mem, s, k, val, new, y)
    BY <1>3, <1>12, <2>2, <2>3, InsertIs, StatusesDiffer
  <2>5. h # g
    BY <1>3, <1>12
  <2>6. QED
    BY <1>1, <1>2, <1>4, <1>10, <1>12, <2>4, <2>5, NodeCopiedOver
<1>13. CASE h = g /\ Commit(h, in)
  BY <1>1, <1>3, <1>4, <1>5, <1>6, <1>7, <1>8, <1>13, NodeMovesWithin
<1>14. CASE d.al = e.al /\ h # g /\ CommitBoth(h, in.d, g, out.d, in.m)
  <2>1. d1 = d
    BY <1>7, <1>14
  <2>2. QED
    BY <1>1, <1>2, <1>4, <1>5, <1>7, <1>8, <1>14, <2>1, NodeMovesOver
<1>15. QED
  BY <1>3, <1>7, <1>8, <1>9, <1>10, <1>11, <1>12, <1>13, <1>14 DEF SpliceNode

-----------------------------------------------------------------------------
(* Questions, and every step.                                              *)

(* A question changes nothing.                                             *)
LEMMA AnswerKeeps ==
  ASSUME LinkInv, NEW x \in Said, Answer(x)
  PROVE  LinkInv'
  BY NothingKeeps DEF Answer

(* eq and eq_by.                                                           *)
LEMMA CompareKeeps ==
  ASSUME LinkInv, NEW h, NEW g, NEW alike, Compare(h, g, alike)
  PROVE  LinkInv'
<1>1. Answer(Yes) \/ Answer(No)
  BY DEF Compare
<1>2. Yes \in Said /\ No \in Said
  BY DEF Said
<1>3. QED
  BY <1>1, <1>2, AnswerKeeps

(* find and find_by.                                                       *)
LEMMA FindKeeps ==
  ASSUME LinkInv, NEW h \in Handles, NEW key, NEW alike, Find(h, key, alike)
  PROVE  LinkInv'
<1>1. PICK d, s : ListIs(h, d, s)
  BY AliveIs DEF Find
<1>2. d = list[h] /\ NodesOf(d, mem) = s /\ DOMAIN s = 1 .. d.len /\ \A k \in 1 .. d.len : s[k] \in Nodes
  BY <1>1, PlacesAre DEF ListIs
<1>3. \A k : NthOf(s, k) \in Said
  BY <1>2 DEF NthOf, Said
<1>4. FindNode(d, mem, key, alike) \in Said
  BY <1>2, <1>3 DEF FindNode
<1>5. QED
  BY <1>2, <1>4, AnswerKeeps DEF Find

(* A call on one list.                                                     *)
LEMMA WholeStepKeeps ==
  ASSUME LinkInv, NEW h \in Handles, WholeStep(h)
  PROVE  LinkInv'
<1>1. Inputs \subseteq Seq(Vals)
  BY ListAssumption
<1>2. ASSUME NEW a \in Als, NEW vs \in Inputs, NEW ans \in Answers(Len(vs)), FromData(h, a, vs, ans[1], ans[2])
      PROVE  LinkInv'
  <2>1. NewWith(h, a, vs, ans[1], ans[2]) /\ vs \in Seq(Vals)
    BY <1>1, <1>2 DEF FromData
  <2>2. QED
    BY <2>1, NewWithKeeps
<1>3. ASSUME NEW vs \in Inputs, CopyFromSpan(h, vs)
      PROVE  LinkInv'
  <2>1. vs \in Seq(Vals)
    BY <1>1
  <2>2. QED
    BY <1>3, <2>1, CopyFromSpanKeeps
<1>4. CASE Drop(h)
  BY <1>4, DropKeeps
<1>5. CASE Clear(h)
  BY <1>5, ClearKeeps
<1>6. CASE Reverse(h)
  BY <1>6, ReverseKeeps
<1>7. CASE Sort(h)
  BY <1>7, SortKeeps
<1>8. CASE \E key \in Vals, alike \in {{}, Vals} : Find(h, key, alike)
  BY <1>8, FindKeeps
<1>9. QED
  BY <1>2, <1>3, <1>4, <1>5, <1>6, <1>7, <1>8 DEF WholeStep

(* A call on one node.                                                     *)
LEMMA NodeStepKeeps ==
  ASSUME LinkInv, NEW h \in Handles, NodeStep(h)
  PROVE  LinkInv'
<1>1. ASSUME NEW val \in Vals, NEW granted \in BOOLEAN, PushFront(h, val, granted)
      PROVE  LinkInv'
  BY <1>1, PushFrontKeeps
<1>2. ASSUME NEW val \in Vals, NEW granted \in BOOLEAN, PushBack(h, val, granted)
      PROVE  LinkInv'
  BY <1>2, PushBackKeeps
<1>3. ASSUME NEW val \in Vals, NEW granted \in BOOLEAN, NEW at \in Nodes, InsertBefore(h, at, val, granted)
      PROVE  LinkInv'
  BY <1>3, InsertBeforeKeeps
<1>4. ASSUME NEW val \in Vals, NEW granted \in BOOLEAN, NEW at \in Nodes, InsertAfter(h, at, val, granted)
      PROVE  LinkInv'
  BY <1>4, InsertAfterKeeps
<1>5. CASE PopFront(h) \/ PopBack(h) \/ \E x : Remove(h, x)
  BY <1>5, PopsKeep
<1>6. ASSUME NEW x \in Nodes, NEW val \in Vals, WriteElem(h, x, val)
      PROVE  LinkInv'
  BY <1>6, WriteElemKeeps
<1>7. QED
  BY <1>1, <1>2, <1>3, <1>4, <1>5, <1>6 DEF NodeStep

(* A call on two lists.                                                    *)
LEMMA PairStepKeeps ==
  ASSUME LinkInv, NEW h \in Handles, NEW g \in Handles, PairStep(h, g)
  PROVE  LinkInv'
<1>1. CASE Swap(h, g)
  BY <1>1, SwapKeeps
<1>2. CASE \E alike \in {{}, Vals} : Compare(h, g, alike)
  BY <1>2, CompareKeeps
<1>3. CASE \E grants \in 0 .. LenOf(h) : CopyAssign(h, g, grants)
  BY <1>3, CopyAssignKeeps
<1>4. ASSUME NEW ans \in Answers(LenOf(h)), NEW a \in Als, CopyWith(h, g, a, ans[1], ans[2])
      PROVE  LinkInv'
  BY <1>4, CopyWithKeeps
<1>5. ASSUME NEW ans \in Answers(LenOf(h)), MoveAssign(h, g, ans[1], ans[2])
      PROVE  LinkInv'
  BY <1>5, MoveAssignKeeps
<1>6. ASSUME NEW ans \in Answers(LenOf(g)), NEW front \in BOOLEAN, Splice(h, g, front, ans[1], ans[2])
      PROVE  LinkInv'
  BY <1>6, SpliceKeeps
<1>7. ASSUME NEW ans \in Answers(LenOf(g)), Merge(h, g, ans[1], ans[2])
      PROVE  LinkInv'
  BY <1>7, MergeKeeps
<1>8. ASSUME NEW x \in Nodes, NEW at \in Nodes \cup {Null}, NEW granted \in BOOLEAN, SpliceNode(h, at, g, x, granted)
      PROVE  LinkInv'
  BY <1>8, SpliceNodeKeeps
<1>9. QED
  BY <1>1, <1>2, <1>3, <1>4, <1>5, <1>6, <1>7, <1>8 DEF PairStep

(* Every step keeps the invariant.                                         *)
LEMMA NextKeeps ==
  ASSUME LinkInv, [Next]_vars
  PROVE  LinkInv'
<1>1. CASE UNCHANGED vars
  <2>1. list' = list /\ mem' = mem /\ hdrs' = hdrs /\ status' = status
    BY <1>1 DEF vars
  <2>2. QED
    BY <2>1, NothingKeeps DEF LinkInv
<1>2. CASE Next
  BY <1>2, WholeStepKeeps, NodeStepKeeps, PairStepKeeps DEF Next
<1>3. QED
  BY <1>1, <1>2

(* No list, no node, no header.                                            *)
LEMMA InitKeeps ==
  ASSUME Init
  PROVE  LinkInv
<1>1. list = [h \in Handles |-> Null] /\ mem = [x \in Nodes |-> Null] /\ hdrs = [a \in Als |-> 0] /\ status = OK
  BY DEF Init
<1>2. \A h \in Handles : list[h] = Null /\ Owned(list, mem, h) = {}
  BY <1>1 DEF Owned
<1>3. Sound(list, mem)
  BY <1>1, <1>2 DEF Sound, Memories
<1>4. Counted(list, hdrs)
  <2>1. \A a \in Als : Held(list, a) = {}
    BY <1>2 DEF Held
  <2>2. QED
    BY <1>1, <2>1, FS_EmptySet DEF Counted
<1>5. QED
  BY <1>1, <1>3, <1>4 DEF LinkInv, AllSound, Said

(* Whatever was called: every list stands, no two share a node, and what   *)
(* is lent is what the lists have.                                         *)
THEOREM ListsAlwaysStand == Spec => []LinkInv
<1>1. Init => LinkInv
  BY InitKeeps
<1>2. LinkInv /\ [Next]_vars => LinkInv'
  BY NextKeeps
<1>3. QED
  BY <1>1, <1>2, PTL DEF Spec

-----------------------------------------------------------------------------
(* What the properties count.                                              *)

(* The k-th node that steps from the head come to is the k-th of the line. *)
LEMMA NodeAtIs ==
  ASSUME NEW h, NEW d, NEW s, ListIs(h, d, s)
  PROVE  \A k \in 0 .. d.len : NodeAt(d)[k] = NthOf(s, k)
<1>1. PICK n : n = d.len /\ n \in Nat
  BY PlacesAre
<1>2. /\ NthOf(s, 0) = Null
      /\ d.head = NthOf(s, 1)
      /\ \A k \in 1 .. n : NthOf(s, k) = s[k] /\ s[k] \in Nodes /\ mem[s[k]].next = NthOf(s, k + 1)
  BY <1>1, PlacesAre
<1>3. Null \notin Nodes
  BY ListAssumption
<1>4. PICK f : f = [k \in 0 .. n |-> NthOf(s, k)]
  OBVIOUS
<1>5. f = [k \in 0 .. n |->
             IF k = 0 THEN Null
             ELSE IF k = 1 THEN d.head
             ELSE IF f[k - 1] = Null THEN Null ELSE mem[f[k - 1]].next]
  <2>1. ASSUME NEW k \in 0 .. n
        PROVE  f[k] = IF k = 0 THEN Null
                      ELSE IF k = 1 THEN d.head
                      ELSE IF f[k - 1] = Null THEN Null ELSE mem[f[k - 1]].next
    <3>1. CASE k = 0
      BY <1>2, <1>4, <3>1
    <3>2. CASE k = 1
      BY <1>2, <1>4, <3>2
    <3>3. CASE k # 0 /\ k # 1
      <4>1. PICK l : l = k - 1 /\ l \in 1 .. n /\ l \in 0 .. n /\ l + 1 = k
        BY <1>1, <3>3
      <4>2. f[l] = s[l] /\ s[l] # Null /\ mem[s[l]].next = NthOf(s, l + 1)
        BY <1>2, <1>3, <1>4, <4>1
      <4>3. f[k] = NthOf(s, k)
        BY <1>4
      <4>4. QED
        BY <3>3, <4>1, <4>2, <4>3
    <3>4. QED
      BY <3>1, <3>2, <3>3
  <2>2. QED
    BY <1>4, <2>1
<1>6. PICK at : at = CHOOSE g : g = [k \in 0 .. d.len |->
             IF k = 0 THEN Null
             ELSE IF k = 1 THEN d.head
             ELSE IF g[k - 1] = Null THEN Null ELSE mem[g[k - 1]].next]
  OBVIOUS
<1>7. at = [k \in 0 .. n |->
              IF k = 0 THEN Null
              ELSE IF k = 1 THEN d.head
              ELSE IF at[k - 1] = Null THEN Null ELSE mem[at[k - 1]].next]
  BY <1>1, <1>5, <1>6
<1>8. NodeAt(d) = at
  BY <1>6 DEF NodeAt
<1>9. PICK X : X = {k \in 0 .. n : at[k] = NthOf(s, k)}
  OBVIOUS
<1>10. 0 \in X
  <2>1. 0 \in 0 .. n
    BY <1>1
  <2>2. QED
    BY <1>2, <1>7, <1>9, <2>1
<1>11. ASSUME NEW k \in X, k < n
       PROVE  k + 1 \in X
  <2>1. PICK l : l = k + 1 /\ l \in 0 .. n /\ l - 1 = k /\ l # 0 /\ k \in 0 .. n
    BY <1>1, <1>9, <1>11
  <2>2. at[k] = NthOf(s, k)
    BY <1>9
  <2>3. CASE l = 1
    BY <1>2, <1>7, <1>9, <2>1, <2>3
  <2>4. CASE l # 1
    <3>1. k \in 1 .. n
      BY <2>1, <2>4
    <3>2. at[k] = s[k] /\ s[k] # Null /\ mem[s[k]].next = NthOf(s, k + 1)
      BY <1>2, <1>3, <2>2, <3>1
    <3>3. at[l] = mem[at[k]].next
      BY <1>7, <2>1, <2>4, <3>2
    <3>4. QED
      BY <1>9, <2>1, <3>2, <3>3
  <2>5. QED
    BY <2>3, <2>4
<1>12. X \in SUBSET (0 .. n)
  BY <1>9
<1>13. \A k \in 0 .. n : k \in X
  BY <1>1, <1>10, <1>11, <1>12, UpTo
<1>14. QED
  BY <1>1, <1>8, <1>9, <1>13

(* Lists that stand have their types.                                      *)
LEMMA TypesAre == LinkInv => TypeOK
  BY DEF LinkInv, AllSound, Sound, Counted, Memories, Said, TypeOK

(* Both directions and len agree, of a list that stands.                   *)
LEMMA LinksAgreeOf ==
  ASSUME LinkInv, NEW h \in Handles, Alive(h), NEW d, d = list[h], NEW at, at = NodeAt(d)
  PROVE  /\ \A k \in 1 .. d.len : at[k] # Null /\ mem[at[k]] # Null
         /\ \A k \in 1 .. d.len : mem[at[k]].prev = at[k - 1]
         /\ d.tail = at[d.len]
         /\ IF d.len = 0 THEN d.head = Null ELSE mem[d.tail].next = Null
<1>1. PICK s : ListIs(h, d, s)
  BY AliveIs DEF ListIs
<1>2. PICK n : n = d.len /\ n \in Nat
  BY <1>1, PlacesAre
<1>3. \A k \in 0 .. n : at[k] = NthOf(s, k)
  BY <1>1, <1>2, NodeAtIs
<1>4. /\ NthOf(s, 0) = Null /\ NthOf(s, n + 1) = Null
      /\ d.head = NthOf(s, 1) /\ d.tail = NthOf(s, n)
      /\ \A k \in 1 .. n : /\ NthOf(s, k) = s[k] /\ s[k] \in Nodes /\ mem[s[k]] # Null
                           /\ mem[s[k]].prev = NthOf(s, k - 1) /\ mem[s[k]].next = NthOf(s, k + 1)
  BY <1>1, <1>2, PlacesAre
<1>5. Null \notin Nodes
  BY ListAssumption
<1>6. ASSUME NEW k \in 1 .. n
      PROVE  at[k] # Null /\ mem[at[k]] # Null /\ mem[at[k]].prev = at[k - 1]
  <2>1. k \in 0 .. n /\ k - 1 \in 0 .. n
    BY <1>2
  <2>2. QED
    BY <1>3, <1>4, <1>5, <2>1
<1>7. d.tail = at[n]
  BY <1>2, <1>3, <1>4
<1>8. IF n = 0 THEN d.head = Null ELSE mem[d.tail].next = Null
  <2>1. CASE n = 0
    BY <1>4, <2>1
  <2>2. CASE n # 0
    <3>1. n \in 1 .. n
      BY <1>2, <2>2
    <3>2. mem[s[n]].next = NthOf(s, n + 1) /\ d.tail = s[n]
      BY <1>4, <3>1
    <3>3. QED
      BY <1>4, <2>2, <3>2
  <2>3. QED
    BY <2>1, <2>2
<1>9. QED
  BY <1>2, <1>6, <1>7, <1>8

(* A node that is lent is in one list, at one place.                       *)
LEMMA OnePlace ==
  ASSUME LinkInv, NEW x \in Nodes, mem[x] # Null,
         NEW P, P = {p \in Handles \X (1 .. Cardinality(Nodes)) :
                       /\ Alive(p[1])
                       /\ p[2] <= list[p[1]].len
                       /\ NodeAt(list[p[1]])[p[2]] = x
                       /\ mem[x].al = list[p[1]].al}
  PROVE  Cardinality(P) = 1
<1>1. PICK h \in Handles : x \in Owned(list, mem, h)
  BY DEF LinkInv, AllSound, Sound
<1>2. Alive(h)
  BY <1>1 DEF Owned, Alive
<1>3. PICK d, s : ListIs(h, d, s)
  BY <1>2, AliveIs
<1>4. PICK k \in 1 .. d.len : x = s[k]
  <2>1. x \in Along(s) /\ DOMAIN s = 1 .. d.len
    BY <1>1, <1>3, PlacesAre DEF ListIs
  <2>2. QED
    BY <2>1 DEF Along
<1>5. d = list[h] /\ d.len \in Nat /\ mem[x].al = d.al /\ NthOf(s, k) = x
  BY <1>3, <1>4, PlacesAre DEF ListIs
<1>6. NodeAt(d)[k] = x
  <2>1. k \in 0 .. d.len
    BY <1>4, <1>5
  <2>2. QED
    BY <1>3, <1>5, <2>1, NodeAtIs
<1>7. k \in 1 .. Cardinality(Nodes)
  <2>1. d.len <= Cardinality(Nodes) /\ Cardinality(Nodes) \in Nat
    BY <1>3, LineIsShort DEF ListIs, Holds
  <2>2. QED
    BY <1>4, <1>5, <2>1
<1>8. <<h, k>> \in P
  BY <1>2, <1>4, <1>5, <1>6, <1>7
<1>9. ASSUME NEW g \in Handles, NEW l \in 1 .. Cardinality(Nodes), <<g, l>> \in P
      PROVE  g = h /\ l = k
  <2>1. Alive(g) /\ l <= list[g].len /\ NodeAt(list[g])[l] = x
    BY <1>9
  <2>2. PICK e, t : ListIs(g, e, t)
    BY <2>1, AliveIs
  <2>3. e = list[g] /\ e.len \in Nat
    BY <2>2, PlacesAre DEF ListIs
  <2>4. l \in 1 .. e.len /\ l \in 0 .. e.len
    BY <2>1, <2>3
  <2>5. t[l] = x
    BY <2>1, <2>2, <2>3, <2>4, NodeAtIs, PlacesAre
  <2>6. x \in Along(t)
    BY <2>2, <2>4, <2>5, PlacesAre DEF Along
  <2>7. g = h
    <3>1. x \in Along(s)
      BY <1>3, <1>4, PlacesAre DEF Along
    <3>2. QED
      BY <1>3, <2>2, <2>6, <3>1, TwoAre
  <2>8. t = s /\ e = d
    BY <1>3, <2>2, <2>7 DEF ListIs
  <2>9. l = k
    <3>1. \A i, j \in 1 .. d.len : s[i] = s[j] => i = j
      BY <1>3, HoldsIs DEF ListIs
    <3>2. QED
      BY <1>4, <2>4, <2>5, <2>8, <3>1
  <2>10. QED
    BY <2>7, <2>9
<1>10. P = {<<h, k>>}
  <2>1. ASSUME NEW p \in P
        PROVE  p = <<h, k>>
    <3>1. PICK g \in Handles, l \in 1 .. Cardinality(Nodes) : p = <<g, l>>
      OBVIOUS
    <3>2. QED
      BY <1>9, <3>1
  <2>2. QED
    BY <1>8, <2>1
<1>11. QED
  BY <1>10, FS_Singleton

(* In every state both directions of every list, its ends and its length   *)
(* agree, whichever calls relinked it and whichever were refused.          *)
THEOREM LinksAlwaysAgree == Spec => []LinksAgree
<1>1. LinkInv => LinksAgree
  BY TypesAre, LinksAgreeOf DEF LinksAgree
<1>2. QED
  BY <1>1, ListsAlwaysStand, PTL

(* In every state every node lent is in one list, once, of the allocator   *)
(* that will have it back, and every header lent is of one list.           *)
THEOREM NothingEverLeaks == Spec => []NothingLeaks
<1>1. LinkInv => NothingLeaks
  <2>1. ASSUME LinkInv, NEW a \in Als
        PROVE  hdrs[a] = Cardinality({h \in Handles : Alive(h) /\ list[h].al = a})
    <3>1. hdrs[a] = Cardinality(Held(list, a))
      BY <2>1 DEF LinkInv, AllSound, Counted
    <3>2. Held(list, a) = {h \in Handles : Alive(h) /\ list[h].al = a}
      BY DEF Held, Alive
    <3>3. QED
      BY <3>1, <3>2
  <2>2. QED
    BY <2>1, OnePlace DEF NothingLeaks
<1>2. QED
  BY <1>1, ListsAlwaysStand, PTL

=============================================================================
