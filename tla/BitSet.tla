------------------------------- MODULE BitSet -------------------------------
(***************************************************************************)
(* ds/bitset: a set of indices below nbits, as words of WordBits bits over *)
(* one block. A word is the set of its one bits, so & is \cap, | is \cup,  *)
(* ~ is the complement in a whole word - a word whose bits above nbits are *)
(* not clear is a word all the same, and what the code does with it shows. *)
(***************************************************************************)
EXTENDS Memory

CONSTANTS
  Handles,
  Lens,       \* universes a caller asks for
  WordBits,   \* WORD_BITS
  WordBytes   \* sizeof(uint64_t)

ASSUME BitSetAssumption ==
  /\ Lens \subseteq Nat
  /\ WordBits \in Nat \ {0}
  /\ WordBytes \in Nat \ {0}
  /\ "bitset" \in Kinds

VARIABLES
  bs,      \* handle -> the struct tda_BitSet behind it, or Null
  mem,     \* what is lent; the cells of a block are its words
  answer   \* what the last call returned

bitVars == <<bs, mem, answer>>

BitSets == [words : Blocks \cup {Null}, nbits : Nat, nwords : Nat, al : Als]

(* Null is no struct, no block and no object.                              *)
ASSUME BitNullAssumption ==
  /\ Null \notin BitSets
  /\ \A n \in 0 .. SizeMax :
       Null \notin [al : Als, bytes : Nat, cells : [0 .. n - 1 -> SUBSET (0 .. WordBits - 1)]]
  /\ Null \notin [al : Als, nbits : Nat, bits : SUBSET Nat]

IsAlive(h) == bs[h] # Null

Result(st, d, m) == [st |-> st, d |-> d, m |-> m]

-----------------------------------------------------------------------------
(* Words.                                                                  *)

Ones == 0 .. WordBits - 1

Complement(word) == Ones \ word

WordsFor(nbits) == nbits \div WordBits + (IF nbits % WordBits # 0 THEN 1 ELSE 0)

WordOf(idx) == idx \div WordBits
BitOf(idx)  == {idx % WordBits}

(* No remainder is a full last word.                                       *)
TailMask(nbits) ==
  LET rem == nbits % WordBits
  IN  IF rem = 0 THEN Ones ELSE 0 .. rem - 1

WordFrom(word, from) == word \cap (from % WordBits .. WordBits - 1)

LeastBit(word) == CHOOSE i \in word : \A j \in word : i <= j

IdxOfFirstOne(w, word) == w * WordBits + LeastBit(word)

WordsBytes(d) == d.nwords * WordBytes

WordsOf(d, m) == IF d.words = Null THEN Raw(0) ELSE m.lent[d.words].cells

SetWords(d, m, words) ==
  IF d.words = Null THEN m ELSE [m EXCEPT !.lent[d.words].cells = words]

ClearTail(d, words) ==
  IF d.nwords = 0 THEN words
  ELSE [words EXCEPT ![d.nwords - 1] = @ \cap TailMask(d.nbits)]

-----------------------------------------------------------------------------
(* Birth, death and assignment.                                            *)

NewBits(m, a, nbits, hdr, room) ==
  LET t   == TakeHdr(m, a, "bitset")
      n   == WordsFor(nbits)
      blk == IF n = 0 THEN Answer(Null, t) ELSE Calloc(t, a, n, WordBytes, room, {})
  IN  IF hdr = 0 THEN Result(NoMem, Null, m)
      ELSE IF n > 0 /\ blk.b = Null THEN Result(NoMem, Null, ReturnHdr(t, a, "bitset"))
      ELSE Result(OK, [words |-> blk.b, nbits |-> nbits, nwords |-> n, al |-> a], blk.m)

(* memcpy of the words of d, where the call was not refused.               *)
WithWordsOf(r, d, m) ==
  IF r.st = NoMem THEN r ELSE Result(OK, r.d, SetWords(r.d, r.m, WordsOf(d, m)))

CopyWith(d, m, a, hdr, room) == WithWordsOf(NewBits(m, a, d.nbits, hdr, room), d, m)

ReleasedWords_ZeroedFirst(d, m) ==
  Result(OK, [d EXCEPT !.words = Null, !.nbits = 0, !.nwords = 0], GiveBack(m, d.words, d.al, 0))

ReleasedWords(d, m) ==
  Result(OK, [d EXCEPT !.words = Null, !.nbits = 0, !.nwords = 0],
         GiveBack(m, d.words, d.al, WordsBytes(d)))

Dropped(d, m) == ReturnHdr(GiveBack(m, d.words, d.al, WordsBytes(d)), d.al, "bitset")

(* Between two numbers of words the block is reallocated; null is a refusal*)
(* only when there is something to hold.                                   *)
CopyAssigned(d, e, m, room) ==
  LET new == Realloc(m, e.words, WordsBytes(e), e.al, d.nwords, WordBytes, room)
      r   == IF d.nwords = e.nwords THEN Result(OK, [e EXCEPT !.nbits = d.nbits], m)
             ELSE IF d.nwords > 0 /\ new.b = Null THEN Result(NoMem, e, new.m)
             ELSE Result(OK, [e EXCEPT !.words = new.b, !.nwords = d.nwords, !.nbits = d.nbits], new.m)
  IN  WithWordsOf(r, d, m)

(* With one allocator the structs change places; with two a copy takes the *)
(* place of e and carries it away. What is left in the source is released. *)
MoveAssigned(d, e, m, hdr, room) ==
  LET copy == CopyWith(d, m, e.al, hdr, room)
      from == IF d.al = e.al THEN ReleasedWords(e, m) ELSE ReleasedWords(d, Dropped(e, copy.m))
  IN  IF d.al # e.al /\ copy.st = NoMem
      THEN [st |-> NoMem, d |-> d, e |-> e, m |-> copy.m]
      ELSE [st |-> OK, d |-> from.d, e |-> IF d.al = e.al THEN d ELSE copy.d, m |-> from.m]

Commit(h, r) ==
  /\ bs' = [bs EXCEPT ![h] = r.d]
  /\ mem' = r.m
  /\ answer' = r.st

New(h, a, n, hdr, room) == ~IsAlive(h) /\ Commit(h, NewBits(mem, a, n, hdr, room))

Copy(h, g, a, hdr, room) ==
  /\ IsAlive(h) /\ ~IsAlive(g)
  /\ Commit(g, CopyWith(bs[h], mem, a, hdr, room))

Drop(h) == IsAlive(h) /\ Commit(h, Result(OK, Null, Dropped(bs[h], mem)))

CopyAssign(h, g, room) ==
  /\ IsAlive(h) /\ IsAlive(g)
  /\ Commit(g, IF h = g THEN Result(OK, bs[g], mem) ELSE CopyAssigned(bs[h], bs[g], mem, room))

MoveAssign(h, g, hdr, room) ==
  LET r == IF h = g THEN [st |-> OK, d |-> bs[g], e |-> bs[g], m |-> mem]
           ELSE MoveAssigned(bs[h], bs[g], mem, hdr, room)
  IN  /\ IsAlive(h) /\ IsAlive(g)
      /\ bs' = [bs EXCEPT ![h] = r.d, ![g] = r.e]
      /\ mem' = r.m
      /\ answer' = r.st

Swap(h, g) ==
  /\ IsAlive(h) /\ IsAlive(g)
  /\ bs[h].al = bs[g].al
  /\ bs' = [bs EXCEPT ![h] = bs[g], ![g] = bs[h]]
  /\ answer' = OK
  /\ UNCHANGED mem

-----------------------------------------------------------------------------
(* Bits.                                                                   *)

Store(h, words) == Commit(h, Result(OK, bs[h], SetWords(bs[h], mem, words)))

(* set, clear and flip of one index; set_to is one of the first two.       *)
OneBit(h, idx) ==
  LET words == WordsOf(bs[h], mem)
      w     == WordOf(idx)
      bit   == BitOf(idx)
  IN  \/ Store(h, [words EXCEPT ![w] = @ \cup bit])
      \/ Store(h, [words EXCEPT ![w] = @ \cap Complement(bit)])
      \/ Store(h, [words EXCEPT ![w] = (@ \ bit) \cup (bit \ @)])

(* set_all, clear_all and flip_all.                                        *)
AllBits(h) ==
  LET d     == bs[h]
      words == WordsOf(d, mem)
  IN  \/ Store(h, ClearTail(d, [w \in DOMAIN words |-> Ones]))
      \/ Store(h, [w \in DOMAIN words |-> {}])
      \/ Store(h, ClearTail(d, [w \in DOMAIN words |-> Complement(words[w])]))

(* union, intersect, difference and symmetric_difference, of one universe. *)
Combine(h, g) ==
  LET u == WordsOf(bs[h], mem)
      v == WordsOf(bs[g], mem)
  IN  /\ bs[h].nbits = bs[g].nbits
      /\ \/ Store(h, [w \in DOMAIN u |-> u[w] \cup v[w]])
         \/ Store(h, [w \in DOMAIN u |-> u[w] \cap v[w]])
         \/ Store(h, [w \in DOMAIN u |-> u[w] \cap Complement(v[w])])
         \/ Store(h, [w \in DOMAIN u |-> (u[w] \ v[w]) \cup (v[w] \ u[w])])

-----------------------------------------------------------------------------
(* Questions.                                                              *)

Test(d, m, idx) == WordsOf(d, m)[WordOf(idx)] \cap BitOf(idx) # {}

Count(d, m) ==
  LET upTo[w \in 0 .. d.nwords] == IF w = 0 THEN 0 ELSE upTo[w - 1] + Cardinality(WordsOf(d, m)[w - 1])
  IN  upTo[d.nwords]

HasAny(d, m) == \E w \in 0 .. d.nwords - 1 : WordsOf(d, m)[w] # {}

HasAll(d, m) ==
  \A w \in 0 .. d.nwords - 1 :
    WordsOf(d, m)[w] = IF w + 1 = d.nwords THEN TailMask(d.nbits) ELSE Ones

(* The first word from w on with a one in it, as the loop of a scan; or    *)
(* nwords. "of" is the words it looks at, the first one masked.            *)
WordFound(d, of, w) ==
  LET from[k \in w .. d.nwords] == IF k = d.nwords \/ of[k] # {} THEN k ELSE from[k + 1]
  IN  from[w]

Masked(words, from) == [words EXCEPT ![WordOf(from)] = WordFrom(@, from)]

FindNext(d, m, from) ==
  LET of == Masked(WordsOf(d, m), from)
      w  == WordFound(d, of, WordOf(from))
  IN  IF from >= d.nbits \/ w = d.nwords THEN Null ELSE IdxOfFirstOne(w, of[w])

FindNextClear_TrustsTheWord(d, m, from) ==
  LET words == WordsOf(d, m)
      of == Masked([w \in DOMAIN words |-> Complement(words[w])], from)
      w  == WordFound(d, of, WordOf(from))
  IN  IF from >= d.nbits \/ w = d.nwords THEN Null ELSE IdxOfFirstOne(w, of[w])

(* The complement turns the tail into ones, which are not members.         *)
FindNextClear(d, m, from) ==
  LET words == WordsOf(d, m)
      of == Masked([w \in DOMAIN words |-> Complement(words[w])], from)
      w  == WordFound(d, of, WordOf(from))
  IN  IF from >= d.nbits \/ w = d.nwords THEN Null
      ELSE IF IdxOfFirstOne(w, of[w]) >= d.nbits THEN Null
      ELSE IdxOfFirstOne(w, of[w])

Eq(d, e, m) == d.nbits = e.nbits /\ WordsOf(d, m) = WordsOf(e, m)

IsSubset(d, e, m) ==
  \A w \in 0 .. d.nwords - 1 : WordsOf(d, m)[w] \cap Complement(WordsOf(e, m)[w]) = {}

Intersects(d, e, m) ==
  \E w \in 0 .. d.nwords - 1 : WordsOf(d, m)[w] \cap WordsOf(e, m)[w] # {}

Answers(x) ==
  /\ answer' = x
  /\ UNCHANGED <<bs, mem>>

Ask(h, from) ==
  LET d == bs[h]
  IN  \/ from < d.nbits /\ Answers(<<"test", from, Test(d, mem, from)>>)
      \/ Answers(<<"count", Count(d, mem)>>)
      \/ Answers(<<"any", HasAny(d, mem)>>)
      \/ Answers(<<"all", HasAll(d, mem)>>)
      \/ Answers(<<"find_next", from, FindNext(d, mem, from)>>)
      \/ Answers(<<"find_next_clear", from, FindNextClear(d, mem, from)>>)

(* is_subset and intersects are for sets of one universe.                  *)
AskBoth(h, g) ==
  \/ Answers(<<"eq", Eq(bs[h], bs[g], mem)>>)
  \/ /\ bs[h].nbits = bs[g].nbits
     /\ \/ Answers(<<"is_subset", IsSubset(bs[h], bs[g], mem)>>)
        \/ Answers(<<"intersects", Intersects(bs[h], bs[g], mem)>>)

-----------------------------------------------------------------------------
BitInit ==
  /\ bs = [h \in Handles |-> Null]
  /\ mem = Empty
  /\ answer = OK

BitStep(H, lens, rooms) ==
  \E h \in H :
    \/ Drop(h)
    \/ /\ IsAlive(h)
       /\ \/ AllBits(h)
          \/ \E i \in 0 .. bs[h].nbits - 1 : OneBit(h, i)
          \/ \E i \in 0 .. bs[h].nbits : Ask(h, i)
          \/ \E g \in {x \in H : IsAlive(x)} : Swap(h, g) \/ Combine(h, g) \/ AskBoth(h, g)
    \/ \E room \in rooms, hdr \in 0 .. 1 :
         \/ \E a \in Als, n \in lens : New(h, a, n, hdr, room)
         \/ \E g \in H :
              \/ \E a \in Als : Copy(h, g, a, hdr, room)
              \/ CopyAssign(h, g, room)
              \/ MoveAssign(h, g, hdr, room)

BitNext == BitStep(Handles, Lens, Nat)

BitSpec == BitInit /\ [][BitNext]_bitVars

-----------------------------------------------------------------------------
(* What ASSERT_BITSET asserts, and that the block is the set's own.        *)
BitSetSound(d, m) ==
  /\ d.nwords = WordsFor(d.nbits)
  /\ d.nwords = 0 <=> d.words = Null
  /\ d.nwords > 0 => IsLent(m, d.words, d.al, d.nwords, WordBytes)

(* No bit above the last live one is ever set.                             *)
TailIsClear(d, m) ==
  d.nwords > 0 => WordsOf(d, m)[d.nwords - 1] \subseteq TailMask(d.nbits)

Members(d, m) == {i \in 0 .. d.nbits - 1 : Test(d, m, i)}

-----------------------------------------------------------------------------
(* The objects and what is lent agree: each is well formed over a block of *)
(* its own, and nothing else is lent, at any point of any sequence of      *)
(* calls some of which were refused; and the bits above the last live one, *)
(* which count, any and the scans trust, are clear in every last word.     *)
BooksBalance ==
  LET Holders(b) == {h \in Handles : IsAlive(h) /\ bs[h].words = b}
  IN  /\ \A h \in Handles : IsAlive(h) => BitSetSound(bs[h], mem) /\ TailIsClear(bs[h], mem)
      /\ \A b \in Blocks : Cardinality(Holders(b)) = IF mem.lent[b] = Null THEN 0 ELSE 1
      /\ \A a \in Als :
           mem.hdrs[<<a, "bitset">>] = Cardinality({h \in Handles : IsAlive(h) /\ bs[h].al = a})

ObjOf(d, m) == [al |-> d.al, nbits |-> d.nbits, bits |-> Members(d, m)]

Objs == [h \in Handles |-> IF IsAlive(h) THEN ObjOf(bs[h], mem) ELSE Null]

(* A bitset is a set of indices: calls change it, and questions are        *)
(* answered, as if there were no words.                                    *)
B == INSTANCE BitStore WITH objs <- Objs

ImplementsBitStore == B!BitSpec
=============================================================================
