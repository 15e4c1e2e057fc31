------------------------------ MODULE BitStore ------------------------------
(***************************************************************************)
(* What a bitset promises: a set of indices below a bound, the universe,   *)
(* owned by an object that keeps its allocator. Calls do to the set what   *)
(* their header says, answer by it, or report NO_MEM and change nothing.   *)
(* Nothing here is about words.                                            *)
(***************************************************************************)
EXTENDS Integers, FiniteSets

CONSTANTS Handles, Als, Lens, Null, OK, NoMem

VARIABLES
  objs,    \* handle -> its object, [al, nbits, bits], or Null
  answer   \* what the last call returned

bVars == <<objs, answer>>

Alive(h) == objs[h] # Null

Universe(h) == 0 .. objs[h].nbits - 1

First(S) == IF S = {} THEN Null ELSE CHOOSE i \in S : \A j \in S : i <= j

Refused ==
  /\ answer' = NoMem
  /\ UNCHANGED objs

Done ==
  /\ answer' = OK
  /\ UNCHANGED objs

Becomes(h, o) ==
  /\ objs' = [objs EXCEPT ![h] = o]
  /\ answer' = OK

Holds(h, S) == Becomes(h, [objs[h] EXCEPT !.bits = S])

Answers(x) ==
  /\ answer' = x
  /\ UNCHANGED objs

BitInit ==
  /\ objs = [h \in Handles |-> Null]
  /\ answer = OK

BitNew(h, a, n) ==
  /\ ~Alive(h)
  /\ Becomes(h, [al |-> a, nbits |-> n, bits |-> {}]) \/ Refused

BitDrop(h) == Alive(h) /\ Becomes(h, Null)

BitCopyWith(h, g, a) ==
  /\ Alive(h) /\ ~Alive(g)
  /\ Becomes(g, [objs[h] EXCEPT !.al = a]) \/ Refused

(* The universe comes along; the allocator stays.                          *)
BitCopyAssign(h, g) ==
  /\ Alive(h) /\ Alive(g)
  /\ Becomes(g, [objs[h] EXCEPT !.al = objs[g].al]) \/ Refused

BitMoveAssign(h, g) ==
  /\ Alive(h) /\ Alive(g) /\ h # g
  /\ \/ /\ objs' = [objs EXCEPT ![g] = [objs[h] EXCEPT !.al = objs[g].al],
                                ![h] = [objs[h] EXCEPT !.nbits = 0, !.bits = {}]]
        /\ answer' = OK
     \/ Refused

BitSwap(h, g) ==
  /\ Alive(h) /\ Alive(g)
  /\ objs[h].al = objs[g].al
  /\ objs' = [objs EXCEPT ![g] = objs[h], ![h] = objs[g]]
  /\ answer' = OK

(* One bit put in or taken out, or all of them.                            *)
BitChange(h) ==
  /\ Alive(h)
  /\ \/ \E i \in Universe(h) : Holds(h, objs[h].bits \cup {i}) \/ Holds(h, objs[h].bits \ {i})
     \/ Holds(h, Universe(h))
     \/ Holds(h, {})
     \/ Holds(h, Universe(h) \ objs[h].bits)

BitCombine(h, g) ==
  LET A == objs[h].bits
      B == objs[g].bits
  IN  /\ Alive(h) /\ Alive(g)
      /\ objs[h].nbits = objs[g].nbits
      /\ \/ Holds(h, A \cup B)
         \/ Holds(h, A \cap B)
         \/ Holds(h, A \ B)
         \/ Holds(h, (A \ B) \cup (B \ A))

(* The questions, each with the one answer it may have.                    *)
BitAsk(h, from) ==
  LET S == objs[h].bits
  IN  /\ Alive(h)
      /\ \/ Answers(<<"test", from, from \in S>>)
         \/ Answers(<<"count", Cardinality(S)>>)
         \/ Answers(<<"any", S # {}>>)
         \/ Answers(<<"all", S = Universe(h)>>)
         \/ Answers(<<"find_next", from, First({i \in S : i >= from})>>)
         \/ Answers(<<"find_next_clear", from, First({i \in Universe(h) \ S : i >= from})>>)

BitAskBoth(h, g) ==
  /\ Alive(h) /\ Alive(g)
  /\ \/ Answers(<<"eq", objs[h].nbits = objs[g].nbits /\ objs[h].bits = objs[g].bits>>)
     \/ Answers(<<"is_subset", objs[h].bits \subseteq objs[g].bits>>)
     \/ Answers(<<"intersects", objs[h].bits \cap objs[g].bits # {}>>)

BitNext ==
  \/ Done
  \/ Refused
  \/ \E h \in Handles :
       \/ BitDrop(h)
       \/ BitChange(h)
       \/ Alive(h) /\ \E i \in 0 .. objs[h].nbits : BitAsk(h, i)
       \/ \E a \in Als, n \in Lens : BitNew(h, a, n)
       \/ \E g \in Handles :
            \/ BitCopyAssign(h, g)
            \/ BitMoveAssign(h, g)
            \/ BitSwap(h, g)
            \/ BitCombine(h, g)
            \/ BitAskBoth(h, g)
            \/ \E a \in Als : BitCopyWith(h, g, a)

BitSpec == BitInit /\ [][BitNext]_bVars
=============================================================================
