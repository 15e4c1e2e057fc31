------------------------------ MODULE MCBitSet ------------------------------
(***************************************************************************)
(* BitSet on small instances: a behaviour is a program that uses one       *)
(* object of up to four words of two bits, or two objects of up to two on  *)
(* two allocators.                                                         *)
(***************************************************************************)
EXTENDS BitSet, TLC

VARIABLE prog  \* the program: [uses, lens]

vars == <<bs, mem, answer, prog>>

MCLends == [S \in SUBSET Blocks |-> IF S = {} THEN Null ELSE CHOOSE b \in S : \A c \in S : b <= c]

Programs ==
  [uses : {{h} : h \in Handles}, lens : {{0, 1, 2, 5, 6, 7}}] \cup [uses : {Handles}, lens : {{0, 2, 3}}]

Init == BitInit /\ prog \in Programs

Next == BitStep(prog.uses, prog.lens, {0, 4 * WordBytes}) /\ UNCHANGED prog

Spec == Init /\ [][Next]_vars

Symm == Permutations(Als) \cup Permutations(Handles)

LentOf(a, n) == Cardinality({b \in Blocks \ FreeOf(mem) : mem.lent[b].al = a /\ mem.lent[b].bytes = n})

Seen(d) == IF d = Null THEN Null ELSE <<[d EXCEPT !.words = Null], WordsOf(d, mem)>>

(* States that differ in the last answer or in addresses are one.          *)
View ==
  <<prog, [h \in Handles |-> Seen(bs[h])], mem.hdrs, [a \in Als, n \in 1 .. SizeMax |-> LentOf(a, n)]>>
=============================================================================
