---------------------------- MODULE MCAlgorithms -----------------------------
(***************************************************************************)
(* Every span of up to MaxLen elems over three keys, one of them carried by*)
(* two elems.                                                              *)
(***************************************************************************)
EXTENDS Algorithms

CONSTANT MaxLen

MCElems == {<<1, 0>>, <<2, 0>>, <<2, 1>>, <<3, 0>>}

SpansUpTo(n, elems) == UNION {[0 .. k - 1 -> elems] : k \in 0 .. n}

MCGiven == SpansUpTo(MaxLen, MCElems)

(* Sorted, of up to two elems, and one with three of a kind.               *)
MCOthers ==
  {t \in SpansUpTo(2, MCElems) : IsSorted(t, cmp)}
    \cup {AsSpan(<< <<2, 0>>, <<2, 1>>, <<2, 0>>, <<3, 0>> >>)}

MCPreds == {[x \in MCElems |-> x[1] = 2], [x \in MCElems |-> x = <<2, 1>>], [x \in MCElems |-> x[1] < 3]}

MCOps == {[p \in MCElems \X MCElems |-> IF p[1] = <<1, 0>> THEN p[2] ELSE p[1]]}

(* Odd factors; a seed that is not the golden ratio.                       *)
MCMix    == [seed |-> 19, golden |-> 13, c1 |-> 11, c2 |-> 21, basis |-> 23, prime |-> 27]
MCRngMix == [seed |-> 0, golden |-> 5, c1 |-> 3, c2 |-> 5, basis |-> 0, prime |-> 1]

(* What was called is of the step that called it.                          *)
SpanOnly == s
=============================================================================
