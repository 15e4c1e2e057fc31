-------------------------------- MODULE Heap --------------------------------
(***************************************************************************)
(* algo/heap.c: heaps in the first "len" places of a span, in place. A span*)
(* is a function from 0 .. len - 1 (or further), an order a function from  *)
(* pairs of elems to integers, as the comparisons of the code are.         *)
(*                                                                         *)
(* An elem that is sifted moves along a path of parents, or of larger      *)
(* children, and the elems it passes move one place the other way: the     *)
(* recursions follow the path.                                             *)
(***************************************************************************)
LOCAL INSTANCE Integers

Parent(i) == (i - 1) \div 2

Exchanged(c, i, j) == [c EXCEPT ![i] = c[j], ![j] = c[i]]

SiftUp(c, idx, cmp) ==
  LET up[i \in 0 .. idx] ==
        IF i = 0 \/ cmp[c[Parent(i)], c[idx]] >= 0
        THEN [c EXCEPT ![i] = c[idx]]
        ELSE [up[Parent(i)] EXCEPT ![i] = c[Parent(i)]]
  IN  up[idx]

(* Of two equal children the left one.                                     *)
BestChild(c, i, len, cmp) ==
  IF 2 * i + 2 < len /\ cmp[c[2 * i + 1], c[2 * i + 2]] < 0 THEN 2 * i + 2 ELSE 2 * i + 1

SiftDown(c, idx, len, cmp) ==
  LET down[i \in 0 .. len - 1] ==
        LET best == BestChild(c, i, len, cmp)
        IN  IF 2 * i + 1 >= len \/ cmp[c[idx], c[best]] >= 0
            THEN [c EXCEPT ![i] = c[idx]]
            ELSE [down[best] EXCEPT ![i] = c[best]]
  IN  down[idx]

MakeHeap(c, len, cmp) ==
  LET from[i \in 0 .. len \div 2] ==
        IF i = len \div 2 THEN c ELSE SiftDown(from[i + 1], i, len, cmp)
  IN  from[0]

PushHeap(c, len, cmp) == SiftUp(c, len - 1, cmp)

PopHeap(c, len, cmp) ==
  IF len = 1 THEN c ELSE SiftDown(Exchanged(c, 0, len - 1), 0, len - 1, cmp)

SortHeap(c, len, cmp) ==
  LET down[k \in 2 .. len + 1] == IF k = len + 1 THEN c ELSE PopHeap(down[k + 1], k, cmp)
  IN  IF len < 2 THEN c ELSE down[2]

IsHeapUntil(c, len, cmp) ==
  LET bad == {i \in 1 .. len - 1 : cmp[c[Parent(i)], c[i]] < 0}
  IN  IF bad = {} THEN len ELSE CHOOSE i \in bad : \A j \in bad : i <= j
=============================================================================
