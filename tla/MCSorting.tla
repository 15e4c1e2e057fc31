------------------------------ MODULE MCSorting -------------------------------
(***************************************************************************)
(* Every way the keys of up to MaxLen elems can compare; a few longer spans*)
(* whose pivots go bad, or whose range is wide enough to be sampled.       *)
(***************************************************************************)
EXTENDS Sorting

CONSTANT MaxLen

(* As many keys as elems, with none left out.                              *)
WeakOrders(n) ==
  {k \in [0 .. n - 1 -> 1 .. n] : \A i \in DOMAIN k : k[i] = 1 \/ \E j \in DOMAIN k : k[j] = k[i] - 1}

(* Arrangements of 7 elems that begin so that pivots go bad.               *)
Beginnings == {<<1, 2, 3>>, <<1, 4, 2>>, <<1, 3, 4>>}

Arranged(begin) ==
  {[k \in 0 .. 6 |-> IF k < 3 THEN begin[k + 1] ELSE f[k]] :
     f \in {g \in [3 .. 6 -> 1 .. 7 \ {begin[i] : i \in 1 .. 3}] : \A i, j \in 3 .. 6 : g[i] = g[j] => i = j}}

Bad == UNION {Arranged(begin) : begin \in Beginnings}

Wide == {AsSpan(<<5, 1, 8, 2, 9, 3, 7, 4, 6>>), AsSpan(<<1, 1, 2, 2, 1, 1, 2, 2, 1, 2>>),
         AsSpan(<<9, 8, 7, 6, 5, 4, 3, 2, 1>>)}

(* Two runs to merge, with elems that are even across them.                *)
Runs == {AsSpan(<<1, 2, 2, 3, 3, 5, 1, 2, 3>>), AsSpan(<<2, 4, 1, 2, 2, 3, 4, 5>>), AsSpan(<<1, 3, 3, 3, 4, 0, 2, 3, 3>>)}

MCInputs == UNION {WeakOrders(n) : n \in 0 .. MaxLen} \cup Bad \cup Wide \cup Runs
=============================================================================
