------------------------------- MODULE MCList -------------------------------
(***************************************************************************)
(* Two lists on two allocators, with nodes enough for one to be copied     *)
(* while the other has some.                                               *)
(***************************************************************************)
EXTENDS List, TLC

(* The lowest address that is free.                                        *)
MCLends ==
  [S \in SUBSET Nodes |-> IF S = {} THEN Null ELSE CHOOSE x \in S : \A y \in S : x <= y]

MCNodes  == 1 .. 4
MCVals   == {1, 2}
MCInputs == SE!BoundedSeq(Vals, 2)

(* No step reads the last answer, so states that differ in it alone go on  *)
(* alike; each step is checked with the answer it gives.                   *)
Unanswered == <<list, mem, hdrs>>

Symm == Permutations(Handles) \cup Permutations(Als)
=============================================================================
