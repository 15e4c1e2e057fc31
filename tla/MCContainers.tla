----------------------------- MODULE MCContainers -----------------------------
(***************************************************************************)
(* Containers on small instances: programs with one object with room for   *)
(* several elems, or two on two allocators with less.                      *)
(***************************************************************************)
EXTENDS Containers, TLC

SE == INSTANCE SequencesExt

MCLends == [S \in SUBSET Blocks |-> IF S = {} THEN Null ELSE CHOOSE b \in S : \A c \in S : b <= c]

MCInputs == {<<>>, <<1>>, <<1, 2>>, <<2, 1, 2, 1>>}
MCCounts == {0, 2, 3, 7}
MCUp     == [p \in Vals \X Vals |-> p[1] - p[2]]
MCDown   == [p \in Vals \X Vals |-> p[2] - p[1]]
MCOrders == {MCUp, MCDown}

Singles == {{h} : h \in Handles}

MCPrograms ==
  [kinds : {{"vec"}, {"pqueue"}}, uses : Singles, rooms : {{0, 6, 8}}, places : {0 .. 4}]
    \cup [kinds : {{"vec", "stack"}, {"pqueue"}, {"arr"}}, uses : {Handles}, rooms : {{0, 4}}, places : {{}}]

Symm == Permutations(Als) \cup Permutations(Handles)

(* States that differ in the answer of the last call, in cells behind the  *)
(* contents or in the addresses of blocks are taken for one.               *)
Seen(d) ==
  IF d = Null THEN Null
  ELSE <<[d EXCEPT !.data = IF @ = Null THEN Null ELSE Junk], ToSpan(d, mem)>>

LentOf(a, n) == Cardinality({b \in Blocks \ FreeOf(mem) : mem.lent[b].al = a /\ mem.lent[b].bytes = n})

View ==
  <<prog, [h \in Handles |-> Seen(vec[h])], [h \in Handles |-> Seen(arr[h])], stk, order,
    mem.hdrs, [a \in Als, n \in 1 .. SizeMax |-> LentOf(a, n)]>>

-----------------------------------------------------------------------------
UsesQueues == prog.kinds = {"pqueue"}

Prios ==
  [h \in Handles |->
     IF ~(UsesQueues /\ IsQueue(h)) THEN Null
     ELSE LET s == ToSpan(vec[h], mem)
          IN  [al |-> vec[h].al, cmp |-> order[h],
               bag |-> [v \in SE!ToSet(s) |-> Cardinality({i \in DOMAIN s : s[i] = v})],
               top |-> IF s = <<>> THEN Null ELSE PQTop(h)]]

(* A queue holds what was pushed and not popped, with a greatest elem on   *)
(* top, under the order that came with its elems.                          *)
P == INSTANCE PrioStore WITH
       objs <- Prios, status <- IF UsesQueues THEN status ELSE OK

ImplementsPrioStore == P!PrioSpec
=============================================================================
