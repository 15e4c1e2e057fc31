------------------------------- MODULE MCPool --------------------------------
(***************************************************************************)
(* Programs over one pool, of up to three blocks of two words, where an    *)
(* owner may store a value of its own, the number of a block, or a null    *)
(* link; and programs over up to two allocators stacked on the default     *)
(* one, in a heap that has room for them and for a block or two more.      *)
(***************************************************************************)
EXTENDS Pool, Wrapping, FiniteSets, TLC

CONSTANT v1

VARIABLE over  \* what the program is over

MCWords  == {v1, 0, 2}
MCSizes  == (0 .. 3) \cup {6}
MCCounts == 0 .. 3

(* Which of its places the heap lent is of no consequence: where a block   *)
(* lies in one is, and what is in it.                                      *)
Seen(b) ==
  <<b.lvl, b.size, b.at % PlaceSize, Home(b).at % PlaceSize, Home(b).size,
    [i \in {j \in 1 .. b.size : b.at + j - 1 \in DOMAIN word} |-> word[b.at + i - 1]]>>

View ==
  <<over, vars, Cardinality(DOMAIN heap),
    [k \in 1 .. Len(wrap) |-> <<wrap[k].kind, wrap[k].alignment>>],
    {Seen(b) : b \in OwnedBlocks},
    [u \in Users |-> IF held[u] = NoBlock THEN <<>>
                     ELSE <<held[u].words, Seen([lvl |-> held[u].lvl, at |-> held[u].at, size |-> held[u].size])>>]>>

Symm == Permutations(Users)

AllInit == Init /\ WrapInit /\ over \in {"pool", "stack"}

AllNext ==
  /\ UNCHANGED over
  /\ \/ over = "pool" /\ Next /\ UNCHANGED wrapVars
     \/ over = "stack" /\ WrapNext /\ UNCHANGED vars

AllSpec == AllInit /\ [][AllNext]_<<vars, wrapVars, over>>
=============================================================================
