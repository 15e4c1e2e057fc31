------------------------------- MODULE MCQueue -------------------------------
(***************************************************************************)
(* Two deques, or two queues, on two allocators: the calls that involve    *)
(* two objects, and what owns what. A behaviour is a program of one kind.  *)
(***************************************************************************)
EXTENDS Queue, MCDeque

VARIABLE prog  \* "deque" or "queue"

allVars == <<queueVars, prog>>

MCInputs2 == SE!BoundedSeq(Vals, 2)
MCCounts2 == {0, 2, 11}
MCRooms2  == {0, 6}

QInit == QueueInit /\ prog \in {"deque", "queue"}

QNext ==
  /\ UNCHANGED prog
  /\ \/ prog = "deque" /\ LooseStep
     \/ prog = "queue" /\ \E h \in Handles : QueueStep(h)

QSpec == QInit /\ [][QNext]_allVars

Symm2 == Permutations(Handles) \cup Permutations(Als)

View2 == <<View, que, prog>>
=============================================================================
