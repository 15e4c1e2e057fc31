------------------------------- MODULE MCHSet -------------------------------
(***************************************************************************)
(* Two maps, or two sets, with two hashers on two allocators. A behaviour  *)
(* is a program of one kind.                                               *)
(***************************************************************************)
EXTENDS HSet, MCHMap

VARIABLE prog  \* "hmap" or "hset"

allVars == <<setVars, prog>>

Spread == [k \in Keys |-> IF k = k1 THEN 2 ELSE 3]

MCHashers2 == {Colliding, Spread}
MCArrays2  == 1 .. 3
MCCaps2    == {0, 2}
MCRooms2   == {0, 2}

HInit == SetInit /\ prog \in {"hmap", "hset"}

HNext ==
  /\ UNCHANGED prog
  /\ \/ prog = "hmap" /\ LooseStep
     \/ prog = "hset" /\ \E h \in Handles : SetStep(h)

HSpec == HInit /\ [][HNext]_allVars

Symm2 == Permutations(Handles) \cup Permutations(Als)

View2 == <<View, set, prog>>
=============================================================================
