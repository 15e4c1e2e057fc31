----------------------------- MODULE MCHMapWalk -----------------------------
(***************************************************************************)
(* HMapWalk over the one object of MCHMap: three keys of one chain and one *)
(* of another.                                                             *)
(***************************************************************************)
EXTENDS MCHMap, HMapWalk
=============================================================================
