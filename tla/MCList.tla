------------------------------- MODULE MCList -------------------------------
(***************************************************************************)
(* List with two items and up to nine entries: the capacities 4, 8 and 16, *)
(* from an empty list and from preallocated ones.                          *)
(***************************************************************************)
EXTENDS List, TLC

CONSTANTS x, y

ItemSymmetry == Permutations({x, y})
=============================================================================
