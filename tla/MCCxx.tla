------------------------------- MODULE MCCxx --------------------------------
(***************************************************************************)
(* Cxx with two Objects, a SubscriptionRef and a caught exception.          *)
(***************************************************************************)
EXTENDS Cxx, TLC

MCSlots == 1..3
MCErrSlots == 4..5
NameSymmetry == Permutations(Names)
=============================================================================
