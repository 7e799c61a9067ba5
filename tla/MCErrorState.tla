---------------------------- MODULE MCErrorState ----------------------------
(***************************************************************************)
(* ErrorState with two threads, and two exceptions besides MemoryError.    *)
(* Thread t1 has two local variables (handlers, held references), and one  *)
(* reference to MemoryError may be overwritten, none to the others.        *)
(***************************************************************************)
EXTENDS ErrorState, TLC

CONSTANTS t1, t2, e1, e2

ErrorSymmetry == Permutations(Exc \ {MemoryError})
MCMaxLocals == [t \in Threads |-> IF t = t1 THEN 2 ELSE 0]
MCMaxLost == [e \in Exc |-> IF e = MemoryError THEN 1 ELSE 0]
=============================================================================
