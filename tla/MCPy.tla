------------------------------- MODULE MCPy --------------------------------
(***************************************************************************)
(* PyBridge with two variables of the Python program.                      *)
(***************************************************************************)
EXTENDS PyBridge, TLC

MCSlots == 1..3
MCErrSlots == 4..5
MCPySlots == 6..9
\* did is only looked at.
Shared == <<heap, err, fault, var, dy, kept>>
NameSymmetry == Permutations(Names)
=============================================================================
