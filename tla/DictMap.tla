------------------------------ MODULE DictMap -------------------------------
(***************************************************************************)
(* What a dictionary promises (collections.h): a finite map.  Keys are     *)
(* compared by content, so the domain is the set of key contents.          *)
(***************************************************************************)
EXTENDS Integers, FiniteSets

CONSTANTS Contents,   \* what keys are compared by
          Vals,       \* the values
          Undefined   \* the absence of a value

VARIABLE map

Init == map = [c \in Contents |-> Undefined]

\* Set and delete: the entry of one key becomes a value, or Undefined.
Update(c) == /\ map'[c] \in Vals \cup {Undefined}
             /\ \A d \in Contents \ {c} : map'[d] = map[d]
             /\ DOMAIN map' = Contents

Clear == map' = [c \in Contents |-> Undefined]

Next == (\E c \in Contents : Update(c)) \/ Clear

Spec == Init /\ [][Next]_map
=============================================================================
