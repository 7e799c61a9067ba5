-------------------------------- MODULE Pool --------------------------------
(***************************************************************************)
(* What a fixed-size allocator promises: Take hands out a cell nobody      *)
(* holds, Give takes back a cell somebody holds.  freelist_p.h implements  *)
(* it (module Freelist); a dictionary's blocks use it (module Dict).       *)
(***************************************************************************)
EXTENDS Integers, FiniteSets

CONSTANT Cells        \* the cells of one block

VARIABLES avail,      \* the cells that may be handed out
          held        \* the cells the user holds

Init == avail = Cells /\ held = {}

Take(c) == /\ c \in avail
           /\ avail' = avail \ {c}
           /\ held' = held \cup {c}

Give(c) == /\ c \in held
           /\ avail' = avail \cup {c}
           /\ held' = held \ {c}

Next == \E c \in Cells : Take(c) \/ Give(c)

Spec == Init /\ [][Next]_<<avail, held>>
=============================================================================
