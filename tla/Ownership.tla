----------------------------- MODULE Ownership ------------------------------
(***************************************************************************)
(* What reference counting promises its users: memory a place refers to is *)
(* not taken away.  Places (variables of the client, slots of containers)  *)
(* refer to allocated objects; an object may be reclaimed only when no     *)
(* place refers to it and its own places are empty.                        *)
(***************************************************************************)
EXTENDS Integers, FiniteSets

CONSTANTS Obj, Places, NULL,
          Inside(_)       \* the places inside an object

VARIABLES allocated, at

Init == /\ allocated = {}
        /\ at = [p \in Places |-> NULL]

Allocate(o) == /\ o \notin allocated
               /\ allocated' = allocated \cup {o}

Point(p, o) == /\ o \in allocated
               /\ at' = [at EXCEPT ![p] = o]

Drop(p) == at' = [at EXCEPT ![p] = NULL]

Reclaim(o) == /\ o \in allocated
              /\ \A p \in Places : at[p] # o
              /\ \A p \in Inside(o) : at[p] = NULL
              /\ allocated' = allocated \ {o}

Next == \/ \E o \in Obj, p \in Places : Allocate(o) /\ at' = [at EXCEPT ![p] = o]
        \/ \E o \in Obj, p \in Places : Point(p, o) /\ UNCHANGED allocated
        \/ \E p \in Places : Drop(p) /\ UNCHANGED allocated
        \/ \E o \in Obj : Reclaim(o) /\ UNCHANGED at

Spec == Init /\ [][Next]_<<allocated, at>>
=============================================================================
