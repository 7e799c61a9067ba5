------------------------------- MODULE MCHeap -------------------------------
(***************************************************************************)
(* Heap with two threads, a dictionary d and a list l with one slot each   *)
(* (so they may contain each other, or themselves), and a userdata object  *)
(* u whose destructor calls the library again.                             *)
(***************************************************************************)
EXTENDS Heap

CONSTANTS d, l, u, t1, t2, h1, h2, h3, pd, pl

MCOwnerOf == [h \in Handles |-> IF h = h3 THEN t2 ELSE t1]
MCContainerOf == [p \in Slots |-> IF p = pd THEN d ELSE l]
=============================================================================
