----------------------------- MODULE MCFreelist -----------------------------
(* Freelist with a block of five cells. *)
EXTENDS Freelist
=============================================================================
