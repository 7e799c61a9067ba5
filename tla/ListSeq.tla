------------------------------ MODULE ListSeq -------------------------------
(***************************************************************************)
(* What a list promises (collections.h): a sequence of items that can be   *)
(* appended to, inserted into, overwritten in place and cleared.           *)
(***************************************************************************)
EXTENDS Integers, Sequences

CONSTANT Items

VARIABLE seq

Init == seq = <<>>

\* v becomes item number i; those from i on move up.
Insert(i, v) == seq' = SubSeq(seq, 1, i - 1) \o <<v>> \o SubSeq(seq, i, Len(seq))

Set(i, v) == seq' = [seq EXCEPT ![i] = v]

Clear == seq' = <<>>

Next == \/ \E v \in Items : \/ \E i \in 1..(Len(seq) + 1) : Insert(i, v)
                           \/ \E i \in 1..Len(seq) : Set(i, v)
        \/ Clear

Spec == Init /\ [][Next]_seq
=============================================================================
