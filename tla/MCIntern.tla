------------------------------ MODULE MCIntern ------------------------------
(***************************************************************************)
(* Intern with four strings and three texts in one slot, and blocks of one *)
(* bucket, so that a chain of three needs two blocks.  MCIntern and        *)
(* MCInternThreads take the uninitialized hash of a string to be the right *)
(* one; MCInternHash lets it be any of two.                                *)
(***************************************************************************)
EXTENDS Intern, TLC

CONSTANTS t1, t2, s1, s2, s3, s4, x, y, z

MCHashOf == [txt \in Texts |-> IF txt = x THEN 1 ELSE 2]
RightHash == [txt \in Texts |-> {MCHashOf[txt]}]
AnyHash == [txt \in Texts |-> {1, 2}]

InternSymmetry == Permutations({t1, t2}) \cup Permutations({s1, s2, s3, s4})
                  \cup Permutations({y, z})
=============================================================================
