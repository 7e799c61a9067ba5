------------------------------- MODULE MCDict -------------------------------
(***************************************************************************)
(* Dict on a small instance: one table bucket, as in dict_p.h, and a first *)
(* block of one bucket.  ka1 and ka2 are equal key objects and hash to 0,  *)
(* which find_bucket treats specially; the other keys share one hash, so   *)
(* that all chains meet.                                                   *)
(***************************************************************************)
EXTENDS Dict, TLC

CONSTANTS ka1, ka2, kb, kc, kd, v1, v2

\* Four different keys: the third chained bucket fills the second block.
WideKeys == {ka1, kb, kc, kd}
\* Three, one of them with an equal twin.
PairKeys == {ka1, ka2, kb, kc}
MCVals == {v1, v2}

MCContentOf == [k \in Keys |-> IF k = ka2 THEN ka1 ELSE k]
MCHashOf == [k \in Keys |-> IF k \in {ka1, ka2} THEN 0 ELSE 2]

\* Nothing distinguishes the two values, nor keys with the same hash.
PairSymmetry == Permutations({v1, v2}) \cup Permutations({kb, kc})
WideSymmetry == Permutations({v1, v2}) \cup Permutations({kb, kc, kd})
AllKeys == PairKeys \cup WideKeys
=============================================================================
