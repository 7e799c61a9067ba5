--------------------------- MODULE FreelistProofs ---------------------------
(***************************************************************************)
(* Proofs about Freelist, for blocks of any size.                          *)
(*                                                                         *)
(* The inductive invariant names the list itself: the cells in the order   *)
(* of their links (Linked).  That a walk from root meets these cells and   *)
(* then NULL is shown by induction along the links, as the absence of a    *)
(* first place where it does not (NoFirst).                                *)
(***************************************************************************)
EXTENDS Freelist, FiniteSetTheorems, FunctionTheorems, SequenceTheorems, TLAPS

\* Induction: a set of natural numbers with no first element is empty.
LEMMA NoFirst ==
    ASSUME NEW S \in SUBSET Nat,
           \A n \in S : \E m \in S : m < n
    PROVE  S = {}
<1>1. ASSUME S # {} PROVE FALSE
  <2>1. PICK x \in S : \A y \in S : ~(<<y, x>> \in OpToRel(<, Nat))
    BY <1>1, WFMin, NatLessThanWellFounded
  <2>2. \A y \in S : ~(y < x)
    BY <2>1 DEF OpToRel
  <2> QED BY <2>2
<1> QED BY <1>1
-----------------------------------------------------------------------------
(* The walk along the links.                                               *)

After(p) == IF p \in Cells THEN next[p] ELSE p

\* A walk of n steps.
IsWalk(w, n) == w = [k \in 0..n |-> IF k = 0 THEN root ELSE After(w[k - 1])]

\* There is a walk of any length,
LEMMA WalksExist == \A n \in Nat : \E w : IsWalk(w, n)
<1> DEFINE S == {n \in Nat : ~(\E w : IsWalk(w, n))}
<1>1. ASSUME NEW n \in S PROVE \E m \in S : m < n
  <2>1. n # 0
    <3>1. IsWalk([k \in 0..0 |-> root], 0)
      BY DEF IsWalk
    <3> QED BY <3>1
  <2> SUFFICES ASSUME n - 1 \notin S PROVE FALSE
    BY <2>1
  <2>2. PICK w : IsWalk(w, n - 1)
    BY <2>1
  <2> DEFINE v == [k \in 0..n |-> IF k = 0 THEN root ELSE After(w[k - 1])]
  <2>3. ASSUME NEW k \in 1..n PROVE v[k - 1] = w[k - 1]
    <3>1. k - 1 \in 0..n /\ k - 1 \in 0..(n - 1)
      OBVIOUS
    <3>2. w[k - 1] = IF k - 1 = 0 THEN root ELSE After(w[(k - 1) - 1])
      BY <2>2, <3>1 DEF IsWalk
    <3> QED BY <3>1, <3>2
  <2>4. v = [k \in 0..n |-> IF k = 0 THEN root ELSE After(v[k - 1])]
    <3>1. ASSUME NEW k \in 0..n PROVE v[k] = IF k = 0 THEN root ELSE After(v[k - 1])
      <4>1. v[k] = IF k = 0 THEN root ELSE After(w[k - 1])
        OBVIOUS
      <4> HIDE DEF v
      <4>2. CASE k = 0
        BY <4>1, <4>2
      <4>3. CASE k # 0
        <5>1. k \in 1..n
          BY <4>3
        <5> QED BY <2>3, <4>1, <4>3, <5>1
      <4> QED BY <4>2, <4>3
    <3> HIDE DEF v
    <3>2. v = [k \in 0..n |-> v[k]]
      BY DEF v
    <3> QED BY <3>1, <3>2
  <2> QED BY <2>4 DEF IsWalk
<1>2. S = {}
  <2> HIDE DEF S
  <2>1. S \in SUBSET Nat
    BY DEF S
  <2> QED BY <1>1, <2>1, NoFirst
<1> QED BY <1>2

\* and so Walk is one.
LEMMA WalkIsWalk == IsWalk(Walk, N + 1)
<1>1. N + 1 \in Nat
  BY FreelistAssumption
<1>2. PICK v : IsWalk(v, N + 1)
  BY <1>1, WalksExist
<1>3. Walk = CHOOSE w : w = [k \in 0..N+1 |-> IF k = 0 THEN root
                               ELSE IF w[k-1] \in Cells THEN next[w[k-1]] ELSE w[k-1]]
  BY DEF Walk
<1> QED BY <1>2, <1>3 DEF IsWalk, After
-----------------------------------------------------------------------------
(* The list.                                                               *)

\* q is the list of the free cells, in the order of the links.
Linked(q) == /\ q \in Seq(Cells)
             /\ \A i, j \in 1..Len(q) : q[i] = q[j] => i = j
             /\ {q[i] : i \in 1..Len(q)} = Cells \ held
             /\ root = IF q = <<>> THEN NULL ELSE q[1]
             /\ \A i \in 1..Len(q) : next[q[i]] = IF i < Len(q) THEN q[i + 1] ELSE NULL

IInv == /\ held \subseteq Cells
        /\ next \in [Cells -> Cells \cup {NULL, Garbage}]
        /\ \E q \in Seq(Cells) : Linked(q)

LEMMA ListStarts == Init => IInv
<1> SUFFICES ASSUME Init PROVE IInv
  OBVIOUS
<1> USE FreelistAssumption DEF Cells
<1> DEFINE q == [i \in 1..N |-> i]
<1>1. q \in Seq(Cells) /\ Len(q) = N /\ \A i \in 1..N : q[i] = i
  OBVIOUS
<1>2. held \subseteq Cells /\ next \in [Cells -> Cells \cup {NULL, Garbage}]
  BY DEF Init, FreelistInit
<1>3. Linked(q)
  <2> HIDE DEF q
  <2>1. \A i, j \in 1..Len(q) : q[i] = q[j] => i = j
    BY <1>1
  <2>2. {q[i] : i \in 1..Len(q)} = Cells \ held
    BY <1>1 DEF Init
  <2>3. root = IF q = <<>> THEN NULL ELSE q[1]
    <3>1. CASE N = 0
      BY <1>1, <3>1, EmptySeq DEF Init, FreelistInit
    <3>2. CASE N # 0
      <4>1. q # <<>> /\ q[1] = 1
        BY <1>1, <3>2
      <4> QED BY <3>2, <4>1 DEF Init, FreelistInit
    <3> QED BY <3>1, <3>2
  <2>4. \A i \in 1..Len(q) : next[q[i]] = IF i < Len(q) THEN q[i + 1] ELSE NULL
    BY <1>1 DEF Init, FreelistInit
  <2> QED BY <1>1, <2>1, <2>2, <2>3, <2>4 DEF Linked
<1> QED BY <1>1, <1>2, <1>3 DEF IInv

\* freelist_pop takes the first cell of the list.
LEMMA PopTakesFirst ==
    ASSUME IInv, freelist_pop
    PROVE  IInv' /\ root \in Cells \ held
<1> USE FreelistAssumption
<1>1. PICK q \in Seq(Cells) : Linked(q)
  BY DEF IInv
<1>2. Len(q) \in Nat /\ Len(q) >= 1 /\ root = q[1] /\ root \in Cells /\ root \notin held
  <2>1. q # <<>>
    BY <1>1 DEF Linked, freelist_pop, freelist_empty
  <2>2. Len(q) \in Nat /\ Len(q) >= 1
    BY <2>1, EmptySeq
  <2>3. 1 \in 1..Len(q)
    BY <2>2
  <2>4. q[1] \in {q[i] : i \in 1..Len(q)}
    BY <2>3
  <2> QED BY <1>1, <2>1, <2>2, <2>4 DEF Linked
<1> DEFINE n == Len(q) - 1
           r == [i \in 1..n |-> q[i + 1]]
<1>3. r \in Seq(Cells) /\ Len(r) = n /\ n \in Nat /\ \A i \in 1..n : r[i] = q[i + 1]
  <2>1. n \in Nat
    BY <1>2
  <2>2. \A i \in 1..n : i + 1 \in 1..Len(q) /\ q[i + 1] \in Cells
    BY <1>2, ElementOfSeq
  <2> QED BY <2>1, <2>2
<1>4. /\ held' = held \cup {root}
      /\ next' \in [Cells -> Cells \cup {NULL, Garbage}]
      /\ \A c \in Cells \ {root} : next'[c] = next[c]
      /\ root' = next[root]
  BY <1>2 DEF IInv, freelist_pop, Cells
<1> HIDE DEF r
<1>5. Linked(r)'
  <2>1. \A i, j \in 1..Len(r) : r[i] = r[j] => i = j
    <3> SUFFICES ASSUME NEW i \in 1..n, NEW j \in 1..n, r[i] = r[j] PROVE i = j
      BY <1>3
    <3>1. q[i + 1] = q[j + 1] /\ i + 1 \in 1..Len(q) /\ j + 1 \in 1..Len(q)
      BY <1>2, <1>3
    <3>2. i + 1 = j + 1
      BY <1>1, <3>1 DEF Linked
    <3> QED BY <3>2
  <2>2. \A i \in 1..n : r[i] # root
    <3> SUFFICES ASSUME NEW i \in 1..n, r[i] = root PROVE FALSE
      OBVIOUS
    <3>1. q[i + 1] = q[1] /\ i + 1 \in 1..Len(q) /\ 1 \in 1..Len(q)
      BY <1>2, <1>3
    <3>2. i + 1 = 1
      BY <1>1, <3>1 DEF Linked
    <3> QED BY <3>2
  <2>3. {r[i] : i \in 1..Len(r)} = Cells \ held'
    <3>1. ASSUME NEW i \in 1..n PROVE r[i] \in Cells \ held'
      <4>1. i + 1 \in 1..Len(q) /\ r[i] = q[i + 1]
        BY <1>2, <1>3
      <4>2. r[i] \in Cells \ held
        BY <1>1, <4>1 DEF Linked
      <4> QED BY <1>4, <2>2, <4>2
    <3>2. ASSUME NEW c \in Cells \ held' PROVE \E i \in 1..n : r[i] = c
      <4>1. PICK j \in 1..Len(q) : q[j] = c
        BY <1>1, <1>4 DEF Linked
      <4>2. j # 1
        BY <1>2, <1>4, <4>1
      <4>3. j - 1 \in 1..n /\ (j - 1) + 1 = j
        BY <1>2, <4>2
      <4>4. r[j - 1] = c
        BY <1>3, <4>1, <4>3
      <4> QED BY <4>3, <4>4
    <3> QED BY <1>3, <3>1, <3>2
  <2>4. root' = IF r = <<>> THEN NULL ELSE r[1]
    <3>1. root' = IF 1 < Len(q) THEN q[2] ELSE NULL
      BY <1>1, <1>2, <1>4 DEF Linked
    <3>2. CASE n = 0
      <4>1. r = <<>>
        BY <1>3, <3>2, EmptySeq
      <4>2. ~(1 < Len(q))
        <5>1. \A a \in Nat : a - 1 = 0 => ~(1 < a)
          OBVIOUS
        <5> QED BY <1>2, <3>2, <5>1, Zenon
      <4> QED BY <3>1, <4>1, <4>2
    <3>3. CASE n # 0
      <4>1. 1 \in 1..n /\ r # <<>>
        BY <1>3, <3>3
      <4>2. r[1] = q[2]
        BY <1>3, <4>1
      <4> QED BY <1>2, <3>1, <3>3, <4>1, <4>2
    <3> QED BY <3>2, <3>3
  <2>5. ASSUME NEW i \in 1..Len(r) PROVE next'[r[i]] = IF i < Len(r) THEN r[i + 1] ELSE NULL
    <3>1. i \in 1..n /\ i + 1 \in 1..Len(q) /\ r[i] = q[i + 1]
      BY <1>2, <1>3
    <3>2. r[i] \in Cells
      BY <1>3, <3>1, ElementOfSeq
    <3>3. next'[r[i]] = next[q[i + 1]]
      BY <1>4, <2>2, <3>1, <3>2
    <3>4. next[q[i + 1]] = IF i + 1 < Len(q) THEN q[(i + 1) + 1] ELSE NULL
      BY <1>1, <3>1 DEF Linked
    <3>5. CASE i < n
      <4>1. i + 1 \in 1..n
        BY <3>1, <3>5
      <4>2. r[i + 1] = q[(i + 1) + 1]
        BY <1>3, <4>1
      <4> QED BY <1>2, <1>3, <3>3, <3>4, <3>5, <4>2
    <3>6. CASE ~(i < n)
      BY <1>2, <1>3, <3>3, <3>4, <3>6
    <3> QED BY <3>5, <3>6
  <2> QED BY <1>3, <2>1, <2>3, <2>4, <2>5 DEF Linked, Cells
<1>6. held' \subseteq Cells
  BY <1>2, <1>4 DEF IInv
<1> QED BY <1>2, <1>3, <1>4, <1>5, <1>6 DEF IInv, Cells

\* freelist_push puts a cell in front of the list.
LEMMA PushPutsFirst ==
    ASSUME IInv, NEW c \in held, next' = [next EXCEPT ![c] = root], root' = c, held' = held \ {c}
    PROVE  IInv'
<1> USE FreelistAssumption
<1>1. PICK q \in Seq(Cells) : Linked(q)
  BY DEF IInv
<1>2. c \in Cells /\ Len(q) \in Nat
  BY LenProperties DEF IInv
<1> DEFINE m == Len(q) + 1
           r == [i \in 1..m |-> IF i = 1 THEN c ELSE q[i - 1]]
<1>3. r \in Seq(Cells) /\ Len(r) = m /\ m \in Nat /\ r[1] = c /\ 1 \in 1..m
      /\ \A i \in 1..m : i # 1 => i - 1 \in 1..Len(q) /\ r[i] = q[i - 1]
  <2>1. m \in Nat
    BY <1>2
  <2>2. \A i \in 1..m : i # 1 => i - 1 \in 1..Len(q)
    BY <1>2
  <2>3. \A i \in 1..m : i # 1 => q[i - 1] \in Cells
    BY <2>2, ElementOfSeq
  <2>4. r \in [1..m -> Cells]
    BY <1>2, <2>3
  <2>5. r \in Seq(Cells) /\ Len(r) = m
    BY <2>1, <2>4
  <2>6. 1 \in 1..m
    BY <1>2
  <2> QED BY <2>1, <2>2, <2>5, <2>6
<1>4. /\ next' \in [Cells -> Cells \cup {NULL, Garbage}]
      /\ next'[c] = root
      /\ \A d \in Cells \ {c} : next'[d] = next[d]
  <2>1. root \in Cells \cup {NULL}
    <3>1. CASE q = <<>>
      BY <1>1, <3>1 DEF Linked
    <3>2. CASE q # <<>>
      <4>1. 1 \in 1..Len(q)
        BY <1>2, <3>2, EmptySeq
      <4> QED BY <1>1, <3>2, <4>1, ElementOfSeq DEF Linked
    <3> QED BY <3>1, <3>2
  <2> QED BY <1>2, <2>1 DEF IInv
<1>5. \A i \in 1..Len(q) : q[i] \in Cells \ held /\ q[i] # c
  BY <1>1 DEF Linked
<1> HIDE DEF r
<1>6. Linked(r)'
  <2>1. ASSUME NEW i \in 1..Len(r), NEW j \in 1..Len(r), r[i] = r[j] PROVE i = j
    <3>1. CASE i = 1 \/ j = 1
      BY <1>3, <1>5, <2>1, <3>1
    <3>2. CASE i # 1 /\ j # 1
      <4>1. q[i - 1] = q[j - 1] /\ i - 1 \in 1..Len(q) /\ j - 1 \in 1..Len(q)
        BY <1>3, <2>1, <3>2
      <4>2. i - 1 = j - 1
        BY <1>1, <4>1 DEF Linked
      <4> QED BY <1>3, <4>2
    <3> QED BY <3>1, <3>2
  <2>2. {r[i] : i \in 1..Len(r)} = Cells \ held'
    <3>1. ASSUME NEW i \in 1..m PROVE r[i] \in Cells \ held'
      BY <1>2, <1>3, <1>5
    <3>2. ASSUME NEW d \in Cells \ held' PROVE \E i \in 1..m : r[i] = d
      <4>1. CASE d = c
        BY <1>3, <4>1
      <4>2. CASE d # c
        <5>1. PICK j \in 1..Len(q) : q[j] = d
          BY <1>1, <4>2 DEF Linked
        <5>2. j + 1 \in 1..m /\ j + 1 # 1 /\ (j + 1) - 1 = j
          BY <1>2
        <5>3. r[j + 1] = d
          BY <1>3, <5>1, <5>2
        <5> QED BY <5>2, <5>3
      <4> QED BY <4>1, <4>2
    <3>3. Len(r) = m
      BY <1>3
    <3> QED BY <3>1, <3>2, <3>3
  <2>3. root' = IF r = <<>> THEN NULL ELSE r[1]
    <3>1. r # <<>>
      BY <1>3
    <3> QED BY <1>3, <3>1
  <2>4. ASSUME NEW i \in 1..Len(r) PROVE next'[r[i]] = IF i < Len(r) THEN r[i + 1] ELSE NULL
    <3>1. CASE i = 1
      <4>1. next'[r[i]] = IF q = <<>> THEN NULL ELSE q[1]
        BY <1>1, <1>3, <1>4, <3>1 DEF Linked
      <4>2. CASE q = <<>>
        <5>1. Len(q) = 0
          BY <4>2, EmptySeq
        <5>2. ~(i < Len(r))
          BY <1>3, <3>1, <5>1
        <5> QED BY <4>1, <4>2, <5>2
      <4>3. CASE q # <<>>
        <5>1. i + 1 \in 1..m /\ i + 1 # 1 /\ (i + 1) - 1 = 1 /\ i < Len(r)
          BY <1>2, <1>3, <3>1, <4>3, EmptySeq
        <5>2. r[i + 1] = q[1]
          BY <1>3, <5>1
        <5> QED BY <4>1, <4>3, <5>1, <5>2
      <4> QED BY <4>2, <4>3
    <3>2. CASE i # 1
      <4>1. i \in 1..m /\ i - 1 \in 1..Len(q) /\ r[i] = q[i - 1]
        BY <1>3, <3>2
      <4>2. next'[r[i]] = IF i - 1 < Len(q) THEN q[(i - 1) + 1] ELSE NULL
        BY <1>1, <1>4, <1>5, <4>1 DEF Linked
      <4>3. CASE i < m
        <5>1. i + 1 \in 1..m /\ i + 1 # 1 /\ (i + 1) - 1 = (i - 1) + 1 /\ i - 1 < Len(q)
          BY <1>2, <4>1, <4>3
        <5>2. r[i + 1] = q[(i - 1) + 1]
          BY <1>3, <5>1
        <5> QED BY <1>3, <4>2, <4>3, <5>1, <5>2
      <4>4. CASE ~(i < m)
        <5>1. ~(i - 1 < Len(q)) /\ ~(i < Len(r))
          BY <1>2, <1>3, <4>1, <4>4
        <5> QED BY <4>2, <5>1
      <4> QED BY <4>3, <4>4
    <3> QED BY <3>1, <3>2
  <2> QED BY <1>3, <2>1, <2>2, <2>3, <2>4 DEF Linked, Cells
<1>7. held' \subseteq Cells
  BY DEF IInv
<1> QED BY <1>3, <1>4, <1>6, <1>7 DEF IInv, Cells

LEMMA ListKept == IInv /\ [Next]_vars => IInv'
<1>1. ASSUME IInv, freelist_pop PROVE IInv'
  BY <1>1, PopTakesFirst
<1>2. ASSUME IInv, freelist_push PROVE IInv'
  BY <1>2, PushPutsFirst DEF freelist_push
<1>3. ASSUME IInv, UNCHANGED vars PROVE IInv'
  BY <1>3 DEF vars, IInv, Linked, Cells
<1> QED BY <1>1, <1>2, <1>3 DEF Next

LEMMA Invariance == Spec => []IInv
  BY ListStarts, ListKept, PTL DEF Spec
-----------------------------------------------------------------------------
(* What the walk meets.                                                    *)

LEMMA WalkMeetsList ==
    ASSUME NEW q \in Seq(Cells), Linked(q)
    PROVE  /\ Len(q) \in Nat /\ Len(q) <= N
           /\ \A k \in 0..(N + 1) : Walk[k] = IF k < Len(q) THEN q[k + 1] ELSE NULL
<1> USE FreelistAssumption
<1>1. Len(q) \in Nat
  BY LenProperties
<1>2. Len(q) <= N
  <2>1. q \in Injection(1..Len(q), 1..N)
    <3>1. q \in [1..Len(q) -> 1..N]
      BY LenProperties DEF Cells
    <3>2. \A i, j \in 1..Len(q) : q[i] = q[j] => i = j
      BY DEF Linked
    <3> QED BY <3>1, <3>2, Fun_IsInj
  <2>2. IsFiniteSet(1..N) /\ Cardinality(1..N) = N /\ Cardinality(1..Len(q)) = Len(q)
    <3>1. ASSUME NEW n \in Nat PROVE IsFiniteSet(1..n) /\ Cardinality(1..n) = n
      <4>1. IsFiniteSet(1..n) /\ Cardinality(1..n) = IF 1 > n THEN 0 ELSE n - 1 + 1
        BY FS_Interval
      <4> QED BY <4>1
    <3> QED BY <1>1, <3>1
  <2>3. Cardinality(1..Len(q)) <= Cardinality(1..N)
    BY <2>1, <2>2, FS_Injection
  <2> QED BY <2>2, <2>3
<1> DEFINE Listed_(k) == Walk[k] = IF k < Len(q) THEN q[k + 1] ELSE NULL
           S == {k \in 0..(N + 1) : ~Listed_(k)}
<1>3. ASSUME NEW k \in S PROVE \E j \in S : j < k
  <2>1. k \in 0..(N + 1) /\ ~Listed_(k)
    OBVIOUS
  <2>2. Walk[k] = IF k = 0 THEN root ELSE After(Walk[k - 1])
    BY <2>1, WalkIsWalk DEF IsWalk
  <2>3. k # 0
    <3> SUFFICES ASSUME k = 0 PROVE Listed_(k)
      BY <2>1
    <3>1. CASE q = <<>>
      BY <2>2, <3>1, EmptySeq DEF Linked
    <3>2. CASE q # <<>>
      <4>1. 0 < Len(q)
        BY <1>1, <3>2, EmptySeq
      <4> QED BY <2>2, <3>2, <4>1 DEF Linked
    <3> QED BY <3>1, <3>2
  <2> SUFFICES ASSUME Listed_(k - 1) PROVE Listed_(k)
    BY <2>1, <2>3
  <2>4. CASE k - 1 < Len(q)
    <3>1. k \in 1..Len(q) /\ Walk[k - 1] = q[k]
      BY <1>1, <2>1, <2>3, <2>4
    <3>2. q[k] \in Cells
      BY <3>1, ElementOfSeq
    <3>3. Walk[k] = next[q[k]]
      BY <2>2, <2>3, <3>1, <3>2 DEF After
    <3> QED BY <3>1, <3>3 DEF Linked
  <2>5. CASE ~(k - 1 < Len(q))
    <3>1. Walk[k - 1] = NULL /\ ~(k < Len(q))
      BY <1>1, <2>1, <2>5
    <3>2. Walk[k] = NULL
      BY <2>2, <2>3, <3>1 DEF After, Cells
    <3> QED BY <3>1, <3>2
  <2> QED BY <2>4, <2>5
<1>4. S = {}
  <2>1. S \in SUBSET Nat
    OBVIOUS
  <2> HIDE DEF S
  <2> QED BY <1>3, <2>1, NoFirst
<1> QED BY <1>1, <1>2, <1>4

LEMMA FreeAreListed == IInv => FreeCellsAreListed
<1> SUFFICES ASSUME IInv PROVE FreeCellsAreListed
  OBVIOUS
<1> USE FreelistAssumption
<1>1. PICK q \in Seq(Cells) : Linked(q)
  BY DEF IInv
<1>2. /\ Len(q) \in Nat /\ Len(q) <= N
      /\ \A k \in 0..(N + 1) : Walk[k] = IF k < Len(q) THEN q[k + 1] ELSE NULL
  BY <1>1, WalkMeetsList
<1>3. Walk[N + 1] = NULL
  <2>1. N + 1 \in 0..(N + 1) /\ ~(N + 1 < Len(q))
    BY <1>2
  <2> QED BY <1>2, <2>1
<1>4. ASSUME NEW k \in 0..N, Walk[k] \in Cells PROVE Walk[k] \in Cells \ held
  <2>1. k \in 0..(N + 1) /\ k < Len(q)
    BY <1>2, <1>4 DEF Cells
  <2>2. k + 1 \in 1..Len(q) /\ Walk[k] = q[k + 1]
    BY <1>2, <2>1
  <2> QED BY <1>1, <2>2 DEF Linked
<1>5. ASSUME NEW c \in Cells \ held PROVE \E k \in 0..N : Walk[k] = c
  <2>1. PICK i \in 1..Len(q) : q[i] = c
    BY <1>1 DEF Linked
  <2>2. i - 1 \in 0..N /\ i - 1 \in 0..(N + 1) /\ i - 1 < Len(q) /\ (i - 1) + 1 = i
    BY <1>2
  <2>3. Walk[i - 1] = c
    BY <1>2, <2>1, <2>2
  <2> QED BY <2>2, <2>3
<1>6. Listed = Cells \ held
  BY <1>4, <1>5 DEF Listed
<1> QED BY <1>3, <1>6 DEF FreeCellsAreListed

\* freelist_len's traversal ends, and meets every cell that is not handed out, once,
\* whatever the users of cells wrote over their links.
THEOREM FreelistIsExact == Spec => []FreeCellsAreListed
  BY Invariance, FreeAreListed, PTL

LEMMA PoolStarts == Init => P!Init
<1> SUFFICES ASSUME Init PROVE P!Init
  OBVIOUS
<1>1. Listed = Cells \ held /\ held = {}
  BY ListStarts, FreeAreListed DEF FreeCellsAreListed, Init
<1> QED BY <1>1 DEF P!Init

LEMMA PoolSteps ==
    IInv /\ FreeCellsAreListed /\ FreeCellsAreListed' /\ [Next]_vars => [P!Next]_<<Listed, held>>
<1> SUFFICES ASSUME IInv, FreeCellsAreListed, FreeCellsAreListed', [Next]_vars
             PROVE  [P!Next]_<<Listed, held>>
  OBVIOUS
<1>1. Listed = Cells \ held /\ Listed' = (Cells \ held)'
  BY DEF FreeCellsAreListed
<1>2. CASE freelist_pop
  <2>1. root \in Cells \ held /\ held' = held \cup {root}
    BY <1>2, PopTakesFirst DEF freelist_pop
  <2>2. P!Take(root)
    BY <1>1, <2>1 DEF P!Take, Cells
  <2> QED BY <2>1, <2>2 DEF P!Next
<1>3. CASE freelist_push
  <2>1. PICK c \in held : held' = held \ {c}
    BY <1>3 DEF freelist_push
  <2>2. P!Give(c) /\ c \in Cells
    BY <1>1, <2>1 DEF P!Give, Cells, IInv
  <2> QED BY <2>2 DEF P!Next
<1>4. CASE UNCHANGED vars
  <2>1. held' = held /\ Cells' = Cells
    BY <1>4 DEF vars, Cells
  <2> QED BY <1>1, <2>1
<1> QED BY <1>2, <1>3, <1>4 DEF Next

\* freelist_pop hands out a cell nobody holds, freelist_push takes one back: the
\* freelist implements the pool that Dict and Intern take their cells from.
THEOREM FreelistIsPool == Spec => PoolSpec
<1>1. Spec => P!Init
  BY PoolStarts DEF Spec
<1>2. Spec => [][P!Next]_<<Listed, held>>
  BY Invariance, FreelistIsExact, PoolSteps, PTL DEF Spec
<1> QED BY <1>1, <1>2 DEF PoolSpec, P!Spec
=============================================================================
