--------------------------- MODULE DictMapProofs ----------------------------
(***************************************************************************)
(* More proofs about Dict: that it counts its references, implements       *)
(* DictMap, grows only when it is full, and is iterated completely.        *)
(*                                                                         *)
(* Every call moves entries around, and adds, overwrites or removes one.   *)
(* What it does to the positions is said once, by a bijection between      *)
(* those of the entries that stay (Moved); that references are counted and *)
(* that the dictionary is a map are consequences of that.                  *)
(***************************************************************************)
EXTENDS DictProofs, FunctionTheorems

K(b) == KeyAt(b[1], b[2])
V(b) == ValAt(b[1], b[2])

\* Before the step, entry f[b] was where entry b is after it; the entries at new were
\* not there before, those at old are no longer there.
Moved(f, new, old) ==
    /\ f \in Bijection(Buckets' \ new, Buckets \ old)
    /\ \A b \in Buckets' \ new : K(b)' = K(f[b]) /\ V(b)' = V(f[b])

LEMMA BucketPairs == \A b : b \in Buckets <=> \E s \in Slots : \E i \in Positions(s) : b = <<s, i>>
  BY DEF Buckets

\* The same for the chain of one slot, when the others are left alone.
Shifted(g, s, new, old) ==
    /\ g \in Bijection(Positions(s)' \ new, Positions(s) \ old)
    /\ \A p \in Positions(s)' \ new : /\ KeyAt(s, p)' = KeyAt(s, g[p])
                                      /\ ValAt(s, p)' = ValAt(s, g[p])
    /\ \A t \in Slots \ {s} :
          /\ Positions(t)' = Positions(t)
          /\ \A p : KeyAt(t, p)' = KeyAt(t, p) /\ ValAt(t, p)' = ValAt(t, p)

LEMMA OneSlotMoves ==
    ASSUME NEW s \in Slots, NEW g, NEW new, NEW old, Shifted(g, s, new, old)
    PROVE  \E f : Moved(f, {s} \X new, {s} \X old)
<1> DEFINE B1 == Buckets' \ ({s} \X new)
           B0 == Buckets \ ({s} \X old)
           f == [b \in B1 |-> IF b[1] = s THEN <<s, g[b[2]]>> ELSE b]
<1>0. \A b : b \in Buckets' <=> \E t \in Slots : \E i \in Positions(t)' : b = <<t, i>>
  BY DEF Buckets, Slots
<1>1. \A b : b \in B1 <=> \/ \E i \in Positions(s)' \ new : b = <<s, i>>
                          \/ \E t \in Slots \ {s} : \E i \in Positions(t) : b = <<t, i>>
  BY <1>0 DEF Shifted
<1>2. \A b : b \in B0 <=> \/ \E i \in Positions(s) \ old : b = <<s, i>>
                          \/ \E t \in Slots \ {s} : \E i \in Positions(t) : b = <<t, i>>
  BY BucketPairs
<1>3. /\ \A p \in Positions(s)' \ new : g[p] \in Positions(s) \ old
      /\ \A p, q \in Positions(s)' \ new : g[p] = g[q] => p = q
      /\ \A r \in Positions(s) \ old : \E p \in Positions(s)' \ new : g[p] = r
  BY Fun_BijectionProperties DEF Shifted
<1> HIDE DEF B1, B0
<1>4. \A b \in B1 : f[b] = IF b[1] = s THEN <<s, g[b[2]]>> ELSE b
  OBVIOUS
<1> HIDE DEF f
<1>5. ASSUME NEW b \in B1
      PROVE  \/ \E i \in Positions(s)' \ new : b = <<s, i>> /\ f[b] = <<s, g[i]>>
             \/ \E t \in Slots \ {s} : \E i \in Positions(t) : b = <<t, i>> /\ f[b] = b
  <2>1. CASE \E i \in Positions(s)' \ new : b = <<s, i>>
    <3>1. PICK i \in Positions(s)' \ new : b = <<s, i>>
      BY <2>1
    <3>2. f[b] = <<s, g[i]>>
      BY <1>4, <3>1
    <3> QED BY <3>1, <3>2
  <2>2. CASE \E t \in Slots \ {s} : \E i \in Positions(t) : b = <<t, i>>
    BY <1>4, <2>2
  <2> QED BY <1>1, <2>1, <2>2
<1>6. \A b \in B1 : f[b] \in B0
  BY <1>2, <1>3, <1>5
<1>7. ASSUME NEW b \in B1, NEW c \in B1, f[b] = f[c] PROVE b = c
  BY <1>3, <1>5, <1>7
<1>8. ASSUME NEW c \in B0 PROVE \E b \in B1 : f[b] = c
  <2>1. CASE \E i \in Positions(s) \ old : c = <<s, i>>
    <3>1. PICK i \in Positions(s) \ old : c = <<s, i>>
      BY <2>1
    <3>2. PICK p \in Positions(s)' \ new : g[p] = i
      BY <1>3, <3>1
    <3>3. <<s, p>> \in B1
      BY <1>1, <3>2
    <3> QED BY <1>4, <3>1, <3>2, <3>3
  <2>2. CASE \E t \in Slots \ {s} : \E i \in Positions(t) : c = <<t, i>>
    BY <1>1, <1>4, <2>2
  <2> QED BY <1>2, <2>1, <2>2
<1>9. f \in Bijection(B1, B0)
  <2>1. f \in [B1 -> B0]
    BY <1>6 DEF f
  <2> QED BY <1>7, <1>8, <2>1, Fun_IsBij
<1>10. ASSUME NEW b \in B1 PROVE K(b)' = K(f[b]) /\ V(b)' = V(f[b])
  <2>1. CASE \E i \in Positions(s)' \ new : b = <<s, i>> /\ f[b] = <<s, g[i]>>
    BY <2>1 DEF Shifted, K, V
  <2>2. CASE \E t \in Slots \ {s} : \E i \in Positions(t) : b = <<t, i>> /\ f[b] = b
    BY <2>2 DEF Shifted, K, V
  <2> QED BY <1>5, <2>1, <2>2
<1> QED BY <1>9, <1>10 DEF Moved, B1, B0
-----------------------------------------------------------------------------
(* What each call moves.                                                   *)

\* Chains and table buckets of other slots stay.
LEMMA OtherSlots ==
    ASSUME NEW s, \A t \in Slots \ {s} : head'[t] = head[t] /\ chain'[t] = chain[t]
    PROVE  \A t \in Slots \ {s} :
              /\ Positions(t)' = Positions(t)
              /\ \A p : KeyAt(t, p)' = KeyAt(t, p) /\ ValAt(t, p)' = ValAt(t, p)
  BY DEF Positions, KeyAt, ValAt, Empty

\* A new entry in an empty table bucket.
LEMMA EmptySlotMoves ==
    ASSUME TypeOK, StructInv, NEW k \in Hashable, NEW v \in Vals, SetEmptySlot(k, v)
    PROVE  /\ Positions(SlotOf(k)) = {} /\ Positions(SlotOf(k))' = {0}
           /\ KeyAt(SlotOf(k), 0)' = k /\ ValAt(SlotOf(k), 0)' = v
           /\ \E g : Shifted(g, SlotOf(k), {0}, {})
<1> PICK s : s = SlotOf(k)
  OBVIOUS
<1>1. s \in Slots /\ Empty(s) /\ chain[s] = <<>> /\ UNCHANGED chain
  BY SlotOfType DEF StructInv, NothingBehindEmptyHead, SetEmptySlot
<1>2. head' = [head EXCEPT ![s] = [key |-> k, val |-> v]]
  BY DEF SetEmptySlot
<1>3. Positions(s)' = {0} /\ KeyAt(s, 0)' = k /\ ValAt(s, 0)' = v
  <2>1. head'[s] = [key |-> k, val |-> v] /\ k # NULL /\ Len(chain'[s]) = 0
    BY <1>1, <1>2, DictAssumption, EmptySeq DEF TypeOK
  <2> QED BY <2>1 DEF Positions, KeyAt, ValAt, Empty
<1>4. Positions(s) = {}
  BY <1>1 DEF Positions
<1>5. \A t \in Slots \ {s} : head'[t] = head[t] /\ chain'[t] = chain[t]
  BY <1>1, <1>2 DEF TypeOK
<1> DEFINE g == [p \in {} |-> p]
<1>6. g \in Bijection({}, {})
  BY Fun_IsBij
<1>7. Shifted(g, s, {0}, {})
  <2>1. Positions(s)' \ {0} = {} /\ Positions(s) \ {} = {}
    BY <1>3, <1>4
  <2> HIDE DEF g
  <2> QED BY <1>5, <1>6, <2>1, OtherSlots DEF Shifted
<1> QED BY <1>3, <1>4, <1>7

\* An overwritten entry.
LEMMA OverwriteMoves ==
    ASSUME TypeOK, NEW k \in Hashable, NEW v \in Vals, NEW s \in Slots, NEW i \in Positions(s),
           Overwrite(s, i, k, v)
    PROVE  /\ Positions(s)' = Positions(s)
           /\ KeyAt(s, i)' = k /\ ValAt(s, i)' = v
           /\ \E g : Shifted(g, s, {i}, {i})
<1>1. chain[s] \in Seq(BucketType) /\ Len(chain[s]) \in Nat
  BY LenProperties DEF TypeOK
<1>2. i \in 0..Len(chain[s]) /\ ~Empty(s)
  BY DEF Positions
<1>3. /\ Positions(s)' = Positions(s)
      /\ KeyAt(s, i)' = k /\ ValAt(s, i)' = v
      /\ \A p \in Positions(s) \ {i} : KeyAt(s, p)' = KeyAt(s, p) /\ ValAt(s, p)' = ValAt(s, p)
      /\ \A t \in Slots \ {s} : head'[t] = head[t] /\ chain'[t] = chain[t]
  <2>1. CASE i = 0
    <3>1. head' = [head EXCEPT ![s] = [key |-> k, val |-> v]] /\ UNCHANGED chain
      BY <2>1 DEF Overwrite
    <3>2. head'[s] = [key |-> k, val |-> v] /\ k # NULL
      BY <3>1, DictAssumption DEF TypeOK
    <3>3. \A t \in Slots \ {s} : head'[t] = head[t]
      BY <3>1 DEF TypeOK
    <3> QED BY <1>2, <2>1, <3>1, <3>2, <3>3 DEF Positions, KeyAt, ValAt, Empty
  <2>2. CASE i # 0
    <3>1. i \in 1..Len(chain[s])
      BY <1>1, <1>2, <2>2
    <3> DEFINE b == [chain[s][i] EXCEPT !.key = k, !.val = v]
    <3>2. chain[s][i] \in BucketType
      BY <1>1, <3>1, ElementOfSeq
    <3>3. b.key = k /\ b.val = v /\ b \in BucketType
      BY <3>2 DEF BucketType
    <3>4. chain' = [chain EXCEPT ![s] = [chain[s] EXCEPT ![i] = b]] /\ UNCHANGED head
      BY <1>1, <2>2 DEF Overwrite, TypeOK
    <3> HIDE DEF b
    <3>5. /\ Len([chain[s] EXCEPT ![i] = b]) = Len(chain[s])
          /\ \A j \in 1..Len(chain[s]) :
                [chain[s] EXCEPT ![i] = b][j] = IF j = i THEN b ELSE chain[s][j]
      BY <1>1, <3>1, <3>3, ExceptSeq
    <3>6. chain'[s] = [chain[s] EXCEPT ![i] = b] /\ \A t \in Slots \ {s} : chain'[t] = chain[t]
      BY <3>4 DEF TypeOK
    <3>7. Positions(s)' = Positions(s)
      BY <3>4, <3>5, <3>6 DEF Positions, Empty
    <3>8. KeyAt(s, i)' = k /\ ValAt(s, i)' = v
      BY <2>2, <3>1, <3>3, <3>5, <3>6 DEF KeyAt, ValAt
    <3>9. ASSUME NEW p \in Positions(s) \ {i}
          PROVE  KeyAt(s, p)' = KeyAt(s, p) /\ ValAt(s, p)' = ValAt(s, p)
      <4>1. p = 0 \/ p \in 1..Len(chain[s])
        BY <1>1 DEF Positions
      <4> QED BY <3>4, <3>5, <3>6, <4>1 DEF KeyAt, ValAt
    <3> QED BY <3>4, <3>6, <3>7, <3>8, <3>9
  <2> QED BY <2>1, <2>2
<1> DEFINE g == [p \in Positions(s) \ {i} |-> p]
<1>4. g \in Bijection(Positions(s) \ {i}, Positions(s) \ {i})
  BY Fun_IsBij
<1>5. Shifted(g, s, {i}, {i})
  <2>1. \A p \in Positions(s) \ {i} : g[p] = p
    OBVIOUS
  <2> HIDE DEF g
  <2> QED BY <1>3, <1>4, <2>1, OtherSlots DEF Shifted
<1> QED BY <1>3, <1>5

\* A new entry right behind the table bucket.
LEMMA InsertMoves ==
    ASSUME TypeOK, NEW k \in Hashable, NEW v \in Vals, NEW s \in Slots, ~Empty(s),
           UNCHANGED head, NEW avail, NEW c, Insert(s, c, k, v, avail)
    PROVE  /\ 1 \in Positions(s)'
           /\ KeyAt(s, 1)' = k /\ ValAt(s, 1)' = v
           /\ \E g : Shifted(g, s, {1}, {})
<1>1. chain[s] \in Seq(BucketType) /\ Len(chain[s]) \in Nat
  BY LenProperties DEF TypeOK
<1> DEFINE b == [cell |-> c, key |-> k, val |-> v]
           n == Len(chain[s])
<1>2. /\ Len(<<b>> \o chain[s]) = n + 1
      /\ \A j \in 1..(n + 1) : (<<b>> \o chain[s])[j] = IF j = 1 THEN b ELSE chain[s][j - 1]
  <2>1. chain[s] \in Seq(BucketType \cup {b})
    BY <1>1, SeqMonotonic
  <2> QED BY <2>1, PrependProperties
<1>3. chain'[s] = <<b>> \o chain[s] /\ \A t \in Slots \ {s} : chain'[t] = chain[t]
  BY DEF Insert, TypeOK
<1>4. Positions(s) = 0..n /\ Positions(s)' = 0..(n + 1)
  BY <1>2, <1>3 DEF Positions, Empty
<1>5. 1 \in Positions(s)' /\ KeyAt(s, 1)' = k /\ ValAt(s, 1)' = v
  BY <1>1, <1>2, <1>3, <1>4 DEF KeyAt, ValAt
<1> DEFINE g == [p \in 0..(n + 1) \ {1} |-> IF p = 0 THEN 0 ELSE p - 1]
<1>6. g \in Bijection(0..(n + 1) \ {1}, 0..n)
  <2>1. \A p \in 0..(n + 1) \ {1} : g[p] \in 0..n
    BY <1>1
  <2>2. \A p, q \in 0..(n + 1) \ {1} : g[p] = g[q] => p = q
    BY <1>1
  <2>3. ASSUME NEW r \in 0..n PROVE \E p \in 0..(n + 1) \ {1} : g[p] = r
    <3>1. CASE r = 0
      <4>1. 0 \in 0..(n + 1) \ {1} /\ g[0] = 0
        BY <1>1
      <4> QED BY <3>1, <4>1
    <3>2. CASE r # 0
      <4>1. r + 1 \in 0..(n + 1) \ {1} /\ r + 1 # 0
        BY <1>1, <3>2
      <4>2. g[r + 1] = r
        BY <4>1
      <4> QED BY <4>1, <4>2
    <3> QED BY <3>1, <3>2
  <2>4. g \in [0..(n + 1) \ {1} -> 0..n]
    BY <2>1
  <2> HIDE DEF g
  <2> QED BY <2>2, <2>3, <2>4, Fun_IsBij
<1>7. ASSUME NEW p \in 0..(n + 1) \ {1}
      PROVE  KeyAt(s, p)' = KeyAt(s, g[p]) /\ ValAt(s, p)' = ValAt(s, g[p])
  <2>1. CASE p = 0
    <3>1. g[p] = 0
      BY <2>1
    <3> QED BY <2>1, <3>1 DEF KeyAt, ValAt
  <2>2. CASE p # 0
    <3>1. p \in 1..(n + 1) /\ p - 1 # 0 /\ g[p] = p - 1
      BY <1>1, <2>2
    <3>2. chain'[s][p] = chain[s][p - 1]
      BY <1>2, <1>3, <3>1
    <3> QED BY <2>2, <3>1, <3>2 DEF KeyAt, ValAt
  <2> QED BY <2>1, <2>2
<1>8. Shifted(g, s, {1}, {})
  <2> HIDE DEF g
  <2>1. 0..n \ {} = 0..n
    OBVIOUS
  <2>2. \A t \in Slots \ {s} : head'[t] = head[t] /\ chain'[t] = chain[t]
    BY <1>3
  <2> QED BY <1>4, <1>6, <1>7, <2>1, <2>2, OtherSlots DEF Shifted
<1> QED BY <1>5, <1>8

\* An entry taken out: those behind it come one position forward, those before it stay.
\* That holds whether it was unlinked, or pulled over, or the last one of its slot.
LEMMA RemoveMoves ==
    ASSUME TypeOK, StructInv, NEW k \in Hashable, Remove(k),
           NEW s, s = SlotOf(k), NEW i, i = First(equal(k))
    PROVE  /\ i \in Positions(s) /\ Dy_Equals(k, KeyAt(s, i))
           /\ \E g : Shifted(g, s, {}, {i})
<1>0. /\ ~Empty(s)
      /\ IF i > 0 THEN Unlink(s, i)
         ELSE IF chain[s] = <<>> THEN Invalidate(s) ELSE PullSecond(s)
  BY DEF Remove
<1>1. s \in Slots /\ chain[s] \in Seq(BucketType) /\ Len(chain[s]) \in Nat
  BY SlotOfType, LenProperties DEF TypeOK
<1>2. i \in equal(k) /\ i \in Positions(s) /\ i \in 0..Len(chain[s])
  BY PositionSets, FirstInSet DEF Remove, Positions
<1> DEFINE n == Len(chain[s])
           from(p) == IF p < i THEN p ELSE p + 1
<1>3. \A t \in Slots \ {s} : head'[t] = head[t] /\ chain'[t] = chain[t]
  BY <1>0, <1>1 DEF Unlink, Invalidate, PullSecond, TypeOK
<1>4. Positions(s) = 0..n
  BY <1>0 DEF Positions
<1>5. /\ Positions(s)' = 0..(n - 1)
      /\ \A p \in 0..(n - 1) : /\ KeyAt(s, p)' = KeyAt(s, from(p))
                               /\ ValAt(s, p)' = ValAt(s, from(p))
  <2>1. CASE i > 0
    <3>1. i \in 1..n
      BY <1>1, <1>2, <2>1
    <3>2. chain'[s] = RemoveAt(chain[s], i) /\ UNCHANGED head
      BY <1>0, <1>1, <2>1 DEF Unlink, TypeOK
    <3>3. /\ Len(chain'[s]) = n - 1
          /\ \A j \in 1..(n - 1) : chain'[s][j] = IF j < i THEN chain[s][j] ELSE chain[s][j + 1]
      <4>1. /\ Len(RemoveAt(chain[s], i)) = Len(chain[s]) - 1
            /\ \A j \in 1..(Len(chain[s]) - 1) :
                 RemoveAt(chain[s], i)[j] = IF j < i THEN chain[s][j] ELSE chain[s][j + 1]
        BY <1>1, <3>1, RemoveAtProperties
      <4> QED BY <3>2, <4>1
    <3>4. Positions(s)' = 0..(n - 1)
      BY <1>0, <3>2, <3>3 DEF Positions, Empty
    <3>5. ASSUME NEW p \in 0..(n - 1)
          PROVE  KeyAt(s, p)' = KeyAt(s, from(p)) /\ ValAt(s, p)' = ValAt(s, from(p))
      <4>1. CASE p = 0
        BY <1>1, <2>1, <3>2, <4>1 DEF KeyAt, ValAt
      <4>2. CASE p # 0
        <5>1. p \in 1..(n - 1) /\ from(p) # 0
          BY <1>1, <4>2
        <5>2. chain'[s][p] = chain[s][from(p)]
          BY <3>3, <5>1
        <5> QED BY <4>2, <5>1, <5>2 DEF KeyAt, ValAt
      <4> QED BY <4>1, <4>2
    <3> QED BY <3>4, <3>5
  <2>2. CASE ~(i > 0) /\ chain[s] = <<>>
    <3>1. head'[s].key = NULL
      BY <1>0, <1>1, <2>2 DEF Invalidate, TypeOK
    <3>2. Positions(s)' = {}
      BY <3>1 DEF Positions, Empty
    <3>3. n = 0
      BY <2>2
    <3>4. 0..(n - 1) = {}
      BY <3>3
    <3> QED BY <3>2, <3>4
  <2>3. CASE ~(i > 0) /\ chain[s] # <<>>
    <3>1. 1 \in 1..n /\ i = 0
      BY <1>1, <1>2, <2>3, EmptySeq
    <3>0. PullSecond(s)
      BY <1>0, <2>3
    <3>2. /\ chain'[s] = RemoveAt(chain[s], 1)
          /\ head'[s].key = chain[s][1].key /\ head'[s].val = chain[s][1].val
      BY <1>1, <3>0 DEF PullSecond, TypeOK
    <3>3. /\ Len(chain'[s]) = n - 1
          /\ \A j \in 1..(n - 1) : chain'[s][j] = chain[s][j + 1]
      <4>1. /\ Len(RemoveAt(chain[s], 1)) = Len(chain[s]) - 1
            /\ \A j \in 1..(Len(chain[s]) - 1) :
                 RemoveAt(chain[s], 1)[j] = IF j < 1 THEN chain[s][j] ELSE chain[s][j + 1]
        BY <1>1, <3>1, RemoveAtProperties
      <4>2. \A j \in 1..(n - 1) : ~(j < 1)
        BY <1>1
      <4> QED BY <3>2, <4>1, <4>2
    <3>4. head'[s].key # NULL
      <4>1. chain[s][1] \in BucketType
        BY <1>1, <3>1, ElementOfSeq
      <4> QED BY <3>2, <4>1, DictAssumption DEF BucketType
    <3>5. Positions(s)' = 0..(n - 1)
      BY <3>3, <3>4 DEF Positions, Empty
    <3>6. ASSUME NEW p \in 0..(n - 1)
          PROVE  KeyAt(s, p)' = KeyAt(s, p + 1) /\ ValAt(s, p)' = ValAt(s, p + 1)
      <4>1. CASE p = 0
        BY <1>1, <3>1, <3>2, <4>1 DEF KeyAt, ValAt
      <4>2. CASE p # 0
        <5>1. p \in 1..(n - 1) /\ p + 1 # 0
          BY <1>1, <4>2
        <5> QED BY <3>3, <4>2, <5>1 DEF KeyAt, ValAt
      <4> QED BY <4>1, <4>2
    <3>7. \A p \in 0..(n - 1) : ~(p < i)
      BY <1>1, <3>1
    <3> QED BY <3>5, <3>6, <3>7
  <2> QED BY <2>1, <2>2, <2>3
<1> DEFINE g == [p \in 0..(n - 1) |-> from(p)]
<1>6. g \in Bijection(0..(n - 1), 0..n \ {i})
  <2>1. \A p \in 0..(n - 1) : g[p] \in 0..n \ {i}
    BY <1>1, <1>2
  <2>2. \A p, q \in 0..(n - 1) : g[p] = g[q] => p = q
    BY <1>1, <1>2
  <2>3. ASSUME NEW r \in 0..n \ {i} PROVE \E p \in 0..(n - 1) : g[p] = r
    <3>1. CASE r < i
      <4>1. r \in 0..(n - 1) /\ g[r] = r
        BY <1>1, <1>2, <3>1
      <4> QED BY <4>1
    <3>2. CASE ~(r < i)
      <4>1. r - 1 \in 0..(n - 1) /\ ~(r - 1 < i) /\ (r - 1) + 1 = r
        BY <1>1, <1>2, <3>2
      <4>2. g[r - 1] = r
        BY <4>1
      <4> QED BY <4>1, <4>2
    <3> QED BY <3>1, <3>2
  <2>4. g \in [0..(n - 1) -> 0..n \ {i}]
    BY <2>1
  <2> HIDE DEF g
  <2> QED BY <2>2, <2>3, <2>4, Fun_IsBij
<1>7. \A p \in 0..(n - 1) : g[p] = from(p)
  OBVIOUS
<1>8. Shifted(g, s, {}, {i})
  <2> HIDE DEF g, from
  <2>1. 0..(n - 1) \ {} = 0..(n - 1)
    OBVIOUS
  <2> QED BY <1>3, <1>4, <1>5, <1>6, <1>7, <2>1, OtherSlots DEF Shifted
<1>9. Dy_Equals(k, KeyAt(s, i))
  BY <1>2 DEF equal
<1> QED BY <1>2, <1>8, <1>9

LEMMA CleanEmpties ==
    ASSUME TypeOK, dict_clean
    PROVE  Buckets' = {}
<1>1. \A t \in Slots : head'[t].key = NULL
  BY DEF dict_clean, TypeOK
<1>2. \A t \in Slots : Positions(t)' = {}
  BY <1>1 DEF Positions, Empty
<1> QED BY <1>2 DEF Buckets, Slots
-----------------------------------------------------------------------------
(* References.                                                             *)

Ind(P) == IF P THEN 1 ELSE 0

KeysOf(o) == {b \in Buckets : K(b) = o}
ValsOf(o) == {b \in Buckets : V(b) = o}

LEMMA OccSplit ==
    ASSUME TypeOK, NEW o
    PROVE  /\ IsFiniteSet(KeysOf(o)) /\ IsFiniteSet(ValsOf(o))
           /\ Cardinality(KeysOf(o)) \in Nat /\ Cardinality(ValsOf(o)) \in Nat
           /\ Occ(o) = Cardinality(KeysOf(o)) + Cardinality(ValsOf(o))
<1>1. IsFiniteSet(KeysOf(o)) /\ IsFiniteSet(ValsOf(o))
  BY BucketsFinite, FS_Subset DEF KeysOf, ValsOf
<1> QED BY <1>1, FS_CardinalityType DEF Occ, KeysOf, ValsOf, K, V

LEMMA OccSplitNext ==
    ASSUME TypeOK', NEW o
    PROVE  /\ IsFiniteSet(KeysOf(o)') /\ IsFiniteSet(ValsOf(o)')
           /\ Cardinality(KeysOf(o)') \in Nat /\ Cardinality(ValsOf(o)') \in Nat
           /\ Occ(o)' = Cardinality(KeysOf(o)') + Cardinality(ValsOf(o)')
<1>1. (TypeOK => /\ IsFiniteSet(KeysOf(o)) /\ IsFiniteSet(ValsOf(o))
                 /\ Cardinality(KeysOf(o)) \in Nat /\ Cardinality(ValsOf(o)) \in Nat
                 /\ Occ(o) = Cardinality(KeysOf(o)) + Cardinality(ValsOf(o)))'
  BY OccSplit, PTL
<1> QED BY <1>1

\* A bijection keeps the number of elements with a property.
LEMMA SameCount ==
    ASSUME NEW A, NEW B, IsFiniteSet(A), NEW f \in Bijection(B, A), NEW S \in SUBSET A
    PROVE  Cardinality({b \in B : f[b] \in S}) = Cardinality(S)
<1> DEFINE T == {b \in B : f[b] \in S}
           g == [b \in T |-> f[b]]
<1>1. /\ \A b, c \in B : f[b] = f[c] => b = c
      /\ \A a \in A : \E b \in B : f[b] = a
  BY Fun_BijectionProperties
<1>2. g \in Bijection(T, S)
  <2>1. g \in [T -> S]
    OBVIOUS
  <2>2. \A b, c \in T : g[b] = g[c] => b = c
    BY <1>1
  <2>3. \A a \in S : \E b \in T : g[b] = a
    BY <1>1
  <2> HIDE DEF T, g
  <2> QED BY <2>1, <2>2, <2>3, Fun_IsBij
<1>3. ExistsBijection(S, T)
  <2> HIDE DEF T, g
  <2> QED BY <1>2, Fun_ExistsBijSymmetric DEF ExistsBijection
<1>4. IsFiniteSet(S)
  BY FS_Subset
<1> HIDE DEF T
<1>5. Cardinality(T) = Cardinality(S)
  BY <1>3, <1>4, FS_Bijection
<1> QED BY <1>5 DEF T

LEMMA MovedCounts ==
    ASSUME TypeOK, NEW f, NEW new, NEW old, Moved(f, new, old), NEW o
    PROVE  /\ Cardinality(KeysOf(o)' \ new) = Cardinality(KeysOf(o) \ old)
           /\ Cardinality(ValsOf(o)' \ new) = Cardinality(ValsOf(o) \ old)
<1> PICK A, B : A = Buckets \ old /\ B = Buckets' \ new
  OBVIOUS
<1>1. IsFiniteSet(A)
  BY BucketsFinite, FS_Subset
<1>2. f \in Bijection(B, A) /\ \A b \in B : f[b] \in A
  BY Fun_BijectionProperties DEF Moved
<1>3. KeysOf(o)' \ new = {b \in B : f[b] \in KeysOf(o) \ old}
  BY <1>2 DEF Moved, KeysOf
<1>4. ValsOf(o)' \ new = {b \in B : f[b] \in ValsOf(o) \ old}
  BY <1>2 DEF Moved, ValsOf
<1>5. KeysOf(o) \ old \subseteq A /\ ValsOf(o) \ old \subseteq A
  BY DEF KeysOf, ValsOf
<1> QED BY <1>1, <1>2, <1>3, <1>4, <1>5, SameCount

LEMMA OneElement ==
    ASSUME NEW S, IsFiniteSet(S), NEW x
    PROVE  Cardinality(S) = Cardinality(S \ {x}) + Ind(x \in S)
<1>1. Cardinality(S) \in Nat
  BY FS_CardinalityType
<1>2. CASE x \in S
  <2>1. Cardinality(S \ {x}) = Cardinality(S) - 1
    BY <1>2, FS_RemoveElement
  <2> QED BY <1>1, <1>2, <2>1 DEF Ind
<1>3. CASE x \notin S
  <2>1. S \ {x} = S
    BY <1>3
  <2>2. Ind(x \in S) = 0
    BY <1>3 DEF Ind
  <2>3. Cardinality(S \ {x}) = Cardinality(S)
    BY <2>1
  <2> QED BY <1>1, <2>2, <2>3
<1> QED BY <1>2, <1>3

\* The three ways in which a call changes the entries.
LEMMA AddCounts ==
    ASSUME TypeOK, TypeOK', NEW f, NEW b, Moved(f, {b}, {}), b \in Buckets', NEW o
    PROVE  Occ(o)' = Occ(o) + Ind(o = K(b)') + Ind(o = V(b)')
<1>1. /\ Cardinality(KeysOf(o)' \ {b}) = Cardinality(KeysOf(o))
      /\ Cardinality(ValsOf(o)' \ {b}) = Cardinality(ValsOf(o))
  <2>1. KeysOf(o) \ {} = KeysOf(o) /\ ValsOf(o) \ {} = ValsOf(o)
    OBVIOUS
  <2> QED BY <2>1, MovedCounts
<1>2. /\ IsFiniteSet(KeysOf(o)') /\ IsFiniteSet(ValsOf(o)')
      /\ Cardinality(KeysOf(o)') \in Nat /\ Cardinality(ValsOf(o)') \in Nat
      /\ Occ(o)' = Cardinality(KeysOf(o)') + Cardinality(ValsOf(o)')
  BY OccSplitNext
<1>3. /\ b \in KeysOf(o)' <=> o = K(b)'
      /\ b \in ValsOf(o)' <=> o = V(b)'
  BY DEF KeysOf, ValsOf
<1>4. /\ Cardinality(KeysOf(o)') = Cardinality(KeysOf(o)) + Ind(o = K(b)')
      /\ Cardinality(ValsOf(o)') = Cardinality(ValsOf(o)) + Ind(o = V(b)')
  <2>1. Cardinality(KeysOf(o)') = Cardinality(KeysOf(o)' \ {b}) + Ind(b \in KeysOf(o)')
    BY <1>2, OneElement
  <2>2. Cardinality(ValsOf(o)') = Cardinality(ValsOf(o)' \ {b}) + Ind(b \in ValsOf(o)')
    BY <1>2, OneElement
  <2> QED BY <1>1, <1>3, <2>1, <2>2
<1> QED BY <1>2, <1>4, OccSplit DEF Ind

LEMMA OverwriteCounts ==
    ASSUME TypeOK, TypeOK', NEW f, NEW b, Moved(f, {b}, {b}), b \in Buckets, b \in Buckets',
           NEW o
    PROVE  Occ(o)' = Occ(o) + Ind(o = K(b)') + Ind(o = V(b)') - Ind(o = K(b)) - Ind(o = V(b))
<1>1. /\ Cardinality(KeysOf(o)' \ {b}) = Cardinality(KeysOf(o) \ {b})
      /\ Cardinality(ValsOf(o)' \ {b}) = Cardinality(ValsOf(o) \ {b})
  BY MovedCounts
<1>2. /\ IsFiniteSet(KeysOf(o)') /\ IsFiniteSet(ValsOf(o)')
      /\ Occ(o)' = Cardinality(KeysOf(o)') + Cardinality(ValsOf(o)')
  BY OccSplitNext
<1>3. /\ IsFiniteSet(KeysOf(o)) /\ IsFiniteSet(ValsOf(o))
      /\ Occ(o) = Cardinality(KeysOf(o)) + Cardinality(ValsOf(o))
  BY OccSplit
<1>4. /\ b \in KeysOf(o)' <=> o = K(b)'
      /\ b \in ValsOf(o)' <=> o = V(b)'
      /\ b \in KeysOf(o) <=> o = K(b)
      /\ b \in ValsOf(o) <=> o = V(b)
  BY DEF KeysOf, ValsOf
<1>5. /\ Cardinality(KeysOf(o)') = Cardinality(KeysOf(o) \ {b}) + Ind(o = K(b)')
      /\ Cardinality(ValsOf(o)') = Cardinality(ValsOf(o) \ {b}) + Ind(o = V(b)')
      /\ Cardinality(KeysOf(o)) = Cardinality(KeysOf(o) \ {b}) + Ind(o = K(b))
      /\ Cardinality(ValsOf(o)) = Cardinality(ValsOf(o) \ {b}) + Ind(o = V(b))
  <2>1. Cardinality(KeysOf(o)') = Cardinality(KeysOf(o)' \ {b}) + Ind(b \in KeysOf(o)')
    BY <1>2, OneElement
  <2>2. Cardinality(ValsOf(o)') = Cardinality(ValsOf(o)' \ {b}) + Ind(b \in ValsOf(o)')
    BY <1>2, OneElement
  <2>3. Cardinality(KeysOf(o)) = Cardinality(KeysOf(o) \ {b}) + Ind(b \in KeysOf(o))
    BY <1>3, OneElement
  <2>4. Cardinality(ValsOf(o)) = Cardinality(ValsOf(o) \ {b}) + Ind(b \in ValsOf(o))
    BY <1>3, OneElement
  <2> QED BY <1>1, <1>4, <2>1, <2>2, <2>3, <2>4
<1>6. /\ Cardinality(KeysOf(o) \ {b}) \in Nat
      /\ Cardinality(ValsOf(o) \ {b}) \in Nat
  BY <1>3, FS_Subset, FS_CardinalityType
<1> QED BY <1>2, <1>3, <1>5, <1>6 DEF Ind

LEMMA RemoveCounts ==
    ASSUME TypeOK, TypeOK', NEW f, NEW b, Moved(f, {}, {b}), b \in Buckets, NEW o
    PROVE  Occ(o)' = Occ(o) - Ind(o = K(b)) - Ind(o = V(b))
<1>1. /\ Cardinality(KeysOf(o)') = Cardinality(KeysOf(o) \ {b})
      /\ Cardinality(ValsOf(o)') = Cardinality(ValsOf(o) \ {b})
  <2>1. KeysOf(o)' \ {} = KeysOf(o)' /\ ValsOf(o)' \ {} = ValsOf(o)'
    OBVIOUS
  <2> QED BY <2>1, MovedCounts
<1>2. /\ Cardinality(KeysOf(o)') \in Nat /\ Cardinality(ValsOf(o)') \in Nat
      /\ Occ(o)' = Cardinality(KeysOf(o)') + Cardinality(ValsOf(o)')
  BY OccSplitNext
<1>3. /\ IsFiniteSet(KeysOf(o)) /\ IsFiniteSet(ValsOf(o))
      /\ Occ(o) = Cardinality(KeysOf(o)) + Cardinality(ValsOf(o))
  BY OccSplit
<1>4. /\ b \in KeysOf(o) <=> o = K(b)
      /\ b \in ValsOf(o) <=> o = V(b)
  BY DEF KeysOf, ValsOf
<1>5. /\ Cardinality(KeysOf(o)) = Cardinality(KeysOf(o)') + Ind(o = K(b))
      /\ Cardinality(ValsOf(o)) = Cardinality(ValsOf(o)') + Ind(o = V(b))
  <2>1. Cardinality(KeysOf(o)) = Cardinality(KeysOf(o) \ {b}) + Ind(b \in KeysOf(o))
    BY <1>3, OneElement
  <2>2. Cardinality(ValsOf(o)) = Cardinality(ValsOf(o) \ {b}) + Ind(b \in ValsOf(o))
    BY <1>3, OneElement
  <2> QED BY <1>1, <1>4, <2>1, <2>2
<1> QED BY <1>2, <1>3, <1>5 DEF Ind

LEMMA PlusAt ==
    ASSUME NEW f \in [Objects -> Int], NEW x \in Objects
    PROVE  /\ Plus(f, x) \in [Objects -> Int]
           /\ \A o \in Objects : Plus(f, x)[o] = f[o] + Ind(o = x)
  BY DEF Plus, Ind

LEMMA MinusAt ==
    ASSUME NEW f \in [Objects -> Int], NEW x \in Objects
    PROVE  /\ Minus(f, x) \in [Objects -> Int]
           /\ \A o \in Objects : Minus(f, x)[o] = f[o] - Ind(o = x)
  BY DEF Minus, Ind

\* References and stale releases as numbers.
LEMMA RefsNumbers ==
    ASSUME TypeOK
    PROVE  /\ refs \in [Objects -> Int]
           /\ over \in [Vals -> Nat]
           /\ \A o \in Objects : Occ(o) \in Nat
<1>1. over \in [Vals -> 0..MaxOver] /\ refs \in [Objects -> Int]
  BY DEF TypeOK
<1>2. \A w \in Vals : over[w] \in Nat
  BY <1>1
<1> QED BY <1>1, <1>2, OccType

LEMMA RefsSetEmpty ==
    ASSUME TypeOK, TypeOK', StructInv, RefsAccounted,
           NEW k \in Hashable, NEW v \in Vals, SetEmptySlot(k, v)
    PROVE  RefsAccounted'
<1> PICK s, b, stale : s = SlotOf(k) /\ b = <<s, 0>> /\ stale = head[s].val
  OBVIOUS
<1>1. s \in Slots /\ k \in Objects /\ v \in Objects
  BY SlotOfType, DictAssumption DEF Objects
<1>2. stale \in Vals \cup {NULL} /\ refs \in [Objects -> Int]
  BY <1>1 DEF TypeOK
<1>3. \E f : Moved(f, {b}, {})
  <2>1. PICK g : Shifted(g, s, {0}, {})
    BY EmptySlotMoves
  <2>2. PICK f : Moved(f, {s} \X {0}, {s} \X {})
    BY <1>1, <2>1, OneSlotMoves
  <2>3. {s} \X {0} = {b} /\ {s} \X {} = {}
    OBVIOUS
  <2> QED BY <2>2, <2>3
<1>4. b \in Buckets' /\ K(b)' = k /\ V(b)' = v
  <2>1. Positions(s)' = {0} /\ KeyAt(s, 0)' = k /\ ValAt(s, 0)' = v
    BY EmptySlotMoves
  <2> QED BY <1>1, <2>1 DEF Buckets, K, V, Slots
<1>5. ASSUME NEW o \in Objects
      PROVE  Occ(o)' = Occ(o) + Ind(o = k) + Ind(o = v) /\ Occ(o) \in Nat
  BY <1>3, <1>4, AddCounts, OccType
<1> DEFINE r1 == Plus(refs, k)
           r2 == Plus(r1, v)
<1>6. r1 \in [Objects -> Int] /\ \A o \in Objects : r1[o] = refs[o] + Ind(o = k)
  BY <1>1, <1>2, PlusAt
<1>7. r2 \in [Objects -> Int] /\ \A o \in Objects : r2[o] = r1[o] + Ind(o = v)
  <2> HIDE DEF r1
  <2> QED BY <1>1, <1>6, PlusAt
<1> HIDE DEF r1
<1>8. CASE stale = NULL
  <2>1. refs' = r2 /\ UNCHANGED over
    BY <1>8 DEF SetEmptySlot, r1
  <2> HIDE DEF r2
  <2>2. over \in [Vals -> Nat] /\ refs \in [Objects -> Int]
    BY RefsNumbers
  <2>3. ASSUME NEW o \in Objects
        PROVE  refs'[o] = Occ(o)' - (IF o \in Vals THEN over'[o] ELSE 0)
    <3>1. refs[o] = Occ(o) - (IF o \in Vals THEN over[o] ELSE 0)
      BY DEF RefsAccounted
    <3>2. refs'[o] = refs[o] + Ind(o = k) + Ind(o = v)
      BY <1>6, <1>7, <2>1
    <3>3. Occ(o)' = Occ(o) + Ind(o = k) + Ind(o = v) /\ Occ(o) \in Nat
      BY <1>5
    <3>4. over' = over
      BY <2>1
    <3> QED BY <2>2, <3>1, <3>2, <3>3, <3>4 DEF Ind
  <2> QED BY <2>3 DEF RefsAccounted
<1>9. CASE stale # NULL
  <2>1. refs' = Minus(r2, stale) /\ over' = Plus(over, stale) /\ stale \in Vals /\ stale \in Objects
    BY <1>2, <1>9 DEF SetEmptySlot, r1, Objects
  <2> HIDE DEF r2
  <2>2. \A o \in Objects : refs'[o] = r2[o] - Ind(o = stale)
    BY <1>7, <2>1, MinusAt
  <2>3. over \in [Vals -> Nat]
    BY RefsNumbers
  <2>4. \A w \in Vals : over'[w] = over[w] + Ind(w = stale)
    BY <2>1, <2>3 DEF Plus, Ind
  <2>5. ASSUME NEW o \in Objects
        PROVE  refs'[o] = Occ(o)' - (IF o \in Vals THEN over'[o] ELSE 0)
    <3>1. refs[o] = Occ(o) - (IF o \in Vals THEN over[o] ELSE 0) /\ refs[o] \in Int
      BY <1>2 DEF RefsAccounted
    <3>2. refs'[o] = refs[o] + Ind(o = k) + Ind(o = v) - Ind(o = stale)
      <4>1. /\ refs'[o] = r2[o] - Ind(o = stale)
            /\ r2[o] = r1[o] + Ind(o = v)
            /\ r1[o] = refs[o] + Ind(o = k)
        BY <1>6, <1>7, <2>2
      <4> QED BY <3>1, <4>1 DEF Ind
    <3>3. Occ(o)' = Occ(o) + Ind(o = k) + Ind(o = v) /\ Occ(o) \in Nat
      BY <1>5
    <3>4. CASE o \in Vals
      <4>1. over'[o] = over[o] + Ind(o = stale) /\ over[o] \in Nat
        BY <2>3, <2>4, <3>4
      <4> QED BY <3>1, <3>2, <3>3, <3>4, <4>1 DEF Ind
    <3>5. CASE o \notin Vals
      <4>1. Ind(o = stale) = 0
        BY <2>1, <3>5 DEF Ind
      <4> QED BY <3>1, <3>2, <3>3, <3>5, <4>1 DEF Ind
    <3> QED BY <3>4, <3>5
  <2> QED BY <2>5 DEF RefsAccounted
<1> QED BY <1>8, <1>9

LEMMA RefsOverwrite ==
    ASSUME TypeOK, TypeOK', RefsAccounted, NEW k \in Hashable, NEW v \in Vals, SetExisting(k, v)
    PROVE  RefsAccounted'
<1> PICK s, i, b : s = SlotOf(k) /\ i = First(matching(k)) /\ b = <<s, i>>
  OBVIOUS
<1>1. s \in Slots /\ k \in Objects /\ v \in Objects /\ i \in Positions(s)
  BY SlotOfType, DictAssumption, PositionSets, FirstInSet DEF Objects, SetExisting
<1>2. Overwrite(s, i, k, v) /\ UNCHANGED over /\ refs \in [Objects -> Int]
  BY DEF SetExisting, TypeOK
<1>3. Positions(s)' = Positions(s) /\ KeyAt(s, i)' = k /\ ValAt(s, i)' = v
  BY <1>1, <1>2, OverwriteMoves
<1>4. \E f : Moved(f, {b}, {b})
  <2>1. PICK g : Shifted(g, s, {i}, {i})
    BY <1>1, <1>2, OverwriteMoves
  <2>2. PICK f : Moved(f, {s} \X {i}, {s} \X {i})
    BY <1>1, <2>1, OneSlotMoves
  <2>3. {s} \X {i} = {b}
    OBVIOUS
  <2> QED BY <2>2, <2>3
<1>5. b \in Buckets /\ b \in Buckets' /\ K(b)' = k /\ V(b)' = v
  BY <1>1, <1>3 DEF Buckets, K, V, Slots
<1>6. PICK kb, vb : kb = K(b) /\ vb = V(b)
  OBVIOUS
<1>7. kb \in Objects /\ vb \in Objects
  <2>1. KeyAt(s, i) \in Hashable /\ ValAt(s, i) \in Vals
    BY <1>1, StoredType
  <2> QED BY <1>6, <2>1, DictAssumption DEF K, V, Objects
<1>8. ASSUME NEW o \in Objects
      PROVE  /\ Occ(o) \in Nat
             /\ Occ(o)' = Occ(o) + Ind(o = k) + Ind(o = v) - Ind(o = kb) - Ind(o = vb)
  BY <1>4, <1>5, <1>6, OverwriteCounts, OccType
<1> DEFINE r1 == Plus(refs, k)
           r2 == Plus(r1, v)
           r3 == Minus(r2, kb)
<1>9. refs' = Minus(r3, vb)
  BY <1>2, <1>6 DEF Overwrite, K, V
<1>10. r1 \in [Objects -> Int] /\ \A o \in Objects : r1[o] = refs[o] + Ind(o = k)
  BY <1>1, <1>2, PlusAt
<1> HIDE DEF r1
<1>11. r2 \in [Objects -> Int] /\ \A o \in Objects : r2[o] = r1[o] + Ind(o = v)
  BY <1>1, <1>10, PlusAt
<1> HIDE DEF r2
<1>12. r3 \in [Objects -> Int] /\ \A o \in Objects : r3[o] = r2[o] - Ind(o = kb)
  BY <1>7, <1>11, MinusAt
<1> HIDE DEF r3
<1>13. \A o \in Objects : refs'[o] = r3[o] - Ind(o = vb)
  BY <1>7, <1>9, <1>12, MinusAt
<1>14. ASSUME NEW o \in Objects
       PROVE  refs'[o] = Occ(o)' - (IF o \in Vals THEN over'[o] ELSE 0)
  <2>1. refs[o] = Occ(o) - (IF o \in Vals THEN over[o] ELSE 0) /\ refs[o] \in Int
    BY <1>2 DEF RefsAccounted
  <2>2. refs'[o] = refs[o] + Ind(o = k) + Ind(o = v) - Ind(o = kb) - Ind(o = vb)
    <3>1. /\ refs'[o] = r3[o] - Ind(o = vb)
          /\ r3[o] = r2[o] - Ind(o = kb)
          /\ r2[o] = r1[o] + Ind(o = v)
          /\ r1[o] = refs[o] + Ind(o = k)
      BY <1>10, <1>11, <1>12, <1>13
    <3> QED BY <2>1, <3>1 DEF Ind
  <2>3. /\ Occ(o) \in Nat
        /\ Occ(o)' = Occ(o) + Ind(o = k) + Ind(o = v) - Ind(o = kb) - Ind(o = vb)
    BY <1>8
  <2>4. over \in [Vals -> Nat] /\ over' = over
    BY <1>2, RefsNumbers
  <2> QED BY <2>1, <2>2, <2>3, <2>4 DEF Ind
<1> QED BY <1>14 DEF RefsAccounted

LEMMA RefsInsert ==
    ASSUME TypeOK, TypeOK', RefsAccounted, NEW k \in Hashable, NEW v \in Vals, NEW s \in Slots,
           ~Empty(s), UNCHANGED <<head, over>>, NEW avail, NEW c, Insert(s, c, k, v, avail)
    PROVE  RefsAccounted'
<1> PICK b : b = <<s, 1>>
  OBVIOUS
<1>1. k \in Objects /\ v \in Objects /\ refs \in [Objects -> Int]
  BY DictAssumption DEF Objects, TypeOK
<1>2. 1 \in Positions(s)' /\ KeyAt(s, 1)' = k /\ ValAt(s, 1)' = v
  BY InsertMoves
<1>3. \E f : Moved(f, {b}, {})
  <2>1. PICK g : Shifted(g, s, {1}, {})
    BY InsertMoves
  <2>2. PICK f : Moved(f, {s} \X {1}, {s} \X {})
    BY <2>1, OneSlotMoves
  <2>3. {s} \X {1} = {b} /\ {s} \X {} = {}
    OBVIOUS
  <2> QED BY <2>2, <2>3
<1>4. b \in Buckets' /\ K(b)' = k /\ V(b)' = v
  BY <1>2 DEF Buckets, K, V, Slots
<1>5. ASSUME NEW o \in Objects
      PROVE  Occ(o)' = Occ(o) + Ind(o = k) + Ind(o = v) /\ Occ(o) \in Nat
  BY <1>3, <1>4, AddCounts, OccType
<1> DEFINE r1 == Plus(refs, k)
<1>6. refs' = Plus(r1, v)
  BY DEF Insert
<1>7. r1 \in [Objects -> Int] /\ \A o \in Objects : r1[o] = refs[o] + Ind(o = k)
  BY <1>1, PlusAt
<1> HIDE DEF r1
<1>8. \A o \in Objects : refs'[o] = r1[o] + Ind(o = v)
  BY <1>1, <1>6, <1>7, PlusAt
<1>9. ASSUME NEW o \in Objects
      PROVE  refs'[o] = Occ(o)' - (IF o \in Vals THEN over'[o] ELSE 0)
  <2>1. refs[o] = Occ(o) - (IF o \in Vals THEN over[o] ELSE 0) /\ refs[o] \in Int
    BY <1>1 DEF RefsAccounted
  <2>2. refs'[o] = r1[o] + Ind(o = v) /\ r1[o] = refs[o] + Ind(o = k)
    BY <1>7, <1>8
  <2>3. Occ(o) \in Nat /\ Occ(o)' = Occ(o) + Ind(o = k) + Ind(o = v)
    BY <1>5
  <2>4. over \in [Vals -> Nat] /\ over' = over
    BY RefsNumbers
  <2> QED BY <2>1, <2>2, <2>3, <2>4 DEF Ind
<1> QED BY <1>9 DEF RefsAccounted

LEMMA RefsRemove ==
    ASSUME TypeOK, TypeOK', StructInv, RefsAccounted, NEW k \in Hashable, Remove(k)
    PROVE  RefsAccounted'
<1> PICK s, i, b : s = SlotOf(k) /\ i = First(equal(k)) /\ b = <<s, i>>
  OBVIOUS
<1>1. s \in Slots /\ refs \in [Objects -> Int] /\ i \in Positions(s)
  BY SlotOfType, RemoveMoves DEF TypeOK
<1>2. \E f : Moved(f, {}, {b})
  <2>1. PICK g : Shifted(g, s, {}, {i})
    BY RemoveMoves
  <2>2. PICK f : Moved(f, {s} \X {}, {s} \X {i})
    BY <1>1, <2>1, OneSlotMoves
  <2>3. {s} \X {i} = {b} /\ {s} \X {} = {}
    OBVIOUS
  <2> QED BY <2>2, <2>3
<1>3. PICK kb, vb : kb = K(b) /\ vb = V(b)
  OBVIOUS
<1>4. b \in Buckets /\ kb \in Objects /\ vb \in Objects
  <2>1. KeyAt(s, i) \in Hashable /\ ValAt(s, i) \in Vals
    BY <1>1, StoredType
  <2> QED BY <1>1, <1>3, <2>1, BucketPairs, DictAssumption DEF K, V, Objects
<1>5. ASSUME NEW o \in Objects
      PROVE  Occ(o)' = Occ(o) - Ind(o = kb) - Ind(o = vb) /\ Occ(o) \in Nat
  BY <1>2, <1>3, <1>4, RemoveCounts, OccType
<1> DEFINE r1 == Minus(refs, kb)
<1>6. refs' = Minus(r1, vb) /\ over' = over
  BY <1>3 DEF Remove, ReleaseBucket, K, V
<1>7. r1 \in [Objects -> Int] /\ \A o \in Objects : r1[o] = refs[o] - Ind(o = kb)
  BY <1>1, <1>4, MinusAt
<1> HIDE DEF r1
<1>8. \A o \in Objects : refs'[o] = r1[o] - Ind(o = vb)
  BY <1>4, <1>6, <1>7, MinusAt
<1>9. ASSUME NEW o \in Objects
      PROVE  refs'[o] = Occ(o)' - (IF o \in Vals THEN over'[o] ELSE 0)
  <2>1. refs[o] = Occ(o) - (IF o \in Vals THEN over[o] ELSE 0) /\ refs[o] \in Int
    BY <1>1 DEF RefsAccounted
  <2>2. refs'[o] = r1[o] - Ind(o = vb) /\ r1[o] = refs[o] - Ind(o = kb)
    BY <1>7, <1>8
  <2>3. Occ(o) \in Nat /\ Occ(o)' = Occ(o) - Ind(o = kb) - Ind(o = vb)
    BY <1>5
  <2>4. over \in [Vals -> Nat] /\ over' = over
    BY <1>6, RefsNumbers
  <2> QED BY <2>1, <2>2, <2>3, <2>4 DEF Ind
<1> QED BY <1>9 DEF RefsAccounted

LEMMA RefsClean ==
    ASSUME TypeOK, TypeOK', RefsAccounted, dict_clean
    PROVE  RefsAccounted'
<1>1. Buckets' = {}
  BY CleanEmpties
<1>2. \A o : Occ(o)' = 0
  <2>1. \A o : KeysOf(o)' = {} /\ ValsOf(o)' = {}
    BY <1>1 DEF KeysOf, ValsOf
  <2> QED BY <2>1, OccSplitNext, FS_EmptySet
<1>3. ASSUME NEW o \in Objects
      PROVE  refs'[o] = Occ(o)' - (IF o \in Vals THEN over'[o] ELSE 0)
  <2>1. refs'[o] = refs[o] - Occ(o) /\ over' = over
    BY DEF dict_clean
  <2>2. refs[o] = Occ(o) - (IF o \in Vals THEN over[o] ELSE 0)
    BY DEF RefsAccounted
  <2>3. Occ(o) \in Nat /\ Occ(o)' = 0 /\ over \in [Vals -> Nat]
    BY <1>2, RefsNumbers
  <2> QED BY <2>1, <2>2, <2>3
<1> QED BY <1>3 DEF RefsAccounted

LEMMA RefsUnchanged ==
    ASSUME RefsAccounted, UNCHANGED <<head, chain, ghost>>
    PROVE  RefsAccounted'
  BY DEF RefsAccounted, ghost, Occ, Buckets, Positions, Empty, KeyAt, ValAt

LEMMA RefsNext ==
    ASSUME TypeOK, TypeOK', StructInv, RefsAccounted, [Next]_vars
    PROVE  RefsAccounted'
<1>1. ASSUME NEW k \in Hashable, NEW v \in Vals, dict_setitem(k, v) PROVE RefsAccounted'
  <2>1. CASE SetNew(k, v)
    <3>1. \E avail, c : Insert(SlotOf(k), c, k, v, avail)
      BY <2>1 DEF SetNew
    <3> QED BY <2>1, <3>1, RefsInsert, SlotOfType DEF SetNew
  <2>2. CASE SetNewFreed(k) \/ SetNewNoMemory(k)
    BY <2>2, RefsUnchanged DEF SetNewFreed, SetNewNoMemory, Fault, mem
  <2> QED BY <1>1, <2>1, <2>2, RefsSetEmpty, RefsOverwrite DEF dict_setitem
<1>2. ASSUME NEW k \in Hashable, find_and_remove_bucket(k) PROVE RefsAccounted'
  BY <1>2, RefsRemove, RefsUnchanged DEF find_and_remove_bucket, RemoveFromEmpty, Fault, mem
<1>3. CASE dict_clean
  BY <1>3, RefsClean
<1>4. CASE CleanFreed \/ DyDict_IterNoMemory \/ UNCHANGED vars
  BY <1>4, RefsUnchanged DEF CleanFreed, DyDict_IterNoMemory, Fault, mem, vars
<1> QED BY <1>1, <1>2, <1>3, <1>4 DEF Next, DyDict_Clear, dict_destroy

\* Whatever is set, overwritten, removed or cleared, the dictionary holds one reference
\* for every place an object is stored in, less the stale ones it gave up: for every set
\* of keys and values, and every number of entries.
THEOREM ReferencesAreAccounted == Spec => []RefsAccounted
<1>1. Init => TypeOK /\ StructInv /\ RefsAccounted
  <2> SUFFICES ASSUME Init PROVE RefsAccounted
    BY InitType, StructInit
  <2>1. TypeOK
    BY InitType
  <2>2. Buckets = {}
    BY DEF Init, dict_init, Buckets, Positions, Empty
  <2>3. \A o : Occ(o) = 0
    <3>1. \A o : KeysOf(o) = {} /\ ValsOf(o) = {}
      BY <2>2 DEF KeysOf, ValsOf
    <3> QED BY <2>1, <3>1, OccSplit, FS_EmptySet
  <2> QED BY <2>3 DEF Init, RefsAccounted
<1>2. TypeOK /\ StructInv /\ RefsAccounted /\ [Next]_vars
      => (TypeOK /\ StructInv /\ RefsAccounted)'
  BY NextType, StructNext, RefsNext
<1> QED BY <1>1, <1>2, PTL DEF Spec
-----------------------------------------------------------------------------
(* Growing.                                                                *)

\* A block is added only when none of the newest block's cells is free; all of them are
\* in chains then, because cells are never lost: for every block size and every history.
THEOREM GrowsWhenFull == Spec => GrowsOnlyWhenFull
<1> DEFINE Grows == blocks' # blocks /\ blocks # <<>> =>
                       \A c \in CellsOf(Newest) : \E s \in Slots : c \in InUse[s]
<1>1. Init => TypeOK /\ StructInv
  BY InitType, StructInit
<1>2. TypeOK /\ StructInv /\ [Next]_vars => (TypeOK /\ StructInv)'
  BY NextType, StructNext
<1>3. TypeOK /\ StructInv /\ [Next]_vars => [Grows]_vars
  <2> SUFFICES ASSUME TypeOK, StructInv, [Next]_vars, blocks' # blocks, blocks # <<>>,
                      NEW c \in CellsOf(Newest)
               PROVE  \E s \in Slots : c \in InUse[s]
    OBVIOUS
  <2>1. PICK k \in Hashable, v \in Vals : SetNew(k, v)
    BY DEF Next, vars, mem, dict_setitem, SetEmptySlot, SetExisting, SetNewFreed, SetNewNoMemory,
           Fault, find_and_remove_bucket, Remove, RemoveFromEmpty, DyDict_Clear, dict_destroy,
           dict_clean, CleanFreed, DyDict_IterNoMemory
  <2>2. NeedsBlock /\ ~freed
    BY <2>1 DEF SetNew
  <2>3. c \in Cells
    <3>1. blocks \in Seq(Nat \ {0})
      BY DEF TypeOK
    <3>2. Newest \in 1..Len(blocks)
      BY <3>1, EmptySeq DEF Newest
    <3> QED BY <3>2 DEF Cells
  <2>4. c \notin free
    BY <2>2 DEF NeedsBlock, CellsOf
  <2>5. c \in UNION {InUse[s] : s \in Slots}
    BY <2>2, <2>3, <2>4 DEF StructInv, CellsConserved
  <2> QED BY <2>5
<1> QED BY <1>1, <1>2, <1>3, PTL DEF Spec, GrowsOnlyWhenFull
-----------------------------------------------------------------------------
(* The dictionary is a map.                                                *)

\* A lookup returns the value stored with an equal key, or Undefined if there is none.
GetsRight ==
    \A k \in Hashable :
        /\ \A b \in Buckets : Dy_Equals(k, K(b)) => dict_get(k) = V(b)
        /\ (\A b \in Buckets : ~Dy_Equals(k, K(b))) => dict_get(k) = Undefined

LEMMA GetsFound ==
    ASSUME HashConsistent, TypeOK, KeysInv
    PROVE  GetsRight
<1> SUFFICES ASSUME NEW k \in Hashable
             PROVE  /\ \A b \in Buckets : Dy_Equals(k, K(b)) => dict_get(k) = V(b)
                    /\ (\A b \in Buckets : ~Dy_Equals(k, K(b))) => dict_get(k) = Undefined
  BY DEF GetsRight
<1> DEFINE stored == {b \in Buckets : Dy_Equals(k, K(b))}
<1>1. stored = {<<SlotOf(k), i>> : i \in find_bucket(k)}
  BY KeysFound DEF EntriesFindable, K
<1>2. \A i, j \in find_bucket(k) : i = j
  BY SlotOfType DEF find_bucket, KeysInv, Dy_Equals
<1>3. ASSUME NEW b \in stored PROVE dict_get(k) = V(b)
  <2>1. PICK i \in find_bucket(k) : b = <<SlotOf(k), i>>
    BY <1>1
  <2>2. find_bucket(k) = {i} /\ i \in Nat
    <3>1. i \in Positions(SlotOf(k))
      BY <2>1 DEF find_bucket
    <3>2. i \in 0..Len(chain[SlotOf(k)])
      BY <3>1 DEF Positions
    <3>3. i \in Nat
      BY <3>2
    <3>4. find_bucket(k) = {i}
      BY <1>2, <2>1
    <3> QED BY <3>3, <3>4
  <2>3. First({i}) = i
    BY <2>2, FirstInSet
  <2> QED BY <2>1, <2>2, <2>3 DEF dict_get, V
<1>4. stored = {} => dict_get(k) = Undefined
  <2>1. stored = {} => find_bucket(k) = {}
    BY <1>1
  <2> QED BY <2>1 DEF dict_get
<1> QED BY <1>3, <1>4

LEMMA GetsFoundNext ==
    ASSUME HashConsistent
    PROVE  TypeOK' /\ KeysInv' => GetsRight'
<1>1. TypeOK /\ KeysInv => GetsRight
  BY GetsFound
<1> QED BY <1>1, PTL

\* A key of each content, and what lookups show.
LEMMA KeyForContent ==
    /\ DOMAIN KeyFor = {ContentOf[k] : k \in Hashable}
    /\ \A d \in DOMAIN KeyFor : KeyFor[d] \in Hashable /\ ContentOf[KeyFor[d]] = d
  BY DEF KeyFor

Shown == [c \in DOMAIN KeyFor |-> dict_get(KeyFor[c])]

LEMMA ShownType ==
    ASSUME TypeOK, GetsRight
    PROVE  \A c \in DOMAIN KeyFor : Shown[c] \in Vals \cup {Undefined}
<1> SUFFICES ASSUME NEW k \in Hashable PROVE dict_get(k) \in Vals \cup {Undefined}
  BY KeyForContent DEF Shown
<1>1. CASE \E b \in Buckets : Dy_Equals(k, K(b))
  <2>1. PICK b \in Buckets : Dy_Equals(k, K(b))
    BY <1>1
  <2>2. PICK s \in Slots : \E i \in Positions(s) : b = <<s, i>>
    BY <2>1, BucketPairs
  <2>3. V(b) \in Vals
    BY <2>2, StoredType DEF V
  <2> QED BY <2>1, <2>3 DEF GetsRight
<1>2. CASE ~\E b \in Buckets : Dy_Equals(k, K(b))
  BY <1>2 DEF GetsRight
<1> QED BY <1>1, <1>2

LEMMA ShownTypeNext ==
    ASSUME TypeOK', GetsRight'
    PROVE  \A c \in DOMAIN KeyFor : Shown'[c] \in Vals \cup {Undefined}
<1>1. (TypeOK /\ GetsRight => \A c \in DOMAIN KeyFor : Shown[c] \in Vals \cup {Undefined})'
  BY ShownType, PTL
<1> QED BY <1>1 DEF KeyFor

\* A step that adds, overwrites or removes entries of k only changes what k shows.
LEMMA ShownUpdate ==
    ASSUME GetsRight, GetsRight', TypeOK', NEW k \in Hashable,
           NEW f, NEW new, NEW old, Moved(f, new, old),
           \A b \in new : Dy_Equals(k, K(b)'), \A c \in old : Dy_Equals(k, K(c))
    PROVE  M!Update(ContentOf[k])
<1>1. ASSUME NEW l \in Hashable, ~Dy_Equals(k, l)
      PROVE  dict_get(l)' = dict_get(l)
  <2>1. /\ \A b \in Buckets' \ new : f[b] \in Buckets \ old
        /\ \A c \in Buckets \ old : \E b \in Buckets' \ new : f[b] = c
    BY Fun_BijectionProperties DEF Moved
  <2>2. \A b \in new : ~Dy_Equals(l, K(b)')
    BY <1>1 DEF Dy_Equals
  <2>3. \A c \in old : ~Dy_Equals(l, K(c))
    BY <1>1 DEF Dy_Equals
  <2>4. /\ \A b \in Buckets' : Dy_Equals(l, K(b)') => dict_get(l)' = V(b)'
        /\ (\A b \in Buckets' : ~Dy_Equals(l, K(b)')) => dict_get(l)' = Undefined
    BY DEF GetsRight, Dy_Equals
  <2>5. CASE \E b \in Buckets' : Dy_Equals(l, K(b)')
    <3>1. PICK b \in Buckets' : Dy_Equals(l, K(b)')
      BY <2>5
    <3>2. b \in Buckets' \ new
      BY <2>2, <3>1
    <3>3. f[b] \in Buckets /\ K(b)' = K(f[b]) /\ V(b)' = V(f[b])
      BY <2>1, <3>2 DEF Moved
    <3>4. dict_get(l) = V(f[b])
      BY <3>1, <3>3 DEF GetsRight
    <3> QED BY <2>4, <3>1, <3>3, <3>4
  <2>6. CASE ~\E b \in Buckets' : Dy_Equals(l, K(b)')
    <3>1. ASSUME NEW c \in Buckets, Dy_Equals(l, K(c)) PROVE FALSE
      <4>1. c \in Buckets \ old
        BY <2>3, <3>1
      <4>2. PICK b \in Buckets' \ new : f[b] = c
        BY <2>1, <4>1
      <4>3. K(b)' = K(c)
        BY <4>2 DEF Moved
      <4> QED BY <2>6, <3>1, <4>2, <4>3
    <3>2. dict_get(l) = Undefined
      BY <3>1 DEF GetsRight
    <3> QED BY <2>4, <2>6, <3>2
  <2> QED BY <2>5, <2>6
<1>2. \A d \in DOMAIN KeyFor \ {ContentOf[k]} : Shown'[d] = Shown[d]
  BY <1>1, KeyForContent DEF Shown, Dy_Equals, KeyFor
<1>3. ContentOf[k] \in DOMAIN KeyFor
  BY KeyForContent
<1>4. Shown'[ContentOf[k]] \in Vals \cup {Undefined}
  BY <1>3, ShownTypeNext
<1>5. DOMAIN Shown' = DOMAIN KeyFor
  BY DEF Shown, KeyFor
<1> QED BY <1>2, <1>4, <1>5 DEF M!Update, Shown, KeyFor

LEMMA ShownNext ==
    ASSUME TypeOK, TypeOK', StructInv, GetsRight, GetsRight', [Next]_vars
    PROVE  [M!Next]_Shown
<1>0. \A k \in Hashable : M!Update(ContentOf[k]) => M!Next
  BY KeyForContent DEF M!Next
<1>1. ASSUME NEW k \in Hashable, NEW v \in Vals, SetEmptySlot(k, v)
      PROVE  M!Next
  <2> PICK s, b : s = SlotOf(k) /\ b = <<s, 0>>
    OBVIOUS
  <2>1. s \in Slots /\ KeyAt(s, 0)' = k
    BY <1>1, SlotOfType, EmptySlotMoves
  <2>2. PICK g : Shifted(g, s, {0}, {})
    BY <1>1, EmptySlotMoves
  <2>3. PICK f : Moved(f, {s} \X {0}, {s} \X {})
    BY <2>1, <2>2, OneSlotMoves
  <2>4. \A c \in {s} \X {0} : Dy_Equals(k, K(c)')
    BY <2>1 DEF Dy_Equals, K
  <2> QED BY <1>0, <2>3, <2>4, ShownUpdate
<1>2. ASSUME NEW k \in Hashable, NEW v \in Vals, SetExisting(k, v)
      PROVE  M!Next
  <2> PICK s, i : s = SlotOf(k) /\ i = First(matching(k))
    OBVIOUS
  <2>1. s \in Slots /\ i \in matching(k) /\ i \in Positions(s)
    BY <1>2, SlotOfType, PositionSets, FirstInSet DEF SetExisting
  <2>2. Overwrite(s, i, k, v)
    BY <1>2 DEF SetExisting
  <2>3. KeyAt(s, i)' = k /\ \E g : Shifted(g, s, {i}, {i})
    BY <2>1, <2>2, OverwriteMoves
  <2>4. PICK f : Moved(f, {s} \X {i}, {s} \X {i})
    BY <2>1, <2>3, OneSlotMoves
  <2>5. \A c \in {s} \X {i} : Dy_Equals(k, K(c)') /\ Dy_Equals(k, K(c))
    BY <2>1, <2>3 DEF Dy_Equals, K, matching
  <2> QED BY <1>0, <2>4, <2>5, ShownUpdate
<1>3. ASSUME NEW k \in Hashable, NEW v \in Vals, SetNew(k, v)
      PROVE  M!Next
  <2> PICK s : s = SlotOf(k)
    OBVIOUS
  <2>1. PICK avail, d : Insert(s, d, k, v, avail)
    BY <1>3 DEF SetNew
  <2>2. s \in Slots /\ ~Empty(s) /\ UNCHANGED head
    BY <1>3, SlotOfType DEF SetNew
  <2>3. KeyAt(s, 1)' = k /\ \E g : Shifted(g, s, {1}, {})
    BY <2>1, <2>2, InsertMoves
  <2>4. PICK f : Moved(f, {s} \X {1}, {s} \X {})
    BY <2>2, <2>3, OneSlotMoves
  <2>5. \A c \in {s} \X {1} : Dy_Equals(k, K(c)')
    BY <2>3 DEF Dy_Equals, K
  <2> QED BY <1>0, <2>4, <2>5, ShownUpdate
<1>4. ASSUME NEW k \in Hashable, Remove(k)
      PROVE  M!Next
  <2> PICK s, i : s = SlotOf(k) /\ i = First(equal(k))
    OBVIOUS
  <2>1. s \in Slots /\ Dy_Equals(k, KeyAt(s, i)) /\ \E g : Shifted(g, s, {}, {i})
    BY <1>4, SlotOfType, RemoveMoves
  <2>2. PICK f : Moved(f, {s} \X {}, {s} \X {i})
    BY <2>1, OneSlotMoves
  <2>3. \A c \in {s} \X {i} : Dy_Equals(k, K(c))
    BY <2>1 DEF K
  <2> QED BY <1>0, <2>2, <2>3, ShownUpdate
<1>5. CASE dict_clean
  <2>1. Buckets' = {}
    BY <1>5, CleanEmpties
  <2>2. \A k \in Hashable : dict_get(k)' = Undefined
    BY <2>1 DEF GetsRight, Dy_Equals
  <2>3. M!Clear
    BY <2>2, KeyForContent DEF M!Clear, KeyFor
  <2> QED BY <2>3 DEF M!Next
<1>6. CASE UNCHANGED <<head, chain>>
  <2>1. \A k : dict_get(k)' = dict_get(k)
    BY <1>6 DEF dict_get, find_bucket, Positions, Empty, KeyAt, ValAt, SlotOf, Dy_Equals
  <2> QED BY <2>1 DEF Shown, KeyFor
<1>7. UNCHANGED vars => UNCHANGED <<head, chain>>
  BY DEF vars, mem
<1>8. \A what : Fault(what) => UNCHANGED <<head, chain>>
  BY DEF Fault, mem
<1> QED BY <1>1, <1>2, <1>3, <1>4, <1>5, <1>6, <1>7, <1>8
        DEF Next, dict_setitem, SetNewFreed, SetNewNoMemory, find_and_remove_bucket, RemoveFromEmpty,
            DyDict_Clear, dict_destroy, CleanFreed, DyDict_IterNoMemory

\* Through chains, blocks, pulled buckets and clearing, lookups show a map from the
\* contents of keys to values, which every call changes for one key or clears: for every
\* set of keys, every hash function that does not tell equal keys apart, and all sizes.
THEOREM DictIsMap ==
    ASSUME HashConsistent
    PROVE  Spec => MapSpec
<1> DEFINE Inv == TypeOK /\ StructInv /\ KeysInv /\ GetsRight
<1>1. Init => Inv
  <2>1. Init => KeysInv
    BY DEF Init, dict_init, KeysInv, Positions, Empty
  <2> QED BY <2>1, InitType, StructInit, GetsFound
<1>2. Inv /\ [Next]_vars => Inv'
  BY NextType, StructNext, KeysNext, GetsFoundNext
<1>3. Inv /\ Inv' /\ [Next]_vars => [M!Next]_([c \in DOMAIN KeyFor |-> dict_get(KeyFor[c])])
  BY ShownNext DEF Shown
<1>4. Init => M!Init
  <2> SUFFICES ASSUME Init PROVE M!Init
    OBVIOUS
  <2>1. Buckets = {}
    BY DEF Init, dict_init, Buckets, Positions, Empty
  <2>2. \A k \in Hashable : dict_get(k) = Undefined
    BY <1>1, <2>1 DEF GetsRight
  <2> QED BY <2>2, KeyForContent DEF M!Init
<1>5. Spec => M!Init /\ [][M!Next]_([c \in DOMAIN KeyFor |-> dict_get(KeyFor[c])])
  BY <1>1, <1>2, <1>3, <1>4, PTL DEF Spec
<1> QED BY <1>5, PTL DEF MapSpec, M!Spec

\* What a lookup finds right after a call that came through.
SeesCalls ==
    /\ \A k \in Hashable, v \in Vals :
          dict_setitem(k, v) /\ fault' = "none" => dict_get(k)' = v
    /\ \A k \in Hashable :
          find_and_remove_bucket(k) /\ fault' = "none" => dict_get(k)' = Undefined

LEMMA SetSeen ==
    ASSUME TypeOK, StructInv, GetsRight', NEW k \in Hashable, NEW v \in Vals,
           dict_setitem(k, v), fault' = "none"
    PROVE  dict_get(k)' = v
<1>0. \A b \in Buckets' : Dy_Equals(k, K(b)') => dict_get(k)' = V(b)'
  BY DEF GetsRight, Dy_Equals
<1> SUFFICES \E b \in Buckets' : K(b)' = k /\ V(b)' = v
  BY <1>0 DEF Dy_Equals
<1> PICK s : s = SlotOf(k)
  OBVIOUS
<1>1. s \in Slots
  BY SlotOfType
<1> SUFFICES \E i \in Positions(s)' : KeyAt(s, i)' = k /\ ValAt(s, i)' = v
  <2>1. ASSUME NEW i \in Positions(s)', KeyAt(s, i)' = k, ValAt(s, i)' = v
        PROVE  <<s, i>> \in Buckets' /\ K(<<s, i>>)' = k /\ V(<<s, i>>)' = v
    BY <1>1, <2>1 DEF Buckets, Slots, K, V
  <2> QED BY <2>1
<1>2. CASE SetEmptySlot(k, v)
  BY <1>2, EmptySlotMoves
<1>3. CASE SetExisting(k, v)
  <2> PICK i : i = First(matching(k))
    OBVIOUS
  <2>1. i \in Positions(s) /\ Overwrite(s, i, k, v)
    BY <1>3, PositionSets, FirstInSet DEF SetExisting
  <2> QED BY <1>1, <2>1, OverwriteMoves
<1>4. CASE SetNew(k, v)
  <2>1. PICK avail, c : Insert(s, c, k, v, avail)
    BY <1>4 DEF SetNew
  <2>2. ~Empty(s) /\ UNCHANGED head
    BY <1>4 DEF SetNew
  <2> QED BY <1>1, <2>1, <2>2, InsertMoves
<1>5. ~SetNewFreed(k) /\ ~SetNewNoMemory(k)
  BY DEF SetNewFreed, SetNewNoMemory, Fault
<1> QED BY <1>2, <1>3, <1>4, <1>5 DEF dict_setitem

\* Equal keys are in one place.
LEMMA SamePlace ==
    ASSUME HashConsistent, TypeOK, KeysInv, NEW k \in Hashable,
           NEW s \in Slots, NEW i \in Positions(s), Dy_Equals(k, KeyAt(s, i)),
           NEW t \in Slots, NEW j \in Positions(t), Dy_Equals(k, KeyAt(t, j))
    PROVE  t = s /\ j = i
<1>1. KeyAt(s, i) \in Hashable /\ KeyAt(t, j) \in Hashable
  BY StoredType
<1>2. HashOf[KeyAt(s, i)] = HashOf[KeyAt(t, j)]
  BY <1>1 DEF HashConsistent, Dy_Equals
<1>3. t = s
  BY <1>2 DEF KeysInv, SlotOf
<1> QED BY <1>3 DEF KeysInv, Dy_Equals

LEMMA RemoveSeen ==
    ASSUME HashConsistent, TypeOK, StructInv, KeysInv, GetsRight', NEW k \in Hashable,
           find_and_remove_bucket(k), fault' = "none"
    PROVE  dict_get(k)' = Undefined
<1>0. (\A b \in Buckets' : ~Dy_Equals(k, K(b)')) => dict_get(k)' = Undefined
  BY DEF GetsRight, Dy_Equals
<1>1. Remove(k)
  BY DEF find_and_remove_bucket, RemoveFromEmpty, Fault
<1> PICK s, i : s = SlotOf(k) /\ i = First(equal(k))
  OBVIOUS
<1>2. s \in Slots /\ i \in Positions(s) /\ Dy_Equals(k, KeyAt(s, i))
  BY <1>1, SlotOfType, RemoveMoves
<1>3. \E g : Shifted(g, s, {}, {i})
  BY <1>1, RemoveMoves
<1>4. PICK f : Moved(f, {s} \X {}, {s} \X {i})
  BY <1>2, <1>3, OneSlotMoves
<1>5. ASSUME NEW t \in Slots, NEW j \in Positions(t), Dy_Equals(k, KeyAt(t, j))
      PROVE  t = s /\ j = i
  BY <1>2, <1>5, SamePlace
<1>6. ASSUME NEW b \in Buckets', Dy_Equals(k, K(b)')
      PROVE  FALSE
  <2>1. f[b] \in Buckets /\ f[b] # <<s, i>> /\ K(b)' = K(f[b])
    <3>1. {s} \X {} = {} /\ {s} \X {i} = {<<s, i>>}
      OBVIOUS
    <3>2. b \in Buckets' \ ({s} \X {})
      BY <3>1
    <3>3. f[b] \in Buckets \ ({s} \X {i})
      BY <1>4, <3>2, Fun_BijectionProperties DEF Moved
    <3> QED BY <1>4, <3>1, <3>2, <3>3 DEF Moved
  <2>2. PICK t \in Slots : \E j \in Positions(t) : f[b] = <<t, j>>
    BY <2>1, BucketPairs
  <2> QED BY <1>5, <1>6, <2>1, <2>2 DEF K
<1> QED BY <1>0, <1>6

\* A set value is the one found, whether its entry was new, overwritten or in a table
\* bucket used again; a removed key is not found, whichever bucket was pulled over it.
THEOREM LookupsSeeCalls ==
    ASSUME HashConsistent
    PROVE  Spec => [][SeesCalls]_vars
<1> DEFINE Inv == TypeOK /\ StructInv /\ KeysInv /\ GetsRight
<1>1. Init => Inv
  <2>1. Init => KeysInv
    BY DEF Init, dict_init, KeysInv, Positions, Empty
  <2> QED BY <2>1, InitType, StructInit, GetsFound
<1>2. Inv /\ [Next]_vars => Inv'
  BY NextType, StructNext, KeysNext, GetsFoundNext
<1>3. Inv /\ Inv' /\ [Next]_vars => [SeesCalls]_vars
  BY SetSeen, RemoveSeen DEF SeesCalls
<1> QED BY <1>1, <1>2, <1>3, PTL DEF Spec
-----------------------------------------------------------------------------
(* Iteration.                                                              *)

\* The null pointer is not a place.
NullIsNoPlace == \A s, i \in Nat : NULL # <<s, i>>

\* The places up to b, in the order of the slots and of the chains, and their number.
UpTo(b) == {c \in Buckets : c[1] < b[1] \/ (c[1] = b[1] /\ c[2] <= b[2])}
Rank(b) == Cardinality(UpTo(b))

LEMMA PlaceType ==
    ASSUME TypeOK
    PROVE  /\ \A s \in Slots : Len(chain[s]) \in Nat
           /\ \A b \in Buckets : /\ b = <<b[1], b[2]>>
                                 /\ b[1] \in Slots /\ b[1] \in Nat /\ ~Empty(b[1])
                                 /\ b[2] \in 0..Len(chain[b[1]])
           /\ \A s \in Slots : \A i \in 0..Len(chain[s]) : ~Empty(s) => <<s, i>> \in Buckets
<1>1. \A s \in Slots : Len(chain[s]) \in Nat
  BY LenProperties DEF TypeOK
<1>2. ASSUME NEW b \in Buckets
      PROVE  /\ b = <<b[1], b[2]>> /\ b[1] \in Slots /\ b[1] \in Nat /\ ~Empty(b[1])
             /\ b[2] \in 0..Len(chain[b[1]])
  <2>1. PICK s \in Slots : \E i \in Positions(s) : b = <<s, i>>
    BY BucketPairs
  <2>2. PICK i \in Positions(s) : b = <<s, i>>
    BY <2>1
  <2>3. ~Empty(s) /\ i \in 0..Len(chain[s])
    BY <2>2 DEF Positions
  <2>4. s \in Nat
    BY DictAssumption DEF Slots
  <2> QED BY <2>2, <2>3, <2>4
<1>3. ASSUME NEW s \in Slots, NEW i \in 0..Len(chain[s]), ~Empty(s)
      PROVE  <<s, i>> \in Buckets
  BY <1>3, BucketPairs DEF Positions
<1> QED BY <1>1, <1>2, <1>3

LEMMA NextSlot ==
    ASSUME TypeOK, NEW t \in Slots \cup {-1}
    PROVE  \/ /\ find_next_table_block(t) = NULL
              /\ \A b \in Buckets : b[1] <= t
           \/ \E s \in Slots : /\ find_next_table_block(t) = <<s, 0>>
                               /\ s > t /\ ~Empty(s)
                               /\ \A b \in Buckets : b[1] <= t \/ s <= b[1]
<1> DEFINE rest == {s \in Slots : s > t /\ ~Empty(s)}
<1>1. Slots \subseteq Nat /\ t \in Int
  BY DictAssumption DEF Slots
<1>2. \A b \in Buckets : b[1] \in Slots /\ (b[1] <= t \/ b[1] \in rest)
  BY <1>1, PlaceType
<1>3. CASE rest = {}
  BY <1>2, <1>3 DEF find_next_table_block
<1>4. CASE rest # {}
  <2>1. rest \in SUBSET Nat
    BY <1>1
  <2>2. find_next_table_block(t) = <<First(rest), 0>>
    BY <1>4 DEF find_next_table_block
  <2> HIDE DEF rest
  <2>3. First(rest) \in rest /\ \A j \in rest : First(rest) <= j
    BY <1>4, <2>1, FirstInSet
  <2> QED BY <1>2, <2>2, <2>3 DEF rest
<1> QED BY <1>3, <1>4

LEMMA IterStarts ==
    ASSUME TypeOK
    PROVE  \/ DyDict_Iter = NULL /\ Buckets = {}
           \/ DyDict_Iter \in Buckets /\ UpTo(DyDict_Iter) = {DyDict_Iter}
<1>1. Slots \subseteq Nat
  BY DictAssumption DEF Slots
<1>2. CASE find_next_table_block(-1) = NULL /\ \A b \in Buckets : b[1] <= -1
  <2>1. Buckets = {}
    BY <1>1, <1>2, PlaceType
  <2> QED BY <1>2, <2>1 DEF DyDict_Iter
<1>3. ASSUME NEW s \in Slots, find_next_table_block(-1) = <<s, 0>>, ~Empty(s),
             \A b \in Buckets : b[1] <= -1 \/ s <= b[1]
      PROVE  DyDict_Iter \in Buckets /\ UpTo(DyDict_Iter) = {DyDict_Iter}
  <2>1. DyDict_Iter = <<s, 0>> /\ <<s, 0>> \in Buckets
    BY <1>1, <1>3, PlaceType DEF DyDict_Iter
  <2>2. ASSUME NEW c \in UpTo(<<s, 0>>) PROVE c = <<s, 0>>
    <3>1. /\ c = <<c[1], c[2]>> /\ c[1] \in Slots
          /\ c[2] \in 0..Len(chain[c[1]]) /\ Len(chain[c[1]]) \in Nat
      BY PlaceType DEF UpTo
    <3>2. s <= c[1] /\ (c[1] < s \/ (c[1] = s /\ c[2] <= 0))
      BY <1>1, <1>3, <3>1 DEF UpTo
    <3>3. c[1] = s /\ c[2] = 0
      BY <1>1, <3>1, <3>2
    <3> QED BY <3>1, <3>3
  <2>3. <<s, 0>> \in UpTo(<<s, 0>>)
    BY <2>1 DEF UpTo
  <2> QED BY <2>1, <2>2, <2>3
<1>4. -1 \in Slots \cup {-1}
  OBVIOUS
<1> QED BY <1>2, <1>3, <1>4, NextSlot

LEMMA IterSteps ==
    ASSUME TypeOK, NEW b \in Buckets
    PROVE  \/ DyDict_IterNext(b) = NULL /\ UpTo(b) = Buckets
           \/ \E c \in Buckets : /\ DyDict_IterNext(b) = c
                                 /\ c \notin UpTo(b) /\ UpTo(c) = UpTo(b) \cup {c}
<1> PICK s, i : s = b[1] /\ i = b[2]
  OBVIOUS
<1>1. /\ b = <<s, i>> /\ s \in Slots /\ s \in Nat /\ ~Empty(s)
      /\ i \in 0..Len(chain[s]) /\ Len(chain[s]) \in Nat
  BY PlaceType
<1>2. \A c \in Buckets : /\ c = <<c[1], c[2]>> /\ c[1] \in Nat /\ c[2] \in Nat
                         /\ c[1] = s => c[2] <= Len(chain[s])
  <2>1. \A c \in Buckets : /\ c = <<c[1], c[2]>> /\ c[1] \in Nat /\ c[1] \in Slots
                           /\ c[2] \in 0..Len(chain[c[1]]) /\ Len(chain[c[1]]) \in Nat
    BY PlaceType
  <2> QED BY <2>1
<1>3. CASE i < Len(chain[s])
  <2> PICK c : c = <<s, i + 1>>
    OBVIOUS
  <2>1. DyDict_IterNext(b) = c
    BY <1>1, <1>3 DEF DyDict_IterNext
  <2>2. c \in Buckets
    <3>1. i + 1 \in 0..Len(chain[s])
      BY <1>1, <1>3
    <3> QED BY <1>1, <3>1, PlaceType
  <2>3. c \notin UpTo(b)
    BY <1>1 DEF UpTo
  <2>4. ASSUME NEW d \in Buckets PROVE d \in UpTo(c) <=> d \in UpTo(b) \/ d = c
    <3>1. d = <<d[1], d[2]>> /\ d[1] \in Nat /\ d[2] \in Nat
      BY <1>2
    <3>2. d[1] = s => (d[2] <= i + 1 <=> d[2] <= i \/ d[2] = i + 1)
      BY <1>1, <3>1
    <3>3. d = c <=> d[1] = s /\ d[2] = i + 1
      BY <3>1
    <3> QED BY <1>1, <3>1, <3>2, <3>3 DEF UpTo
  <2>5. UpTo(c) = UpTo(b) \cup {c}
    BY <2>2, <2>4 DEF UpTo
  <2> QED BY <2>1, <2>2, <2>3, <2>5
<1>4. CASE ~(i < Len(chain[s]))
  <2>1. DyDict_IterNext(b) = find_next_table_block(s) /\ i = Len(chain[s])
    BY <1>1, <1>4 DEF DyDict_IterNext
  <2>2. CASE find_next_table_block(s) = NULL /\ \A c \in Buckets : c[1] <= s
    <3>1. UpTo(b) = Buckets
      BY <1>1, <1>2, <2>1, <2>2 DEF UpTo
    <3> QED BY <2>1, <2>2, <3>1
  <2>3. ASSUME NEW t \in Slots, find_next_table_block(s) = <<t, 0>>, t > s, ~Empty(t),
               \A d \in Buckets : d[1] <= s \/ t <= d[1]
        PROVE  \E c \in Buckets : /\ DyDict_IterNext(b) = c
                                  /\ c \notin UpTo(b) /\ UpTo(c) = UpTo(b) \cup {c}
    <3> PICK c : c = <<t, 0>>
      OBVIOUS
    <3>1. t \in Nat
      BY DictAssumption DEF Slots
    <3>2. c \in Buckets
      BY <2>3, PlaceType
    <3>3. c \notin UpTo(b)
      BY <1>1, <2>3, <3>1 DEF UpTo
    <3>4. ASSUME NEW d \in Buckets PROVE d \in UpTo(c) <=> d \in UpTo(b) \/ d = c
      <4>1. /\ d = <<d[1], d[2]>> /\ d[1] \in Nat /\ d[2] \in Nat
            /\ d[1] = s => d[2] <= i
        BY <1>2, <2>1
      <4>2. d \in UpTo(b) <=> d[1] <= s
        BY <1>1, <4>1 DEF UpTo
      <4>3. d \in UpTo(c) <=> d[1] <= s \/ (d[1] = t /\ d[2] = 0)
        BY <1>1, <2>3, <3>1, <4>1 DEF UpTo
      <4> QED BY <4>1, <4>2, <4>3
    <3>5. UpTo(c) = UpTo(b) \cup {c}
      BY <3>2, <3>4 DEF UpTo
    <3> QED BY <2>1, <2>3, <3>2, <3>3, <3>5
  <2> QED BY <1>1, <2>2, <2>3, NextSlot
<1> QED BY <1>3, <1>4

\* The places are numbered by their ranks.
LEMMA Ranks ==
    ASSUME TypeOK
    PROVE  /\ Cardinality(Buckets) \in Nat
           /\ \A b \in Buckets : Rank(b) \in 1..Cardinality(Buckets)
           /\ \A b, c \in Buckets : Rank(b) = Rank(c) => b = c
           /\ \A i \in 1..Cardinality(Buckets) : \E b \in Buckets : Rank(b) = i
<1> PICK n : n = Cardinality(Buckets)
  OBVIOUS
<1>1. IsFiniteSet(Buckets) /\ n \in Nat
  BY BucketsFinite, FS_CardinalityType
<1>2. \A c \in Buckets : c = <<c[1], c[2]>> /\ c[1] \in Nat /\ c[2] \in Nat
  <2>1. \A c \in Buckets : /\ c = <<c[1], c[2]>> /\ c[1] \in Nat /\ c[1] \in Slots
                           /\ c[2] \in 0..Len(chain[c[1]]) /\ Len(chain[c[1]]) \in Nat
    BY PlaceType
  <2> QED BY <2>1
<1>3. ASSUME NEW b \in Buckets
      PROVE  b \in UpTo(b) /\ UpTo(b) \subseteq Buckets /\ IsFiniteSet(UpTo(b)) /\ Rank(b) \in 1..n
  <2>1. b \in UpTo(b) /\ UpTo(b) \subseteq Buckets
    BY <1>2 DEF UpTo
  <2>2. IsFiniteSet(UpTo(b)) /\ Rank(b) <= n
    BY <1>1, <2>1, FS_Subset DEF Rank
  <2>3. Rank(b) \in Nat /\ Rank(b) # 0
    BY <2>1, <2>2, FS_CardinalityType, FS_EmptySet DEF Rank
  <2> QED BY <1>1, <2>1, <2>2, <2>3
<1>4. ASSUME NEW b \in Buckets, NEW c \in Buckets, Rank(b) = Rank(c)
      PROVE  b = c
  <2>1. UpTo(b) \subseteq UpTo(c) \/ UpTo(c) \subseteq UpTo(b)
    BY <1>2 DEF UpTo
  <2>2. UpTo(b) = UpTo(c)
    BY <1>3, <1>4, <2>1, FS_Subset DEF Rank
  <2>3. b \in UpTo(c) /\ c \in UpTo(b)
    BY <1>3, <2>2
  <2>4. b[1] = c[1] /\ b[2] = c[2]
    BY <1>2, <2>3 DEF UpTo
  <2> QED BY <1>2, <2>4
<1> DEFINE r == [b \in Buckets |-> Rank(b)]
<1>5. r \in Injection(Buckets, 1..n)
  <2>1. r \in [Buckets -> 1..n]
    BY <1>3
  <2>2. \A b, c \in Buckets : r[b] = r[c] => b = c
    BY <1>4
  <2> HIDE DEF r
  <2> QED BY <2>1, <2>2, Fun_IsInj
<1>6. r \in Surjection(Buckets, 1..n)
  <2>1. \A m \in Nat : IsFiniteSet(1..m) /\ Cardinality(1..m) = m
    <3> SUFFICES ASSUME NEW m \in Nat PROVE IsFiniteSet(1..m) /\ Cardinality(1..m) = m
      OBVIOUS
    <3>1. /\ IsFiniteSet(1..m)
          /\ Cardinality(1..m) = IF 1 > m THEN 0 ELSE m - 1 + 1
      BY FS_Interval
    <3> QED BY <3>1
  <2> HIDE DEF r
  <2>2. IsFiniteSet(1..n) /\ Cardinality(Buckets) = Cardinality(1..n)
    BY <1>1, <2>1
  <2> QED BY <1>5, <2>2, FS_Injection
<1>7. \A i \in 1..n : \E b \in Buckets : Rank(b) = i
  BY <1>6 DEF Surjection
<1> QED BY <1>1, <1>3, <1>4, <1>7

\* The iterator's n-th place is the place of rank n, and NULL comes after the last.
LEMMA VisitsInOrder ==
    ASSUME NullIsNoPlace, TypeOK, NEW n \in Nat, n = Cardinality(Buckets)
    PROVE  /\ \A i \in 1..n : Visits(n + 1)[i] \in Buckets /\ Rank(Visits(n + 1)[i]) = i
           /\ Visits(n + 1)[n + 1] = NULL
<1> DEFINE IsVisit(f) == f = [i \in 1..(n + 1) |->
                                 IF i = 1 THEN DyDict_Iter
                                 ELSE IF f[i - 1] = NULL THEN NULL ELSE DyDict_IterNext(f[i - 1])]
           v == [i \in 1..(n + 1) |->
                    IF i <= n THEN CHOOSE b \in Buckets : Rank(b) = i ELSE NULL]
           w == Visits(n + 1)
<1>1. \A b \in Buckets : b # NULL
  <2>1. \A c \in Buckets : c = <<c[1], c[2]>> /\ c[1] \in Nat /\ c[2] \in Nat
    <3>1. \A c \in Buckets : /\ c = <<c[1], c[2]>> /\ c[1] \in Nat /\ c[1] \in Slots
                             /\ c[2] \in 0..Len(chain[c[1]]) /\ Len(chain[c[1]]) \in Nat
      BY PlaceType
    <3> QED BY <3>1
  <2> QED BY <2>1 DEF NullIsNoPlace
<1>2. /\ \A i \in 1..n : v[i] \in Buckets /\ Rank(v[i]) = i
      /\ v[n + 1] = NULL
  <2>1. \A i \in 1..n : \E b \in Buckets : Rank(b) = i
    BY Ranks
  <2>2. \A i \in 1..n : v[i] = CHOOSE b \in Buckets : Rank(b) = i
    OBVIOUS
  <2>3. v[n + 1] = NULL
    OBVIOUS
  <2> HIDE DEF v
  <2> QED BY <2>1, <2>2, <2>3
<1>3. \A b \in Buckets : Rank(b) \in 1..n
  BY Ranks
<1>4. \A b, c \in Buckets : Rank(b) = Rank(c) => b = c
  BY Ranks
<1>5. v[1] = DyDict_Iter
  <2> HIDE DEF v
  <2>1. CASE DyDict_Iter = NULL /\ Buckets = {}
    <3>1. n = 0
      BY <2>1, FS_EmptySet
    <3> QED BY <1>2, <2>1, <3>1
  <2>2. CASE DyDict_Iter \in Buckets /\ UpTo(DyDict_Iter) = {DyDict_Iter}
    <3>1. Rank(DyDict_Iter) = 1
      BY <2>2, FS_Singleton DEF Rank
    <3>2. 1 \in 1..n
      BY <1>3, <2>2, <3>1
    <3> QED BY <1>2, <1>4, <2>2, <3>1, <3>2
  <2> QED BY <2>1, <2>2, IterStarts
<1>6. ASSUME NEW i \in 1..(n + 1), i # 1
      PROVE  v[i] = IF v[i - 1] = NULL THEN NULL ELSE DyDict_IterNext(v[i - 1])
  <2> HIDE DEF v
  <2> PICK b : b = v[i - 1]
    OBVIOUS
  <2>1. i - 1 \in 1..n /\ b \in Buckets /\ Rank(b) = i - 1 /\ b # NULL
    BY <1>1, <1>2, <1>6
  <2>2. CASE DyDict_IterNext(b) = NULL /\ UpTo(b) = Buckets
    <3>1. i = n + 1
      BY <2>1, <2>2 DEF Rank
    <3> QED BY <1>2, <2>1, <2>2, <3>1
  <2>3. ASSUME NEW c \in Buckets, DyDict_IterNext(b) = c,
               c \notin UpTo(b), UpTo(c) = UpTo(b) \cup {c}
        PROVE  v[i] = c
    <3>1. IsFiniteSet(UpTo(b))
      BY BucketsFinite, FS_Subset DEF UpTo
    <3>2. Rank(c) = Rank(b) + 1
      <4>1. Cardinality(UpTo(b) \cup {c}) = Cardinality(UpTo(b)) + 1
        BY <2>3, <3>1, FS_AddElement
      <4> QED BY <2>3, <4>1 DEF Rank
    <3>3. Rank(c) = i
      BY <2>1, <3>2
    <3>4. i \in 1..n
      BY <1>3, <3>3
    <3> QED BY <1>2, <1>4, <3>3, <3>4
  <2> QED BY <2>1, <2>2, <2>3, IterSteps
<1>7. IsVisit(v)
  <2>1. \A i \in 1..(n + 1) :
           v[i] = IF i = 1 THEN DyDict_Iter
                  ELSE IF v[i - 1] = NULL THEN NULL ELSE DyDict_IterNext(v[i - 1])
    <3> HIDE DEF v
    <3> QED BY <1>5, <1>6
  <2>2. v = [i \in 1..(n + 1) |-> v[i]]
    OBVIOUS
  <2> HIDE DEF v
  <2> QED BY <2>1, <2>2
<1>8. IsVisit(w)
  <2>1. w = CHOOSE f : IsVisit(f)
    BY DEF Visits
  <2> HIDE DEF v, w, IsVisit
  <2> QED BY <1>7, <2>1
<1> DEFINE Off == {i \in 1..(n + 1) : w[i] # v[i]}
<1>9. Off = {}
  <2> HIDE DEF v, w
  <2> SUFFICES ASSUME Off # {} PROVE FALSE
    OBVIOUS
  <2>0. Off \in SUBSET Nat
    OBVIOUS
  <2>1. First(Off) \in Off /\ \A j \in Off : First(Off) <= j
    <3> HIDE DEF Off
    <3> QED BY <2>0, FirstInSet
  <2> PICK i \in Off : \A j \in Off : i <= j
    BY <2>1
  <2>2. w[i] = IF i = 1 THEN DyDict_Iter
               ELSE IF w[i - 1] = NULL THEN NULL ELSE DyDict_IterNext(w[i - 1])
    BY <1>8
  <2>3. CASE i = 1
    BY <1>5, <2>2, <2>3
  <2>4. CASE i # 1
    <3>1. i - 1 \in 1..(n + 1) /\ i - 1 \notin Off
      BY <2>4
    <3> QED BY <1>6, <2>2, <2>4, <3>1
  <2> QED BY <2>3, <2>4
<1>10. \A i \in 1..(n + 1) : w[i] = v[i]
  BY <1>9
<1> HIDE DEF v, w
<1>11. /\ \A i \in 1..n : w[i] \in Buckets /\ Rank(w[i]) = i
       /\ w[n + 1] = NULL
  BY <1>2, <1>10
<1> QED BY <1>11 DEF w

\* An iterator comes to every entry once and then to the end, whatever was inserted,
\* pulled over, removed or cleared before: for every table size and length of chain.
THEOREM IterationIsComplete ==
    ASSUME NullIsNoPlace
    PROVE  Spec => []IteratesOnce
<1>1. TypeOK /\ StructInv => IteratesOnce
  <2> SUFFICES ASSUME TypeOK, StructInv PROVE IteratesOnce
    OBVIOUS
  <2> DEFINE stored == UNION {{s} \X ((IF Empty(s) THEN {} ELSE {0}) \cup 1..Len(chain[s]))
                              : s \in Slots}
  <2>1. \A s \in Slots : (IF Empty(s) THEN {} ELSE {0}) \cup 1..Len(chain[s]) = Positions(s)
    <3> SUFFICES ASSUME NEW s \in Slots
                 PROVE  (IF Empty(s) THEN {} ELSE {0}) \cup 1..Len(chain[s]) = Positions(s)
      OBVIOUS
    <3>1. CASE Empty(s)
      <4>1. Len(chain[s]) = 0
        BY <3>1, EmptySeq DEF StructInv, NothingBehindEmptyHead
      <4>2. 1..Len(chain[s]) = {}
        BY <4>1
      <4> QED BY <3>1, <4>2 DEF Positions
    <3>2. CASE ~Empty(s)
      <4>1. \A m \in Nat : {0} \cup 1..m = 0..m
        OBVIOUS
      <4> QED BY <3>2, <4>1, PlaceType DEF Positions
    <3> QED BY <3>1, <3>2
  <2>2. stored = Buckets
    BY <2>1 DEF Buckets
  <2> HIDE DEF stored
  <2> PICK n : n = Cardinality(stored)
    OBVIOUS
  <2> DEFINE w == Visits(n + 1)
  <2>3. n \in Nat /\ n = Cardinality(Buckets)
    BY <2>2, Ranks
  <2>4. /\ \A i \in 1..n : w[i] \in Buckets /\ Rank(w[i]) = i
        /\ w[n + 1] = NULL
    BY <2>3, VisitsInOrder
  <2> HIDE DEF w
  <2>5. {w[i] : i \in 1..n} = Buckets
    <3>1. ASSUME NEW b \in Buckets PROVE \E i \in 1..n : w[i] = b
      <4>1. Rank(b) \in 1..n
        BY <2>3, Ranks
      <4> QED BY <2>4, <4>1, Ranks
    <3> QED BY <2>4, <3>1
  <2>6. /\ {Visits(Cardinality(stored) + 1)[i] : i \in 1..Cardinality(stored)} = stored
        /\ Visits(Cardinality(stored) + 1)[Cardinality(stored) + 1] = NULL
    BY <2>2, <2>4, <2>5 DEF w
  <2> QED BY <2>6 DEF IteratesOnce, stored
<1>2. Init => TypeOK /\ StructInv
  BY InitType, StructInit
<1>3. TypeOK /\ StructInv /\ [Next]_vars => (TypeOK /\ StructInv)'
  BY NextType, StructNext
<1> QED BY <1>1, <1>2, <1>3, PTL DEF Spec
=============================================================================
