----------------------------- MODULE DictProofs -----------------------------
(***************************************************************************)
(* Proofs about Dict for all keys, values, hashes and sizes.               *)
(***************************************************************************)
EXTENDS Dict, FiniteSetTheorems, SequenceTheorems, TLAPS

\* Every non-empty set of naturals has a first element.
LEMMA FirstInSet ==
    ASSUME NEW S \in SUBSET Nat, S # {}
    PROVE  First(S) \in S /\ \A j \in S : First(S) <= j
<1>1. PICK x \in S : \A y \in S : ~(<<y, x>> \in OpToRel(<, Nat))
  BY WFMin, NatLessThanWellFounded
<1>2. \A y \in S : ~(y < x)
  BY <1>1 DEF OpToRel
<1>3. \A y \in S : x <= y
  BY <1>2
<1>. QED BY <1>3 DEF First

\* Removing one element of a sequence leaves a sequence one shorter.
LEMMA RemoveAtProperties ==
    ASSUME NEW S, NEW c \in Seq(S), NEW i \in 1..Len(c)
    PROVE  /\ RemoveAt(c, i) \in Seq(S)
           /\ Len(RemoveAt(c, i)) = Len(c) - 1
           /\ \A j \in 1..(Len(c) - 1) :
                RemoveAt(c, i)[j] = IF j < i THEN c[j] ELSE c[j + 1]
<1>1. Len(c) \in Nat /\ Len(c) >= 1
  OBVIOUS
<1>2. ASSUME NEW j \in 1..(Len(c) - 1) PROVE c[j] \in S /\ c[j + 1] \in S
  <2>1. j \in 1..Len(c) /\ j + 1 \in 1..Len(c)
    BY <1>1
  <2>. QED BY <2>1, ElementOfSeq
<1>. DEFINE r == [j \in 1..(Len(c) - 1) |-> IF j < i THEN c[j] ELSE c[j + 1]]
<1>3. r \in [1..(Len(c) - 1) -> S]
  BY <1>2
<1>4. r \in Seq(S)
  BY <1>1, <1>3
<1>5. Len(r) = Len(c) - 1
  BY <1>1, <1>4
<1>. QED BY <1>4, <1>5 DEF RemoveAt

\* Putting an element in front shifts the rest by one.
LEMMA PrependProperties ==
    ASSUME NEW S, NEW c \in Seq(S), NEW e \in S
    PROVE  /\ <<e>> \o c \in Seq(S)
           /\ Len(<<e>> \o c) = Len(c) + 1
           /\ \A j \in 1..(Len(c) + 1) :
                (<<e>> \o c)[j] = IF j = 1 THEN e ELSE c[j - 1]
OBVIOUS

LEMMA SlotOfType ==
    ASSUME NEW k \in Hashable
    PROVE  SlotOf(k) \in Slots
BY DictAssumption DEF SlotOf, Slots

LEMMA RefsType ==
    ASSUME NEW f \in [Objects -> Int], NEW o \in Objects
    PROVE  Plus(f, o) \in [Objects -> Int] /\ Minus(f, o) \in [Objects -> Int]
BY DEF Plus, Minus

\* matching and equal are sets of positions: of naturals.
LEMMA PositionSets ==
    ASSUME TypeOK, NEW k \in Hashable
    PROVE  /\ matching(k) \in SUBSET Positions(SlotOf(k))
           /\ equal(k) \in SUBSET Positions(SlotOf(k))
           /\ Positions(SlotOf(k)) \in SUBSET (0..Len(chain[SlotOf(k)]))
           /\ Len(chain[SlotOf(k)]) \in Nat
<1>1. SlotOf(k) \in Slots
  BY SlotOfType
<1>2. chain[SlotOf(k)] \in Seq(BucketType)
  BY <1>1 DEF TypeOK
<1>3. Len(chain[SlotOf(k)]) \in Nat
  BY <1>2, LenProperties
<1>4. Positions(SlotOf(k)) \in SUBSET (0..Len(chain[SlotOf(k)]))
  BY DEF Positions
<1>. QED BY <1>3, <1>4 DEF matching, equal

\* What is stored at a position of a chain.
LEMMA StoredType ==
    ASSUME TypeOK, NEW s \in Slots, NEW i \in Positions(s)
    PROVE  KeyAt(s, i) \in Hashable /\ ValAt(s, i) \in Vals
<1>1. CASE i = 0
  <2>1. ~Empty(s)
    BY DEF Positions
  <2>2. head[s] \in [key : Hashable \cup {NULL}, val : Vals \cup {NULL}]
    BY DEF TypeOK
  <2>3. head[s].val # NULL
    BY <2>1 DEF TypeOK
  <2>. QED BY <1>1, <2>1, <2>2, <2>3 DEF Empty, KeyAt, ValAt
<1>2. CASE i # 0
  <2>1. chain[s] \in Seq(BucketType)
    BY DEF TypeOK
  <2>2. i \in 1..Len(chain[s])
    BY <1>2, <2>1, LenProperties DEF Positions
  <2>3. chain[s][i] \in BucketType
    BY <2>1, <2>2, ElementOfSeq
  <2>. QED BY <1>2, <2>3 DEF KeyAt, ValAt, BucketType
<1>. QED BY <1>1, <1>2
-----------------------------------------------------------------------------
(* The type invariant.                                                     *)

LEMMA InitType == Init => TypeOK
<1>. SUFFICES ASSUME Init PROVE TypeOK
  OBVIOUS
<1>. USE DictAssumption DEF Init, dict_init
<1>1. chain \in [Slots -> Seq(BucketType)]
  BY EmptySeq
<1>2. blocks \in Seq(Nat \ {0})
  BY EmptySeq
<1>3. head \in [Slots -> [key : Hashable \cup {NULL}, val : Vals \cup {NULL}]]
  OBVIOUS
<1>4. \A s \in Slots : Empty(s) /\ chain[s] = <<>>
  BY DEF Empty
<1>5. refs \in [Objects -> Int] /\ over \in [Vals -> 0..MaxOver]
  OBVIOUS
<1>. QED BY <1>1, <1>2, <1>3, <1>4, <1>5 DEF TypeOK

\* A step that leaves the blocks alone leaves the cells alone.
LEMMA CellsUnchanged ==
    ASSUME UNCHANGED blocks
    PROVE  Cells' = Cells /\ BucketType' = BucketType
BY DEF Cells, CellsOf, BucketType

LEMMA SetEmptySlotType ==
    ASSUME TypeOK, NEW k \in Hashable, NEW v \in Vals, SetEmptySlot(k, v)
    PROVE  TypeOK'
<1>. DEFINE s == SlotOf(k)
            stale == head[s].val
<1>1. s \in Slots
  BY SlotOfType
<1>2. k \in Objects /\ v \in Objects /\ k # NULL /\ v # NULL
  BY DictAssumption DEF Objects
<1>3. stale \in Vals \cup {NULL}
  BY <1>1 DEF TypeOK
<1>4. head' \in [Slots -> [key : Hashable \cup {NULL}, val : Vals \cup {NULL}]]
  BY <1>1 DEF TypeOK, SetEmptySlot
<1>5. \A t \in Slots : head'[t].key # NULL => head'[t].val # NULL
  BY <1>1, <1>2 DEF TypeOK, SetEmptySlot, Empty
<1>6. Plus(Plus(refs, k), v) \in [Objects -> Int]
  BY <1>2, RefsType DEF TypeOK
<1>7. refs' \in [Objects -> Int] /\ over' \in [Vals -> 0..MaxOver]
  <2>1. CASE stale = NULL
    BY <1>6, <2>1 DEF SetEmptySlot, TypeOK
  <2>2. CASE stale # NULL
    <3>1. stale \in Vals /\ stale \in Objects
      BY <1>3, <2>2 DEF Objects
    <3>2. over[stale] \in 0..MaxOver /\ over[stale] < MaxOver
      BY <2>2, <3>1 DEF SetEmptySlot, TypeOK
    <3>3. over[stale] + 1 \in 0..MaxOver
      BY <3>2, DictAssumption
    <3>. over' = Plus(over, stale) /\ over \in [Vals -> 0..MaxOver]
      BY <2>2 DEF SetEmptySlot, TypeOK
    <3>5. over' \in [Vals -> 0..MaxOver]
      BY <3>1, <3>3 DEF Plus
    <3>4. refs' \in [Objects -> Int]
      BY <1>6, <2>2, <3>1, RefsType DEF SetEmptySlot
    <3>. QED BY <3>4, <3>5
  <2>. QED BY <2>1, <2>2
<1>8. freed' => \A t \in Slots : chain'[t] = <<>>
  BY DEF TypeOK, SetEmptySlot
<1>. QED BY <1>4, <1>5, <1>7, <1>8, CellsUnchanged DEF TypeOK, SetEmptySlot, Empty
LEMMA SetExistingType ==
    ASSUME TypeOK, NEW k \in Hashable, NEW v \in Vals, SetExisting(k, v)
    PROVE  TypeOK'
<1>. PICK s, i : s = SlotOf(k) /\ i = First(matching(k))
  OBVIOUS
<1>. DEFINE c == chain[s]
<1>0. /\ Overwrite(s, i, k, v)
      /\ UNCHANGED <<blocks, free, freed, live, fault, over>>
  BY DEF SetExisting
<1>1. s \in Slots /\ c \in Seq(BucketType) /\ Len(c) \in Nat
  BY SlotOfType, LenProperties DEF TypeOK
<1>2. i \in Positions(s) /\ i \in 0..Len(c) /\ ~Empty(s)
  BY PositionSets, FirstInSet DEF SetExisting, Positions
<1>3. k \in Objects /\ v \in Objects /\ k # NULL /\ v # NULL
  BY DictAssumption DEF Objects
<1>4. KeyAt(s, i) \in Objects /\ ValAt(s, i) \in Objects
  BY <1>1, <1>2, StoredType, DictAssumption DEF Objects
<1>5. refs' \in [Objects -> Int]
  BY <1>0, <1>3, <1>4, RefsType DEF TypeOK, Overwrite
<1>6. CASE i = 0
  <2>0. head' = [head EXCEPT ![s] = [key |-> k, val |-> v]]
    BY <1>0, <1>6 DEF Overwrite
  <2>1. head' \in [Slots -> [key : Hashable \cup {NULL}, val : Vals \cup {NULL}]]
    BY <1>1, <2>0 DEF TypeOK
  <2>2. \A t \in Slots : head'[t].key # NULL => head'[t].val # NULL
    BY <1>1, <1>3, <2>0 DEF TypeOK, Empty
  <2>3. UNCHANGED <<chain, blocks, free, freed, live, fault, over>>
    BY <1>0, <1>6 DEF Overwrite
  <2>. QED BY <1>5, <2>1, <2>2, <2>3, CellsUnchanged DEF TypeOK, Empty
<1>7. CASE i # 0
  <2>1. i \in 1..Len(c)
    BY <1>1, <1>2, <1>7
  <2>2. c[i] \in BucketType
    BY <1>1, <2>1, ElementOfSeq
  <2>. DEFINE b == [c[i] EXCEPT !.key = k, !.val = v]
  <2>3. b \in BucketType
    BY <2>2 DEF BucketType
  <2>4. [c EXCEPT ![i] = b] \in Seq(BucketType)
    BY <1>1, <2>1, <2>3, ExceptSeq
  <2>5. chain' = [chain EXCEPT ![s] = [c EXCEPT ![i] = b]]
    BY <1>0, <1>1, <1>7 DEF Overwrite, TypeOK
  <2>6. chain' \in [Slots -> Seq(BucketType)]
    BY <1>1, <2>4, <2>5 DEF TypeOK
  <2>7. ~freed
    <3>1. c # <<>>
      BY <1>1, <2>1, EmptySeq
    <3>. QED BY <1>1, <3>1 DEF TypeOK
  <2>8. UNCHANGED <<head, blocks, free, freed, live, fault, over>>
    BY <1>0, <1>7 DEF Overwrite
  <2>. QED BY <1>5, <2>6, <2>7, <2>8, CellsUnchanged DEF TypeOK, Empty
<1>. QED BY <1>6, <1>7
\* A new block adds exactly its cells.
LEMMA CellsAppended ==
    ASSUME TypeOK, blocks' = Append(blocks, NextSize)
    PROVE  /\ NextSize \in Nat \ {0}
           /\ blocks' \in Seq(Nat \ {0})
           /\ Cells' = Cells \cup NewCells
           /\ Cells \cap NewCells = {}
<1>1. Len(blocks) \in Nat /\ blocks \in Seq(Nat \ {0})
  BY LenProperties DEF TypeOK
<1>2. NextSize \in Nat \ {0}
  <2>1. CASE blocks = <<>>
    BY <2>1, DictAssumption DEF NextSize
  <2>2. CASE blocks # <<>>
    <3>1. Len(blocks) \in 1..Len(blocks)
      BY <1>1, <2>2, EmptySeq
    <3>2. blocks[Len(blocks)] \in Nat \ {0}
      BY <1>1, <3>1, ElementOfSeq
    <3>. QED BY <2>2, <3>2 DEF NextSize, Newest
  <2>. QED BY <2>1, <2>2
<1>3. /\ blocks' \in Seq(Nat \ {0})
      /\ Len(blocks') = Len(blocks) + 1
      /\ \A b \in 1..Len(blocks) : blocks'[b] = blocks[b]
      /\ blocks'[Len(blocks) + 1] = NextSize
  BY <1>1, <1>2, AppendProperties
<1>4. \A b \in 1..Len(blocks) : CellsOf(b)' = CellsOf(b)
  BY <1>3 DEF CellsOf
<1>. PICK n : n = Len(blocks) + 1
  OBVIOUS
<1>5. CellsOf(n)' = NewCells
  <2>1. CellsOf(n)' = {n} \X (1..blocks'[n])
    BY DEF CellsOf
  <2>. QED BY <1>3, <2>1 DEF NewCells, Newest
<1>6. Cells' = Cells \cup NewCells
  <2>1. 1..Len(blocks') = (1..Len(blocks)) \cup {n}
    BY <1>1, <1>3
  <2>2. \A x : x \in Cells' <=> \E b \in 1..Len(blocks') : x \in CellsOf(b)'
    BY DEF Cells
  <2>3. \A x : x \in Cells <=> \E b \in 1..Len(blocks) : x \in CellsOf(b)
    BY DEF Cells
  <2>4. \A x : x \in Cells' <=> x \in Cells \/ x \in CellsOf(n)'
    BY <1>4, <2>1, <2>2, <2>3
  <2>5. \A x : x \in Cells' <=> x \in Cells \cup NewCells
    BY <1>5, <2>4
  <2>. QED BY <2>5
<1>7. Cells \cap NewCells = {}
  BY <1>1 DEF Cells, CellsOf, NewCells, Newest
<1>. QED BY <1>2, <1>3, <1>6, <1>7

LEMMA InsertType ==
    ASSUME TypeOK, NEW s \in Slots, NEW k \in Hashable, NEW v \in Vals,
           NEW avail, NEW c \in avail, avail \subseteq Cells',
           Cells \subseteq Cells', Insert(s, c, k, v, avail)
    PROVE  /\ chain' \in [Slots -> Seq(BucketType')]
           /\ free' \subseteq Cells'
           /\ refs' \in [Objects -> Int]
<1>1. chain[s] \in Seq(BucketType)
  BY DEF TypeOK
<1>2. BucketType \subseteq BucketType'
  BY DEF BucketType
<1>3. \A t \in Slots : chain[t] \in Seq(BucketType')
  BY <1>2, SeqMonotonic, Zenon DEF TypeOK
<1>. DEFINE b == [cell |-> c, key |-> k, val |-> v]
<1>4. b \in BucketType'
  BY DEF BucketType
<1>5. <<b>> \o chain[s] \in Seq(BucketType')
  BY <1>3, <1>4, PrependProperties
<1>6. chain' = [chain EXCEPT ![s] = <<b>> \o chain[s]]
  BY DEF Insert, TypeOK
<1>7. k \in Objects /\ v \in Objects
  BY DictAssumption DEF Objects
<1>8. refs' \in [Objects -> Int]
  BY <1>7, RefsType DEF Insert, TypeOK
<1>9. chain' \in [Slots -> Seq(BucketType')]
  <2>. HIDE DEF b
  <2>. QED BY <1>3, <1>5, <1>6 DEF TypeOK
<1>. QED BY <1>8, <1>9 DEF Insert

LEMMA SetNewType ==
    ASSUME TypeOK, NEW k \in Hashable, NEW v \in Vals, SetNew(k, v)
    PROVE  TypeOK'
<1>. DEFINE s == SlotOf(k)
<1>1. s \in Slots
  BY SlotOfType
<1>2. /\ blocks' \in Seq(Nat \ {0})
      /\ chain' \in [Slots -> Seq(BucketType')]
      /\ free' \subseteq Cells'
      /\ refs' \in [Objects -> Int]
  <2>1. CASE NeedsBlock
    <3>1. blocks' = Append(blocks, NextSize)
      BY <2>1 DEF SetNew
    <3>2. PICK c \in NewCells : Insert(s, c, k, v, free \cup NewCells)
      BY <2>1 DEF SetNew
    <3>3. /\ free \cup NewCells \subseteq Cells' /\ Cells \subseteq Cells'
          /\ blocks' \in Seq(Nat \ {0}) /\ c \in free \cup NewCells
      BY <3>1, <3>2, CellsAppended DEF TypeOK
    <3>. QED BY <1>1, <3>2, <3>3, InsertType
  <2>2. CASE ~NeedsBlock
    <3>1. UNCHANGED blocks
      BY <2>2 DEF SetNew
    <3>2. PICK c \in free : Insert(s, c, k, v, free)
      BY <2>2 DEF SetNew
    <3>3. Cells' = Cells /\ free \subseteq Cells /\ blocks' \in Seq(Nat \ {0})
      BY <3>1, CellsUnchanged DEF TypeOK
    <3>. QED BY <1>1, <3>2, <3>3, InsertType
  <2>. QED BY <2>1, <2>2
<1>3. ~freed /\ UNCHANGED <<head, freed, live, fault, over>>
  BY DEF SetNew
<1>. QED BY <1>2, <1>3 DEF TypeOK, Empty
LEMMA RemoveType ==
    ASSUME TypeOK, NEW k \in Hashable, Remove(k)
    PROVE  TypeOK'
<1>. PICK s, i : s = SlotOf(k) /\ i = First(equal(k))
  OBVIOUS
<1>. DEFINE c == chain[s]
<1>0. /\ ~Empty(s)
      /\ IF i > 0 THEN Unlink(s, i)
         ELSE IF chain[s] = <<>> THEN Invalidate(s) ELSE PullSecond(s)
      /\ ReleaseBucket(s, i)
      /\ UNCHANGED <<blocks, freed, live, fault, over>>
  BY DEF Remove
<1>1. s \in Slots /\ c \in Seq(BucketType) /\ Len(c) \in Nat
  BY SlotOfType, LenProperties DEF TypeOK
<1>2. i \in Positions(s) /\ i \in 0..Len(c)
  BY PositionSets, FirstInSet DEF Remove, Positions
<1>3. KeyAt(s, i) \in Objects /\ ValAt(s, i) \in Objects
  BY <1>1, <1>2, StoredType, DictAssumption DEF Objects
<1>4. refs' \in [Objects -> Int]
  BY <1>0, <1>3, RefsType DEF TypeOK, ReleaseBucket
<1>5. ASSUME NEW j \in 1..Len(c)
      PROVE  /\ c[j] \in BucketType /\ c[j].cell \in Cells
             /\ RemoveAt(c, j) \in Seq(BucketType)
             /\ ~freed
  <2>1. c[j] \in BucketType
    BY <1>1, ElementOfSeq
  <2>2. RemoveAt(c, j) \in Seq(BucketType)
    BY <1>1, RemoveAtProperties
  <2>3. c # <<>>
    BY <1>1, EmptySeq
  <2>. QED BY <1>1, <2>1, <2>2, <2>3 DEF TypeOK, BucketType
<1>6. CASE i > 0
  <2>1. i \in 1..Len(c)
    BY <1>1, <1>2, <1>6
  <2>2. chain' = [chain EXCEPT ![s] = RemoveAt(c, i)]
        /\ free' = free \cup {c[i].cell} /\ UNCHANGED head
    BY <1>0, <1>6 DEF Unlink
  <2>3. chain' \in [Slots -> Seq(BucketType)] /\ free' \subseteq Cells /\ ~freed
    BY <1>1, <1>5, <2>1, <2>2 DEF TypeOK
  <2>. QED BY <1>0, <1>4, <2>2, <2>3, CellsUnchanged DEF TypeOK, Empty
<1>7. CASE ~(i > 0) /\ chain[s] = <<>>
  <2>1. head' = [head EXCEPT ![s].key = NULL] /\ UNCHANGED <<chain, free>>
    BY <1>0, <1>7 DEF Invalidate
  <2>2. head' \in [Slots -> [key : Hashable \cup {NULL}, val : Vals \cup {NULL}]]
    BY <1>1, <2>1 DEF TypeOK
  <2>3. \A t \in Slots : head'[t].key # NULL => head'[t].val # NULL
    BY <1>1, <2>1 DEF TypeOK, Empty
  <2>. QED BY <1>0, <1>4, <2>1, <2>2, <2>3, CellsUnchanged DEF TypeOK, Empty
<1>8. CASE ~(i > 0) /\ chain[s] # <<>>
  <2>1. 1 \in 1..Len(c)
    BY <1>1, <1>8, EmptySeq
  <2>2. /\ head' = [head EXCEPT ![s] = [key |-> c[1].key, val |-> c[1].val]]
        /\ chain' = [chain EXCEPT ![s] = RemoveAt(c, 1)]
        /\ free' = free \cup {c[1].cell}
    BY <1>0, <1>8 DEF PullSecond
  <2>3. c[1].key \in Hashable /\ c[1].val \in Vals /\ c[1].cell \in Cells
    BY <1>5, <2>1 DEF BucketType
  <2>4. chain' \in [Slots -> Seq(BucketType)] /\ free' \subseteq Cells /\ ~freed
    BY <1>1, <1>5, <2>1, <2>2 DEF TypeOK
  <2>5. head' \in [Slots -> [key : Hashable \cup {NULL}, val : Vals \cup {NULL}]]
    BY <1>1, <2>2, <2>3 DEF TypeOK
  <2>6. \A t \in Slots : head'[t].key # NULL => head'[t].val # NULL
    BY <1>1, <2>2, <2>3, DictAssumption DEF TypeOK, Empty
  <2>. QED BY <1>0, <1>4, <2>4, <2>5, <2>6, CellsUnchanged DEF TypeOK, Empty
<1>. QED BY <1>6, <1>7, <1>8

\* There are finitely many entries, so their occurrences can be counted.
LEMMA BucketsFinite ==
    ASSUME TypeOK
    PROVE  IsFiniteSet(Buckets)
<1>. DEFINE F == [s \in Slots |-> {s} \X Positions(s)]
            R == {F[s] : s \in Slots}
<1>1. IsFiniteSet(Slots)
  BY FS_Interval, DictAssumption DEF Slots
<1>2. F \in Surjection(Slots, R)
  BY DEF Surjection
<1>3. IsFiniteSet(R)
  BY <1>1, <1>2, FS_Surjection
<1>4. ASSUME NEW s \in Slots PROVE IsFiniteSet(F[s])
  <2>1. Len(chain[s]) \in Nat
    BY LenProperties DEF TypeOK
  <2>. PICK n \in Nat : n = Len(chain[s])
    BY <2>1
  <2>2. IsFiniteSet(0..n) /\ IsFiniteSet({s})
    <3>1. IsFiniteSet(0..n)
      BY FS_Interval
    <3>2. IsFiniteSet({s})
      BY FS_Singleton, Zenon
    <3>. QED BY <3>1, <3>2
  <2>3. IsFiniteSet(Positions(s))
    BY <2>2, FS_EmptySet DEF Positions
  <2>. QED BY <2>2, <2>3, FS_Product
<1>5. IsFiniteSet(UNION R)
  BY <1>3, <1>4, FS_UNION
<1>6. Buckets = UNION R
  BY DEF Buckets
<1>. QED BY <1>5, <1>6

LEMMA OccType ==
    ASSUME TypeOK, NEW o
    PROVE  Occ(o) \in Nat
<1>1. /\ IsFiniteSet({b \in Buckets : KeyAt(b[1], b[2]) = o})
      /\ IsFiniteSet({b \in Buckets : ValAt(b[1], b[2]) = o})
  BY BucketsFinite, FS_Subset
<1>. QED BY <1>1, FS_CardinalityType DEF Occ

LEMMA CleanType ==
    ASSUME TypeOK, dict_clean, live' \in BOOLEAN
    PROVE  TypeOK'
<1>1. refs' \in [Objects -> Int]
  <2>0. \A o : Occ(o) \in Nat
    BY OccType
  <2>1. \A o \in Objects : refs[o] \in Int
    BY DEF TypeOK
  <2>2. ASSUME NEW o \in Objects PROVE refs[o] - Occ(o) \in Int
    <3>1. Occ(o) \in Nat
      BY <2>0
    <3>. QED BY <2>1, <3>1
  <2>3. refs' = [o \in Objects |-> refs[o] - Occ(o)]
    BY DEF dict_clean
  <2>. QED BY <2>2, <2>3
<1>2. head' \in [Slots -> [key : Hashable \cup {NULL}, val : Vals \cup {NULL}]]
  BY DEF dict_clean, TypeOK
<1>3. \A s \in Slots : head'[s].key = NULL
  BY DEF dict_clean, TypeOK
<1>4. chain' \in [Slots -> Seq(BucketType)] /\ \A s \in Slots : chain'[s] = <<>>
  BY EmptySeq DEF dict_clean
<1>. QED BY <1>1, <1>2, <1>3, <1>4, CellsUnchanged DEF dict_clean, TypeOK, Empty

LEMMA FaultType ==
    ASSUME TypeOK, NEW what \in {"null key", "freed block", "no memory"}, Fault(what)
    PROVE  TypeOK'
BY CellsUnchanged DEF Fault, TypeOK, mem, ghost, Empty

LEMMA NextType == TypeOK /\ [Next]_vars => TypeOK'
<1>. SUFFICES ASSUME TypeOK, [Next]_vars PROVE TypeOK'
  OBVIOUS
<1>1. ASSUME NEW k \in Hashable, NEW v \in Vals, dict_setitem(k, v) PROVE TypeOK'
  BY <1>1, SetEmptySlotType, SetExistingType, SetNewType, FaultType
     DEF dict_setitem, SetNewFreed, SetNewNoMemory
<1>2. ASSUME NEW k \in Hashable, find_and_remove_bucket(k) PROVE TypeOK'
  BY <1>2, RemoveType, FaultType DEF find_and_remove_bucket, RemoveFromEmpty
<1>3. CASE DyDict_Clear
  BY <1>3, CleanType, FaultType DEF DyDict_Clear, CleanFreed, TypeOK
<1>4. CASE dict_destroy
  BY <1>4, CleanType, FaultType DEF dict_destroy, CleanFreed, TypeOK
<1>5. CASE UNCHANGED vars
  BY <1>5, CellsUnchanged DEF vars, mem, ghost, TypeOK, Empty
<1>6. CASE DyDict_IterNoMemory
  BY <1>6, FaultType DEF DyDict_IterNoMemory
<1>. QED BY <1>1, <1>2, <1>3, <1>4, <1>5, <1>6 DEF Next

\* In every state the links, cells and counters of a dictionary have their
\* types, whatever the keys, hashes, table and block sizes: every chained
\* bucket lies in a block the dictionary has, and a table bucket with a key
\* has a value.
THEOREM TypeCorrect == Spec => []TypeOK
BY InitType, NextType, PTL DEF Spec
-----------------------------------------------------------------------------
(* Cells and empty heads.                                                  *)

StructInv == CellsConserved /\ NothingBehindEmptyHead

\* A step that moves no bucket conserves the cells.
LEMMA SameCells ==
    ASSUME TypeOK, CellsConserved, UNCHANGED <<blocks, free, freed>>,
           chain' \in [Slots -> Seq(BucketType)],
           \A s \in Slots : /\ Len(chain'[s]) = Len(chain[s])
                            /\ \A i \in 1..Len(chain[s]) :
                                   chain'[s][i].cell = chain[s][i].cell
    PROVE  CellsConserved'
<1>1. \A s \in Slots : InUse'[s] = InUse[s]
  BY DEF InUse
<1>2. Cells' = Cells
  BY CellsUnchanged
<1>3. {InUse'[s] : s \in Slots} = {InUse[s] : s \in Slots}
  BY <1>1
<1>4. CASE freed
  BY <1>4 DEF CellsConserved
<1>5. CASE ~freed
  <2>1. \A s \in Slots : \A i, j \in 1..Len(chain'[s]) :
            chain'[s][i].cell = chain'[s][j].cell => i = j
    BY <1>5 DEF CellsConserved
  <2>. QED BY <1>1, <1>2, <1>3, <1>5, <2>1 DEF CellsConserved
<1>. QED BY <1>4, <1>5

\* Putting a bucket in a cell that was free conserves the cells.
LEMMA InsertConserves ==
    ASSUME TypeOK, CellsConserved, ~freed, ~freed', NEW s \in Slots,
           NEW k, NEW v, NEW avail, NEW c \in avail, Cells \subseteq Cells',
           free \subseteq avail, avail = free \cup (Cells' \ Cells),
           Insert(s, c, k, v, avail)
    PROVE  CellsConserved'
<1>1. \A t \in Slots : chain[t] \in Seq(BucketType) /\ Len(chain[t]) \in Nat
  BY LenProperties DEF TypeOK
<1>. DEFINE b == [cell |-> c, key |-> k, val |-> v]
<1>2. /\ Len(<<b>> \o chain[s]) = Len(chain[s]) + 1
      /\ \A j \in 1..(Len(chain[s]) + 1) :
            (<<b>> \o chain[s])[j] = IF j = 1 THEN b ELSE chain[s][j - 1]
  <2>1. chain[s] \in Seq(BucketType \cup {b})
    BY <1>1, SeqMonotonic
  <2>. QED BY <2>1, PrependProperties
<1>3. chain'[s] = <<b>> \o chain[s] /\ \A t \in Slots \ {s} : chain'[t] = chain[t]
  BY DEF Insert, TypeOK
<1>4. /\ Len(chain'[s]) = Len(chain[s]) + 1
      /\ chain'[s][1].cell = c
      /\ \A j \in 2..(Len(chain[s]) + 1) : chain'[s][j].cell = chain[s][j - 1].cell
  BY <1>1, <1>2, <1>3
<1>5. \A t \in Slots : \A x : x \in InUse[t] <=>
          \E j \in 1..Len(chain[t]) : x = chain[t][j].cell
  BY DEF InUse
<1>6. \A t \in Slots : \A x : x \in InUse'[t] <=>
          \E j \in 1..Len(chain'[t]) : x = chain'[t][j].cell
  BY DEF InUse
<1>7. ASSUME NEW t \in Slots \ {s} PROVE InUse'[t] = InUse[t]
  <2>1. chain'[t] = chain[t]
    BY <1>3
  <2>3. InUse'[t] = {chain'[t][j].cell : j \in 1..Len(chain'[t])}
        /\ InUse[t] = {chain[t][j].cell : j \in 1..Len(chain[t])}
    BY DEF InUse
  <2>. QED BY <2>1, <2>3
<1>8. InUse'[s] = InUse[s] \cup {c}
  <2>1. \A j \in 1..Len(chain[s]) : chain[s][j].cell = chain'[s][j + 1].cell
    BY <1>1, <1>4
  <2>2. ASSUME NEW x \in InUse'[s] PROVE x \in InUse[s] \cup {c}
    <3>1. PICK j \in 1..Len(chain'[s]) : x = chain'[s][j].cell
      BY <1>6
    <3>2. CASE j = 1
      BY <1>4, <3>1, <3>2
    <3>3. CASE j # 1
      <4>1. j \in 2..(Len(chain[s]) + 1) /\ j - 1 \in 1..Len(chain[s])
        BY <1>1, <1>4, <3>3
      <4>. QED BY <1>4, <1>5, <3>1, <4>1
    <3>. QED BY <3>2, <3>3
  <2>3. ASSUME NEW x \in InUse[s] PROVE x \in InUse'[s]
    <3>1. PICK j \in 1..Len(chain[s]) : x = chain[s][j].cell
      BY <1>5
    <3>2. j + 1 \in 1..Len(chain'[s])
      BY <1>1, <1>4
    <3>. QED BY <1>6, <2>1, <3>1, <3>2
  <2>4. c \in InUse'[s]
    BY <1>1, <1>4, <1>6
  <2>. QED BY <2>2, <2>3, <2>4
<1>9. UNION {InUse[t] : t \in Slots} = Cells \ free
  BY DEF CellsConserved
<1>10. \A t \in Slots : c \notin InUse[t]
  BY <1>9
<1>11. \A t \in Slots : \A i, j \in 1..Len(chain'[t]) :
          chain'[t][i].cell = chain'[t][j].cell => i = j
  <2>1. \A t \in Slots \ {s} : \A i, j \in 1..Len(chain'[t]) :
          chain'[t][i].cell = chain'[t][j].cell => i = j
    BY <1>3 DEF CellsConserved
  <2>2. \A j \in 2..Len(chain'[s]) : chain'[s][j].cell # c
    BY <1>1, <1>4, <1>5, <1>10
  <2>3. \A i, j \in 2..Len(chain'[s]) : chain'[s][i].cell = chain'[s][j].cell => i = j
    BY <1>1, <1>4 DEF CellsConserved
  <2>. QED BY <1>1, <1>4, <2>1, <2>2, <2>3
<1>12. \A t, u \in Slots : t # u => InUse'[t] \cap InUse'[u] = {}
  BY <1>7, <1>8, <1>10 DEF CellsConserved
<1>13. UNION {InUse'[t] : t \in Slots} = (UNION {InUse[t] : t \in Slots}) \cup {c}
  BY <1>7, <1>8
<1>14. Cells' \ free' = (Cells \ free) \cup {c}
  BY DEF Insert, TypeOK
<1>. QED BY <1>9, <1>11, <1>12, <1>13, <1>14 DEF CellsConserved

\* Taking bucket i out of a chain and freeing its cell conserves the cells.
LEMMA RemoveConserves ==
    ASSUME TypeOK, CellsConserved, UNCHANGED <<blocks, freed>>, ~freed,
           NEW s \in Slots, NEW i \in 1..Len(chain[s]),
           chain' = [chain EXCEPT ![s] = RemoveAt(chain[s], i)],
           free' = free \cup {chain[s][i].cell}
    PROVE  CellsConserved'
<1>. DEFINE c == chain[s][i].cell
            n == Len(chain[s])
<1>1. \A t \in Slots : chain[t] \in Seq(BucketType) /\ Len(chain[t]) \in Nat
  BY LenProperties DEF TypeOK
<1>2. chain'[s] = RemoveAt(chain[s], i) /\ \A t \in Slots \ {s} : chain'[t] = chain[t]
  BY DEF TypeOK
<1>3. /\ Len(chain'[s]) = n - 1
      /\ \A j \in 1..(n - 1) : chain'[s][j] = IF j < i THEN chain[s][j] ELSE chain[s][j + 1]
  BY <1>1, <1>2, RemoveAtProperties
<1>5. \A t \in Slots : \A x : x \in InUse[t] <=>
          \E j \in 1..Len(chain[t]) : x = chain[t][j].cell
  BY DEF InUse
<1>6. \A t \in Slots : \A x : x \in InUse'[t] <=>
          \E j \in 1..Len(chain'[t]) : x = chain'[t][j].cell
  BY DEF InUse
<1>7. ASSUME NEW t \in Slots \ {s} PROVE InUse'[t] = InUse[t]
  <2>1. chain'[t] = chain[t]
    BY <1>2
  <2>2. InUse'[t] = {chain'[t][j].cell : j \in 1..Len(chain'[t])}
        /\ InUse[t] = {chain[t][j].cell : j \in 1..Len(chain[t])}
    BY DEF InUse
  <2>. QED BY <2>1, <2>2
<1>8. \A j, l \in 1..n : chain[s][j].cell = chain[s][l].cell => j = l
  BY DEF CellsConserved
<1>9. InUse'[s] = InUse[s] \ {c}
  <2>1. ASSUME NEW x \in InUse'[s] PROVE x \in InUse[s] /\ x # c
    <3>1. PICK j \in 1..(n - 1) : x = chain'[s][j].cell
      BY <1>3, <1>6
    <3>2. PICK l \in 1..n : x = chain[s][l].cell /\ l # i
      <4>1. CASE j < i
        BY <1>1, <1>3, <3>1, <4>1
      <4>2. CASE ~(j < i)
        <5>1. j + 1 \in 1..n /\ j + 1 # i
          BY <1>1, <4>2
        <5>. QED BY <1>3, <3>1, <4>2, <5>1
      <4>. QED BY <4>1, <4>2
    <3>. QED BY <1>5, <1>8, <3>2
  <2>2. ASSUME NEW x \in InUse[s], x # c PROVE x \in InUse'[s]
    <3>1. PICK l \in 1..n : x = chain[s][l].cell
      BY <1>5
    <3>2. l # i
      BY <2>2, <3>1
    <3>3. PICK j \in 1..(n - 1) : x = chain'[s][j].cell
      <4>1. CASE l < i
        <5>1. l \in 1..(n - 1)
          BY <1>1, <4>1
        <5>. QED BY <1>3, <3>1, <4>1, <5>1
      <4>2. CASE ~(l < i)
        <5>. PICK m : m = l - 1
          OBVIOUS
        <5>1. m \in 1..(n - 1) /\ ~(m < i) /\ m + 1 = l
          BY <1>1, <3>2, <4>2
        <5>. QED BY <1>3, <3>1, <5>1
      <4>. QED BY <4>1, <4>2
    <3>. QED BY <1>3, <1>6, <3>3
  <2>. QED BY <2>1, <2>2
<1>10. \A j, l \in 1..Len(chain'[s]) : chain'[s][j].cell = chain'[s][l].cell => j = l
  <2>. SUFFICES ASSUME NEW j \in 1..(n - 1), NEW l \in 1..(n - 1),
                       chain'[s][j].cell = chain'[s][l].cell
                PROVE  j = l
    BY <1>3
  <2>. DEFINE old(m) == IF m < i THEN m ELSE m + 1
  <2>1. \A m \in 1..(n - 1) : old(m) \in 1..n /\ chain'[s][m].cell = chain[s][old(m)].cell
    BY <1>1, <1>3
  <2>2. old(j) = old(l)
    <3>. HIDE DEF old
    <3>. QED BY <1>8, <2>1
  <2>. QED BY <2>2
<1>11. \A t \in Slots : \A j, l \in 1..Len(chain'[t]) :
          chain'[t][j].cell = chain'[t][l].cell => j = l
  BY <1>2, <1>10 DEF CellsConserved
<1>12. \A t, u \in Slots : t # u => InUse'[t] \cap InUse'[u] = {}
  BY <1>7, <1>9 DEF CellsConserved
<1>13. c \in InUse[s] /\ \A t \in Slots \ {s} : c \notin InUse[t]
  BY <1>5 DEF CellsConserved
<1>14. UNION {InUse[t] : t \in Slots} = Cells \ free
  BY DEF CellsConserved
<1>15. UNION {InUse'[t] : t \in Slots} = (Cells \ free) \ {c}
  BY <1>7, <1>9, <1>13, <1>14
<1>16. Cells' \ free' = (Cells \ free) \ {c}
  BY CellsUnchanged
<1>. QED BY <1>11, <1>12, <1>15, <1>16 DEF CellsConserved

LEMMA StructSetEmpty ==
    ASSUME TypeOK, TypeOK', StructInv, NEW k \in Hashable, NEW v \in Vals,
           SetEmptySlot(k, v)
    PROVE  StructInv'
<1>1. UNCHANGED <<chain, blocks, free, freed>>
  BY DEF SetEmptySlot
<1>2. CellsConserved'
  BY <1>1, SameCells, CellsUnchanged DEF StructInv, TypeOK
<1>3. \A s \in Slots \ {SlotOf(k)} : head'[s] = head[s]
  BY SlotOfType DEF SetEmptySlot, TypeOK
<1>4. head'[SlotOf(k)].key # NULL
  BY SlotOfType, DictAssumption DEF SetEmptySlot, TypeOK
<1>5. NothingBehindEmptyHead'
  BY <1>1, <1>3, <1>4 DEF StructInv, NothingBehindEmptyHead, Empty
<1>. QED BY <1>2, <1>5 DEF StructInv

LEMMA StructSetExisting ==
    ASSUME TypeOK, TypeOK', StructInv, NEW k \in Hashable, NEW v \in Vals,
           SetExisting(k, v)
    PROVE  StructInv'
<1>. PICK s, i : s = SlotOf(k) /\ i = First(matching(k))
  OBVIOUS
<1>0. /\ Overwrite(s, i, k, v)
      /\ UNCHANGED <<blocks, free, freed, live, fault, over>>
  BY DEF SetExisting
<1>1. s \in Slots /\ chain[s] \in Seq(BucketType) /\ Len(chain[s]) \in Nat
  BY SlotOfType, LenProperties DEF TypeOK
<1>2. i \in Positions(s) /\ i \in 0..Len(chain[s]) /\ ~Empty(s)
  BY PositionSets, FirstInSet DEF SetExisting, Positions
<1>3. CASE i = 0
  <2>1. head' = [head EXCEPT ![s] = [key |-> k, val |-> v]] /\ UNCHANGED chain
    BY <1>0, <1>3 DEF Overwrite
  <2>2. CellsConserved'
    BY <1>0, <2>1, SameCells, CellsUnchanged DEF StructInv, TypeOK
  <2>3. \A t \in Slots : Empty(t)' => Empty(t)
    BY <1>1, <1>2, <2>1, DictAssumption DEF Empty, TypeOK
  <2>. QED BY <2>1, <2>2, <2>3 DEF StructInv, NothingBehindEmptyHead
<1>4. CASE i # 0
  <2>1. i \in 1..Len(chain[s])
    BY <1>1, <1>2, <1>4
  <2>. DEFINE b == [chain[s][i] EXCEPT !.key = k, !.val = v]
  <2>2. chain[s][i] \in BucketType
    BY <1>1, <2>1, ElementOfSeq
  <2>3. b.cell = chain[s][i].cell /\ b \in BucketType
    BY <2>2 DEF BucketType
  <2>4. chain' = [chain EXCEPT ![s] = [chain[s] EXCEPT ![i] = b]] /\ UNCHANGED head
    BY <1>0, <1>1, <1>4 DEF Overwrite, TypeOK
  <2>. HIDE DEF b
  <2>5. /\ Len([chain[s] EXCEPT ![i] = b]) = Len(chain[s])
        /\ \A j \in 1..Len(chain[s]) :
              [chain[s] EXCEPT ![i] = b][j] = IF j = i THEN b ELSE chain[s][j]
    BY <1>1, <2>1, <2>3, ExceptSeq
  <2>6. chain'[s] = [chain[s] EXCEPT ![i] = b] /\ \A t \in Slots \ {s} : chain'[t] = chain[t]
    BY <1>1, <2>4 DEF TypeOK
  <2>7. \A t \in Slots : /\ Len(chain'[t]) = Len(chain[t])
                         /\ \A j \in 1..Len(chain[t]) :
                                chain'[t][j].cell = chain[t][j].cell
    BY <2>3, <2>5, <2>6
  <2>8. chain' \in [Slots -> Seq(BucketType)]
    BY <1>0, CellsUnchanged DEF TypeOK
  <2>9. CellsConserved'
    BY <1>0, <2>7, <2>8, SameCells DEF StructInv
  <2>10. NothingBehindEmptyHead'
    BY <1>2, <2>4, <2>6 DEF StructInv, NothingBehindEmptyHead, Empty
  <2>. QED BY <2>9, <2>10 DEF StructInv
<1>. QED BY <1>3, <1>4

LEMMA StructSetNew ==
    ASSUME TypeOK, TypeOK', StructInv, NEW k \in Hashable, NEW v \in Vals,
           SetNew(k, v)
    PROVE  StructInv'
<1>. DEFINE s == SlotOf(k)
<1>1. s \in Slots /\ ~Empty(s) /\ ~freed /\ ~freed' /\ UNCHANGED head
  BY SlotOfType DEF SetNew
<1>2. CASE NeedsBlock
  <2>1. blocks' = Append(blocks, NextSize)
    BY <1>2 DEF SetNew
  <2>2. PICK c \in NewCells : Insert(s, c, k, v, free \cup NewCells)
    BY <1>2 DEF SetNew
  <2>3. Cells' = Cells \cup NewCells /\ Cells \cap NewCells = {}
    BY <2>1, CellsAppended
  <2>4. CellsConserved'
    BY <1>1, <2>2, <2>3, InsertConserves DEF StructInv
  <2>5. \A t \in Slots \ {s} : chain'[t] = chain[t]
    BY <2>2 DEF Insert, TypeOK
  <2>. QED BY <1>1, <2>4, <2>5 DEF StructInv, NothingBehindEmptyHead, Empty
<1>3. CASE ~NeedsBlock
  <2>1. UNCHANGED blocks
    BY <1>3 DEF SetNew
  <2>2. PICK c \in free : Insert(s, c, k, v, free)
    BY <1>3 DEF SetNew
  <2>3. Cells' = Cells
    BY <2>1, CellsUnchanged
  <2>4. CellsConserved'
    BY <1>1, <2>2, <2>3, InsertConserves DEF StructInv
  <2>5. \A t \in Slots \ {s} : chain'[t] = chain[t]
    BY <2>2 DEF Insert, TypeOK
  <2>. QED BY <1>1, <2>4, <2>5 DEF StructInv, NothingBehindEmptyHead, Empty
<1>. QED BY <1>2, <1>3

LEMMA StructRemove ==
    ASSUME TypeOK, TypeOK', StructInv, NEW k \in Hashable, Remove(k)
    PROVE  StructInv'
<1>. PICK s, i : s = SlotOf(k) /\ i = First(equal(k))
  OBVIOUS
<1>0. /\ ~Empty(s)
      /\ IF i > 0 THEN Unlink(s, i)
         ELSE IF chain[s] = <<>> THEN Invalidate(s) ELSE PullSecond(s)
      /\ UNCHANGED <<blocks, freed, live, fault, over>>
  BY DEF Remove
<1>1. s \in Slots /\ chain[s] \in Seq(BucketType) /\ Len(chain[s]) \in Nat
  BY SlotOfType, LenProperties DEF TypeOK
<1>2. i \in 0..Len(chain[s])
  BY PositionSets, FirstInSet DEF Remove, Positions
<1>3. ASSUME NEW j \in 1..Len(chain[s]) PROVE ~freed
  <2>1. chain[s] # <<>>
    BY <1>1, EmptySeq
  <2>. QED BY <1>1, <2>1 DEF TypeOK
<1>4. CASE i > 0
  <2>1. i \in 1..Len(chain[s])
    BY <1>1, <1>2, <1>4
  <2>2. chain' = [chain EXCEPT ![s] = RemoveAt(chain[s], i)]
        /\ free' = free \cup {chain[s][i].cell} /\ UNCHANGED head
    BY <1>0, <1>4 DEF Unlink
  <2>3. CellsConserved'
    BY <1>0, <1>1, <1>3, <2>1, <2>2, RemoveConserves DEF StructInv
  <2>4. NothingBehindEmptyHead'
    BY <1>0, <1>1, <2>2 DEF StructInv, NothingBehindEmptyHead, Empty, TypeOK
  <2>. QED BY <2>3, <2>4 DEF StructInv
<1>5. CASE ~(i > 0) /\ chain[s] = <<>>
  <2>1. head' = [head EXCEPT ![s].key = NULL] /\ UNCHANGED <<chain, free>>
    BY <1>0, <1>5 DEF Invalidate
  <2>2. CellsConserved'
    BY <1>0, <2>1, SameCells, CellsUnchanged DEF StructInv, TypeOK
  <2>3. \A t \in Slots : Empty(t)' => Empty(t) \/ t = s
    BY <1>1, <2>1 DEF Empty, TypeOK
  <2>. QED BY <1>5, <2>1, <2>2, <2>3 DEF StructInv, NothingBehindEmptyHead
<1>6. CASE ~(i > 0) /\ chain[s] # <<>>
  <2>1. 1 \in 1..Len(chain[s])
    BY <1>1, <1>6, EmptySeq
  <2>2. /\ head' = [head EXCEPT ![s] = [key |-> chain[s][1].key, val |-> chain[s][1].val]]
        /\ chain' = [chain EXCEPT ![s] = RemoveAt(chain[s], 1)]
        /\ free' = free \cup {chain[s][1].cell}
    BY <1>0, <1>6 DEF PullSecond
  <2>3. CellsConserved'
    BY <1>0, <1>1, <1>3, <2>1, <2>2, RemoveConserves DEF StructInv
  <2>4. chain[s][1] \in BucketType
    BY <1>1, <2>1, ElementOfSeq
  <2>5. chain[s][1].key # NULL
    BY <2>4, DictAssumption DEF BucketType
  <2>6. NothingBehindEmptyHead'
    BY <1>1, <2>2, <2>5 DEF StructInv, NothingBehindEmptyHead, Empty, TypeOK
  <2>. QED BY <2>3, <2>6 DEF StructInv
<1>. QED BY <1>4, <1>5, <1>6

LEMMA StructClean ==
    ASSUME TypeOK, StructInv, dict_clean
    PROVE  StructInv'
<1>1. \A s \in Slots : chain'[s] = <<>> /\ InUse'[s] = {}
  BY EmptySeq DEF dict_clean, InUse
<1>2. NothingBehindEmptyHead'
  BY <1>1 DEF NothingBehindEmptyHead
<1>3. CASE blocks = <<>>
  <2>1. Cells' = {} /\ free' = {}
    BY <1>3 DEF dict_clean, Cells
  <2>2. UNION {InUse'[s] : s \in Slots} = {}
    BY <1>1
  <2>3. \A s \in Slots : \A i, j \in 1..Len(chain'[s]) : i = j
    BY <1>1, EmptySeq
  <2>. QED BY <1>1, <1>2, <2>1, <2>2, <2>3 DEF StructInv, CellsConserved
<1>4. CASE blocks # <<>>
  BY <1>2, <1>4 DEF StructInv, CellsConserved, dict_clean
<1>. QED BY <1>3, <1>4

LEMMA StructFault ==
    ASSUME TypeOK, StructInv, UNCHANGED <<mem, freed>>
    PROVE  StructInv'
<1>1. UNCHANGED <<head, chain, blocks, free, freed>>
  BY DEF mem
<1>2. CellsConserved'
  BY <1>1, SameCells DEF StructInv, TypeOK
<1>3. NothingBehindEmptyHead'
  BY <1>1 DEF StructInv, NothingBehindEmptyHead, Empty
<1>. QED BY <1>2, <1>3 DEF StructInv

LEMMA StructInit == Init => StructInv
<1>. SUFFICES ASSUME Init PROVE StructInv
  OBVIOUS
<1>1. \A s \in Slots : chain[s] = <<>> /\ InUse[s] = {}
  BY DEF Init, dict_init, InUse
<1>2. Cells = {} /\ free = {}
  BY DEF Init, dict_init, Cells
<1>3. UNION {InUse[s] : s \in Slots} = {}
  BY <1>1
<1>4. \A s \in Slots : \A i, j \in 1..Len(chain[s]) : i = j
  BY <1>1, EmptySeq
<1>. QED BY <1>1, <1>2, <1>3, <1>4 DEF StructInv, CellsConserved, NothingBehindEmptyHead

LEMMA StructNext == TypeOK /\ TypeOK' /\ StructInv /\ [Next]_vars => StructInv'
<1>. SUFFICES ASSUME TypeOK, TypeOK', StructInv, [Next]_vars PROVE StructInv'
  OBVIOUS
<1>1. ASSUME NEW k \in Hashable, NEW v \in Vals, dict_setitem(k, v) PROVE StructInv'
  BY <1>1, StructSetEmpty, StructSetExisting, StructSetNew, StructFault
     DEF dict_setitem, SetNewFreed, SetNewNoMemory, Fault
<1>2. ASSUME NEW k \in Hashable, find_and_remove_bucket(k) PROVE StructInv'
  BY <1>2, StructRemove, StructFault DEF find_and_remove_bucket, RemoveFromEmpty, Fault
<1>3. CASE DyDict_Clear
  BY <1>3, StructClean, StructFault DEF DyDict_Clear, CleanFreed, Fault
<1>4. CASE dict_destroy
  BY <1>4, StructClean, StructFault DEF dict_destroy, CleanFreed, Fault
<1>5. CASE UNCHANGED vars
  BY <1>5, StructFault DEF vars
<1>6. CASE DyDict_IterNoMemory
  BY <1>6, StructFault DEF DyDict_IterNoMemory, Fault
<1>. QED BY <1>1, <1>2, <1>3, <1>4, <1>5, <1>6 DEF Next

\* No cell of a block is lost, linked twice, or on a freelist while linked,
\* and an empty table bucket has no chain behind it: for all sizes and hashes.
THEOREM CellsAreConserved == Spec => [](CellsConserved /\ NothingBehindEmptyHead)
<1>1. Init => TypeOK /\ StructInv
  BY InitType, StructInit
<1>2. TypeOK /\ StructInv /\ [Next]_vars => (TypeOK /\ StructInv)'
  BY NextType, StructNext
<1>3. TypeOK /\ StructInv => CellsConserved /\ NothingBehindEmptyHead
  BY DEF StructInv
<1>. QED BY <1>1, <1>2, <1>3, PTL DEF Spec
-----------------------------------------------------------------------------
(* Keys: unique, in their slot, and found.                                 *)

KeysInv == \A s \in Slots :
              /\ \A i \in Positions(s) : SlotOf(KeyAt(s, i)) = s
              /\ \A i, j \in Positions(s) : Dy_Equals(KeyAt(s, i), KeyAt(s, j)) => i = j

\* A step after which every slot's keys are (up to equality) keys it had
\* before, at positions that stay apart, keeps the keys unique.
LEMMA KeysFromBefore ==
    ASSUME KeysInv, NEW f,
           \A t \in Slots : \A p \in Positions(t)' :
               /\ f[t][p] \in Positions(t)
               /\ SlotOf(KeyAt(t, p)') = SlotOf(KeyAt(t, f[t][p]))
               /\ ContentOf[KeyAt(t, p)'] = ContentOf[KeyAt(t, f[t][p])],
           \A t \in Slots : \A p, q \in Positions(t)' : f[t][p] = f[t][q] => p = q
    PROVE  KeysInv'
<1>. SUFFICES ASSUME NEW t \in Slots
              PROVE  /\ \A i \in Positions(t)' : SlotOf(KeyAt(t, i)') = t
                     /\ \A i, j \in Positions(t)' :
                            Dy_Equals(KeyAt(t, i)', KeyAt(t, j)') => i = j
  BY DEF KeysInv, SlotOf, Dy_Equals
<1>1. \A i \in Positions(t)' : SlotOf(KeyAt(t, i)') = t
  BY DEF KeysInv
<1>2. ASSUME NEW i \in Positions(t)', NEW j \in Positions(t)',
             Dy_Equals(KeyAt(t, i)', KeyAt(t, j)')
      PROVE  i = j
  <2>1. Dy_Equals(KeyAt(t, f[t][i]), KeyAt(t, f[t][j]))
    BY <1>2 DEF Dy_Equals
  <2>2. f[t][i] = f[t][j]
    BY <2>1 DEF KeysInv
  <2>. QED BY <2>2
<1>. QED BY <1>1, <1>2

LEMMA KeysSetEmpty ==
    ASSUME TypeOK, StructInv, KeysInv, NEW k \in Hashable, NEW v \in Vals,
           SetEmptySlot(k, v)
    PROVE  KeysInv'
<1>. PICK s : s = SlotOf(k)
  OBVIOUS
<1>1. s \in Slots /\ Empty(s) /\ chain[s] = <<>> /\ UNCHANGED chain
  BY SlotOfType DEF StructInv, NothingBehindEmptyHead, SetEmptySlot
<1>2. head' = [head EXCEPT ![s] = [key |-> k, val |-> v]]
  BY DEF SetEmptySlot
<1>3. Positions(s)' = {0} /\ KeyAt(s, 0)' = k
  <2>1. head'[s].key = k /\ k # NULL /\ Len(chain'[s]) = 0
    BY <1>1, <1>2, DictAssumption, EmptySeq DEF TypeOK
  <2>. QED BY <2>1 DEF Positions, KeyAt, Empty
<1>4. ASSUME NEW t \in Slots \ {s}
      PROVE  Positions(t)' = Positions(t) /\ \A p : KeyAt(t, p)' = KeyAt(t, p)
  BY <1>1, <1>2 DEF Positions, KeyAt, Empty, TypeOK
<1>5. \A p : SlotOf(KeyAt(s, p))' = SlotOf(KeyAt(s, p)')
  BY DEF SlotOf
<1>. SUFFICES ASSUME NEW t \in Slots
              PROVE  /\ \A i \in Positions(t)' : SlotOf(KeyAt(t, i)') = t
                     /\ \A i, j \in Positions(t)' :
                            Dy_Equals(KeyAt(t, i)', KeyAt(t, j)') => i = j
  BY DEF KeysInv, SlotOf, Dy_Equals
<1>6. CASE t = s
  BY <1>3, <1>6
<1>7. CASE t # s
  BY <1>4, <1>7 DEF KeysInv
<1>. QED BY <1>6, <1>7

LEMMA KeysSetExisting ==
    ASSUME TypeOK, KeysInv, NEW k \in Hashable, NEW v \in Vals, SetExisting(k, v)
    PROVE  KeysInv'
<1>. PICK s, i : s = SlotOf(k) /\ i = First(matching(k))
  OBVIOUS
<1>0. Overwrite(s, i, k, v)
  BY DEF SetExisting
<1>1. s \in Slots /\ chain[s] \in Seq(BucketType) /\ Len(chain[s]) \in Nat
  BY SlotOfType, LenProperties DEF TypeOK
<1>2. i \in matching(k)
  BY PositionSets, FirstInSet DEF SetExisting, Positions
<1>3. i \in Positions(s) /\ Dy_Equals(k, KeyAt(s, i)) /\ ~Empty(s) /\ i \in 0..Len(chain[s])
  BY <1>2 DEF matching, Positions
<1>4. SlotOf(KeyAt(s, i)) = s
  BY <1>1, <1>3 DEF KeysInv
<1>5. \A t \in Slots : /\ Positions(t)' = Positions(t)
                       /\ \A p \in Positions(t) :
                            KeyAt(t, p)' = IF t = s /\ p = i THEN k ELSE KeyAt(t, p)
  <2>1. CASE i = 0
    <3>1. head' = [head EXCEPT ![s] = [key |-> k, val |-> v]] /\ UNCHANGED chain
      BY <1>0, <2>1 DEF Overwrite
    <3>2. head'[s].key = k /\ k # NULL /\ \A t \in Slots \ {s} : head'[t] = head[t]
      BY <1>1, <3>1, DictAssumption DEF TypeOK
    <3>. QED BY <1>1, <1>3, <2>1, <3>1, <3>2 DEF Positions, KeyAt, Empty
  <2>2. CASE i # 0
    <3>1. i \in 1..Len(chain[s])
      BY <1>1, <1>3, <2>2
    <3>. DEFINE b == [chain[s][i] EXCEPT !.key = k, !.val = v]
    <3>2. chain[s][i] \in BucketType
      BY <1>1, <3>1, ElementOfSeq
    <3>3. b.key = k /\ b \in BucketType
      BY <3>2 DEF BucketType
    <3>4. chain' = [chain EXCEPT ![s] = [chain[s] EXCEPT ![i] = b]] /\ UNCHANGED head
      BY <1>0, <1>1, <2>2 DEF Overwrite, TypeOK
    <3>. HIDE DEF b
    <3>5. /\ Len([chain[s] EXCEPT ![i] = b]) = Len(chain[s])
          /\ \A j \in 1..Len(chain[s]) :
                [chain[s] EXCEPT ![i] = b][j] = IF j = i THEN b ELSE chain[s][j]
      BY <1>1, <3>1, <3>3, ExceptSeq
    <3>6. chain'[s] = [chain[s] EXCEPT ![i] = b] /\ \A t \in Slots \ {s} : chain'[t] = chain[t]
      BY <1>1, <3>4 DEF TypeOK
    <3>7. \A t \in Slots : Positions(t)' = Positions(t)
      BY <3>4, <3>5, <3>6 DEF Positions, Empty
    <3>8. ASSUME NEW t \in Slots, NEW p \in Positions(t)
          PROVE  KeyAt(t, p)' = IF t = s /\ p = i THEN k ELSE KeyAt(t, p)
      <4>1. CASE t # s
        BY <3>4, <3>6, <4>1 DEF KeyAt
      <4>2. CASE t = s /\ p = 0
        BY <2>2, <3>4, <4>2 DEF KeyAt
      <4>3. CASE t = s /\ p # 0
        <5>1. p \in 1..Len(chain[s])
          BY <1>1, <4>3 DEF Positions
        <5>. QED BY <3>3, <3>5, <3>6, <4>3, <5>1 DEF KeyAt
      <4>. QED BY <4>1, <4>2, <4>3
    <3>. QED BY <3>7, <3>8
  <2>. QED BY <2>1, <2>2
<1>. DEFINE f == [t \in Slots |-> [p \in Positions(t) |-> p]]
<1>6. \A t \in Slots : \A p \in Positions(t)' :
        /\ f[t][p] = p /\ p \in Positions(t)
        /\ SlotOf(KeyAt(t, p)') = SlotOf(KeyAt(t, p))
        /\ ContentOf[KeyAt(t, p)'] = ContentOf[KeyAt(t, p)]
  BY <1>3, <1>4, <1>5 DEF Dy_Equals
<1>. HIDE DEF f
<1>. QED BY <1>6, KeysFromBefore

LEMMA KeysInsert ==
    ASSUME TypeOK, KeysInv, HashConsistent, NEW k \in Hashable, NEW v,
           ~Empty(SlotOf(k)), matching(k) = {}, UNCHANGED head,
           NEW avail, NEW c, Insert(SlotOf(k), c, k, v, avail)
    PROVE  KeysInv'
<1>. PICK s : s = SlotOf(k)
  OBVIOUS
<1>1. s \in Slots /\ chain[s] \in Seq(BucketType) /\ Len(chain[s]) \in Nat
  BY SlotOfType, LenProperties DEF TypeOK
<1>. DEFINE b == [cell |-> c, key |-> k, val |-> v]
            n == Len(chain[s])
<1>2. /\ Len(<<b>> \o chain[s]) = n + 1
      /\ \A j \in 1..(n + 1) : (<<b>> \o chain[s])[j] = IF j = 1 THEN b ELSE chain[s][j - 1]
  <2>1. chain[s] \in Seq(BucketType \cup {b})
    BY <1>1, SeqMonotonic
  <2>. QED BY <2>1, PrependProperties
<1>3. chain'[s] = <<b>> \o chain[s] /\ \A t \in Slots \ {s} : chain'[t] = chain[t]
  BY <1>1 DEF Insert, TypeOK
<1>4. Positions(s) = 0..n /\ Positions(s)' = 0..(n + 1)
  BY <1>2, <1>3 DEF Positions, Empty
<1>5. KeyAt(s, 0)' = KeyAt(s, 0) /\ KeyAt(s, 1)' = k
  BY <1>1, <1>2, <1>3 DEF KeyAt
<1>6. ASSUME NEW p \in 2..(n + 1) PROVE KeyAt(s, p)' = KeyAt(s, p - 1)
  <2>1. p \in 1..(n + 1) /\ p # 1 /\ p - 1 # 0 /\ p # 0
    BY <1>1
  <2>2. chain'[s][p] = chain[s][p - 1]
    BY <1>2, <1>3, <2>1
  <2>. QED BY <2>1, <2>2 DEF KeyAt
<1>7. \A p \in 0..n : ~Dy_Equals(k, KeyAt(s, p))
  <2>. SUFFICES ASSUME NEW p \in 0..n, Dy_Equals(k, KeyAt(s, p)) PROVE FALSE
    OBVIOUS
  <2>1. KeyAt(s, p) \in Hashable
    BY <1>1, <1>4, StoredType
  <2>2. HashOf[KeyAt(s, p)] = HashOf[k]
    BY <2>1 DEF HashConsistent, Dy_Equals
  <2>. QED BY <1>4, <2>2 DEF matching
<1>8. ASSUME NEW t \in Slots \ {s}
      PROVE  Positions(t)' = Positions(t) /\ \A p : KeyAt(t, p)' = KeyAt(t, p)
  BY <1>3 DEF Positions, KeyAt, Empty
<1>. SUFFICES ASSUME NEW t \in Slots
              PROVE  /\ \A i \in Positions(t)' : SlotOf(KeyAt(t, i)') = t
                     /\ \A i, j \in Positions(t)' :
                            Dy_Equals(KeyAt(t, i)', KeyAt(t, j)') => i = j
  BY DEF KeysInv, SlotOf, Dy_Equals
<1>9. CASE t # s
  BY <1>8, <1>9 DEF KeysInv
<1>10. CASE t = s
  <2>1. ASSUME NEW p \in 0..(n + 1), p # 1
        PROVE  \E q \in 0..n : /\ q = (IF p = 0 THEN 0 ELSE p - 1)
                              /\ KeyAt(s, p)' = KeyAt(s, q)
    <3>1. CASE p = 0
      BY <1>1, <1>5, <3>1
    <3>2. CASE p # 0
      <4>1. p \in 2..(n + 1) /\ p - 1 \in 0..n
        BY <1>1, <2>1, <3>2
      <4>. QED BY <1>6, <3>2, <4>1
    <3>. QED BY <3>1, <3>2
  <2>2. \A p \in 0..(n + 1) : SlotOf(KeyAt(s, p)') = s
    BY <1>1, <1>4, <1>5, <2>1 DEF KeysInv
  <2>3. ASSUME NEW i \in 0..(n + 1), NEW j \in 0..(n + 1),
               Dy_Equals(KeyAt(s, i)', KeyAt(s, j)')
        PROVE  i = j
    <3>1. CASE i = 1 /\ j = 1
      BY <3>1
    <3>2. CASE i = 1 /\ j # 1
      BY <1>5, <1>7, <2>1, <2>3, <3>2
    <3>3. CASE i # 1 /\ j = 1
      BY <1>5, <1>7, <2>1, <2>3, <3>3 DEF Dy_Equals
    <3>4. CASE i # 1 /\ j # 1
      <4>1. PICK p \in 0..n : p = (IF i = 0 THEN 0 ELSE i - 1) /\ KeyAt(s, i)' = KeyAt(s, p)
        BY <2>1, <3>4
      <4>2. PICK q \in 0..n : q = (IF j = 0 THEN 0 ELSE j - 1) /\ KeyAt(s, j)' = KeyAt(s, q)
        BY <2>1, <3>4
      <4>3. p = q
        BY <1>1, <1>4, <2>3, <4>1, <4>2 DEF KeysInv
      <4>. QED BY <3>4, <4>1, <4>2, <4>3
    <3>. QED BY <3>1, <3>2, <3>3, <3>4
  <2>. QED BY <1>4, <1>10, <2>2, <2>3
<1>. QED BY <1>9, <1>10

LEMMA KeysRemove ==
    ASSUME TypeOK, KeysInv, NEW k \in Hashable, Remove(k)
    PROVE  KeysInv'
<1>. PICK s, i : s = SlotOf(k) /\ i = First(equal(k))
  OBVIOUS
<1>0. /\ ~Empty(s)
      /\ IF i > 0 THEN Unlink(s, i)
         ELSE IF chain[s] = <<>> THEN Invalidate(s) ELSE PullSecond(s)
  BY DEF Remove
<1>1. s \in Slots /\ chain[s] \in Seq(BucketType) /\ Len(chain[s]) \in Nat
  BY SlotOfType, LenProperties DEF TypeOK
<1>2. i \in 0..Len(chain[s])
  BY PositionSets, FirstInSet DEF Remove, Positions
<1>. DEFINE n == Len(chain[s])
<1>3. ASSUME NEW t \in Slots \ {s}
      PROVE  Positions(t)' = Positions(t) /\ \A p : KeyAt(t, p)' = KeyAt(t, p)
  <2>1. head'[t] = head[t] /\ chain'[t] = chain[t]
    BY <1>0, <1>1 DEF Unlink, Invalidate, PullSecond, TypeOK
  <2>. QED BY <2>1 DEF Positions, KeyAt, Empty
<1>4. Positions(s) = 0..n
  BY <1>0 DEF Positions
\* Every position left over held its key one position further back, or there.
<1>5. \A p \in Positions(s)' : \E q \in Positions(s) :
          q = (IF p < i THEN p ELSE p + 1) /\ KeyAt(s, p)' = KeyAt(s, q)
  <2>1. CASE i > 0
    <3>1. i \in 1..n
      BY <1>1, <1>2, <2>1
    <3>2. chain'[s] = RemoveAt(chain[s], i) /\ UNCHANGED head
      BY <1>0, <1>1, <2>1 DEF Unlink, TypeOK
    <3>3. /\ Len(chain'[s]) = n - 1
          /\ \A j \in 1..(n - 1) : chain'[s][j] = IF j < i THEN chain[s][j] ELSE chain[s][j + 1]
      <4>1. /\ Len(RemoveAt(chain[s], i)) = Len(chain[s]) - 1
            /\ \A j \in 1..(Len(chain[s]) - 1) :
                 RemoveAt(chain[s], i)[j] = IF j < i THEN chain[s][j] ELSE chain[s][j + 1]
        BY <1>1, <3>1, RemoveAtProperties
      <4>. QED BY <3>2, <4>1
    <3>4. Positions(s)' = 0..(n - 1)
      BY <1>0, <3>2, <3>3 DEF Positions, Empty
    <3>5. ASSUME NEW p \in 0..(n - 1)
          PROVE  \E q \in 0..n : q = (IF p < i THEN p ELSE p + 1) /\ KeyAt(s, p)' = KeyAt(s, q)
      <4>1. CASE p = 0
        BY <1>1, <2>1, <3>2, <4>1 DEF KeyAt
      <4>2. CASE p # 0
        <5>1. p \in 1..(n - 1) /\ p \in 0..n /\ p + 1 \in 0..n /\ p + 1 # 0
          BY <1>1, <4>2
        <5>. QED BY <3>3, <4>2, <5>1 DEF KeyAt
      <4>. QED BY <4>1, <4>2
    <3>. QED BY <1>4, <3>4, <3>5
  <2>2. CASE ~(i > 0) /\ chain[s] = <<>>
    <3>1. head'[s].key = NULL
      BY <1>0, <1>1, <2>2 DEF Invalidate, TypeOK
    <3>. QED BY <3>1 DEF Positions, Empty
  <2>3. CASE ~(i > 0) /\ chain[s] # <<>>
    <3>1. 1 \in 1..n /\ i = 0
      BY <1>1, <1>2, <2>3, EmptySeq
    <3>0. PullSecond(s)
      BY <1>0, <2>3
    <3>2. chain'[s] = RemoveAt(chain[s], 1) /\ head'[s].key = chain[s][1].key
      BY <1>1, <3>0 DEF PullSecond, TypeOK
    <3>3. /\ Len(chain'[s]) = n - 1
          /\ \A j \in 1..(n - 1) : chain'[s][j] = chain[s][j + 1]
      <4>1. \A j \in 1..(n - 1) : ~(j < 1)
        BY <1>1
      <4>. QED BY <1>1, <3>1, <3>2, <4>1, RemoveAtProperties
    <3>4. Positions(s)' \subseteq 0..(n - 1)
      BY <3>3 DEF Positions
    <3>5. ASSUME NEW p \in 0..(n - 1)
          PROVE  \E q \in 0..n : q = p + 1 /\ KeyAt(s, p)' = KeyAt(s, q)
      <4>1. CASE p = 0
        BY <1>1, <3>1, <3>2, <4>1 DEF KeyAt
      <4>2. CASE p # 0
        <5>1. p \in 1..(n - 1) /\ p + 1 \in 0..n /\ p + 1 # 0
          BY <1>1, <4>2
        <5>. QED BY <3>3, <4>2, <5>1 DEF KeyAt
      <4>. QED BY <4>1, <4>2
    <3>6. \A p \in 0..(n - 1) : ~(p < i)
      BY <1>1, <3>1
    <3>. QED BY <1>4, <3>4, <3>5, <3>6
  <2>. QED BY <2>1, <2>2, <2>3
<1>6. \A p \in Positions(s)' : p \in Int
  BY <1>1, <1>0 DEF Positions, Unlink, Invalidate, PullSecond
<1>. SUFFICES ASSUME NEW t \in Slots
              PROVE  /\ \A p \in Positions(t)' : SlotOf(KeyAt(t, p)') = t
                     /\ \A p, q \in Positions(t)' :
                            Dy_Equals(KeyAt(t, p)', KeyAt(t, q)') => p = q
  BY DEF KeysInv, SlotOf, Dy_Equals
<1>7. CASE t # s
  BY <1>3, <1>7 DEF KeysInv
<1>8. CASE t = s
  <2>1. \A p \in Positions(s)' : SlotOf(KeyAt(s, p)') = s
    BY <1>1, <1>5 DEF KeysInv
  <2>2. ASSUME NEW p \in Positions(s)', NEW q \in Positions(s)',
               Dy_Equals(KeyAt(s, p)', KeyAt(s, q)')
        PROVE  p = q
    <3>1. PICK a \in Positions(s) : a = (IF p < i THEN p ELSE p + 1) /\ KeyAt(s, p)' = KeyAt(s, a)
      BY <1>5
    <3>2. PICK b \in Positions(s) : b = (IF q < i THEN q ELSE q + 1) /\ KeyAt(s, q)' = KeyAt(s, b)
      BY <1>5
    <3>3. a = b
      BY <1>1, <2>2, <3>1, <3>2 DEF KeysInv
    <3>. QED BY <1>2, <1>6, <3>1, <3>2, <3>3
  <2>. QED BY <1>8, <2>1, <2>2
<1>. QED BY <1>7, <1>8

LEMMA KeysUnchanged ==
    ASSUME KeysInv, UNCHANGED <<head, chain>>
    PROVE  KeysInv'
BY DEF KeysInv, Positions, KeyAt, Empty, SlotOf, Dy_Equals

LEMMA KeysNext ==
    ASSUME HashConsistent, TypeOK, StructInv, KeysInv, [Next]_vars
    PROVE  KeysInv'
<1>1. ASSUME NEW k \in Hashable, NEW v \in Vals, dict_setitem(k, v) PROVE KeysInv'
  <2>1. CASE SetNew(k, v)
    <3>1. \E avail, c : Insert(SlotOf(k), c, k, v, avail)
      BY <2>1 DEF SetNew
    <3>. QED BY <2>1, <3>1, KeysInsert DEF SetNew
  <2>2. CASE SetNewFreed(k) \/ SetNewNoMemory(k)
    BY <2>2, KeysUnchanged DEF SetNewFreed, SetNewNoMemory, Fault, mem
  <2>. QED BY <1>1, <2>1, <2>2, KeysSetEmpty, KeysSetExisting DEF dict_setitem
<1>2. ASSUME NEW k \in Hashable, find_and_remove_bucket(k) PROVE KeysInv'
  BY <1>2, KeysRemove, KeysUnchanged DEF find_and_remove_bucket, RemoveFromEmpty, Fault, mem
<1>3. CASE dict_clean
  BY <1>3 DEF dict_clean, KeysInv, Positions, Empty, TypeOK
<1>4. CASE CleanFreed \/ DyDict_IterNoMemory \/ UNCHANGED vars
  BY <1>4, KeysUnchanged DEF CleanFreed, DyDict_IterNoMemory, Fault, mem, vars
<1>. QED BY <1>1, <1>2, <1>3, <1>4 DEF Next, DyDict_Clear, dict_destroy

LEMMA KeysFound ==
    ASSUME HashConsistent, TypeOK, KeysInv
    PROVE  EntriesFindable
<1>. SUFFICES ASSUME NEW k \in Hashable
              PROVE  LET stored == {b \in Buckets : Dy_Equals(k, KeyAt(b[1], b[2]))}
                     IN  /\ stored = {<<SlotOf(k), i>> : i \in find_bucket(k)}
                         /\ Cardinality(stored) <= 1
  BY DEF EntriesFindable
<1>. DEFINE stored == {b \in Buckets : Dy_Equals(k, KeyAt(b[1], b[2]))}
            found == {<<SlotOf(k), i>> : i \in find_bucket(k)}
<1>1. ASSUME NEW s \in Slots, NEW i \in Positions(s), Dy_Equals(k, KeyAt(s, i))
      PROVE  s = SlotOf(k) /\ i \in find_bucket(k)
  <2>1. KeyAt(s, i) \in Hashable
    BY StoredType
  <2>2. HashOf[KeyAt(s, i)] = HashOf[k]
    BY <1>1, <2>1 DEF HashConsistent, Dy_Equals
  <2>3. SlotOf(KeyAt(s, i)) = SlotOf(k)
    BY <2>2 DEF SlotOf
  <2>4. s = SlotOf(k)
    BY <2>3 DEF KeysInv
  <2>. QED BY <1>1, <2>2, <2>4 DEF find_bucket
<1>2. ASSUME NEW b PROVE b \in Buckets <=> \E s \in Slots : \E i \in Positions(s) : b = <<s, i>>
  BY DEF Buckets
<1>3. ASSUME NEW b \in stored PROVE b \in found
  <2>0. PICK s \in Slots : \E i \in Positions(s) : b = <<s, i>>
    BY <1>2
  <2>1. PICK i \in Positions(s) : b = <<s, i>>
    BY <2>0
  <2>2. Dy_Equals(k, KeyAt(s, i))
    BY <2>1
  <2>. QED BY <1>1, <2>1, <2>2
<1>4. ASSUME NEW b \in found PROVE b \in stored
  <2>1. PICK i \in find_bucket(k) : b = <<SlotOf(k), i>>
    OBVIOUS
  <2>2. i \in Positions(SlotOf(k)) /\ Dy_Equals(k, KeyAt(SlotOf(k), i))
    BY DEF find_bucket
  <2>3. b \in Buckets
    BY <1>2, <2>1, <2>2, SlotOfType
  <2>. QED BY <2>1, <2>2, <2>3
<1>5. \A i, j \in find_bucket(k) : i = j
  BY SlotOfType DEF find_bucket, KeysInv, Dy_Equals
<1>6. Cardinality(stored) <= 1
  <2>1. CASE find_bucket(k) = {}
    <3>1. stored = {}
      BY <1>3, <2>1
    <3>2. Cardinality(stored) = 0
      BY <3>1, FS_EmptySet
    <3>. QED BY <3>2
  <2>2. CASE find_bucket(k) # {}
    <3>1. PICK i \in find_bucket(k) : TRUE
      BY <2>2
    <3>2. stored = {<<SlotOf(k), i>>}
      BY <1>3, <1>4, <1>5
    <3>3. Cardinality(stored) = 1
      BY <3>2, FS_Singleton
    <3>. QED BY <3>3
  <2>. QED BY <2>1, <2>2
<1>. QED BY <1>3, <1>4, <1>6

\* If equal keys hash alike, a key is stored at most once and every stored
\* entry is found: for every set of keys, and every table and block size.
THEOREM KeysAreUnique ==
    ASSUME HashConsistent
    PROVE  Spec => []EntriesFindable
<1>1. Init => TypeOK /\ StructInv /\ KeysInv
  <2>1. Init => KeysInv
    BY DEF Init, dict_init, KeysInv, Positions, Empty
  <2>. QED BY <2>1, InitType, StructInit
<1>2. TypeOK /\ StructInv /\ KeysInv /\ [Next]_vars => (TypeOK /\ StructInv /\ KeysInv)'
  BY NextType, StructNext, KeysNext
<1>3. TypeOK /\ StructInv /\ KeysInv => EntriesFindable
  BY KeysFound
<1>. QED BY <1>1, <1>2, <1>3, PTL DEF Spec
=============================================================================
