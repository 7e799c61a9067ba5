---------------------------- MODULE InternProofs ----------------------------
(***************************************************************************)
(* Proofs about Intern, for any strings, texts, hashes and sizes, while    *)
(* the hash field of a string is right (RightHashes).                      *)
(***************************************************************************)
EXTENDS Intern, FiniteSetTheorems, SequenceTheorems, TLAPS

\* The hash of a new string is that of its text.
RightHashes == \A txt \in Texts : Uninit[txt] \subseteq {HashOf[txt]}

Bucket == [cell : (Nat \X Nat) \cup {Table}, item : Strs]

TypeInv == /\ status \in [Strs -> {"none", "live", "dying"}]
           /\ refcnt \in [Strs -> Int]
           /\ text \in [Strs -> Texts \cup {NULL}]
           /\ hash \in [Strs -> Nat]
           /\ interned \in [Strs -> BOOLEAN]
           /\ table \in [Slots -> Seq(Bucket)]
           /\ blocks \in Nat
           /\ free \subseteq Cells
           /\ freeing \in [Threads -> Strs \cup {NULL}]

Pos(s)     == 1..Len(table[s])
Item(s, i) == table[s][i].item
Cell(s, i) == table[s][i].cell
-----------------------------------------------------------------------------
(* Chains.                                                                 *)

\* Every non-empty set of positions has a first one.
LEMMA FirstInSet ==
  ASSUME NEW S \in SUBSET Nat, S # {}
  PROVE  First(S) \in S
<1>1. PICK x \in S : \A y \in S : ~(<<y, x>> \in OpToRel(<, Nat))
  BY WFMin, NatLessThanWellFounded
<1>2. \A y \in S : ~(y < x)
  BY <1>1 DEF OpToRel
<1>3. \A y \in S : x <= y
  BY <1>2
<1> QED BY <1>3 DEF First

LEMMA SlotType == \A h \in Nat : Slot(h) \in Slots
  BY InternAssumption DEF Slot, Slots

\* The chains after e was put behind the first element, after element i was taken
\* out, and after the second was pulled over the first.
LEMMA SecondPut ==
  ASSUME NEW S, NEW c \in Seq(S), c # <<>>, NEW e \in S
  PROVE  /\ <<Head(c), e>> \o Tail(c) \in Seq(S)
         /\ Len(<<Head(c), e>> \o Tail(c)) = Len(c) + 1
         /\ \A j \in 1..(Len(c) + 1) :
              (<<Head(c), e>> \o Tail(c))[j] = IF j = 1 THEN c[1] ELSE IF j = 2 THEN e ELSE c[j - 1]
<1>1. Tail(c) \in Seq(S) /\ Len(Tail(c)) = Len(c) - 1 /\ Head(c) = c[1] /\ c[1] \in S
      /\ \A j \in 1..(Len(c) - 1) : Tail(c)[j] = c[j + 1]
  OBVIOUS
<1>2. <<Head(c), e>> \in Seq(S) /\ Len(<<Head(c), e>>) = 2
  BY <1>1
<1> QED BY <1>1, <1>2

LEMMA OneTaken ==
  ASSUME NEW S, NEW c \in Seq(S), NEW i \in 1..Len(c)
  PROVE  /\ RemoveAt(c, i) \in Seq(S)
         /\ Len(RemoveAt(c, i)) = Len(c) - 1
         /\ \A j \in 1..(Len(c) - 1) : RemoveAt(c, i)[j] = IF j < i THEN c[j] ELSE c[j + 1]
<1>1. /\ SubSeq(c, 1, i - 1) \in Seq(S) /\ Len(SubSeq(c, 1, i - 1)) = i - 1
      /\ \A j \in 1..(i - 1) : SubSeq(c, 1, i - 1)[j] = c[j]
  BY SubSeqProperties
<1>2. /\ SubSeq(c, i + 1, Len(c)) \in Seq(S) /\ Len(SubSeq(c, i + 1, Len(c))) = Len(c) - i
      /\ \A j \in 1..(Len(c) - i) : SubSeq(c, i + 1, Len(c))[j] = c[i + j]
  BY SubSeqProperties
<1> DEFINE a == SubSeq(c, 1, i - 1)
           b == SubSeq(c, i + 1, Len(c))
<1>3. a \in Seq(S) /\ b \in Seq(S) /\ Len(a) = i - 1 /\ Len(b) = Len(c) - i
  BY <1>1, <1>2
<1>4. \A j \in 1..(Len(c) - 1) : (a \o b)[j] = IF j < i THEN c[j] ELSE c[j + 1]
  <2> SUFFICES ASSUME NEW j \in 1..(Len(c) - 1)
               PROVE  (a \o b)[j] = IF j < i THEN c[j] ELSE c[j + 1]
    OBVIOUS
  <2>1. CASE j < i
    <3>1. a[j] = c[j]
      BY <1>1, <2>1
    <3> HIDE DEF a, b
    <3> QED BY <1>3, <2>1, <3>1
  <2>2. CASE j >= i
    <3>1. b[j - (i - 1)] = c[j + 1]
      BY <1>2, <2>2
    <3> HIDE DEF a, b
    <3> QED BY <1>3, <2>2, <3>1
  <2>3. j < i \/ j >= i
    OBVIOUS
  <2> QED BY <2>1, <2>2, <2>3
<1>5. a \o b \in Seq(S) /\ Len(a \o b) = Len(c) - 1
  <2> HIDE DEF a, b
  <2> QED BY <1>3
<1> QED BY <1>4, <1>5 DEF RemoveAt

LEMMA SecondPulled ==
  ASSUME NEW c \in Seq(Bucket), Len(c) > 1
  PROVE  LET d == <<[cell |-> Table, item |-> c[2].item]>> \o SubSeq(c, 3, Len(c))
         IN  /\ d \in Seq(Bucket)
             /\ Len(d) = Len(c) - 1
             /\ \A j \in 1..(Len(c) - 1) :
                  d[j] = IF j = 1 THEN [cell |-> Table, item |-> c[2].item] ELSE c[j + 1]
<1> DEFINE b == [cell |-> Table, item |-> c[2].item]
<1>1. /\ SubSeq(c, 3, Len(c)) \in Seq(Bucket) /\ Len(SubSeq(c, 3, Len(c))) = Len(c) - 2
      /\ \A j \in 1..(Len(c) - 2) : SubSeq(c, 3, Len(c))[j] = c[j + 2]
  <2>1. \A i \in 3..Len(c) : c[i] \in Bucket
    OBVIOUS
  <2>2. 3 \in Int /\ Len(c) \in Int /\ Len(c) >= 2
    OBVIOUS
  <2> HIDE DEF Bucket
  <2>3. /\ SubSeq(c, 3, Len(c)) \in Seq(Bucket)
        /\ Len(SubSeq(c, 3, Len(c))) = IF 3 <= Len(c) THEN Len(c) - 3 + 1 ELSE 0
        /\ \A j \in 1..(Len(c) - 3 + 1) : SubSeq(c, 3, Len(c))[j] = c[3 + j - 1]
    BY <2>1, <2>2, SubSeqProperties
  <2>4. ASSUME NEW j \in 1..(Len(c) - 2) PROVE SubSeq(c, 3, Len(c))[j] = c[j + 2]
    <3>1. j \in 1..(Len(c) - 3 + 1) /\ 3 + j - 1 = j + 2
      BY <2>2
    <3> QED BY <2>3, <3>1
  <2> QED BY <2>2, <2>3, <2>4
<1>2. c[2] \in Bucket
  OBVIOUS
<1>3. b \in Bucket
  BY <1>2 DEF Bucket
<1> HIDE DEF b
<1>4. LET d == <<b>> \o SubSeq(c, 3, Len(c))
      IN  /\ d \in Seq(Bucket)
          /\ Len(d) = Len(c) - 1
          /\ \A j \in 1..(Len(c) - 1) : d[j] = IF j = 1 THEN b ELSE c[j + 1]
  BY <1>1, <1>3
<1> QED BY <1>4 DEF b
-----------------------------------------------------------------------------
(* Inserting: the item goes to position 1 of an empty chain, to 2 of another. *)

LEMMA InsertShape ==
  ASSUME TypeInv, NEW o \in Strs, NEW s \in Slots, NEW h, s = Slot(h), Insert(o, h)
  PROVE  LET p == IF table[s] = <<>> THEN 1 ELSE 2
         IN  /\ table' \in [Slots -> Seq(Bucket)]
             /\ \A r \in Slots \ {s} : table'[r] = table[r]
             /\ Len(table'[s]) = Len(table[s]) + 1
             /\ Len(table[s]) \in Nat /\ p - 1 <= Len(table[s])
             /\ \A i \in 1..(Len(table[s]) + 1) :
                  table'[s][i].item = IF i < p THEN Item(s, i)
                                      ELSE IF i = p THEN o ELSE Item(s, i - 1)
<1> DEFINE c == table[s]
<1>1. c \in Seq(Bucket) /\ table \in [Slots -> Seq(Bucket)] /\ Len(c) \in Nat
  BY DEF TypeInv
<1>2. CASE c = <<>>
  <2> DEFINE d == <<[cell |-> Table, item |-> o]>>
  <2>1. table' = [table EXCEPT ![s] = d]
    BY <1>2 DEF Insert
  <2>2. [cell |-> Table, item |-> o] \in Bucket
    BY DEF Bucket
  <2>3. d \in Seq(Bucket) /\ Len(d) = 1 /\ d[1].item = o
    BY <2>2
  <2>4. Len(c) = 0
    BY <1>2
  <2> HIDE DEF d
  <2> QED BY <1>1, <1>2, <2>1, <2>3, <2>4
<1>3. CASE c # <<>>
  <2>1. PICK a \in (IF free = {} THEN NewCells ELSE free) :
          table' = [table EXCEPT ![s] = <<Head(@), [cell |-> a, item |-> o]>> \o Tail(@)]
    BY <1>3 DEF Insert
  <2> DEFINE b == [cell |-> a, item |-> o]
             d == <<Head(c), b>> \o Tail(c)
  <2>2. table' = [table EXCEPT ![s] = d]
    BY <1>1, <2>1
  <2>3. a \in Nat \X Nat
    BY InternAssumption DEF NewCells, Cells, TypeInv
  <2>4. b \in Bucket /\ b.item = o
    BY <2>3 DEF Bucket
  <2> HIDE DEF b
  <2>5. /\ d \in Seq(Bucket) /\ Len(d) = Len(c) + 1
        /\ \A j \in 1..(Len(c) + 1) : d[j] = IF j = 1 THEN c[1] ELSE IF j = 2 THEN b ELSE c[j - 1]
    BY <1>1, <1>3, <2>4, SecondPut
  <2>6. Len(c) > 0
    BY <1>1, <1>3
  <2> HIDE DEF d
  <2>7. table'[s] = d /\ table' \in [Slots -> Seq(Bucket)] /\ \A r \in Slots \ {s} : table'[r] = table[r]
    BY <1>1, <2>2, <2>5
  <2>8. ASSUME NEW i \in 1..(Len(c) + 1)
        PROVE  d[i].item = IF i < 2 THEN Item(s, i) ELSE IF i = 2 THEN o ELSE Item(s, i - 1)
    BY <2>4, <2>5 DEF Item
  <2> QED BY <1>1, <1>3, <2>5, <2>6, <2>7, <2>8
<1> QED BY <1>2, <1>3

\* The table bucket is in no block; the buckets behind it are in cells that are not
\* free, each in another; and no cell is lost.
CellsOnce ==
    /\ \A s \in Slots : \A i \in Pos(s) : IF i = 1 THEN Cell(s, i) = Table ELSE Cell(s, i) \in Cells \ free
    /\ \A s, r \in Slots : \A i \in Pos(s) \ {1}, j \in Pos(r) \ {1} :
         Cell(s, i) = Cell(r, j) => s = r /\ i = j
    /\ \A c \in Cells \ free : \E s \in Slots : \E i \in Pos(s) \ {1} : Cell(s, i) = c

LEMMA InsertCells ==
  ASSUME TypeInv, CellsOnce, NEW o \in Strs, NEW s \in Slots, NEW h, s = Slot(h), Insert(o, h)
  PROVE  blocks' \in Nat /\ free' \subseteq Cells' /\ CellsOnce'
<1> DEFINE c == table[s]
           avail == IF free = {} THEN NewCells ELSE free
<1>1. c \in Seq(Bucket) /\ table \in [Slots -> Seq(Bucket)] /\ Len(c) \in Nat
      /\ blocks \in Nat /\ free \subseteq Cells
  BY DEF TypeInv
<1>2. CASE c = <<>>
  <2>1. /\ table' = [table EXCEPT ![s] = <<[cell |-> Table, item |-> o]>>]
        /\ blocks' = blocks /\ free' = free /\ Cells' = Cells
    BY <1>2 DEF Insert, Cells
  <2>2. table'[s] = <<[cell |-> Table, item |-> o]>> /\ \A r \in Slots \ {s} : table'[r] = table[r]
    BY <1>1, <2>1
  <2>3. Pos(s)' = {1} /\ Cell(s, 1)' = Table /\ Pos(s) = {}
    BY <1>2, <2>2 DEF Pos, Cell
  <2>4. \A r \in Slots \ {s} : Pos(r)' = Pos(r) /\ \A i : Cell(r, i)' = Cell(r, i)
    BY <2>2 DEF Pos, Cell
  <2>5. /\ \A r \in Slots : Pos(r)' \ {1} = Pos(r) \ {1}
        /\ \A r \in Slots : \A i \in Pos(r) \ {1} : Cell(r, i)' = Cell(r, i)
    BY <2>3, <2>4
  <2>6. \A r \in Slots : \A i \in Pos(r)' : IF i = 1 THEN Cell(r, i)' = Table ELSE Cell(r, i)' \in Cells \ free
    <3> SUFFICES ASSUME NEW r \in Slots, NEW i \in Pos(r)'
                 PROVE  IF i = 1 THEN Cell(r, i)' = Table ELSE Cell(r, i)' \in Cells \ free
      OBVIOUS
    <3>1. CASE r = s
      BY <2>3, <3>1
    <3>2. CASE r # s
      BY <2>4, <3>2 DEF CellsOnce
    <3> QED BY <3>1, <3>2
  <2>7. \A r, q \in Slots : \A i \in (Pos(r) \ {1})', j \in (Pos(q) \ {1})' :
          Cell(r, i)' = Cell(q, j)' => r = q /\ i = j
    BY <2>5 DEF CellsOnce
  <2>8. \A x \in Cells \ free : \E r \in Slots : \E i \in (Pos(r) \ {1})' : Cell(r, i)' = x
    BY <2>5 DEF CellsOnce
  <2> QED BY <1>1, <2>1, <2>6, <2>7, <2>8 DEF CellsOnce
<1>3. CASE c # <<>>
  <2>1. PICK a \in avail :
          /\ table' = [table EXCEPT ![s] = <<Head(@), [cell |-> a, item |-> o]>> \o Tail(@)]
          /\ blocks' = IF free = {} THEN blocks + 1 ELSE blocks
          /\ free' = avail \ {a}
    BY <1>3 DEF Insert
  <2>2. /\ a \in Nat \X Nat /\ avail \subseteq Cells' /\ Cells' = Cells \cup avail
        /\ Cells' \ avail = Cells \ free /\ blocks' \in Nat
    <3>1. CASE free = {}
      BY <1>1, <2>1, <3>1, InternAssumption DEF NewCells, Cells
    <3>2. CASE free # {}
      BY <1>1, <2>1, <3>2, InternAssumption DEF Cells
    <3> QED BY <3>1, <3>2
  <2>3. Cells' \ free' = (Cells \ free) \cup {a} /\ a \notin Cells \ free /\ free' \subseteq Cells'
    BY <2>1, <2>2
  <2> DEFINE b == [cell |-> a, item |-> o]
             d == <<Head(c), b>> \o Tail(c)
  <2>4. table' = [table EXCEPT ![s] = d]
    BY <1>1, <2>1
  <2>5. b \in Bucket /\ b.cell = a
    BY <2>2 DEF Bucket
  <2> HIDE DEF b
  <2>6. /\ Len(d) = Len(c) + 1
        /\ \A j \in 1..(Len(c) + 1) : d[j] = IF j = 1 THEN c[1] ELSE IF j = 2 THEN b ELSE c[j - 1]
    BY <1>1, <1>3, <2>5, SecondPut
  <2> HIDE DEF d
  <2>7. table'[s] = d /\ \A r \in Slots \ {s} : table'[r] = table[r]
    BY <1>1, <2>4
  <2>8. Len(c) > 0
    BY <1>1, <1>3
  <2>9. /\ Pos(s)' = 1..(Len(c) + 1) /\ Pos(s) = 1..Len(c)
        /\ Cell(s, 1)' = Cell(s, 1) /\ Cell(s, 2)' = a
        /\ \A i \in 2..Len(c) : Cell(s, i + 1)' = Cell(s, i)
        /\ \A i \in 3..(Len(c) + 1) : Cell(s, i)' = Cell(s, i - 1)
    BY <1>1, <2>5, <2>6, <2>7, <2>8 DEF Pos, Cell
  <2>10. \A r \in Slots \ {s} : Pos(r)' = Pos(r) /\ \A i : Cell(r, i)' = Cell(r, i)
    BY <2>7 DEF Pos, Cell
  <2>11. ASSUME NEW r \in Slots, NEW i \in Pos(r)' \ {1}
         PROVE  \/ r = s /\ i = 2 /\ Cell(r, i)' = a
                \/ LET k == IF r = s THEN i - 1 ELSE i
                   IN  k \in Pos(r) \ {1} /\ Cell(r, i)' = Cell(r, k)
    <3>1. CASE r = s
      BY <1>1, <2>8, <2>9, <3>1
    <3>2. CASE r # s
      BY <2>10, <3>2
    <3> QED BY <3>1, <3>2
  <2>12. ASSUME NEW r \in Slots, NEW i \in Pos(r)'
         PROVE  IF i = 1 THEN Cell(r, i)' = Table ELSE Cell(r, i)' \in Cells' \ free'
    <3>1. CASE i = 1
      <4>1. 1 \in Pos(r) /\ Cell(r, 1)' = Cell(r, 1)
        BY <1>1, <2>8, <2>9, <2>10, <3>1
      <4> QED BY <3>1, <4>1 DEF CellsOnce
    <3>2. CASE i # 1
      <4>1. \A k \in Pos(r) \ {1} : Cell(r, k) \in Cells \ free
        BY DEF CellsOnce
      <4> QED BY <2>3, <2>11, <3>2, <4>1
    <3> QED BY <3>1, <3>2
  <2>13. ASSUME NEW r \in Slots, NEW q \in Slots, NEW i \in Pos(r)' \ {1}, NEW j \in Pos(q)' \ {1},
                Cell(r, i)' = Cell(q, j)'
         PROVE  r = q /\ i = j
    <3>1. i \in Int /\ j \in Int
      BY <2>9, <2>10 DEF Pos, TypeInv
    <3>2. \A p \in Slots : \A k \in Pos(p) \ {1} : Cell(p, k) # a
      BY <2>3 DEF CellsOnce
    <3> QED BY <2>11, <2>13, <3>1, <3>2 DEF CellsOnce
  <2>14. ASSUME NEW x \in Cells' \ free' PROVE \E r \in Slots : \E i \in Pos(r)' \ {1} : Cell(r, i)' = x
    <3>1. CASE x = a
      BY <1>1, <2>8, <2>9, <3>1
    <3>2. CASE x # a
      <4>1. PICK r \in Slots : \E k \in Pos(r) \ {1} : Cell(r, k) = x
        BY <2>3, <3>2 DEF CellsOnce
      <4>2. PICK k \in Pos(r) \ {1} : Cell(r, k) = x
        BY <4>1
      <4>3. CASE r = s
        BY <1>1, <2>9, <4>2, <4>3
      <4>4. CASE r # s
        BY <2>10, <4>2, <4>4
      <4> QED BY <4>3, <4>4
    <3> QED BY <3>1, <3>2
  <2> QED BY <2>2, <2>3, <2>12, <2>13, <2>14 DEF CellsOnce
<1> QED BY <1>2, <1>3
-----------------------------------------------------------------------------
(* Removing: the item of position n goes, and the cell of position n, or of  *)
(* 2 if the item was in the table bucket.                                   *)

LEMMA RemoveShape ==
  ASSUME TypeInv, NEW o \in Strs, NEW s \in Slots, s = Slot(hash[o]),
         NEW n \in Pos(s), Equal(o) = {n}, string_unintern(o)
  PROVE  /\ table' \in [Slots -> Seq(Bucket)]
         /\ \A r \in Slots \ {s} : table'[r] = table[r]
         /\ Len(table[s]) \in Nat /\ Len(table'[s]) = Len(table[s]) - 1
         /\ \A i \in 1..(Len(table[s]) - 1) :
              table'[s][i].item = IF i < n THEN Item(s, i) ELSE Item(s, i + 1)
         /\ LET m == IF n = 1 THEN 2 ELSE n
            IN  /\ \A i \in 2..(Len(table[s]) - 1) :
                     table'[s][i].cell = IF i < m THEN Cell(s, i) ELSE Cell(s, i + 1)
                /\ Len(table[s]) > 1 => table'[s][1].cell \in {Table, Cell(s, 1)}
                /\ Len(table[s]) > 1 => free' = free \cup {Cell(s, m)}
                /\ Len(table[s]) = 1 => free' = free
         /\ blocks' = blocks
<1> DEFINE c == table[s]
<1>1. c \in Seq(Bucket) /\ table \in [Slots -> Seq(Bucket)] /\ Len(c) \in Nat /\ n \in 1..Len(c)
  BY DEF TypeInv, Pos
<1>2. First(Equal(o)) = n
  <2>1. {n} \in SUBSET Nat /\ {n} # {}
    BY <1>1
  <2> QED BY <2>1, FirstInSet
<1>3. Equal(o) # {}
  OBVIOUS
<1>4. CASE n > 1
  <2>1. table' = [table EXCEPT ![s] = RemoveAt(c, n)] /\ free' = free \cup {c[n].cell} /\ blocks' = blocks
    BY <1>2, <1>3, <1>4 DEF string_unintern
  <2>2. /\ RemoveAt(c, n) \in Seq(Bucket) /\ Len(RemoveAt(c, n)) = Len(c) - 1
        /\ \A j \in 1..(Len(c) - 1) : RemoveAt(c, n)[j] = IF j < n THEN c[j] ELSE c[j + 1]
    BY <1>1, OneTaken
  <2>3. table'[s] = RemoveAt(c, n) /\ table' \in [Slots -> Seq(Bucket)]
        /\ \A r \in Slots \ {s} : table'[r] = table[r]
    BY <1>1, <2>1, <2>2
  <2> QED BY <1>1, <1>4, <2>1, <2>2, <2>3 DEF Item, Cell
<1>5. CASE n = 1 /\ Len(c) = 1
  <2>1. table' = [table EXCEPT ![s] = <<>>] /\ free' = free /\ blocks' = blocks
    BY <1>2, <1>3, <1>5 DEF string_unintern
  <2>2. table'[s] = <<>> /\ table' \in [Slots -> Seq(Bucket)]
        /\ \A r \in Slots \ {s} : table'[r] = table[r]
    BY <1>1, <2>1
  <2> QED BY <1>1, <1>5, <2>1, <2>2 DEF Item, Cell
<1>6. CASE n = 1 /\ Len(c) > 1
  <2> DEFINE b == [cell |-> Table, item |-> c[2].item]
             d == <<b>> \o SubSeq(c, 3, Len(c))
  <2>1. table' = [table EXCEPT ![s] = d] /\ free' = free \cup {c[2].cell} /\ blocks' = blocks
    BY <1>1, <1>2, <1>3, <1>6 DEF string_unintern
  <2>2. /\ d \in Seq(Bucket) /\ Len(d) = Len(c) - 1
        /\ \A j \in 1..(Len(c) - 1) : d[j] = IF j = 1 THEN b ELSE c[j + 1]
    BY <1>1, <1>6, SecondPulled
  <2>3. b.cell = Table /\ b.item = c[2].item
    OBVIOUS
  <2> HIDE DEF b, d
  <2>4. table'[s] = d /\ table' \in [Slots -> Seq(Bucket)]
        /\ \A r \in Slots \ {s} : table'[r] = table[r]
    BY <1>1, <2>1, <2>2
  <2>5. \A i \in 1..(Len(c) - 1) : d[i].item = Item(s, i + 1)
    BY <1>1, <2>2, <2>3 DEF Item
  <2>6. \A i \in 2..(Len(c) - 1) : d[i].cell = Cell(s, i + 1)
    BY <1>1, <2>2 DEF Cell
  <2>7. d[1].cell = Table
    BY <1>1, <1>6, <2>2, <2>3
  <2> QED BY <1>1, <1>6, <2>1, <2>2, <2>4, <2>5, <2>6, <2>7 DEF Cell
<1>7. n > 1 \/ (n = 1 /\ Len(c) = 1) \/ (n = 1 /\ Len(c) > 1)
  <2>1. \A a, b \in Int : a \in 1..b => a > 1 \/ (a = 1 /\ b = 1) \/ (a = 1 /\ b > 1)
    OBVIOUS
  <2>2. n \in Int /\ Len(c) \in Int
    BY <1>1
  <2> QED BY <1>1, <2>1, <2>2, Zenon
<1> QED BY <1>4, <1>5, <1>6, <1>7, Zenon

LEMMA RemoveCells ==
  ASSUME TypeInv, CellsOnce, NEW o \in Strs, NEW s \in Slots, s = Slot(hash[o]),
         NEW n \in Pos(s), Equal(o) = {n}, string_unintern(o)
  PROVE  free' \subseteq Cells' /\ CellsOnce'
<1> DEFINE c == table[s]
           m == IF n = 1 THEN 2 ELSE n
<1>1. /\ \A r \in Slots \ {s} : table'[r] = table[r]
      /\ Len(c) \in Nat /\ Len(table'[s]) = Len(c) - 1 /\ n \in 1..Len(c)
      /\ \A i \in 2..(Len(c) - 1) : table'[s][i].cell = IF i < m THEN Cell(s, i) ELSE Cell(s, i + 1)
      /\ Len(c) > 1 => table'[s][1].cell \in {Table, Cell(s, 1)}
      /\ Len(c) > 1 => free' = free \cup {Cell(s, m)}
      /\ Len(c) = 1 => free' = free
      /\ Cells' = Cells
  BY RemoveShape DEF Pos, Cells
<1>2. /\ \A r \in Slots : Len(table[r]) \in Nat
      /\ \A r \in Slots : \A i \in Pos(r) : i \in Int
  BY DEF TypeInv, Pos
<1>3. /\ \A r \in Slots \ {s} : Pos(r)' = Pos(r) /\ \A i : Cell(r, i)' = Cell(r, i)
      /\ Pos(s) = 1..Len(c) /\ Pos(s)' = 1..(Len(c) - 1)
      /\ \A i \in 2..(Len(c) - 1) : Cell(s, i)' = IF i < m THEN Cell(s, i) ELSE Cell(s, i + 1)
      /\ Len(c) > 1 => Cell(s, 1)' \in {Table, Cell(s, 1)}
  BY <1>1 DEF Pos, Cell
<1>4. Len(c) > 1 => m \in Pos(s) \ {1}
  BY <1>1, <1>3
<1>5. /\ \A r \in Slots : \A i \in Pos(r) : IF i = 1 THEN Cell(r, i) = Table ELSE Cell(r, i) \in Cells \ free
      /\ \A q, r \in Slots : \A i \in Pos(q) \ {1}, j \in Pos(r) \ {1} :
           Cell(q, i) = Cell(r, j) => q = r /\ i = j
      /\ \A x \in Cells \ free : \E r \in Slots : \E i \in Pos(r) \ {1} : Cell(r, i) = x
  BY DEF CellsOnce
\* Where what is behind a table bucket was before.
<1>6. ASSUME NEW r \in Slots, NEW i \in Pos(r)' \ {1}
      PROVE  LET k == IF r = s /\ i >= m THEN i + 1 ELSE i
             IN  k \in Pos(r) \ {1} /\ Cell(r, i)' = Cell(r, k) /\ (r = s => k # m)
  <2>1. CASE r = s
    <3>1. i \in 2..(Len(c) - 1) /\ m \in 2..Len(c)
      BY <1>1, <1>3, <2>1
    <3>2. CASE i < m
      BY <1>1, <1>3, <2>1, <3>1, <3>2
    <3>3. CASE i >= m
      BY <1>1, <1>3, <2>1, <3>1, <3>3
    <3>4. i < m \/ i >= m
      <4>1. i \in Int /\ m \in Int
        BY <1>1, <3>1
      <4> QED BY <4>1
    <3> QED BY <3>2, <3>3, <3>4
  <2>2. CASE r # s
    BY <1>3, <2>2
  <2> QED BY <2>1, <2>2
<1>7. \A x : x \in free' <=> x \in free \/ (Len(c) > 1 /\ x = Cell(s, m))
  <2>1. Len(c) = 1 \/ Len(c) > 1
    <3>1. \A a, b \in Int : a \in 1..b => b = 1 \/ b > 1
      OBVIOUS
    <3>2. n \in Int /\ Len(c) \in Int
      BY <1>1
    <3> QED BY <1>1, <3>1, <3>2, Zenon
  <2> HIDE DEF m
  <2> QED BY <1>1, <2>1
<1>8. free' \subseteq Cells
  <2> HIDE DEF m
  <2>1. Len(c) > 1 => Cell(s, m) \in Cells
    BY <1>4, <1>5
  <2> QED BY <1>7, <2>1 DEF TypeInv
<1>9. ASSUME NEW r \in Slots, NEW i \in Pos(r)'
      PROVE  IF i = 1 THEN Cell(r, i)' = Table ELSE Cell(r, i)' \in Cells \ free'
  <2>1. CASE i = 1
    <3>1. 1 \in Pos(r) /\ Cell(r, 1) = Table
      BY <1>1, <1>3, <1>5, <2>1
    <3>2. r = s => Len(c) > 1
      BY <1>1, <1>3, <2>1
    <3> QED BY <1>3, <2>1, <3>1, <3>2
  <2>2. CASE i # 1
    <3>1. PICK k \in Pos(r) \ {1} : Cell(r, i)' = Cell(r, k) /\ (r = s => k # m)
      BY <1>6, <2>2
    <3>2. Cell(r, k) \in Cells \ free
      BY <1>5
    <3>3. ~(Len(c) > 1 /\ Cell(r, k) = Cell(s, m))
      <4> HIDE DEF m
      <4> QED BY <1>4, <1>5, <3>1
    <3> QED BY <1>7, <2>2, <3>1, <3>2, <3>3
  <2> QED BY <2>1, <2>2
<1>10. ASSUME NEW r \in Slots, NEW q \in Slots, NEW i \in Pos(r)' \ {1}, NEW j \in Pos(q)' \ {1},
              Cell(r, i)' = Cell(q, j)'
       PROVE  r = q /\ i = j
  <2> DEFINE k == IF r = s /\ i >= m THEN i + 1 ELSE i
             l == IF q = s /\ j >= m THEN j + 1 ELSE j
  <2>1. k \in Pos(r) \ {1} /\ Cell(r, i)' = Cell(r, k) /\ l \in Pos(q) \ {1} /\ Cell(q, j)' = Cell(q, l)
    BY <1>6
  <2>2. r = q /\ k = l
    <3>1. Cell(r, k) = Cell(q, l)
      BY <1>10, <2>1
    <3> HIDE DEF k, l, m
    <3> QED BY <1>5, <2>1, <3>1
  <2>3. i \in Int /\ j \in Int /\ m \in Int
    <3>1. ASSUME NEW p \in Slots, NEW h \in Pos(p)' PROVE h \in Int
      <4>1. CASE p = s
        <5>1. Pos(p)' = 1..(Len(c) - 1)
          BY <1>3, <4>1
        <5> QED BY <5>1
      <4>2. CASE p # s
        BY <1>2, <1>3, <4>2
      <4> QED BY <4>1, <4>2
    <3> QED BY <1>1, <3>1
  <2> QED BY <2>2, <2>3
<1>11. ASSUME NEW x \in Cells \ free' PROVE \E r \in Slots : \E i \in Pos(r)' \ {1} : Cell(r, i)' = x
  <2>1. x \in Cells \ free /\ ~(Len(c) > 1 /\ x = Cell(s, m))
    BY <1>7
  <2>2. PICK r \in Slots : \E k \in Pos(r) \ {1} : Cell(r, k) = x
    BY <1>5, <2>1
  <2>3. PICK k \in Pos(r) \ {1} : Cell(r, k) = x
    BY <2>2
  <2>4. CASE r # s
    BY <1>3, <2>3, <2>4
  <2>5. CASE r = s
    <3>1. k # m /\ Len(c) > 1 /\ k \in 2..Len(c)
      BY <1>1, <1>3, <2>1, <2>3, <2>5
    <3>2. CASE k < m
      BY <1>1, <1>3, <2>3, <2>5, <3>1, <3>2
    <3>3. CASE k > m
      <4>1. k - 1 \in 2..(Len(c) - 1) /\ k - 1 >= m /\ (k - 1) + 1 = k
        BY <1>1, <3>1, <3>3
      <4>2. Cell(s, k - 1)' = Cell(s, k)
        <5> HIDE DEF m
        <5>1. k - 1 \in Int /\ m \in Int /\ ~(k - 1 < m)
          BY <1>1, <3>1, <3>3, <4>1 DEF m
        <5> QED BY <1>3, <4>1, <5>1
      <4> QED BY <1>3, <2>3, <2>5, <4>1, <4>2
    <3> QED BY <1>1, <3>1, <3>2, <3>3
  <2> QED BY <2>4, <2>5
<1> QED BY <1>1, <1>8, <1>9, <1>10, <1>11 DEF CellsOnce
-----------------------------------------------------------------------------
(* The invariant.                                                          *)

ItemsRight == \A s \in Slots : \A i \in Pos(s) :
                 /\ status[Item(s, i)] # "none" /\ interned[Item(s, i)]
                 /\ s = Slot(hash[Item(s, i)])

\* No two strings of a chain have the same text: so string_unintern, which looks
\* for the text, finds the string that is destroyed.
TextsDistinct == \A s \in Slots : \A i, j \in Pos(s) :
                    text[Item(s, i)] = text[Item(s, j)] => i = j

AllListed == \A o \in Strs : status[o] # "none" /\ interned[o] =>
                \E s \in Slots : \E i \in Pos(s) : Item(s, i) = o

HashesRight == \A o \in Strs : status[o] # "none" => /\ text[o] \in Texts
                                                     /\ hash[o] = HashOf[text[o]]

FreeingOnce == /\ \A t \in Threads : freeing[t] # NULL => status[freeing[t]] = "dying"
               /\ \A t, u \in Threads : freeing[t] = freeing[u] /\ freeing[t] # NULL => t = u

IInv == TypeInv /\ CellsOnce /\ ItemsRight /\ TextsDistinct /\ AllListed /\ HashesRight /\ FreeingOnce

LEMMA Items ==
  ASSUME TypeInv
  PROVE  \A s \in Slots : /\ Len(table[s]) \in Nat
                          /\ \A i \in Pos(s) : i \in Int /\ Item(s, i) \in Strs
<1> SUFFICES ASSUME NEW s \in Slots
             PROVE  Len(table[s]) \in Nat /\ \A i \in Pos(s) : i \in Int /\ Item(s, i) \in Strs
  OBVIOUS
<1>1. table[s] \in Seq(Bucket)
  BY DEF TypeInv
<1>2. \A i \in Pos(s) : table[s][i] \in Bucket
  <2> HIDE DEF Bucket
  <2> QED BY <1>1 DEF Pos
<1>3. Len(table[s]) \in Nat
  BY <1>1
<1> QED BY <1>2, <1>3 DEF Pos, Item, Bucket

\* The table stays as it is: no string that is in it changes.
LEMMA StringsStep ==
  ASSUME IInv, TypeInv', UNCHANGED buckets, HashesRight', FreeingOnce',
         \A o \in Strs : status[o] # "none" =>
            /\ status'[o] # "none" /\ text'[o] = text[o]
            /\ hash'[o] = hash[o] /\ interned'[o] = interned[o],
         \A o \in Strs : status[o] = "none" /\ status'[o] # "none" => ~interned'[o]
  PROVE  IInv'
<1>1. table' = table /\ blocks' = blocks /\ free' = free
  BY DEF buckets
<1>2. \A s : Pos(s)' = Pos(s) /\ \A i : Item(s, i)' = Item(s, i) /\ Cell(s, i)' = Cell(s, i)
  BY <1>1 DEF Pos, Item, Cell
<1>3. CellsOnce'
  BY <1>1, <1>2 DEF IInv, CellsOnce, Cells, Pos, Cell
<1>4. \A s \in Slots : \A i \in Pos(s) :
        LET o == Item(s, i)
        IN  /\ o \in Strs /\ status[o] # "none" /\ interned[o] /\ s = Slot(hash[o])
            /\ status'[o] # "none" /\ text'[o] = text[o] /\ hash'[o] = hash[o] /\ interned'[o]
  BY Items DEF IInv, ItemsRight
<1>5. ItemsRight'
  BY <1>2, <1>4 DEF ItemsRight, Slot
<1>6. TextsDistinct'
  BY <1>2, <1>4 DEF IInv, TextsDistinct
<1>7. AllListed'
  <2> SUFFICES ASSUME NEW o \in Strs, status'[o] # "none", interned'[o]
               PROVE  \E s \in Slots : \E i \in Pos(s) : Item(s, i) = o
    BY <1>2 DEF AllListed
  <2>1. status[o] # "none" /\ interned[o]
    OBVIOUS
  <2> QED BY <2>1 DEF IInv, AllListed
<1> QED BY <1>3, <1>5, <1>6, <1>7 DEF IInv

\* A string that was not in the table, with a text that is not either, is put in.
LEMMA InsertStep ==
  ASSUME IInv, NEW o \in Strs, NEW h \in Nat, Insert(o, h),
         /\ status' \in [Strs -> {"none", "live", "dying"}] /\ refcnt' \in [Strs -> Int]
         /\ text' \in [Strs -> Texts \cup {NULL}] /\ hash' \in [Strs -> Nat]
         /\ interned' \in [Strs -> BOOLEAN] /\ freeing' = freeing,
         ~(status[o] # "none" /\ interned[o]),
         status'[o] = "live" /\ interned'[o] /\ hash'[o] = h,
         text'[o] \in Texts /\ h = HashOf[text'[o]], Matches(text'[o], h) = {},
         \A p \in Strs \ {o} : /\ status'[p] = status[p] /\ text'[p] = text[p]
                               /\ hash'[p] = hash[p] /\ interned'[p] = interned[p],
         status[o] # "dying"
  PROVE  IInv'
<1> DEFINE s == Slot(h)
<1> PICK p \in {1, 2} : p = IF table[s] = <<>> THEN 1 ELSE 2
  OBVIOUS
<1>1. s \in Slots
  BY SlotType
<1>2. /\ table' \in [Slots -> Seq(Bucket)]
      /\ \A r \in Slots \ {s} : table'[r] = table[r]
      /\ Len(table'[s]) = Len(table[s]) + 1
      /\ Len(table[s]) \in Nat /\ p - 1 <= Len(table[s])
      /\ \A i \in 1..(Len(table[s]) + 1) :
           table'[s][i].item = IF i < p THEN Item(s, i) ELSE IF i = p THEN o ELSE Item(s, i - 1)
  BY <1>1, InsertShape DEF IInv
<1>3. blocks' \in Nat /\ free' \subseteq Cells' /\ CellsOnce'
  BY <1>1, InsertCells DEF IInv
<1>4. TypeInv'
  BY <1>2, <1>3 DEF TypeInv, IInv
<1>5. p \in Int /\ p >= 1 /\ ~(p < p)
  OBVIOUS
<1>6. /\ \A r \in Slots \ {s} : Pos(r)' = Pos(r) /\ \A i : Item(r, i)' = Item(r, i)
      /\ Pos(s) = 1..Len(table[s]) /\ Pos(s)' = 1..(Len(table[s]) + 1) /\ p \in Pos(s)'
      /\ \A i \in Pos(s)' : Item(s, i)' = IF i < p THEN Item(s, i) ELSE IF i = p THEN o ELSE Item(s, i - 1)
  BY <1>2, <1>5 DEF Pos, Item
\* Where the other strings were before.
<1>7. ASSUME NEW r \in Slots, NEW i \in Pos(r)', ~(r = s /\ i = p)
      PROVE  LET k == IF r = s /\ i > p THEN i - 1 ELSE i
             IN  k \in Pos(r) /\ Item(r, i)' = Item(r, k)
  <2>1. CASE r # s
    BY <1>6, <2>1
  <2>2. CASE r = s
    <3>1. i \in Int /\ i # p /\ i >= 1 /\ i <= Len(table[s]) + 1
      BY <1>2, <1>6, <1>7, <2>2
    <3>2. CASE i < p
      BY <1>2, <1>5, <1>6, <2>2, <3>1, <3>2
    <3>3. CASE i > p
      BY <1>2, <1>5, <1>6, <2>2, <3>1, <3>3
    <3> QED BY <1>5, <3>1, <3>2, <3>3
  <2> QED BY <2>1, <2>2
\* What is known of the other strings.
<1>8. \A r \in Slots : \A k \in Pos(r) :
        LET q == Item(r, k)
        IN  /\ q \in Strs \ {o} /\ status'[q] # "none" /\ interned'[q] /\ r = Slot(hash'[q])
            /\ text'[q] = text[q] /\ (r = s => text[q] # text'[o])
  <2> SUFFICES ASSUME NEW r \in Slots, NEW k \in Pos(r)
               PROVE  LET q == Item(r, k)
                      IN  /\ q \in Strs \ {o} /\ status'[q] # "none" /\ interned'[q] /\ r = Slot(hash'[q])
                          /\ text'[q] = text[q] /\ (r = s => text[q] # text'[o])
    OBVIOUS
  <2> DEFINE q == Item(r, k)
  <2>1. q \in Strs /\ status[q] # "none" /\ interned[q] /\ r = Slot(hash[q])
    BY Items DEF IInv, ItemsRight
  <2>2. q # o
    BY <2>1
  <2>3. ASSUME r = s, text[q] = text'[o] PROVE FALSE
    <3>1. hash[q] = h
      BY <2>1, <2>3 DEF IInv, HashesRight
    <3>2. k \in Matches(text'[o], h)
      BY <2>3, <3>1 DEF Matches, Pos, Item
    <3> QED BY <3>2
  <2> QED BY <2>1, <2>2, <2>3
<1>9. ItemsRight'
  <2> SUFFICES ASSUME NEW r \in Slots, NEW i \in Pos(r)'
               PROVE  /\ status'[Item(r, i)'] # "none" /\ interned'[Item(r, i)']
                      /\ r = Slot(hash'[Item(r, i)'])
    BY DEF ItemsRight, Slot
  <2>1. CASE r = s /\ i = p
    BY <1>5, <1>6, <2>1
  <2>2. CASE ~(r = s /\ i = p)
    BY <1>7, <1>8, <2>2
  <2> QED BY <2>1, <2>2
<1>10. TextsDistinct'
  <2> SUFFICES ASSUME NEW r \in Slots, NEW i \in Pos(r)', NEW j \in Pos(r)',
                      text'[Item(r, i)'] = text'[Item(r, j)']
               PROVE  i = j
    BY DEF TextsDistinct
  <2>1. Item(s, p)' = o
    BY <1>5, <1>6
  <2>2. CASE r = s /\ (i = p \/ j = p)
    <3>1. ASSUME NEW x \in Pos(s)', x # p PROVE text'[Item(s, x)'] # text'[o]
      <4>1. PICK k \in Pos(s) : Item(s, x)' = Item(s, k)
        BY <1>1, <1>7, <3>1
      <4>2. text'[Item(s, k)] = text[Item(s, k)] /\ text[Item(s, k)] # text'[o]
        BY <1>1, <1>8
      <4> QED BY <4>1, <4>2
    <3> QED BY <2>1, <2>2, <3>1
  <2>3. CASE ~(r = s /\ (i = p \/ j = p))
    <3> DEFINE k == IF r = s /\ i > p THEN i - 1 ELSE i
               l == IF r = s /\ j > p THEN j - 1 ELSE j
    <3>1. k \in Pos(r) /\ Item(r, i)' = Item(r, k) /\ l \in Pos(r) /\ Item(r, j)' = Item(r, l)
      BY <1>7, <2>3
    <3>2. k = l
      <4> HIDE DEF k, l
      <4> QED BY <1>8, <3>1 DEF IInv, TextsDistinct
    <3>3. i \in Int /\ j \in Int
      <4>1. \A x \in Slots : \A y \in Pos(x)' : y \in Int
        BY Items, <1>2, <1>6 DEF IInv
      <4> QED BY <4>1
    <3> QED BY <1>5, <2>3, <3>2, <3>3
  <2> QED BY <2>2, <2>3
<1>11. AllListed'
  <2> SUFFICES ASSUME NEW q \in Strs, status'[q] # "none", interned'[q]
               PROVE  \E r \in Slots : \E i \in Pos(r)' : Item(r, i)' = q
    BY DEF AllListed
  <2>1. CASE q = o
    <3>1. p \in Pos(s)' /\ Item(s, p)' = o
      BY <1>5, <1>6
    <3> QED BY <1>1, <2>1, <3>1
  <2>2. CASE q # o
    <3>1. status[q] # "none" /\ interned[q]
      BY <2>2
    <3>2. PICK r \in Slots : \E k \in Pos(r) : Item(r, k) = q
      BY <3>1 DEF IInv, AllListed
    <3>3. PICK k \in Pos(r) : Item(r, k) = q
      BY <3>2
    <3>4. CASE r # s
      <4>1. k \in Pos(r)' /\ Item(r, k)' = q
        BY <1>6, <3>3, <3>4
      <4> QED BY <4>1
    <3>5. CASE r = s
      <4>1. k \in Int /\ k >= 1 /\ k <= Len(table[s]) /\ Len(table[s]) \in Int
        BY <1>2, <1>6, <3>5
      <4>2. CASE k < p
        <5>1. k \in Pos(s)' /\ Item(s, k)' = q
          BY <1>5, <1>6, <3>3, <3>5, <4>1, <4>2
        <5> QED BY <1>1, <5>1
      <4>3. CASE k >= p
        <5>1. k + 1 \in Pos(s)' /\ ~(k + 1 < p) /\ k + 1 # p /\ (k + 1) - 1 = k
          BY <1>5, <1>6, <4>1, <4>3
        <5>2. Item(s, k + 1)' = q
          BY <1>6, <3>3, <3>5, <5>1
        <5> QED BY <1>1, <5>1, <5>2
      <4>4. k < p \/ k >= p
        BY <1>5, <4>1
      <4> QED BY <4>2, <4>3, <4>4
    <3> QED BY <3>4, <3>5
  <2> QED BY <2>1, <2>2
<1>12. HashesRight'
  BY DEF IInv, HashesRight
<1>13. FreeingOnce'
  <2>1. \A t \in Threads : freeing[t] # NULL => freeing[t] \in Strs \ {o}
    BY DEF IInv, TypeInv, FreeingOnce
  <2> QED BY <2>1 DEF IInv, FreeingOnce
<1> QED BY <1>3, <1>4, <1>9, <1>10, <1>11, <1>12, <1>13 DEF IInv

\* A string is destroyed, and its bucket goes.
LEMMA FreeStep ==
  ASSUME IInv, NEW t \in Threads, Dy_FreeObject(t)
  PROVE  IInv'
<1> PICK o \in Strs \cup {NULL} : o = freeing[t]
  BY DEF IInv, TypeInv
<1>1. /\ o \in Strs /\ status[o] = "dying" /\ status' = [status EXCEPT ![o] = "none"]
      /\ freeing' = [freeing EXCEPT ![t] = NULL] /\ UNCHANGED <<refcnt, text, hash, interned>>
  BY DEF Dy_FreeObject, IInv, FreeingOnce
<1>2. /\ status'[o] = "none" /\ \A q \in Strs \ {o} : status'[q] = status[q]
      /\ status' \in [Strs -> {"none", "live", "dying"}] /\ freeing' \in [Threads -> Strs \cup {NULL}]
  BY <1>1 DEF IInv, TypeInv
<1>3. HashesRight'
  BY <1>1, <1>2 DEF IInv, HashesRight
<1>4. FreeingOnce'
  <2>1. freeing'[t] = NULL /\ \A u \in Threads \ {t} : freeing'[u] = freeing[u]
    BY <1>1 DEF IInv, TypeInv
  <2>2. \A u \in Threads \ {t} : freeing[u] # NULL => freeing[u] \in Strs \ {o}
    BY <1>1 DEF IInv, TypeInv, FreeingOnce
  <2> QED BY <1>2, <2>1, <2>2 DEF IInv, FreeingOnce
<1>5. CASE ~interned[o]
  <2>1. table' = table /\ blocks' = blocks /\ free' = free
    BY <1>5 DEF Dy_FreeObject, buckets
  <2>2. TypeInv'
    BY <1>1, <1>2, <2>1 DEF IInv, TypeInv, Cells
  <2>3. CellsOnce'
    BY <2>1 DEF IInv, CellsOnce, Cells, Pos, Cell
  <2>4. \A s : Pos(s)' = Pos(s) /\ \A i : Item(s, i)' = Item(s, i)
    BY <2>1 DEF Pos, Item
  <2>5. \A s \in Slots : \A i \in Pos(s) : Item(s, i) \in Strs \ {o}
    BY <1>5, Items DEF IInv, ItemsRight
  <2>6. ItemsRight'
    BY <1>1, <1>2, <2>4, <2>5 DEF IInv, ItemsRight, Slot
  <2>7. TextsDistinct'
    BY <1>1, <2>4 DEF IInv, TextsDistinct
  <2>8. AllListed'
    BY <1>1, <1>2, <2>4 DEF IInv, AllListed
  <2> QED BY <1>3, <1>4, <2>2, <2>3, <2>6, <2>7, <2>8 DEF IInv
<1>6. CASE interned[o]
  <2>1. PICK s \in Slots : \E n \in Pos(s) : Item(s, n) = o
    BY <1>1, <1>6 DEF IInv, AllListed
  <2>2. PICK n \in Pos(s) : Item(s, n) = o
    BY <2>1
  <2>3. s = Slot(hash[o])
    BY <2>2 DEF IInv, ItemsRight
  <2>4. Equal(o) = {n}
    BY <2>2, <2>3 DEF IInv, TextsDistinct, Equal, Pos, Item
  <2>5. string_unintern(o)
    BY <1>6 DEF Dy_FreeObject
  <2>6. /\ table' \in [Slots -> Seq(Bucket)] /\ blocks' = blocks
        /\ \A r \in Slots \ {s} : table'[r] = table[r]
        /\ Len(table[s]) \in Nat /\ Len(table'[s]) = Len(table[s]) - 1
        /\ \A i \in 1..(Len(table[s]) - 1) :
             table'[s][i].item = IF i < n THEN Item(s, i) ELSE Item(s, i + 1)
    <3>1. TypeInv
      BY DEF IInv
    <3> QED BY <1>1, <2>3, <2>4, <2>5, <3>1, RemoveShape
  <2>7. free' \subseteq Cells' /\ CellsOnce'
    BY <1>1, <2>3, <2>4, <2>5, RemoveCells DEF IInv
  <2>8. TypeInv'
    BY <1>1, <1>2, <2>6, <2>7 DEF IInv, TypeInv
  <2>9. /\ \A r \in Slots \ {s} : Pos(r)' = Pos(r) /\ \A i : Item(r, i)' = Item(r, i)
        /\ Pos(s) = 1..Len(table[s]) /\ Pos(s)' = 1..(Len(table[s]) - 1)
        /\ \A i \in Pos(s)' : Item(s, i)' = IF i < n THEN Item(s, i) ELSE Item(s, i + 1)
    BY <2>6 DEF Pos, Item
  <2>10. n \in Int /\ \A r \in Slots : \A i \in Pos(r)' : i \in Int
    BY <2>6, <2>9, Items DEF IInv
  \* Where the strings that stay were before.
  <2>11. ASSUME NEW r \in Slots, NEW i \in Pos(r)'
         PROVE  LET k == IF r = s /\ i >= n THEN i + 1 ELSE i
                IN  k \in Pos(r) /\ Item(r, i)' = Item(r, k) /\ Item(r, k) \in Strs \ {o}
    <3>1. CASE r # s
      <4>1. i \in Pos(r) /\ Item(r, i)' = Item(r, i)
        BY <2>9, <3>1
      <4>2. Item(r, i) \in Strs /\ Item(r, i) # o
        BY <2>3, <3>1, <4>1, Items DEF IInv, ItemsRight
      <4> QED BY <3>1, <4>1, <4>2
    <3>2. CASE r = s
      <4> PICK k \in {i, i + 1} : k = IF i >= n THEN i + 1 ELSE i
        OBVIOUS
      <4>1. i \in Int /\ i >= 1 /\ i <= Len(table[s]) - 1 /\ n \in Int /\ Len(table[s]) \in Int
        BY <2>6, <2>9, <2>10, <3>2
      <4>2. k \in Pos(s) /\ k # n
        BY <2>9, <4>1
      <4>3. Item(s, i)' = Item(s, k)
        BY <2>9, <3>2, <4>1
      <4>4. Item(s, k) \in Strs /\ Item(s, k) # o
        BY <2>2, <4>2, Items DEF IInv, TextsDistinct
      <4> QED BY <3>2, <4>2, <4>3, <4>4
    <3> QED BY <3>1, <3>2
  <2>12. ItemsRight'
    <3> SUFFICES ASSUME NEW r \in Slots, NEW i \in Pos(r)'
                 PROVE  /\ status'[Item(r, i)'] # "none" /\ interned'[Item(r, i)']
                        /\ r = Slot(hash'[Item(r, i)'])
      BY DEF ItemsRight, Slot
    <3>1. PICK k \in Pos(r) : Item(r, i)' = Item(r, k) /\ Item(r, k) \in Strs \ {o}
      BY <2>11
    <3> QED BY <1>1, <1>2, <3>1 DEF IInv, ItemsRight
  <2>13. TextsDistinct'
    <3> SUFFICES ASSUME NEW r \in Slots, NEW i \in Pos(r)', NEW j \in Pos(r)',
                        text'[Item(r, i)'] = text'[Item(r, j)']
                 PROVE  i = j
      BY DEF TextsDistinct
    <3> DEFINE k == IF r = s /\ i >= n THEN i + 1 ELSE i
               l == IF r = s /\ j >= n THEN j + 1 ELSE j
    <3>1. k \in Pos(r) /\ Item(r, i)' = Item(r, k) /\ l \in Pos(r) /\ Item(r, j)' = Item(r, l)
      BY <2>11
    <3>2. k = l
      <4> HIDE DEF k, l
      <4> QED BY <1>1, <3>1 DEF IInv, TextsDistinct
    <3> QED BY <2>10, <3>2
  <2>14. AllListed'
    <3> SUFFICES ASSUME NEW q \in Strs, status'[q] # "none", interned'[q]
                 PROVE  \E r \in Slots : \E i \in Pos(r)' : Item(r, i)' = q
      BY DEF AllListed
    <3>1. q # o /\ status[q] # "none" /\ interned[q]
      BY <1>1, <1>2
    <3>2. PICK r \in Slots : \E k \in Pos(r) : Item(r, k) = q
      BY <3>1 DEF IInv, AllListed
    <3>3. PICK k \in Pos(r) : Item(r, k) = q
      BY <3>2
    <3>4. CASE r # s
      <4>1. k \in Pos(r)' /\ Item(r, k)' = q
        BY <2>9, <3>3, <3>4
      <4> QED BY <4>1
    <3>5. CASE r = s
      <4>1. k \in Int /\ k >= 1 /\ k <= Len(table[s]) /\ Len(table[s]) \in Int /\ n \in Int
            /\ n >= 1 /\ n <= Len(table[s]) /\ k # n
        BY <2>2, <2>6, <2>9, <2>10, <3>1, <3>3, <3>5
      <4>2. CASE k < n
        <5>1. k \in Pos(s)' /\ Item(s, k)' = q
          BY <2>9, <3>3, <3>5, <4>1, <4>2
        <5> QED BY <5>1
      <4>3. CASE k > n
        <5>1. k - 1 \in Pos(s)' /\ ~(k - 1 < n) /\ (k - 1) + 1 = k
          BY <2>9, <4>1, <4>3
        <5>2. Item(s, k - 1)' = q
          BY <2>9, <3>3, <3>5, <5>1
        <5> QED BY <5>1, <5>2
      <4>4. k < n \/ k > n
        BY <4>1
      <4> QED BY <4>2, <4>3, <4>4
    <3> QED BY <3>4, <3>5
  <2> QED BY <1>3, <1>4, <2>7, <2>8, <2>12, <2>13, <2>14 DEF IInv
<1> QED BY <1>5, <1>6
-----------------------------------------------------------------------------
(* Theorems.                                                               *)

LEMMA TableStart == Init => IInv
<1> SUFFICES ASSUME Init PROVE IInv
  OBVIOUS
<1> USE InternAssumption DEF Init
<1>1. <<>> \in Seq(Bucket) /\ Len(<<>>) = 0
  OBVIOUS
<1>2. Cells = {}
  BY DEF Cells
<1>3. TypeInv
  BY <1>1, <1>2 DEF TypeInv
<1>4. \A s \in Slots : Pos(s) = {}
  BY DEF Pos
<1> QED BY <1>2, <1>3, <1>4
       DEF IInv, CellsOnce, ItemsRight, TextsDistinct, AllListed, HashesRight, FreeingOnce

\* What a lookup finds is in the table.
LEMMA FoundIsListed ==
  ASSUME IInv, NEW txt, NEW h \in Nat, Matches(txt, h) # {}
  PROVE  Found(txt, h) \in Strs /\ status[Found(txt, h)] # "none" /\ interned[Found(txt, h)]
<1> DEFINE s == Slot(h)
           n == First(Matches(txt, h))
<1>1. s \in Slots
  BY SlotType
<1>2. Matches(txt, h) \subseteq Pos(s) /\ Pos(s) \subseteq Nat
  BY DEF Matches, Pos
<1>3. n \in Pos(s)
  BY <1>2, FirstInSet
<1>4. Found(txt, h) = Item(s, n)
  BY DEF Found, Item
<1> HIDE DEF s, n
<1> QED BY <1>1, <1>3, <1>4, Items DEF IInv, ItemsRight

LEMMA TableKept ==
  ASSUME RightHashes, IInv, [Next]_vars
  PROVE  IInv'
<1>1. /\ status \in [Strs -> {"none", "live", "dying"}] /\ refcnt \in [Strs -> Int]
      /\ text \in [Strs -> Texts \cup {NULL}] /\ hash \in [Strs -> Nat]
      /\ interned \in [Strs -> BOOLEAN] /\ freeing \in [Threads -> Strs \cup {NULL}]
      /\ HashOf \in [Texts -> Nat] /\ NULL \notin Strs
  BY InternAssumption DEF IInv, TypeInv
<1>2. ASSUME UNCHANGED buckets, status' \in [Strs -> {"none", "live", "dying"}],
             refcnt' \in [Strs -> Int], text' \in [Strs -> Texts \cup {NULL}], hash' \in [Strs -> Nat],
             interned' \in [Strs -> BOOLEAN], freeing' \in [Threads -> Strs \cup {NULL}]
      PROVE  TypeInv'
  BY <1>2 DEF IInv, TypeInv, buckets, Cells
<1>3. CASE UNCHANGED <<strings, buckets, freeing>>
  <2>1. TypeInv'
    BY <1>1, <1>2, <1>3 DEF strings
  <2> QED BY <1>3, <2>1, StringsStep DEF strings, IInv, HashesRight, FreeingOnce
<1>4. ASSUME NEW t \in Threads, NEW o \in Strs, NEW txt \in Texts, DyString_FromString(t, o, txt) PROVE IInv'
  <2>1. PICK h \in Uninit[txt] : hash' = [hash EXCEPT ![o] = h]
    BY <1>4 DEF DyString_FromString
  <2>2. h = HashOf[txt] /\ h \in Nat
    BY <1>1, <2>1 DEF RightHashes
  <2>3. /\ status' = [status EXCEPT ![o] = "live"] /\ refcnt' = [refcnt EXCEPT ![o] = 1]
        /\ text' = [text EXCEPT ![o] = txt] /\ interned' = [interned EXCEPT ![o] = FALSE]
        /\ status[o] = "none" /\ UNCHANGED <<buckets, freeing>>
    BY <1>4 DEF DyString_FromString
  <2>4. TypeInv'
    BY <1>1, <1>2, <2>1, <2>2, <2>3
  <2>5. HashesRight'
    BY <1>1, <2>1, <2>2, <2>3 DEF IInv, HashesRight
  <2>6. FreeingOnce'
    BY <1>1, <2>3 DEF IInv, FreeingOnce
  <2> QED BY <1>1, <2>1, <2>3, <2>4, <2>5, <2>6, StringsStep
<1>5. ASSUME NEW t \in Threads, NEW txt \in Texts, InternFound(t, txt) PROVE IInv'
  <2>1. Found(txt, HashOf[txt]) \in Strs
    BY <1>1, <1>5, FoundIsListed DEF InternFound
  <2>2. refcnt' \in [Strs -> Int] /\ UNCHANGED <<status, text, hash, interned, buckets, freeing>>
    BY <1>1, <1>5, <2>1 DEF InternFound
  <2>3. TypeInv'
    BY <1>1, <1>2, <2>2
  <2> QED BY <2>2, <2>3, StringsStep DEF IInv, HashesRight, FreeingOnce
<1>6. ASSUME NEW t \in Threads, NEW o \in Strs, NEW txt \in Texts, InternNew(t, o, txt) PROVE IInv'
  <2> DEFINE h == HashOf[txt]
  <2>1. /\ status' = [status EXCEPT ![o] = "live"] /\ refcnt' = [refcnt EXCEPT ![o] = 1]
        /\ text' = [text EXCEPT ![o] = txt] /\ hash' = [hash EXCEPT ![o] = h]
        /\ interned' = [interned EXCEPT ![o] = TRUE]
        /\ status[o] = "none" /\ freeing' = freeing /\ Matches(txt, h) = {} /\ Insert(o, h)
    BY <1>6 DEF InternNew
  <2>2. h \in Nat
    BY <1>1
  <2>3. /\ status' \in [Strs -> {"none", "live", "dying"}] /\ refcnt' \in [Strs -> Int]
        /\ text' \in [Strs -> Texts \cup {NULL}] /\ hash' \in [Strs -> Nat]
        /\ interned' \in [Strs -> BOOLEAN]
        /\ status'[o] = "live" /\ interned'[o] /\ hash'[o] = h /\ text'[o] = txt
        /\ \A p \in Strs \ {o} : /\ status'[p] = status[p] /\ text'[p] = text[p]
                                 /\ hash'[p] = hash[p] /\ interned'[p] = interned[p]
    BY <1>1, <2>1, <2>2
  <2> QED BY <2>1, <2>2, <2>3, InsertStep
<1>7. ASSUME NEW t \in Threads, NEW o \in Strs, InternObject(t, o) PROVE IInv'
  <2> PICK h \in Nat : h = hash[o]
    BY <1>1
  <2>1. /\ interned' = [interned EXCEPT ![o] = TRUE]
        /\ status[o] = "live" /\ ~interned[o] /\ UNCHANGED <<status, refcnt, text, hash, freeing>>
        /\ Matches(text[o], h) = {} /\ Insert(o, h)
    BY <1>7 DEF InternObject, Held
  <2>2. text[o] \in Texts /\ h = HashOf[text[o]]
    BY <2>1 DEF IInv, HashesRight
  <2>3. /\ interned' \in [Strs -> BOOLEAN] /\ interned'[o]
        /\ \A p \in Strs \ {o} : interned'[p] = interned[p]
    BY <1>1, <2>1
  <2> QED BY <1>1, <2>1, <2>2, <2>3, InsertStep
<1>8. ASSUME NEW t \in Threads, NEW o \in Strs,
             status[o] = "live", freeing[t] = NULL,
             refcnt' \in [Strs -> Int], UNCHANGED <<text, hash, interned, buckets>>,
             \/ UNCHANGED <<status, freeing>>
             \/ status' = [status EXCEPT ![o] = "dying"] /\ freeing' = [freeing EXCEPT ![t] = o]
      PROVE  IInv'
  <2>1. TypeInv'
    BY <1>1, <1>2, <1>8
  <2>2. HashesRight'
    BY <1>1, <1>8 DEF IInv, HashesRight
  <2>3. FreeingOnce'
    <3>1. CASE UNCHANGED <<status, freeing>>
      BY <3>1 DEF IInv, FreeingOnce
    <3>2. CASE status' = [status EXCEPT ![o] = "dying"] /\ freeing' = [freeing EXCEPT ![t] = o]
      <4>1. \A u \in Threads : freeing[u] # o
        BY <1>1, <1>8 DEF IInv, FreeingOnce
      <4> QED BY <1>1, <3>2, <4>1 DEF IInv, FreeingOnce
    <3> QED BY <1>8, <3>1, <3>2
  <2> QED BY <1>1, <1>8, <2>1, <2>2, <2>3, StringsStep
<1>9. ASSUME NEW t \in Threads, NEW o \in Strs, InternReplace(t, o) PROVE IInv'
  <2>1. refcnt' \in [Strs -> Int]
    <3>1. Found(text[o], hash[o]) \in Strs
      BY <1>1, <1>9, FoundIsListed DEF InternReplace
    <3> QED BY <1>1, <1>9, <3>1 DEF InternReplace
  <2> QED BY <1>8, <1>9, <2>1 DEF InternReplace, Running, Held
<1>10. ASSUME NEW t \in Threads, NEW o \in Strs, Dy_Retain(t, o) PROVE IInv'
  <2>1. refcnt' \in [Strs -> Int]
    BY <1>1, <1>10 DEF Dy_Retain
  <2> QED BY <1>8, <1>10, <2>1 DEF Dy_Retain, Running, Held
<1>11. ASSUME NEW t \in Threads, NEW o \in Strs, Dy_Release(t, o) PROVE IInv'
  <2>1. refcnt' \in [Strs -> Int]
    BY <1>1, <1>11 DEF Dy_Release
  <2> QED BY <1>8, <1>11, <2>1 DEF Dy_Release, Running, Held
<1>12. ASSUME NEW t \in Threads, Dy_FreeObject(t) PROVE IInv'
  BY <1>12, FreeStep
<1> QED BY <1>3, <1>4, <1>5, <1>6, <1>7, <1>9, <1>10, <1>11, <1>12
        DEF Next, Step, InternNoMemory, vars

\* Whatever the threads do, as long as calls on the table do not overlap: the table
\* lists the existing interned strings, each once, in its slot.
THEOREM TableListsStrings ==
  ASSUME RightHashes
  PROVE  Spec => []TableIsExact
<1>1. IInv => TableIsExact
  <2> SUFFICES ASSUME IInv PROVE TableIsExact
    OBVIOUS
  <2>1. \A b : b \in Chained <=> \E s \in Slots : \E i \in Pos(s) : b = <<s, i>>
    BY DEF Chained, Pos
  <2>2. ASSUME NEW b \in Chained
        PROVE  /\ status[ItemAt(b)] # "none" /\ interned[ItemAt(b)]
               /\ b[1] = Slot(hash[ItemAt(b)])
    <3>1. PICK s \in Slots : \E i \in Pos(s) : b = <<s, i>>
      BY <2>1
    <3>2. PICK i \in Pos(s) : b = <<s, i>>
      BY <3>1
    <3>3. b[1] = s /\ ItemAt(b) = Item(s, i)
      BY <3>2 DEF ItemAt, Item
    <3> QED BY <3>3 DEF IInv, ItemsRight
  <2>3. ASSUME NEW o \in Strs, status[o] # "none", interned[o]
        PROVE  Cardinality({b \in Chained : ItemAt(b) = o}) = 1
    <3>1. PICK s \in Slots : \E i \in Pos(s) : Item(s, i) = o
      BY <2>3 DEF IInv, AllListed
    <3>2. PICK i \in Pos(s) : Item(s, i) = o
      BY <3>1
    <3>3. \A r \in Slots : \A j \in Pos(r) : Item(r, j) = o => r = s /\ j = i
      BY <3>2 DEF IInv, ItemsRight, TextsDistinct
    <3>4. \A r \in Slots : \A j \in Pos(r) : ItemAt(<<r, j>>) = Item(r, j)
      BY DEF ItemAt, Item
    <3>5. {b \in Chained : ItemAt(b) = o} = {<<s, i>>}
      BY <2>1, <3>2, <3>3, <3>4
    <3> QED BY <3>5, FS_Singleton
  <2> QED BY <2>2, <2>3 DEF TableIsExact
<1> QED BY <1>1, TableStart, TableKept, PTL DEF Spec

\* ... and interning keeps its promise.
THEOREM EqualStringsAreOne ==
  ASSUME RightHashes
  PROVE  Spec => []InternedOnce
<1>1. IInv => InternedOnce
  <2> SUFFICES ASSUME IInv, NEW o \in Strs, NEW p \in Strs, status[o] = "live", interned[o],
                      status[p] = "live", interned[p], text[o] = text[p]
               PROVE  o = p
    BY DEF InternedOnce
  <2>1. PICK s \in Slots : \E i \in Pos(s) : Item(s, i) = o
    BY DEF IInv, AllListed
  <2>2. PICK r \in Slots : \E j \in Pos(r) : Item(r, j) = p
    BY DEF IInv, AllListed
  <2>3. r = s
    BY <2>1, <2>2 DEF IInv, ItemsRight, HashesRight
  <2> QED BY <2>1, <2>2, <2>3 DEF IInv, TextsDistinct
<1> QED BY <1>1, TableStart, TableKept, PTL DEF Spec

\* No cell is lost or used twice.
THEOREM CellsAreConserved ==
  ASSUME RightHashes
  PROVE  Spec => []CellsConserved
<1>1. IInv => CellsConserved
  <2> SUFFICES ASSUME IInv, NEW c \in Cells
               PROVE  Cardinality({b \in Chained : table[b[1]][b[2]].cell = c})
                        = IF c \in free THEN 0 ELSE 1
    BY DEF CellsConserved
  <2> DEFINE B == {b \in Chained : table[b[1]][b[2]].cell = c}
  <2>1. \A b : b \in Chained <=> \E s \in Slots : \E i \in Pos(s) : b = <<s, i>>
    BY DEF Chained, Pos
  <2>2. \A r \in Slots : \A j \in Pos(r) : <<r, j>> \in B <=> Cell(r, j) = c
    BY <2>1 DEF Cell
  <2>3. c # Table
    BY InternAssumption DEF Cells, IInv, TypeInv
  <2>4. CASE c \in free
    <3>1. \A r \in Slots : \A j \in Pos(r) : Cell(r, j) # c
      BY <2>3, <2>4 DEF IInv, CellsOnce
    <3>2. B = {}
      BY <2>1, <2>2, <3>1
    <3> QED BY <2>4, <3>2, FS_EmptySet
  <2>5. CASE c \notin free
    <3>1. PICK s \in Slots : \E i \in Pos(s) \ {1} : Cell(s, i) = c
      BY <2>5 DEF IInv, CellsOnce
    <3>2. PICK i \in Pos(s) \ {1} : Cell(s, i) = c
      BY <3>1
    <3>3. \A r \in Slots : \A j \in Pos(r) : Cell(r, j) = c => r = s /\ j = i
      BY <2>3, <3>2 DEF IInv, CellsOnce
    <3>4. B = {<<s, i>>}
      <4> HIDE DEF B
      <4>1. \A b \in B : b \in Chained
        BY DEF B
      <4> QED BY <2>1, <2>2, <3>2, <3>3, <4>1
    <3> QED BY <2>5, <3>4, FS_Singleton
  <2> QED BY <2>4, <2>5
<1> QED BY <1>1, TableStart, TableKept, PTL DEF Spec
=============================================================================
