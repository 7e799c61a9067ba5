----------------------------- MODULE ListProofs -----------------------------
(***************************************************************************)
(* Proofs about List, for every set of items and every bound.              *)
(*                                                                         *)
(* The assertion of list_resize holds because no buffer the resize rule    *)
(* makes is smaller than four: a list whose buffer was dropped has size 0, *)
(* and one item is less than half of four.  That is the strengthening      *)
(* RoomOrNone; DyList_NewEx(1), (2) or (3) breaks it.                      *)
(*                                                                         *)
(* With it, every call is one of four changes of a sequence (Inserted,     *)
(* Overwritten, emptied, none): the list implements ListSeq and holds one  *)
(* reference for each place an item is at.                                 *)
(***************************************************************************)
EXTENDS List, FiniteSetTheorems, SequenceTheorems, TLAPS

RoomOrNone == allocated = 0 \/ allocated >= 4

IInv == TypeOK /\ RoomOrNone /\ AssertHolds

\* What the proofs below use of the type invariant.
LEMMA Types ==
  ASSUME IInv
  PROVE  /\ size \in Nat /\ allocated \in Nat
         /\ items \in Seq(Items \cup {Garbage})
         /\ Len(items) \in {0, allocated} /\ size <= Len(items)
         /\ \A i \in 1..size : items[i] \in Items
         /\ live \in BOOLEAN
         /\ fault \in {"none", "assert", "out of bounds"}
         /\ refs \in [Items -> Int]
  BY DEF IInv, TypeOK

\* The resize rule leaves room for n items, and at least four places.
LEMMA NewSizeRoom ==
  ASSUME NEW n \in Nat, n > 0
  PROVE  NewSize(n) \in Nat /\ NewSize(n) >= n + 3 /\ NewSize(n) >= 4
  BY DEF NewSize

\* Making room for one more item: the assertion holds, what is stored stays
\* where it is, and the new size fits.
LEMMA Room ==
  ASSUME IInv, NEW n \in Nat, n = size + 1
  PROVE  /\ ~AssertFails(n)
         /\ Resized(n) \in Seq(Items \cup {Garbage})
         /\ Len(Resized(n)) >= n
         /\ \A i \in 1..size : Resized(n)[i] = items[i]
         /\ Fits(n) => Len(Resized(n)) = allocated
         /\ ~Fits(n) => Len(Resized(n)) = NewSize(n)
<1>0. size \in Nat /\ allocated \in Nat /\ items \in Seq(Items \cup {Garbage})
      /\ Len(items) \in {0, allocated} /\ size <= Len(items)
  BY Types
<1>1. size \in Nat /\ allocated \in Nat /\ n > 0
  BY <1>0
<1>2. items \in Seq(Items \cup {Garbage}) /\ Len(items) \in Nat
      /\ Len(items) \in {0, allocated} /\ size <= Len(items)
  BY <1>0
<1>3. CASE Fits(n)
  <2>1. allocated >= 4
    BY <1>1, <1>3 DEF Fits, IInv, RoomOrNone
  <2>2. n >= 2
    BY <1>1, <1>3, <2>1 DEF Fits
  <2>3. Len(items) = allocated
    BY <1>1, <1>2, <2>2
  <2>4. items # <<>>
    BY <1>1, <2>1, <2>3
  <2>5. Resized(n) = items
    BY <1>3 DEF Resized
  <2> QED BY <1>1, <1>2, <1>3, <2>3, <2>4, <2>5 DEF AssertFails, Fits
<1>4. CASE ~Fits(n)
  <2>1. NewSize(n) \in Nat /\ NewSize(n) >= n + 3
    BY <1>1, NewSizeRoom
  <2>2. Resized(n) = [i \in 1..NewSize(n) |-> IF i <= Len(items) THEN items[i] ELSE Garbage]
    BY <1>4 DEF Resized
  <2>3. \A i \in 1..NewSize(n) : i <= Len(items) => items[i] \in Items \cup {Garbage}
    BY <1>2, <2>1
  <2>4. Resized(n) \in [1..NewSize(n) -> Items \cup {Garbage}]
    BY <2>2, <2>3
  <2>5. Resized(n) \in Seq(Items \cup {Garbage}) /\ Len(Resized(n)) = NewSize(n)
    BY <2>1, <2>4
  <2>6. \A i \in 1..size : Resized(n)[i] = items[i]
    BY <1>1, <1>2, <2>1, <2>2
  <2> QED BY <1>1, <1>4, <2>1, <2>5, <2>6 DEF AssertFails
<1> QED BY <1>3, <1>4

\* What one more item does to size, capacity and buffer.
LEMMA AddPreserves ==
  ASSUME IInv, NEW v \in Items,
         list_resize(size + 1),
         NEW b \in Seq(Items \cup {Garbage}), items' = b,
         Len(b) = Len(Resized(size + 1)),
         \A i \in 1..(size + 1) : b[i] \in Items,
         refs' = Plus(v),
         UNCHANGED <<live, fault>>
  PROVE  IInv'
<1>0. size \in Nat /\ allocated \in Nat
  BY Types
<1>f. live \in BOOLEAN /\ fault \in {"none", "assert", "out of bounds"}
  BY Types
<1>g. refs \in [Items -> Int]
  BY Types
<1>1. size \in Nat /\ size + 1 \in Nat /\ size + 1 > 0 /\ size' = size + 1
  BY <1>0 DEF list_resize
<1>2. /\ Len(b) >= size + 1
      /\ Fits(size + 1) => Len(b) = allocated
      /\ ~Fits(size + 1) => Len(b) = NewSize(size + 1)
  BY <1>1, Room
<1>3. NewSize(size + 1) \in Nat /\ NewSize(size + 1) >= 4
  BY <1>1, NewSizeRoom
<1>4. allocated' \in Nat /\ RoomOrNone' /\ Len(b) = allocated'
  BY <1>0, <1>1, <1>2, <1>3 DEF list_resize, RoomOrNone, IInv
<1>5. refs' \in [Items -> Int]
  BY <1>g DEF Plus
<1>6. TypeOK'
  <2>1. size' <= Len(items')
    BY <1>1, <1>2
  <2>2. \A i \in 1..size' : items'[i] \in Items
    BY <1>1
  <2>3. items' \in Seq(Items \cup {Garbage}) /\ Len(items') \in {0, allocated'}
    BY <1>4
  <2>4. live' \in BOOLEAN /\ fault' \in {"none", "assert", "out of bounds"}
    BY <1>f
  <2>5. size' \in Nat
    BY <1>1
  <2> QED BY <1>4, <1>5, <2>1, <2>2, <2>3, <2>4, <2>5 DEF TypeOK
<1> QED BY <1>4, <1>6 DEF IInv, AssertHolds

LEMMA InitIInv == ASSUME Prealloc \cap {1, 2, 3} = {}, Init PROVE IInv
<1>1. CASE DyList_New
  BY <1>1 DEF DyList_New, Empty, IInv, TypeOK, RoomOrNone, AssertHolds
<1>2. ASSUME NEW n \in Prealloc, DyList_NewEx(n) PROVE IInv
  <2>1. n \in Nat /\ (n = 0 \/ n >= 4)
    BY ListAssumption
  <2>2. [i \in 1..n |-> Garbage] \in Seq(Items \cup {Garbage})
        /\ Len([i \in 1..n |-> Garbage]) = n
    BY <2>1
  <2>3. items \in Seq(Items \cup {Garbage}) /\ Len(items) \in {0, n}
    <3>1. items = [i \in 1..n |-> Garbage] \/ items = <<>>
      BY <1>2 DEF DyList_NewEx
    <3>2. <<>> \in Seq(Items \cup {Garbage}) /\ Len(<<>>) = 0
      OBVIOUS
    <3>3. CASE items = <<>>
      BY <3>2, <3>3
    <3>4. CASE items = [i \in 1..n |-> Garbage]
      BY <2>2, <3>4
    <3> QED BY <3>1, <3>3, <3>4
  <2>4. size <= Len(items) /\ \A i \in 1..size : items[i] \in Items
    BY <1>2, <2>1, <2>3 DEF DyList_NewEx, Empty
  <2> QED BY <1>2, <2>1, <2>3, <2>4 DEF DyList_NewEx, Empty, IInv, TypeOK, RoomOrNone, AssertHolds
<1> QED BY <1>1, <1>2 DEF Init

LEMMA IndexRange ==
  ASSUME size \in Nat, NEW k \in Int
  PROVE  Index(k) \in 0..size
  BY DEF Index

LEMMA NextIInv == ASSUME IInv, Next PROVE IInv'
<1> USE DEF Running
<1>t. /\ size \in Nat /\ allocated \in Nat
      /\ items \in Seq(Items \cup {Garbage})
      /\ Len(items) \in {0, allocated} /\ size <= Len(items)
      /\ \A i \in 1..size : items[i] \in Items
  BY Types
<1>f. live \in BOOLEAN /\ fault \in {"none", "assert", "out of bounds"}
  BY Types
<1>g. refs \in [Items -> Int]
  BY Types
<1>0. size \in Nat /\ size + 1 \in Nat /\ size + 1 > 0 /\ items \in Seq(Items \cup {Garbage})
      /\ \A i \in 1..size : items[i] \in Items
  BY <1>t
<1>1. ASSUME NEW v \in Items, DyList_Append(v) PROVE IInv'
  <2> DEFINE r == Resized(size + 1)
             b == [r EXCEPT ![size + 1] = v]
  <2>1. /\ ~AssertFails(size + 1)
        /\ r \in Seq(Items \cup {Garbage}) /\ Len(r) >= size + 1
        /\ \A i \in 1..size : r[i] = items[i]
    BY <1>0, Room
  <2>2. b \in Seq(Items \cup {Garbage}) /\ Len(b) = Len(r)
    BY <1>0, <2>1
  <2>3. \A i \in 1..(size + 1) : b[i] \in Items
    BY <1>0, <2>1
  <2>4. list_resize(size + 1) /\ items' = b /\ refs' = Plus(v) /\ UNCHANGED <<live, fault>>
    BY <1>1, <2>1 DEF DyList_Append
  <2> HIDE DEF b
  <2> QED BY <2>2, <2>3, <2>4, AddPreserves
<1>2. ASSUME NEW v \in Items, NEW k \in Keys, DyList_Insert(k, v) PROVE IInv'
  <2> DEFINE at == Index(k)
             r == Resized(size + 1)
             s == Shift(r, at, size)
             b == [s EXCEPT ![at + 1] = v]
  <2>0. at \in 0..size
    BY <1>0, IndexRange, ListAssumption DEF Keys
  <2>1. /\ ~AssertFails(size + 1)
        /\ r \in Seq(Items \cup {Garbage}) /\ Len(r) >= size + 1
        /\ \A i \in 1..size : r[i] = items[i]
    BY <1>0, Room
  <2>2. CASE at = 0
    BY <1>2, <2>1, <2>2 DEF DyList_Insert, Fault, IInv, TypeOK, RoomOrNone, AssertHolds
  <2>3. CASE at # 0
    <3> HIDE DEF at, r
    <3>1. s = [i \in 1..Len(r) |-> IF i \in (at + 2)..(size + 1) THEN r[i - 1] ELSE r[i]]
      BY DEF Shift
    <3>2. \A i \in 1..Len(r) : s[i] \in Items \cup {Garbage}
      BY <1>0, <2>0, <2>1, <3>1
    <3>3. s \in Seq(Items \cup {Garbage}) /\ Len(s) = Len(r)
      BY <2>1, <3>1, <3>2
    <3>4. ASSUME NEW i \in 1..(size + 1), i # at + 1 PROVE s[i] \in Items
      <4>1. i \in 1..Len(r) /\ size \in Nat /\ at \in Nat /\ Len(r) \in Nat
        BY <1>0, <2>0, <2>1
      <4>2. CASE i \in (at + 2)..(size + 1)
        <5>1. i - 1 \in 1..size /\ s[i] = r[i - 1]
          BY <2>0, <3>1, <4>1, <4>2
        <5> QED BY <1>0, <2>1, <5>1
      <4>3. CASE i \notin (at + 2)..(size + 1)
        <5>1. i \in 1..size /\ s[i] = r[i]
          BY <2>0, <3>1, <3>4, <4>1, <4>3
        <5> QED BY <1>0, <2>1, <5>1
      <4> QED BY <4>2, <4>3
    <3> HIDE DEF s
    <3>5. b \in Seq(Items \cup {Garbage}) /\ Len(b) = Len(r)
      BY <1>0, <2>0, <2>1, <3>3
    <3>6. \A i \in 1..(size + 1) : b[i] \in Items
      BY <1>0, <2>0, <2>1, <3>3, <3>4
    <3>7. list_resize(size + 1) /\ items' = b /\ refs' = Plus(v) /\ UNCHANGED <<live, fault>>
      BY <1>2, <2>1, <2>3 DEF DyList_Insert, at, r, s
    <3> HIDE DEF b
    <3> QED BY <3>5, <3>6, <3>7, AddPreserves DEF r
  <2> QED BY <2>2, <2>3
<1>3. ASSUME NEW v \in Items, NEW k \in Keys, list_setitem(k, v) PROVE IInv'
  <2> DEFINE j == Wrap(k) + 1
  <2>1. j \in 1..size
    BY <1>0, <1>3, ListAssumption DEF list_setitem, InRange, Wrap, Keys
  <2>2. items' = [items EXCEPT ![j] = v] /\ UNCHANGED <<size, allocated, live, fault>>
    BY <1>3 DEF list_setitem
  <2> HIDE DEF j
  <2>3. j \in 1..Len(items)
    <3>1. size \in Nat /\ size <= Len(items) /\ Len(items) \in Nat
      BY <1>t
    <3> QED BY <2>1, <3>1
  <2>4. items' \in Seq(Items \cup {Garbage}) /\ Len(items') = Len(items)
    BY <1>0, <2>2, <2>3
  <2>5. \A i \in 1..size : items'[i] \in Items
    BY <1>0, <2>1, <2>2, <2>3
  <2>6. refs' \in [Items -> Int]
    <3>1. refs' = [Plus(v) EXCEPT ![items[j]] = @ - 1]
      BY <1>3 DEF list_setitem, j
    <3>2. Plus(v) \in [Items -> Int]
      BY <1>g DEF Plus
    <3> QED BY <1>0, <2>1, <3>1, <3>2
  <2>7. TypeOK'
    BY <1>t, <1>f, <2>2, <2>4, <2>5, <2>6 DEF TypeOK
  <2> QED BY <2>2, <2>7 DEF IInv, RoomOrNone, AssertHolds
<1>4. ASSUME Release, live' \in BOOLEAN PROVE IInv'
  <2>1. \A o \in Items : Occ(o) \in Int
    <3> SUFFICES ASSUME NEW o \in Items PROVE Occ(o) \in Int
      OBVIOUS
    <3>1. IsFiniteSet({i \in 1..size : items[i] = o})
      <4>1. IsFiniteSet(1..size)
        BY <1>0, FS_Interval
      <4> QED BY <4>1, FS_Subset
    <3> QED BY <3>1, FS_CardinalityType DEF Occ
  <2>2. refs' \in [Items -> Int]
    <3>1. refs' = [o \in Items |-> refs[o] - Occ(o)]
      BY <1>4 DEF Release
    <3> QED BY <1>g, <2>1, <3>1
  <2>3. items' = <<>> /\ size' = 0 /\ allocated' = allocated /\ fault' = fault
    BY <1>4 DEF Release
  <2>4. items' \in Seq(Items \cup {Garbage}) /\ Len(items') = 0 /\ \A i \in 1..size' : FALSE
    BY <2>3
  <2>5. size' <= Len(items') /\ size' \in Nat /\ Len(items') \in {0, allocated'}
    BY <2>3, <2>4
  <2>6. TypeOK'
    BY <1>t, <1>f, <1>4, <2>2, <2>3, <2>4, <2>5 DEF TypeOK
  <2> QED BY <2>3, <2>6 DEF IInv, RoomOrNone, AssertHolds
<1>5. CASE DyList_Clear
  BY <1>4, <1>5 DEF DyList_Clear, IInv, TypeOK
<1>6. CASE list_destroy
  BY <1>4, <1>6 DEF list_destroy
<1> QED BY <1>1, <1>2, <1>3, <1>5, <1>6 DEF Next

LEMMA StutterIInv == ASSUME IInv, UNCHANGED vars PROVE IInv'
  BY DEF vars, IInv, TypeOK, RoomOrNone, AssertHolds

\* Unless a list is preallocated for one, two or three items, the assertion of
\* list_resize never fails and no call reads an uninitialized pointer.
THEOREM AssertionHolds ==
  ASSUME Prealloc \cap {1, 2, 3} = {}
  PROVE  Spec => [](TypeOK /\ AssertHolds)
<1>1. Init => IInv
  BY InitIInv
<1>2. IInv /\ [Next]_vars => IInv'
  BY NextIInv, StutterIInv
<1>3. IInv => TypeOK /\ AssertHolds
  BY DEF IInv
<1> QED BY <1>1, <1>2, <1>3, PTL DEF Spec
-----------------------------------------------------------------------------
(* The list is the sequence of its items (ListSeq).                        *)

\* The sequence with v put in as number n.
LEMMA InsertedAt ==
  ASSUME NEW S, NEW c \in Seq(S), NEW v \in S, NEW n \in 1..(Len(c) + 1),
         NEW d \in Seq(S), Len(d) = Len(c) + 1,
         \A j \in 1..(Len(c) + 1) : d[j] = IF j < n THEN c[j] ELSE IF j = n THEN v ELSE c[j - 1]
  PROVE  d = SubSeq(c, 1, n - 1) \o <<v>> \o SubSeq(c, n, Len(c))
<1> DEFINE a == SubSeq(c, 1, n - 1)
           b == SubSeq(c, n, Len(c))
           e == a \o <<v>> \o b
<1>1. Len(c) \in Nat /\ n \in Nat /\ n >= 1 /\ n <= Len(c) + 1 /\ \A i \in 1..Len(c) : c[i] \in S
  OBVIOUS
<1>2. a \in Seq(S) /\ Len(a) = n - 1 /\ \A j \in 1..(n - 1) : a[j] = c[j]
  <2>1. \A i \in 1..(n - 1) : c[i] \in S
    BY <1>1
  <2>2. /\ SubSeq(c, 1, n - 1) \in Seq(S)
        /\ Len(SubSeq(c, 1, n - 1)) = IF 1 <= n - 1 THEN (n - 1) - 1 + 1 ELSE 0
        /\ \A j \in 1..((n - 1) - 1 + 1) : SubSeq(c, 1, n - 1)[j] = c[1 + j - 1]
    BY <1>1, <2>1, SubSeqProperties
  <2>3. \A j \in 1..(n - 1) : 1 + j - 1 = j /\ j \in 1..((n - 1) - 1 + 1)
    BY <1>1
  <2> QED BY <1>1, <2>2, <2>3
<1>3. b \in Seq(S) /\ Len(b) = Len(c) + 1 - n /\ \A j \in 1..(Len(c) + 1 - n) : b[j] = c[n + j - 1]
  <2>1. \A i \in n..Len(c) : c[i] \in S
    BY <1>1
  <2>2. /\ SubSeq(c, n, Len(c)) \in Seq(S)
        /\ Len(SubSeq(c, n, Len(c))) = IF n <= Len(c) THEN Len(c) - n + 1 ELSE 0
        /\ \A j \in 1..(Len(c) - n + 1) : SubSeq(c, n, Len(c))[j] = c[n + j - 1]
    BY <1>1, <2>1, SubSeqProperties
  <2>3. Len(c) - n + 1 = Len(c) + 1 - n
    BY <1>1
  <2> QED BY <1>1, <2>2, <2>3
<1> HIDE DEF a, b
<1>4. /\ a \o <<v>> \in Seq(S) /\ Len(a \o <<v>>) = n
      /\ \A j \in 1..n : (a \o <<v>>)[j] = IF j < n THEN a[j] ELSE v
  BY <1>1, <1>2
<1>5. /\ e \in Seq(S) /\ Len(e) = Len(c) + 1
      /\ \A j \in 1..(Len(c) + 1) : e[j] = IF j <= n THEN (a \o <<v>>)[j] ELSE b[j - n]
  <2> DEFINE x == a \o <<v>>
  <2>1. x \in Seq(S) /\ Len(x) = n /\ b \in Seq(S) /\ Len(b) = Len(c) + 1 - n /\ n + Len(b) = Len(c) + 1
    BY <1>1, <1>3, <1>4
  <2> HIDE DEF x
  <2>2. x \o b \in Seq(S) /\ Len(x \o b) = Len(x) + Len(b)
        /\ \A j \in 1..(Len(x) + Len(b)) : (x \o b)[j] = IF j <= Len(x) THEN x[j] ELSE b[j - Len(x)]
    BY <2>1, ConcatProperties
  <2>3. x \o b \in Seq(S) /\ Len(x \o b) = Len(c) + 1
        /\ \A j \in 1..(Len(c) + 1) : (x \o b)[j] = IF j <= n THEN x[j] ELSE b[j - n]
    BY <2>1, <2>2
  <2> QED BY <2>3 DEF x
<1>6. ASSUME NEW j \in 1..(Len(c) + 1) PROVE d[j] = e[j]
  <2>1. CASE j < n
    <3>1. j \in 1..(n - 1) /\ j \in 1..n /\ j <= n
      BY <1>1, <2>1
    <3> QED BY <1>2, <1>4, <1>5, <2>1, <3>1
  <2>2. CASE j = n
    BY <1>1, <1>4, <1>5, <2>2
  <2>3. CASE j > n
    <3>1. j - n \in 1..(Len(c) + 1 - n) /\ n + (j - n) - 1 = j - 1 /\ ~(j <= n) /\ ~(j < n) /\ j # n
      BY <1>1, <2>3
    <3> QED BY <1>3, <1>5, <3>1
  <2>4. j < n \/ j = n \/ j > n
    BY <1>1
  <2> QED BY <2>1, <2>2, <2>3, <2>4
<1>7. d = e
  <2> HIDE DEF e
  <2> QED BY <1>5, <1>6
<1> QED BY <1>7 DEF a, b

\* v was put in as item number n.
Inserted(n, v) ==
    /\ size' = size + 1
    /\ \A i \in 1..(size + 1) : items'[i] = IF i < n THEN items[i] ELSE IF i = n THEN v ELSE items[i - 1]
    /\ refs' = Plus(v)

LEMMA AppendInserts ==
  ASSUME IInv, NEW v \in Items, DyList_Append(v)
  PROVE  Inserted(size + 1, v)
<1> DEFINE r == Resized(size + 1)
<1>1. /\ size \in Nat /\ ~AssertFails(size + 1)
      /\ r \in Seq(Items \cup {Garbage}) /\ Len(r) >= size + 1
      /\ \A i \in 1..size : r[i] = items[i]
  <2>1. size \in Nat
    BY Types
  <2>2. size + 1 \in Nat
    BY <2>1
  <2> QED BY <2>1, <2>2, Room
<1>2. size' = size + 1 /\ items' = [r EXCEPT ![size + 1] = v] /\ refs' = Plus(v)
  BY <1>1 DEF DyList_Append, list_resize
<1> HIDE DEF r
<1>3. \A i \in 1..(size + 1) : items'[i] = IF i = size + 1 THEN v ELSE items[i]
  BY <1>1, <1>2
<1> QED BY <1>1, <1>2, <1>3 DEF Inserted

LEMMA InsertInserts ==
  ASSUME IInv, NEW v \in Items, NEW k \in Keys, DyList_Insert(k, v)
  PROVE  \/ \E n \in 1..(size + 1) : Inserted(n, v)
         \/ UNCHANGED <<size, items, refs>>
<1> DEFINE at == Index(k)
           r == Resized(size + 1)
<1>1. /\ size \in Nat /\ ~AssertFails(size + 1)
      /\ r \in Seq(Items \cup {Garbage}) /\ Len(r) >= size + 1 /\ Len(r) \in Nat
      /\ \A i \in 1..size : r[i] = items[i]
  <2>1. size \in Nat
    BY Types
  <2>2. size + 1 \in Nat
    BY <2>1
  <2> QED BY <2>1, <2>2, Room
<1>2. at \in 0..size
  BY <1>1, IndexRange, ListAssumption DEF Keys
<1>3. CASE at = 0
  BY <1>1, <1>3 DEF DyList_Insert, Fault
<1>4. CASE at # 0
  <2> DEFINE s == Shift(r, at, size)
  <2>1. size' = size + 1 /\ items' = [s EXCEPT ![at + 1] = v] /\ refs' = Plus(v)
    BY <1>1, <1>4 DEF DyList_Insert, list_resize
  <2> PICK n \in 1..(size + 1) : n = at + 1
    BY <1>1, <1>2
  <2> HIDE DEF at, r
  <2>2. s = [i \in 1..Len(r) |-> IF i \in (n + 1)..(size + 1) THEN r[i - 1] ELSE r[i]]
    <3>1. at + 2 = n + 1
      BY <1>2
    <3> QED BY <3>1 DEF Shift
  <2> HIDE DEF s
  <2>3. \A i \in 1..Len(r) : items'[i] = IF i = n THEN v ELSE s[i]
    BY <1>1, <2>1, <2>2
  <2>4. ASSUME NEW i \in 1..(size + 1)
        PROVE  items'[i] = IF i < n THEN items[i] ELSE IF i = n THEN v ELSE items[i - 1]
    <3>1. i \in 1..Len(r) /\ i \in Int /\ n \in Int /\ i <= size + 1 /\ n >= 1 /\ n <= size + 1
      BY <1>1
    <3>2. CASE i < n
      <4>1. i \in 1..size /\ i # n /\ i \notin (n + 1)..(size + 1)
        BY <1>1, <3>1, <3>2
      <4> QED BY <1>1, <2>2, <2>3, <3>1, <3>2, <4>1
    <3>3. CASE i = n
      BY <2>3, <3>1, <3>3
    <3>4. CASE i > n
      <4>1. i - 1 \in 1..size /\ i # n /\ ~(i < n) /\ i \in (n + 1)..(size + 1)
        BY <1>1, <3>1, <3>4
      <4> QED BY <1>1, <2>2, <2>3, <3>1, <4>1
    <3> QED BY <3>1, <3>2, <3>3, <3>4
  <2>5. Inserted(n, v)
    BY <2>1, <2>4 DEF Inserted
  <2> QED BY <2>5
<1> QED BY <1>3, <1>4

\* An item is overwritten.
LEMMA SetOverwrites ==
  ASSUME IInv, NEW v \in Items, NEW k \in Keys, list_setitem(k, v)
  PROVE  \E n \in 1..size : /\ size' = size /\ items[n] \in Items
                            /\ \A i \in 1..size : items'[i] = IF i = n THEN v ELSE items[i]
                            /\ refs' = [Plus(v) EXCEPT ![items[n]] = @ - 1]
<1>1. /\ size \in Nat /\ items \in Seq(Items \cup {Garbage}) /\ size <= Len(items) /\ Len(items) \in Nat
      /\ \A i \in 1..size : items[i] \in Items
  <2>1. /\ size \in Nat /\ items \in Seq(Items \cup {Garbage}) /\ size <= Len(items)
        /\ \A i \in 1..size : items[i] \in Items
    BY Types
  <2> QED BY <2>1
<1> PICK n \in Int : n = Wrap(k) + 1
  BY <1>1, ListAssumption DEF Wrap, Keys
<1>2. n \in 1..size
  BY <1>1, ListAssumption DEF list_setitem, InRange, Wrap, Keys
<1>3. size' = size /\ items' = [items EXCEPT ![n] = v] /\ refs' = [Plus(v) EXCEPT ![items[n]] = @ - 1]
  BY DEF list_setitem
<1>4. \A i \in 1..size : items'[i] = IF i = n THEN v ELSE items[i]
  BY <1>1, <1>2, <1>3
<1> QED BY <1>1, <1>2, <1>3, <1>4

LEMMA InsertRefines ==
  ASSUME IInv, IInv', NEW v \in Items, NEW n \in 1..(size + 1), Inserted(n, v)
  PROVE  L!Insert(n, v)
<1> DEFINE c == [i \in 1..size |-> items[i]]
           d == [i \in 1..size' |-> items'[i]]
<1>1. size \in Nat /\ size' = size + 1 /\ \A i \in 1..size : items[i] \in Items
  BY Types DEF Inserted
<1>2. \A i \in 1..size' : items'[i] \in Items
  BY DEF IInv, TypeOK
<1>3. c \in Seq(Items) /\ Len(c) = size /\ \A i \in 1..size : c[i] = items[i]
  BY <1>1
<1>4. d \in Seq(Items) /\ Len(d) = size + 1 /\ \A i \in 1..(size + 1) : d[i] = items'[i]
  BY <1>1, <1>2
<1>5. ASSUME NEW j \in 1..(size + 1)
      PROVE  d[j] = IF j < n THEN c[j] ELSE IF j = n THEN v ELSE c[j - 1]
  <2>1. j < n => j \in 1..size
    BY <1>1
  <2>2. j # n /\ ~(j < n) => j - 1 \in 1..size
    BY <1>1
  <2> HIDE DEF c, d
  <2> QED BY <1>3, <1>4, <2>1, <2>2 DEF Inserted
<1>6. d = SubSeq(c, 1, n - 1) \o <<v>> \o SubSeq(c, n, Len(c))
  <2> HIDE DEF c, d
  <2> QED BY <1>3, <1>4, <1>5, InsertedAt
<1> QED BY <1>6 DEF L!Insert

\* Every step is one of a sequence, or none.
LEMMA StepRefines ==
  ASSUME IInv, IInv', [Next]_vars
  PROVE  [L!Next]_[i \in 1..size |-> items[i]]
<1> DEFINE c == [i \in 1..size |-> items[i]]
<1>0. size \in Nat /\ \A i \in 1..size : items[i] \in Items
  BY Types
<1>l. Len(c) = size
  BY <1>0
<1>1. CASE UNCHANGED <<size, items>>
  BY <1>1
<1>2. ASSUME NEW v \in Items, NEW n \in 1..(size + 1), Inserted(n, v) PROVE L!Next
  <2>1. L!Insert(n, v)
    BY <1>2, InsertRefines
  <2>2. n \in 1..(Len(c) + 1)
    BY <1>l
  <2> QED BY <2>1, <2>2 DEF L!Next
<1>3. ASSUME NEW v \in Items, NEW k \in Keys, list_setitem(k, v) PROVE L!Next
  <2>1. PICK n \in 1..size : size' = size /\ \A i \in 1..size : items'[i] = IF i = n THEN v ELSE items[i]
    BY <1>3, SetOverwrites
  <2>2. [i \in 1..size' |-> items'[i]] = [c EXCEPT ![n] = v]
    BY <2>1
  <2>3. L!Set(n, v) /\ n \in 1..Len(c)
    BY <1>l, <2>2 DEF L!Set
  <2> QED BY <2>3 DEF L!Next
<1>4. ASSUME Release PROVE L!Next
  <2>1. [i \in 1..size' |-> items'[i]] = <<>>
    BY <1>4 DEF Release
  <2> QED BY <2>1 DEF L!Next, L!Clear
<1>5. CASE Next
  <2>1. ASSUME NEW v \in Items, DyList_Append(v) PROVE L!Next
    <3>1. size + 1 \in 1..(size + 1)
      BY <1>0
    <3> QED BY <1>2, <2>1, <3>1, AppendInserts
  <2>2. ASSUME NEW v \in Items, NEW k \in Keys, DyList_Insert(k, v) PROVE L!Next \/ UNCHANGED <<size, items>>
    BY <1>2, <2>2, InsertInserts
  <2> QED BY <1>1, <1>3, <1>4, <1>5, <2>1, <2>2 DEF Next, DyList_Clear, list_destroy
<1> QED BY <1>1, <1>5 DEF vars

\* Unless a list is preallocated for one, two or three items, it is the sequence
\* its interface promises, through all resizes, shifts and clears.
THEOREM ListIsSequence ==
  ASSUME Prealloc \cap {1, 2, 3} = {}
  PROVE  Spec => SeqSpec
<1>1. Init => IInv
  BY InitIInv
<1>2. IInv /\ [Next]_vars => IInv'
  BY NextIInv, StutterIInv
<1>3. Init => L!Init
  BY DEF Init, DyList_New, DyList_NewEx, Empty, L!Init
<1>4. IInv /\ IInv' /\ [Next]_vars => [L!Next]_[i \in 1..size |-> items[i]]
  BY StepRefines
<1> QED BY <1>1, <1>2, <1>3, <1>4, PTL DEF Spec, SeqSpec, L!Spec
-----------------------------------------------------------------------------
(* References.                                                             *)

At(o) == {i \in 1..size : items[i] = o}

LEMMA OccType ==
  ASSUME size \in Nat, NEW o
  PROVE  IsFiniteSet(At(o)) /\ Cardinality(At(o)) \in Nat /\ Occ(o) = Cardinality(At(o))
<1>1. IsFiniteSet(1..size)
  BY FS_Interval
<1>2. IsFiniteSet(At(o))
  BY <1>1, FS_Subset DEF At
<1> QED BY <1>2, FS_CardinalityType DEF At, Occ

\* The positions of o move up behind the new item, and stay as many.
LEMMA InsertedOcc ==
  ASSUME size \in Nat, NEW v, NEW n \in 1..(size + 1), Inserted(n, v), NEW o
  PROVE  Occ(o)' = Occ(o) + (IF o = v THEN 1 ELSE 0)
<1> DEFINE up == [i \in At(o) |-> IF i < n THEN i ELSE i + 1]
           T  == {up[i] : i \in At(o)}
<1>1. At(o) \subseteq 1..size /\ IsFiniteSet(At(o)) /\ Cardinality(At(o)) \in Nat /\ Occ(o) = Cardinality(At(o))
  BY OccType DEF At
<1>2. \A i \in At(o) : i \in Int
  BY <1>1
<1>3. up \in Bijection(At(o), T)
  <2>1. \A i, j \in At(o) : up[i] = up[j] => i = j
    BY <1>2
  <2> QED BY <2>1 DEF Bijection, Injection, Surjection, IsInjective
<1>4. IsFiniteSet(T) /\ Cardinality(T) = Cardinality(At(o))
  BY <1>1, <1>3, FS_Bijection DEF ExistsBijection
<1>5. n \notin T
  BY <1>2
<1>6. ASSUME NEW j PROVE j \in At(o)' <=> j \in T \/ (j = n /\ o = v)
  <2>1. j \in At(o)' <=> j \in 1..(size + 1) /\ items'[j] = o
    BY DEF At, Inserted
  <2>2. ASSUME j \in At(o)', j # n PROVE j \in T
    <3>1. j \in 1..(size + 1) /\ j \in Int /\ items'[j] = o
      BY <2>1, <2>2
    <3>2. CASE j < n
      <4>1. j \in At(o) /\ up[j] = j
        BY <3>1, <3>2 DEF At, Inserted
      <4> QED BY <4>1
    <3>3. CASE j > n
      <4>1. j - 1 \in At(o) /\ up[j - 1] = j
        BY <3>1, <3>3 DEF At, Inserted
      <4> QED BY <4>1
    <3> QED BY <2>2, <3>1, <3>2, <3>3
  <2>3. ASSUME NEW i \in At(o), j = up[i] PROVE j \in At(o)'
    <3>1. i \in 1..size /\ i \in Int /\ items[i] = o
      BY <1>2 DEF At
    <3>2. CASE i < n
      BY <2>1, <2>3, <3>1, <3>2 DEF Inserted
    <3>3. CASE i >= n
      <4>1. j = i + 1 /\ j \in 1..(size + 1) /\ ~(j < n) /\ j # n /\ j - 1 = i
        BY <2>3, <3>1, <3>3
      <4> QED BY <2>1, <3>1, <4>1 DEF Inserted
    <3> QED BY <3>1, <3>2, <3>3
  <2>4. items'[n] = v
    BY DEF Inserted
  <2> QED BY <2>1, <2>2, <2>3, <2>4
<1> HIDE DEF T
<1>7. Occ(o)' = Cardinality(At(o)')
  BY DEF Occ, At
<1>8. CASE o = v
  <2>1. At(o)' = T \cup {n}
    BY <1>6, <1>8
  <2>2. Cardinality(T \cup {n}) = Cardinality(T) + 1
    BY <1>4, <1>5, FS_AddElement
  <2> QED BY <1>1, <1>4, <1>7, <1>8, <2>1, <2>2
<1>9. CASE o # v
  <2>1. At(o)' = T
    BY <1>6, <1>9
  <2> QED BY <1>1, <1>4, <1>7, <1>9, <2>1
<1> QED BY <1>8, <1>9

\* v replaced item number n.
Overwritten(n, v) ==
    /\ size' = size
    /\ \A i \in 1..size : items'[i] = IF i = n THEN v ELSE items[i]

LEMMA OverwrittenOcc ==
  ASSUME size \in Nat, NEW v, NEW n \in 1..size, Overwritten(n, v), NEW o
  PROVE  Occ(o)' = Occ(o) + (IF o = v THEN 1 ELSE 0) - (IF o = items[n] THEN 1 ELSE 0)
<1>1. IsFiniteSet(At(o)) /\ Cardinality(At(o)) \in Nat /\ Occ(o) = Cardinality(At(o))
  BY OccType
<1>2. Occ(o)' = Cardinality(At(o)')
  BY DEF Occ, At, Overwritten
<1>3. n \in At(o) <=> o = items[n]
  BY DEF At
<1>4. IsFiniteSet(At(o) \ {n}) /\ Cardinality(At(o) \ {n}) = Occ(o) - (IF o = items[n] THEN 1 ELSE 0)
  BY <1>1, <1>3, FS_RemoveElement
<1>5. CASE o = v
  <2>1. At(o)' = (At(o) \ {n}) \cup {n}
    BY <1>5 DEF At, Overwritten
  <2>2. n \notin At(o) \ {n}
    OBVIOUS
  <2>3. Cardinality((At(o) \ {n}) \cup {n}) = Cardinality(At(o) \ {n}) + 1
    BY <1>4, <2>2, FS_AddElement
  <2> QED BY <1>1, <1>2, <1>4, <1>5, <2>1, <2>3
<1>6. CASE o # v
  <2>1. At(o)' = At(o) \ {n}
    BY <1>6 DEF At, Overwritten
  <2> QED BY <1>1, <1>2, <1>4, <1>6, <2>1
<1> QED BY <1>5, <1>6

\* The list holds one reference for each place an item is at: each call retains and
\* releases what it stores and drops.
THEOREM ReferencesAccounted ==
  ASSUME Prealloc \cap {1, 2, 3} = {}
  PROVE  Spec => []RefsAccounted
<1> DEFINE Inv == IInv /\ RefsAccounted
<1>1. Init => Inv
  <2> SUFFICES ASSUME Init, NEW o \in Items PROVE refs[o] = Occ(o)
    BY InitIInv DEF RefsAccounted
  <2>1. size = 0 /\ refs[o] = 0
    BY DEF Init, DyList_New, DyList_NewEx, Empty
  <2>2. At(o) = {}
    BY <2>1 DEF At
  <2> QED BY <2>1, <2>2, FS_EmptySet DEF At, Occ
<1>2. Inv /\ [Next]_vars => Inv'
  <2> SUFFICES ASSUME Inv, [Next]_vars PROVE RefsAccounted'
    BY NextIInv, StutterIInv
  <2>0. size \in Nat /\ refs \in [Items -> Int] /\ \A o \in Items : Occ(o) = refs[o]
    BY Types DEF RefsAccounted
  <2>1. CASE UNCHANGED <<size, items, refs>>
    BY <2>1 DEF RefsAccounted, Occ
  <2>2. ASSUME NEW v \in Items, NEW n \in 1..(size + 1), Inserted(n, v) PROVE RefsAccounted'
    <3> SUFFICES ASSUME NEW o \in Items PROVE refs'[o] = Occ(o)'
      BY DEF RefsAccounted, Occ
    <3>1. Occ(o)' = Occ(o) + (IF o = v THEN 1 ELSE 0)
      BY <2>0, <2>2, InsertedOcc
    <3>2. refs' = [refs EXCEPT ![v] = @ + 1]
      BY <2>2 DEF Inserted, Plus
    <3> QED BY <2>0, <3>1, <3>2
  <2>3. ASSUME NEW v \in Items, NEW k \in Keys, list_setitem(k, v) PROVE RefsAccounted'
    <3>1. PICK n \in 1..size : /\ size' = size /\ items[n] \in Items
                               /\ \A i \in 1..size : items'[i] = IF i = n THEN v ELSE items[i]
                               /\ refs' = [Plus(v) EXCEPT ![items[n]] = @ - 1]
      BY <2>3, SetOverwrites
    <3> SUFFICES ASSUME NEW o \in Items PROVE refs'[o] = Occ(o)'
      BY DEF RefsAccounted, Occ
    <3>2. Occ(o)' = Occ(o) + (IF o = v THEN 1 ELSE 0) - (IF o = items[n] THEN 1 ELSE 0)
      <4>1. Overwritten(n, v)
        BY <3>1 DEF Overwritten
      <4> QED BY <2>0, <4>1, OverwrittenOcc
    <3> QED BY <2>0, <3>1, <3>2 DEF Plus
  <2>4. ASSUME Release PROVE RefsAccounted'
    <3> SUFFICES ASSUME NEW o \in Items PROVE refs'[o] = Occ(o)'
      BY DEF RefsAccounted, Occ
    <3>1. refs'[o] = 0
      BY <2>0, <2>4 DEF Release
    <3>2. At(o)' = {}
      BY <2>4 DEF At, Release
    <3>3. Occ(o)' = Cardinality(At(o)')
      BY DEF Occ, At
    <3> QED BY <3>1, <3>2, <3>3, FS_EmptySet
  <2>5. CASE Next
    <3>1. ASSUME NEW v \in Items, DyList_Append(v) PROVE RefsAccounted'
      <4>1. size + 1 \in 1..(size + 1)
        BY <2>0
      <4> QED BY <2>2, <3>1, <4>1, AppendInserts
    <3>2. ASSUME NEW v \in Items, NEW k \in Keys, DyList_Insert(k, v) PROVE RefsAccounted'
      BY <2>1, <2>2, <3>2, InsertInserts
    <3> QED BY <2>3, <2>4, <2>5, <3>1, <3>2 DEF Next, DyList_Clear, list_destroy
  <2> QED BY <2>1, <2>5 DEF vars
<1> QED BY <1>1, <1>2, PTL DEF Spec
=============================================================================
