-------------------------------- MODULE List --------------------------------
(***************************************************************************)
(* The list of list.c: a buffer of item pointers, its capacity and the     *)
(* number of items, with the resize rule it takes from CPython.            *)
(*                                                                         *)
(* The buffer is a sequence (items[i] of the code is items[i + 1] here);   *)
(* the null pointer is the empty sequence.  A call that trips the          *)
(* assertion of list_resize, or runs off the buffer, ends the behaviour in *)
(* a state with fault # "none".  A failed realloc leaves all as it was.    *)
(***************************************************************************)
EXTENDS Integers, Sequences, FiniteSets

CONSTANTS Items,     \* the objects stored
          Garbage,   \* an uninitialized pointer
          Prealloc,  \* the arguments of DyList_NewEx
          MallocFails, \* whether its allocation may fail
          MaxSize    \* bound on the number of items

ASSUME ListAssumption ==
    /\ Garbage \notin Items
    /\ Prealloc \subseteq Nat
    /\ MallocFails \in BOOLEAN
    /\ MaxSize \in Nat

VARIABLES size, allocated, items,   \* DyListObject
          live,                     \* the list exists
          fault,                    \* how a call went wrong
          refs                      \* Dy_Retain minus Dy_Release calls (history)

vars == <<size, allocated, items, live, fault, refs>>

Plus(o)  == [refs EXCEPT ![o] = @ + 1]
Minus(o) == [refs EXCEPT ![o] = @ - 1]
Occ(o)   == Cardinality({i \in 1..size : items[i] = o})

Empty == /\ size = 0 /\ live = TRUE /\ fault = "none"
         /\ refs = [o \in Items |-> 0]

DyList_New == Empty /\ allocated = 0 /\ items = <<>>

\* The result of the allocation is not looked at.
DyList_NewEx(n) == /\ Empty /\ allocated = n
                   /\ \/ items = [i \in 1..n |-> Garbage]
                      \/ MallocFails /\ items = <<>>

Init == DyList_New \/ \E n \in Prealloc : DyList_NewEx(n)

Running == live /\ fault = "none"
Fault(what) == fault' = what /\ UNCHANGED <<size, allocated, items, live, refs>>
-----------------------------------------------------------------------------
(* list_resize: the buffer is kept as long as it is at least half used.    *)

Fits(n) == allocated >= n /\ n >= allocated \div 2

\* assert (self->items != NULL || new_size == 0)
AssertFails(n) == Fits(n) /\ items = <<>> /\ n # 0

\* Mutant: no room to grow.
NoSlack(n) == n

NewSize(n) == IF n = 0 THEN 0 ELSE n + (n \div 8) + (IF n < 9 THEN 3 ELSE 6)

\* The buffer list_resize leaves for n items.
Resized(n) == IF Fits(n) THEN items
              ELSE [i \in 1..NewSize(n) |-> IF i <= Len(items) THEN items[i] ELSE Garbage]

list_resize(n) == /\ size' = n
                  /\ allocated' = IF Fits(n) THEN allocated ELSE NewSize(n)
-----------------------------------------------------------------------------
\* Where list_insert puts an item meant for index where.
Index(where) == IF where >= 0 THEN (IF where > size THEN size ELSE where)
                ELSE (IF where + size < 0 THEN 0 ELSE where + size)

\* Mutant: the loop stops one item early.
ShiftsShort(b, at, n) ==
    [i \in 1..Len(b) |-> IF i \in (at + 3)..(n + 1) THEN b[i - 1] ELSE b[i]]

\* The loop of list_insert: the items from index at on move up.
Shift(b, at, n) ==
    [i \in 1..Len(b) |-> IF i \in (at + 2)..(n + 1) THEN b[i - 1] ELSE b[i]]

\* The loop counts an unsigned index down to where: with where = 0 it never
\* ends, and reads outside the buffer once the index has wrapped around.
DyList_Insert(where, v) ==
    LET at == Index(where)
    IN  /\ Running /\ size < MaxSize
        /\ IF AssertFails(size + 1) THEN Fault("assert")
           ELSE IF at = 0 THEN Fault("out of bounds")
           ELSE /\ list_resize(size + 1)
                /\ items' = [Shift(Resized(size + 1), at, size) EXCEPT ![at + 1] = v]
                /\ refs' = Plus(v)
                /\ UNCHANGED <<live, fault>>

DyList_Append(v) ==
    /\ Running /\ size < MaxSize
    /\ IF AssertFails(size + 1) THEN Fault("assert")
       ELSE /\ list_resize(size + 1)
            /\ items' = [Resized(size + 1) EXCEPT ![size + 1] = v]
            /\ refs' = Plus(v)
            /\ UNCHANGED <<live, fault>>

\* A negative key counts from the end; InRange is the code's bounds check.
Wrap(key) == IF key < 0 THEN key + size ELSE key
InRange(key) == 0 <= Wrap(key) /\ Wrap(key) < size

\* Mutant: the old item is not released.
SetItemLeaks(key, v) ==
    /\ Running /\ InRange(key)
    /\ items' = [items EXCEPT ![Wrap(key) + 1] = v]
    /\ refs' = Plus(v)
    /\ UNCHANGED <<size, allocated, live, fault>>

list_setitem(key, v) ==
    /\ Running /\ InRange(key)
    /\ items' = [items EXCEPT ![Wrap(key) + 1] = v]
    /\ refs' = [Plus(v) EXCEPT ![items[Wrap(key) + 1]] = @ - 1]
    /\ UNCHANGED <<size, allocated, live, fault>>

\* Mutant: the list forgets its buffer but not how many items were in it.
ClearKeepsSize ==
    /\ items' = <<>>
    /\ refs' = [o \in Items |-> refs[o] - Occ(o)]
    /\ UNCHANGED <<size, allocated, fault>>

\* Every item is released and the buffer freed; allocated is not reset.
Release == /\ items' = <<>> /\ size' = 0
           /\ refs' = [o \in Items |-> refs[o] - Occ(o)]
           /\ UNCHANGED <<allocated, fault>>

DyList_Clear == Running /\ Release /\ UNCHANGED live

list_destroy == Running /\ Release /\ live' = FALSE

Keys == -(MaxSize + 1)..(MaxSize + 1)

Next == \/ \E v \in Items : \/ DyList_Append(v)
                           \/ \E k \in Keys : DyList_Insert(k, v) \/ list_setitem(k, v)
        \/ DyList_Clear
        \/ list_destroy

Spec == Init /\ [][Next]_vars
-----------------------------------------------------------------------------
\* The buffer is absent or has the recorded capacity, and every index below
\* size holds an item that was stored there: no call reads garbage.
TypeOK == /\ size \in Nat /\ allocated \in Nat
          /\ items \in Seq(Items \cup {Garbage})
          /\ Len(items) \in {0, allocated}
          /\ size <= Len(items)
          /\ \A i \in 1..size : items[i] \in Items
          /\ live \in BOOLEAN
          /\ fault \in {"none", "assert", "out of bounds"}
          /\ refs \in [Items -> Int]

\* The assertion of list_resize (list.c:70): whatever sequence of appends,
\* inserts and clears came before, a buffer kept as it is exists.
AssertHolds == fault # "assert"

\* The list holds one reference for each index an item is stored at.
RefsAccounted == \A o \in Items : refs[o] = Occ(o)

\* Through all resizes and shifts the list is the sequence of its items.
L == INSTANCE ListSeq WITH seq <- [i \in 1..size |-> items[i]]
SeqSpec == L!Spec

\* collections.h:68: where is "The index to insert the item at"; 0 is one.
InsertStaysInside == fault # "out of bounds"
=============================================================================
