------------------------------ MODULE Objects -------------------------------
(***************************************************************************)
(* The objects as the wrappers of other languages see them: counted, with  *)
(* what each owns, and the error state.  What the components do inside is   *)
(* in Heap, Dict, List and ErrorState; here whole library calls are        *)
(* functions of the state, so that the wrappers around them can be built   *)
(* from them.                                                              *)
(*                                                                         *)
(* A state s has the heap, the current exception err, the string builder   *)
(* bs in use, and fault, which tells how the program left its memory.  A   *)
(* function that may fail gives a set of outcomes [s, ret].                *)
(***************************************************************************)
EXTENDS Integers, Sequences, SequencesExt, FiniteSets, FiniteSetsExt

CONSTANTS Slots,    \* places for objects,
          ErrSlots, \* for exceptions, and
          PySlots,  \* for objects of Python: positive numbers, as many as the bounds
          NULL,
          Undefined, None,
          Small, \* an int of Python's that always exists
          Done,  \* what a call that has nothing else to return returns
          Thrown \* and what one returns that ends with an exception of its language

\* Objects whose counts are not kept: they are static.  MemoryError is static
\* too, but has a cause, and is counted.
Static == {Undefined, None, Small}
MemoryError == 0
Objs == Slots \cup ErrSlots \cup PySlots \cup {MemoryError}

\* val: the value of a long, what is left open in a string, what kind of callable
\* a userdata is; other values and the ids of errors are not told apart.
\* link: the parent of a dict, the cause of an exception, the data of a
\* userdata.  items: those of a list; the keys and values of a dict in turn.
Object(type, val, link, items) ==
    [type |-> type, cnt |-> 1, val |-> val, link |-> link, items |-> items]
Chars == <<>> \* any string of the program
Gone(why) == [Object(why, NULL, NULL, <<>>) EXCEPT !.cnt = 0]
EmptyHeap == [o \in Objs |-> IF o = MemoryError THEN Object("exception", NULL, NULL, <<>>)
                             ELSE Gone("free")]

Type(s, o) == IF o = NULL THEN "null" ELSE IF o \in Static THEN o ELSE s.heap[o].type
Val(s, o)  == s.heap[o].val
Owned(r)   == SelectSeq(r.items \o <<r.link>>, LAMBDA o : o \in Objs)

Fault(s, why) == [s EXCEPT !.fault = IF @ = "none" THEN why ELSE @]

\* The outcome of a call that uses these objects.
Using(s, objects, outcomes) ==
    IF s.fault # "none" THEN {[s |-> s, ret |-> NULL]}
    ELSE IF NULL \in objects THEN {[s |-> Fault(s, "null"), ret |-> NULL]}
    ELSE IF \E o \in objects : Type(s, o) \in {"freed", "free"}
    THEN {[s |-> Fault(s, "freed"), ret |-> NULL]}
    ELSE outcomes
One(s, ret) == {[s |-> s, ret |-> ret]}
Then(outcomes, F(_, _)) ==
    UNION {IF o.s.fault # "none" THEN {[o EXCEPT !.ret = NULL]} ELSE F(o.s, o.ret) : o \in outcomes}
-----------------------------------------------------------------------------
(* Counting.  A count that falls below zero is not noticed.                *)

Count(s, o, change) ==
    CASE s.fault # "none" \/ o \in Static -> s
      [] o = NULL -> Fault(s, "null")
      [] Type(s, o) \in {"freed", "free"} -> Fault(s, "freed")
      [] OTHER -> [s EXCEPT !.heap[o].cnt = @ + change]

Dy_Retain(s, o) == Count(s, o, 1)
Dy_Pass(s, o)   == Count(s, o, -1)

\* A wrapper of Python's releases nothing when it dies: its type has no tp_dealloc,
\* and nothing calls its tp_finalize (pydy.c:285, 328).  s.kept counts what is kept.
Released(r) == IF r.type = "PyDy" THEN <<>> ELSE Owned(r)
Dead(s, o) ==
    LET r == s.heap[o]
        t == [s EXCEPT !.heap[o] = Gone("freed")]
    IN  IF r.type = "PyDy" /\ r.link \in Objs THEN [t EXCEPT !.kept[r.link] = @ + 1] ELSE t

RECURSIVE Dy_Release(_, _), ReleaseAll(_, _)
Dy_Release(s, o) ==
    LET t == Count(s, o, -1)
    IN  IF t.fault # "none" \/ o \in Static \/ t.heap[o].cnt # 0 THEN t
        ELSE ReleaseAll(Dead(t, o), Released(t.heap[o]))
ReleaseAll(s, objects) ==
    IF objects = <<>> THEN s ELSE ReleaseAll(Dy_Release(s, Head(objects)), Tail(objects))
-----------------------------------------------------------------------------
(* Errors, and allocation, which may fail at any time.                     *)

DyErr_SetObject(s, e) ==
    LET t == Count(s, e, 1)
    IN  IF t.fault # "none" THEN t ELSE [t EXCEPT !.heap[e].link = s.err, !.err = e]

\* The exception is allocated without a test for failure, and passed on.
DyErr_Set(s) ==
    LET free == {o \in ErrSlots : s.heap[o].type = "free"}
        e    == Min(free)
    IN  IF s.fault # "none" THEN s
        ELSE IF free = {} THEN Fault(s, "null")
        ELSE [s EXCEPT !.heap[e] = Object("exception", NULL, s.err, <<>>), !.err = e]

DyErr_Clear(s) == [Dy_Release(s, s.err) EXCEPT !.err = NULL]

Fail(s)      == One(DyErr_Set(s), NULL)
NoMemory(s)  == One(DyErr_SetObject(s, MemoryError), NULL)

Crash(s)     == One(Fault(s, "null"), NULL)

\* Any of the constructors: malloc, Dy_InitObject and the fields.  Those of strings
\* and dictionaries test the malloc; the macro NEW of the others clears the memory
\* first (dy_p.h:32).
New(s, object) ==
    LET free   == {o \in Slots : s.heap[o].type = "free"}
        failed == IF object.type \in {"string", "dict"} THEN NoMemory(s) ELSE Crash(s)
    IN  Using(s, {}, failed \cup
            (IF free = {} THEN {} ELSE One([s EXCEPT !.heap[Min(free)] = object], Min(free))))
-----------------------------------------------------------------------------
(* How counts and references agree.                                        *)

\* The references of the heap: whose, which, and to what.
Links(s) == UNION {LET items == Owned(s.heap[p])
                   IN  {<<p, i, items[i]>> : i \in DOMAIN items} :
                   p \in {q \in Objs : s.heap[q].type \notin {"free", "freed"}}}

\* References to o in the heap and in the error state.
References(s, links, o) ==
    (IF s.err = o THEN 1 ELSE 0) + (IF o = MemoryError THEN 1 ELSE 0)
    + Cardinality({l \in links : l[3] = o})

\* Memory that nothing refers to any more can be allocated again.
Swept(s, held) ==
    LET links == Links(s)
    IN  [s EXCEPT !.heap = [o \in Objs |->
            IF s.heap[o].type = "freed" /\ References(s, links, o) + held[o] = 0 THEN Gone("free")
            ELSE s.heap[o]]]
=============================================================================
