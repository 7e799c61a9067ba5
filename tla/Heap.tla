-------------------------------- MODULE Heap --------------------------------
(***************************************************************************)
(* Reference counts of dy.c: Dy_InitObject, Dy_Retain, Dy_Release, Dy_Pass *)
(* and the cascade of Dy_FreeObject, used by several threads.  The count   *)
(* is _Atomic (dy_p.h:40), so each retain and each release is one step.    *)
(*                                                                         *)
(* A place is a variable of a client thread (a handle) or an item slot of  *)
(* a container; at says what its memory shows.  The containers release an  *)
(* item before they take it out of its slot when a dictionary entry gets a *)
(* new value, when they are cleared and when they are destroyed: until the *)
(* call goes on, the slot is stale, it shows an object it no longer        *)
(* counts.  Each release may start a destruction, and the destructor of a  *)
(* userdata object (userdata.c:66) may take any client step meanwhile:     *)
(* work[t] is the stack of calls thread t has not finished.                *)
(*                                                                         *)
(* Containers take no lock: their users serialize access.  What a container*)
(* does when a destructor uses it in the middle of a call is not modelled: *)
(* the model records that and stops (reentered).  The key of a dictionary  *)
(* entry and the parent of a dictionary are not slots here (see Dict).     *)
(***************************************************************************)
EXTENDS Integers, Sequences, FiniteSets

CONSTANTS Obj,          \* objects (addresses: a freed one may be allocated again)
          Threads,
          Handles,      \* client variables
          OwnerOf,      \* [Handles -> Threads]
          Slots,        \* item slots
          ContainerOf,  \* [Slots -> Obj]
          Dicts,        \* the containers that are dictionaries
          Userdata,     \* objects whose destructor calls the library again
          NULL

ASSUME HeapAssumption ==
    /\ NULL \notin Obj
    /\ OwnerOf \in [Handles -> Threads]
    /\ ContainerOf \in [Slots -> Obj]
    /\ Dicts \subseteq Obj /\ Userdata \subseteq Obj
    /\ Handles \cap Slots = {}
    /\ IsFiniteSet(Handles) /\ IsFiniteSet(Slots)

Places == Handles \cup Slots
Inside(o) == {p \in Slots : ContainerOf[p] = o}

VARIABLES status,    \* "none" (not allocated), "live", or "dying" (in Dy_FreeObject)
          refcnt,    \* DyObject.refcnt
          at,        \* the object each place shows
          stale,     \* slots whose object was released and not yet taken out
          pending,   \* the object dict_setitem has retained for a stale slot
          floating,  \* the object a thread passed (Dy_Pass) and has not stored yet
          leaked,    \* passed objects whose container call failed (history)
          work,      \* the library calls each thread is in, innermost first
          reentered  \* a container used or destroyed in the middle of a call on it

vars == <<status, refcnt, at, stale, pending, floating, leaked, work, reentered>>

\* A call in progress: Dy_FreeObject of an object, DyList_Clear or DyDict_Clear
\* of a container, or a dict_setitem that replaces a value.
Calls == [name : {"free", "clear", "set"}, on : Obj, slot : Slots \cup {NULL}]
FreeCall(o) == [name |-> "free", on |-> o, slot |-> NULL]
ClearCall(c) == [name |-> "clear", on |-> c, slot |-> NULL]
SetCall(p) == [name |-> "set", on |-> ContainerOf[p], slot |-> p]

Unfinished(w) == {w[i] : i \in DOMAIN w}
InCall(w, o) == \E t \in Threads : \E c \in Unfinished(w[t]) : c.on = o

Init == /\ status = [o \in Obj |-> "none"]
        /\ refcnt = [o \in Obj |-> 0]
        /\ at = [p \in Places |-> NULL]
        /\ stale = {}
        /\ pending = [p \in Slots |-> NULL]
        /\ floating = [t \in Threads |-> NULL]
        /\ leaked = {}
        /\ work = [t \in Threads |-> <<>>]
        /\ reentered = NULL

Holds(t, o) == \E h \in Handles : OwnerOf[h] = t /\ at[h] = o

\* A thread may start a call on a container it refers to, and no call on it is
\* unfinished.
MayUse(t, c) == Holds(t, c) /\ ~InCall(work, c)

\* The counts after Dy_Retain.
Retained(o) == [refcnt EXCEPT ![o] = @ + 1]

\* Mutant: the last reference but one destroys the object.
ReleaseEarly(t, counts, o, w) ==
    LET dies == counts[o] <= 2
    IN  /\ refcnt' = [counts EXCEPT ![o] = @ - 1]
        /\ status' = IF dies THEN [status EXCEPT ![o] = "dying"] ELSE status
        /\ work' = IF dies THEN [w EXCEPT ![t] = <<FreeCall(o)>> \o @] ELSE w
        /\ reentered' = IF dies /\ InCall(w, o) THEN o ELSE NULL

\* Mutant: the count reaches zero and nobody frees the object.
ReleaseNoFree(t, counts, o, w) ==
    /\ refcnt' = [counts EXCEPT ![o] = @ - 1]
    /\ work' = w
    /\ UNCHANGED <<status, reentered>>

\* Dy_Release: one atomic decrement; whoever reaches zero destroys the object.
\* counts are the counts before it, w the calls the threads are in.
Dy_Release(t, counts, o, w) ==
    LET dies == counts[o] = 1
    IN  /\ refcnt' = [counts EXCEPT ![o] = @ - 1]
        /\ status' = IF dies THEN [status EXCEPT ![o] = "dying"] ELSE status
        /\ work' = IF dies THEN [w EXCEPT ![t] = <<FreeCall(o)>> \o @] ELSE w
        /\ reentered' = IF dies /\ InCall(w, o) THEN o ELSE NULL
-----------------------------------------------------------------------------
(* Client steps.                                                           *)

\* DyLong_New and the other constructors: Dy_InitObject sets the count to 1.
New(t, h, o) == /\ OwnerOf[h] = t /\ at[h] = NULL
                /\ status[o] = "none"
                /\ status' = [status EXCEPT ![o] = "live"]
                /\ refcnt' = [refcnt EXCEPT ![o] = 1]
                /\ at' = [at EXCEPT ![h] = o]
                /\ UNCHANGED <<stale, pending, floating, leaked, work, reentered>>

\* Mutant: a reference copied without Dy_Retain.
CopyBorrowed(t, p, h) ==
    /\ at[p] # NULL /\ at[h] = NULL
    /\ \/ p \in Handles /\ OwnerOf[p] = t
       \/ p \in Slots /\ MayUse(t, ContainerOf[p])
    /\ at' = [at EXCEPT ![h] = at[p]]
    /\ UNCHANGED <<status, refcnt, stale, pending, floating, leaked, work, reentered>>

\* Dy_Retain of an object the thread refers to, or of the borrowed reference a
\* lookup in a container of its own returned.  The new reference may be meant
\* for a variable of another thread.
Dy_Retain(t, p, h) ==
    /\ at[p] # NULL /\ at[h] = NULL
    /\ \/ p \in Handles /\ OwnerOf[p] = t
       \/ p \in Slots /\ MayUse(t, ContainerOf[p])
    /\ at' = [at EXCEPT ![h] = at[p]]
    /\ refcnt' = Retained(at[p])
    /\ UNCHANGED <<status, stale, pending, floating, leaked, work, reentered>>

ReleaseHandle(t, h) == /\ OwnerOf[h] = t /\ at[h] # NULL
                       /\ at' = [at EXCEPT ![h] = NULL]
                       /\ Dy_Release(t, refcnt, at[h], work)
                       /\ UNCHANGED <<stale, pending, floating, leaked>>

\* An item in an empty slot: DyList_Append, or dict_setitem with a new key.
FillSlot(p, o) == /\ at[p] = NULL
                  /\ at' = [at EXCEPT ![p] = o]
                  /\ refcnt' = Retained(o)
                  /\ UNCHANGED <<status, stale, pending, work, reentered>>

\* Mutant: the old item is released first, and the new one retained afterwards.
ReleaseThenRetain(t, p, o) ==
    /\ ContainerOf[p] \notin Dicts /\ at[p] # NULL
    /\ at' = [at EXCEPT ![p] = o]
    /\ Dy_Release(t, refcnt, at[p], work)
    /\ UNCHANGED <<stale, pending>>

\* list_setitem: the new item is retained and written, then the old one released.
list_setitem(t, p, o) ==
    /\ ContainerOf[p] \notin Dicts /\ at[p] # NULL
    /\ at' = [at EXCEPT ![p] = o]
    /\ Dy_Release(t, Retained(o), at[p], work)
    /\ UNCHANGED <<stale, pending>>

\* dict_setitem of a key that is there: the new value is retained, and the old
\* one released, before the bucket is written (FinishSet).
dict_setitem(t, p, o) ==
    /\ ContainerOf[p] \in Dicts /\ at[p] # NULL
    /\ stale' = stale \cup {p}
    /\ pending' = [pending EXCEPT ![p] = o]
    /\ Dy_Release(t, Retained(o), at[p],
                  [work EXCEPT ![t] = <<SetCall(p)>> \o @])
    /\ UNCHANGED at

StoreItem(t, p, o) == FillSlot(p, o) \/ list_setitem(t, p, o) \/ dict_setitem(t, p, o)

SetItem(t, p, h) == /\ OwnerOf[h] = t /\ at[h] # NULL
                    /\ MayUse(t, ContainerOf[p])
                    /\ StoreItem(t, p, at[h])
                    /\ UNCHANGED <<floating, leaked>>

\* dict_setitem with NULL: the bucket is emptied, then its value released.
RemoveItem(t, p) == /\ ContainerOf[p] \in Dicts
                    /\ MayUse(t, ContainerOf[p])
                    /\ at[p] # NULL
                    /\ at' = [at EXCEPT ![p] = NULL]
                    /\ Dy_Release(t, refcnt, at[p], work)
                    /\ UNCHANGED <<stale, pending, floating, leaked>>

\* DyList_Clear, DyDict_Clear.
Clear(t, c) == /\ Inside(c) # {}
               /\ MayUse(t, c)
               /\ work' = [work EXCEPT ![t] = <<ClearCall(c)>> \o @]
               /\ UNCHANGED <<status, refcnt, at, stale, pending, floating, leaked, reentered>>

\* Dy_Pass gives up a reference without freeing the object.  object.h:82: only
\* "if you are the only one holding a reference to this object".
Dy_Pass(t, h) == /\ OwnerOf[h] = t /\ at[h] # NULL
                 /\ floating[t] = NULL
                 /\ refcnt[at[h]] = 1
                 /\ refcnt' = [refcnt EXCEPT ![at[h]] = 0]
                 /\ floating' = [floating EXCEPT ![t] = at[h]]
                 /\ at' = [at EXCEPT ![h] = NULL]
                 /\ UNCHANGED <<status, stale, pending, leaked, work, reentered>>

\* Dy_SetItem(c, k, Dy_Pass(o)): the container takes the only reference.
SetItemPassed(t, p) == /\ floating[t] # NULL
                       /\ MayUse(t, ContainerOf[p])
                       /\ StoreItem(t, p, floating[t])
                       /\ floating' = [floating EXCEPT ![t] = NULL]
                       /\ UNCHANGED leaked

\* The call fails (unhashable key, index out of range): nobody refers to the
\* passed object, and nobody frees it.
SetItemPassedFails(t) ==
    /\ floating[t] # NULL
    /\ leaked' = leaked \cup {floating[t]}
    /\ floating' = [floating EXCEPT ![t] = NULL]
    /\ UNCHANGED <<status, refcnt, at, stale, pending, work, reentered>>

\* A destructor uses a container its own thread is in the middle of a call on:
\* it would meet stale slots, and the call would go on with what it changed.
Reenter(t, c) ==
    /\ Holds(t, c)
    /\ \E call \in Unfinished(work[t]) : call.on = c
    /\ reentered' = c
    /\ UNCHANGED <<status, refcnt, at, stale, pending, floating, leaked, work>>
-----------------------------------------------------------------------------
(* The calls go on: dict_setitem writes the bucket, dict_clean or the loop *)
(* of DyList_Clear goes through the items, Dy_FreeObject destroys what the *)
(* object refers to and frees its memory.                                  *)

Working(t) == work[t] # <<>>
Top(t) == Head(work[t])
Return(t) == work' = [work EXCEPT ![t] = Tail(@)]

FinishSet(t) == /\ Working(t) /\ Top(t).name = "set"
                /\ LET p == Top(t).slot
                   IN  /\ at' = [at EXCEPT ![p] = pending[p]]
                       /\ stale' = stale \ {p}
                       /\ pending' = [pending EXCEPT ![p] = NULL]
                /\ Return(t)
                /\ UNCHANGED <<status, refcnt, floating, leaked, reentered>>

\* list_destroy, DyList_Clear, dict_clean, exception_destroy: an item is
\* released, and its slot still shows it.
ReleaseSlot(t, p) == /\ Working(t) /\ Top(t).name \in {"free", "clear"}
                     /\ ContainerOf[p] = Top(t).on
                     /\ at[p] # NULL /\ p \notin stale
                     /\ stale' = stale \cup {p}
                     /\ Dy_Release(t, refcnt, at[p], work)
                     /\ UNCHANGED <<at, pending, floating, leaked>>

\* Every item of the innermost call's object is released: the slots go.
Emptied(t) ==
    /\ \A p \in Inside(Top(t).on) : at[p] = NULL \/ p \in stale
    /\ at' = [p \in Places |-> IF p \in Inside(Top(t).on) THEN NULL ELSE at[p]]
    /\ stale' = stale \ Inside(Top(t).on)
    /\ Return(t)
    /\ UNCHANGED <<refcnt, pending, floating, leaked, reentered>>

\* Mutant: the memory is freed while slots still count their items.
FreeMemoryFirst(t) == /\ Working(t) /\ Top(t).name = "free"
                      /\ status' = [status EXCEPT ![Top(t).on] = "none"]
                      /\ at' = [p \in Places |-> IF p \in Inside(Top(t).on) THEN NULL ELSE at[p]]
                      /\ stale' = stale \ Inside(Top(t).on)
                      /\ Return(t)
                      /\ UNCHANGED <<refcnt, pending, floating, leaked, reentered>>

\* Mutant: the items are released, and the memory is not freed.
KeepMemory(t) == Working(t) /\ Top(t).name = "free" /\ Emptied(t) /\ UNCHANGED status

FreeMemory(t) == /\ Working(t) /\ Top(t).name = "free"
                 /\ status' = [status EXCEPT ![Top(t).on] = "none"]
                 /\ Emptied(t)

FinishClear(t) == /\ Working(t) /\ Top(t).name = "clear"
                  /\ Emptied(t)
                  /\ UNCHANGED status

GoOn(t) == \/ FinishSet(t)
           \/ \E p \in Slots : ReleaseSlot(t, p)
           \/ FreeMemory(t)
           \/ FinishClear(t)

Client(t) == \/ \E h \in Handles, o \in Obj : New(t, h, o)
             \/ \E h \in Handles, p \in Places : Dy_Retain(t, p, h)
             \/ \E h \in Handles : ReleaseHandle(t, h)
             \/ \E h \in Handles, p \in Slots : SetItem(t, p, h)
             \/ \E p \in Slots : RemoveItem(t, p)
             \/ \E c \in Obj : Clear(t, c)
             \/ \E h \in Handles : Dy_Pass(t, h)
             \/ \E p \in Slots : SetItemPassed(t, p)
             \/ SetItemPassedFails(t)
             \/ \E c \in Obj : Reenter(t, c)

\* Client code runs outside the library, or in a destructor.
RunsClient(t) == Working(t) => Top(t).name = "free" /\ Top(t).on \in Userdata

Next == /\ reentered = NULL
        /\ \E t \in Threads : (RunsClient(t) /\ Client(t)) \/ GoOn(t)

\* A thread in a library call goes on, it waits for nothing.  The fairness is
\* strong, and for each object, because a destructor of the client may make
\* other calls meanwhile: it is assumed to return in the end.
Works(t, o) == reentered = NULL /\ Working(t) /\ Top(t).on = o /\ GoOn(t)
Fairness == \A t \in Threads, o \in Obj : SF_vars(Works(t, o))

Spec == Init /\ [][Next]_vars
FairSpec == Spec /\ Fairness
-----------------------------------------------------------------------------
TypeOK == /\ status \in [Obj -> {"none", "live", "dying"}]
          /\ refcnt \in [Obj -> Nat]
          /\ at \in [Places -> Obj \cup {NULL}]
          /\ stale \subseteq Slots
          /\ pending \in [Slots -> Obj \cup {NULL}]
          /\ floating \in [Threads -> Obj \cup {NULL}]
          /\ leaked \subseteq Obj
          /\ work \in [Threads -> Seq(Calls)]
          /\ reentered \in Obj \cup {NULL}

\* The call whose release made slot p stale, and which takes the object out.
Releases(call, p) ==
    call.on = ContainerOf[p] /\ (call.name = "set" => call.slot = p)

\* A variable never refers to an object that is being destroyed or was freed.
\* A slot does only while the dict_setitem, clear or destruction that released
\* the object is unfinished (dict.c:302-308, 86-97, list.c:202-224).
NoDangling == \A p \in Places : at[p] # NULL /\ status[at[p]] # "live" =>
    p \in stale /\ \E t \in Threads : \E call \in Unfinished(work[t]) : Releases(call, p)

\* The object a place counts: a stale slot counts the one that is to be written.
Owned(p) == IF p \in stale THEN pending[p] ELSE at[p]

\* The count of an object is the number of places that count it.
CountsAgree == \A o \in Obj :
    status[o] # "none" => refcnt[o] = Cardinality({p \in Places : Owned(p) = o})

\* An object is being destroyed by one thread, once: two releases that race to
\* the last reference never both free it.
DestroyedOnce ==
    /\ \A t \in Threads : \A i \in DOMAIN work[t] :
          work[t][i].name = "free" => status[work[t][i].on] = "dying"
    /\ \A t, u \in Threads : \A i \in DOMAIN work[t], j \in DOMAIN work[u] :
          work[t][i].name = "free" /\ work[u][j] = work[t][i] => t = u /\ i = j

\* A container outlives the calls on it, unless a destructor gives up the
\* caller's reference; and only a dict_setitem or a clear is ever found half
\* done by a destructor, never a destruction.
CallsKeepTheirContainer ==
    /\ \A t \in Threads : \A call \in Unfinished(work[t]) :
          call.name # "free" => status[call.on] = "live" \/ reentered = call.on
    /\ reentered # NULL => \E t \in Threads : \E call \in Unfinished(work[t]) :
          call.on = reentered /\ call.name # "free"

\* A live object without references was passed, and is about to be stored, or
\* was lost by a failed store.
NothingForgotten == \A o \in Obj :
    status[o] = "live" /\ refcnt[o] = 0 =>
        o \in leaked \/ \E t \in Threads : floating[t] = o

\* A dying object is freed in the end: the cascade of Dy_FreeObject terminates,
\* provided the destructors of the client return and use no container that is
\* in the middle of a call.
DyingIsFreed == \A o \in Obj :
    status[o] = "dying" ~> status[o] = "none" \/ reentered # NULL

\* Memory is reclaimed only when nothing counts it.
O == INSTANCE Ownership WITH allocated <- {o \in Obj : status[o] # "none"},
                             at <- [p \in Places |-> Owned(p)]
OwnershipSpec == O!Spec
=============================================================================
