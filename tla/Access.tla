------------------------------- MODULE Access -------------------------------
(***************************************************************************)
(* The calls of the library that work on objects of any type: items and    *)
(* attributes (dy.c with dict.c and list.c below it) and callables          *)
(* (userdata.c).  References returned by lookups are borrowed.             *)
(*                                                                         *)
(* A function that returns a bool returns Done or NULL here.               *)
(***************************************************************************)
EXTENDS BuildString

\* Dy_HashEx, Dy_Equals
Hashable(s, k) == Type(s, k) \in {"string", "long"}
Dy_Equals(s, a, b) ==
    a = b \/ (Hashable(s, a) /\ Type(s, a) = Type(s, b) /\ Val(s, a) = Val(s, b))

\* The places of the values stored for k in the dictionary d, one or none.
Places(s, d, k) ==
    {i \in DOMAIN s.heap[d].items : i % 2 = 0 /\ Dy_Equals(s, s.heap[d].items[i - 1], k)}
dict_get(s, d, k) ==
    IF Places(s, d, k) = {} THEN Undefined ELSE s.heap[d].items[Min(Places(s, d, k))]

\* dict_getitemu's loop: a value Undefined is as good as none.
RECURSIVE FlatLookup(_, _, _)
FlatLookup(s, d, k) ==
    LET own == dict_get(s, d, k)
    IN  IF own = Undefined /\ s.heap[d].link # NULL THEN FlatLookup(s, s.heap[d].link, k) ELSE own

dict_getitemu(s, d, k) ==
    IF Hashable(s, k) THEN One(s, FlatLookup(s, d, k)) ELSE Fail(s)

\* The error shows the key; a representation that cannot be made is used as well.
__KeyError(s) == Crash(s) \cup Fail(s)

dict_getitem(s, d, k) ==
    Then(dict_getitemu(s, d, k),
         LAMBDA t, r : IF r = Undefined THEN __KeyError(t) ELSE One(t, r))

Put(s, o, items) == [s EXCEPT !.heap[o].items = items]

\* A new entry may need a block, for which nothing tests the malloc.
dict_setitem(s, d, k, v) ==
    LET items == s.heap[d].items
        place == Min(Places(s, d, k))
        old   == <<items[place - 1], items[place]>>
    IN  IF ~Hashable(s, k) THEN Fail(s)
        ELSE IF v = NULL
        THEN One(IF Places(s, d, k) = {} THEN s
                 ELSE ReleaseAll(Put(s, d, SubSeq(items, 1, place - 2)
                                           \o SubSeq(items, place + 1, Len(items))), old), Done)
        ELSE LET t == Dy_Retain(Dy_Retain(s, k), v)
             IN  IF Places(s, d, k) = {}
                 THEN Crash(s) \cup One(Put(t, d, items \o <<k, v>>), Done)
                 ELSE One(ReleaseAll(Put(t, d, [items EXCEPT ![place - 1] = k, ![place] = v]), old), Done)

Index(s, l, i)   == IF i < 0 THEN i + Len(s.heap[l].items) + 1 ELSE i + 1
InRange(s, l, i) == Index(s, l, i) \in DOMAIN s.heap[l].items

list_getitem(s, l, i) ==
    IF InRange(s, l, i) THEN One(s, s.heap[l].items[Index(s, l, i)]) ELSE Fail(s)
list_getitemu(s, l, i) ==
    One(s, IF InRange(s, l, i) THEN s.heap[l].items[Index(s, l, i)] ELSE Undefined)
list_setitem(s, l, i, v) ==
    IF ~InRange(s, l, i) THEN Fail(s)
    ELSE LET items == s.heap[l].items
             at    == Index(s, l, i)
         IN  Using(s, {v}, One(Dy_Release(Put(Dy_Retain(s, v), l, [items EXCEPT ![at] = v]), items[at]), Done))

DyList_Append(s, l, v) ==
    Using(s, {l, v},
        IF Type(s, l) # "list" THEN Fail(s)
        ELSE NoMemory(s) \cup One(Put(Dy_Retain(s, v), l, Append(s.heap[l].items, v)), Done))

DyList_Clear(s, l) == One(Put(ReleaseAll(s, s.heap[l].items), l, <<>>), Done)

DyDict_NewWithParent(s, p) ==
    Using(s, {p}, IF Type(s, p) # "dict" THEN Fail(s)
                  ELSE Then(New(s, Object("dict", NULL, p, <<>>)),
                            LAMBDA t, r : One(IF r = NULL THEN t ELSE Dy_Retain(t, p), r)))
-----------------------------------------------------------------------------
(* The switches over the type of the container.                            *)

Dispatch(s, objects, self, OnDict, OnList) ==
    Using(s, objects \cup {self},
          CASE Type(s, self) = "dict" -> OnDict
            [] Type(s, self) = "list" -> OnList
            [] OTHER -> Fail(s))
IfLong(s, key, outcomes) == IF Type(s, key) = "long" THEN outcomes ELSE Fail(s)

\* A key made for the one call.
WithKey(s, type, val, F(_, _)) ==
    Then(New(s, Object(type, val, NULL, <<>>)), LAMBDA t, k :
        IF k = NULL THEN One(t, NULL)
        ELSE Then(F(t, k), LAMBDA u, r : One(Dy_Release(u, k), r)))

Dy_GetItem(s, self, key) ==
    Dispatch(s, {key}, self, dict_getitem(s, self, key),
             IfLong(s, key, list_getitem(s, self, Val(s, key))))
Dy_GetItemString(s, self, key) ==
    Dispatch(s, {}, self, WithKey(s, "string", key, LAMBDA t, k : dict_getitem(t, self, k)),
             Fail(s))
Dy_GetItemLong(s, self, key) ==
    Dispatch(s, {}, self, WithKey(s, "long", key, LAMBDA t, k : dict_getitem(t, self, k)),
             list_getitem(s, self, key))
Dy_GetItemU(s, self, key) ==
    Dispatch(s, {key}, self, dict_getitemu(s, self, key),
             IfLong(s, key, list_getitemu(s, self, Val(s, key))))
\* A missing key raises an error nevertheless.
Dy_GetItemLongU(s, self, key) ==
    Dispatch(s, {}, self, WithKey(s, "long", key, LAMBDA t, k : dict_getitem(t, self, k)),
             list_getitemu(s, self, key))
Dy_GetItemStringU(s, self, key) ==
    Dispatch(s, {}, self, WithKey(s, "string", key, LAMBDA t, k : dict_getitemu(t, self, k)),
             Fail(s))

OrDefault(outcomes, def) ==
    Then(outcomes, LAMBDA t, r : One(t, IF r = Undefined THEN def ELSE r))
Dy_GetItemD(s, self, key, def)       == OrDefault(Dy_GetItemU(s, self, key), def)
Dy_GetItemLongD(s, self, key, def)   == OrDefault(Dy_GetItemLongU(s, self, key), def)
Dy_GetItemStringD(s, self, key, def) == OrDefault(Dy_GetItemStringU(s, self, key), def)

Dy_SetItem(s, self, key, v) ==
    Dispatch(s, {key}, self, dict_setitem(s, self, key, v),
             IfLong(s, key, list_setitem(s, self, Val(s, key), v)))
Dy_SetItemString(s, self, key, v) ==
    Dispatch(s, {}, self, WithKey(s, "string", key, LAMBDA t, k : dict_setitem(t, self, k, v)),
             Fail(s))
Dy_SetItemLong(s, self, key, v) ==
    Dispatch(s, {}, self, WithKey(s, "long", key, LAMBDA t, k : dict_setitem(t, self, k, v)),
             list_setitem(s, self, key, v))
-----------------------------------------------------------------------------
(* Userdata; val tells what kind of callable it is, if any.                *)

Create(s, kind, data) == New(s, Object("userdata", kind, data, <<>>))

Callable(s, co) == Type(s, co) = "userdata" /\ Val(s, co) # "data"
=============================================================================
