-------------------------------- MODULE Cxx ---------------------------------
(***************************************************************************)
(* The C++ wrapper (libdy++): a program that keeps Objects, one             *)
(* SubscriptionRef and one caught Exception, and calls what the wrapper and *)
(* the C interface below it offer.                                         *)
(*                                                                         *)
(* A member function is one action.  Its outcomes come from the calls it    *)
(* makes (Access); an outcome Thrown is a C++ exception, which is caught   *)
(* before the next call.                                                   *)
(***************************************************************************)
EXTENDS Access

CONSTANTS Names,    \* the Object variables of the program
          Kinds,    \* the kinds of callables
          MaxCount, \* bound on the counts
          MaxErrors,
          MaxItems  \* bound on the items of a list and the entries of a dictionary

VARIABLES heap, err, fault,
          obj,      \* the Objects that are constructed: what they refer to
          ref,      \* the SubscriptionRef: its d, container and key
          exc       \* what the caught Exception refers to

vars == <<heap, err, fault, obj, ref, exc>>

Now   == [heap |-> heap, err |-> err, bs |-> <<>>, fault |-> fault]
NoRef == [d |-> NULL, container |-> NULL, key |-> NULL]

Init == /\ heap = EmptyHeap /\ err = NULL /\ fault = "none"
        /\ obj = [v \in Names |-> NULL] /\ ref = NoRef /\ exc = NULL

Live == {v \in Names : obj[v] # NULL}
Held(ob, rf, ex) ==
    [o \in Objs |-> Cardinality({v \in Names : ob[v] = o}) + (IF ex = o THEN 1 ELSE 0)
                    + Cardinality({f \in DOMAIN NoRef : rf[f] = o})]

\* The state after a call.  If memory was freed that something refers to, the
\* behaviour ends, and no more is told of it.
Become(s, ob, rf, ex) ==
    LET t    == Swept(s, Held(ob, rf, ex))
        gone == \E o \in Objs : t.heap[o].type = "freed"
    IN  IF t.fault # "none" \/ gone
        THEN /\ fault' = Fault(t, "freed").fault
             /\ heap' = EmptyHeap /\ err' = NULL /\ exc' = NULL
             /\ obj' = [v \in Names |-> NULL] /\ ref' = NoRef
        ELSE /\ heap' = t.heap /\ err' = t.err /\ fault' = "none"
             /\ obj' = ob /\ ref' = rf /\ exc' = ex
Caught(o) == IF o.ret = Thrown THEN o.s.err ELSE NULL

\* Calls that give an Object, which a variable is initialised with if one is
\* free, and which is a temporary otherwise; and calls that give nothing.
Producing(outcomes) ==
    \E o \in outcomes :
        IF o.ret \in {NULL, Thrown} THEN Become(o.s, obj, ref, Caught(o))
        ELSE IF Live = Names THEN Become(Dy_Release(o.s, o.ret), obj, ref, NULL)
        ELSE Become(o.s, [obj EXCEPT ![CHOOSE v \in Names \ Live : TRUE] = o.ret], ref, NULL)
Doing(outcomes) == \E o \in outcomes : Become(o.s, obj, ref, Caught(o))

Ready(names) == fault = "none" /\ exc = NULL /\ names \subseteq Live
-----------------------------------------------------------------------------
(* Exceptions and construction.                                            *)

\* throw_exception(), or with an id of its own.
throw_exception(s) ==
    LET t == IF s.err = NULL THEN DyErr_Set(s) ELSE s
    IN  IF t.fault # "none" THEN One(t, NULL) ELSE One(Dy_Retain(t, t.err), Thrown)
format_exception(s) == throw_exception(DyErr_Set(s))

\* Mutant: the new object is taken over without being counted.
AssignStealing(s, d, o, steal) ==
    IF o = NULL THEN throw_exception(s) ELSE One(IF d = NULL THEN s ELSE Dy_Release(s, d), o)

\* Object::assign, with check.
assign(s, d, o, steal) ==
    IF o = NULL THEN throw_exception(s)
    ELSE LET t == IF steal THEN s ELSE Dy_Retain(s, o)
         IN  One(IF d = NULL THEN t ELSE Dy_Release(t, d), o)

\* Object::Object(DyObject *, bool), for the result of a call.
Construct(outcomes, steal) == Then(outcomes, LAMBDA t, r : assign(t, NULL, r, steal))

\* Object::Object(T): the new reference is not stolen.
FromValue(s, val) == Construct(New(s, Object("long", val, NULL, <<>>)), FALSE)

\* A constructor of a subtype from an Object: if the type is wrong, the base is
\* destroyed again.
Subtype(s, o, type) ==
    Then(assign(s, NULL, o, FALSE), LAMBDA t, r :
        IF Type(t, o) = type THEN One(t, o)
        ELSE Then(format_exception(t), LAMBDA u, e : One(Dy_Release(u, o), e)))

\* The same from a pointer: the failed check is swallowed.
SubtypeFromPointer(s, o, type, steal) ==
    Then(assign(s, NULL, o, steal), LAMBDA t, r :
        IF Type(t, o) = type THEN One(t, o)
        ELSE Then(format_exception(t), LAMBDA u, e :
                 LET w == Dy_Release(u, u.err)
                 IN  One(IF steal THEN Dy_Release(w, o) ELSE w, o)))

IsLeaf(o) == Type(Now, o) \notin {"list", "dict"}
\* Containers are not nested deeper than lists in dicts (a bound).
MayHold(c, o) == IsLeaf(o) \/ (Type(Now, c) = "dict" /\ Type(Now, o) = "list")

Default == Ready({}) /\ Live # Names /\ Producing(One(Dy_Retain(Now, Undefined), Undefined))
FromT   == Ready({}) /\ Producing(FromValue(Now, 0))
NewString == Ready({}) /\ Producing(Construct(New(Now, Object("string", Chars, NULL, <<>>)), TRUE))
NewList == Ready({}) /\ Producing(Construct(New(Now, Object("list", NULL, NULL, <<>>)), TRUE))
Copy(v) == Ready({v}) /\ Live # Names /\ Producing(assign(Now, NULL, obj[v], FALSE))

\* The source is left with Undefined.
Move(v) == /\ Ready({v}) /\ Live # Names
           /\ \E w \in Names \ Live :
                  Become(Dy_Retain(Now, Undefined), [obj EXCEPT ![w] = obj[v], ![v] = Undefined],
                         ref, NULL)

Destroy(v) == /\ Ready({v})
              /\ Become(Dy_Release(Now, obj[v]), [obj EXCEPT ![v] = NULL], ref, NULL)

\* String, List, Dict or Userdata of an Object.
AsSubtype(v) == Ready({v}) /\ \E type \in {"string", "list"} : Producing(Subtype(Now, obj[v], type))

\* And of a reference of its own.
StealAsSubtype(v) ==
    Ready({v}) /\ Producing(SubtypeFromPointer(Dy_Retain(Now, obj[v]), obj[v], "list", TRUE))

\* List{x}
ListOf(v) ==
    /\ Ready({v}) /\ IsLeaf(obj[v])
    /\ Producing(Then(Construct(New(Now, Object("list", NULL, NULL, <<>>)), TRUE), LAMBDA t, l :
           IF l = Thrown THEN One(t, l)
           ELSE Then(DyList_Append(t, l, obj[v]), LAMBDA u, ok :
                    IF ok = NULL THEN throw_exception(Dy_Release(u, l)) ELSE One(u, l))))

\* Dict({{k, v}}, p), and Dict({}, p): whether there is a dictionary is tested last.
NewDict(s, p) == IF p = Undefined THEN New(s, Object("dict", NULL, NULL, <<>>))
                 ELSE DyDict_NewWithParent(s, p)
DictOf(k, v) ==
    /\ Ready({k, v}) /\ Type(Now, obj[v]) # "dict"
    /\ Producing(Then(NewDict(Now, Undefined), LAMBDA t, d :
           Then(Using(t, {d}, dict_setitem(t, d, obj[k], obj[v])), LAMBDA u, ok :
               IF ok = NULL THEN throw_exception(Dy_Release(u, d)) ELSE One(u, d))))
DictUnder(p) == Ready({p}) /\ Producing(Construct(NewDict(Now, obj[p]), TRUE))
-----------------------------------------------------------------------------
(* Items.                                                                  *)

\* What a lookup returns is borrowed; the Object retains it.
GetItem(v, k) == Ready({v, k}) /\ Producing(Construct(Dy_GetItemU(Now, obj[v], obj[k]), FALSE))

\* Any of the lookups of the C interface.
CLookup(v, k) ==
    /\ Ready({v, k})
    /\ \E outcomes \in {Dy_GetItem(Now, obj[v], obj[k]), Dy_GetItemString(Now, obj[v], Chars),
                        Dy_GetItemLong(Now, obj[v], 0), Dy_GetItemStringD(Now, obj[v], Chars, obj[k]),
                        Dy_GetItemLongD(Now, obj[v], 0, obj[k]), Dy_GetItemD(Now, obj[v], obj[k], obj[v])} :
           Producing(Construct(outcomes, FALSE))

CheckDone(outcomes) ==
    Then(outcomes, LAMBDA t, r : IF r = NULL THEN throw_exception(t) ELSE One(t, r))
CStore(v, k, w) ==
    /\ Ready({v, k, w}) /\ MayHold(obj[v], obj[w])
    /\ \E outcomes \in {Dy_SetItem(Now, obj[v], obj[k], obj[w]), Dy_SetItemLong(Now, obj[v], 0, obj[w]),
                        Dy_SetItemString(Now, obj[v], Chars, obj[w])} :
           Doing(CheckDone(outcomes))
ListAppend(v, w) ==
    /\ Ready({v, w}) /\ Type(Now, obj[v]) = "list" /\ IsLeaf(obj[w])
    /\ Doing(CheckDone(DyList_Append(Now, obj[v], obj[w])))
ListClear(v) == Ready({v}) /\ Type(Now, obj[v]) = "list" /\ Doing(DyList_Clear(Now, obj[v]))

\* Dict::Iterator::key and value.
IterItem(v) ==
    /\ Ready({v}) /\ Type(Now, obj[v]) = "dict"
    /\ \E o \in Range(heap[obj[v]].items) : Producing(assign(Now, NULL, o, FALSE))

\* List::Iterator::operator*: a SubscriptionRef, of which the Object is moved out.
ListItem(v) ==
    /\ Ready({v}) /\ Type(Now, obj[v]) = "list"
    /\ Producing(Then(New(Now, Object("long", 0, NULL, <<>>)),
                      LAMBDA t, k : Construct(Dy_GetItemU(t, obj[v], k), FALSE)))

\* operator T, hash, length: only the last does not throw.
Convert(v) == Ready({v}) /\ Type(Now, obj[v]) # "long" /\ Doing(format_exception(Now))
Length(v)  == Ready({v}) /\ Type(Now, obj[v]) \notin {"list", "string"} /\ Doing(Fail(Now))

ReprOf(v) ==
    /\ Ready({v})
    /\ \E outcomes \in {Dy_Repr(Now, obj[v]), Dy_Str(Now, obj[v])} :
           Producing(Then(outcomes, LAMBDA t, r :
               IF r = NULL THEN throw_exception(t) ELSE SubtypeFromPointer(t, r, "string", TRUE)))
-----------------------------------------------------------------------------
(* The SubscriptionRef: d is what it found when it was made.               *)

Subscribe(s, c, k) ==
    \E o \in Then(Construct(Dy_GetItemU(s, c, k), FALSE), LAMBDA t, r :
                 One(IF r = Thrown THEN t ELSE Dy_Retain(Dy_Retain(t, c), k), r)) :
        Become(o.s, obj, IF o.ret \in {NULL, Thrown} THEN ref
                         ELSE [d |-> o.ret, container |-> c, key |-> k], Caught(o))

\* operator[] with an Object, and with a value that becomes one for it.
Subscript(v, k) == Ready({v, k}) /\ ref = NoRef /\ Subscribe(Now, obj[v], obj[k])
SubscriptT(v) ==
    /\ Ready({v}) /\ ref = NoRef
    /\ \E o \in New(Now, Object("long", 0, NULL, <<>>)) : Subscribe(o.s, obj[v], o.ret)

HasRef(names) == Ready(names) /\ ref # NoRef

DestroyRef == HasRef({}) /\ Become(ReleaseAll(Now, <<ref.key, ref.container, ref.d>>), obj, NoRef, NULL)

\* The copy that the compiler makes and destroys retains d, but not the rest.
CopyRef == HasRef({}) /\ Become(ReleaseAll(Dy_Retain(Now, ref.d), <<ref.key, ref.container, ref.d>>),
                            obj, ref, NULL)

\* Store v where ref points to, after d was set to it.
StoreRef(s, v, ob) ==
    \E o \in CheckDone(Dy_SetItem(s, ref.container, ref.key, v)) :
        Become(o.s, ob, [ref EXCEPT !.d = v], Caught(o))

\* Mutant: the new value is only remembered if there was one.
AssignRefKeeps(v) ==
    /\ HasRef({v}) /\ MayHold(ref.container, obj[v])
    /\ \E o \in CheckDone(Dy_SetItem(Now, ref.container, ref.key, obj[v])) :
           Become(o.s, obj, ref, Caught(o))

AssignRef(v) ==
    /\ HasRef({v}) /\ MayHold(ref.container, obj[v])
    /\ \E o \in assign(Now, ref.d, obj[v], FALSE) : StoreRef(o.s, obj[v], obj)

AssignRefMoving(v) ==
    /\ HasRef({v}) /\ MayHold(ref.container, obj[v])
    /\ \E o \in assign(Now, ref.d, obj[v], TRUE) : StoreRef(o.s, obj[v], [obj EXCEPT ![v] = Undefined])

DelRef ==
    /\ HasRef({})
    /\ \E o \in Then(CheckDone(Dy_SetItem(Now, ref.container, ref.key, NULL)), LAMBDA t, r :
                    IF r = Thrown THEN One(t, r) ELSE assign(t, ref.d, Undefined, FALSE)) :
           Become(o.s, obj, IF o.ret = Thrown THEN ref ELSE [ref EXCEPT !.d = Undefined], Caught(o))
-----------------------------------------------------------------------------
(* Calls.                                                                  *)

\* Dy::function, Userdata, and the callables of the C interface.
NewCallable ==
    Ready({}) /\ \E kind \in Kinds :
                   Producing(Construct(Create(Now, kind, NULL), TRUE))

\* The function of the program: it returns, or throws.
Function(s) == One(s, Done) \cup format_exception(s)

\* get_arg: the item is passed, as if the list gave it away.
get_arg(s, args) ==
    Then(Dy_GetItemLong(s, args, 0), LAMBDA t, r :
        IF r = NULL THEN throw_exception(t) ELSE One(Dy_Pass(t, r), r))

\* fnx::calls and its like, for a function that has no parameter, an Object or a
\* native value; PROTECT catches, and takes any error for one of the function.
calls(s, args) ==
    LET native(t, a) == IF Type(t, a) = "long" THEN Function(t) ELSE format_exception(t)
        object(t, a) == Then(Function(Dy_Retain(t, a)), LAMBDA u, r : One(Dy_Release(u, a), r))
        result(t, r) ==
            IF r = Thrown THEN One(Dy_Release(t, t.err), NULL)
            ELSE IF t.err # NULL THEN One(t, NULL)
            ELSE One(t, None) \cup New(t, Object("long", 0, NULL, <<>>))
    IN  UNION {Then(called, result) : called \in
            {Function(s),
             Then(get_arg(s, args), LAMBDA t, a : IF a = Thrown THEN One(t, a) ELSE native(t, a)),
             Then(get_arg(s, args), LAMBDA t, a : IF a = Thrown THEN One(t, a) ELSE object(t, a))}}

\* A function in C gives a new reference or an error.
Body(s, self, co, args) ==
    IF Val(s, co) = "CBA_LIST" THEN calls(s, args)
    ELSE New(s, Object("long", 0, NULL, <<>>)) \cup Fail(s)
Calls == INSTANCE Callables

\* operator()(): Call0; operator()(const Object &): Call1.
Call0(v)   == Ready({v}) /\ Producing(Construct(Calls!DyCallable_Call0(Now, obj[v], NULL), TRUE))
Call1(v, w) == Ready({v, w}) /\ Producing(Construct(Calls!DyCallable_Call1(Now, obj[v], NULL, obj[w]), TRUE))
CallRef    == HasRef({}) /\ Producing(Construct(Calls!DyCallable_Call0(Now, ref.d, NULL), TRUE))

\* operator()(Args...) with a native value: List::make, detail::Call.
CallT(v) ==
    /\ Ready({v})
    /\ Producing(Then(Construct(New(Now, Object("list", NULL, NULL, <<>>)), TRUE), LAMBDA t, l :
           IF l = Thrown THEN One(t, l)
           ELSE Then(Then(FromValue(t, 0), LAMBDA u, a :
                         IF a = Thrown THEN One(u, a)
                         ELSE Then(CheckDone(DyList_Append(u, l, a)), LAMBDA w, r :
                                  LET x == Dy_Release(w, a)
                                  IN  IF r = Thrown THEN One(x, r)
                                      ELSE Construct(Calls!DyCallable_Call(x, obj[v], NULL, l), TRUE))),
                     LAMBDA u, r : One(Dy_Release(u, l), r))))

\* Dy_Call0 and Dy_CallString0 of the C interface.
CallMember(v, k) ==
    /\ Ready({v, k})
    /\ \E outcomes \in {Calls!Dy_Call0(Now, obj[v], obj[k]), Calls!Dy_CallString0(Now, obj[v], Chars),
                        Calls!Dy_Call1(Now, obj[v], obj[k], obj[k]),
                        Calls!Dy_CallString1(Now, obj[v], Chars, obj[k])} :
           Producing(Construct(outcomes, TRUE))
-----------------------------------------------------------------------------
(* The caught exception.                                                   *)

\* Exception::clear
ClearError == /\ fault = "none" /\ exc # NULL /\ err = exc
              /\ Become(DyErr_Clear(Now), obj, ref, exc)
\* throw_exception(DyObject *) of the exception at hand, cleared or not.
ThrowAgain == /\ fault = "none" /\ exc # NULL /\ err # exc
              /\ Become(DyErr_SetObject(Now, exc), obj, ref, exc)
DestroyException == fault = "none" /\ exc # NULL /\ Become(Dy_Release(Now, exc), obj, ref, NULL)

Next == \/ Default \/ FromT \/ NewString \/ NewList \/ NewCallable
        \/ \E v \in Names : \/ Copy(v) \/ Move(v) \/ Destroy(v) \/ AsSubtype(v) \/ StealAsSubtype(v)
                           \/ ListOf(v) \/ DictUnder(v) \/ ListClear(v) \/ IterItem(v) \/ ListItem(v)
                           \/ Convert(v) \/ Length(v) \/ ReprOf(v)
                           \/ SubscriptT(v) \/ AssignRef(v) \/ AssignRefMoving(v)
                           \/ Call0(v) \/ CallT(v)
        \/ \E v, k \in Names : \/ GetItem(v, k) \/ CLookup(v, k) \/ ListAppend(v, k) \/ Subscript(v, k)
                              \/ DictOf(v, k) \/ Call1(v, k) \/ CallMember(v, k)
        \/ \E v, k, w \in Names : CStore(v, k, w)
        \/ DestroyRef \/ CopyRef \/ DelRef \/ CallRef
        \/ ClearError \/ ThrowAgain \/ DestroyException

Spec == Init /\ [][Next]_vars
-----------------------------------------------------------------------------
\* How much the count of each object exceeds the references to it.
Surplus == LET held  == Held(obj, ref, exc)
               links == Links(Now)
           IN  [o \in Objs |-> IF heap[o].type = "free" THEN 0
                               ELSE heap[o].cnt - References(Now, links, o) - held[o]]

\* Bounds: the behaviour is not followed past a high count, a large container, more
\* exceptions than MaxErrors, a leak, or more than one reference that was released
\* and not owned.
Within == /\ \A o \in Objs : /\ heap[o].cnt <= MaxCount
                             /\ Len(heap[o].items) <= (IF heap[o].type = "dict" THEN 2 ELSE 1) * MaxItems
          /\ Cardinality({o \in ErrSlots : heap[o].type = "exception"}) <= MaxErrors
          /\ LET surplus == Surplus
             IN  /\ \A o \in Objs : surplus[o] \in {-1, 0}
                 /\ Cardinality({o \in Objs : surplus[o] < 0}) <= 1

\* A cause that is overwritten when its exception is set again is lost.
CauseLost == \E o \in Objs : /\ heap[o].type = "exception" /\ heap[o].link # NULL
                             /\ heap'[o].type = "exception" /\ heap'[o].link # heap[o].link

Leaking == \/ FromT \/ \E v \in Live : ListItem(v) \/ SubscriptT(v) \/ CallT(v)
           \/ CauseLost
OverReleasing == \/ CopyRef
                 \/ \E v \in Live : StealAsSubtype(v)
                 \/ \E v, k \in Live : Call1(v, k) \/ CallMember(v, k)

\* The wrapper keeps the counts: every constructor, destructor, assignment,
\* subscription, lookup and conversion, whether it succeeds, throws or runs out of
\* memory, leaves each count as far from the number of references as it was.
\* Those that convert a value leak it (dy++impl.h:45, 70), and a failed subtype
\* from a pointer, a copied SubscriptionRef and calls take references they do not
\* have (dy++.cpp:178, dy++.h:648, callable.h:113, userdata.c:284).
OnlyTheseUnbalance ==
    [][LET was == Surplus
           is  == Surplus'
       IN  fault' = "none" => \A o \in Objs : /\ is[o] > was[o] => Leaking
                                              /\ is[o] < was[o] => OverReleasing]_vars

\* Memory is freed in use only if a reference was taken before, or is now, by one
\* of those calls.
FreedOnlyIfRobbed ==
    [][fault' = "freed" => OverReleasing \/ \E o \in Objs : Surplus[o] < 0]_vars

\* After an assignment the SubscriptionRef shows what a lookup finds, also if the
\* key is new or in a parent; but an Undefined value, which no lookup tells from
\* none (dict.c:345), leaves the parent's visible.
RefShowsItem ==
    [][(\E v \in Live : AssignRef(v) \/ AssignRefMoving(v)) /\ fault' = "none" /\ exc' = NULL =>
           ref'.d = Undefined \/ {[s |-> Now', ret |-> ref'.d]} = Dy_GetItemU(Now, ref.container, ref.key)']_vars

\* A representation is closed, but for its empty lists (list.c:255): errors in
\* the middle of nested containers included, none is ever cut.
ReprCloses == \A o \in Slots : Type(Now, o) = "string" => Val(Now, o) = <<>>
=============================================================================
