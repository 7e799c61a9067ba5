------------------------------ MODULE PyBridge ------------------------------
(***************************************************************************)
(* The Python bridge (pydy.c) in use: a Python program that works with     *)
(* wrapped Dy objects, and a C program that hands objects to and from      *)
(* Python and calls Python functions.  Each holds references of its own.   *)
(*                                                                         *)
(* A slot of the type PyDy, a function of the module, or a function of the *)
(* C interface is one action.                                              *)
(***************************************************************************)
EXTENDS PyConvert

CONSTANTS Names,               \* the variables of the Python program
          MaxCount, MaxErrors, \* bounds on the counts and on the exceptions
          MaxItems,            \* and on the size of containers; on the number of
          MaxObjects,          \* objects, MemoryError included, and on the same
          MaxPending           \* while an error is pending

VARIABLES heap, err, fault,
          var,                 \* the references that the Python program holds
          dy,                  \* the one that the C program holds
          kept,                \* the references of wrappers that died, which nobody holds
          did                  \* the last call, who made it, and with which errors it ended

vars == <<heap, err, fault, var, dy, kept, did>>

Now == [heap |-> heap, err |-> err, bs |-> <<>>, fault |-> fault, pyerr |-> NoPyErr, kept |-> kept]

Idle == [call |-> "none", side |-> "none", failed |-> FALSE, pyerr |-> "none", err |-> NULL, carries |-> NULL]

Init == /\ heap = EmptyHeap /\ err = NULL /\ fault = "none"
        /\ var = [v \in Names |-> NULL] /\ dy = NULL /\ did = Idle
        /\ kept = [o \in Objs |-> 0]

Live   == {v \in Names : var[v] # NULL}
Values == {var[v] : v \in Live} \cup {Small} \* what the Python program can name
Held(vs, d) == [o \in Objs |-> Cardinality({v \in Names : vs[v] = o}) + (IF d = o THEN 1 ELSE 0)]

CCalls == {"PyDy_FromPython", "PyDy_StealFromPython", "PyDy_WrapObject", "PyDy_StealObject",
           "CallCallable", "DyFill"}

\* The state after a call.  The Python program handles its exception at once, the C
\* program libdy's.  If memory was freed that something refers to, the behaviour
\* ends, and no more is told of it.
Become(s, vs, d, call, ret) ==
    LET caught  == PyErr_Clear(s)
        side    == IF call \in CCalls THEN "c" ELSE "py"
        cleared == IF side = "c" /\ s.err # NULL THEN DyErr_Clear(caught) ELSE caught
        t       == Swept(cleared, Held(vs, d))
        gone    == \E o \in Objs : t.heap[o].type = "freed"
    IN  IF t.fault # "none" \/ gone
        THEN /\ fault' = Fault(t, "freed").fault
             /\ heap' = EmptyHeap /\ err' = NULL
             /\ var' = [v \in Names |-> NULL] /\ dy' = NULL /\ did' = Idle
             /\ kept' = [o \in Objs |-> 0]
        ELSE /\ heap' = t.heap /\ err' = t.err /\ fault' = "none"
             /\ var' = vs /\ dy' = d
             /\ kept' = [o \in Objs |-> IF t.heap[o].type = "free" THEN 0 ELSE t.kept[o]]
             /\ did' = [call |-> call, side |-> side, failed |-> ret = NULL, pyerr |-> s.pyerr.kind, err |-> s.err,
                        carries |-> IF s.err = NULL THEN NULL ELSE s.heap[s.err].val]

\* Calls that give an object to the Python program, which a variable keeps if one is
\* free; and calls that give nothing.  d is what the C program holds afterwards.
Giving(call, outcomes, d) ==
    \E o \in outcomes :
        LET gives == o.ret \notin Static \cup {NULL}
            free  == Names \ Live
        IN  Become(IF gives /\ free = {} THEN Dy_Release(o.s, o.ret) ELSE o.s,
                   IF gives /\ free # {} THEN [var EXCEPT ![CHOOSE v \in free : TRUE] = o.ret] ELSE var,
                   d, call, o.ret)
Doing(call, outcomes) == \E o \in outcomes : Become(o.s, var, dy, call, o.ret)

Python(names) == fault = "none" /\ names \subseteq Live
Wrapped(v) == Python({v}) /\ Type(Now, var[v]) = "PyDy" /\ heap[var[v]].link # NULL
Self(v)    == heap[var[v]].link
C(names)   == Python(names) /\ err = NULL

\* Containers are not nested deeper than lists in dictionaries (a bound).
Leaf(o) == LET containers == {"list", "dict", "pylist", "pydict"}
               inside     == IF Type(Now, o) = "PyDy" THEN heap[o].link ELSE o
           IN  Type(Now, inside) \notin containers
-----------------------------------------------------------------------------
(* External: the objects of the programs.                                  *)

RECURSIVE RetainAll(_, _)
RetainAll(s, objects) ==
    IF objects = <<>> THEN s ELSE RetainAll(Dy_Retain(s, Head(objects)), Tail(objects))
PyObject(type, link, items) ==
    Giving("PyObject", Then(PyNew(Now, Object(type, NULL, link, items)), LAMBDA t, p :
        One(IF p = NULL THEN t ELSE RetainAll(t, Owned(t.heap[p])), p)), dy)

PyFunction   == Python({}) /\ Live # Names /\ PyObject("pyfunc", NULL, <<>>)
PyList(x)    == Python({}) /\ Leaf(x) /\ PyObject("pylist", NULL, <<x>>)
PyDict(x, y) == Python({}) /\ Leaf(x) /\ Leaf(y) /\ PyObject("pydict", NULL, <<x, y>>)
PyChild(v)   == Python({v}) /\ Type(Now, var[v]) = "PyDy" /\ PyObject("pydict", var[v], <<>>)
PyCopy(v) == Python({v}) /\ Live # Names /\ Giving("PyCopy", One(Dy_Retain(Now, var[v]), var[v]), dy)
PyDrop(v) == Python({v}) /\ Become(Dy_Release(Now, var[v]), [var EXCEPT ![v] = NULL], dy, "PyDrop", Done)
DyClear == fault = "none" /\ err # NULL /\ Become(DyErr_Clear(Now), var, dy, "DyClear", Done)
\* An object that both programs know.
DyKeep(v) == Wrapped(v) /\ dy = NULL /\ Become(Dy_Retain(Now, Self(v)), var, Self(v), "DyKeep", Done)
DyFill  == /\ C({}) /\ dy # NULL /\ Type(Now, dy) = "list"
           /\ Doing("DyFill", Then(New(Now, Object("long", 0, NULL, <<>>)), LAMBDA t, v :
                  IF v = NULL THEN One(t, NULL)
                  ELSE Then(DyList_Append(t, dy, v), LAMBDA u, r : One(Dy_Release(u, v), r))))
DyDrop  == C({}) /\ dy # NULL /\ Become(Dy_Release(Now, dy), var, NULL, "DyDrop", Done)
-----------------------------------------------------------------------------
(* The type and the functions of the module, for the Python program.       *)

\* A result of libdy that has become the wrapper's.
PassedOn(outcomes) == Then(OrRaise(outcomes), LAMBDA t, r : IF r = NULL THEN One(t, NULL) ELSE PyDy_Pass(t, r))

dy_getitem(v, x) ==
    /\ Wrapped(v)
    /\ Giving("dy_getitem", Then(py2dy(Now, x), LAMBDA t, key :
           IF key = NULL THEN One(t, NULL)
           ELSE Then(OrRaise(Dy_GetItem(t, Self(v), key)), LAMBDA u, r :
                    IF r = NULL THEN One(Dy_Release(u, key), NULL)
                    ELSE PyDy_Pass(Dy_Release(u, key), r))), dy)

\* A value that cannot be converted is released nevertheless.
dy_setitem(v, x, y) == \* y is NULL to delete the item
    /\ Wrapped(v) /\ Leaf(y)
    /\ Doing("dy_setitem", Then(py2dy(Now, x), LAMBDA t, key :
           IF key = NULL THEN One(t, NULL)
           ELSE Then(py2dy(t, y), LAMBDA u, val :
                    IF val = NULL THEN One(Dy_Release(u, val), NULL)
                    ELSE Then(OrRaise(Dy_SetItem(u, Self(v), key, val)),
                              LAMBDA w, r : One(ReleaseAll(w, <<key, val>>), r)))))

dy_getitemlong(v) == Wrapped(v) /\ Giving("dy_getitemlong", PassedOn(Dy_GetItemLong(Now, Self(v), 0)), dy)
dy_setitemlong(v, x) ==
    /\ Wrapped(v) /\ Leaf(x)
    /\ Doing("dy_setitemlong", Then(py2dy(Now, x), LAMBDA t, val :
           IF val = NULL THEN One(t, NULL)
           ELSE Then(OrRaise(Dy_SetItemLong(t, Self(v), 0, val)),
                     LAMBDA u, r : One(Dy_Release(u, val), r))))

\* A length is 0 if there is none.
dy_length(v) ==
    /\ Wrapped(v)
    /\ Doing("dy_length", IF Type(Now, Self(v)) \in {"list", "string"}
             THEN IF heap[Self(v)].items = <<>> /\ err # NULL THEN raise_dy_error(Now) ELSE One(Now, Done)
             ELSE Then(Fail(Now), LAMBDA t, r : raise_dy_error(t)))

dy_repr(v) ==
    /\ Wrapped(v)
    /\ \E outcomes \in {Dy_Str(Now, Self(v)), Dy_Repr(Now, Self(v))} : Doing("dy_repr", InPython(outcomes))

\* dy_long, dy_float
dy_long(v) == /\ Wrapped(v)
              /\ Giving("dy_long", IF Type(Now, Self(v)) = "long" THEN One(Now, Small)
                             ELSE One(PyErr_Set(Now), NULL), dy)

dy_call(v, x) ==
    /\ Wrapped(v)
    /\ \E args \in {<<>>, <<x>>} :
           Giving("dy_call", CallWrapped(Now, Self(v), args), dy)

pydy_new(v) ==
    /\ Python({v})
    /\ Giving("pydy_new", Then(py2dy(Now, var[v]), LAMBDA t, d :
           IF d = NULL THEN One(t, NULL) ELSE PyDy_Pass(t, d)), dy)
pydy_dict ==
    Python({}) /\ Giving("pydy_dict", Then(New(Now, Object("dict", NULL, NULL, <<>>)), PyDy_Pass), dy)
pydy_dict_under(v) ==
    Wrapped(v) /\ Giving("pydy_dict_under", Then(DyDict_NewWithParent(Now, Self(v)), PyDy_Pass), dy)
pydy_list ==
    Python({}) /\ Giving("pydy_list", Then(New(Now, Object("list", NULL, NULL, <<>>)), PyDy_Pass), dy)
pydy_func(v) ==
    /\ Python({v})
    /\ Giving("pydy_func", IF Type(Now, var[v]) \notin {"pyfunc", "PyDy"} THEN One(PyErr_Set(Now), NULL)
              ELSE Then(pyfunc2udata(Now, var[v]), PyDy_Pass), dy)
-----------------------------------------------------------------------------
(* The functions for the C program.                                        *)

PyDy_FromPython(v) ==
    /\ C({v}) /\ dy = NULL
    /\ \E o \in OrRaiseInDy(py2dy(Now, var[v])) : Become(o.s, var, o.ret, "PyDy_FromPython", o.ret)
PyDy_StealFromPython(v) ==
    /\ C({v}) /\ dy = NULL
    /\ \E o \in OrRaiseInDy(py2dy(Now, var[v])) :
           Become(Dy_Release(o.s, var[v]), [var EXCEPT ![v] = NULL], o.ret, "PyDy_StealFromPython", o.ret)

\* The Python program is given the wrapper.
PyDy_WrapObject == C({}) /\ dy # NULL /\ Giving("PyDy_WrapObject", OrRaiseInDy(PyDy_New(Now, dy)), dy)
PyDy_StealObject ==
    /\ C({}) /\ dy # NULL
    /\ Giving("PyDy_StealObject", Then(OrRaiseInDy(PyDy_New(Now, dy)), LAMBDA t, p :
           One(Dy_Release(t, dy), p)), NULL)

\* The C program calls what it holds, with any self and argument, and drops the result.
CallCallable ==
    /\ C({}) /\ dy # NULL /\ Callable(Now, dy)
    /\ \E self \in {NULL, dy} :
       \E outcomes \in {Calls!DyCallable_Call0(Now, dy, self), Calls!DyCallable_Call1(Now, dy, self, dy)} :
           Doing("CallCallable", Then(outcomes, LAMBDA t, r : One(IF r = NULL THEN t ELSE Dy_Release(t, r), r)))

Next == \/ PyFunction \/ DyClear \/ DyFill \/ DyDrop
        \/ pydy_dict \/ pydy_list
        \/ \E v \in Names : \/ PyChild(v) \/ PyCopy(v) \/ PyDrop(v) \/ DyKeep(v)
                            \/ dy_getitemlong(v) \/ dy_length(v) \/ dy_repr(v) \/ dy_long(v)
                            \/ pydy_new(v) \/ pydy_dict_under(v) \/ pydy_func(v)
                            \/ PyDy_FromPython(v) \/ PyDy_StealFromPython(v)
        \/ \E x \in Values : PyList(x)
        \/ \E x, y \in Values : PyDict(x, y)
        \/ \E v \in Names, x \in Values : \/ dy_getitem(v, x) \/ dy_setitemlong(v, x)
                                         \/ dy_call(v, x)
        \/ \E v \in Names, x \in Values, y \in Values \cup {NULL} : dy_setitem(v, x, y)
        \/ PyDy_WrapObject \/ PyDy_StealObject \/ CallCallable

Spec == Init /\ [][Next]_vars
-----------------------------------------------------------------------------
\* How much the count of each object exceeds the references to it.
Surplus == LET held  == Held(var, dy)
               links == Links(Now)
           IN  [o \in Objs |-> IF heap[o].type = "free" THEN 0
                               ELSE heap[o].cnt - References(Now, links, o) - held[o] - kept[o]]

\* Bounds: the behaviour is not followed past a high count, a large container, a
\* third dictionary in a chain of parents, too many objects or exceptions, a leak, or
\* more than one reference that was released and not owned.
Within == /\ \A o \in Objs : /\ heap[o].cnt <= MaxCount
                             /\ Len(heap[o].items) <= (IF heap[o].type \in {"dict", "pydict"} THEN 2 ELSE 1) * MaxItems
          /\ \A o \in Objs : heap[o].type = "dict" /\ heap[o].link # NULL => heap[heap[o].link].link = NULL
          /\ Cardinality({o \in ErrSlots : heap[o].type = "exception"}) <= MaxErrors
          /\ Cardinality({o \in Objs : heap[o].type # "free"}) <= (IF err = NULL THEN MaxObjects ELSE MaxPending)
          /\ LET surplus == Surplus
             IN  /\ \A o \in Objs : surplus[o] \in {-1, 0}
                 /\ Cardinality({o \in Objs : surplus[o] < 0}) <= 1

IsPy(o) == heap[o].type \in {"pylist", "pydict", "pyfunc", "PyDy"}

\* A cause that is overwritten when its exception is set again is lost.
CauseLost == \E o \in Objs : /\ heap[o].type = "exception" /\ heap[o].link # NULL
                             /\ heap'[o].type = "exception" /\ heap'[o].link # heap[o].link
Reraising  == did'.call \in {"CallCallable", "PyDy_FromPython", "PyDy_StealFromPython", "dy_call"}
Passing    == did'.call \in {"CallCallable", "dy_getitem", "dy_getitemlong", "dy_call"}
Converting == did'.call \in {"CallCallable", "PyDy_FromPython", "PyDy_StealFromPython", "dy_call", "pydy_new",
                             "pydy_func", "dy_getitem", "dy_setitem", "dy_setitemlong"}

\* A wrapper dies: one that the Python program gives up, a result that it does not
\* keep, the argument of an exception, those made for a call, or one robbed.
Dropping == \/ Live = Names /\ ~did'.failed
            \/ did'.pyerr \in {"DyError", "DyError2"}
            \/ Converting
            \/ did'.call = "PyDrop"

\* The bridge keeps the counts of both languages: whatever fails on the way, a call
\* leaves each count as far from the number of references as it was.  But every
\* conversion, except of an object of no known type, gives up the Python object,
\* which it only borrowed (pydy.c:705), as a callable gives up the function that it
\* does not keep (pydy.c:817); items that are only borrowed are passed on
\* (pydy.c:133, 188, 735); raising a DyError in libdy leaks what it looked at (pydy.c:443);
\* and a wrapper that dies keeps its object, since a static type without tp_dealloc never
\* calls its tp_finalize (pydy.c:285, 328).
OnlyTheseUnbalance ==
    [][LET was == Surplus
           is  == Surplus'
       IN  fault' = "none" =>
           /\ \A o \in Objs : kept'[o] > kept[o] => Dropping
           /\ \A o \in {x \in Objs : is[x] # was[x]} :
                  LET ofPython == IsPy(o) \/ IsPy(o)'
                  IN  \/ is[o] < was[o] /\ ofPython /\ Converting
                      \/ is[o] < was[o] /\ ~ofPython /\ Passing
                      \/ is[o] > was[o] /\ (Reraising \/ (~ofPython /\ CauseLost))
                      \/ is[o] > was[o] /\ heap'[o].type = "free"]_vars

\* A call that fails tells the side that made it, and no other: a Python program by a
\* Python exception with nothing left in libdy, a C program by one of libdy's
\* (pydy.h:29); and a call that succeeds tells nobody.  What the code does otherwise:
\* the error for which no wrapper could be made stays in libdy under Python's
\* (pydy.c:415); a call may succeed after its list of arguments failed to grow
\* (userdata.c:236); a result that cannot be converted is reported to Python only
\* (pydy.c:805); a DyError that the bridge raised is carried with the IndexError that
\* looking into it raised still set (pydy.c:446), and any error that is carried with the
\* one that showing it raised (pydy.c:468).
ErrorsOnRightSide ==
    [][fault' = "none" /\ err = NULL =>
           /\ ~did'.failed => did'.pyerr = "none" /\ (did'.err = NULL \/ (did'.side = "c" /\ did'.err = MemoryError))
           /\ did'.failed /\ did'.side = "py" =>
                  /\ did'.pyerr # "none"
                  /\ did'.err # NULL => did'.pyerr = "error"
           /\ did'.failed /\ did'.side = "c" =>
                  /\ did'.err = NULL => did'.call = "CallCallable" /\ did'.pyerr # "none"
                  /\ did'.pyerr # "none" /\ did'.err \notin {NULL, MemoryError} => did'.carries \in {"DyError", "error"}]_vars
=============================================================================
