----------------------------- MODULE PyConvert ------------------------------
(***************************************************************************)
(* The conversions of the Python bridge (pydy.c): objects from Python to   *)
(* libdy and back, errors from each side to the other, and Python functions *)
(* as callables.                                                           *)
(*                                                                         *)
(* Python's objects are in the same heap, counted in the same way: lists or *)
(* tuples ("pylist"), dictionaries ("pydict", link being the item           *)
(* "__parent__"), functions ("pyfunc", link and items being *)
(* the function and self of a bound one) and the wrappers of Dy objects    *)
(* ("PyDy", link being the Dy object, kept when the wrapper dies).         *)
(*                                                                         *)
(* s.pyerr is Python's current exception: "error", one of Python's own,    *)
(* or a DyError with one or two arguments, the last being the wrapper obj. *)
(* An exception of libdy whose val is such a kind is a "py.Exception.esx"  *)
(* that carries one.                                                       *)
(***************************************************************************)
EXTENDS Access

CONSTANT ParentString \* "__parent__"

NoPyErr == [kind |-> "none", obj |-> NULL]

\* External: PyErr_SetObject and its like; the reference o is taken.
PyErr_Restore(s, kind, o) ==
    [(IF s.pyerr.obj = NULL THEN s ELSE Dy_Release(s, s.pyerr.obj))
        EXCEPT !.pyerr = [kind |-> kind, obj |-> o]]
PyErr_Set(s)   == PyErr_Restore(s, "error", NULL)
PyErr_Clear(s) == PyErr_Restore(s, "none", NULL)

\* External: an allocation of Python's.
PyNew(s, object) ==
    LET free == {o \in PySlots : s.heap[o].type = "free"}
    IN  Using(s, {}, One(PyErr_Set(s), NULL) \cup
            (IF free = {} THEN {} ELSE One([s EXCEPT !.heap[Min(free)] = object], Min(free))))

\* Mutant: the wrapper does not keep the object.
SetOnly(s, p, o) == [s EXCEPT !.heap[p].link = o]

PyDy_Set(s, p, o) == LET t == IF o = NULL THEN s ELSE Dy_Retain(s, o)
                     IN  IF t.fault # "none" THEN t ELSE [t EXCEPT !.heap[p].link = o]

PyDy_New(s, o) ==
    Then(PyNew(s, Object("PyDy", NULL, NULL, <<>>)),
         LAMBDA t, p : One(IF p = NULL THEN t ELSE PyDy_Set(t, p, o), p))
PyDy_Pass(s, o) == Then(PyDy_New(s, o), LAMBDA t, p : One(Dy_Release(t, o), p))

\* Mutant: the error stays on the other side as well.
raise_and_keep(s) ==
    IF s.err = NULL THEN One(PyErr_Set(s), NULL)
    ELSE Then(PyDy_New(s, s.err),
              LAMBDA t, p : One(IF p = NULL THEN PyErr_Set(t) ELSE PyErr_Restore(t, "DyError", p), NULL))

raise_dy_error(s) ==
    LET e   == s.heap[s.err]
        obj == Head(e.items)
        kept == IF obj = NULL THEN s ELSE Dy_Retain(s, obj)
    IN  IF s.err = NULL THEN One(PyErr_Set(s), NULL)
        ELSE Then(IF e.val = NULL THEN PyDy_New(s, s.err) ELSE One(kept, obj), LAMBDA t, p :
                 IF e.val = NULL /\ p = NULL THEN One(PyErr_Set(t), NULL)
                 ELSE One(DyErr_Clear(PyErr_Restore(t, IF e.val = NULL THEN "DyError" ELSE e.val, p)), NULL))

OrRaise(outcomes) ==
    Then(outcomes, LAMBDA t, r : IF r = NULL THEN raise_dy_error(t) ELSE One(t, r))

\* dy_str, dy_repr: Python's string is not kept.
InPython(outcomes) ==
    Then(OrRaise(outcomes), LAMBDA t, str :
        IF str = NULL THEN One(t, NULL)
        ELSE LET u == Dy_Release(t, str) IN One(u, Done) \cup One(PyErr_Set(u), NULL))
dy_str(s, o) == InPython(Dy_Str(s, o))

\* The arguments of a DyError are looked at, and never released.  Those of one that
\* the bridge raised have no second item, which raises an IndexError.  The message
\* shows the Python error; if that fails, the new error of Python stays.
raise_python_error_in_dy(s) ==
    LET e       == s.pyerr
        fetched == [s EXCEPT !.pyerr = NoPyErr]
        carry(t, str) ==
            LET u == DyErr_Set(t)
            IN  One(IF u.fault # "none" THEN u
                    ELSE [u EXCEPT !.heap[u.err].val = e.kind, !.heap[u.err].items = <<e.obj>>], NULL)
    IN  CASE e.kind = "none"  -> One(DyErr_Set(s), NULL)
          [] e.kind = "error" -> Then(One(fetched, Done) \cup One(PyErr_Set(fetched), NULL), carry)
          [] e.kind = "DyError" ->
             LET t == PyErr_Set(Dy_Retain(fetched, e.obj))
             IN  Then(dy_str(t, t.heap[e.obj].link), carry)
          [] e.kind = "DyError2" ->
             One(DyErr_SetObject(Dy_Retain(fetched, e.obj), s.heap[e.obj].link), NULL)

OrRaiseInDy(outcomes) ==
    Then(outcomes, LAMBDA t, r : IF r = NULL THEN raise_python_error_in_dy(t) ELSE One(t, r))
-----------------------------------------------------------------------------
(* From Python to libdy.                                                   *)

RECURSIVE py2dy(_, _)

\* The room for the items is not tested; it is asked for again from four items on.
DyList_NewEx(s, allocate) ==
    New(s, Object("list", NULL, NULL, <<>>)) \cup (IF allocate \in 1..3 THEN Crash(s) ELSE {})

\* pylist2dylist, pytuple2dylist
pylist2dylist(s, items) ==
    Then(DyList_NewEx(s, Len(items)), LAMBDA t, l :
        Then(InTurn(t, Len(items), LAMBDA u, i :
                 Then(py2dy(u, items[i]), LAMBDA w, d :
                     IF d = NULL THEN One(w, NULL)
                     ELSE Then(OrRaise(DyList_Append(w, l, d)),
                               LAMBDA x, r : One(Dy_Release(x, d), r)))),
             LAMBDA u, r : One(IF r = NULL THEN Dy_Release(u, l) ELSE u,
                               IF r = NULL THEN NULL ELSE l)))

\* An item of the dictionary; its references are released before the error is raised.
SetConverted(s, d, k, v) ==
    OrRaise(Then(Dy_SetItem(s, d, k, v), LAMBDA t, r : One(ReleaseAll(t, <<k, v>>), r)))

\* The address of the pointer PyExc_TypeError is taken for an exception class: Python
\* finds out that it is none, or uses other memory.
pydict2dydict(s, o) ==
    LET parent == s.heap[o].link
        items  == s.heap[o].items \o (IF parent = NULL THEN <<>> ELSE <<ParentString, parent>>)
        under(t, p) ==
            IF p # NULL /\ Type(t, p) # "dict"
            THEN One(Dy_Release(PyErr_Set(t), p), NULL) \cup One(Fault(t, "wild"), NULL)
            ELSE OrRaise(IF parent = NULL THEN New(s, Object("dict", NULL, NULL, <<>>))
                         ELSE IF p = NULL THEN One(t, NULL)
                         ELSE Then(DyDict_NewWithParent(t, p), LAMBDA u, d : One(Dy_Release(u, p), d)))
        key(t, k) == IF k = ParentString THEN OrRaise(New(t, Object("string", Chars, NULL, <<>>)))
                     ELSE py2dy(t, k)
    IN  Then(Then(IF parent = NULL THEN One(s, NULL) ELSE py2dy(s, parent), under), LAMBDA t, d :
            IF d = NULL THEN One(t, NULL)
            ELSE Then(InTurn(t, Len(items) \div 2, LAMBDA u, i :
                          Then(key(u, items[2 * i - 1]), LAMBDA w, k :
                              IF k = NULL THEN One(w, NULL)
                              ELSE Then(py2dy(w, items[2 * i]), LAMBDA x, v :
                                       IF v = NULL THEN One(Dy_Release(x, k), NULL)
                                       ELSE SetConverted(x, d, k, v)))),
                      LAMBDA u, r : One(IF r = NULL THEN Dy_Release(u, d) ELSE u,
                                        IF r = NULL THEN NULL ELSE d)))

\* The reference to o, which is only borrowed, is given up, unless it cannot be
\* converted at all.
py2dy(s, o) ==
    LET converted ==
            CASE o = None -> One(s, None)
              [] Type(s, o) = "pydict" -> pydict2dydict(s, o)
              [] Type(s, o) = "PyDy" -> One(Dy_Retain(s, s.heap[o].link), s.heap[o].link)
              [] o = Small -> OrRaise(New(s, Object("long", 0, NULL, <<>>)))
              [] Type(s, o) = "pylist" -> pylist2dylist(s, s.heap[o].items)
    IN  Using(s, {o}, IF Type(s, o) = "pyfunc" THEN One(PyErr_Set(s), NULL)
                      ELSE Then(converted, LAMBDA t, r : One(Dy_Release(t, o), r)))

dy2pyreturn(s, o) == IF o = None THEN One(s, None) ELSE PyDy_Pass(s, o)
-----------------------------------------------------------------------------
(* Python functions, and wrappers, as callables.                           *)

\* External: what a Python function may do with its arguments.
Returns(s, args) ==
    One(s, None) \cup One(s, Small) \cup One(PyErr_Set(s), NULL)
    \cup (IF args = <<>> THEN {} ELSE One(Dy_Retain(s, args[1]), args[1]))
    \cup {[o EXCEPT !.s.pyerr.kind = kind] :
              kind \in {"DyError", "DyError2"},
              o \in {x \in Then(Fail(s), LAMBDA t, r : raise_dy_error(t)) : x.s.pyerr.kind = "DyError"}}

\* fn.__get__(self), which a wrapper does not have.
Bind(s, fn, self) ==
    Then(PyDy_New(s, self), LAMBDA t, p :
        CASE p = NULL -> Crash(t)
          [] p # NULL /\ Type(t, fn) = "PyDy" -> One(Dy_Release(PyErr_Set(t), p), NULL)
          [] p # NULL /\ Type(t, fn) # "PyDy" ->
             Then(PyNew(t, Object("pyfunc", NULL, fn, <<p>>)), LAMBDA u, m :
                 One(Dy_Release(IF m = NULL THEN u ELSE Dy_Retain(Dy_Retain(u, fn), p), p), m)))

\* The wrappers in a tuple; one that is missing is not noticed.
dylist2pytuple_flat(s, lst) ==
    LET first[n \in 0..Len(s.heap[lst].items)] ==
            IF n = 0 THEN One(s, <<>>)
            ELSE Then(first[n - 1], LAMBDA t, tup :
                     Then(Dy_GetItemLong(t, lst, n - 1), LAMBDA u, item :
                         Then(PyDy_Pass(u, item), LAMBDA w, p :
                             One(IF p = NULL THEN Fault(w, "null") ELSE w, Append(tup, p)))))
    IN  first[Len(s.heap[lst].items)]

RECURSIVE pyfunc_wrapper(_, _, _, _)

\* A function in C gives a new reference or an error.
Body(s, self, co, args) ==
    IF s.heap[co].link = NULL THEN New(s, Object("long", 0, NULL, <<>>)) ELSE pyfunc_wrapper(s, self, co, args)
Calls == INSTANCE Callables

\* dy_call: a wrapper of co is called.
CallWrapped(s, co, args) ==
    Using(s, {co}, IF ~Callable(s, co) THEN One(PyErr_Set(s), NULL)
    ELSE Then(pylist2dylist(s, args), LAMBDA t, l :
             IF l = NULL THEN One(t, NULL)
             ELSE Then(Calls!DyCallable_Call(t, co, NULL, l), LAMBDA u, r :
                      LET w == Dy_Release(u, l)
                      IN  IF r = NULL THEN raise_dy_error(w) ELSE dy2pyreturn(w, r))))

\* Body of a callable: the function is called with the arguments, and its result
\* converted, which takes the reference, and given up once more.
pyfunc_wrapper(s, self, co, arglist) ==
    LET fn == s.heap[co].link
        called(t, meth, tup) ==
            Using(t, {meth}, IF Type(t, meth) = "PyDy" THEN CallWrapped(t, t.heap[meth].link, tup)
                             ELSE Returns(t, tup))
    IN  Then(OrRaiseInDy(IF self = NULL THEN One(Dy_Retain(s, fn), fn) ELSE Bind(s, fn, self)), LAMBDA t, meth :
            IF meth = NULL THEN One(t, NULL)
            ELSE Then(Then(raise_python_error_in_dy(PyErr_Set(t)), LAMBDA u, r : One(Dy_Release(u, meth), r))
                      \cup Then(dylist2pytuple_flat(t, arglist), LAMBDA u, tup :
                               Then(called(u, meth, tup), LAMBDA w, r :
                                   OrRaiseInDy(One(Dy_Release(ReleaseAll(w, tup), meth), r)))),
                      LAMBDA u, r :
                          IF r = NULL THEN One(u, NULL)
                          ELSE Then(py2dy(u, r), LAMBDA w, d :
                                   One(Dy_Release(w, r), d))))

pyfunc2udata(s, fn) == Create(s, "CBA_LIST", fn)
=============================================================================
