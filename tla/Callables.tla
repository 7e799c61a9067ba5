------------------------------ MODULE Callables ------------------------------
(***************************************************************************)
(* The calls of userdata.c: DyCallable_Call with its variants, and Dy_Call *)
(* with its, which look the callable up first.                             *)
(***************************************************************************)
EXTENDS Access

\* What a callable does, after a state, with the self argument, the userdata, and
\* the argument, the list of arguments or nothing: a set of outcomes.
CONSTANT Body(_, _, _, _)

DyCallable_Call(s, co, self, args) ==
    Using(s, {co, args},
        CASE ~Callable(s, co) \/ Type(s, args) # "list" -> Fail(s)
          [] Callable(s, co) /\ Type(s, args) = "list" ->
             LET given == Len(s.heap[args].items)
             IN  CASE Val(s, co) = "CBA_LIST" -> Body(s, self, co, args)
                   [] Val(s, co) = "CBA_0" /\ given = 0 -> Body(s, self, co, NULL)
                   [] Val(s, co) = "CBA_1" /\ given = 1 -> Body(s, self, co, s.heap[args].items[1])
                   [] OTHER -> Fail(s))

\* A list of arguments for the one call; that it holds the argument is not checked.
WithList(s, args, F(_, _)) ==
    Then(New(s, Object("list", NULL, NULL, <<>>)), LAMBDA t, l :
        Then(IF args = <<>> THEN One(t, Done) ELSE DyList_Append(t, l, args[1]),
             LAMBDA u, ok : Then(F(u, l), LAMBDA w, r : One(Dy_Release(w, l), r))))

DyCallable_Call0(s, co, self) ==
    Using(s, {co},
        IF ~Callable(s, co) THEN Fail(s)
        ELSE CASE Val(s, co) = "CBA_0" -> Body(s, self, co, NULL)
               [] Val(s, co) = "CBA_1" -> Fail(s)
               [] OTHER -> WithList(s, <<>>, LAMBDA t, l : Body(t, self, co, l)))

DyCallable_Call1(s, co, self, arg) ==
    Using(s, {co, arg},
        IF ~Callable(s, co) THEN Fail(s)
        ELSE CASE Val(s, co) = "CBA_0" -> Fail(s)
               [] Val(s, co) = "CBA_1" -> Body(s, self, co, arg)
               [] OTHER -> WithList(s, <<arg>>, LAMBDA t, l : Body(t, self, co, l)))

\* Dy_Call, Dy_CallString and their variants: the callable that was found is
\* released, although it is only borrowed.
CallFound(found, Call(_, _)) ==
    Then(found, LAMBDA t, cb :
        Using(t, {cb}, Then(Call(t, cb), LAMBDA u, r : One(Dy_Release(u, cb), r))))

Dy_Call0(s, self, key) ==
    CallFound(Dy_GetItem(s, self, key), LAMBDA t, cb : DyCallable_Call0(t, cb, self))
Dy_Call1(s, self, key, arg) ==
    CallFound(Dy_GetItem(s, self, key), LAMBDA t, cb : DyCallable_Call1(t, cb, self, arg))
Dy_CallString0(s, self, key) ==
    CallFound(Dy_GetItemString(s, self, key), LAMBDA t, cb : DyCallable_Call0(t, cb, self))
Dy_CallString1(s, self, key, arg) ==
    CallFound(Dy_GetItemString(s, self, key), LAMBDA t, cb : DyCallable_Call1(t, cb, self, arg))
==============================================================================
