---------------------------- MODULE BuildString -----------------------------
(***************************************************************************)
(* The string builder (buildstring.c) and the representations made with it *)
(* (bsrepr in dy.c, string.c, list.c and dict.c).                          *)
(*                                                                         *)
(* s.bs is the chain of parts: text, a sequence of brackets, separators    *)
(* and leaves, and str, the string object whose data the part points into  *)
(* and which free_part releases.  The calls return Done, or NULL.          *)
(***************************************************************************)
EXTENDS Objects

Part(text, str) == [text |-> text, str |-> str]
\* What is open at the end of a text, an empty list being a bracket that no item
\* follows.
Open(text) ==
    LET empty(i) == /\ text[i] = "["
                    /\ i < Len(text) => text[i + 1] \in {",", ":", "]", "}"}
    IN  FoldLeft(LAMBDA open, i :
            CASE text[i] \in {"[", "{"} /\ ~empty(i) -> Append(open, text[i])
              [] text[i] \in {"]", "}"} ->
                     IF open # <<>> /\ Last(open) = (IF text[i] = "]" THEN "[" ELSE "{")
                     THEN Front(open) ELSE Append(open, text[i])
              [] OTHER -> open, <<>>, [i \in DOMAIN text |-> i])

Text(bs) == FlattenSeq([i \in DOMAIN bs |-> bs[i].text])

\* dy_buildstring_append and dy_buildstring_printf; the callers set the error.
dy_buildstring_append(s, text) ==
    Using(s, {}, NoMemory(s) \cup One([s EXCEPT !.bs = Append(@, Part(text, NULL))], Done))

dy_buildstring_append2(s, str) ==
    IF str \in Static THEN dy_buildstring_append(s, <<str>>)
    ELSE Using(s, {str}, NoMemory(s) \cup
            One(Dy_Retain([s EXCEPT !.bs = Append(@, Part(<<"chars">>, str))], str), Done))

\* Mutant: the strings are not released with the parts that point to them.
free_parts_only(s) == [s EXCEPT !.bs = <<>>]

dy_buildstring_free(s) ==
    [ReleaseAll(s, SelectSeq([i \in DOMAIN s.bs |-> s.bs[i].str], LAMBDA o : o # NULL))
        EXCEPT !.bs = <<>>]

\* Of what was built is kept what is open in it.
dy_buildstring_build(s) == New(s, Object("string", Open(Text(s.bs)), NULL, <<>>))

\* The last separator becomes the closing bracket.
Close(s, text) == [s EXCEPT !.bs[Len(s.bs)].text = text]
-----------------------------------------------------------------------------
\* Some steps in order, as long as none fails.
InTurn(s, n, Step(_, _)) ==
    LET after[i \in 0..n] ==
            IF i = 0 THEN One(s, Done)
            ELSE Then(after[i - 1], LAMBDA t, ret : IF ret = NULL THEN One(t, NULL) ELSE Step(t, i))
    IN  after[n]

string_bsrepr(s, o) ==
    InTurn(s, 3, LAMBDA t, i : IF i = 2 THEN dy_buildstring_append2(t, o)
                               ELSE dy_buildstring_append(t, <<"quote">>))

\* Mutant: the opening bracket counts as an item.
list_close_always(s, before) == Close(s, <<"]">>)

\* list_bsrepr at its end: only if there was an item.
list_close(s, before) == IF Len(s.bs) > before THEN Close(s, <<"]">>) ELSE s

dict_close(s, before) == Close(s, IF Len(s.bs) > before THEN <<"}">> ELSE <<"{", "}">>)

RECURSIVE bsrepr(_, _)
\* At most Shown items of a list are represented, all of a dict, the opening
\* bracket, items and separators being parts of their own.
Shown == 20

list_bsrepr(s, o) ==
    Then(dy_buildstring_append(s, <<"[">>), LAMBDA t, ret :
        IF ret = NULL THEN One(t, NULL)
        ELSE Then(InTurn(t, 2 * Min({Len(s.heap[o].items), Shown}), LAMBDA u, i :
                      IF i % 2 = 0 THEN dy_buildstring_append(u, <<",">>)
                      ELSE bsrepr(u, s.heap[o].items[(i + 1) \div 2])),
                  LAMBDA u, r : One(IF r = NULL THEN u ELSE list_close(u, Len(t.bs)), r)))

dict_bsrepr(s, o) ==
    Then(dy_buildstring_append(s, <<"{">>), LAMBDA t, ret :
        IF ret = NULL THEN One(t, NULL)
        ELSE Then(InTurn(t, 2 * Len(s.heap[o].items), LAMBDA u, i :
                      IF i % 2 = 0 THEN dy_buildstring_append(u, IF i % 4 = 2 THEN <<":">> ELSE <<",">>)
                      ELSE bsrepr(u, s.heap[o].items[(i + 1) \div 2])),
                  LAMBDA u, r : One(IF r = NULL THEN u ELSE dict_close(u, Len(t.bs)), r)))

bsrepr(s, o) ==
    CASE Type(s, o) = "string" -> string_bsrepr(s, o)
      [] Type(s, o) = "list" -> list_bsrepr(s, o)
      [] Type(s, o) = "dict" -> dict_bsrepr(s, o)
      [] o \in Static -> dy_buildstring_append2(s, o)
      [] OTHER -> dy_buildstring_append(s, <<Type(s, o)>>)

\* The chain begins with an empty part, whose allocation is not checked.
Dy_Repr(s, o) ==
    Using(s, {o}, One(Fault(s, "null"), NULL) \cup
        Then(bsrepr([s EXCEPT !.bs = <<Part(<<>>, NULL)>>], o), LAMBDA t, ret :
            Then(IF ret = NULL THEN One(t, NULL) ELSE dy_buildstring_build(t),
                 LAMBDA u, str : One(dy_buildstring_free(u), str))))

Dy_Str(s, o) == IF Type(s, o) = "string" THEN One(Dy_Retain(s, o), o) ELSE Dy_Repr(s, o)
=============================================================================
