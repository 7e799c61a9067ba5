------------------------------- MODULE MCJson -------------------------------
(***************************************************************************)
(* Json on texts of a few lexemes of every kind.                           *)
(***************************************************************************)
EXTENDS Json

\* name, bytes, kind, value
Table == {
    <<"{", <<"{">>, "BRACE_OPEN", NULL>>,
    <<"}", <<"}">>, "BRACE_CLOSE", NULL>>,
    <<"[", <<"[">>, "BRACKET_OPEN", NULL>>,
    <<"]", <<"]">>, "BRACKET_CLOSE", NULL>>,
    <<":", <<":">>, "COLON", NULL>>,
    <<",", <<",">>, "COMMA", NULL>>,
    <<"blank", <<" ", "\n", " ">>, "SPACE", NULL>>,
    <<"end", <<"NUL">>, "EOF", NULL>>,
    <<"a", <<"q", "a", "q">>, "STRING", <<"string", <<"a">>>>>>,
    \* The string is a backslash; it ends at the last quote.
    <<"backslash", <<"q", "\\", "\\", "q">>, "STRING", <<"string", <<92>>>>>>,
    \* Text around the code point 8032, with three bytes.
    <<"text", <<"q", "a", "\\", "u", "1", "?", "6", "0", "b", "q">>, "STRING",
              <<"string", <<"a", 225, 189, 160, "b">>>>>>,
    \* The limits of an integer of Bits = 5 bits.
    <<"least", <<"-", "1", "6">>, "INT", <<"long", -16>>>>,
    <<"most", <<"1", "5">>, "INT", <<"long", 15>>>>,
    <<"half", <<"0", ".", "5", "e", "-", "1">>, "FLOAT", <<"float">>>>,
    <<"null", <<"n", "u", "l", "l">>, "NULL", <<"none">>>>,
    <<"nil", <<"n", "i", "l">>, "BAD", NULL>>,
    <<"1.", <<"1", ".">>, "BAD", NULL>>,
    <<"1e", <<"1", "e", "+">>, "BAD", NULL>>,
    <<"open", <<"q", "a">>, "BAD", NULL>>,
    <<"word", <<"w">>, "BAD", NULL>>,
    \* No escape; and, as the code has it, no hexadecimal letters.
    <<"escape", <<"q", "\\", "x", "q">>, "BAD", NULL>>,
    <<"hex", <<"q", "\\", "u", "0", "0", "6", "a", "q">>, "BAD", NULL>>,
    \* More escapes than EscapeCells = 2.
    <<"escapes", <<"q", "\\", "n", "\\", "n", "\\", "n", "q">>, "STRING",
                 <<"string", <<10, 10, 10>>>>>> }

MCLexemes == {e[1] : e \in Table}
Entry(l)  == CHOOSE e \in Table : e[1] = l
MCTextOf  == [l \in MCLexemes |-> Entry(l)[2]]
MCKindOf  == [l \in MCLexemes |-> Entry(l)[3]]
MCValOf   == [l \in MCLexemes |-> Entry(l)[4]]

\* The table says of each lexeme what the tokenizer makes of it.
ASSUME TableAssumption == LexemesAreRead
=============================================================================
