------------------------------ MODULE JsonText ------------------------------
(***************************************************************************)
(* The two tokenizers of json_token.c, as functions of the bytes they      *)
(* look at: dyj_next_token over the text and dyj_next_string inside a      *)
(* string literal.                                                         *)
(*                                                                         *)
(* s is the buffer from token->begin on; it ends in "NUL" or, if it is a   *)
(* chunk that goes on elsewhere, in "ETX".  Bytes are named by the         *)
(* characters they stand for; "hi" is any byte above 0x7F.                 *)
(***************************************************************************)
EXTENDS Integers, Sequences, SequencesExt

CONSTANTS Bits,       \* width of int_value (64)
          SignedChar, \* whether char is signed: 0x80 and above are negative then
          Beyond      \* what a read past the sentinel finds

Limit == 2^(Bits - 1)

\* The second part follows from the first by what powers are.
ASSUME BitsAssumption == Bits \in Nat \ {0} /\ Limit \in Nat \ {0}

Digit   == {"0", "1", "2", "3", "4", "5", "6", "7", "8", "9"}
Blank   == {" ", "\n", "\t"}
Sign    == {"+", "-"}
Control == {"NUL", "ETX", "\n", "\t", "DEL"} \cup (IF SignedChar THEN {"hi"} ELSE {})

\* The low four bits of the bytes 0x30 to 0x3F, all of which \u takes for digits.
Nibbles == <<"0", "1", "2", "3", "4", "5", "6", "7", "8", "9", ":", ";", "<", "=", ">", "?">>
Nibble(c) == (CHOOSE i \in 1..16 : Nibbles[i] = c) - 1

At(s, i) == IF i <= Len(s) THEN s[i] ELSE Beyond

\* The first position from i on that is not in S.
SpanEnd(s, i, S) ==
    CHOOSE j \in i..Len(s) : s[j] \notin S /\ \A k \in i..(j - 1) : s[k] \in S
-----------------------------------------------------------------------------
\* update_token: a token that ends before position end.
update_token(type, end) == [type |-> type, len |-> end - 1, error |-> "none"]

\* Mutant: the end of a chunk is like any other unexpected byte.
token_error_plain(s, here, message) == [type |-> "INVALID", len |-> 0, error |-> message]

\* token_error: the byte at the place of the error decides whether the chunk
\* ended or the text is wrong.
token_error(s, here, message) ==
    [type  |-> "INVALID", len |-> 0,
     error |-> IF At(s, here) = "ETX" THEN "chunk end" ELSE message]

token_space(s) == update_token("SPACE", SpanEnd(s, 1, Blank))

\* The variable escape of token_string's loop at each byte after the opening quote.
Escape(s) ==
    LET escape[i \in 1..Len(s)] == i > 2 /\ s[i - 1] = "\\" /\ ~escape[i - 1]
    IN  escape

\* The closing quote, or the first control byte before it.
token_string(s) ==
    LET ends == {j \in 2..Len(s) : s[j] \in Control \/ (s[j] = "q" /\ ~Escape(s)[j])}
        last == CHOOSE j \in ends : \A k \in ends : j <= k
    IN  IF s[last] = "q" THEN update_token("STRING", last + 1)
        ELSE token_error(s, last, "control character")

\* If a number is followed by ETX, its rest may be in the next chunk.
number_ends(s, type, end) ==
    IF s[end] = "ETX" THEN token_error(s, end, "none") ELSE update_token(type, end)

\* -? (0 | [1-9][0-9]*) (. [0-9]+)? ([eE] [+-]? [0-9]+)?
token_number(s) ==
    LET int  == IF s[1] = "-" THEN 2 ELSE 1
        frac == IF s[int] = "0" THEN int + 1 ELSE SpanEnd(s, int, Digit)
        exp  == IF s[frac] = "." THEN SpanEnd(s, frac + 1, Digit) ELSE frac
        mant == IF s[exp] \notin {"e", "E"} THEN exp
                ELSE IF s[exp + 1] \in Sign THEN exp + 2 ELSE exp + 1
        end  == IF mant = exp THEN exp ELSE SpanEnd(s, mant, Digit)
    IN  IF frac = int THEN token_error(s, int, "broken number")
        ELSE IF exp = frac + 1 THEN token_error(s, exp, "broken number")
        ELSE IF mant # exp /\ end = mant THEN token_error(s, end, "broken number")
        ELSE number_ends(s, IF end = frac THEN "INT" ELSE "FLOAT", end)

\* The pointer has passed the byte that differs when the error is reported.
token_special(s, type, match) ==
    LET differ == {i \in 1..Len(match) : At(s, i) # match[i]}
    IN  IF differ = {} THEN update_token(type, Len(match) + 1)
        ELSE token_error(s, (CHOOSE i \in differ : \A j \in differ : i <= j) + 1, "unknown token")

dyj_next_token(s) ==
    CASE s[1] = "NUL" -> update_token("EOF", 2)
      [] s[1] \in Blank -> token_space(s)
      [] s[1] = "{" -> update_token("BRACE_OPEN", 2)
      [] s[1] = "}" -> update_token("BRACE_CLOSE", 2)
      [] s[1] = "[" -> update_token("BRACKET_OPEN", 2)
      [] s[1] = "]" -> update_token("BRACKET_CLOSE", 2)
      [] s[1] = ":" -> update_token("COLON", 2)
      [] s[1] = "," -> update_token("COMMA", 2)
      [] s[1] = "q" -> token_string(s)
      [] s[1] \in Digit \cup {"-"} -> token_number(s)
      [] s[1] = "t" -> token_special(s, "TRUE", <<"t", "r", "u", "e">>)
      [] s[1] = "f" -> token_special(s, "FALSE", <<"f", "a", "l", "s", "e">>)
      [] s[1] = "n" -> token_special(s, "NULL", <<"n", "u", "l", "l">>)
      [] OTHER -> token_error(s, 1, "unknown token")

\* Mutant: the column goes on after a line break.
end_location_flat(loc, t) ==
    [offset |-> loc.offset + Len(t),
     line   |-> loc.line + Cardinality({i \in 1..Len(t) : t[i] = "\n"}),
     column |-> loc.column + Len(t)]

\* end_location after a token: only spacing can hold a line break.
end_location(loc, t) ==
    LET breaks == {i \in 1..Len(t) : t[i] = "\n"}
        last   == CHOOSE i \in breaks : \A j \in breaks : j <= i
    IN  [offset |-> loc.offset + Len(t),
         line   |-> loc.line + Cardinality(breaks),
         column |-> IF breaks = {} THEN loc.column + Len(t) ELSE Len(t) - last + 1]

\* int_value: accumulated in a signed integer of Bits bits, which holds the numbers
\* from -Limit to Limit - 1.
Wrap(v) == ((v + Limit) % (2 * Limit)) - Limit
int_value(t) ==
    LET negate == t[1] = "-"
        value[i \in 0..Len(t)] ==
            IF i = 0 \/ (i = 1 /\ negate) THEN 0
            ELSE Wrap(Wrap(value[i - 1] * 10) + Nibble(t[i]))
    IN  IF negate THEN Wrap(-value[Len(t)]) ELSE value[Len(t)]
-----------------------------------------------------------------------------
\* The bytes of a code point.
Largest == <<127, 2047, 65535, 2097151, 67108863, 2147483647>>
Width(cp) == CHOOSE n \in 1..6 : cp <= Largest[n] /\ \A m \in 1..(n - 1) : cp > Largest[m]

\* The first byte tells how many there are, each other one holds six bits.
Lead  == <<0, 192, 224, 240, 248, 252>>
Shift == <<1, 64, 4096, 262144, 16777216, 1073741824>>

dyj_unicode_utf8(cp) ==
    LET n == Width(cp)
    IN  [i \in 1..n |-> IF i = 1 THEN Lead[n] + (cp \div Shift[n])
                        ELSE 128 + ((cp \div Shift[n - i + 1]) % 64)]

Single == [c \in {"q", "/", "\\", "b", "f", "n", "r", "t"} |->
              CASE c = "q" -> 34 [] c = "/" -> 47 [] c = "\\" -> 92 [] c = "b" -> 8
                [] c = "f" -> 12 [] c = "n" -> 10 [] c = "r" -> 13 [] c = "t" -> 9]

\* The escape sequence at position i, which holds the backslash.
strtok_escape(s, i) ==
    LET hex == [k \in 1..4 |-> At(s, i + 1 + k)]
        Read(code, end) == [type |-> "ESCAPE", begin |-> i, end |-> end, escape |-> code]
    IN  CASE s[i + 1] \in DOMAIN Single -> Read(Single[s[i + 1]], i + 2)
          [] s[i + 1] = "u" /\ Range(hex) \subseteq Range(Nibbles) ->
                 Read(FoldLeft(LAMBDA v, d : 16 * v + Nibble(d), 0, hex), i + 6)
          [] OTHER -> [type |-> "INVALID", begin |-> i, end |-> i]

\* The token that begins at position i.
dyj_next_string(s, i) ==
    CASE s[i] = "q"  -> [type |-> "QUOTE", begin |-> i, end |-> i + 1]
      [] s[i] = "\\" -> strtok_escape(s, i)
      [] OTHER -> [type |-> "TEXT", begin |-> i,
                   end  |-> CHOOSE j \in (i + 1)..Len(s) :
                                /\ s[j] \in {"q", "\\"}
                                /\ \A k \in (i + 1)..(j - 1) : s[k] \notin {"q", "\\"}]

\* What handle_STRING's loop sees between the quotes: the tokens, the last of
\* which is the closing quote or an invalid escape. rest has those from position
\* i on, as far as the text goes: no token of a string goes on behind it.
string_tokens(s) ==
    LET rest[i \in 2..Len(s)] ==
            LET t == dyj_next_string(s, i)
            IN  IF t.type \in {"TEXT", "ESCAPE"} /\ t.end \in (i + 1)..Len(s)
                THEN <<t>> \o rest[t.end]
                ELSE <<t>>
    IN  rest[2]
=============================================================================
