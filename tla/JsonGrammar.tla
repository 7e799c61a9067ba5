---------------------------- MODULE JsonGrammar -----------------------------
(***************************************************************************)
(* What a text says: the documents of the JSON dialect that libdy reads,   *)
(* as sets of lexemes with their values.  The dialect is JSON with any     *)
(* hashable key and a comma allowed before a closing bracket.              *)
(***************************************************************************)
EXTENDS Integers, Sequences, SequencesExt, TLC

CONSTANTS Lexemes,  \* names of lexemes
          TextOf,   \* their bytes
          KindOf,   \* their token types, "BAD" if no token begins like that
          ValOf,    \* the values that the scalar ones stand for
          Size      \* the number of lexemes of the largest documents

ASSUME GrammarAssumption ==
    /\ Size \in Nat \ {0}
    /\ \A l \in Lexemes : TextOf[l] \in Seq(Range(TextOf[l])) /\ Len(TextOf[l]) > 0

\* There is one lexeme for each of the punctuation marks.
Punctuation == {"BRACE_OPEN", "BRACE_CLOSE", "BRACKET_OPEN", "BRACKET_CLOSE", "COLON", "COMMA"}
ASSUME PunctuationAssumption ==
    \A kind \in Punctuation : \E l \in Lexemes : \A m \in Lexemes : KindOf[m] = kind <=> m = l

ScalarKinds == {"STRING", "INT", "FLOAT", "NULL", "TRUE", "FALSE"}
OfKind(kinds) == {l \in Lexemes : KindOf[l] \in kinds}
The(kind) == CHOOSE l \in Lexemes : KindOf[l] = kind

\* Dy_HashEx accepts strings and longs.
IsHashable(v) == v[1] \in {"string", "long"}

\* Later entries replace earlier ones.
ToDict(entries) ==
    [k \in {entries[i][1] : i \in 1..Len(entries)} |->
        entries[CHOOSE i \in 1..Len(entries) :
                    /\ entries[i][1] = k
                    /\ \A j \in (i + 1)..Len(entries) : entries[j][1] # k][2]]

(***************************************************************************)
(* The rules.  Each gives the texts of n lexemes, with their values, from  *)
(* the shorter ones: D[m] are the values, lists of items and lists of      *)
(* entries of m lexemes.  A list ends with its closing bracket.            *)
(*                                                                         *)
(*   value   ::= scalar | "[" items | "{" entries                          *)
(*   items   ::= "]" | value rest           rest ::= "]" | "," items       *)
(*   entries ::= "}" | key ":" value rest   rest ::= "}" | "," entries     *)
(***************************************************************************)
Closing(list) == The(IF list = "items" THEN "BRACKET_CLOSE" ELSE "BRACE_CLOSE")

End(list, n) == {[text |-> <<Closing(list)>>, val |-> <<>>] : m \in {n} \cap {1}}

Rest(D, list, n) ==
    End(list, n) \cup {[text |-> <<The("COMMA")>> \o d.text, val |-> d.val] : d \in D[n - 1][list]}

Values(D, n) ==
    {[text |-> <<l>>, val |-> ValOf[l]] : l \in {m \in OfKind(ScalarKinds) : n = 1}}
    \cup {[text |-> <<The("BRACKET_OPEN")>> \o d.text, val |-> <<"list", d.val>>] :
             d \in D[n - 1].items}
    \cup {[text |-> <<The("BRACE_OPEN")>> \o d.text, val |-> <<"dict", ToDict(d.val)>>] :
             d \in D[n - 1].entries}

\* A value, or an entry, before what is left of its list.
ItemTexts(V, R) ==
    UNION {{[text |-> v.text \o rest.text, val |-> <<v.val>> \o rest.val] : rest \in R} : v \in V}

Items(D, n) ==
    End("items", n)
    \cup UNION {ItemTexts(D[k].value, Rest(D, "items", n - k)) : k \in 1..(n - 1)}

KeyLexemes == {l \in OfKind(ScalarKinds) : IsHashable(ValOf[l])}
EntryTexts(V, R) ==
    UNION {UNION {{[text |-> <<key, The("COLON")>> \o (v.text \o rest.text),
                    val  |-> <<<<ValOf[key], v.val>>>> \o rest.val] : rest \in R} :
                  v \in V} : key \in KeyLexemes}

Entries(D, n) ==
    End("entries", n)
    \cup UNION {EntryTexts(D[k].value, Rest(D, "entries", n - 2 - k)) : k \in 1..(n - 3)}

Derived[n \in 0..Size] ==
    IF n = 0 THEN [value |-> {}, items |-> {}, entries |-> {}]
    ELSE [value   |-> Values(Derived, n),
          items   |-> Items(Derived, n),
          entries |-> Entries(Derived, n)]

Documents == UNION {Derived[n].value : n \in 1..Size}
Beginnings == UNION {{SubSeq(d.text, 1, i) : i \in 0..Len(d.text)} : d \in Documents}
=============================================================================
