-------------------------------- MODULE Json --------------------------------
(***************************************************************************)
(* The JSON reader: json.c over the tokenizer of JsonText, fed with chunks *)
(* of text.                                                                *)
(*                                                                         *)
(* The text is chosen as it is read, lexeme by lexeme; a chunk may end     *)
(* anywhere in it.  The recursion of the handlers is the stack frames: a   *)
(* frame is a call of handle_OBJECT or handle_ARRAY, pos the place in its  *)
(* loop, key the reference in its local variable.  held counts the         *)
(* references the reader has, in its variables, of whatever object.        *)
(***************************************************************************)
EXTENDS JsonText, JsonGrammar

CONSTANTS EscapeCells, \* escapes the table of handle_STRING has room for (32)
          MaxLexemes,  \* bound: after that many lexemes only the end is read
          MaxBlanks,   \* bound on the spacing among them
          NULL

\* The grammar knows all documents of that many lexemes.
ASSUME ReaderAssumption == MaxLexemes \in 0..Size

VARIABLES chunk_fn, \* whether the caller gave a function that reads chunks
          read,     \* the lexemes read so far (history)
          phase,    \* what the reader does next
          tok,      \* the current token: its type and its text, or its lexeme
          loc,      \* token->end_location
          frames,   \* the handlers that have not returned, innermost last
          held,     \* references held
          lost,     \* keys still held by handlers that have returned (history)
          dropped,  \* whether a part of a string was dropped (history)
          result,   \* what DyJson_NextEx returned
          err       \* the exception it raised

vars == <<chunk_fn, read, phase, tok, loc, frames, held, lost, dropped, result, err>>

None  == [type |-> "INVALID", text |-> <<>>]
Start == [offset |-> 0, line |-> 1, column |-> 1]

\* dyj_init_token, DyJson_Parse or DyJson_NextEx
Init == /\ chunk_fn \in BOOLEAN
        /\ read = <<>> /\ phase = "next" /\ tok = None /\ loc = Start
        /\ frames = <<>> /\ held = 0 /\ lost = 0 /\ dropped = FALSE
        /\ result = NULL /\ err = "none"

Raise(e) == err' = e /\ phase' = "cleanup"
-----------------------------------------------------------------------------
(* next_token: skip spacing; at the end of a chunk ask once for the next.  *)

\* The lexemes that are not spacing.
NonBlank(ls) ==
    FlattenSeq([i \in 1..Len(ls) |-> IF KindOf[ls[i]] = "SPACE" THEN <<>> ELSE <<ls[i]>>])
Blanks(ls) == Len(ls) - Len(NonBlank(ls))
IsNumber(l) == KindOf[l] \in {"INT", "FLOAT"} \/ TextOf[l][1] \in Digit \cup {"-"}

\* A number ends where no further number begins.
Readable ==
    {l \in Lexemes :
        /\ KindOf[l] = "SPACE" => Blanks(read) < MaxBlanks
        /\ Len(NonBlank(read)) >= MaxLexemes => KindOf[l] \in {"EOF", "SPACE"}
        /\ read # <<>> => ~(IsNumber(l) /\ IsNumber(Last(read)))}

\* A buffer that holds the lexeme and something after it, or ends within it;
\* spacing that is cut is two spacings.
Whole(l) == TextOf[l] \o (IF KindOf[l] = "EOF" THEN <<>> ELSE <<",", "NUL">>)
Cut(l)   == {SubSeq(TextOf[l], 1, k) \o <<"ETX">> :
                k \in CASE KindOf[l] = "EOF" -> {0}
                        [] KindOf[l] = "SPACE" -> {0, Len(TextOf[l])}
                        [] OTHER -> 0..Len(TextOf[l])}
Buffers(l) == Cut(l) \cup {Whole(l)}

\* dyj_next_token in each of them.
TokenIn == [s \in UNION {Buffers(l) : l \in Lexemes} |-> dyj_next_token(s)]

Accept(l, s, t) ==
    LET text == SubSeq(s, 1, t.len)
    IN  /\ read' = Append(read, l)
        /\ loc' = end_location(loc, text)
        /\ IF t.type = "SPACE" THEN phase' = "next" /\ UNCHANGED tok
           ELSE phase' = "handle" /\ tok' = [type |-> t.type, text |-> text]
        /\ UNCHANGED err

Reject(l, s, t) ==
    /\ read' = Append(read, l)
    /\ Raise(IF t.error = "chunk end" THEN t.error
             ELSE IF Last(s) = "ETX" THEN "cut token" ELSE "token")
    /\ UNCHANGED <<tok, loc>>

\* dyj_next_token in the buffer at hand.
NextToken ==
    /\ phase = "next"
    /\ \E l \in Readable : \E s \in Buffers(l) :
           LET t == TokenIn[s]
           IN  IF t.type # "INVALID" THEN Accept(l, s, t)
               ELSE IF t.error = "chunk end" /\ chunk_fn
               THEN /\ phase' = "chunk"
                    /\ tok' = [None EXCEPT !.text = <<l>>]
                    /\ UNCHANGED <<read, loc, err>>
               ELSE Reject(l, s, t)
    /\ UNCHANGED <<chunk_fn, frames, held, lost, dropped, result>>

\* Mutant: an incomplete token is read again and again.
NextChunkRetries ==
    /\ phase = "chunk"
    /\ LET l == tok.text[1]
       IN  \E s \in Buffers(l) :
               LET t == TokenIn[s]
               IN  IF t.type # "INVALID" THEN Accept(l, s, t)
                   ELSE phase' = "next" /\ tok' = None /\ UNCHANGED <<read, loc, err>>
    /\ UNCHANGED <<chunk_fn, frames, held, lost, dropped, result>>

\* The caller reads on from the token that was cut (dyj_next_chunk); if that
\* does not give a whole token either, next_token gives up.
NextChunk ==
    /\ phase = "chunk"
    /\ LET l == tok.text[1]
       IN  \E s \in Buffers(l) :
               LET t == TokenIn[s]
               IN  IF t.type # "INVALID" THEN Accept(l, s, t) ELSE Reject(l, s, t)
    /\ UNCHANGED <<chunk_fn, frames, held, lost, dropped, result>>
-----------------------------------------------------------------------------
(* The value of a token; the handlers.                                     *)

Top == Last(frames)
At_(pos) == frames # <<>> /\ Top.pos = pos
ToPos(pos) == [frames EXCEPT ![Len(frames)].pos = pos]

OpenArray  == [kind |-> "ARRAY", pos |-> "item", val |-> <<>>, key |-> NULL]
OpenObject == [kind |-> "OBJECT", pos |-> "key", val |-> <<>>, key |-> NULL]

\* handle_STRING: what was built from the parts.  Text keeps its bytes, an
\* escape is turned into the bytes of its code point.
Parts(text) == LET ts == string_tokens(text) IN SubSeq(ts, 1, Len(ts) - 1)
Escapes(text) == SelectSeq(Parts(text), LAMBDA t : t.type = "ESCAPE")
StringOf(text) ==
    FoldLeft(LAMBDA s, t : s \o (IF t.type = "ESCAPE" THEN dyj_unicode_utf8(t.escape)
                                 ELSE SubSeq(text, t.begin, t.end - 1)), <<>>, Parts(text))
ValidString(text) == Last(string_tokens(text)).type = "QUOTE"

\* handle_INT, FLOAT, NULL, TRUE, FALSE
ScalarOf(t) == CASE t.type = "STRING" -> <<"string", StringOf(t.text)>>
                 [] t.type = "INT"    -> <<"long", int_value(t.text)>>
                 [] t.type = "FLOAT"  -> <<"float">>
                 [] t.type = "NULL"   -> <<"none">>
                 [] t.type = "TRUE"   -> <<"bool", TRUE>>
                 [] t.type = "FALSE"  -> <<"bool", FALSE>>

\* DyDict_SetItem
Put(d, k, v) == [x \in DOMAIN d \cup {k} |-> IF x = k THEN v ELSE d[x]]

\* A handler returns v to the one that called it, which stores it: the
\* container retains what it takes and the handler's references are released,
\* also if the key is refused.
Deliver(fs, h, v) ==
    LET f == Last(fs)
        n == Len(fs)
    IN  IF fs = <<>>
        THEN /\ result' = v /\ phase' = "done"
             /\ frames' = fs /\ held' = h /\ UNCHANGED err
        ELSE /\ held' = h - (IF f.pos = "item" THEN 1 ELSE IF f.pos = "value" THEN 2 ELSE 0)
             /\ UNCHANGED result
             /\ IF f.pos = "value" /\ ~IsHashable(f.key)
                THEN frames' = [fs EXCEPT ![n].key = NULL] /\ Raise("unhashable")
                ELSE /\ phase' = "next"
                     /\ UNCHANGED err
                     /\ frames' = [fs EXCEPT ![n] =
                          CASE f.pos = "item"  -> [f EXCEPT !.val = Append(@, v), !.pos = "comma"]
                            [] f.pos = "key"   -> [f EXCEPT !.key = v, !.pos = "colon"]
                            [] f.pos = "value" -> [f EXCEPT !.val = Put(@, f.key, v),
                                                            !.key = NULL, !.pos = "comma"]]

\* A null pointer is written through.
Crash == phase' = "crash" /\ UNCHANGED <<frames, held, result, err>>

\* The buffer of a list cannot grow; a dictionary, for another key, does not look
\* at what create_block has got (dict.c:148).  When they grow is left open.
StoreFails(fs, h) ==
    /\ fs # <<>>
    /\ LET f == Last(fs)
       IN  \/ /\ f.pos = "item"
              /\ frames' = fs /\ held' = h - 1 /\ UNCHANGED result
              /\ Raise("memory")
           \/ /\ f.pos = "value" /\ IsHashable(f.key)
              /\ f.val # <<>> /\ f.key \notin DOMAIN f.val
              /\ Crash

Return(fs, h, v) == Deliver(fs, h, v) \/ StoreFails(fs, h)

\* DyJson_ThisEx and this_or where a value may begin.
MayBeValue == ~At_("colon") /\ ~At_("comma")

\* The macro NEW clears what it has not got (dy_p.h:32); strings and dictionaries
\* do without it, and the other values are never made.
OutOfMemory == /\ MayBeValue
               /\ \/ /\ tok.type \in {"STRING", "BRACE_OPEN"}
                     /\ Raise("memory") /\ UNCHANGED <<frames, held, result>>
                  \/ tok.type \in {"INT", "FLOAT", "BRACKET_OPEN"} /\ Crash

ReadValue ==
    CASE tok.type = "BRACE_OPEN" ->
             /\ frames' = Append(frames, OpenObject) /\ held' = held + 1
             /\ phase' = "next" /\ UNCHANGED <<result, err>>
      [] tok.type = "BRACKET_OPEN" ->
             /\ frames' = Append(frames, OpenArray) /\ held' = held + 1
             /\ phase' = "next" /\ UNCHANGED <<result, err>>
      [] tok.type = "STRING" /\ Len(Escapes(tok.text)) > EscapeCells ->
             phase' = "overrun" /\ UNCHANGED <<frames, held, result, err>>
      [] tok.type = "STRING" /\ ~ValidString(tok.text) ->
             Raise("string") /\ UNCHANGED <<frames, held, result>>
      [] tok.type \in ScalarKinds /\ (tok.type = "STRING" => ValidString(tok.text)) ->
             Return(frames, held + 1, ScalarOf(tok))
      [] OTHER -> Raise("parse") /\ UNCHANGED <<frames, held, result>>

\* dy_buildstring_more fails for one part, which nothing tests: the string is
\* built of the others.  At most one string is, a bound, so it needs no value.
PartDropped ==
    /\ tok.type = "STRING" /\ Len(Escapes(tok.text)) <= EscapeCells /\ ValidString(tok.text)
    /\ MayBeValue /\ ~dropped /\ dropped' = TRUE
    /\ Parts(tok.text) # <<>>
    /\ Return(frames, held + 1, <<"string">>)

\* The handler of the innermost container returns it.
CloseContainer ==
    Return(Front(frames), held, <<IF Top.kind = "ARRAY" THEN "list" ELSE "dict", Top.val>>)

Closes == IF Top.kind = "ARRAY" THEN "BRACKET_CLOSE" ELSE "BRACE_CLOSE"

\* Mutant: after a comma there must be another item.
HandleFirstStrict == /\ frames # <<>>
                     /\ Top.pos \in {"key", "item"}
                     /\ IF tok.type = Closes /\ Top.val = <<>> THEN CloseContainer ELSE ReadValue

\* Where the loops of handle_OBJECT and handle_ARRAY begin.
HandleFirst == /\ frames # <<>>
               /\ Top.pos \in {"key", "item"}
               /\ IF tok.type = Closes THEN CloseContainer ELSE ReadValue

HandleColon == /\ At_("colon")
               /\ IF tok.type = "COLON"
                  THEN frames' = ToPos("value") /\ phase' = "next" /\ UNCHANGED err
                  ELSE Raise("parse") /\ UNCHANGED frames
               /\ UNCHANGED <<held, result>>

\* Mutant: whatever is between two items is skipped.
HandleCommaSkips == /\ At_("comma")
                    /\ IF tok.type = Closes THEN CloseContainer
                       ELSE /\ frames' = ToPos(IF Top.kind = "ARRAY" THEN "item" ELSE "key")
                            /\ phase' = "next"
                            /\ UNCHANGED <<held, result, err>>

HandleComma == /\ At_("comma")
               /\ IF tok.type = Closes THEN CloseContainer
                  ELSE /\ IF tok.type = "COMMA"
                          THEN /\ frames' = ToPos(IF Top.kind = "ARRAY" THEN "item" ELSE "key")
                               /\ phase' = "next" /\ UNCHANGED err
                          ELSE Raise("parse") /\ UNCHANGED frames
                       /\ UNCHANGED <<held, result>>

Handle == /\ phase = "handle"
          /\ \/ /\ \/ HandleFirst
                   \/ HandleColon
                   \/ HandleComma
                   \/ (frames = <<>> \/ At_("value")) /\ ReadValue
                   \/ OutOfMemory
                /\ UNCHANGED dropped
             \/ PartDropped
          /\ tok' = None
          /\ UNCHANGED <<chunk_fn, read, loc, lost>>

\* Mutant: the key is forgotten also if its value cannot be read.
CleanupForgetsKey ==
    /\ phase = "cleanup"
    /\ IF frames = <<>> THEN phase' = "done" /\ UNCHANGED <<frames, held, lost>>
       ELSE /\ frames' = Front(frames)
            /\ held' = held - 1
            /\ UNCHANGED <<phase, lost>>
    /\ UNCHANGED <<chunk_fn, read, tok, loc, dropped, result, err>>

\* The error is passed on outwards.  A key whose value failed is released, one
\* after which no colon came is not; then the container is.
Cleanup ==
    /\ phase = "cleanup"
    /\ IF frames = <<>> THEN phase' = "done" /\ UNCHANGED <<frames, held, lost>>
       ELSE /\ frames' = Front(frames)
            /\ held' = held - (IF At_("value") /\ Top.key # NULL THEN 2 ELSE 1)
            /\ lost' = lost + (IF At_("colon") THEN 1 ELSE 0)
            /\ UNCHANGED phase
    /\ UNCHANGED <<chunk_fn, read, tok, loc, dropped, result, err>>

Next == NextToken \/ NextChunk \/ Handle \/ Cleanup

Spec == Init /\ [][Next]_vars

\* The reader is one call that waits for nothing but the caller's chunks.
FairSpec == Spec /\ WF_vars(Next)
-----------------------------------------------------------------------------
(* That the lexemes are what the tables say, which the proofs suppose.     *)

\* The current token is of the kind of the lexeme, and stands for its value.
IsTokenOf(t, l) ==
    LET valid == t.type = "STRING" => ValidString(t.text)
    IN  /\ KindOf[l] = (IF valid THEN t.type ELSE "BAD")
        /\ valid /\ t.type \in ScalarKinds => ScalarOf(t) = ValOf[l]

\* The token in the buffer is the lexeme.
IsReadAs(l, s) ==
    LET t == TokenIn[s]
        text == SubSeq(s, 1, t.len)
    IN  /\ t.type # "INVALID"
        /\ t.len = Len(TextOf[l]) /\ text = TextOf[l]
        /\ IsTokenOf([type |-> t.type, text |-> text], l)

\* A lexeme is a token if nothing is cut from it, and no token if it is "BAD";
\* only a string may be one with a wrong escape in it.
LexemesAreRead ==
    \A l \in Lexemes :
        IF KindOf[l] = "BAD" THEN \A s \in Buffers(l) : TokenIn[s].type = "INVALID" \/ IsReadAs(l, s)
        ELSE IsReadAs(l, Whole(l))
-----------------------------------------------------------------------------
Tokens == NonBlank(read)
Stopped == phase = "done"

\* Whatever is read, in whatever chunks: the result is the value the grammar
\* gives to exactly the lexemes that were read, numbers at the limits of their
\* type and escapes in strings included; unless memory ran out, when a part of a
\* string may be missing and no error says so (json.c:167).
ReadsDocument ==
    Stopped /\ result # NULL /\ ~dropped => [text |-> Tokens, val |-> result] \in Documents

\* A text is refused for what it says only when no document begins like it.
RefusalIsJust ==
    Stopped /\ err \in {"token", "parse", "string", "unhashable"} => Tokens \notin Beginnings

\* A token cut by the end of a chunk is reported as such, so that the caller can
\* read on; only in a keyword the error has passed the sentinel already
\* (json_token.c:308) and a valid text is called wrong.
ChunkEndsReported ==
    err = "cut token" => KindOf[Last(read)] \in {"BAD", "NULL", "TRUE", "FALSE"}

\* Each reference of the reader is that of a handler to its container or its
\* key, or the result; when it stops, however deep an error was, nothing else is
\* left but for the key after which no colon came (json.c:62), of which there
\* is at most one.
NothingLeaks ==
    /\ held = Len(frames) + Cardinality({i \in 1..Len(frames) : frames[i].key # NULL})
              + (IF result # NULL THEN 1 ELSE 0) + lost
    /\ lost <= 1

\* A caller may seek to end_location.offset for the next chunk: over all chunks
\* the location is that of the text read so far.
LocationExact ==
    LET text == FlattenSeq([i \in 1..Len(read) |-> TextOf[read[i]]])
        lines == {i \in 1..Len(text) : text[i] = "\n"}
    IN  err \in {"none", "parse", "unhashable", "memory"} =>
            loc = [offset |-> Len(text), line |-> 1 + Cardinality(lines),
                   column |-> 1 + Len(text) - (IF lines = {} THEN 0 ELSE Max(lines))]

\* The reader comes to an end with every text, unless more escapes than fit
\* (linalloc.c:42) or memory it has not got take it outside its memory.
ParseEnds == <>(phase \in {"done", "overrun", "crash"})
=============================================================================
