----------------------------- MODULE JsonProofs ------------------------------
(***************************************************************************)
(* Proofs about Json, for texts of any length and depth, in any chunks:    *)
(* what references the reader holds (JInv), which documents it accepts and *)
(* refuses (ReadInv), and what it tells of places and cuts (ErrInv).       *)
(*                                                                         *)
(* JInv is about the handlers that have not returned: which of them hold a *)
(* key is told by where they are in their loops, and only the innermost can*)
(* be between a key and its colon.                                         *)
(*                                                                         *)
(* ReadInv compares with a grammar without a greatest size (Grammar, of    *)
(* which Derived is the part up to Size): what completes the text read so  *)
(* far to a document is what completes the stack of handlers, each from    *)
(* where it is in its loop (Completes, Follow). A value goes through the   *)
(* stack as it is returned (Given). Where a part of a string was dropped,  *)
(* the handlers have other values than the text says; then there are       *)
(* handlers of the same shape that have read the text.                     *)
(*                                                                         *)
(* ErrInv says where the reader is in the text (TextInv, LocInv) and what  *)
(* it calls a cut token (CutInv). That rests on what the tokenizer makes of*)
(* any buffer in which a token is cut, read byte by byte.                  *)
(*                                                                         *)
(* The last part is about the tokenizer's own functions: integers, encoded *)
(* code points, and the second scan of a string. Where one of them is a    *)
(* recursive function, it is shown that there is one, one argument after   *)
(* the other (StepsExist, RestExists), and that there is no first argument *)
(* at which a claim about it fails (FirstOne).                             *)
(*                                                                         *)
(* That the lexemes are what the tables say (LexemesAreRead) is a          *)
(* hypothesis; MCJson has it evaluated.                                    *)
(***************************************************************************)
EXTENDS Json, FiniteSetTheorems, FunctionTheorems, SequenceTheorems, TLAPS

\* The null pointer is not an object.
NullIsNoValue == \A x, y : NULL # <<x>> /\ NULL # <<x, y>>

Keys(fs) == Cardinality({i \in 1..Len(fs) : fs[i].key # NULL})
Ref(x)   == IF x # NULL THEN 1 ELSE 0

\* The innermost handler goes on as f.
As(fs, f) == [fs EXCEPT ![Len(fs)] = f]

IsSeq(fs)  == \E S : fs \in Seq(S)
IsFrame(f) == /\ DOMAIN f = {"kind", "pos", "val", "key"}
              /\ f.pos \in {"item", "key", "colon", "value", "comma"}

\* A handler that has called another one to read what it is about to store.
Calling(f) == f.pos \in {"item", "key", "value"}

\* A handler holds a key from the end of the key to the end of its value.
HoldsKey(f) == f.key # NULL <=> f.pos \in {"colon", "value"}

FramesInv(fs) == /\ IsSeq(fs)
                 /\ \A i \in 1..Len(fs) : IsFrame(fs[i])
                 /\ \A i \in 1..(Len(fs) - 1) : Calling(fs[i])

Failed == phase \in {"cleanup", "done"}

JInv == /\ FramesInv(frames)
        /\ ~Failed => \A i \in 1..Len(frames) : HoldsKey(frames[i])
        \* Past an error the innermost may have given up the key of an entry.
        /\ Failed => \A i \in 1..Len(frames) :
                        /\ frames[i].key # NULL => frames[i].pos \in {"colon", "value"}
                        /\ frames[i].pos = "colon" => frames[i].key # NULL /\ lost = 0
        /\ lost \in {0, 1} /\ (~Failed => lost = 0)
        /\ result # NULL => phase = "done"
        /\ held = Len(frames) + Keys(frames) + Ref(result) + lost
-----------------------------------------------------------------------------
(* Stacks of handlers, and the keys they hold.                             *)

LEMMA KeysSplit ==
    ASSUME NEW fs, NEW n \in Nat, Len(fs) = n + 1
    PROVE  /\ Cardinality({i \in 1..n : fs[i].key # NULL}) \in Nat
           /\ Keys(fs) = Cardinality({i \in 1..n : fs[i].key # NULL}) + Ref(fs[n + 1].key)
<1> DEFINE A == {i \in 1..n : fs[i].key # NULL}
           B == {i \in 1..(n + 1) : fs[i].key # NULL}
<1>1. IsFiniteSet(A) /\ Cardinality(A) \in Nat
  <2>1. IsFiniteSet(1..n) /\ A \in SUBSET (1..n)
    BY FS_Interval
  <2> HIDE DEF A
  <2> QED BY <2>1, FS_Subset, FS_CardinalityType
<1>2. CASE fs[n + 1].key # NULL
  <2>1. B = A \cup {n + 1} /\ n + 1 \notin A
    BY <1>2
  <2> HIDE DEF A, B
  <2>2. Cardinality(B) = Cardinality(A) + 1
    BY <1>1, <2>1, FS_AddElement
  <2> QED BY <1>1, <1>2, <2>2 DEF Keys, Ref, A, B
<1>3. CASE fs[n + 1].key = NULL
  <2>1. B = A
    BY <1>3
  <2>2. Ref(fs[n + 1].key) = 0
    BY <1>3 DEF Ref
  <2>3. Keys(fs) = Cardinality(A)
    BY <2>1 DEF Keys
  <2> HIDE DEF A
  <2> QED BY <1>1, <2>2, <2>3 DEF A
<1> QED BY <1>2, <1>3

LEMMA KeysEmpty == Keys(<<>>) = 0 /\ Len(<<>>) = 0
<1>1. Len(<<>>) = 0
  OBVIOUS
<1>2. {i \in 1..Len(<<>>) : <<>>[i].key # NULL} = {}
  BY <1>1
<1> QED BY <1>1, <1>2, FS_EmptySet DEF Keys

LEMMA KeysType ==
    ASSUME NEW fs, IsSeq(fs)
    PROVE  Len(fs) \in Nat /\ Keys(fs) \in Nat
<1>1. Len(fs) \in Nat
  BY DEF IsSeq
<1>2. \A n \in Nat : IsFiniteSet(1..n)
  BY FS_Interval
<1>3. IsFiniteSet({i \in 1..Len(fs) : fs[i].key # NULL})
  BY <1>1, <1>2, FS_Subset
<1> QED BY <1>1, <1>3, FS_CardinalityType DEF Keys

\* A handler is called: it holds no key.
LEMMA PushFrame ==
    ASSUME NEW fs, IsSeq(fs), NEW f, f.key = NULL, NEW gs, gs = Append(fs, f)
    PROVE  /\ IsSeq(gs) /\ Len(gs) = Len(fs) + 1
           /\ Keys(gs) = Keys(fs)
<1>1. PICK S : fs \in Seq(S)
  BY DEF IsSeq
<1>2. fs \in Seq(S \cup {f})
  BY <1>1, SeqMonotonic
<1> PICK n \in Nat : n = Len(fs)
  BY <1>1
<1>3. /\ gs \in Seq(S \cup {f}) /\ Len(gs) = n + 1
      /\ \A i \in 1..n : gs[i] = fs[i]
      /\ gs[n + 1] = f
  BY <1>2, AppendProperties
<1>4. {i \in 1..n : gs[i].key # NULL} = {i \in 1..n : fs[i].key # NULL}
  BY <1>3
<1>5. /\ Cardinality({i \in 1..n : gs[i].key # NULL}) \in Nat
      /\ Keys(gs) = Cardinality({i \in 1..n : gs[i].key # NULL}) + Ref(gs[n + 1].key)
  <2>1. Len(gs) = n + 1
    BY <1>3
  <2> QED BY <2>1, KeysSplit
<1>6. Ref(gs[n + 1].key) = 0
  BY <1>3 DEF Ref
<1>7. Keys(fs) = Cardinality({i \in 1..n : fs[i].key # NULL})
  BY DEF Keys
<1>8. Keys(gs) = Keys(fs)
  <2>1. Keys(gs) = Cardinality({i \in 1..n : gs[i].key # NULL})
    <3> DEFINE C == Cardinality({i \in 1..n : gs[i].key # NULL})
               B == Ref(gs[n + 1].key)
    <3> SUFFICES Keys(gs) = C
      OBVIOUS
    <3>1. C \in Nat /\ Keys(gs) = C + B /\ B = 0
      BY <1>5, <1>6
    <3> HIDE DEF C, B
    <3> QED BY <3>1
  <2> QED BY <1>4, <1>7, <2>1
<1> QED BY <1>3, <1>8 DEF IsSeq

\* The innermost handler returns.
LEMMA PopFrame ==
    ASSUME NEW fs, IsSeq(fs), fs # <<>>
    PROVE  /\ IsSeq(Front(fs))
           /\ Len(fs) \in Nat /\ Len(fs) >= 1
           /\ Len(Front(fs)) = Len(fs) - 1
           /\ \A i \in 1..(Len(fs) - 1) : Front(fs)[i] = fs[i]
           /\ Keys(Front(fs)) = Keys(fs) - Ref(Last(fs).key)
           /\ Last(fs) = fs[Len(fs)]
<1>1. PICK S : fs \in Seq(S)
  BY DEF IsSeq
<1>2. Len(fs) \in Nat /\ Len(fs) >= 1
  BY <1>1, EmptySeq
<1> PICK n \in Nat : n + 1 = Len(fs)
  BY <1>2
<1>3. /\ Front(fs) \in Seq(S) /\ Len(Front(fs)) = n
      /\ \A i \in 1..n : Front(fs)[i] = fs[i]
  BY <1>1, <1>2 DEF Front
<1>4. {i \in 1..n : Front(fs)[i].key # NULL} = {i \in 1..n : fs[i].key # NULL}
  BY <1>3
<1>5. /\ Cardinality({i \in 1..n : fs[i].key # NULL}) \in Nat
      /\ Keys(fs) = Cardinality({i \in 1..n : fs[i].key # NULL}) + Ref(fs[n + 1].key)
  BY KeysSplit
<1>6. Keys(Front(fs)) = Cardinality({i \in 1..n : fs[i].key # NULL})
  BY <1>3, <1>4 DEF Keys
<1>7. Last(fs) = fs[n + 1]
  BY DEF Last
<1>8. Keys(Front(fs)) = Keys(fs) - Ref(Last(fs).key)
  BY <1>5, <1>6, <1>7 DEF Ref
<1> QED BY <1>2, <1>3, <1>7, <1>8 DEF IsSeq

\* The innermost handler goes on.
LEMMA SetFrame ==
    ASSUME NEW fs, IsSeq(fs), fs # <<>>, NEW f, NEW gs, gs = As(fs, f)
    PROVE  /\ IsSeq(gs) /\ Len(gs) = Len(fs)
           /\ Keys(gs) = Keys(fs) - Ref(Last(fs).key) + Ref(f.key)
<1>1. PICK S : fs \in Seq(S)
  BY DEF IsSeq
<1>2. fs \in Seq(S \cup {f}) /\ Len(fs) \in Nat /\ Len(fs) >= 1
  BY <1>1, EmptySeq, SeqMonotonic
<1> PICK n \in Nat : n + 1 = Len(fs)
  BY <1>2
<1>3. /\ gs \in Seq(S \cup {f}) /\ Len(gs) = n + 1
      /\ \A i \in 1..n : gs[i] = fs[i]
      /\ gs[n + 1] = f
  BY <1>2, ExceptSeq DEF As
<1>4. {i \in 1..n : gs[i].key # NULL} = {i \in 1..n : fs[i].key # NULL}
  BY <1>3
<1>5. /\ Cardinality({i \in 1..n : fs[i].key # NULL}) \in Nat
      /\ Keys(fs) = Cardinality({i \in 1..n : fs[i].key # NULL}) + Ref(fs[n + 1].key)
  BY KeysSplit
<1>6. Keys(gs) = Cardinality({i \in 1..n : fs[i].key # NULL}) + Ref(f.key)
  <2>1. Keys(gs) = Cardinality({i \in 1..n : gs[i].key # NULL}) + Ref(gs[n + 1].key)
    BY <1>3, KeysSplit
  <2> QED BY <1>3, <1>4, <2>1
<1>7. Last(fs) = fs[n + 1]
  BY DEF Last
<1>8. Keys(gs) = Keys(fs) - Ref(Last(fs).key) + Ref(f.key)
  BY <1>5, <1>6, <1>7 DEF Ref
<1> QED BY <1>3, <1>8 DEF IsSeq
-----------------------------------------------------------------------------
(* The steps of the reader.                                                *)

\* A value is never the null pointer.
LEMMA ScalarIsValue ==
    ASSUME NullIsNoValue, NEW t, t.type \in ScalarKinds
    PROVE  ScalarOf(t) # NULL
BY DEF NullIsNoValue, ScalarOf, ScalarKinds

\* The reader goes on, or fails, where it is.
LEMMA SameKeeps ==
    ASSUME JInv, ~Failed, UNCHANGED <<frames, held, lost, result>>
    PROVE  JInv'
<1>1. /\ FramesInv(frames)' /\ result' = NULL /\ lost' = 0
      /\ \A i \in 1..Len(frames') : HoldsKey(frames'[i])
  BY DEF JInv, Failed
<1>2. (Keys(frames)' = Keys(frames)) /\ (Ref(result)' = Ref(result))
  BY DEF Keys, Ref
<1>3. held' = Len(frames') + Keys(frames)' + Ref(result)' + lost'
  BY <1>2 DEF JInv
<1>4. Failed' => \A i \in 1..Len(frames') :
                   /\ frames'[i].key # NULL => frames'[i].pos \in {"colon", "value"}
                   /\ frames'[i].pos = "colon" => frames'[i].key # NULL /\ lost' = 0
  BY <1>1 DEF HoldsKey
<1> QED BY <1>1, <1>3, <1>4 DEF JInv

\* The innermost handler goes on as g, or gives up the key of an entry.
LEMMA SetKeeps ==
    ASSUME NEW fs, FramesInv(fs), fs # <<>>, \A i \in 1..(Len(fs) - 1) : HoldsKey(fs[i]),
           NEW g, IsFrame(g), frames' = As(fs, g),
           HoldsKey(g) \/ (phase' = "cleanup" /\ g.key = NULL /\ g.pos = "value"),
           held' = Len(fs) + Keys(fs) - Ref(Last(fs).key) + Ref(g.key),
           result' = NULL, lost' = 0
    PROVE  JInv'
<1>1. IsSeq(fs) /\ Len(fs) \in Nat /\ Keys(fs) \in Nat /\ Len(fs) >= 1
  BY KeysType, PopFrame DEF FramesInv
<1> PICK gs : gs = frames'
  OBVIOUS
<1>2. /\ IsSeq(gs) /\ Len(gs) = Len(fs)
      /\ \A i \in 1..(Len(fs) - 1) : gs[i] = fs[i]
      /\ gs[Len(fs)] = g
      /\ Keys(gs) = Keys(fs) - Ref(Last(fs).key) + Ref(g.key)
  <2>1. gs = As(fs, g)
    OBVIOUS
  <2>2. IsSeq(gs) /\ Len(gs) = Len(fs)
    BY <1>1, <2>1, SetFrame
  <2>3. gs[Len(fs)] = g /\ \A i \in 1..(Len(fs) - 1) : gs[i] = fs[i]
    <3>1. PICK S : fs \in Seq(S)
      BY <1>1 DEF IsSeq
    <3>2. fs \in Seq(S \cup {g})
      BY <3>1, SeqMonotonic
    <3> QED BY <1>1, <2>1, <3>2, ExceptSeq DEF As
  <2>5. Keys(gs) = Keys(fs) - Ref(Last(fs).key) + Ref(g.key)
    BY <1>1, <2>1, SetFrame
  <2> QED BY <2>2, <2>3, <2>5
<1>3. FramesInv(gs)
  BY <1>1, <1>2 DEF FramesInv
<1>4. \A i \in 1..Len(gs) : HoldsKey(gs[i]) \/ (gs[i] = g /\ ~HoldsKey(g))
  <2>1. \A i \in 1..Len(gs) : i = Len(fs) \/ i \in 1..(Len(fs) - 1)
    <3>1. Len(gs) = Len(fs) /\ Len(fs) \in Nat
      BY <1>1, <1>2
    <3> QED BY ONLY <3>1
  <2>2. \A i \in 1..(Len(fs) - 1) : HoldsKey(gs[i])
    BY <1>2
  <2>3. gs[Len(fs)] = g
    BY <1>2
  <2> HIDE DEF HoldsKey
  <2> QED BY ONLY <2>1, <2>2, <2>3
<1>5. Keys(frames)' = Keys(gs) /\ Len(frames') = Len(gs) /\ Ref(result)' = 0
  BY DEF Keys, Ref
<1>6. held' = Len(frames') + Keys(frames)' + Ref(result)' + lost'
  <2>1. Ref(Last(fs).key) \in Nat /\ Ref(g.key) \in Nat
    BY DEF Ref
  <2>2. Keys(frames)' = Keys(fs) - Ref(Last(fs).key) + Ref(g.key)
    BY <1>2, <1>5
  <2>3. Len(frames') = Len(fs)
    BY <1>2, <1>5
  <2> QED BY <1>1, <1>5, <2>1, <2>2, <2>3
<1>7. ~Failed' => \A i \in 1..Len(gs) : HoldsKey(gs[i])
  BY <1>4 DEF Failed
<1>8. \A i \in 1..Len(gs) :
        /\ gs[i].key # NULL => gs[i].pos \in {"colon", "value"}
        /\ gs[i].pos = "colon" => gs[i].key # NULL
  BY <1>4 DEF HoldsKey
<1> HIDE DEF Failed
<1> QED BY <1>3, <1>6, <1>7, <1>8 DEF JInv

\* A value is delivered to handlers that all wait for one: h counts it too.
LEMMA DeliverKeeps ==
    ASSUME NEW fs, NEW h, NEW v, v # NULL,
           FramesInv(fs), \A i \in 1..Len(fs) : Calling(fs[i]) /\ HoldsKey(fs[i]),
           h = Len(fs) + Keys(fs) + 1, result = NULL, lost = 0, lost' = lost,
           Deliver(fs, h, v)
    PROVE  JInv'
<1>1. IsSeq(fs) /\ Len(fs) \in Nat /\ Keys(fs) \in Nat
  BY KeysType DEF FramesInv
<1>2. CASE fs = <<>>
  <2>1. /\ frames' = <<>> /\ held' = h /\ result' = v /\ phase' = "done"
    BY <1>2 DEF Deliver
  <2>2. Len(frames') = 0 /\ Keys(frames)' = 0 /\ Len(fs) = 0 /\ Keys(fs) = 0
    <3>1. Len(frames') = 0 /\ Len(fs) = 0 /\ Keys(fs) = 0
      BY <1>2, <2>1, KeysEmpty
    <3>2. Keys(frames)' = Keys(fs)
      BY <1>2, <2>1 DEF Keys
    <3> QED BY <3>1, <3>2
  <2>3. FramesInv(frames)'
    BY <1>1, <1>2, <2>1, <2>2 DEF FramesInv, IsSeq
  <2>4. Ref(result)' = 1
    BY <2>1 DEF Ref
  <2> QED BY <2>1, <2>2, <2>3, <2>4 DEF JInv, Failed
<1>3. CASE fs # <<>>
  <2> PICK n \in Nat : n + 1 = Len(fs)
    BY <1>1, <1>3, PopFrame
  <2> PICK f : f = Last(fs) /\ f = fs[n + 1]
    BY <1>1, <1>3, PopFrame
  <2>1. IsFrame(f) /\ Calling(f) /\ HoldsKey(f)
    BY DEF FramesInv
  <2>2. \A i \in 1..(Len(fs) - 1) : HoldsKey(fs[i])
    BY <1>1
  <2>3. CASE f.pos = "value" /\ ~IsHashable(f.key)
    <3> PICK g : g = [f EXCEPT !.key = NULL]
      OBVIOUS
    <3>1. /\ frames' = As(fs, g) /\ phase' = "cleanup"
          /\ held' = h - 2 /\ result' = result
      BY <1>3, <2>3 DEF Deliver, Raise, As
    <3>2. IsFrame(g) /\ g.key = NULL /\ g.pos = "value"
      BY <2>1, <2>3 DEF IsFrame
    <3>3. Ref(Last(fs).key) = 1 /\ Ref(g.key) = 0
      BY <2>1, <2>3, <3>2 DEF HoldsKey, Ref
    <3>4. held' = Len(fs) + Keys(fs) - Ref(Last(fs).key) + Ref(g.key)
      BY <1>1, <3>1, <3>3
    <3> QED BY <1>3, <2>2, <3>1, <3>2, <3>4, SetKeeps
  <2>4. CASE ~(f.pos = "value" /\ ~IsHashable(f.key))
    <3> PICK g : g = CASE f.pos = "item"  -> [f EXCEPT !.val = Append(@, v), !.pos = "comma"]
                       [] f.pos = "key"   -> [f EXCEPT !.key = v, !.pos = "colon"]
                       [] f.pos = "value" -> [f EXCEPT !.val = Put(@, f.key, v),
                                                       !.key = NULL, !.pos = "comma"]
      OBVIOUS
    <3>1. /\ frames' = As(fs, g) /\ phase' = "next" /\ result' = result
          /\ held' = h - (IF f.pos = "item" THEN 1 ELSE IF f.pos = "value" THEN 2 ELSE 0)
      BY <1>3, <2>4 DEF Deliver, As
    <3>2. CASE f.pos = "item"
      <4>1. g = [f EXCEPT !.val = Append(@, v), !.pos = "comma"]
        BY <3>2
      <4>2. IsFrame(g) /\ g.key = f.key /\ g.pos = "comma"
        BY <2>1, <4>1 DEF IsFrame
      <4>3. f.key = NULL /\ HoldsKey(g)
        BY <2>1, <3>2, <4>2 DEF HoldsKey
      <4>4. Ref(Last(fs).key) = 0 /\ Ref(g.key) = 0
        BY <4>2, <4>3 DEF Ref
      <4>5. held' = Len(fs) + Keys(fs) - Ref(Last(fs).key) + Ref(g.key)
        BY <1>1, <3>1, <3>2, <4>4
      <4> QED BY <1>3, <2>2, <3>1, <4>2, <4>3, <4>5, SetKeeps
    <3>3. CASE f.pos = "key"
      <4>1. g = [f EXCEPT !.key = v, !.pos = "colon"]
        BY <3>3
      <4>2. IsFrame(g) /\ g.key = v /\ g.pos = "colon"
        BY <2>1, <4>1 DEF IsFrame
      <4>3. f.key = NULL /\ HoldsKey(g)
        BY <2>1, <3>3, <4>2 DEF HoldsKey
      <4>4. Ref(Last(fs).key) = 0 /\ Ref(g.key) = 1
        BY <4>2, <4>3 DEF Ref
      <4>5. held' = Len(fs) + Keys(fs) - Ref(Last(fs).key) + Ref(g.key)
        BY <1>1, <3>1, <3>3, <4>4
      <4> QED BY <1>3, <2>2, <3>1, <4>2, <4>3, <4>5, SetKeeps
    <3>4. CASE f.pos = "value"
      <4>1. g = [f EXCEPT !.val = Put(@, f.key, v), !.key = NULL, !.pos = "comma"]
        BY <3>4
      <4>2. IsFrame(g) /\ g.key = NULL /\ g.pos = "comma"
        BY <2>1, <4>1 DEF IsFrame
      <4>3. f.key # NULL /\ HoldsKey(g)
        BY <2>1, <3>4, <4>2 DEF HoldsKey
      <4>4. Ref(Last(fs).key) = 1 /\ Ref(g.key) = 0
        BY <4>2, <4>3 DEF Ref
      <4>5. held' = Len(fs) + Keys(fs) - Ref(Last(fs).key) + Ref(g.key)
        BY <1>1, <3>1, <3>4, <4>4
      <4> QED BY <1>3, <2>2, <3>1, <4>2, <4>3, <4>5, SetKeeps
    <3> QED BY <2>1, <3>2, <3>3, <3>4 DEF Calling
  <2> QED BY <2>3, <2>4
<1> QED BY <1>2, <1>3

\* The value is delivered, or cannot be stored.
LEMMA ReturnKeeps ==
    ASSUME NEW fs, NEW h, NEW v, v # NULL, JInv, ~Failed,
           FramesInv(fs), \A i \in 1..Len(fs) : Calling(fs[i]) /\ HoldsKey(fs[i]),
           h = Len(fs) + Keys(fs) + 1, lost' = lost, Return(fs, h, v)
    PROVE  JInv'
<1>1. result = NULL /\ lost = 0
  BY DEF JInv, Failed
<1>2. CASE Deliver(fs, h, v)
  BY <1>1, <1>2, DeliverKeeps
<1>3. CASE frames' = fs /\ held' = h - 1 /\ result' = result /\ phase' = "cleanup"
  <2>1. Len(fs) \in Nat /\ Keys(fs) \in Nat /\ Keys(frames)' = Keys(fs) /\ Ref(result)' = 0
    BY <1>1, <1>3, KeysType DEF FramesInv, Keys, Ref
  <2>2. held' = Len(frames') + Keys(frames)' + Ref(result)' + lost'
    BY <1>1, <1>3, <2>1
  <2>3. \A i \in 1..Len(frames') :
          /\ frames'[i].key # NULL => frames'[i].pos \in {"colon", "value"}
          /\ frames'[i].pos = "colon" => frames'[i].key # NULL /\ lost' = 0
    BY <1>1, <1>3 DEF HoldsKey
  <2>4. /\ FramesInv(frames)' /\ result' = NULL /\ lost' = 0
        /\ \A i \in 1..Len(frames') : HoldsKey(frames'[i])
    BY <1>1, <1>3
  <2> QED BY <2>2, <2>3, <2>4 DEF JInv
<1>4. CASE Crash
  BY <1>4, SameKeeps DEF Crash
<1>5. Deliver(fs, h, v) \/ Crash
      \/ (frames' = fs /\ held' = h - 1 /\ result' = result /\ phase' = "cleanup")
  BY DEF Return, StoreFails, Raise
<1> QED BY <1>2, <1>3, <1>4, <1>5

LEMMA InitKeeps == Init => JInv
<1> SUFFICES ASSUME Init PROVE JInv
  OBVIOUS
<1>1. Len(frames) = 0 /\ Keys(frames) = 0 /\ Ref(result) = 0
  BY KeysEmpty DEF Init, Ref
<1>2. FramesInv(frames)
  BY <1>1 DEF Init, FramesInv, IsSeq
<1> QED BY <1>1, <1>2 DEF Init, JInv, Failed

LEMMA ReturnTop ==
    ASSUME NullIsNoValue, JInv, phase = "handle", NEW v, v # NULL, lost' = lost,
           MayBeValue, Return(frames, held + 1, v)
    PROVE  JInv'
<1>1. /\ FramesInv(frames) /\ lost = 0 /\ result = NULL
      /\ \A i \in 1..Len(frames) : HoldsKey(frames[i])
      /\ held = Len(frames) + Keys(frames) + Ref(result) + lost
  BY DEF JInv, Failed
<1>2. \A i \in 1..Len(frames) : Calling(frames[i])
  <2>1. CASE frames = <<>>
    BY <2>1, KeysEmpty
  <2>2. CASE frames # <<>>
    <3>1. Last(frames) = frames[Len(frames)] /\ Len(frames) \in Nat /\ Len(frames) >= 1
      BY <1>1, <2>2, PopFrame DEF FramesInv
    <3>2. Calling(frames[Len(frames)])
      BY <1>1, <2>2, <3>1 DEF MayBeValue, At_, Top, FramesInv, IsFrame, Calling
    <3> QED BY <1>1, <3>1, <3>2 DEF FramesInv
  <2> QED BY <2>1, <2>2
<1>3. Len(frames) \in Nat /\ Keys(frames) \in Nat /\ Ref(result) = 0
  BY <1>1, KeysType DEF FramesInv, Ref
<1>4. held + 1 = Len(frames) + Keys(frames) + 1
  BY <1>1, <1>3
<1>5. ~Failed
  BY DEF Failed
<1> QED BY <1>1, <1>2, <1>4, <1>5, ReturnKeeps

\* A handler is called for a container.
LEMMA PushKeeps ==
    ASSUME JInv, phase = "handle", MayBeValue, NEW f, IsFrame(f), f.key = NULL,
           f.pos \in {"item", "key"}, frames' = Append(frames, f), held' = held + 1,
           phase' = "next", result' = result, lost' = lost
    PROVE  JInv'
<1>1. /\ FramesInv(frames) /\ lost = 0 /\ result = NULL
      /\ \A i \in 1..Len(frames) : HoldsKey(frames[i])
      /\ held = Len(frames) + Keys(frames) + Ref(result) + lost
  BY DEF JInv, Failed
<1>2. Len(frames) \in Nat /\ Keys(frames) \in Nat /\ Ref(result) = 0 /\ Ref(result)' = 0
  BY <1>1, KeysType DEF FramesInv, Ref
<1>3. \A i \in 1..Len(frames) : Calling(frames[i])
  <2>1. CASE frames = <<>>
    BY <2>1, KeysEmpty
  <2>2. CASE frames # <<>>
    <3>1. Last(frames) = frames[Len(frames)] /\ Len(frames) >= 1
      BY <1>1, <2>2, PopFrame DEF FramesInv
    <3>2. Calling(frames[Len(frames)])
      BY <1>1, <1>2, <2>2, <3>1 DEF MayBeValue, At_, Top, FramesInv, IsFrame, Calling
    <3> QED BY <1>1, <1>2, <3>1, <3>2 DEF FramesInv
  <2> QED BY <2>1, <2>2
<1> PICK gs : gs = frames'
  OBVIOUS
<1>4. /\ IsSeq(gs) /\ Len(gs) = Len(frames) + 1
      /\ \A i \in 1..Len(frames) : gs[i] = frames[i]
      /\ gs[Len(frames) + 1] = f
      /\ Keys(gs) = Keys(frames)
  <2>1. IsSeq(frames) /\ gs = Append(frames, f)
    BY <1>1 DEF FramesInv
  <2>2. IsSeq(gs) /\ Len(gs) = Len(frames) + 1
    BY <2>1, PushFrame
  <2>3. Keys(gs) = Keys(frames)
    BY <2>1, PushFrame
  <2>4. /\ \A i \in 1..Len(frames) : gs[i] = frames[i]
        /\ gs[Len(frames) + 1] = f
    <3>1. PICK S : frames \in Seq(S)
      BY <2>1 DEF IsSeq
    <3>2. frames \in Seq(S \cup {f})
      BY <3>1, SeqMonotonic
    <3> QED BY <2>1, <3>2, AppendProperties
  <2> QED BY <2>2, <2>3, <2>4
<1>5. HoldsKey(f)
  BY DEF HoldsKey
<1>6. \A i \in 1..Len(gs) : i \in 1..Len(frames) \/ i = Len(frames) + 1
  BY <1>2, <1>4
<1>7. FramesInv(gs) /\ \A i \in 1..Len(gs) : HoldsKey(gs[i])
  <2>1. \A i \in 1..Len(gs) : IsFrame(gs[i]) /\ HoldsKey(gs[i])
    <3> HIDE DEF IsFrame, HoldsKey
    <3> QED BY <1>1, <1>4, <1>5, <1>6 DEF FramesInv
  <2>2. \A i \in 1..(Len(gs) - 1) : Calling(gs[i])
    BY <1>2, <1>3, <1>4
  <2> QED BY <1>4, <2>1, <2>2 DEF FramesInv
<1>8. Keys(frames)' = Keys(gs)
  BY DEF Keys
<1>9. held' = Len(frames') + Keys(frames)' + Ref(result)' + lost'
  BY <1>1, <1>2, <1>4, <1>8
<1> QED BY <1>1, <1>7, <1>9 DEF JInv, Failed

LEMMA ReadValueKeeps ==
    ASSUME NullIsNoValue, JInv, phase = "handle", lost' = lost, MayBeValue, ReadValue
    PROVE  JInv'
<1>1. CASE tok.type = "BRACE_OPEN"
  <2>1. /\ frames' = Append(frames, OpenObject) /\ held' = held + 1
        /\ phase' = "next" /\ result' = result
    BY <1>1 DEF ReadValue, ScalarKinds
  <2>2. IsFrame(OpenObject) /\ OpenObject.key = NULL /\ OpenObject.pos = "key"
    BY DEF IsFrame, OpenObject
  <2> QED BY <2>1, <2>2, PushKeeps
<1>2. CASE tok.type = "BRACKET_OPEN"
  <2>1. /\ frames' = Append(frames, OpenArray) /\ held' = held + 1
        /\ phase' = "next" /\ result' = result
    BY <1>2 DEF ReadValue, ScalarKinds
  <2>2. IsFrame(OpenArray) /\ OpenArray.key = NULL /\ OpenArray.pos = "item"
    BY DEF IsFrame, OpenArray
  <2> QED BY <2>1, <2>2, PushKeeps
<1>3. CASE /\ tok.type \in ScalarKinds
           /\ Return(frames, held + 1, ScalarOf(tok))
  BY <1>3, ScalarIsValue, ReturnTop
<1>4. CASE UNCHANGED <<frames, held, result>>
  BY <1>4, SameKeeps DEF Failed
<1>5. tok.type \in {"BRACE_OPEN", "BRACKET_OPEN"}
      \/ (tok.type \in ScalarKinds /\ Return(frames, held + 1, ScalarOf(tok)))
      \/ UNCHANGED <<frames, held, result>>
  <2>1. CASE tok.type = "STRING"
    BY <2>1 DEF ReadValue
  <2>2. CASE tok.type \in ScalarKinds \ {"STRING"}
    BY <2>2 DEF ReadValue, ScalarKinds
  <2>3. CASE tok.type \notin ScalarKinds \cup {"BRACE_OPEN", "BRACKET_OPEN"}
    BY <2>3 DEF ReadValue, ScalarKinds
  <2> QED BY <2>1, <2>2, <2>3
<1> QED BY <1>1, <1>2, <1>3, <1>4, <1>5

\* The innermost handler, which holds no key, returns its container.
LEMMA CloseKeeps ==
    ASSUME NullIsNoValue, JInv, phase = "handle", lost' = lost, frames # <<>>,
           Top.key = NULL, CloseContainer
    PROVE  JInv'
<1>1. /\ FramesInv(frames) /\ lost = 0 /\ result = NULL
      /\ \A i \in 1..Len(frames) : HoldsKey(frames[i])
      /\ held = Len(frames) + Keys(frames) + Ref(result) + lost
  BY DEF JInv, Failed
<1> PICK fs : fs = Front(frames)
  OBVIOUS
<1>2. /\ IsSeq(fs) /\ Len(frames) \in Nat /\ Len(frames) >= 1
      /\ Len(fs) = Len(frames) - 1
      /\ \A i \in 1..(Len(frames) - 1) : fs[i] = frames[i]
      /\ Keys(fs) = Keys(frames) - Ref(Last(frames).key)
  BY <1>1, PopFrame DEF FramesInv
<1>3. Ref(Last(frames).key) = 0 /\ Ref(result) = 0
  BY <1>1 DEF Top, Ref
<1>4. Keys(frames) \in Nat
  BY <1>1, KeysType DEF FramesInv
<1>5. held = Len(fs) + Keys(fs) + 1
  BY <1>1, <1>2, <1>3, <1>4
<1>6. FramesInv(fs) /\ \A i \in 1..Len(fs) : Calling(fs[i]) /\ HoldsKey(fs[i])
  BY <1>1, <1>2 DEF FramesInv
<1> PICK v : v = <<IF Top.kind = "ARRAY" THEN "list" ELSE "dict", Top.val>>
  OBVIOUS
<1>7. v # NULL /\ Return(fs, held, v)
  BY DEF NullIsNoValue, CloseContainer
<1>8. ~Failed
  BY DEF Failed
<1> QED BY <1>1, <1>5, <1>6, <1>7, <1>8, ReturnKeeps

\* A handler moves on in its loop without taking or giving a reference.
LEMMA MoveKeeps ==
    ASSUME JInv, phase = "handle", lost' = lost, frames # <<>>, NEW pos,
           pos \in {"item", "key", "value", "comma"},
           pos = "value" <=> Top.key # NULL,
           frames' = ToPos(pos), phase' = "next", UNCHANGED <<held, result>>
    PROVE  JInv'
<1>1. /\ FramesInv(frames) /\ lost = 0 /\ result = NULL
      /\ \A i \in 1..Len(frames) : HoldsKey(frames[i])
      /\ held = Len(frames) + Keys(frames) + Ref(result) + lost
  BY DEF JInv, Failed
<1>2. /\ Last(frames) = frames[Len(frames)] /\ Len(frames) \in Nat /\ Len(frames) >= 1
      /\ Keys(frames) \in Nat
  BY <1>1, PopFrame, KeysType DEF FramesInv
<1> PICK f : f = frames[Len(frames)]
  OBVIOUS
<1> PICK g : g = [f EXCEPT !.pos = pos]
  OBVIOUS
<1>3. IsFrame(f)
  BY <1>1, <1>2 DEF FramesInv
<1>4. IsFrame(g) /\ g.key = f.key /\ g.pos = pos
  BY <1>3 DEF IsFrame
<1>5. HoldsKey(g)
  BY <1>2, <1>4 DEF HoldsKey, Top
<1>6. frames' = As(frames, g)
  BY DEF ToPos, As
<1>7. held' = Len(frames) + Keys(frames) - Ref(Last(frames).key) + Ref(g.key)
  <2>1. Ref(g.key) = Ref(Last(frames).key) /\ Ref(g.key) \in Nat /\ Ref(result) = 0
    BY <1>1, <1>2, <1>4 DEF Ref
  <2> QED BY <1>1, <1>2, <2>1
<1>8. \A i \in 1..(Len(frames) - 1) : HoldsKey(frames[i])
  BY <1>1, <1>2
<1> QED BY <1>1, <1>4, <1>5, <1>6, <1>7, <1>8, SetKeeps

LEMMA HandleKeeps ==
    ASSUME NullIsNoValue, JInv, Handle
    PROVE  JInv'
<1>1. phase = "handle" /\ lost' = lost /\ ~Failed
  BY DEF Handle, Failed
<1>2. ASSUME frames # <<>>
      PROVE  IsFrame(Top) /\ HoldsKey(Top)
  <2>1. IsSeq(frames)
    BY DEF JInv, FramesInv
  <2>2. Top = frames[Len(frames)] /\ Len(frames) \in Nat /\ Len(frames) >= 1
    BY <1>2, <2>1, PopFrame DEF Top
  <2> QED BY <1>1, <2>2 DEF JInv, FramesInv
<1>3. CASE HandleFirst
  <2>1. frames # <<>> /\ Top.pos \in {"key", "item"}
    BY <1>3 DEF HandleFirst
  <2>2. Top.key = NULL /\ MayBeValue
    BY <1>2, <2>1 DEF HoldsKey, MayBeValue, At_
  <2>3. CloseContainer \/ ReadValue
    BY <1>3 DEF HandleFirst
  <2> QED BY <1>1, <2>1, <2>2, <2>3, CloseKeeps, ReadValueKeeps
<1>4. CASE HandleColon
  <2>1. frames # <<>> /\ Top.pos = "colon" /\ UNCHANGED <<held, result>>
    BY <1>4 DEF HandleColon, At_
  <2>2. Top.key # NULL
    BY <1>2, <2>1 DEF HoldsKey
  <2>3. (frames' = ToPos("value") /\ phase' = "next") \/ UNCHANGED frames
    BY <1>4 DEF HandleColon
  <2> QED BY <1>1, <2>1, <2>2, <2>3, MoveKeeps, SameKeeps
<1>5. CASE HandleComma
  <2>1. frames # <<>> /\ Top.pos = "comma"
    BY <1>5 DEF HandleComma, At_
  <2>2. Top.key = NULL
    BY <1>2, <2>1 DEF HoldsKey
  <2>3. CASE CloseContainer
    BY <1>1, <2>1, <2>2, <2>3, CloseKeeps
  <2>4. CASE /\ \/ frames' = ToPos(IF Top.kind = "ARRAY" THEN "item" ELSE "key") /\ phase' = "next"
                \/ UNCHANGED frames
             /\ UNCHANGED <<held, result>>
    <3> PICK pos : pos = IF Top.kind = "ARRAY" THEN "item" ELSE "key"
      OBVIOUS
    <3>1. pos \in {"item", "key"}
      OBVIOUS
    <3>2. (frames' = ToPos(pos) /\ phase' = "next") \/ UNCHANGED frames
      BY <2>4
    <3> QED BY <1>1, <2>1, <2>2, <2>4, <3>1, <3>2, MoveKeeps, SameKeeps
  <2> QED BY <1>5, <2>3, <2>4 DEF HandleComma
<1>6. CASE (frames = <<>> \/ At_("value")) /\ ReadValue
  <2>1. MayBeValue
    BY <1>6 DEF MayBeValue, At_
  <2> QED BY <1>1, <1>6, <2>1, ReadValueKeeps
<1>7. CASE OutOfMemory
  BY <1>1, <1>7, SameKeeps DEF OutOfMemory, Crash
<1>8. CASE PartDropped
  <2>1. <<"string">> # NULL
    BY DEF NullIsNoValue
  <2> QED BY <1>1, <1>8, <2>1, ReturnTop DEF PartDropped
<1> QED BY <1>3, <1>4, <1>5, <1>6, <1>7, <1>8 DEF Handle

\* The innermost handler passes the error on.
LEMMA CleanupKeeps ==
    ASSUME JInv, Cleanup
    PROVE  JInv'
<1>1. phase = "cleanup" /\ result' = result /\ result = NULL /\ Failed
  BY DEF Cleanup, JInv, Failed
<1>2. CASE frames = <<>>
  <2>1. phase' = "done" /\ UNCHANGED <<frames, held, lost, result>>
    BY <1>2 DEF Cleanup
  <2>2. (Keys(frames)' = Keys(frames)) /\ (Ref(result)' = Ref(result))
    BY <2>1 DEF Keys, Ref
  <2> QED BY <1>1, <2>1, <2>2 DEF JInv, Failed
<1>3. CASE frames # <<>>
  <2> PICK fs : fs = frames'
    OBVIOUS
  <2>1. /\ fs = Front(frames) /\ phase' = phase
        /\ held' = held - (IF At_("value") /\ Top.key # NULL THEN 2 ELSE 1)
        /\ lost' = lost + (IF At_("colon") THEN 1 ELSE 0)
    BY <1>3 DEF Cleanup
  <2>2. FramesInv(frames)
    BY DEF JInv
  <2>3. /\ IsSeq(fs) /\ Len(frames) \in Nat /\ Len(frames) >= 1
        /\ Len(fs) = Len(frames) - 1
        /\ \A i \in 1..(Len(frames) - 1) : fs[i] = frames[i]
        /\ Keys(fs) = Keys(frames) - Ref(Last(frames).key)
        /\ Last(frames) = frames[Len(frames)]
    BY <1>3, <2>1, <2>2, PopFrame DEF FramesInv
  <2>4. Keys(frames) \in Nat /\ Ref(result) = 0 /\ Ref(result)' = 0 /\ Keys(frames)' = Keys(fs)
    BY <1>1, <2>2, KeysType DEF FramesInv, Ref, Keys
  <2>5. /\ Top.key # NULL => Top.pos \in {"colon", "value"}
        /\ Top.pos = "colon" => Top.key # NULL /\ lost = 0
        /\ lost \in {0, 1}
        /\ held = Len(frames) + Keys(frames) + lost
    BY <1>1, <2>3, <2>4 DEF JInv, Top
  <2>6. FramesInv(fs) /\ \A i \in 1..Len(fs) : fs[i].pos # "colon"
    BY <2>2, <2>3 DEF FramesInv, Calling
  <2>7. \A i \in 1..Len(fs) : fs[i].key # NULL => fs[i].pos \in {"colon", "value"}
    BY <1>1, <2>3 DEF JInv
  <2>8. lost' \in {0, 1} /\ held' = Len(fs) + Keys(fs) + lost'
    <3>1. CASE Top.pos = "colon"
      <4>1. Ref(Last(frames).key) = 1 /\ lost' = 1 /\ lost = 0 /\ held' = held - 1
        BY <1>3, <2>1, <2>5, <3>1 DEF Ref, Top, At_
      <4> QED BY <2>3, <2>4, <2>5, <4>1
    <3>2. CASE Top.pos = "value" /\ Top.key # NULL
      <4>1. Ref(Last(frames).key) = 1 /\ lost' = lost /\ held' = held - 2
        BY <1>3, <2>1, <2>5, <3>2 DEF Ref, Top, At_
      <4> QED BY <2>3, <2>4, <2>5, <4>1
    <3>3. CASE Top.pos # "colon" /\ Top.key = NULL
      <4>1. Ref(Last(frames).key) = 0 /\ lost' = lost /\ held' = held - 1
        BY <1>3, <2>1, <2>5, <3>3 DEF Ref, Top, At_
      <4> QED BY <2>3, <2>4, <2>5, <4>1
    <3> QED BY <2>5, <3>1, <3>2, <3>3
  <2>9. FramesInv(frames)' /\ phase' = "cleanup" /\ result' = NULL /\ lost' \in {0, 1}
    BY <1>1, <2>1, <2>6, <2>8
  <2>10. held' = Len(frames') + Keys(frames)' + Ref(result)' + lost'
    <3>1. Len(frames') = Len(fs) /\ Len(fs) \in Nat
      BY <2>3
    <3>2. Keys(fs) \in Nat
      BY <2>3, KeysType
    <3> QED BY <2>4, <2>8, <2>9, <3>1, <3>2
  <2>11. \A i \in 1..Len(frames') :
           /\ frames'[i].key # NULL => frames'[i].pos \in {"colon", "value"}
           /\ frames'[i].pos = "colon" => frames'[i].key # NULL /\ lost' = 0
    BY <2>6, <2>7
  <2> QED BY <2>9, <2>10, <2>11 DEF JInv, Failed
<1> QED BY <1>2, <1>3

LEMMA JInvHolds == ASSUME NullIsNoValue PROVE Spec => []JInv
<1>1. Init => JInv
  BY InitKeeps
<1>2. JInv /\ [Next]_vars => JInv'
  <2> SUFFICES ASSUME JInv, [Next]_vars PROVE JInv'
    OBVIOUS
  <2>1. CASE NextToken
    BY <2>1, SameKeeps DEF NextToken, Failed
  <2>2. CASE NextChunk
    BY <2>2, SameKeeps DEF NextChunk, Failed
  <2>3. CASE Handle
    BY <2>3, HandleKeeps
  <2>4. CASE Cleanup
    BY <2>4, CleanupKeeps
  <2>5. CASE UNCHANGED vars
    <3>1. UNCHANGED <<phase, frames, held, lost, result>>
      BY <2>5 DEF vars
    <3>2. (Keys(frames)' = Keys(frames)) /\ (Ref(result)' = Ref(result))
      BY <3>1 DEF Keys, Ref
    <3> QED BY <3>1, <3>2 DEF JInv, Failed
  <2> QED BY <2>1, <2>2, <2>3, <2>4, <2>5 DEF Next
<1> QED BY <1>1, <1>2, PTL DEF Spec

(***************************************************************************)
(* Whatever is read and wherever an error stops the reader, each reference *)
(* it holds is that of a handler to its container or its key, or the       *)
(* result; after it has passed the error through every handler, one key is *)
(* all that may be left, that of handle_OBJECT after which no colon came   *)
(* (json.c:62).                                                            *)
(***************************************************************************)
THEOREM NothingIsLeaked == ASSUME NullIsNoValue PROVE Spec => []NothingLeaks
<1>1. JInv => NothingLeaks
  <2> SUFFICES ASSUME JInv PROVE NothingLeaks
    OBVIOUS
  <2>1. lost <= 1
    BY DEF JInv
  <2>2. held = Len(frames) + Cardinality({i \in 1..Len(frames) : frames[i].key # NULL})
               + (IF result # NULL THEN 1 ELSE 0) + lost
    BY DEF JInv, Keys, Ref
  <2> QED BY <2>1, <2>2 DEF NothingLeaks
<1> QED BY <1>1, JInvHolds, PTL
LEMMA FirstOne ==
    ASSUME NEW S \in SUBSET Nat, \A n \in S : \E m \in S : m < n
    PROVE  S = {}
<1>1. ASSUME S # {} PROVE FALSE
  <2>1. PICK x \in S : \A y \in S : ~(<<y, x>> \in OpToRel(<, Nat))
    BY <1>1, WFMin, NatLessThanWellFounded
  <2>2. \A y \in S : ~(y < x)
    BY <2>1 DEF OpToRel
  <2> QED BY <2>2
<1> QED BY <1>1
-----------------------------------------------------------------------------
(* The grammar.                                                            *)

Rules(D, n) == IF n = 0 THEN [value |-> {}, items |-> {}, entries |-> {}]
               ELSE [value |-> Values(D, n), items |-> Items(D, n), entries |-> Entries(D, n)]

LEMMA RulesLookBack ==
    ASSUME NEW D, NEW E, NEW n \in Nat,
           \A m \in 0..(n - 1) : D[m] = E[m]
    PROVE  Rules(D, n) = Rules(E, n)
<1>1. CASE n = 0
  BY <1>1 DEF Rules
<1>2. CASE n # 0
  <2>1. D[n - 1] = E[n - 1]
    BY <1>2
  <2>2. Values(D, n) = Values(E, n)
    BY <2>1 DEF Values
  <2>3. ASSUME NEW list, NEW k \in 1..n PROVE Rest(D, list, k) = Rest(E, list, k)
    <3>1. k - 1 \in 0..(n - 1)
      BY <1>2, <2>3
    <3>2. D[k - 1] = E[k - 1]
      BY <3>1
    <3> QED BY <3>2 DEF Rest
  <2>4. Items(D, n) = Items(E, n)
    <3>1. ASSUME NEW k \in 1..(n - 1)
          PROVE  ItemTexts(D[k].value, Rest(D, "items", n - k))
               = ItemTexts(E[k].value, Rest(E, "items", n - k))
      <4>1. D[k] = E[k]
        BY <3>1
      <4>2. n - k \in 1..n
        BY <3>1
      <4>3. Rest(D, "items", n - k) = Rest(E, "items", n - k)
        BY <2>3, <4>2
      <4> QED BY <4>1, <4>3
    <3> QED BY <3>1 DEF Items
  <2>5. Entries(D, n) = Entries(E, n)
    <3>1. ASSUME NEW k \in 1..(n - 3)
          PROVE  EntryTexts(D[k].value, Rest(D, "entries", n - 2 - k))
               = EntryTexts(E[k].value, Rest(E, "entries", n - 2 - k))
      <4>1. D[k] = E[k]
        BY <3>1
      <4>2. n - 2 - k \in 1..n
        BY <3>1
      <4>3. Rest(D, "entries", n - 2 - k) = Rest(E, "entries", n - 2 - k)
        BY <2>3, <4>2
      <4> QED BY <4>1, <4>3
    <3> QED BY <3>1 DEF Entries
  <2> QED BY <1>2, <2>2, <2>4, <2>5 DEF Rules
<1> QED BY <1>1, <1>2

IsGrammar(D, n) == D = [m \in 0..n |-> Rules(D, m)]

LEMMA GrammarsExist == \A n \in Nat : \E D : IsGrammar(D, n)
<1> DEFINE Bad == {n \in Nat : ~ \E D : IsGrammar(D, n)}
<1>1. ASSUME NEW n \in Bad PROVE \E m \in Bad : m < n
  <2>1. CASE n = 0
    <3> DEFINE D == [m \in 0..0 |-> Rules(<<>>, m)]
    <3>1. \A m \in 0..0 : Rules(<<>>, m) = Rules(D, m)
      BY RulesLookBack
    <3>2. D = [m \in 0..0 |-> Rules(D, m)]
      <4> HIDE DEF Rules
      <4> QED BY <3>1
    <3>3. IsGrammar(D, 0)
      BY <3>2 DEF IsGrammar
    <3> QED BY <2>1, <3>3
  <2>2. CASE n # 0 /\ n - 1 \notin Bad
    <3>1. n - 1 \in Nat
      BY <2>2
    <3>2. PICK E : IsGrammar(E, n - 1)
      BY <2>2, <3>1
    <3> DEFINE D == [m \in 0..n |-> IF m = n THEN Rules(E, n) ELSE E[m]]
    <3>3. \A m \in 0..(n - 1) : D[m] = E[m] /\ m \in 0..n
      BY <3>1
    <3>4. ASSUME NEW m \in 0..n PROVE D[m] = Rules(D, m)
      <4>1. \A k \in 0..(m - 1) : E[k] = D[k]
        BY <3>3
      <4>2. Rules(E, m) = Rules(D, m)
        <5> HIDE DEF D
        <5> QED BY <4>1, RulesLookBack
      <4>3. CASE m = n
        BY <4>2, <4>3
      <4>4. CASE m # n
        <5>1. m \in 0..(n - 1)
          BY <4>4
        <5>2. E[m] = Rules(E, m)
          <6>1. E = [j \in 0..(n - 1) |-> Rules(E, j)]
            BY <3>2 DEF IsGrammar
          <6> HIDE DEF Rules
          <6> QED BY <5>1, <6>1
        <5> QED BY <3>3, <4>2, <5>1, <5>2
      <4> QED BY <4>3, <4>4
    <3>5. D = [m \in 0..n |-> D[m]]
      OBVIOUS
    <3>6. IsGrammar(D, n)
      <4> HIDE DEF D, Rules
      <4> QED BY <3>4, <3>5 DEF IsGrammar
    <3> QED BY <3>6
  <2>3. CASE n # 0 /\ n - 1 \in Bad
    BY <2>3
  <2> QED BY <2>1, <2>2, <2>3
<1> HIDE DEF Bad
<1>2. Bad \in SUBSET Nat
  BY DEF Bad
<1>3. Bad = {}
  BY <1>1, <1>2, FirstOne
<1> QED BY <1>3 DEF Bad

LEMMA DerivedIsGrammar == IsGrammar(Derived, Size)
<1>1. \E D : D = [n \in 0..Size |-> IF n = 0 THEN [value |-> {}, items |-> {}, entries |-> {}]
                                    ELSE [value   |-> Values(D, n),
                                          items   |-> Items(D, n),
                                          entries |-> Entries(D, n)]]
  BY GrammarsExist, GrammarAssumption DEF IsGrammar, Rules
<1> HIDE DEF Values, Items, Entries
<1> QED BY <1>1 DEF Derived, IsGrammar, Rules

\* Up to n lexemes, D follows the rules.
Obeys(D, n) == \A m \in 0..n : D[m] = Rules(D, m)

LEMMA GrammarObeys ==
    ASSUME NEW D, NEW n \in Nat, IsGrammar(D, n)
    PROVE  Obeys(D, n)
<1> HIDE DEF Rules
<1>1. D = [m \in 0..n |-> Rules(D, m)]
  BY DEF IsGrammar
<1> QED BY <1>1 DEF Obeys

\* Only one grammar does.
LEMMA GrammarsAgree ==
    ASSUME NEW D, NEW E, NEW n \in Nat, Obeys(D, n), Obeys(E, n)
    PROVE  \A m \in 0..n : D[m] = E[m]
<1> DEFINE Bad == {m \in 0..n : D[m] # E[m]}
<1>1. ASSUME NEW m \in Bad PROVE \E k \in Bad : k < m
  <2>1. m \in 0..n /\ m \in Nat /\ D[m] = Rules(D, m) /\ E[m] = Rules(E, m)
    BY DEF Obeys
  <2>2. ~(\A k \in 0..(m - 1) : D[k] = E[k])
    BY <1>1, <2>1, RulesLookBack
  <2> QED BY <2>1, <2>2
<1> HIDE DEF Bad
<1>2. Bad \in SUBSET Nat
  BY DEF Bad
<1>3. Bad = {}
  BY <1>1, <1>2, FirstOne
<1> QED BY <1>3 DEF Bad

\* The rules for texts of any number of lexemes.
Grammar == CHOOSE D : D = [n \in Nat |-> Rules(D, n)]

LEMMA GrammarRules == \A n \in Nat : Grammar[n] = Rules(Grammar, n)
<1> DEFINE Of(n) == CHOOSE D : IsGrammar(D, n)
           G == [n \in Nat |-> Of(n)[n]]
<1>1. ASSUME NEW n \in Nat PROVE Obeys(Of(n), n)
  BY GrammarsExist, GrammarObeys
<1>2. ASSUME NEW n \in Nat, NEW m \in 0..n PROVE Of(m)[m] = Of(n)[m]
  <2>1. Obeys(Of(m), m) /\ m \in Nat
    BY <1>1
  <2>2. Obeys(Of(n), m)
    BY <1>1 DEF Obeys
  <2> HIDE DEF Of
  <2> QED BY <2>1, <2>2, GrammarsAgree
<1>3. ASSUME NEW n \in Nat PROVE G[n] = Rules(G, n)
  <2>1. \A m \in 0..(n - 1) : Of(n)[m] = G[m]
    <3> HIDE DEF Of
    <3>1. \A m \in 0..(n - 1) : m \in Nat /\ m \in 0..n
      OBVIOUS
    <3> QED BY <1>2, <3>1
  <2>2. Rules(Of(n), n) = Rules(G, n)
    <3> HIDE DEF G, Of
    <3> QED BY <2>1, RulesLookBack
  <2>3. Of(n)[n] = Rules(Of(n), n)
    BY <1>1 DEF Obeys
  <2> HIDE DEF Rules, Of
  <2> QED BY <2>2, <2>3
<1>4. G = [n \in Nat |-> Rules(G, n)]
  <2>1. G = [n \in Nat |-> G[n]]
    OBVIOUS
  <2> HIDE DEF G, Rules
  <2> QED BY <1>3, <2>1
<1> HIDE DEF G, Rules
<1>5. Grammar = [n \in Nat |-> Rules(Grammar, n)]
  BY <1>4 DEF Grammar
<1> QED BY <1>5

\* The documents that Size bounds are among them.
LEMMA DerivedIs == \A n \in 0..Size : Derived[n] = Grammar[n]
<1>1. Size \in Nat
  BY GrammarAssumption
<1>2. Obeys(Derived, Size)
  BY <1>1, DerivedIsGrammar, GrammarObeys
<1>3. Obeys(Grammar, Size)
  BY <1>1, GrammarRules DEF Obeys
<1> QED BY <1>1, <1>2, <1>3, GrammarsAgree
-----------------------------------------------------------------------------
(* The texts of the grammar: the shape of their lexemes and values.        *)

LEMMA TheIs ==
    ASSUME NEW kind \in Punctuation
    PROVE  /\ The(kind) \in Lexemes
           /\ \A m \in Lexemes : KindOf[m] = kind <=> m = The(kind)
<1>1. PICK l \in Lexemes : \A m \in Lexemes : KindOf[m] = kind <=> m = l
  BY PunctuationAssumption
<1>2. The(kind) = l
  BY <1>1 DEF The
<1> QED BY <1>1, <1>2

Lists == {"items", "entries"}

LEMMA ClosingIs ==
    ASSUME NEW list \in Lists
    PROVE  Closing(list) \in Lexemes
BY TheIs DEF Closing, Lists, Punctuation

\* A text of n lexemes with its value.
IsText(d, n) == /\ d = [text |-> d.text, val |-> d.val]
                /\ d.text \in Seq(Lexemes) /\ Len(d.text) = n /\ n > 0

TextsOk(n) == /\ \A d \in Grammar[n].value : IsText(d, n)
              /\ \A list \in Lists : \A d \in Grammar[n][list] : IsText(d, n) /\ IsSeq(d.val)

LEMMA Joined ==
    ASSUME NEW S, NEW x \in Seq(S), NEW y \in Seq(S)
    PROVE  x \o y \in Seq(S) /\ Len(x \o y) = Len(x) + Len(y)
BY ConcatProperties

LEMMA IsSeqCons ==
    ASSUME NEW v, NEW r, IsSeq(r)
    PROVE  IsSeq(<<v>> \o r)
<1>1. PICK S : r \in Seq(S)
  BY DEF IsSeq
<1>2. r \in Seq(S \cup {v}) /\ <<v>> \in Seq(S \cup {v})
  BY <1>1, SeqMonotonic
<1>3. <<v>> \o r \in Seq(S \cup {v})
  BY <1>2, ConcatProperties
<1> QED BY <1>3 DEF IsSeq

LEMMA EndTexts ==
    ASSUME NEW list \in Lists, NEW n \in Nat, NEW d \in End(list, n)
    PROVE  IsText(d, n) /\ IsSeq(d.val)
<1>1. n = 1 /\ d = [text |-> <<Closing(list)>>, val |-> <<>>]
  BY DEF End
<1>2. <<Closing(list)>> \in Seq(Lexemes) /\ Len(<<Closing(list)>>) = 1
  BY ClosingIs
<1>3. <<>> \in Seq({})
  OBVIOUS
<1> QED BY <1>1, <1>2, <1>3 DEF IsText, IsSeq

\* The rest of a list is one lexeme longer than what follows its comma.
LEMMA RestTexts ==
    ASSUME NEW list \in Lists, NEW n \in Nat, \A m \in 0..(n - 1) : TextsOk(m),
           NEW d \in Rest(Grammar, list, n), n > 0
    PROVE  IsText(d, n) /\ IsSeq(d.val)
<1>1. CASE d \in End(list, n)
  BY <1>1, EndTexts
<1>2. CASE d \notin End(list, n)
  <2>1. PICK e \in Grammar[n - 1][list] :
            d = [text |-> <<The("COMMA")>> \o e.text, val |-> e.val]
    BY <1>2 DEF Rest
  <2>2. IsText(e, n - 1) /\ IsSeq(e.val)
    BY <2>1 DEF TextsOk
  <2>3. <<The("COMMA")>> \in Seq(Lexemes) /\ Len(<<The("COMMA")>>) = 1
    BY TheIs DEF Punctuation
  <2>4. <<The("COMMA")>> \o e.text \in Seq(Lexemes) /\ Len(<<The("COMMA")>> \o e.text) = n
    BY <2>2, <2>3, Joined DEF IsText
  <2> QED BY <2>1, <2>2, <2>4 DEF IsText
<1> QED BY <1>1, <1>2

LEMMA Texts == \A n \in Nat : TextsOk(n)
<1> DEFINE Bad == {n \in Nat : ~TextsOk(n)}
<1>1. ASSUME NEW n \in Nat, \A m \in 0..(n - 1) : TextsOk(m) PROVE TextsOk(n)
  <2>1. CASE n = 0
    <3>1. Grammar[n] = [value |-> {}, items |-> {}, entries |-> {}]
      BY <2>1, GrammarRules DEF Rules
    <3> QED BY <3>1 DEF TextsOk, Lists
  <2>2. CASE n # 0
    <3>1. Grammar[n] = [value   |-> Values(Grammar, n),
                        items   |-> Items(Grammar, n),
                        entries |-> Entries(Grammar, n)]
      BY <2>2, GrammarRules DEF Rules
    <3>2. ASSUME NEW k \in 1..(n - 1), NEW v \in Grammar[k].value,
                 NEW list \in Lists, NEW j \in 1..(n - k), NEW rest \in Rest(Grammar, list, j)
          PROVE  /\ IsText(v, k) /\ IsText(rest, j) /\ IsSeq(rest.val)
                 /\ v.text \o rest.text \in Seq(Lexemes)
                 /\ Len(v.text \o rest.text) = k + j
      <4>1. IsText(v, k)
        BY <1>1 DEF TextsOk
      <4>2. \A m \in 0..(j - 1) : TextsOk(m)
        BY <1>1
      <4>3. IsText(rest, j) /\ IsSeq(rest.val)
        BY <4>2, RestTexts
      <4> QED BY <4>1, <4>3, Joined DEF IsText
    <3>3. ASSUME NEW d \in Values(Grammar, n) PROVE IsText(d, n)
      <4>1. CASE \E l \in {m \in OfKind(ScalarKinds) : n = 1} : d = [text |-> <<l>>, val |-> ValOf[l]]
        <5>1. PICK l \in Lexemes : n = 1 /\ d = [text |-> <<l>>, val |-> ValOf[l]]
          BY <4>1 DEF OfKind
        <5>2. <<l>> \in Seq(Lexemes) /\ Len(<<l>>) = 1
          OBVIOUS
        <5> QED BY <5>1, <5>2 DEF IsText
      <4>2. ASSUME NEW kind \in Punctuation, NEW list \in Lists, NEW e \in Grammar[n - 1][list],
                   NEW v, d = [text |-> <<The(kind)>> \o e.text, val |-> v]
            PROVE  IsText(d, n)
        <5>1. IsText(e, n - 1)
          BY <1>1, <2>2 DEF TextsOk
        <5>2. <<The(kind)>> \in Seq(Lexemes) /\ Len(<<The(kind)>>) = 1
          BY TheIs
        <5>3. <<The(kind)>> \o e.text \in Seq(Lexemes) /\ Len(<<The(kind)>> \o e.text) = n
          BY <5>1, <5>2, Joined DEF IsText
        <5> QED BY <2>2, <4>2, <5>3 DEF IsText
      <4>3. "items" \in Lists /\ "entries" \in Lists
            /\ "BRACKET_OPEN" \in Punctuation /\ "BRACE_OPEN" \in Punctuation
        BY DEF Lists, Punctuation
      <4> HIDE DEF Lists, Punctuation, IsText
      <4> QED BY <3>3, <4>1, <4>2, <4>3 DEF Values
    <3>4. ASSUME NEW d \in Items(Grammar, n) PROVE IsText(d, n) /\ IsSeq(d.val)
      <4>1. CASE d \in End("items", n)
        BY <4>1, EndTexts DEF Lists
      <4>2. CASE d \notin End("items", n)
        <5>1. PICK k \in 1..(n - 1) : d \in ItemTexts(Grammar[k].value, Rest(Grammar, "items", n - k))
          BY <4>2 DEF Items
        <5>2. PICK v \in Grammar[k].value, rest \in Rest(Grammar, "items", n - k) :
                  d = [text |-> v.text \o rest.text, val |-> <<v.val>> \o rest.val]
          BY <5>1 DEF ItemTexts
        <5>3. "items" \in Lists /\ n - k \in 1..(n - k) /\ k + (n - k) = n
          BY DEF Lists
        <5>4. /\ IsSeq(rest.val) /\ v.text \o rest.text \in Seq(Lexemes)
              /\ Len(v.text \o rest.text) = n
          <6>1. /\ IsSeq(rest.val) /\ v.text \o rest.text \in Seq(Lexemes)
                /\ Len(v.text \o rest.text) = k + (n - k)
            BY <3>2, <5>3
          <6> QED BY <5>3, <6>1
        <5>5. d.text = v.text \o rest.text /\ d.val = <<v.val>> \o rest.val
          BY ONLY <5>2
        <5>6. IsSeq(d.val)
          BY <5>4, <5>5, IsSeqCons
        <5>7. d = [text |-> d.text, val |-> d.val]
          BY ONLY <5>2
        <5>8. d.text \in Seq(Lexemes) /\ Len(d.text) = n
          BY ONLY <5>4, <5>5
        <5> QED BY <2>2, <5>6, <5>7, <5>8 DEF IsText
      <4> QED BY <4>1, <4>2
    <3>5. ASSUME NEW d \in Entries(Grammar, n) PROVE IsText(d, n) /\ IsSeq(d.val)
      <4>1. CASE d \in End("entries", n)
        BY <4>1, EndTexts DEF Lists
      <4>2. CASE d \notin End("entries", n)
        <5>1. PICK k \in 1..(n - 3) :
                  d \in EntryTexts(Grammar[k].value, Rest(Grammar, "entries", n - 2 - k))
          BY <4>2 DEF Entries
        <5>2. PICK key \in KeyLexemes, v \in Grammar[k].value,
                   rest \in Rest(Grammar, "entries", n - 2 - k) :
                  d = [text |-> <<key, The("COLON")>> \o (v.text \o rest.text),
                       val  |-> <<<<ValOf[key], v.val>>>> \o rest.val]
          <6> DEFINE R == Rest(Grammar, "entries", n - 2 - k)
                     Text(key, v, rest) == [text |-> <<key, The("COLON")>> \o (v.text \o rest.text),
                                            val  |-> <<<<ValOf[key], v.val>>>> \o rest.val]
          <6>1. d \in UNION {UNION {{Text(key, v, rest) : rest \in R} : v \in Grammar[k].value} :
                                key \in KeyLexemes}
            BY <5>1 DEF EntryTexts
          <6> HIDE DEF R, Text
          <6>2. PICK key \in KeyLexemes :
                    d \in UNION {{Text(key, v, rest) : rest \in R} : v \in Grammar[k].value}
            BY <6>1
          <6>3. PICK v \in Grammar[k].value, rest \in R : d = Text(key, v, rest)
            BY <6>2
          <6> QED BY <6>3 DEF Text, R
        <5>3. /\ n - 2 - k \in 1..(n - k) /\ k \in 1..(n - 1) /\ k + (n - 2 - k) = n - 2
              /\ "entries" \in Lists
          BY DEF Lists
        <5>4. /\ IsSeq(rest.val) /\ v.text \o rest.text \in Seq(Lexemes)
              /\ Len(v.text \o rest.text) = n - 2
          <6>1. /\ IsSeq(rest.val) /\ v.text \o rest.text \in Seq(Lexemes)
                /\ Len(v.text \o rest.text) = k + (n - 2 - k)
            BY <3>2, <5>3
          <6> QED BY <5>3, <6>1
        <5>5. <<key, The("COLON")>> \in Seq(Lexemes) /\ Len(<<key, The("COLON")>>) = 2
          BY TheIs DEF Punctuation, KeyLexemes, OfKind
        <5>6. d.text = <<key, The("COLON")>> \o (v.text \o rest.text)
              /\ d.val = <<<<ValOf[key], v.val>>>> \o rest.val
          BY ONLY <5>2
        <5>7. d.text \in Seq(Lexemes) /\ Len(d.text) = 2 + (n - 2)
          <6>1. \A x, y \in Seq(Lexemes) : x \o y \in Seq(Lexemes) /\ Len(x \o y) = Len(x) + Len(y)
            BY Joined
          <6> QED BY ONLY <5>4, <5>5, <5>6, <6>1
        <5>8. IsSeq(d.val)
          BY <5>4, <5>6, IsSeqCons
        <5>9. d = [text |-> d.text, val |-> d.val]
          BY ONLY <5>2
        <5> QED BY <2>2, <5>7, <5>8, <5>9 DEF IsText
      <4> QED BY <4>1, <4>2
    <3> QED BY <3>1, <3>3, <3>4, <3>5 DEF TextsOk, Lists
  <2> QED BY <2>1, <2>2
<1>2. ASSUME NEW n \in Bad PROVE \E m \in Bad : m < n
  <2>1. n \in Nat /\ ~(\A m \in 0..(n - 1) : TextsOk(m))
    BY <1>1
  <2> QED BY <2>1
<1> HIDE DEF Bad
<1>3. Bad \in SUBSET Nat
  BY DEF Bad
<1>4. Bad = {}
  BY <1>2, <1>3, FirstOne
<1> QED BY <1>4 DEF Bad

IsValue(x, v)      == x \in Seq(Lexemes) /\ [text |-> x, val |-> v] \in Grammar[Len(x)].value
IsList(list, x, r) == x \in Seq(Lexemes) /\ [text |-> x, val |-> r] \in Grammar[Len(x)][list]
IsRest(list, x, r) == /\ x \in Seq(Lexemes) /\ Len(x) > 0
                      /\ [text |-> x, val |-> r] \in Rest(Grammar, list, Len(x))

LEMMA ValueText ==
    ASSUME NEW n \in Nat, NEW d \in Grammar[n].value
    PROVE  d = [text |-> d.text, val |-> d.val] /\ Len(d.text) = n /\ IsValue(d.text, d.val)
<1>1. IsText(d, n)
  BY Texts DEF TextsOk
<1> QED BY <1>1 DEF IsText, IsValue

LEMMA ListText ==
    ASSUME NEW list \in Lists, NEW n \in Nat, NEW d \in Grammar[n][list]
    PROVE  /\ d = [text |-> d.text, val |-> d.val] /\ Len(d.text) = n
           /\ IsList(list, d.text, d.val)
<1>1. IsText(d, n)
  BY Texts DEF TextsOk
<1> QED BY <1>1 DEF IsText, IsList

LEMMA RestText ==
    ASSUME NEW list \in Lists, NEW n \in Nat, n > 0, NEW d \in Rest(Grammar, list, n)
    PROVE  /\ d = [text |-> d.text, val |-> d.val] /\ Len(d.text) = n
           /\ IsRest(list, d.text, d.val)
<1>1. IsText(d, n)
  <2>1. \A m \in 0..(n - 1) : TextsOk(m)
    BY Texts
  <2> QED BY <2>1, RestTexts
<1> QED BY <1>1 DEF IsText, IsRest

LEMMA ValueTyped ==
    ASSUME NEW x, NEW v, IsValue(x, v)
    PROVE  x \in Seq(Lexemes) /\ Len(x) \in Nat /\ Len(x) > 0
<1>1. x \in Seq(Lexemes) /\ Len(x) \in Nat
  BY DEF IsValue
<1>2. IsText([text |-> x, val |-> v], Len(x))
  BY <1>1, Texts DEF TextsOk, IsValue
<1> QED BY <1>1, <1>2 DEF IsText

LEMMA ListTyped ==
    ASSUME NEW list \in Lists, NEW x, NEW r, IsList(list, x, r)
    PROVE  x \in Seq(Lexemes) /\ Len(x) \in Nat /\ Len(x) > 0 /\ IsSeq(r)
<1>1. x \in Seq(Lexemes) /\ Len(x) \in Nat
  BY DEF IsList
<1>2. IsText([text |-> x, val |-> r], Len(x)) /\ IsSeq([text |-> x, val |-> r].val)
  BY <1>1, Texts DEF TextsOk, IsList
<1> QED BY <1>1, <1>2 DEF IsText

LEMMA RestTyped ==
    ASSUME NEW list \in Lists, NEW x, NEW r, IsRest(list, x, r)
    PROVE  x \in Seq(Lexemes) /\ Len(x) \in Nat /\ Len(x) > 0 /\ IsSeq(r)
<1>1. x \in Seq(Lexemes) /\ Len(x) \in Nat /\ Len(x) > 0
  BY DEF IsRest
<1>2. \A m \in 0..(Len(x) - 1) : TextsOk(m)
  BY <1>1, Texts
<1>3. IsSeq([text |-> x, val |-> r].val)
  BY <1>1, <1>2, RestTexts DEF IsRest
<1> QED BY <1>1, <1>3

LEMMA Unfold ==
    ASSUME NEW n \in Nat, n > 0
    PROVE  /\ Grammar[n].value = Values(Grammar, n)
           /\ Grammar[n]["items"] = Items(Grammar, n)
           /\ Grammar[n]["entries"] = Entries(Grammar, n)
<1>1. Grammar[n] = [value   |-> Values(Grammar, n),
                    items   |-> Items(Grammar, n),
                    entries |-> Entries(Grammar, n)]
  BY GrammarRules DEF Rules
<1> QED BY ONLY <1>1

-----------------------------------------------------------------------------
\* The three kinds of values.
ScalarText(x, v) == \E l \in OfKind(ScalarKinds) : x = <<l>> /\ v = ValOf[l]
ArrayText(x, v) ==
    \E y, r : IsList("items", y, r) /\ x = <<The("BRACKET_OPEN")>> \o y /\ v = <<"list", r>>
ObjectText(x, v) ==
    \E y, r : /\ IsList("entries", y, r) /\ x = <<The("BRACE_OPEN")>> \o y
              /\ v = <<"dict", ToDict(r)>>

LEMMA ValueOut ==
    ASSUME NEW x, NEW v, IsValue(x, v)
    PROVE  ScalarText(x, v) \/ ArrayText(x, v) \/ ObjectText(x, v)
<1> PICK n \in Nat : n = Len(x) /\ n > 0
  BY ValueTyped
<1> PICK d : d = [text |-> x, val |-> v]
  OBVIOUS
<1>1. d \in Values(Grammar, n) /\ x = d.text /\ v = d.val
  <2>1. d \in Grammar[n].value
    BY DEF IsValue
  <2> QED BY <2>1, Unfold
<1>2. "items" \in Lists /\ "entries" \in Lists /\ n - 1 \in Nat
  BY DEF Lists
<1>3. CASE \E l \in {m \in OfKind(ScalarKinds) : n = 1} : d = [text |-> <<l>>, val |-> ValOf[l]]
  <2>1. ScalarText(x, v)
    BY <1>1, <1>3 DEF ScalarText
  <2> QED BY <2>1
<1>4. ASSUME NEW e \in Grammar[n - 1].items,
             d = [text |-> <<The("BRACKET_OPEN")>> \o e.text, val |-> <<"list", e.val>>]
      PROVE  ArrayText(x, v)
  <2>1. IsList("items", e.text, e.val)
    BY <1>2, ListText
  <2>2. x = <<The("BRACKET_OPEN")>> \o e.text /\ v = <<"list", e.val>>
    BY <1>1, <1>4
  <2> QED BY <2>1, <2>2 DEF ArrayText
<1>5. ASSUME NEW e \in Grammar[n - 1].entries,
             d = [text |-> <<The("BRACE_OPEN")>> \o e.text, val |-> <<"dict", ToDict(e.val)>>]
      PROVE  ObjectText(x, v)
  <2>1. IsList("entries", e.text, e.val)
    BY <1>2, ListText
  <2>2. x = <<The("BRACE_OPEN")>> \o e.text /\ v = <<"dict", ToDict(e.val)>>
    BY <1>1, <1>5
  <2> QED BY <2>1, <2>2 DEF ObjectText
<1> QED BY <1>1, <1>3, <1>4, <1>5 DEF Values

\* A list of items that is not empty; likewise of entries.
ItemFirst(x, r) ==
    \E a, w, b, q : IsValue(a, w) /\ IsRest("items", b, q) /\ x = a \o b /\ r = <<w>> \o q
EntryFirst(x, r) ==
    \E k \in KeyLexemes : \E a, w, b, q :
        /\ IsValue(a, w) /\ IsRest("entries", b, q)
        /\ x = <<k, The("COLON")>> \o (a \o b) /\ r = <<<<ValOf[k], w>>>> \o q

LEMMA ItemsOut ==
    ASSUME NEW x, NEW r, IsList("items", x, r)
    PROVE  \/ x = <<Closing("items")>> /\ r = <<>>
           \/ ItemFirst(x, r)
<1> "items" \in Lists
  BY DEF Lists
<1> PICK n \in Nat : n = Len(x) /\ n > 0
  BY ListTyped
<1> PICK d : d = [text |-> x, val |-> r]
  OBVIOUS
<1>1. d \in Items(Grammar, n) /\ x = d.text /\ r = d.val
  <2>1. d \in Grammar[n]["items"]
    BY DEF IsList
  <2> QED BY <2>1, Unfold
<1>2. CASE d \in End("items", n)
  BY <1>1, <1>2 DEF End
<1>3. CASE d \notin End("items", n)
  <2>1. PICK k \in 1..(n - 1) : d \in ItemTexts(Grammar[k].value, Rest(Grammar, "items", n - k))
    BY <1>1, <1>3 DEF Items
  <2>2. PICK e \in Grammar[k].value, f \in Rest(Grammar, "items", n - k) :
            d = [text |-> e.text \o f.text, val |-> <<e.val>> \o f.val]
    BY <2>1 DEF ItemTexts
  <2>3. IsValue(e.text, e.val)
    BY ValueText
  <2>4. IsRest("items", f.text, f.val)
    <3>1. n - k \in Nat /\ n - k > 0
      OBVIOUS
    <3> QED BY <3>1, RestText
  <2>5. x = e.text \o f.text /\ r = <<e.val>> \o f.val
    BY ONLY <1>1, <2>2
  <2> QED BY <2>3, <2>4, <2>5 DEF ItemFirst
<1> QED BY <1>2, <1>3

LEMMA EntriesOut ==
    ASSUME NEW x, NEW r, IsList("entries", x, r)
    PROVE  \/ x = <<Closing("entries")>> /\ r = <<>>
           \/ EntryFirst(x, r)
<1> "entries" \in Lists
  BY DEF Lists
<1> PICK n \in Nat : n = Len(x) /\ n > 0
  BY ListTyped
<1> PICK d : d = [text |-> x, val |-> r]
  OBVIOUS
<1>1. d \in Entries(Grammar, n) /\ x = d.text /\ r = d.val
  <2>1. d \in Grammar[n]["entries"]
    BY DEF IsList
  <2> QED BY <2>1, Unfold
<1>2. CASE d \in End("entries", n)
  BY <1>1, <1>2 DEF End
<1>3. CASE d \notin End("entries", n)
  <2>1. PICK k \in 1..(n - 3) : d \in EntryTexts(Grammar[k].value, Rest(Grammar, "entries", n - 2 - k))
    BY <1>1, <1>3 DEF Entries
  <2>2. PICK key \in KeyLexemes, e \in Grammar[k].value,
             f \in Rest(Grammar, "entries", n - 2 - k) :
            d = [text |-> <<key, The("COLON")>> \o (e.text \o f.text),
                 val  |-> <<<<ValOf[key], e.val>>>> \o f.val]
    <3> DEFINE R == Rest(Grammar, "entries", n - 2 - k)
               Text(key, v, rest) == [text |-> <<key, The("COLON")>> \o (v.text \o rest.text),
                                      val  |-> <<<<ValOf[key], v.val>>>> \o rest.val]
    <3>1. d \in UNION {UNION {{Text(key, v, rest) : rest \in R} : v \in Grammar[k].value} :
                          key \in KeyLexemes}
      BY <2>1 DEF EntryTexts
    <3> HIDE DEF R, Text
    <3>2. PICK key \in KeyLexemes :
              d \in UNION {{Text(key, v, rest) : rest \in R} : v \in Grammar[k].value}
      BY <3>1
    <3>3. PICK v \in Grammar[k].value, rest \in R : d = Text(key, v, rest)
      BY <3>2
    <3> QED BY <3>3 DEF Text, R
  <2>3. IsValue(e.text, e.val)
    BY ValueText
  <2>4. IsRest("entries", f.text, f.val)
    <3>1. n - 2 - k \in Nat /\ n - 2 - k > 0
      OBVIOUS
    <3> QED BY <3>1, RestText
  <2>5. x = <<key, The("COLON")>> \o (e.text \o f.text) /\ r = <<<<ValOf[key], e.val>>>> \o f.val
    BY ONLY <1>1, <2>2
  <2> QED BY <2>3, <2>4, <2>5 DEF EntryFirst
<1> QED BY <1>2, <1>3

\* A comma and what follows it.
CommaFirst(list, x, r) == \E y : IsList(list, y, r) /\ x = <<The("COMMA")>> \o y

LEMMA RestOut ==
    ASSUME NEW list \in Lists, NEW x, NEW r, IsRest(list, x, r)
    PROVE  \/ x = <<Closing(list)>> /\ r = <<>>
           \/ CommaFirst(list, x, r)
<1> PICK n \in Nat : n = Len(x) /\ n > 0
  BY RestTyped
<1> PICK d : d = [text |-> x, val |-> r]
  OBVIOUS
<1>1. d \in Rest(Grammar, list, n) /\ x = d.text /\ r = d.val
  BY DEF IsRest
<1>2. CASE d \in End(list, n)
  BY <1>1, <1>2 DEF End
<1>3. CASE d \notin End(list, n)
  <2>1. PICK e \in Grammar[n - 1][list] : d = [text |-> <<The("COMMA")>> \o e.text, val |-> e.val]
    BY <1>1, <1>3 DEF Rest
  <2>2. IsList(list, e.text, e.val)
    <3>1. n - 1 \in Nat
      OBVIOUS
    <3> QED BY <3>1, ListText
  <2>3. x = <<The("COMMA")>> \o e.text /\ r = e.val
    BY <1>1, <2>1
  <2> QED BY <2>2, <2>3 DEF CommaFirst
<1> QED BY <1>2, <1>3
-----------------------------------------------------------------------------
(* The rules, read backwards.                                              *)

LEMMA ConsText ==
    ASSUME NEW l \in Lexemes, NEW y \in Seq(Lexemes)
    PROVE  <<l>> \o y \in Seq(Lexemes) /\ Len(<<l>> \o y) = Len(y) + 1
<1>1. <<l>> \in Seq(Lexemes) /\ Len(<<l>>) = 1
  OBVIOUS
<1>2. <<l>> \o y \in Seq(Lexemes) /\ Len(<<l>> \o y) = Len(<<l>>) + Len(y)
  BY <1>1, Joined
<1>3. Len(y) \in Nat
  OBVIOUS
<1> QED BY ONLY <1>1, <1>2, <1>3

LEMMA ScalarIn ==
    ASSUME NEW l \in OfKind(ScalarKinds)
    PROVE  IsValue(<<l>>, ValOf[l])
<1>1. l \in Lexemes /\ Len(<<l>>) = 1 /\ <<l>> \in Seq(Lexemes)
  BY DEF OfKind
<1>2. [text |-> <<l>>, val |-> ValOf[l]] \in Values(Grammar, 1)
  BY DEF Values
<1>3. Grammar[1].value = Values(Grammar, 1)
  BY Unfold
<1> QED BY <1>1, <1>2, <1>3 DEF IsValue

LEMMA ArrayIn ==
    ASSUME NEW y, NEW r, IsList("items", y, r)
    PROVE  IsValue(<<The("BRACKET_OPEN")>> \o y, <<"list", r>>)
<1>1. /\ y \in Seq(Lexemes) /\ Len(y) \in Nat
      /\ [text |-> y, val |-> r] \in Grammar[Len(y)]["items"]
  BY DEF IsList
<1> PICK n \in Nat : n = Len(y) + 1
  BY <1>1
<1>2. The("BRACKET_OPEN") \in Lexemes
  BY TheIs DEF Punctuation
<1> PICK x : x = <<The("BRACKET_OPEN")>> \o y
  OBVIOUS
<1>3. x \in Seq(Lexemes) /\ Len(x) = n
  BY <1>1, <1>2, ConsText
<1>4. [text |-> y, val |-> r] \in Grammar[n - 1].items
  BY <1>1
<1>5. [text |-> x, val |-> <<"list", r>>] \in Values(Grammar, n)
  <2> PICK d : d = [text |-> y, val |-> r]
    OBVIOUS
  <2>1. d \in Grammar[n - 1].items
        /\ [text |-> x, val |-> <<"list", r>>]
               = [text |-> <<The("BRACKET_OPEN")>> \o d.text, val |-> <<"list", d.val>>]
    BY <1>4
  <2> QED BY ONLY <2>1 DEF Values
<1>6. Grammar[n].value = Values(Grammar, n)
  BY <1>1, Unfold
<1> QED BY <1>3, <1>5, <1>6 DEF IsValue

LEMMA ObjectIn ==
    ASSUME NEW y, NEW r, IsList("entries", y, r)
    PROVE  IsValue(<<The("BRACE_OPEN")>> \o y, <<"dict", ToDict(r)>>)
<1>1. /\ y \in Seq(Lexemes) /\ Len(y) \in Nat
      /\ [text |-> y, val |-> r] \in Grammar[Len(y)]["entries"]
  BY DEF IsList
<1> PICK n \in Nat : n = Len(y) + 1
  BY <1>1
<1>2. The("BRACE_OPEN") \in Lexemes
  BY TheIs DEF Punctuation
<1> PICK x : x = <<The("BRACE_OPEN")>> \o y
  OBVIOUS
<1>3. x \in Seq(Lexemes) /\ Len(x) = n
  BY <1>1, <1>2, ConsText
<1>4. [text |-> y, val |-> r] \in Grammar[n - 1].entries
  BY <1>1
<1>5. [text |-> x, val |-> <<"dict", ToDict(r)>>] \in Values(Grammar, n)
  <2> PICK d : d = [text |-> y, val |-> r]
    OBVIOUS
  <2>1. d \in Grammar[n - 1].entries
        /\ [text |-> x, val |-> <<"dict", ToDict(r)>>]
               = [text |-> <<The("BRACE_OPEN")>> \o d.text, val |-> <<"dict", ToDict(d.val)>>]
    BY <1>4
  <2> QED BY ONLY <2>1 DEF Values
<1>6. Grammar[n].value = Values(Grammar, n)
  BY <1>1, Unfold
<1> QED BY <1>3, <1>5, <1>6 DEF IsValue

LEMMA EndIn ==
    ASSUME NEW list \in Lists
    PROVE  IsList(list, <<Closing(list)>>, <<>>) /\ IsRest(list, <<Closing(list)>>, <<>>)
<1>1. /\ <<Closing(list)>> \in Seq(Lexemes) /\ Len(<<Closing(list)>>) = 1
  BY ClosingIs
<1>2. [text |-> <<Closing(list)>>, val |-> <<>>] \in End(list, 1)
  BY DEF End
<1>3. End(list, 1) \subseteq Rest(Grammar, list, 1)
  BY DEF Rest
<1>4. End(list, 1) \subseteq Grammar[1][list]
  <2>1. Grammar[1]["items"] = Items(Grammar, 1) /\ Grammar[1]["entries"] = Entries(Grammar, 1)
    BY Unfold
  <2>2. End("items", 1) \subseteq Items(Grammar, 1)
    BY DEF Items
  <2>3. End("entries", 1) \subseteq Entries(Grammar, 1)
    BY DEF Entries
  <2> QED BY <2>1, <2>2, <2>3 DEF Lists
<1> QED BY <1>1, <1>2, <1>3, <1>4 DEF IsList, IsRest

LEMMA RestIn ==
    ASSUME NEW list \in Lists, NEW y, NEW r, IsList(list, y, r)
    PROVE  IsRest(list, <<The("COMMA")>> \o y, r)
<1>1. /\ y \in Seq(Lexemes) /\ Len(y) \in Nat
      /\ [text |-> y, val |-> r] \in Grammar[Len(y)][list]
  BY DEF IsList
<1> PICK n \in Nat : n = Len(y) + 1
  BY <1>1
<1>2. The("COMMA") \in Lexemes
  BY TheIs DEF Punctuation
<1> PICK x : x = <<The("COMMA")>> \o y
  OBVIOUS
<1>3. x \in Seq(Lexemes) /\ Len(x) = n
  BY <1>1, <1>2, ConsText
<1>4. [text |-> y, val |-> r] \in Grammar[n - 1][list]
  BY <1>1
<1>5. [text |-> x, val |-> r] \in Rest(Grammar, list, n)
  <2> PICK d : d = [text |-> y, val |-> r]
    OBVIOUS
  <2>1. d \in Grammar[n - 1][list]
        /\ [text |-> x, val |-> r] = [text |-> <<The("COMMA")>> \o d.text, val |-> d.val]
    BY <1>4
  <2> QED BY ONLY <2>1 DEF Rest
<1> QED BY <1>1, <1>3, <1>5 DEF IsRest

LEMMA ItemsIn ==
    ASSUME NEW a, NEW w, NEW b, NEW q, IsValue(a, w), IsRest("items", b, q)
    PROVE  IsList("items", a \o b, <<w>> \o q)
<1> "items" \in Lists
  BY DEF Lists
<1> PICK k \in Nat : k = Len(a) /\ k > 0
  BY ValueTyped
<1> PICK j \in Nat : j = Len(b) /\ j > 0
  BY RestTyped
<1> PICK n \in Nat : n = k + j
  OBVIOUS
<1> PICK x : x = a \o b
  OBVIOUS
<1>1. a \in Seq(Lexemes) /\ b \in Seq(Lexemes)
  BY DEF IsValue, IsRest
<1>2. x \in Seq(Lexemes) /\ Len(x) = n
  BY <1>1, Joined
<1> DEFINE e == [text |-> a, val |-> w]
           f == [text |-> b, val |-> q]
<1>3. e \in Grammar[k].value /\ f \in Rest(Grammar, "items", n - k)
  <2>1. n - k = j
    OBVIOUS
  <2> QED BY <2>1 DEF IsValue, IsRest
<1>4. [text |-> e.text \o f.text, val |-> <<e.val>> \o f.val]
          \in ItemTexts(Grammar[k].value, Rest(Grammar, "items", n - k))
  <2> DEFINE R == Rest(Grammar, "items", n - k)
             Text(v, rest) == [text |-> v.text \o rest.text, val |-> <<v.val>> \o rest.val]
  <2>1. Text(e, f) \in UNION {{Text(v, rest) : rest \in R} : v \in Grammar[k].value}
    <3> HIDE DEF e, f, Text, R
    <3>1. f \in R
      BY <1>3 DEF R
    <3>2. Text(e, f) \in {Text(e, rest) : rest \in R}
      BY <3>1
    <3> QED BY <1>3, <3>2
  <2> QED BY <2>1 DEF ItemTexts
<1>5. [text |-> x, val |-> <<w>> \o q] \in ItemTexts(Grammar[k].value, Rest(Grammar, "items", n - k))
  BY <1>4
<1>6. k \in 1..(n - 1)
  OBVIOUS
<1>7. [text |-> x, val |-> <<w>> \o q] \in Items(Grammar, n)
  BY <1>5, <1>6 DEF Items
<1>8. Grammar[n]["items"] = Items(Grammar, n)
  BY Unfold
<1> QED BY <1>2, <1>7, <1>8 DEF IsList

LEMMA EntriesIn ==
    ASSUME NEW key \in KeyLexemes, NEW a, NEW w, NEW b, NEW q,
           IsValue(a, w), IsRest("entries", b, q)
    PROVE  IsList("entries", <<key, The("COLON")>> \o (a \o b), <<<<ValOf[key], w>>>> \o q)
<1> "entries" \in Lists
  BY DEF Lists
<1> PICK k \in Nat : k = Len(a) /\ k > 0
  BY ValueTyped
<1> PICK j \in Nat : j = Len(b) /\ j > 0
  BY RestTyped
<1> PICK n \in Nat : n = 2 + (k + j)
  OBVIOUS
<1> PICK x : x = <<key, The("COLON")>> \o (a \o b)
  OBVIOUS
<1>1. a \in Seq(Lexemes) /\ b \in Seq(Lexemes)
  BY DEF IsValue, IsRest
<1>2. x \in Seq(Lexemes) /\ Len(x) = n
  <2>1. <<key, The("COLON")>> \in Seq(Lexemes) /\ Len(<<key, The("COLON")>>) = 2
    BY TheIs DEF Punctuation, KeyLexemes, OfKind
  <2>2. a \o b \in Seq(Lexemes) /\ Len(a \o b) = k + j
    BY <1>1, Joined
  <2>3. x \in Seq(Lexemes) /\ Len(x) = Len(<<key, The("COLON")>>) + Len(a \o b)
    BY <2>1, <2>2, Joined
  <2> QED BY ONLY <2>1, <2>2, <2>3, n = 2 + (k + j)
<1> DEFINE e == [text |-> a, val |-> w]
           f == [text |-> b, val |-> q]
           R == Rest(Grammar, "entries", n - 2 - k)
           Text(c, v, rest) == [text |-> <<c, The("COLON")>> \o (v.text \o rest.text),
                                val  |-> <<<<ValOf[c], v.val>>>> \o rest.val]
<1>3. e \in Grammar[k].value /\ f \in R
  <2>1. n - 2 - k = j
    OBVIOUS
  <2> QED BY <2>1 DEF IsValue, IsRest
<1>4. Text(key, e, f) \in EntryTexts(Grammar[k].value, R)
  <2>1. Text(key, e, f) \in UNION {UNION {{Text(c, v, rest) : rest \in R} : v \in Grammar[k].value} :
                                     c \in KeyLexemes}
    <3> HIDE DEF e, f, Text, R
    <3>1. Text(key, e, f) \in UNION {{Text(key, v, rest) : rest \in R} : v \in Grammar[k].value}
      BY <1>3
    <3> QED BY <3>1
  <2> QED BY <2>1 DEF EntryTexts
<1>5. Text(key, e, f) = [text |-> x, val |-> <<<<ValOf[key], w>>>> \o q]
  OBVIOUS
<1>6. k \in 1..(n - 3)
  OBVIOUS
<1>7. Text(key, e, f) \in Entries(Grammar, n)
  <2> HIDE DEF Text, e, f
  <2> QED BY <1>4, <1>6 DEF Entries
<1>8. Grammar[n]["entries"] = Entries(Grammar, n)
  BY Unfold
<1> HIDE DEF Text, e, f
<1> QED BY <1>2, <1>5, <1>7, <1>8 DEF IsList
-----------------------------------------------------------------------------
(* Dictionaries, put together from either end.                             *)

\* The entry that ToDict takes for k.
IsLast(es, k, i) == /\ i \in 1..Len(es) /\ es[i][1] = k
                    /\ \A j \in (i + 1)..Len(es) : es[j][1] # k

LEMMA LastIs ==
    ASSUME NEW es, Len(es) \in Nat, NEW k, NEW i, IsLast(es, k, i)
    PROVE  k \in DOMAIN ToDict(es) /\ ToDict(es)[k] = es[i][2]
<1>1. \A j \in 1..Len(es) : IsLast(es, k, j) => j = i
  BY DEF IsLast
<1>2. (CHOOSE j \in 1..Len(es) :
          /\ es[j][1] = k
          /\ \A m \in (j + 1)..Len(es) : es[m][1] # k) = i
  BY <1>1 DEF IsLast
<1>3. k \in {es[j][1] : j \in 1..Len(es)}
  BY DEF IsLast
<1> QED BY <1>2, <1>3 DEF ToDict

LEMMA LastExists ==
    ASSUME NEW es, Len(es) \in Nat, NEW k \in DOMAIN ToDict(es)
    PROVE  \E i \in 1..Len(es) : IsLast(es, k, i)
<1> PICK n \in Nat : n = Len(es)
  OBVIOUS
<1> DEFINE S == {m \in 0..n : \E i \in 1..n : es[i][1] = k /\ m = n - i}
<1>1. S # {}
  <2>1. PICK i \in 1..n : es[i][1] = k
    BY DEF ToDict
  <2>2. n - i \in S
    BY <2>1
  <2> QED BY <2>2
<1>2. PICK m \in S : \A j \in S : ~(j < m)
  <2>1. S \in SUBSET Nat
    OBVIOUS
  <2> HIDE DEF S
  <2> QED BY <1>1, <2>1, FirstOne
<1>3. PICK i \in 1..n : es[i][1] = k /\ m = n - i
  BY <1>2
<1>4. ASSUME NEW j \in (i + 1)..n PROVE es[j][1] # k
  <2>1. ASSUME es[j][1] = k PROVE FALSE
    <3>1. n - j \in S
      <4>1. j \in 1..n /\ n - j \in 0..n
        BY <1>3
      <4> QED BY <2>1, <4>1
    <3>2. n - j < m
      BY <1>3
    <3> QED BY <1>2, <3>1, <3>2
  <2> QED BY <2>1
<1> QED BY <1>3, <1>4 DEF IsLast

LEMMA ToDictEmpty == ToDict(<<>>) = <<>> /\ DOMAIN ToDict(<<>>) = {}
<1>1. Len(<<>>) = 0
  OBVIOUS
<1>2. {<<>>[i][1] : i \in 1..Len(<<>>)} = {}
  BY <1>1
<1>3. ToDict(<<>>) = [k \in {} |-> 0]
  BY <1>2 DEF ToDict
<1> QED BY <1>3

LEMMA ToDictCons ==
    ASSUME NEW r, IsSeq(r), NEW k, NEW w
    PROVE  /\ DOMAIN ToDict(<<<<k, w>>>> \o r) = {k} \cup DOMAIN ToDict(r)
           /\ \A x \in DOMAIN ToDict(r) : ToDict(<<<<k, w>>>> \o r)[x] = ToDict(r)[x]
           /\ k \notin DOMAIN ToDict(r) => ToDict(<<<<k, w>>>> \o r)[k] = w
<1> PICK es : es = <<<<k, w>>>> \o r
  OBVIOUS
<1> PICK n \in Nat : n = Len(r)
  BY DEF IsSeq
<1>1. /\ Len(es) = n + 1 /\ es[1] = <<k, w>>
      /\ \A i \in 1..n : es[i + 1] = r[i]
  <2>1. PICK S : r \in Seq(S)
    BY DEF IsSeq
  <2>2. r \in Seq(S \cup {<<k, w>>}) /\ <<<<k, w>>>> \in Seq(S \cup {<<k, w>>})
    BY <2>1, SeqMonotonic
  <2>3. Len(<<<<k, w>>>>) = 1 /\ <<<<k, w>>>>[1] = <<k, w>>
    OBVIOUS
  <2>4. /\ Len(es) = 1 + n
        /\ \A i \in 1..(1 + n) : es[i] = IF i <= 1 THEN <<<<k, w>>>>[i] ELSE r[i - 1]
    BY <2>2, <2>3, ConcatProperties
  <2> QED BY <2>3, <2>4
<1>2. \A i \in 2..(n + 1) : i - 1 \in 1..n /\ es[i] = r[i - 1]
  BY <1>1
<1>3. DOMAIN ToDict(es) = {es[i][1] : i \in 1..(n + 1)} /\ DOMAIN ToDict(r) = {r[i][1] : i \in 1..n}
  BY <1>1 DEF ToDict
<1>4. {es[i][1] : i \in 1..(n + 1)} = {k} \cup {r[i][1] : i \in 1..n}
  <2>1. ASSUME NEW i \in 1..(n + 1) PROVE es[i][1] \in {k} \cup {r[j][1] : j \in 1..n}
    <3>1. CASE i = 1
      BY <1>1, <3>1
    <3>2. CASE i # 1
      <4>1. i \in 2..(n + 1)
        BY <3>2
      <4>2. i - 1 \in 1..n /\ es[i][1] = r[i - 1][1]
        BY <1>2, <4>1
      <4> QED BY <4>2
    <3> QED BY <3>1, <3>2
  <2>2. ASSUME NEW i \in 1..n PROVE r[i][1] \in {es[j][1] : j \in 1..(n + 1)}
    <3>1. i + 1 \in 1..(n + 1) /\ es[i + 1] = r[i]
      BY <1>1
    <3> QED BY <3>1
  <2>3. k \in {es[j][1] : j \in 1..(n + 1)}
    <3>1. 1 \in 1..(n + 1) /\ es[1][1] = k
      BY <1>1
    <3> QED BY <3>1
  <2> QED BY <2>1, <2>2, <2>3
<1>5. ASSUME NEW x \in DOMAIN ToDict(r) PROVE ToDict(es)[x] = ToDict(r)[x]
  <2>1. PICK i \in 1..n : IsLast(r, x, i)
    BY LastExists
  <2>2. IsLast(es, x, i + 1)
    <3>1. i + 1 \in 1..(n + 1) /\ es[i + 1][1] = x
      BY <1>1, <2>1 DEF IsLast
    <3>2. ASSUME NEW j \in (i + 2)..(n + 1) PROVE es[j][1] # x
      <4>1. j - 1 \in (i + 1)..n /\ es[j] = r[j - 1]
        BY <1>2
      <4> QED BY <2>1, <4>1 DEF IsLast
    <3> QED BY <1>1, <3>1, <3>2 DEF IsLast
  <2>3. ToDict(es)[x] = es[i + 1][2]
    <3>1. Len(es) \in Nat
      BY <1>1
    <3> QED BY <2>2, <3>1, LastIs
  <2>4. ToDict(r)[x] = r[i][2]
    BY <2>1, LastIs
  <2> QED BY <1>1, <2>3, <2>4
<1>6. ASSUME k \notin DOMAIN ToDict(r) PROVE ToDict(es)[k] = w
  <2>1. \A j \in 1..n : r[j][1] # k
    BY <1>3, <1>6
  <2>2. \A j \in 2..(n + 1) : es[j][1] # k
    BY <1>2, <2>1
  <2>3. IsLast(es, k, 1)
    BY <1>1, <2>2 DEF IsLast
  <2>4. ToDict(es)[k] = es[1][2]
    <3>1. Len(es) \in Nat
      BY <1>1
    <3> QED BY <2>3, <3>1, LastIs
  <2> QED BY <1>1, <2>4
<1> QED BY <1>3, <1>4, <1>5, <1>6

\* The dictionary d after the entries r.
Merge(d, r) == [k \in DOMAIN d \cup DOMAIN ToDict(r) |->
                   IF k \in DOMAIN ToDict(r) THEN ToDict(r)[k] ELSE d[k]]

LEMMA MergeNone ==
    ASSUME NEW d, d = [k \in DOMAIN d |-> d[k]]
    PROVE  Merge(d, <<>>) = d
BY ToDictEmpty DEF Merge

LEMMA MergeAll ==
    ASSUME NEW r
    PROVE  Merge(<<>>, r) = ToDict(r)
<1>1. DOMAIN <<>> = {}
  OBVIOUS
<1>2. ToDict(r) = [k \in DOMAIN ToDict(r) |-> ToDict(r)[k]]
  BY DEF ToDict
<1>3. Merge(<<>>, r) = [k \in DOMAIN ToDict(r) |-> ToDict(r)[k]]
  BY <1>1 DEF Merge
<1> QED BY <1>2, <1>3

LEMMA MergePut ==
    ASSUME NEW d, NEW k, NEW w, NEW r, IsSeq(r)
    PROVE  Merge(Put(d, k, w), r) = Merge(d, <<<<k, w>>>> \o r)
<1> PICK es : es = <<<<k, w>>>> \o r
  OBVIOUS
<1>1. /\ DOMAIN ToDict(es) = {k} \cup DOMAIN ToDict(r)
      /\ \A x \in DOMAIN ToDict(r) : ToDict(es)[x] = ToDict(r)[x]
      /\ k \notin DOMAIN ToDict(r) => ToDict(es)[k] = w
  BY ToDictCons
<1>2. DOMAIN Put(d, k, w) = DOMAIN d \cup {k}
      /\ \A x \in DOMAIN d \cup {k} : Put(d, k, w)[x] = IF x = k THEN w ELSE d[x]
  BY DEF Put
<1> DEFINE D == DOMAIN d \cup {k} \cup DOMAIN ToDict(r)
           A(x) == IF x \in DOMAIN ToDict(r) THEN ToDict(r)[x] ELSE Put(d, k, w)[x]
           B(x) == IF x \in DOMAIN ToDict(es) THEN ToDict(es)[x] ELSE d[x]
<1>3. ASSUME NEW x \in D PROVE A(x) = B(x)
  BY <1>1, <1>2
<1>4. Merge(Put(d, k, w), r) = [x \in D |-> A(x)]
  BY <1>2 DEF Merge
<1>5. Merge(d, es) = [x \in D |-> B(x)]
  <2>1. DOMAIN d \cup DOMAIN ToDict(es) = D
    BY <1>1
  <2> QED BY <2>1 DEF Merge
<1> HIDE DEF A, B, D
<1> QED BY <1>3, <1>4, <1>5
-----------------------------------------------------------------------------
(* Texts as sequences; what completes one handler.                         *)

LEMMA ConsParts ==
    ASSUME NEW l \in Lexemes, NEW y \in Seq(Lexemes)
    PROVE  /\ <<l>> \o y \in Seq(Lexemes) /\ Len(<<l>> \o y) = Len(y) + 1
           /\ (<<l>> \o y)[1] = l
           /\ \A i \in 1..Len(y) : (<<l>> \o y)[i + 1] = y[i]
<1> PICK n \in Nat : n = Len(y)
  OBVIOUS
<1>1. <<l>> \in Seq(Lexemes) /\ Len(<<l>>) = 1 /\ <<l>>[1] = l
  OBVIOUS
<1> PICK x : x = <<l>> \o y
  OBVIOUS
<1>2. /\ x \in Seq(Lexemes) /\ Len(x) = 1 + n
      /\ \A i \in 1..(1 + n) : x[i] = IF i <= 1 THEN <<l>>[i] ELSE y[i - 1]
  BY <1>1, ConcatProperties
<1>3. x[1] = l /\ \A i \in 1..n : x[i + 1] = y[i]
  BY <1>1, <1>2
<1> QED BY <1>2, <1>3

LEMMA ConsInjective ==
    ASSUME NEW l \in Lexemes, NEW y \in Seq(Lexemes), NEW m \in Lexemes, NEW z \in Seq(Lexemes),
           <<l>> \o y = <<m>> \o z
    PROVE  l = m /\ y = z
<1> PICK x : x = <<l>> \o y /\ x = <<m>> \o z
  OBVIOUS
<1>1. /\ Len(x) = Len(y) + 1 /\ x[1] = l
      /\ \A i \in 1..Len(y) : x[i + 1] = y[i]
  BY ConsParts
<1>2. /\ Len(x) = Len(z) + 1 /\ x[1] = m
      /\ \A i \in 1..Len(z) : x[i + 1] = z[i]
  BY ConsParts
<1>3. Len(y) = Len(z) /\ Len(y) \in Nat
  BY <1>1, <1>2
<1>4. \A i \in 1..Len(y) : y[i] = z[i]
  BY <1>1, <1>2, <1>3
<1> QED BY <1>1, <1>2, <1>3, <1>4, SeqEqual

\* A text that is not empty begins with a lexeme.
LEMMA Uncons ==
    ASSUME NEW a \in Seq(Lexemes), Len(a) > 0
    PROVE  \E m \in Lexemes, c \in Seq(Lexemes) : a = <<m>> \o c
<1>1. Len(a) \in Nat /\ 1 \in 1..Len(a) /\ Len(a) \in 1..Len(a)
  OBVIOUS
<1>2. SubSeq(a, 1, Len(a)) = a
  BY SubSeqFull
<1>3. SubSeq(a, 1, Len(a)) = <<a[1]>> \o SubSeq(a, 2, Len(a))
  <2>1. SubSeq(a, 1, Len(a)) = <<a[1]>> \o SubSeq(a, 1 + 1, Len(a))
    BY <1>1, SubSeqRecursiveFirst
  <2> QED BY <2>1
<1>4. a[1] \in Lexemes
  BY <1>1
<1>5. SubSeq(a, 2, Len(a)) \in Seq(Lexemes)
  <2>1. \A i \in 2..Len(a) : a[i] \in Lexemes
    BY <1>1
  <2> QED BY <1>1, <2>1, SubSeqProperties
<1> QED BY <1>2, <1>3, <1>4, <1>5

\* The text l y is a b, and a is not empty.
Split(l, y, a, b) == \E c \in Seq(Lexemes) : a = <<l>> \o c /\ y = c \o b

LEMMA ConsSplit ==
    ASSUME NEW l \in Lexemes, NEW y \in Seq(Lexemes), NEW a \in Seq(Lexemes), Len(a) > 0,
           NEW b \in Seq(Lexemes), <<l>> \o y = a \o b
    PROVE  Split(l, y, a, b)
<1>1. PICK m \in Lexemes, c \in Seq(Lexemes) : a = <<m>> \o c
  BY Uncons
<1>2. <<m>> \in Seq(Lexemes)
  OBVIOUS
<1>3. a \o b = <<m>> \o (c \o b)
  BY <1>1, <1>2, ConcatAssociative
<1>4. c \o b \in Seq(Lexemes)
  BY Joined
<1>5. l = m /\ y = c \o b
  <2> PICK z : z = c \o b
    OBVIOUS
  <2>1. z \in Seq(Lexemes) /\ <<l>> \o y = <<m>> \o z
    BY <1>3, <1>4
  <2> QED BY ONLY <2>1, z = c \o b, l \in Lexemes, m \in Lexemes, y \in Seq(Lexemes), ConsInjective
<1> QED BY <1>1, <1>5 DEF Split

LEMMA Single1 ==
    ASSUME NEW l \in Lexemes, NEW c \in Seq(Lexemes), NEW m, <<l>> \o c = <<m>>
    PROVE  l = m /\ c = <<>>
<1> PICK x : x = <<l>> \o c /\ x = <<m>>
  OBVIOUS
<1>1. Len(x) = Len(c) + 1 /\ x[1] = l
  BY ConsParts
<1>2. Len(x) = 1 /\ x[1] = m
  OBVIOUS
<1>3. Len(c) = 0
  BY <1>1, <1>2
<1> QED BY <1>1, <1>2, <1>3, EmptySeq

LEMMA JoinAgain ==
    ASSUME NEW a \in Seq(Lexemes), NEW b \in Seq(Lexemes), NEW c \in Seq(Lexemes)
    PROVE  (a \o b) \o c = a \o (b \o c) /\ b \o c \in Seq(Lexemes) /\ a \o b \in Seq(Lexemes)
BY ConcatAssociative, Joined

LEMMA JoinNone ==
    ASSUME NEW a \in Seq(Lexemes)
    PROVE  a \o <<>> = a /\ <<>> \o a = a
BY ConcatEmptySeq

LEMMA AppendJoin ==
    ASSUME NEW T \in Seq(Lexemes), NEW l \in Lexemes, NEW y \in Seq(Lexemes)
    PROVE  Append(T, l) \o y = T \o (<<l>> \o y)
<1>1. <<l>> \in Seq(Lexemes) /\ Append(T, l) = T \o <<l>>
  BY AppendIsConcat
<1> QED BY <1>1, ConcatAssociative

\* What a list holds after v and then r.
ThenRest(s, v, r) == Append(s, v) \o r = s \o (<<v>> \o r)

LEMMA AppendThen ==
    ASSUME NEW s, IsSeq(s), NEW v, NEW r, IsSeq(r)
    PROVE  ThenRest(s, v, r) /\ IsSeq(Append(s, v))
<1> PICK A : s \in Seq(A)
  BY DEF IsSeq
<1> PICK B : r \in Seq(B)
  BY DEF IsSeq
<1> PICK S : S = A \cup B \cup {v}
  OBVIOUS
<1>1. s \in Seq(S) /\ r \in Seq(S) /\ <<v>> \in Seq(S) /\ v \in S
  BY SeqMonotonic
<1>2. Append(s, v) = s \o <<v>> /\ Append(s, v) \in Seq(S)
  BY <1>1, AppendIsConcat, AppendProperties
<1> QED BY <1>1, <1>2, ConcatAssociative DEF IsSeq, ThenRest
-----------------------------------------------------------------------------
ListOf(f)   == IF f.kind = "ARRAY" THEN "items" ELSE "entries"
Built(f, r) == IF f.kind = "ARRAY" THEN <<"list", f.val \o r>> ELSE <<"dict", Merge(f.val, r)>>

WellFormed(f) ==
    /\ IsFrame(f)
    /\ \/ f.kind = "ARRAY" /\ f.pos \in {"item", "comma"} /\ IsSeq(f.val)
       \/ /\ f.kind = "OBJECT" /\ f.pos \in {"key", "colon", "value", "comma"}
          /\ f.val = [k \in DOMAIN f.val |-> f.val[k]]

\* p is the value of an entry and the rest of an object; r are its entries.
EntryEnds(f, p, r) ==
    /\ IsHashable(f.key)
    /\ \E a, w, b, q : /\ IsValue(a, w) /\ IsRest("entries", b, q)
                       /\ p = a \o b /\ r = <<<<f.key, w>>>> \o q

\* From where the handler f is in its loop, p completes its container, with r
\* to be added.
LeadsOut(f, p, r) ==
    \/ f.pos \in {"item", "key"} /\ IsList(ListOf(f), p, r)
    \/ f.pos = "comma" /\ IsRest(ListOf(f), p, r)
    \/ f.pos = "value" /\ EntryEnds(f, p, r)
    \/ f.pos = "colon" /\ \E y : p = <<The("COLON")>> \o y /\ EntryEnds(f, y, r)

\* u is the container then.
Ends(f, p, u) == \E r : LeadsOut(f, p, r) /\ u = Built(f, r)

\* The handler that called for a value has got w.
Got(f, w) == CASE f.pos = "item"  -> [f EXCEPT !.val = Append(@, w), !.pos = "comma"]
               [] f.pos = "key"   -> [f EXCEPT !.key = w, !.pos = "colon"]
               [] f.pos = "value" -> [f EXCEPT !.val = Put(@, f.key, w),
                                               !.key = NULL, !.pos = "comma"]
Takes(f) == f.pos = "value" => IsHashable(f.key)
Answered(f, w, p, u) == Takes(f) /\ Ends(Got(f, w), p, u)

LEMMA ListOfIs == ASSUME NEW f PROVE ListOf(f) \in Lists
BY DEF ListOf, Lists

LEMMA EntryTyped ==
    ASSUME NEW f, NEW p, NEW r, EntryEnds(f, p, r)
    PROVE  p \in Seq(Lexemes) /\ Len(p) > 0 /\ IsSeq(r)
<1>1. PICK a, w, b, q : /\ IsValue(a, w) /\ IsRest("entries", b, q)
                        /\ p = a \o b /\ r = <<<<f.key, w>>>> \o q
  BY DEF EntryEnds
<1>2. a \in Seq(Lexemes) /\ Len(a) \in Nat /\ Len(a) > 0
  BY <1>1, ValueTyped
<1>3. b \in Seq(Lexemes) /\ Len(b) \in Nat /\ IsSeq(q)
  BY <1>1, RestTyped DEF Lists
<1>4. p \in Seq(Lexemes) /\ Len(p) = Len(a) + Len(b)
  BY <1>1, <1>2, <1>3, Joined
<1>5. IsSeq(r)
  BY <1>1, <1>3, IsSeqCons
<1> QED BY <1>2, <1>3, <1>4, <1>5

LEMMA EndsTyped ==
    ASSUME NEW f, NEW p, NEW u, Ends(f, p, u)
    PROVE  p \in Seq(Lexemes) /\ Len(p) > 0
<1>1. PICK r : LeadsOut(f, p, r)
  BY DEF Ends
<1>2. CASE IsList(ListOf(f), p, r)
  BY <1>2, ListTyped, ListOfIs
<1>3. CASE IsRest(ListOf(f), p, r)
  BY <1>3, RestTyped, ListOfIs
<1>4. CASE EntryEnds(f, p, r)
  BY <1>4, EntryTyped
<1>5. CASE \E y : p = <<The("COLON")>> \o y /\ EntryEnds(f, y, r)
  <2>1. PICK y : p = <<The("COLON")>> \o y /\ EntryEnds(f, y, r)
    BY <1>5
  <2>2. y \in Seq(Lexemes) /\ The("COLON") \in Lexemes
    BY <2>1, EntryTyped, TheIs DEF Punctuation
  <2>3. <<The("COLON")>> \o y \in Seq(Lexemes) /\ Len(<<The("COLON")>> \o y) = Len(y) + 1
    BY <2>2, ConsParts
  <2> QED BY <2>1, <2>2, <2>3
<1> QED BY <1>1, <1>2, <1>3, <1>4, <1>5 DEF LeadsOut

LEMMA TwoLexemes ==
    ASSUME NEW k \in Lexemes, NEW l \in Lexemes
    PROVE  <<k>> \o <<l>> = <<k, l>>
<1>1. <<k>> \in Seq(Lexemes) /\ <<l>> \in Seq(Lexemes) /\ <<k, l>> \in Seq(Lexemes)
  OBVIOUS
<1> PICK x : x = <<k>> \o <<l>>
  OBVIOUS
<1>2. /\ x \in Seq(Lexemes) /\ Len(x) = Len(<<l>>) + 1 /\ x[1] = k
      /\ \A i \in 1..Len(<<l>>) : x[i + 1] = <<l>>[i]
  BY <1>1, ConsParts
<1>3. Len(x) = 2 /\ x[2] = l
  BY <1>2
<1> PICK y : y = <<k, l>>
  OBVIOUS
<1>4. y \in Seq(Lexemes) /\ Len(y) = 2 /\ y[1] = k /\ y[2] = l
  OBVIOUS
<1>5. \A i \in 1..2 : x[i] = y[i]
  <2>1. \A i \in 1..2 : i = 1 \/ i = 2
    OBVIOUS
  <2> QED BY <1>2, <1>3, <1>4, <2>1
<1>6. x = y
  BY <1>2, <1>3, <1>4, <1>5, SeqEqual
<1> QED BY <1>6

LEMMA GotItem ==
    ASSUME NEW f, WellFormed(f), f.pos = "item", NEW w
    PROVE  /\ Got(f, w).kind = f.kind /\ f.kind = "ARRAY" /\ Got(f, w).pos = "comma"
           /\ Got(f, w).val = Append(f.val, w) /\ Got(f, w).key = f.key
           /\ IsSeq(f.val) /\ WellFormed(Got(f, w))
<1>1. f.kind = "ARRAY" /\ IsSeq(f.val) /\ IsFrame(f)
  BY DEF WellFormed
<1> PICK g : g = Got(f, w)
  OBVIOUS
<1>2. g = [f EXCEPT !.val = Append(@, w), !.pos = "comma"]
  BY DEF Got
<1>3. /\ g.kind = f.kind /\ g.pos = "comma" /\ g.val = Append(f.val, w) /\ g.key = f.key
      /\ IsFrame(g)
  BY <1>1, <1>2 DEF IsFrame
<1>4. IsSeq(Append(f.val, w))
  <2>1. IsSeq(<<>>)
    BY EmptySeq DEF IsSeq
  <2> QED BY <1>1, <2>1, AppendThen
<1> QED BY <1>1, <1>3, <1>4 DEF WellFormed

LEMMA GotKey ==
    ASSUME NEW f, WellFormed(f), f.pos = "key", NEW w
    PROVE  /\ Got(f, w).kind = f.kind /\ f.kind = "OBJECT" /\ Got(f, w).pos = "colon"
           /\ Got(f, w).val = f.val /\ Got(f, w).key = w
           /\ WellFormed(Got(f, w))
<1>1. f.kind = "OBJECT" /\ f.val = [k \in DOMAIN f.val |-> f.val[k]] /\ IsFrame(f)
  BY DEF WellFormed
<1> PICK g : g = Got(f, w)
  OBVIOUS
<1>2. g = [f EXCEPT !.key = w, !.pos = "colon"]
  BY DEF Got
<1>3. /\ g.kind = f.kind /\ g.pos = "colon" /\ g.val = f.val /\ g.key = w
      /\ IsFrame(g)
  BY <1>1, <1>2 DEF IsFrame
<1> QED BY <1>1, <1>3 DEF WellFormed

LEMMA GotValue ==
    ASSUME NEW f, WellFormed(f), f.pos = "value", NEW w
    PROVE  /\ Got(f, w).kind = f.kind /\ f.kind = "OBJECT" /\ Got(f, w).pos = "comma"
           /\ Got(f, w).val = Put(f.val, f.key, w) /\ Got(f, w).key = NULL
           /\ WellFormed(Got(f, w))
<1>1. f.kind = "OBJECT" /\ IsFrame(f)
  BY DEF WellFormed
<1> PICK g : g = Got(f, w)
  OBVIOUS
<1>2. g = [f EXCEPT !.val = Put(@, f.key, w), !.key = NULL, !.pos = "comma"]
  BY DEF Got
<1>3. /\ g.kind = f.kind /\ g.pos = "comma" /\ g.val = Put(f.val, f.key, w) /\ g.key = NULL
      /\ IsFrame(g)
  BY <1>1, <1>2 DEF IsFrame
<1>4. Put(f.val, f.key, w) = [k \in DOMAIN Put(f.val, f.key, w) |-> Put(f.val, f.key, w)[k]]
  BY DEF Put
<1> QED BY <1>1, <1>3, <1>4 DEF WellFormed

\* What a handler that calls for a value ends with.
LEMMA FrameOut ==
    ASSUME NEW f, WellFormed(f), Calling(f), NEW p, NEW u, Ends(f, p, u)
    PROVE  \/ f.pos # "value" /\ p = <<Closing(ListOf(f))>> /\ u = Built(f, <<>>)
           \/ \E a, w, b : /\ IsValue(a, w) /\ b \in Seq(Lexemes) /\ p = a \o b
                           /\ Answered(f, w, b, u)
<1>1. PICK r : LeadsOut(f, p, r) /\ u = Built(f, r)
  BY DEF Ends
<1>2. CASE f.pos = "item"
  <2>1. f.kind = "ARRAY" /\ IsSeq(f.val) /\ ListOf(f) = "items"
    BY <1>2, GotItem DEF ListOf
  <2>2. IsList("items", p, r)
    BY <1>1, <1>2, <2>1 DEF LeadsOut
  <2>3. CASE p = <<Closing("items")>> /\ r = <<>>
    BY <1>1, <1>2, <2>1, <2>3
  <2>4. CASE ItemFirst(p, r)
    <3>1. PICK a, w, b, q : IsValue(a, w) /\ IsRest("items", b, q) /\ p = a \o b /\ r = <<w>> \o q
      BY <2>4 DEF ItemFirst
    <3>2. b \in Seq(Lexemes) /\ IsSeq(q)
      BY <3>1, RestTyped DEF Lists
    <3> PICK g : g = Got(f, w)
      OBVIOUS
    <3>3. g.kind = "ARRAY" /\ g.pos = "comma" /\ g.val = Append(f.val, w)
      BY <1>2, <2>1, GotItem
    <3>4. LeadsOut(g, b, q)
      BY <3>1, <3>3 DEF LeadsOut, ListOf
    <3>5. Built(g, q) = Built(f, r)
      <4>1. Append(f.val, w) \o q = f.val \o (<<w>> \o q)
        <5> PICK s : s = f.val
          OBVIOUS
        <5>1. IsSeq(s) /\ IsSeq(q)
          BY <2>1, <3>2
        <5>2. ThenRest(s, w, q)
          BY <5>1, AppendThen
        <5> QED BY <5>2 DEF ThenRest
      <4>2. g.val \o q = f.val \o r
        BY ONLY <3>1, <3>3, <4>1
      <4> QED BY <2>1, <3>3, <4>2 DEF Built
    <3>6. Answered(f, w, b, u)
      BY <1>1, <1>2, <3>4, <3>5 DEF Answered, Takes, Ends
    <3> QED BY <3>1, <3>2, <3>6
  <2>5. (p = <<Closing("items")>> /\ r = <<>>) \/ ItemFirst(p, r)
    BY <2>2, ItemsOut
  <2> QED BY <2>3, <2>4, <2>5
<1>3. CASE f.pos = "key"
  <2>1. f.kind = "OBJECT" /\ ListOf(f) = "entries"
    BY <1>3, GotKey DEF ListOf
  <2>2. IsList("entries", p, r)
    BY <1>1, <1>3, <2>1 DEF LeadsOut
  <2>3. CASE p = <<Closing("entries")>> /\ r = <<>>
    BY <1>1, <1>3, <2>1, <2>3
  <2>4. CASE EntryFirst(p, r)
    <3>1. PICK k \in KeyLexemes : \E a, w, b, q :
                 /\ IsValue(a, w) /\ IsRest("entries", b, q)
                 /\ p = <<k, The("COLON")>> \o (a \o b) /\ r = <<<<ValOf[k], w>>>> \o q
      BY <2>4 DEF EntryFirst
    <3>2. PICK a, w, b, q :
                 /\ IsValue(a, w) /\ IsRest("entries", b, q)
                 /\ p = <<k, The("COLON")>> \o (a \o b) /\ r = <<<<ValOf[k], w>>>> \o q
      BY <3>1
    <3>3. a \in Seq(Lexemes) /\ b \in Seq(Lexemes)
      BY <3>2 DEF IsValue, IsRest
    <3> PICK g : g = Got(f, ValOf[k])
      OBVIOUS
    <3> PICK z : z = a \o b
      OBVIOUS
    <3> PICK y : y = <<The("COLON")>> \o z
      OBVIOUS
    <3>4. g.kind = "OBJECT" /\ g.pos = "colon" /\ g.val = f.val /\ g.key = ValOf[k]
      BY <1>3, <2>1, GotKey
    <3>5. k \in OfKind(ScalarKinds) /\ k \in Lexemes /\ IsHashable(ValOf[k])
      BY DEF KeyLexemes, OfKind
    <3>6. EntryEnds(g, z, r)
      BY <3>2, <3>4, <3>5 DEF EntryEnds
    <3>7. LeadsOut(g, y, r)
      BY <3>4, <3>6 DEF LeadsOut
    <3>8. Built(g, r) = Built(f, r)
      BY <2>1, <3>4 DEF Built
    <3>9. Answered(f, ValOf[k], y, u)
      BY <1>1, <1>3, <3>7, <3>8 DEF Answered, Takes, Ends
    <3>10. y \in Seq(Lexemes) /\ p = <<k>> \o y
      <4>1. The("COLON") \in Lexemes
        BY TheIs DEF Punctuation
      <4>2. <<k>> \in Seq(Lexemes) /\ <<The("COLON")>> \in Seq(Lexemes) /\ z \in Seq(Lexemes)
        BY <3>3, <3>5, <4>1, Joined
      <4>3. <<k>> \o <<The("COLON")>> = <<k, The("COLON")>>
        BY <3>5, <4>1, TwoLexemes
      <4> QED BY <3>2, <4>2, <4>3, ConcatAssociative, Joined
    <3>11. IsValue(<<k>>, ValOf[k])
      BY <3>5, ScalarIn
    <3> QED BY <3>9, <3>10, <3>11
  <2>5. (p = <<Closing("entries")>> /\ r = <<>>) \/ EntryFirst(p, r)
    BY <2>2, EntriesOut
  <2> QED BY <2>3, <2>4, <2>5
<1>4. CASE f.pos = "value"
  <2>1. f.kind = "OBJECT" /\ EntryEnds(f, p, r)
    BY <1>1, <1>4, GotValue DEF LeadsOut
  <2>2. PICK a, w, b, q : /\ IsValue(a, w) /\ IsRest("entries", b, q)
                          /\ p = a \o b /\ r = <<<<f.key, w>>>> \o q
    BY <2>1 DEF EntryEnds
  <2>3. b \in Seq(Lexemes) /\ IsSeq(q)
    BY <2>2, RestTyped DEF Lists
  <2> PICK g : g = Got(f, w)
    OBVIOUS
  <2>4. g.kind = "OBJECT" /\ g.pos = "comma" /\ g.val = Put(f.val, f.key, w)
    BY <1>4, <2>1, GotValue
  <2>5. LeadsOut(g, b, q)
    BY <2>2, <2>4 DEF LeadsOut, ListOf
  <2>6. Built(g, q) = Built(f, r)
    BY <2>1, <2>2, <2>3, <2>4, MergePut DEF Built
  <2>7. Answered(f, w, b, u)
    BY <1>1, <2>1, <2>5, <2>6 DEF Answered, Takes, Ends, EntryEnds
  <2> QED BY <2>2, <2>3, <2>7
<1> QED BY <1>2, <1>3, <1>4 DEF Calling

LEMMA FrameCloses ==
    ASSUME NEW f, f.pos \in {"item", "key", "comma"}
    PROVE  Ends(f, <<Closing(ListOf(f))>>, Built(f, <<>>))
<1>1. LeadsOut(f, <<Closing(ListOf(f))>>, <<>>)
  BY EndIn, ListOfIs DEF LeadsOut
<1> QED BY <1>1 DEF Ends

LEMMA FrameIn ==
    ASSUME NEW f, WellFormed(f), Calling(f), NEW a, NEW w, IsValue(a, w),
           NEW b, NEW u, Answered(f, w, b, u)
    PROVE  Ends(f, a \o b, u)
<1> PICK g : g = Got(f, w)
  OBVIOUS
<1>1. PICK q : LeadsOut(g, b, q) /\ u = Built(g, q)
  BY DEF Answered, Ends
<1>2. CASE f.pos = "item"
  <2>1. /\ f.kind = "ARRAY" /\ IsSeq(f.val) /\ ListOf(f) = "items"
        /\ g.kind = "ARRAY" /\ g.pos = "comma" /\ g.val = Append(f.val, w)
    BY <1>2, GotItem DEF ListOf
  <2>2. IsRest("items", b, q)
    BY <1>1, <2>1 DEF LeadsOut, ListOf
  <2>3. IsList("items", a \o b, <<w>> \o q)
    BY <2>2, ItemsIn
  <2>4. IsSeq(q)
    BY <2>2, RestTyped DEF Lists
  <2>5. Built(g, q) = Built(f, <<w>> \o q)
    <3>1. g.val \o q = f.val \o (<<w>> \o q)
      <4>1. Append(f.val, w) \o q = f.val \o (<<w>> \o q)
        <5> PICK s : s = f.val
          OBVIOUS
        <5>1. IsSeq(s) /\ IsSeq(q)
          BY <2>1, <2>4
        <5>2. ThenRest(s, w, q)
          BY <5>1, AppendThen
        <5> QED BY <5>2 DEF ThenRest
      <4> QED BY ONLY <2>1, <4>1
    <3> QED BY <2>1, <3>1 DEF Built
  <2>6. LeadsOut(f, a \o b, <<w>> \o q)
    BY <1>2, <2>1, <2>3 DEF LeadsOut
  <2> QED BY <1>1, <2>5, <2>6 DEF Ends
<1>3. CASE f.pos = "key"
  <2>1. /\ f.kind = "OBJECT" /\ ListOf(f) = "entries"
        /\ g.kind = "OBJECT" /\ g.pos = "colon" /\ g.val = f.val /\ g.key = w
    BY <1>3, GotKey DEF ListOf
  <2>2. PICK y : b = <<The("COLON")>> \o y /\ EntryEnds(g, y, q)
    BY <1>1, <2>1 DEF LeadsOut
  <2>3. PICK c, v, d, s : /\ IsValue(c, v) /\ IsRest("entries", d, s)
                          /\ y = c \o d /\ q = <<<<w, v>>>> \o s /\ IsHashable(w)
    BY <2>1, <2>2 DEF EntryEnds
  <2>4. PICK l \in OfKind(ScalarKinds) : a = <<l>> /\ w = ValOf[l]
    <3>1. \A r : ~IsHashable(<<"list", r>>) /\ ~IsHashable(<<"dict", r>>)
      BY DEF IsHashable
    <3>2. ScalarText(a, w) \/ ArrayText(a, w) \/ ObjectText(a, w)
      BY ValueOut
    <3> QED BY <2>3, <3>1, <3>2 DEF ScalarText, ArrayText, ObjectText
  <2>5. l \in KeyLexemes /\ l \in Lexemes
    BY <2>3, <2>4 DEF KeyLexemes, OfKind
  <2>6. IsList("entries", <<l, The("COLON")>> \o (c \o d), <<<<ValOf[l], v>>>> \o s)
    BY <2>3, <2>5, EntriesIn
  <2>7. a \o b = <<l, The("COLON")>> \o (c \o d)
    <3>1. The("COLON") \in Lexemes
      BY TheIs DEF Punctuation
    <3>2. y \in Seq(Lexemes)
      BY <2>2, EntryTyped
    <3>3. <<l>> \in Seq(Lexemes) /\ <<The("COLON")>> \in Seq(Lexemes)
      BY <2>5, <3>1, TwoLexemes
    <3>4. <<l>> \o <<The("COLON")>> = <<l, The("COLON")>>
      BY <2>5, <3>1, TwoLexemes
    <3>5. (<<l>> \o <<The("COLON")>>) \o y = <<l>> \o (<<The("COLON")>> \o y)
      BY <3>2, <3>3, ConcatAssociative
    <3> QED BY <2>2, <2>3, <2>4, <3>4, <3>5
  <2>8. LeadsOut(f, a \o b, q)
    BY <1>3, <2>1, <2>3, <2>4, <2>6, <2>7 DEF LeadsOut
  <2>9. Built(g, q) = Built(f, q)
    BY <2>1 DEF Built
  <2> QED BY <1>1, <2>8, <2>9 DEF Ends
<1>4. CASE f.pos = "value"
  <2>1. /\ f.kind = "OBJECT" /\ g.kind = "OBJECT" /\ g.pos = "comma"
        /\ g.val = Put(f.val, f.key, w)
    BY <1>4, GotValue
  <2>2. IsRest("entries", b, q)
    BY <1>1, <2>1 DEF LeadsOut, ListOf
  <2>3. IsSeq(q)
    BY <2>2, RestTyped DEF Lists
  <2>4. EntryEnds(f, a \o b, <<<<f.key, w>>>> \o q)
    BY <1>4, <2>2 DEF EntryEnds, Answered, Takes
  <2>5. Built(g, q) = Built(f, <<<<f.key, w>>>> \o q)
    BY <2>1, <2>3, MergePut DEF Built
  <2>6. LeadsOut(f, a \o b, <<<<f.key, w>>>> \o q)
    BY <1>4, <2>4 DEF LeadsOut
  <2> QED BY <1>1, <2>5, <2>6 DEF Ends
<1> QED BY <1>2, <1>3, <1>4 DEF Calling
-----------------------------------------------------------------------------
(* What completes a stack of handlers.                                     *)

\* The handler fs[i] takes ws[i] and its part of ys[i], and returns ws[i - 1].
Link(fs, ws, ys, i) == \E p \in Seq(Lexemes) :
    ys[i] = p \o ys[i - 1] /\ Answered(fs[i], ws[i], p, ws[i - 1])

\* The first n handlers of fs, given w, are completed by y and return v.
Given(fs, n, w, y, v) ==
    \E ws, ys :
        /\ ws[n] = w /\ ys[n] = y /\ ws[0] = v /\ ys[0] = <<>>
        /\ \A i \in 0..n : ys[i] \in Seq(Lexemes)
        /\ \A i \in 1..n : Link(fs, ws, ys, i)

Passed(fs, n, p, q, u, v) == /\ p \in Seq(Lexemes) /\ q \in Seq(Lexemes)
                             /\ Ends(fs[n], p, u) /\ Given(fs, n - 1, u, q, v)

\* y completes the handlers fs, which read v then.
Completes(fs, y, v) ==
    IF Len(fs) = 0 THEN IsValue(y, v)
    ELSE \E p, q, u : y = p \o q /\ Passed(fs, Len(fs), p, q, u, v)

\* The same of handlers that wait for a value.
Wants(fs, x, v) ==
    \E a, w, b : /\ IsValue(a, w) /\ b \in Seq(Lexemes) /\ x = a \o b
                 /\ Given(fs, Len(fs), w, b, v)

LEMMA GivenNone ==
    ASSUME NEW fs, NEW w, NEW y, NEW v
    PROVE  Given(fs, 0, w, y, v) <=> y = <<>> /\ v = w
<1>1. ASSUME Given(fs, 0, w, y, v) PROVE y = <<>> /\ v = w
  BY <1>1 DEF Given
<1>2. ASSUME y = <<>>, v = w PROVE Given(fs, 0, w, y, v)
  <2> DEFINE ws == [i \in 0..0 |-> w]
             ys == [i \in 0..0 |-> <<>>]
  <2>1. /\ ws[0] = w /\ ys[0] = y /\ ws[0] = v /\ ys[0] = <<>>
        /\ \A i \in 0..0 : ys[i] \in Seq(Lexemes)
        /\ \A i \in 1..0 : Link(fs, ws, ys, i)
    BY <1>2, EmptySeq
  <2> HIDE DEF ws, ys
  <2> QED BY <2>1 DEF Given
<1> QED BY <1>1, <1>2

LEMMA GivenOut ==
    ASSUME NEW fs, NEW n \in Nat, n > 0, NEW w, NEW y, NEW v, Given(fs, n, w, y, v)
    PROVE  /\ y \in Seq(Lexemes)
           /\ \E p, q \in Seq(Lexemes) : \E u :
                 y = p \o q /\ Answered(fs[n], w, p, u) /\ Given(fs, n - 1, u, q, v)
<1>1. PICK ws, ys :
        /\ ws[n] = w /\ ys[n] = y /\ ws[0] = v /\ ys[0] = <<>>
        /\ \A i \in 0..n : ys[i] \in Seq(Lexemes)
        /\ \A i \in 1..n : Link(fs, ws, ys, i)
  BY DEF Given
<1>2. PICK p \in Seq(Lexemes) : ys[n] = p \o ys[n - 1] /\ Answered(fs[n], ws[n], p, ws[n - 1])
  <2>1. Link(fs, ws, ys, n)
    BY <1>1
  <2> QED BY <2>1 DEF Link
<1>3. ys[n - 1] \in Seq(Lexemes) /\ ys[n] \in Seq(Lexemes)
  BY <1>1
<1>4. Given(fs, n - 1, ws[n - 1], ys[n - 1], v)
  <2>1. /\ \A i \in 0..(n - 1) : ys[i] \in Seq(Lexemes)
        /\ \A i \in 1..(n - 1) : Link(fs, ws, ys, i)
    BY <1>1
  <2> QED BY <1>1, <2>1 DEF Given
<1>5. y = p \o ys[n - 1] /\ Answered(fs[n], w, p, ws[n - 1])
  BY <1>1, <1>2
<1> QED BY <1>1, <1>3, <1>4, <1>5

LEMMA GivenIn ==
    ASSUME NEW fs, NEW n \in Nat, n > 0, NEW w, NEW v,
           NEW p \in Seq(Lexemes), NEW q \in Seq(Lexemes), NEW u,
           Answered(fs[n], w, p, u), Given(fs, n - 1, u, q, v)
    PROVE  Given(fs, n, w, p \o q, v)
<1>1. PICK ws, ys :
        /\ ws[n - 1] = u /\ ys[n - 1] = q /\ ws[0] = v /\ ys[0] = <<>>
        /\ \A i \in 0..(n - 1) : ys[i] \in Seq(Lexemes)
        /\ \A i \in 1..(n - 1) : Link(fs, ws, ys, i)
  BY DEF Given
<1> PICK y : y = p \o q
  OBVIOUS
<1> DEFINE xs == [i \in 0..n |-> IF i = n THEN w ELSE ws[i]]
           zs == [i \in 0..n |-> IF i = n THEN y ELSE ys[i]]
<1>2. \A i \in 0..(n - 1) : xs[i] = ws[i] /\ zs[i] = ys[i]
  OBVIOUS
<1>3. xs[n] = w /\ zs[n] = y
  OBVIOUS
<1> HIDE DEF xs, zs
<1>4. \A i \in 0..n : i \in 0..(n - 1) \/ i = n
  OBVIOUS
<1>5. y \in Seq(Lexemes)
  BY Joined
<1>6. \A i \in 0..n : zs[i] \in Seq(Lexemes)
  BY <1>1, <1>2, <1>3, <1>4, <1>5
<1>7. ASSUME NEW i \in 1..n
      PROVE  Link(fs, xs, zs, i)
  <2>1. CASE i = n
    <3>1. zs[i - 1] = q /\ xs[i - 1] = u
      BY <1>1, <1>2, <2>1
    <3> QED BY <1>3, <2>1, <3>1 DEF Link
  <2>2. CASE i # n
    <3>1. i \in 1..(n - 1) /\ i \in 0..(n - 1) /\ i - 1 \in 0..(n - 1)
      BY <2>2
    <3>2. Link(fs, ws, ys, i)
      BY <1>1, <3>1
    <3>3. xs[i] = ws[i] /\ zs[i] = ys[i] /\ xs[i - 1] = ws[i - 1] /\ zs[i - 1] = ys[i - 1]
      BY <1>2, <3>1
    <3> QED BY <3>2, <3>3 DEF Link
  <2> QED BY <2>1, <2>2
<1>8. xs[0] = v /\ zs[0] = <<>>
  BY <1>1, <1>2
<1>9. Given(fs, n, w, y, v)
  BY <1>3, <1>6, <1>7, <1>8 DEF Given
<1> QED BY <1>9

\* Only the handlers that are given the value matter.
LEMMA GivenSame ==
    ASSUME NEW fs, NEW gs, NEW n \in Nat, \A i \in 1..n : fs[i] = gs[i], NEW w, NEW y, NEW v,
           Given(fs, n, w, y, v)
    PROVE  Given(gs, n, w, y, v)
<1>1. PICK ws, ys :
        /\ ws[n] = w /\ ys[n] = y /\ ws[0] = v /\ ys[0] = <<>>
        /\ \A i \in 0..n : ys[i] \in Seq(Lexemes)
        /\ \A i \in 1..n : Link(fs, ws, ys, i)
  BY DEF Given
<1>2. \A i \in 1..n : Link(gs, ws, ys, i)
  BY <1>1 DEF Link
<1> QED BY <1>1, <1>2 DEF Given

LEMMA GivenTyped ==
    ASSUME NEW fs, NEW n \in Nat, NEW w, NEW y, NEW v, Given(fs, n, w, y, v)
    PROVE  y \in Seq(Lexemes)
BY DEF Given
-----------------------------------------------------------------------------
\* Handlers that wait for a value, the innermost where its list may end too.
Stack(fs) == IsSeq(fs) /\ Len(fs) \in Nat /\ \A i \in 1..Len(fs) : WellFormed(fs[i])

Closed(fs, x, v) ==
    \E y : /\ x = <<Closing(ListOf(fs[Len(fs)]))>> \o y /\ y \in Seq(Lexemes)
           /\ Given(fs, Len(fs) - 1, Built(fs[Len(fs)], <<>>), y, v)

LEMMA WaitsOut ==
    ASSUME NEW fs, Stack(fs), Len(fs) > 0, Calling(fs[Len(fs)]),
           NEW x, NEW v, Completes(fs, x, v)
    PROVE  (fs[Len(fs)].pos # "value" /\ Closed(fs, x, v)) \/ Wants(fs, x, v)
<1> PICK n \in Nat : n = Len(fs) /\ n > 0
  BY DEF Stack
<1> PICK f : f = fs[n]
  OBVIOUS
<1>1. WellFormed(f) /\ Calling(f)
  BY DEF Stack
<1>2. PICK p, q, u : x = p \o q /\ Passed(fs, n, p, q, u, v)
  BY DEF Completes
<1>3. p \in Seq(Lexemes) /\ q \in Seq(Lexemes) /\ Ends(f, p, u) /\ Given(fs, n - 1, u, q, v)
  BY <1>2 DEF Passed
<1>4. CASE f.pos # "value" /\ p = <<Closing(ListOf(f))>> /\ u = Built(f, <<>>)
  BY <1>2, <1>3, <1>4 DEF Closed
<1>5. CASE \E a, w, b : /\ IsValue(a, w) /\ b \in Seq(Lexemes) /\ p = a \o b
                        /\ Answered(f, w, b, u)
  <2>1. PICK a, w, b : /\ IsValue(a, w) /\ b \in Seq(Lexemes) /\ p = a \o b
                       /\ Answered(f, w, b, u)
    BY <1>5
  <2>2. Given(fs, n, w, b \o q, v)
    BY <1>3, <2>1, GivenIn
  <2>3. a \in Seq(Lexemes)
    BY <2>1 DEF IsValue
  <2>4. x = a \o (b \o q) /\ b \o q \in Seq(Lexemes)
    BY <1>2, <1>3, <2>1, <2>3, JoinAgain
  <2> QED BY <2>1, <2>2, <2>4 DEF Wants
<1>6. \/ f.pos # "value" /\ p = <<Closing(ListOf(f))>> /\ u = Built(f, <<>>)
      \/ \E a, w, b : /\ IsValue(a, w) /\ b \in Seq(Lexemes) /\ p = a \o b
                      /\ Answered(f, w, b, u)
  BY <1>1, <1>3, FrameOut
<1> QED BY <1>4, <1>5, <1>6

LEMMA WaitsIn ==
    ASSUME NEW fs, Stack(fs), Len(fs) > 0, Calling(fs[Len(fs)]),
           NEW x, NEW v, Wants(fs, x, v)
    PROVE  Completes(fs, x, v)
<1> PICK n \in Nat : n = Len(fs) /\ n > 0
  BY DEF Stack
<1> PICK f : f = fs[n]
  OBVIOUS
<1>1. WellFormed(f) /\ Calling(f)
  BY DEF Stack
<1>2. PICK a, w, b : /\ IsValue(a, w) /\ b \in Seq(Lexemes) /\ x = a \o b
                     /\ Given(fs, n, w, b, v)
  BY DEF Wants
<1>3. PICK p, q \in Seq(Lexemes) : \E u :
          b = p \o q /\ Answered(f, w, p, u) /\ Given(fs, n - 1, u, q, v)
  BY <1>2, GivenOut
<1>4. PICK u : b = p \o q /\ Answered(f, w, p, u) /\ Given(fs, n - 1, u, q, v)
  BY <1>3
<1>5. Ends(f, a \o p, u)
  BY <1>1, <1>2, <1>4, FrameIn
<1>6. x = (a \o p) \o q /\ a \o p \in Seq(Lexemes)
  <2>1. a \in Seq(Lexemes)
    BY <1>2 DEF IsValue
  <2> QED BY <1>2, <1>4, <2>1, JoinAgain
<1> PICK r : r = a \o p
  OBVIOUS
<1>7. x = r \o q /\ Passed(fs, n, r, q, u, v)
  BY <1>4, <1>5, <1>6 DEF Passed
<1>8. \E c, d, e : x = c \o d /\ Passed(fs, Len(fs), c, d, e, v)
  BY <1>7
<1>9. Len(fs) # 0
  OBVIOUS
<1> QED BY ONLY <1>8, <1>9 DEF Completes

LEMMA ClosedIn ==
    ASSUME NEW fs, Stack(fs), Len(fs) > 0,
           fs[Len(fs)].pos \in {"item", "key", "comma"}, NEW x, NEW v, Closed(fs, x, v)
    PROVE  Completes(fs, x, v)
<1> PICK n \in Nat : n = Len(fs) /\ n > 0
  BY DEF Stack
<1> PICK f : f = fs[n]
  OBVIOUS
<1>1. PICK y : /\ x = <<Closing(ListOf(f))>> \o y /\ y \in Seq(Lexemes)
               /\ Given(fs, n - 1, Built(f, <<>>), y, v)
  BY DEF Closed
<1>2. Ends(f, <<Closing(ListOf(f))>>, Built(f, <<>>))
  BY FrameCloses
<1>3. <<Closing(ListOf(f))>> \in Seq(Lexemes)
  BY ClosingIs, ListOfIs
<1> PICK r : r = <<Closing(ListOf(f))>>
  OBVIOUS
<1> PICK u : u = Built(f, <<>>)
  OBVIOUS
<1>4. x = r \o y /\ Passed(fs, n, r, y, u, v)
  BY <1>1, <1>2, <1>3 DEF Passed
<1>5. \E c, d, e : x = c \o d /\ Passed(fs, Len(fs), c, d, e, v)
  BY <1>4
<1>6. Len(fs) # 0
  OBVIOUS
<1> QED BY ONLY <1>5, <1>6 DEF Completes

LEMMA WantsNone ==
    ASSUME NEW fs, Len(fs) = 0, NEW x, NEW v
    PROVE  Completes(fs, x, v) <=> Wants(fs, x, v)
<1>1. ASSUME Completes(fs, x, v) PROVE Wants(fs, x, v)
  <2>1. IsValue(x, v)
    BY <1>1 DEF Completes
  <2>2. x \in Seq(Lexemes) /\ x = x \o <<>> /\ <<>> \in Seq(Lexemes)
    BY <2>1, JoinNone, EmptySeq DEF IsValue
  <2>3. Given(fs, 0, v, <<>>, v)
    BY GivenNone
  <2> QED BY <2>1, <2>2, <2>3 DEF Wants
<1>2. ASSUME Wants(fs, x, v) PROVE Completes(fs, x, v)
  <2>1. PICK a, w, b : /\ IsValue(a, w) /\ b \in Seq(Lexemes) /\ x = a \o b
                       /\ Given(fs, 0, w, b, v)
    BY <1>2 DEF Wants
  <2>2. b = <<>> /\ v = w
    BY <2>1, GivenNone
  <2>3. x = a
    BY <2>1, <2>2, JoinNone DEF IsValue
  <2> QED BY <2>1, <2>2, <2>3 DEF Completes
<1> QED BY <1>1, <1>2

LEMMA OpenArrayIs ==
    /\ OpenArray.kind = "ARRAY" /\ OpenArray.pos = "item" /\ OpenArray.val = <<>>
    /\ WellFormed(OpenArray)
<1>1. IsSeq(<<>>)
  BY EmptySeq DEF IsSeq
<1> QED BY <1>1 DEF OpenArray, WellFormed, IsFrame

LEMMA OpenObjectIs ==
    /\ OpenObject.kind = "OBJECT" /\ OpenObject.pos = "key" /\ OpenObject.val = <<>>
    /\ WellFormed(OpenObject)
<1>1. <<>> = [k \in DOMAIN <<>> |-> <<>>[k]]
  OBVIOUS
<1> QED BY <1>1 DEF OpenObject, WellFormed, IsFrame

\* What the lexeme l begins is what the handler f goes on with.
Opens(l, f) == \A c \in Seq(Lexemes) : \A w : IsValue(<<l>> \o c, w) <=> Ends(f, c, w)

LEMMA ValueBegins ==
    ASSUME NEW l \in Lexemes, NEW c \in Seq(Lexemes), NEW w,
           IsValue(<<l>> \o c, w)
    PROVE  \/ KindOf[l] \in ScalarKinds /\ c = <<>> /\ w = ValOf[l]
           \/ KindOf[l] = "BRACKET_OPEN" /\ Ends(OpenArray, c, w)
           \/ KindOf[l] = "BRACE_OPEN" /\ Ends(OpenObject, c, w)
<1> PICK x : x = <<l>> \o c
  OBVIOUS
<1>1. CASE ScalarText(x, w)
  <2>1. PICK m \in OfKind(ScalarKinds) : x = <<m>> /\ w = ValOf[m]
    BY <1>1 DEF ScalarText
  <2>2. l = m /\ c = <<>>
    BY <2>1, Single1
  <2> QED BY <2>1, <2>2 DEF OfKind
<1>2. CASE ArrayText(x, w)
  <2>1. PICK y, r : IsList("items", y, r) /\ x = <<The("BRACKET_OPEN")>> \o y /\ w = <<"list", r>>
    BY <1>2 DEF ArrayText
  <2>2. y \in Seq(Lexemes) /\ IsSeq(r)
    BY <2>1, ListTyped DEF Lists
  <2>3. The("BRACKET_OPEN") \in Lexemes /\ KindOf[The("BRACKET_OPEN")] = "BRACKET_OPEN"
    BY TheIs DEF Punctuation
  <2>4. l = The("BRACKET_OPEN") /\ c = y
    BY <2>1, <2>2, <2>3, ConsInjective
  <2>5. <<>> \o r = r
    BY <2>2, ConcatEmptySeq DEF IsSeq
  <2>6. LeadsOut(OpenArray, c, r) /\ w = Built(OpenArray, r)
    BY <2>1, <2>4, <2>5, OpenArrayIs DEF LeadsOut, ListOf, Built
  <2> QED BY <2>3, <2>4, <2>6 DEF Ends
<1>3. CASE ObjectText(x, w)
  <2>1. PICK y, r : /\ IsList("entries", y, r) /\ x = <<The("BRACE_OPEN")>> \o y
                    /\ w = <<"dict", ToDict(r)>>
    BY <1>3 DEF ObjectText
  <2>2. y \in Seq(Lexemes)
    BY <2>1, ListTyped DEF Lists
  <2>3. The("BRACE_OPEN") \in Lexemes /\ KindOf[The("BRACE_OPEN")] = "BRACE_OPEN"
    BY TheIs DEF Punctuation
  <2>4. l = The("BRACE_OPEN") /\ c = y
    BY <2>1, <2>2, <2>3, ConsInjective
  <2>5. Merge(<<>>, r) = ToDict(r)
    BY MergeAll
  <2>6. LeadsOut(OpenObject, c, r) /\ w = Built(OpenObject, r)
    BY <2>1, <2>4, <2>5, OpenObjectIs DEF LeadsOut, ListOf, Built
  <2> QED BY <2>3, <2>4, <2>6 DEF Ends
<1>4. ScalarText(x, w) \/ ArrayText(x, w) \/ ObjectText(x, w)
  <2>1. IsValue(x, w)
    OBVIOUS
  <2> QED BY <2>1, ValueOut
<1> QED BY <1>1, <1>2, <1>3, <1>4

LEMMA ArrayOpens ==
    ASSUME NEW l \in Lexemes, KindOf[l] = "BRACKET_OPEN"
    PROVE  Opens(l, OpenArray)
<1> SUFFICES ASSUME NEW c \in Seq(Lexemes), NEW w
             PROVE  IsValue(<<l>> \o c, w) <=> Ends(OpenArray, c, w)
  BY DEF Opens
<1>1. l = The("BRACKET_OPEN")
  BY TheIs DEF Punctuation
<1>2. ASSUME Ends(OpenArray, c, w) PROVE IsValue(<<l>> \o c, w)
  <2>1. PICK r : LeadsOut(OpenArray, c, r) /\ w = Built(OpenArray, r)
    BY <1>2 DEF Ends
  <2>2. IsList("items", c, r)
    BY <2>1, OpenArrayIs DEF LeadsOut, ListOf
  <2>3. IsSeq(r)
    BY <2>2, ListTyped DEF Lists
  <2>4. <<>> \o r = r
    BY <2>3, ConcatEmptySeq DEF IsSeq
  <2>5. w = <<"list", r>>
    BY <2>1, <2>4, OpenArrayIs DEF Built
  <2> QED BY <1>1, <2>2, <2>5, ArrayIn
<1>3. ASSUME IsValue(<<l>> \o c, w) PROVE Ends(OpenArray, c, w)
  BY <1>3, ValueBegins DEF ScalarKinds
<1> QED BY <1>2, <1>3

LEMMA ObjectOpens ==
    ASSUME NEW l \in Lexemes, KindOf[l] = "BRACE_OPEN"
    PROVE  Opens(l, OpenObject)
<1> SUFFICES ASSUME NEW c \in Seq(Lexemes), NEW w
             PROVE  IsValue(<<l>> \o c, w) <=> Ends(OpenObject, c, w)
  BY DEF Opens
<1>1. l = The("BRACE_OPEN")
  BY TheIs DEF Punctuation
<1>2. ASSUME Ends(OpenObject, c, w) PROVE IsValue(<<l>> \o c, w)
  <2>1. PICK r : LeadsOut(OpenObject, c, r) /\ w = Built(OpenObject, r)
    BY <1>2 DEF Ends
  <2>2. IsList("entries", c, r)
    BY <2>1, OpenObjectIs DEF LeadsOut, ListOf
  <2>3. Merge(<<>>, r) = ToDict(r)
    BY MergeAll
  <2>4. w = <<"dict", ToDict(r)>>
    BY <2>1, <2>3, OpenObjectIs DEF Built
  <2> QED BY <1>1, <2>2, <2>4, ObjectIn
<1>3. ASSUME IsValue(<<l>> \o c, w) PROVE Ends(OpenObject, c, w)
  BY <1>3, ValueBegins DEF ScalarKinds
<1> QED BY <1>2, <1>3
-----------------------------------------------------------------------------
(* One lexeme where a value may begin.                                     *)

LEMMA WantsScalar ==
    ASSUME NEW fs, Len(fs) \in Nat, NEW l \in Lexemes, KindOf[l] \in ScalarKinds,
           NEW y \in Seq(Lexemes), NEW v
    PROVE  Wants(fs, <<l>> \o y, v) <=> Given(fs, Len(fs), ValOf[l], y, v)
<1>1. ASSUME Wants(fs, <<l>> \o y, v) PROVE Given(fs, Len(fs), ValOf[l], y, v)
  <2>1. PICK a, w, b : /\ IsValue(a, w) /\ b \in Seq(Lexemes) /\ <<l>> \o y = a \o b
                       /\ Given(fs, Len(fs), w, b, v)
    BY <1>1 DEF Wants
  <2>2. a \in Seq(Lexemes) /\ Len(a) > 0
    BY <2>1, ValueTyped
  <2>3. PICK c \in Seq(Lexemes) : a = <<l>> \o c /\ y = c \o b
    <3>1. Split(l, y, a, b)
      BY <2>1, <2>2, ConsSplit
    <3> QED BY <3>1 DEF Split
  <2>4. IsValue(<<l>> \o c, w)
    BY <2>1, <2>3
  <2>5. c = <<>> /\ w = ValOf[l]
    BY <2>4, ValueBegins DEF ScalarKinds
  <2>6. y = b
    BY <2>1, <2>3, <2>5, JoinNone
  <2> QED BY <2>1, <2>5, <2>6
<1>2. ASSUME Given(fs, Len(fs), ValOf[l], y, v) PROVE Wants(fs, <<l>> \o y, v)
  <2>1. IsValue(<<l>>, ValOf[l])
    BY ScalarIn DEF OfKind
  <2> QED BY <1>2, <2>1 DEF Wants
<1> QED BY <1>1, <1>2

LEMMA WantsOther ==
    ASSUME NEW fs, NEW l \in Lexemes,
           KindOf[l] \notin ScalarKinds \cup {"BRACKET_OPEN", "BRACE_OPEN"},
           NEW y \in Seq(Lexemes), NEW v
    PROVE  ~Wants(fs, <<l>> \o y, v)
<1> SUFFICES ASSUME Wants(fs, <<l>> \o y, v) PROVE FALSE
  OBVIOUS
<1>1. PICK a, w, b : /\ IsValue(a, w) /\ b \in Seq(Lexemes) /\ <<l>> \o y = a \o b
  BY DEF Wants
<1>2. a \in Seq(Lexemes) /\ Len(a) > 0
  BY <1>1, ValueTyped
<1>3. PICK c \in Seq(Lexemes) : a = <<l>> \o c /\ y = c \o b
  <2>1. Split(l, y, a, b)
    BY <1>1, <1>2, ConsSplit
  <2> QED BY <2>1 DEF Split
<1>4. IsValue(<<l>> \o c, w)
  BY <1>1, <1>3
<1> QED BY <1>4, ValueBegins

LEMMA PushIs ==
    ASSUME NEW fs, Stack(fs), NEW f, WellFormed(f)
    PROVE  /\ Stack(Append(fs, f)) /\ Len(Append(fs, f)) = Len(fs) + 1
           /\ \A i \in 1..Len(fs) : Append(fs, f)[i] = fs[i]
           /\ Append(fs, f)[Len(fs) + 1] = f
<1>1. PICK S : fs \in Seq(S)
  BY DEF Stack, IsSeq
<1>2. fs \in Seq(S \cup {f})
  BY <1>1, SeqMonotonic
<1> PICK gs : gs = Append(fs, f)
  OBVIOUS
<1> PICK n \in Nat : n = Len(fs)
  BY <1>1
<1>3. /\ gs \in Seq(S \cup {f}) /\ Len(gs) = n + 1
      /\ \A i \in 1..n : gs[i] = fs[i]
      /\ gs[n + 1] = f
  BY <1>2, AppendProperties
<1>4. \A i \in 1..(n + 1) : i \in 1..n \/ i = n + 1
  OBVIOUS
<1>5. \A i \in 1..(n + 1) : WellFormed(gs[i])
  BY <1>3, <1>4 DEF Stack
<1> QED BY <1>3, <1>5 DEF Stack, IsSeq

LEMMA WantsOpen ==
    ASSUME NEW fs, Stack(fs), NEW l \in Lexemes, NEW f, WellFormed(f), Opens(l, f),
           NEW y \in Seq(Lexemes), NEW v
    PROVE  Wants(fs, <<l>> \o y, v) <=> Completes(Append(fs, f), y, v)
<1> PICK n \in Nat : n = Len(fs)
  BY DEF Stack
<1> PICK gs : gs = Append(fs, f)
  OBVIOUS
<1>1. Len(gs) = n + 1 /\ gs[n + 1] = f /\ \A i \in 1..n : gs[i] = fs[i]
  BY PushIs
<1>2. ASSUME Wants(fs, <<l>> \o y, v) PROVE Completes(gs, y, v)
  <2>1. PICK a, w, b : /\ IsValue(a, w) /\ b \in Seq(Lexemes) /\ <<l>> \o y = a \o b
                       /\ Given(fs, n, w, b, v)
    BY <1>2 DEF Wants
  <2>2. a \in Seq(Lexemes) /\ Len(a) > 0
    BY <2>1, ValueTyped
  <2>3. PICK c \in Seq(Lexemes) : a = <<l>> \o c /\ y = c \o b
    <3>1. Split(l, y, a, b)
      BY <2>1, <2>2, ConsSplit
    <3> QED BY <3>1 DEF Split
  <2>4. Ends(f, c, w)
    BY <2>1, <2>3 DEF Opens
  <2>5. Given(gs, n, w, b, v)
    BY <1>1, <2>1, GivenSame
  <2>6. y = c \o b /\ Passed(gs, n + 1, c, b, w, v)
    <3>1. (n + 1) - 1 = n
      OBVIOUS
    <3> QED BY <1>1, <2>1, <2>3, <2>4, <2>5, <3>1 DEF Passed
  <2>7. \E p, q, u : y = p \o q /\ Passed(gs, Len(gs), p, q, u, v)
    BY <1>1, <2>6
  <2>8. Len(gs) # 0
    BY <1>1
  <2> QED BY ONLY <2>7, <2>8 DEF Completes
<1>3. ASSUME Completes(gs, y, v) PROVE Wants(fs, <<l>> \o y, v)
  <2>1. Len(gs) # 0
    BY <1>1
  <2>2. PICK p, q, u : y = p \o q /\ Passed(gs, n + 1, p, q, u, v)
    BY <1>1, <1>3, <2>1 DEF Completes
  <2>3. p \in Seq(Lexemes) /\ q \in Seq(Lexemes) /\ Ends(f, p, u) /\ Given(gs, n, u, q, v)
    <3>1. (n + 1) - 1 = n
      OBVIOUS
    <3> QED BY <1>1, <2>2, <3>1 DEF Passed
  <2>4. Given(fs, n, u, q, v)
    BY <1>1, <2>3, GivenSame
  <2>5. IsValue(<<l>> \o p, u)
    BY <2>3 DEF Opens
  <2>6. <<l>> \o y = (<<l>> \o p) \o q
    <3>1. <<l>> \in Seq(Lexemes)
      OBVIOUS
    <3> QED BY <2>2, <2>3, <3>1, JoinAgain
  <2> QED BY <2>3, <2>4, <2>5, <2>6 DEF Wants
<1> QED BY <1>2, <1>3
-----------------------------------------------------------------------------
(* One lexeme after an item, an entry or a key.                            *)

\* With l the handler f returns; goes on as g; has no way to go on.
Shuts(f, l)    == \A c \in Seq(Lexemes) : \A u : Ends(f, <<l>> \o c, u) <=> c = <<>> /\ u = Built(f, <<>>)
Moves(f, l, g) == \A c \in Seq(Lexemes) : \A u : Ends(f, <<l>> \o c, u) <=> Ends(g, c, u)
Stuck(f, l)    == \A c \in Seq(Lexemes) : \A u : ~Ends(f, <<l>> \o c, u)

LEMMA ClosingKind ==
    ASSUME NEW f, NEW l \in Lexemes
    PROVE  l = Closing(ListOf(f))
               <=> KindOf[l] = IF f.kind = "ARRAY" THEN "BRACKET_CLOSE" ELSE "BRACE_CLOSE"
<1>1. "BRACKET_CLOSE" \in Punctuation /\ "BRACE_CLOSE" \in Punctuation
  BY DEF Punctuation
<1>2. CASE f.kind = "ARRAY"
  <2>1. Closing(ListOf(f)) = The("BRACKET_CLOSE")
    BY <1>2 DEF Closing, ListOf
  <2> QED BY <1>1, <1>2, <2>1, TheIs
<1>3. CASE f.kind # "ARRAY"
  <2>1. Closing(ListOf(f)) = The("BRACE_CLOSE")
    BY <1>3 DEF Closing, ListOf
  <2> QED BY <1>1, <1>3, <2>1, TheIs
<1> QED BY <1>2, <1>3

LEMMA ClosingNoValue ==
    ASSUME NEW f
    PROVE  /\ Closing(ListOf(f)) \in Lexemes
           /\ KindOf[Closing(ListOf(f))]
                  \notin ScalarKinds \cup {"BRACKET_OPEN", "BRACE_OPEN", "COMMA", "COLON"}
<1>1. Closing(ListOf(f)) \in Lexemes
  BY ClosingIs, ListOfIs
<1>2. KindOf[Closing(ListOf(f))] \in {"BRACKET_CLOSE", "BRACE_CLOSE"}
  BY <1>1, ClosingKind
<1> QED BY <1>1, <1>2 DEF ScalarKinds

LEMMA CommaIs ==
    /\ The("COMMA") \in Lexemes /\ The("COLON") \in Lexemes
    /\ KindOf[The("COMMA")] = "COMMA" /\ KindOf[The("COLON")] = "COLON"
    /\ \A l \in Lexemes : /\ KindOf[l] = "COMMA" <=> l = The("COMMA")
                          /\ KindOf[l] = "COLON" <=> l = The("COLON")
<1>1. "COMMA" \in Punctuation /\ "COLON" \in Punctuation
  BY DEF Punctuation
<1> QED BY <1>1, TheIs

\* What a handler that waits for a value ends with begins with the closing
\* bracket or with a value.
LEMMA CallingShuts ==
    ASSUME NEW f, WellFormed(f), f.pos \in {"item", "key"},
           NEW l, l = Closing(ListOf(f))
    PROVE  Shuts(f, l)
<1> SUFFICES ASSUME NEW c \in Seq(Lexemes), NEW u
             PROVE  Ends(f, <<l>> \o c, u) <=> c = <<>> /\ u = Built(f, <<>>)
  BY DEF Shuts
<1>1. l \in Lexemes /\ KindOf[l] \notin ScalarKinds \cup {"BRACKET_OPEN", "BRACE_OPEN"}
  BY ClosingNoValue
<1> PICK p : p = <<l>> \o c
  OBVIOUS
<1>2. ASSUME Ends(f, p, u) PROVE c = <<>> /\ u = Built(f, <<>>)
  <2>1. CASE p = <<Closing(ListOf(f))>> /\ u = Built(f, <<>>)
    BY <1>1, <2>1, Single1
  <2>2. CASE \E a, w, b : /\ IsValue(a, w) /\ b \in Seq(Lexemes) /\ p = a \o b
                          /\ Answered(f, w, b, u)
    <3>1. PICK a, w, b : IsValue(a, w) /\ b \in Seq(Lexemes) /\ p = a \o b
      BY <2>2
    <3>2. a \in Seq(Lexemes) /\ Len(a) > 0
      BY <3>1, ValueTyped
    <3>3. Split(l, c, a, b)
      BY <1>1, <3>1, <3>2, ConsSplit
    <3>4. PICK d \in Seq(Lexemes) : a = <<l>> \o d
      BY <3>3 DEF Split
    <3>5. IsValue(<<l>> \o d, w)
      BY <3>1, <3>4
    <3> QED BY <1>1, <3>5, ValueBegins
  <2>3. Calling(f)
    BY DEF Calling
  <2>4. \/ f.pos # "value" /\ p = <<Closing(ListOf(f))>> /\ u = Built(f, <<>>)
        \/ \E a, w, b : /\ IsValue(a, w) /\ b \in Seq(Lexemes) /\ p = a \o b
                        /\ Answered(f, w, b, u)
    BY <1>2, <2>3, FrameOut
  <2> QED BY <2>1, <2>2, <2>4
<1>3. ASSUME c = <<>>, u = Built(f, <<>>) PROVE Ends(f, p, u)
  <2>1. p = <<l>>
    <3>1. <<l>> \in Seq(Lexemes)
      BY <1>1
    <3> QED BY <1>3, <3>1, JoinNone
  <2>2. Ends(f, <<Closing(ListOf(f))>>, Built(f, <<>>))
    BY FrameCloses
  <2> QED BY <1>3, <2>1, <2>2
<1> QED BY <1>2, <1>3

\* After an item or an entry.
LEMMA CommaOut ==
    ASSUME NEW f, f.pos = "comma", NEW l \in Lexemes,
           NEW c \in Seq(Lexemes), NEW u, Ends(f, <<l>> \o c, u)
    PROVE  \/ l = Closing(ListOf(f)) /\ c = <<>> /\ u = Built(f, <<>>)
           \/ l = The("COMMA") /\ \E r : IsList(ListOf(f), c, r) /\ u = Built(f, r)
<1> PICK p : p = <<l>> \o c
  OBVIOUS
<1> PICK list \in Lists : list = ListOf(f)
  BY ListOfIs
<1>1. PICK r : IsRest(list, p, r) /\ u = Built(f, r)
  BY DEF Ends, LeadsOut
<1>2. CASE p = <<Closing(list)>> /\ r = <<>>
  BY <1>1, <1>2, Single1
<1>3. CASE CommaFirst(list, p, r)
  <2>1. PICK y : IsList(list, y, r) /\ p = <<The("COMMA")>> \o y
    BY <1>3 DEF CommaFirst
  <2>2. y \in Seq(Lexemes)
    BY <2>1 DEF IsList
  <2>3. l = The("COMMA") /\ c = y
    BY <2>1, <2>2, CommaIs, ConsInjective
  <2> QED BY <1>1, <2>1, <2>3
<1>4. \/ p = <<Closing(list)>> /\ r = <<>>
      \/ CommaFirst(list, p, r)
  BY <1>1, RestOut
<1> QED BY <1>2, <1>3, <1>4

LEMMA CommaShuts ==
    ASSUME NEW f, f.pos = "comma", NEW l, l = Closing(ListOf(f))
    PROVE  Shuts(f, l)
<1> SUFFICES ASSUME NEW c \in Seq(Lexemes), NEW u
             PROVE  Ends(f, <<l>> \o c, u) <=> c = <<>> /\ u = Built(f, <<>>)
  BY DEF Shuts
<1>1. l \in Lexemes /\ KindOf[l] # "COMMA"
  BY ClosingNoValue
<1>2. ASSUME Ends(f, <<l>> \o c, u) PROVE c = <<>> /\ u = Built(f, <<>>)
  BY <1>1, <1>2, CommaIs, CommaOut
<1>3. ASSUME c = <<>>, u = Built(f, <<>>) PROVE Ends(f, <<l>> \o c, u)
  <2>1. <<l>> \o c = <<l>>
    <3>1. <<l>> \in Seq(Lexemes)
      BY <1>1
    <3> QED BY <1>3, <3>1, JoinNone
  <2>2. Ends(f, <<Closing(ListOf(f))>>, Built(f, <<>>))
    BY FrameCloses
  <2> QED BY <1>3, <2>1, <2>2
<1> QED BY <1>2, <1>3

LEMMA CommaMoves ==
    ASSUME NEW f, f.pos = "comma", NEW l, l = The("COMMA"),
           NEW g, g.kind = f.kind, g.val = f.val, g.pos \in {"item", "key"}
    PROVE  Moves(f, l, g)
<1> SUFFICES ASSUME NEW c \in Seq(Lexemes), NEW u
             PROVE  Ends(f, <<l>> \o c, u) <=> Ends(g, c, u)
  BY DEF Moves
<1>1. l \in Lexemes /\ KindOf[l] = "COMMA"
  BY CommaIs
<1>2. ListOf(g) = ListOf(f) /\ \A r : Built(g, r) = Built(f, r)
  BY DEF ListOf, Built
<1>3. ASSUME Ends(f, <<l>> \o c, u) PROVE Ends(g, c, u)
  <2>1. l # Closing(ListOf(f))
    BY <1>1, ClosingNoValue
  <2>2. PICK r : IsList(ListOf(f), c, r) /\ u = Built(f, r)
    BY <1>1, <1>3, <2>1, CommaOut
  <2> QED BY <1>2, <2>2 DEF Ends, LeadsOut
<1>4. ASSUME Ends(g, c, u) PROVE Ends(f, <<l>> \o c, u)
  <2>1. PICK r : IsList(ListOf(f), c, r) /\ u = Built(f, r)
    BY <1>2, <1>4 DEF Ends, LeadsOut
  <2>2. IsRest(ListOf(f), <<l>> \o c, r)
    BY <2>1, RestIn, ListOfIs
  <2>3. LeadsOut(f, <<l>> \o c, r)
    BY <2>2 DEF LeadsOut
  <2> QED BY <2>1, <2>3 DEF Ends
<1> QED BY <1>3, <1>4

LEMMA CommaStuck ==
    ASSUME NEW f, f.pos = "comma", NEW l \in Lexemes,
           l # Closing(ListOf(f)), l # The("COMMA")
    PROVE  Stuck(f, l)
BY CommaOut DEF Stuck

\* After a key.
LEMMA ColonOut ==
    ASSUME NEW f, f.pos = "colon", NEW l \in Lexemes,
           NEW c \in Seq(Lexemes), NEW u, Ends(f, <<l>> \o c, u)
    PROVE  l = The("COLON") /\ \E r : EntryEnds(f, c, r) /\ u = Built(f, r)
<1> PICK p : p = <<l>> \o c
  OBVIOUS
<1>1. PICK r : LeadsOut(f, p, r) /\ u = Built(f, r)
  BY DEF Ends
<1>2. PICK y : p = <<The("COLON")>> \o y /\ EntryEnds(f, y, r)
  BY <1>1 DEF LeadsOut
<1>3. y \in Seq(Lexemes)
  BY <1>2, EntryTyped
<1>4. l = The("COLON") /\ c = y
  BY <1>2, <1>3, CommaIs, ConsInjective
<1> QED BY <1>1, <1>2, <1>4

LEMMA ColonMoves ==
    ASSUME NEW f, f.pos = "colon", NEW l, l = The("COLON"),
           NEW g, g.kind = f.kind, g.val = f.val, g.key = f.key, g.pos = "value"
    PROVE  Moves(f, l, g)
<1> SUFFICES ASSUME NEW c \in Seq(Lexemes), NEW u
             PROVE  Ends(f, <<l>> \o c, u) <=> Ends(g, c, u)
  BY DEF Moves
<1>1. l \in Lexemes
  BY CommaIs
<1>2. \A r : Built(g, r) = Built(f, r) /\ (EntryEnds(g, c, r) <=> EntryEnds(f, c, r))
  BY DEF Built, EntryEnds
<1>3. ASSUME Ends(f, <<l>> \o c, u) PROVE Ends(g, c, u)
  <2>1. PICK r : EntryEnds(f, c, r) /\ u = Built(f, r)
    BY <1>1, <1>3, ColonOut
  <2> QED BY <1>2, <2>1 DEF Ends, LeadsOut
<1>4. ASSUME Ends(g, c, u) PROVE Ends(f, <<l>> \o c, u)
  <2>1. PICK r : EntryEnds(f, c, r) /\ u = Built(f, r)
    BY <1>2, <1>4 DEF Ends, LeadsOut
  <2>2. LeadsOut(f, <<l>> \o c, r)
    BY <2>1 DEF LeadsOut
  <2> QED BY <2>1, <2>2 DEF Ends
<1> QED BY <1>3, <1>4

LEMMA ColonStuck ==
    ASSUME NEW f, f.pos = "colon", NEW l \in Lexemes, l # The("COLON")
    PROVE  Stuck(f, l)
BY ColonOut DEF Stuck

\* y completes g on top of the first n handlers of fs.
Above(fs, n, g, y, v) ==
    \E p, q \in Seq(Lexemes) : \E u : y = p \o q /\ Ends(g, p, u) /\ Given(fs, n, u, q, v)

LEMMA AsIs ==
    ASSUME NEW fs, Stack(fs), Len(fs) > 0, NEW g, WellFormed(g)
    PROVE  /\ Stack(As(fs, g)) /\ Len(As(fs, g)) = Len(fs)
           /\ \A i \in 1..(Len(fs) - 1) : As(fs, g)[i] = fs[i]
           /\ As(fs, g)[Len(fs)] = g
<1>1. PICK S : fs \in Seq(S)
  BY DEF Stack, IsSeq
<1>2. fs \in Seq(S \cup {g})
  BY <1>1, SeqMonotonic
<1> PICK n \in Nat : n = Len(fs) /\ n > 0
  BY <1>1
<1> PICK gs : gs = As(fs, g)
  OBVIOUS
<1>3. /\ gs \in Seq(S \cup {g}) /\ Len(gs) = n
      /\ \A i \in 1..(n - 1) : gs[i] = fs[i]
      /\ gs[n] = g
  BY <1>2, ExceptSeq DEF As
<1>4. \A i \in 1..n : i \in 1..(n - 1) \/ i = n
  OBVIOUS
<1>5. \A i \in 1..n : WellFormed(gs[i])
  BY <1>3, <1>4 DEF Stack
<1> QED BY <1>3, <1>5 DEF Stack, IsSeq

LEMMA CompletesTop ==
    ASSUME NEW fs, NEW gs, NEW n \in Nat, n > 0, Len(gs) = n, NEW g, gs[n] = g,
           \A i \in 1..(n - 1) : gs[i] = fs[i], NEW y, NEW v
    PROVE  Completes(gs, y, v) <=> Above(fs, n - 1, g, y, v)
<1>1. n - 1 \in Nat /\ Len(gs) # 0
  OBVIOUS
<1>2. ASSUME Completes(gs, y, v) PROVE Above(fs, n - 1, g, y, v)
  <2>1. PICK p, q, u : y = p \o q /\ Passed(gs, n, p, q, u, v)
    BY <1>1, <1>2 DEF Completes
  <2>2. p \in Seq(Lexemes) /\ q \in Seq(Lexemes) /\ Ends(g, p, u) /\ Given(gs, n - 1, u, q, v)
    BY <2>1 DEF Passed
  <2>3. Given(fs, n - 1, u, q, v)
    BY <1>1, <2>2, GivenSame
  <2> QED BY <2>1, <2>2, <2>3 DEF Above
<1>3. ASSUME Above(fs, n - 1, g, y, v) PROVE Completes(gs, y, v)
  <2>1. PICK p, q \in Seq(Lexemes) : \E u : y = p \o q /\ Ends(g, p, u) /\ Given(fs, n - 1, u, q, v)
    BY <1>3 DEF Above
  <2>2. PICK u : y = p \o q /\ Ends(g, p, u) /\ Given(fs, n - 1, u, q, v)
    BY <2>1
  <2>3. Given(gs, n - 1, u, q, v)
    BY <1>1, <2>2, GivenSame
  <2>4. y = p \o q /\ Passed(gs, Len(gs), p, q, u, v)
    BY <2>2, <2>3 DEF Passed
  <2>5. \E c, d, e : y = c \o d /\ Passed(gs, Len(gs), c, d, e, v)
    BY <2>4
  <2> QED BY ONLY <1>1, <2>5 DEF Completes
<1> QED BY <1>2, <1>3

LEMMA CompletesAs ==
    ASSUME NEW fs, Stack(fs), Len(fs) > 0, NEW g, WellFormed(g), NEW y, NEW v
    PROVE  Completes(As(fs, g), y, v) <=> Above(fs, Len(fs) - 1, g, y, v)
<1> PICK n \in Nat : n = Len(fs) /\ n > 0
  BY DEF Stack
<1> PICK gs : gs = As(fs, g)
  OBVIOUS
<1>1. Len(gs) = n /\ gs[n] = g /\ \A i \in 1..(n - 1) : gs[i] = fs[i]
  BY AsIs
<1>2. Completes(gs, y, v) <=> Above(fs, n - 1, g, y, v)
  BY <1>1, CompletesTop
<1> QED BY <1>2

LEMMA CompletesIs ==
    ASSUME NEW fs, Stack(fs), Len(fs) > 0, NEW y, NEW v
    PROVE  Completes(fs, y, v) <=> Above(fs, Len(fs) - 1, fs[Len(fs)], y, v)
<1> PICK n \in Nat : n = Len(fs) /\ n > 0
  BY DEF Stack
<1> PICK f : f = fs[n]
  OBVIOUS
<1>1. Completes(fs, y, v) <=> Above(fs, n - 1, f, y, v)
  BY CompletesTop
<1> QED BY <1>1

\* A value for the handlers is one for the innermost.
LEMMA GivenTop ==
    ASSUME NEW fs, Stack(fs), Len(fs) > 0, NEW w, WellFormed(Got(fs[Len(fs)], w)), NEW y, NEW v
    PROVE  Given(fs, Len(fs), w, y, v)
               <=> Takes(fs[Len(fs)]) /\ Completes(As(fs, Got(fs[Len(fs)], w)), y, v)
<1> PICK n \in Nat : n = Len(fs) /\ n > 0
  BY DEF Stack
<1> PICK f : f = fs[n]
  OBVIOUS
<1> PICK g : g = Got(f, w)
  OBVIOUS
<1>1. Completes(As(fs, g), y, v) <=> Above(fs, n - 1, g, y, v)
  BY CompletesAs
<1>2. ASSUME Given(fs, n, w, y, v) PROVE Takes(f) /\ Above(fs, n - 1, g, y, v)
  <2>1. PICK p, q \in Seq(Lexemes) : \E u :
            y = p \o q /\ Answered(f, w, p, u) /\ Given(fs, n - 1, u, q, v)
    BY <1>2, GivenOut
  <2> QED BY <2>1 DEF Answered, Above
<1>3. ASSUME Takes(f), Above(fs, n - 1, g, y, v) PROVE Given(fs, n, w, y, v)
  <2>1. PICK p, q \in Seq(Lexemes) : \E u : y = p \o q /\ Ends(g, p, u) /\ Given(fs, n - 1, u, q, v)
    BY <1>3 DEF Above
  <2>2. PICK u : y = p \o q /\ Ends(g, p, u) /\ Given(fs, n - 1, u, q, v)
    BY <2>1
  <2>3. Answered(f, w, p, u)
    BY <1>3, <2>2 DEF Answered
  <2>4. Given(fs, n, w, p \o q, v)
    BY <2>2, <2>3, GivenIn
  <2> QED BY <2>2, <2>4
<1> QED BY <1>1, <1>2, <1>3

\* y, after the lexeme l, does.
After(fs, n, f, l, y, v) ==
    \E c, q \in Seq(Lexemes) : \E u :
        y = c \o q /\ Ends(f, <<l>> \o c, u) /\ Given(fs, n, u, q, v)

\* The innermost handler reads one lexeme.
LEMMA AboveCons ==
    ASSUME NEW fs, NEW n \in Nat, NEW f, NEW l \in Lexemes,
           NEW y \in Seq(Lexemes), NEW v, Above(fs, n, f, <<l>> \o y, v)
    PROVE  After(fs, n, f, l, y, v)
<1>1. PICK p, q \in Seq(Lexemes) : \E u :
          <<l>> \o y = p \o q /\ Ends(f, p, u) /\ Given(fs, n, u, q, v)
  BY DEF Above
<1>2. PICK u : <<l>> \o y = p \o q /\ Ends(f, p, u) /\ Given(fs, n, u, q, v)
  BY <1>1
<1>3. Len(p) > 0
  BY <1>2, EndsTyped
<1>4. Split(l, y, p, q)
  BY <1>2, <1>3, ConsSplit
<1>5. PICK c \in Seq(Lexemes) : p = <<l>> \o c /\ y = c \o q
  BY <1>4 DEF Split
<1>6. Ends(f, <<l>> \o c, u) /\ Given(fs, n, u, q, v)
  BY <1>2, <1>5
<1> QED BY <1>5, <1>6 DEF After

LEMMA AboveJoin ==
    ASSUME NEW fs, NEW n \in Nat, NEW f, NEW l \in Lexemes, NEW c \in Seq(Lexemes),
           NEW q \in Seq(Lexemes), NEW u, NEW v, Ends(f, <<l>> \o c, u), Given(fs, n, u, q, v)
    PROVE  Above(fs, n, f, <<l>> \o (c \o q), v)
<1> PICK p : p = <<l>> \o c
  OBVIOUS
<1>1. p \in Seq(Lexemes)
  BY ConsParts
<1>2. p \o q = <<l>> \o (c \o q)
  <2>1. <<l>> \in Seq(Lexemes)
    OBVIOUS
  <2> QED BY <2>1, JoinAgain
<1>3. Above(fs, n, f, p \o q, v)
  BY <1>1 DEF Above
<1> QED BY <1>2, <1>3

LEMMA AboveMoves ==
    ASSUME NEW fs, NEW n \in Nat, NEW f, NEW l \in Lexemes, NEW g, Moves(f, l, g),
           NEW y \in Seq(Lexemes), NEW v
    PROVE  Above(fs, n, f, <<l>> \o y, v) <=> Above(fs, n, g, y, v)
<1>1. ASSUME Above(fs, n, f, <<l>> \o y, v) PROVE Above(fs, n, g, y, v)
  <2>0. After(fs, n, f, l, y, v)
    BY <1>1, AboveCons
  <2>1. PICK c, q \in Seq(Lexemes) : \E u :
            y = c \o q /\ Ends(f, <<l>> \o c, u) /\ Given(fs, n, u, q, v)
    BY <2>0 DEF After
  <2> QED BY <2>1 DEF Moves, Above
<1>2. ASSUME Above(fs, n, g, y, v) PROVE Above(fs, n, f, <<l>> \o y, v)
  <2>1. PICK p, q \in Seq(Lexemes) : \E u : y = p \o q /\ Ends(g, p, u) /\ Given(fs, n, u, q, v)
    BY <1>2 DEF Above
  <2>2. PICK u : y = p \o q /\ Ends(g, p, u) /\ Given(fs, n, u, q, v)
    BY <2>1
  <2>3. Ends(f, <<l>> \o p, u)
    BY <2>2 DEF Moves
  <2>4. Above(fs, n, f, <<l>> \o (p \o q), v)
    BY <2>2, <2>3, AboveJoin
  <2> QED BY <2>2, <2>4
<1> QED BY <1>1, <1>2

LEMMA AboveShuts ==
    ASSUME NEW fs, NEW n \in Nat, NEW f, NEW l \in Lexemes, Shuts(f, l),
           NEW y \in Seq(Lexemes), NEW v
    PROVE  Above(fs, n, f, <<l>> \o y, v) <=> Given(fs, n, Built(f, <<>>), y, v)
<1>1. ASSUME Above(fs, n, f, <<l>> \o y, v) PROVE Given(fs, n, Built(f, <<>>), y, v)
  <2>0. After(fs, n, f, l, y, v)
    BY <1>1, AboveCons
  <2>1. PICK c, q \in Seq(Lexemes) : \E u :
            y = c \o q /\ Ends(f, <<l>> \o c, u) /\ Given(fs, n, u, q, v)
    BY <2>0 DEF After
  <2>2. PICK u : y = c \o q /\ Ends(f, <<l>> \o c, u) /\ Given(fs, n, u, q, v)
    BY <2>1
  <2>3. c = <<>> /\ u = Built(f, <<>>)
    BY <2>2 DEF Shuts
  <2>4. y = q
    BY <2>2, <2>3, JoinNone
  <2> QED BY <2>2, <2>3, <2>4
<1>2. ASSUME Given(fs, n, Built(f, <<>>), y, v) PROVE Above(fs, n, f, <<l>> \o y, v)
  <2> PICK c \in Seq(Lexemes) : c = <<>>
    BY EmptySeq
  <2> PICK u : u = Built(f, <<>>)
    OBVIOUS
  <2>1. Ends(f, <<l>> \o c, u)
    BY DEF Shuts
  <2>2. Above(fs, n, f, <<l>> \o (c \o y), v)
    BY <1>2, <2>1, AboveJoin
  <2>3. c \o y = y
    BY JoinNone
  <2> QED BY <2>2, <2>3
<1> QED BY <1>1, <1>2

LEMMA AboveStuck ==
    ASSUME NEW fs, NEW n \in Nat, NEW f, NEW l \in Lexemes, Stuck(f, l),
           NEW y \in Seq(Lexemes), NEW v
    PROVE  ~Above(fs, n, f, <<l>> \o y, v)
<1> SUFFICES ASSUME Above(fs, n, f, <<l>> \o y, v) PROVE FALSE
  OBVIOUS
<1>0. After(fs, n, f, l, y, v)
  BY AboveCons
<1>1. PICK c, q \in Seq(Lexemes) : \E u :
          y = c \o q /\ Ends(f, <<l>> \o c, u) /\ Given(fs, n, u, q, v)
  BY <1>0 DEF After
<1> QED BY <1>1 DEF Stuck

\* Handlers that wait for a value read the first lexeme of one.
LEMMA CompletesWants ==
    ASSUME NEW fs, Stack(fs), NEW l \in Lexemes, NEW y \in Seq(Lexemes), NEW v,
           Len(fs) > 0 => /\ Calling(fs[Len(fs)])
                          /\ fs[Len(fs)].pos # "value" => l # Closing(ListOf(fs[Len(fs)]))
    PROVE  Completes(fs, <<l>> \o y, v) <=> Wants(fs, <<l>> \o y, v)
<1>1. CASE Len(fs) = 0
  BY <1>1, WantsNone
<1>2. CASE Len(fs) # 0
  <2>1. Len(fs) > 0
    BY <1>2 DEF Stack
  <2> PICK x : x = <<l>> \o y
    OBVIOUS
  <2>2. ASSUME Completes(fs, x, v) PROVE Wants(fs, x, v)
    <3>1. (fs[Len(fs)].pos # "value" /\ Closed(fs, x, v)) \/ Wants(fs, x, v)
      BY <2>1, <2>2, WaitsOut
    <3>2. ASSUME fs[Len(fs)].pos # "value", Closed(fs, x, v) PROVE FALSE
      <4>1. PICK z : x = <<Closing(ListOf(fs[Len(fs)]))>> \o z /\ z \in Seq(Lexemes)
        BY <3>2 DEF Closed
      <4>2. Closing(ListOf(fs[Len(fs)])) \in Lexemes
        BY ClosingNoValue
      <4>3. l = Closing(ListOf(fs[Len(fs)]))
        BY <4>1, <4>2, ConsInjective
      <4> QED BY <2>1, <3>2, <4>3
    <3> QED BY <3>1, <3>2
  <2>3. ASSUME Wants(fs, x, v) PROVE Completes(fs, x, v)
    BY <2>1, <2>3, WaitsIn
  <2> QED BY <2>2, <2>3
<1> QED BY <1>1, <1>2
-----------------------------------------------------------------------------
(* What was read so far.                                                   *)

\* The first n sequences of ss, joined.
Flat(ss, n, f) == f = [i \in 1..n |-> IF i = 1 THEN ss[i] ELSE f[i - 1] \o ss[i]]

LEMMA FlatFirst ==
    ASSUME NEW ss, NEW n \in Nat, NEW f, Flat(ss, n, f), NEW i \in 1..n
    PROVE  f[i] = IF i = 1 THEN ss[i] ELSE f[i - 1] \o ss[i]
<1> DEFINE G == [j \in 1..n |-> IF j = 1 THEN ss[j] ELSE f[j - 1] \o ss[j]]
<1>1. f = G
  BY DEF Flat
<1>2. G[i] = IF i = 1 THEN ss[i] ELSE f[i - 1] \o ss[i]
  OBVIOUS
<1> HIDE DEF G
<1> QED BY <1>1, <1>2

LEMMA FlatStep ==
    ASSUME NEW ss, NEW n \in Nat, NEW f, Flat(ss, n, f),
           NEW g, g = [i \in 1..(n + 1) |->
                         IF i = n + 1 THEN IF i = 1 THEN ss[i] ELSE f[n] \o ss[i] ELSE f[i]]
    PROVE  Flat(ss, n + 1, g)
<1>1. ASSUME NEW i \in 1..(n + 1)
      PROVE  g[i] = IF i = 1 THEN ss[i] ELSE g[i - 1] \o ss[i]
  <2>1. CASE i = n + 1
    <3>1. i # 1 => i - 1 \in 1..(n + 1) /\ i - 1 # n + 1 /\ i - 1 = n
      BY <2>1
    <3> QED BY <2>1, <3>1
  <2>2. CASE i # n + 1
    <3>1. i \in 1..n /\ (i # 1 => i - 1 \in 1..(n + 1) /\ i - 1 # n + 1)
      BY <2>2
    <3>2. f[i] = IF i = 1 THEN ss[i] ELSE f[i - 1] \o ss[i]
      BY <3>1, FlatFirst
    <3> QED BY <2>2, <3>1, <3>2
  <2> QED BY <2>1, <2>2
<1>2. g = [i \in 1..(n + 1) |-> g[i]]
  OBVIOUS
<1>3. g = [i \in 1..(n + 1) |-> IF i = 1 THEN ss[i] ELSE g[i - 1] \o ss[i]]
  BY ONLY <1>1, <1>2
<1> QED BY <1>3 DEF Flat

LEMMA FlatExists == ASSUME NEW ss PROVE \A n \in Nat : \E f : Flat(ss, n, f)
<1> DEFINE Bad == {n \in Nat : ~\E f : Flat(ss, n, f)}
<1>1. ASSUME NEW n \in Nat, n \in Bad PROVE \E m \in Bad : m < n
  <2>1. CASE n = 0
    <3> DEFINE G == [i \in 1..0 |-> <<>>]
    <3>1. G = [i \in 1..0 |-> IF i = 1 THEN ss[i] ELSE G[i - 1] \o ss[i]]
      OBVIOUS
    <3> HIDE DEF G
    <3>2. Flat(ss, 0, G)
      BY <3>1 DEF Flat
    <3> QED BY <1>1, <2>1, <3>2
  <2>2. CASE n # 0
    <3> PICK m \in Nat : m + 1 = n
      BY <2>2, n - 1 \in Nat
    <3>1. ASSUME m \notin Bad PROVE FALSE
      <4>1. PICK f : Flat(ss, m, f)
        BY <3>1
      <4> PICK g : g = [i \in 1..(m + 1) |->
                         IF i = m + 1 THEN IF i = 1 THEN ss[i] ELSE f[m] \o ss[i] ELSE f[i]]
        OBVIOUS
      <4>2. Flat(ss, m + 1, g)
        BY <4>1, FlatStep
      <4> QED BY <1>1, <4>2
    <3> QED BY <3>1
  <2> QED BY <2>1, <2>2
<1> HIDE DEF Bad
<1>2. Bad \in SUBSET Nat
  BY DEF Bad
<1>3. Bad = {}
  BY <1>1, <1>2, FirstOne
<1> QED BY <1>3 DEF Bad

\* The joined sequence does not depend on the choice of f.
LEMMA FlatSame ==
    ASSUME NEW ss, NEW tt, NEW n \in Nat, NEW m \in Nat, NEW f, NEW g, Flat(ss, n, f), Flat(tt, m, g),
           NEW k \in Nat, k <= n, k <= m, \A i \in 1..k : ss[i] = tt[i]
    PROVE  \A i \in 1..k : f[i] = g[i]
<1> DEFINE Bad == {i \in 1..k : f[i] # g[i]}
<1>1. ASSUME NEW i \in Bad PROVE \E j \in Bad : j < i
  <2>1. i \in 1..n /\ i \in 1..m /\ i \in 1..k
    OBVIOUS
  <2>2. f[i] = IF i = 1 THEN ss[i] ELSE f[i - 1] \o ss[i]
    BY <2>1, FlatFirst
  <2>3. g[i] = IF i = 1 THEN tt[i] ELSE g[i - 1] \o tt[i]
    BY <2>1, FlatFirst
  <2>4. i # 1 /\ f[i - 1] # g[i - 1]
    BY <2>1, <2>2, <2>3
  <2>5. i - 1 \in 1..k /\ i - 1 < i
    BY <2>1, <2>4
  <2> QED BY <2>4, <2>5
<1> HIDE DEF Bad
<1>2. Bad \in SUBSET Nat
  BY DEF Bad
<1>3. Bad = {}
  BY <1>1, <1>2, FirstOne
<1> QED BY <1>3 DEF Bad

LEMMA FlattenIs ==
    ASSUME NEW ss, Len(ss) \in Nat, Len(ss) # 0
    PROVE  \E f : Flat(ss, Len(ss), f) /\ FlattenSeq(ss) = f[Len(ss)]
<1> DEFINE F == CHOOSE f : Flat(ss, Len(ss), f)
<1>1. Flat(ss, Len(ss), F)
  BY FlatExists
<1>2. FlattenSeq(ss) = F[Len(ss)]
  BY DEF FlattenSeq, Flat
<1> QED BY <1>1, <1>2

LEMMA FlattenTyped ==
    ASSUME NEW S, NEW ss, Len(ss) \in Nat, \A i \in 1..Len(ss) : ss[i] \in Seq(S), ss = <<>> \/ Len(ss) # 0
    PROVE  FlattenSeq(ss) \in Seq(S)
<1>1. CASE Len(ss) = 0
  BY <1>1, EmptySeq DEF FlattenSeq
<1>2. CASE Len(ss) # 0
  <2> PICK n \in Nat : n = Len(ss)
    OBVIOUS
  <2>1. PICK f : Flat(ss, n, f) /\ FlattenSeq(ss) = f[n]
    BY <1>2, FlattenIs
  <2> DEFINE Bad == {i \in 1..n : f[i] \notin Seq(S)}
  <2>2. ASSUME NEW i \in Bad PROVE \E j \in Bad : j < i
    <3>1. i \in 1..n
      OBVIOUS
    <3>2. f[i] = IF i = 1 THEN ss[i] ELSE f[i - 1] \o ss[i]
      BY <2>1, <3>1, FlatFirst
    <3>3. i # 1 /\ ss[i] \in Seq(S)
      BY <3>1, <3>2
    <3>4. f[i - 1] \notin Seq(S)
      BY <3>2, <3>3, Joined
    <3> QED BY <3>1, <3>3, <3>4
  <2> HIDE DEF Bad
  <2>3. Bad \in SUBSET Nat
    BY DEF Bad
  <2>4. Bad = {}
    BY <2>2, <2>3, FirstOne
  <2>5. n \in 1..n
    BY <1>2
  <2> QED BY <2>1, <2>4, <2>5 DEF Bad
<1> QED BY <1>1, <1>2

LEMMA FlattenNone == FlattenSeq(<<>>) = <<>>
BY EmptySeq DEF FlattenSeq

\* The sequences tt are those of ss and one more, all of elements of S.
OneMore(S, ss, tt) ==
    /\ Len(ss) \in Nat /\ Len(tt) = Len(ss) + 1 /\ (ss = <<>> \/ Len(ss) # 0)
    /\ \A i \in 1..Len(ss) : ss[i] \in Seq(S) /\ tt[i] = ss[i]
    /\ tt[Len(ss) + 1] \in Seq(S)

LEMMA FlattenMore ==
    ASSUME NEW S, NEW ss, NEW tt, OneMore(S, ss, tt)
    PROVE  FlattenSeq(tt) = FlattenSeq(ss) \o tt[Len(ss) + 1] /\ FlattenSeq(ss) \in Seq(S)
<1> PICK n \in Nat : n = Len(ss)
  BY DEF OneMore
<1>0. /\ Len(ss) = n /\ (ss = <<>> \/ n # 0) /\ \A i \in 1..n : ss[i] \in Seq(S)
      /\ Len(tt) = n + 1 /\ (\A i \in 1..n : tt[i] = ss[i]) /\ tt[n + 1] \in Seq(S)
  BY DEF OneMore
<1>1. Len(tt) \in Nat /\ Len(tt) # 0
  BY <1>0
<1>2. PICK g : Flat(tt, n + 1, g) /\ FlattenSeq(tt) = g[n + 1]
  BY <1>0, <1>1, FlattenIs
<1>3. g[n + 1] = IF n + 1 = 1 THEN tt[n + 1] ELSE g[n] \o tt[n + 1]
  <2>1. n + 1 \in 1..(n + 1) /\ n + 1 \in Nat /\ (n + 1) - 1 = n
    OBVIOUS
  <2> QED BY <1>2, <2>1, FlatFirst
<1>4. FlattenSeq(ss) \in Seq(S)
  BY <1>0, FlattenTyped
<1>5. CASE n = 0
  <2>1. FlattenSeq(ss) = <<>>
    BY <1>0, <1>5, FlattenNone
  <2>2. FlattenSeq(tt) = tt[n + 1]
    BY <1>2, <1>3, <1>5
  <2>3. <<>> \o tt[n + 1] = tt[n + 1]
    BY <1>0, ConcatEmptySeq
  <2> QED BY <1>4, <2>1, <2>2, <2>3
<1>6. CASE n # 0
  <2>1. PICK f : Flat(ss, n, f) /\ FlattenSeq(ss) = f[n]
    BY <1>0, <1>6, FlattenIs
  <2>2. \A i \in 1..n : f[i] = g[i]
    <3> PICK m \in Nat : m = n + 1
      OBVIOUS
    <3>1. n <= m /\ n <= n /\ Flat(tt, m, g) /\ Flat(ss, n, f)
      BY <1>2, <2>1
    <3>2. \A i \in 1..n : ss[i] = tt[i]
      BY <1>0
    <3> QED BY ONLY <3>1, <3>2, n \in Nat, m \in Nat, FlatSame
  <2>3. n \in 1..n /\ n + 1 # 1
    BY <1>6
  <2> QED BY <1>2, <1>3, <1>4, <2>1, <2>2, <2>3
<1> QED BY <1>5, <1>6

LEMMA NoIndex ==
    ASSUME NEW F, F = [i \in DOMAIN F |-> F[i]], DOMAIN F = 1..0
    PROVE  F = <<>> /\ Len(F) = 0
<1>1. F \in [1..0 -> {}]
  OBVIOUS
<1>2. F \in Seq({}) /\ Len(F) = 0
  BY <1>1
<1> QED BY <1>2, EmptySeq

LEMMA MapLen ==
    ASSUME NEW n \in Nat, NEW F, F = [i \in 1..n |-> F[i]]
    PROVE  Len(F) = n /\ (F = <<>> \/ n # 0)
<1>1. DOMAIN F = 1..n
  OBVIOUS
<1>2. Len(F) = n
  BY <1>1
<1>3. n = 0 => F = <<>>
  BY <1>1, NoIndex
<1> QED BY <1>2, <1>3

\* The lexeme l as NonBlank keeps it.
Kept(l) == IF KindOf[l] = "SPACE" THEN <<>> ELSE <<l>>

LEMMA NonBlankIs == ASSUME NEW ls PROVE NonBlank(ls) = FlattenSeq([i \in 1..Len(ls) |-> Kept(ls[i])])
BY DEF NonBlank, Kept

LEMMA NonBlankNone == NonBlank(<<>>) = <<>>
<1> DEFINE F == [i \in 1..Len(<<>>) |-> Kept(<<>>[i])]
<1>1. F = <<>>
  <2>1. Len(<<>>) = 0
    OBVIOUS
  <2>2. DOMAIN F = 1..0 /\ F = [i \in DOMAIN F |-> F[i]]
    BY <2>1
  <2> HIDE DEF F
  <2> QED BY <2>2, NoIndex
<1> QED BY <1>1, NonBlankIs, FlattenNone

LEMMA NonBlankMore ==
    ASSUME NEW ls \in Seq(Lexemes), NEW l \in Lexemes
    PROVE  /\ NonBlank(ls) \in Seq(Lexemes)
           /\ NonBlank(Append(ls, l)) =
                  IF KindOf[l] = "SPACE" THEN NonBlank(ls) ELSE Append(NonBlank(ls), l)
<1> PICK n \in Nat : n = Len(ls)
  OBVIOUS
<1> PICK ms : ms = Append(ls, l)
  OBVIOUS
<1>1. Len(ms) = n + 1 /\ ms[n + 1] = l /\ \A i \in 1..n : ms[i] = ls[i]
  BY AppendProperties
<1> PICK F : F = [i \in 1..n |-> Kept(ls[i])]
  OBVIOUS
<1> PICK G : G = [i \in 1..(n + 1) |-> Kept(ms[i])]
  OBVIOUS
<1>2. ASSUME NEW m \in Lexemes PROVE Kept(m) \in Seq(Lexemes)
  BY EmptySeq DEF Kept
<1>3. Len(F) = n /\ (F = <<>> \/ n # 0)
  <2>1. F = [i \in 1..n |-> F[i]]
    OBVIOUS
  <2> QED BY <2>1, MapLen
<1>4. Len(G) = n + 1
  <2>1. G = [i \in 1..(n + 1) |-> G[i]] /\ n + 1 \in Nat
    OBVIOUS
  <2> QED BY <2>1, MapLen
<1>5. \A i \in 1..n : F[i] \in Seq(Lexemes)
  BY <1>2
<1>6. \A i \in 1..n : G[i] = F[i]
  BY <1>1
<1>7. G[n + 1] = Kept(l)
  BY <1>1
<1>8. Kept(l) \in Seq(Lexemes)
  BY <1>2
<1>9. FlattenSeq(G) = FlattenSeq(F) \o Kept(l) /\ FlattenSeq(F) \in Seq(Lexemes)
  <2>1. G[n + 1] \in Seq(Lexemes)
    BY <1>7, <1>8
  <2>2. OneMore(Lexemes, F, G)
    BY <1>3, <1>4, <1>5, <1>6, <2>1 DEF OneMore
  <2>3. FlattenSeq(G) = FlattenSeq(F) \o G[n + 1] /\ FlattenSeq(F) \in Seq(Lexemes)
    BY <1>3, <2>2, FlattenMore
  <2> QED BY <1>7, <2>3
<1>10. NonBlank(ls) = FlattenSeq(F) /\ NonBlank(ms) = FlattenSeq(G)
  BY <1>1, NonBlankIs
<1> PICK k : k = FlattenSeq(F)
  OBVIOUS
<1>11. k \o Kept(l) = IF KindOf[l] = "SPACE" THEN k ELSE Append(k, l)
  BY <1>9, JoinNone, AppendIsConcat DEF Kept
<1> QED BY <1>9, <1>10, <1>11
-----------------------------------------------------------------------------
(* Handlers that have read a text.                                         *)

\* After the text T, what completes it is what completes the handlers fs, each
\* of them but the innermost waiting for a value; or what completes fs once
\* they are given w; or nothing.
Waiting(fs) == \A i \in 1..(Len(fs) - 1) : Calling(fs[i])
Follow(T, fs)   == /\ Stack(fs) /\ Waiting(fs)
                   /\ \A y \in Seq(Lexemes) : \A v : IsValue(T \o y, v) <=> Completes(fs, y, v)
Giving(T, fs, w) == /\ Stack(fs) /\ \A i \in 1..Len(fs) : Calling(fs[i])
                    /\ \A y \in Seq(Lexemes) : \A v : IsValue(T \o y, v) <=> Given(fs, Len(fs), w, y, v)
Refused(T) == \A y \in Seq(Lexemes) : \A v : ~IsValue(T \o y, v)

\* The handlers fs are where a value may begin with l.
MayBegin(fs, l) ==
    Len(fs) > 0 => /\ Calling(fs[Len(fs)])
                   /\ fs[Len(fs)].pos # "value" => l # Closing(ListOf(fs[Len(fs)]))

LEMMA StackTop ==
    ASSUME NEW fs, Stack(fs), Len(fs) > 0
    PROVE  Len(fs) \in Nat /\ WellFormed(fs[Len(fs)])
BY DEF Stack

LEMMA FollowNone == Follow(<<>>, <<>>)
<1>1. Len(<<>>) = 0
  OBVIOUS
<1>2. Stack(<<>>) /\ Waiting(<<>>)
  <2>1. IsSeq(<<>>)
    BY EmptySeq DEF IsSeq
  <2> QED BY <1>1, <2>1 DEF Stack, Waiting
<1>3. ASSUME NEW y \in Seq(Lexemes), NEW v
      PROVE  IsValue(<<>> \o y, v) <=> Completes(<<>>, y, v)
  <2>1. <<>> \o y = y
    BY JoinNone
  <2> QED BY <1>1, <2>1 DEF Completes
<1> QED BY <1>2, <1>3 DEF Follow

LEMMA FollowCons ==
    ASSUME NEW T \in Seq(Lexemes), NEW fs, Follow(T, fs), NEW l \in Lexemes,
           NEW y \in Seq(Lexemes), NEW v
    PROVE  IsValue(Append(T, l) \o y, v) <=> Completes(fs, <<l>> \o y, v)
<1>1. Append(T, l) \o y = T \o (<<l>> \o y)
  BY AppendJoin
<1> PICK x : x = <<l>> \o y
  OBVIOUS
<1>2. x \in Seq(Lexemes)
  BY ConsParts
<1>3. IsValue(T \o x, v) <=> Completes(fs, x, v)
  BY <1>2 DEF Follow
<1> QED BY <1>1, <1>3

LEMMA WantsFollow ==
    ASSUME NEW T \in Seq(Lexemes), NEW fs, Follow(T, fs), NEW l \in Lexemes,
           MayBegin(fs, l), NEW y \in Seq(Lexemes), NEW v
    PROVE  IsValue(Append(T, l) \o y, v) <=> Wants(fs, <<l>> \o y, v)
<1>1. Stack(fs)
  BY DEF Follow
<1>2. Completes(fs, <<l>> \o y, v) <=> Wants(fs, <<l>> \o y, v)
  BY <1>1, CompletesWants DEF MayBegin
<1> QED BY <1>2, FollowCons

LEMMA AllCalling ==
    ASSUME NEW fs, Stack(fs), Waiting(fs), Len(fs) > 0 => Calling(fs[Len(fs)])
    PROVE  \A i \in 1..Len(fs) : Calling(fs[i])
<1>1. Len(fs) \in Nat
  BY DEF Stack
<1>2. \A i \in 1..Len(fs) : i \in 1..(Len(fs) - 1) \/ i = Len(fs)
  BY <1>1
<1> QED BY <1>1, <1>2 DEF Waiting

\* A scalar is read.
LEMMA ScalarGives ==
    ASSUME NEW T \in Seq(Lexemes), NEW fs, Follow(T, fs), NEW l \in Lexemes,
           MayBegin(fs, l), KindOf[l] \in ScalarKinds
    PROVE  Giving(Append(T, l), fs, ValOf[l])
<1>1. Stack(fs) /\ Waiting(fs) /\ Len(fs) \in Nat
  BY DEF Follow, Stack
<1>2. \A i \in 1..Len(fs) : Calling(fs[i])
  BY <1>1, AllCalling DEF MayBegin
<1>3. ASSUME NEW y \in Seq(Lexemes), NEW v
      PROVE  IsValue(Append(T, l) \o y, v) <=> Given(fs, Len(fs), ValOf[l], y, v)
  BY <1>1, WantsFollow, WantsScalar
<1> QED BY <1>1, <1>2, <1>3 DEF Giving

\* A container begins.
LEMMA OpenFollows ==
    ASSUME NEW T \in Seq(Lexemes), NEW fs, Follow(T, fs), NEW l \in Lexemes,
           MayBegin(fs, l), NEW f, WellFormed(f), Opens(l, f)
    PROVE  Follow(Append(T, l), Append(fs, f))
<1>1. Stack(fs) /\ Waiting(fs) /\ Len(fs) \in Nat
  BY DEF Follow, Stack
<1> PICK gs : gs = Append(fs, f)
  OBVIOUS
<1>2. Stack(gs) /\ Len(gs) = Len(fs) + 1 /\ \A i \in 1..Len(fs) : gs[i] = fs[i]
  BY <1>1, PushIs
<1>3. \A i \in 1..Len(fs) : Calling(fs[i])
  BY <1>1, AllCalling DEF MayBegin
<1>4. Waiting(gs)
  BY <1>1, <1>2, <1>3 DEF Waiting
<1>5. ASSUME NEW y \in Seq(Lexemes), NEW v
      PROVE  IsValue(Append(T, l) \o y, v) <=> Completes(gs, y, v)
  BY <1>1, WantsFollow, WantsOpen
<1> QED BY <1>2, <1>4, <1>5 DEF Follow

\* Nothing begins.
LEMMA OtherRefuses ==
    ASSUME NEW T \in Seq(Lexemes), NEW fs, Follow(T, fs), NEW l \in Lexemes,
           MayBegin(fs, l), KindOf[l] \notin ScalarKinds \cup {"BRACKET_OPEN", "BRACE_OPEN"}
    PROVE  Refused(Append(T, l))
<1> SUFFICES ASSUME NEW y \in Seq(Lexemes), NEW v PROVE ~IsValue(Append(T, l) \o y, v)
  BY DEF Refused
<1>1. ~Wants(fs, <<l>> \o y, v)
  BY WantsOther
<1> QED BY <1>1, WantsFollow

LEMMA FollowAbove ==
    ASSUME NEW T \in Seq(Lexemes), NEW fs, Follow(T, fs), Len(fs) > 0, NEW l \in Lexemes,
           NEW y \in Seq(Lexemes), NEW v
    PROVE  IsValue(Append(T, l) \o y, v) <=> Above(fs, Len(fs) - 1, fs[Len(fs)], <<l>> \o y, v)
<1>1. Stack(fs)
  BY DEF Follow
<1>2. Completes(fs, <<l>> \o y, v) <=> Above(fs, Len(fs) - 1, fs[Len(fs)], <<l>> \o y, v)
  BY <1>1, CompletesIs
<1> QED BY <1>2, FollowCons

LEMMA MoveFollows ==
    ASSUME NEW T \in Seq(Lexemes), NEW fs, Follow(T, fs), Len(fs) > 0,
           NEW l \in Lexemes, NEW g, WellFormed(g), Moves(fs[Len(fs)], l, g)
    PROVE  Follow(Append(T, l), As(fs, g))
<1> PICK n \in Nat : n + 1 = Len(fs)
  <2>1. Len(fs) \in Nat /\ Len(fs) - 1 \in Nat
    BY DEF Follow, Stack
  <2> QED BY <2>1
<1>1. Stack(fs) /\ Waiting(fs)
  BY DEF Follow
<1> PICK gs : gs = As(fs, g)
  OBVIOUS
<1>2. Stack(gs) /\ Len(gs) = n + 1 /\ (\A i \in 1..n : gs[i] = fs[i])
  BY <1>1, AsIs
<1>3. Waiting(gs)
  BY <1>1, <1>2 DEF Waiting
<1>4. ASSUME NEW y \in Seq(Lexemes), NEW v
      PROVE  IsValue(Append(T, l) \o y, v) <=> Completes(gs, y, v)
  <2>1. IsValue(Append(T, l) \o y, v) <=> Above(fs, n, fs[n + 1], <<l>> \o y, v)
    BY FollowAbove
  <2>2. Above(fs, n, fs[n + 1], <<l>> \o y, v) <=> Above(fs, n, g, y, v)
    BY AboveMoves
  <2>3. Completes(gs, y, v) <=> Above(fs, n, g, y, v)
    BY <1>1, CompletesAs
  <2> QED BY <2>1, <2>2, <2>3
<1> QED BY <1>2, <1>3, <1>4 DEF Follow

LEMMA StuckRefuses ==
    ASSUME NEW T \in Seq(Lexemes), NEW fs, Follow(T, fs), Len(fs) > 0,
           NEW l \in Lexemes, Stuck(fs[Len(fs)], l)
    PROVE  Refused(Append(T, l))
<1> SUFFICES ASSUME NEW y \in Seq(Lexemes), NEW v PROVE ~IsValue(Append(T, l) \o y, v)
  BY DEF Refused
<1>1. Len(fs) - 1 \in Nat
  BY DEF Follow, Stack
<1>2. ~Above(fs, Len(fs) - 1, fs[Len(fs)], <<l>> \o y, v)
  BY <1>1, AboveStuck
<1> QED BY <1>2, FollowAbove

\* A container ends.
LEMMA CloseGives ==
    ASSUME NEW T \in Seq(Lexemes), NEW fs, Follow(T, fs), Len(fs) > 0,
           NEW l \in Lexemes, Shuts(fs[Len(fs)], l)
    PROVE  Giving(Append(T, l), Front(fs), Built(fs[Len(fs)], <<>>))
<1> PICK n \in Nat : n + 1 = Len(fs)
  <2>1. Len(fs) \in Nat /\ Len(fs) - 1 \in Nat
    BY DEF Follow, Stack
  <2> QED BY <2>1
<1> PICK gs : gs = Front(fs)
  OBVIOUS
<1> PICK w : w = Built(fs[n + 1], <<>>)
  OBVIOUS
<1>1. Stack(fs) /\ Waiting(fs)
  BY DEF Follow
<1>2. IsSeq(gs) /\ Len(gs) = n /\ \A i \in 1..n : gs[i] = fs[i]
  <2>1. fs # <<>>
    OBVIOUS
  <2>2. IsSeq(fs)
    BY <1>1 DEF Stack
  <2>3. /\ IsSeq(gs) /\ Len(gs) = Len(fs) - 1
        /\ \A i \in 1..(Len(fs) - 1) : gs[i] = fs[i]
    BY <2>1, <2>2, PopFrame
  <2> QED BY <2>3
<1>3. Stack(gs) /\ \A i \in 1..n : Calling(gs[i])
  BY <1>1, <1>2 DEF Stack, Waiting
<1>4. ASSUME NEW y \in Seq(Lexemes), NEW v
      PROVE  IsValue(Append(T, l) \o y, v) <=> Given(gs, n, w, y, v)
  <2>1. IsValue(Append(T, l) \o y, v) <=> Above(fs, n, fs[n + 1], <<l>> \o y, v)
    BY FollowAbove
  <2>2. Above(fs, n, fs[n + 1], <<l>> \o y, v) <=> Given(fs, n, w, y, v)
    BY AboveShuts
  <2>3. Given(fs, n, w, y, v) <=> Given(gs, n, w, y, v)
    BY <1>2, GivenSame
  <2> QED BY <2>1, <2>2, <2>3
<1> QED BY <1>2, <1>3, <1>4 DEF Giving

\* A value is taken; refused; or is what the text says.
LEMMA GivingFollows ==
    ASSUME NEW T, NEW fs, NEW w, Giving(T, fs, w), Len(fs) > 0, Takes(fs[Len(fs)])
    PROVE  Follow(T, As(fs, Got(fs[Len(fs)], w))) /\ WellFormed(Got(fs[Len(fs)], w))
<1> PICK n \in Nat : n = Len(fs) /\ n > 0
  BY DEF Giving, Stack
<1> PICK f : f = fs[n]
  OBVIOUS
<1> PICK g : g = Got(f, w)
  OBVIOUS
<1>1. Stack(fs) /\ WellFormed(f) /\ Calling(f) /\ \A i \in 1..n : Calling(fs[i])
  BY DEF Giving, Stack
<1>2. WellFormed(g)
  BY <1>1, GotItem, GotKey, GotValue DEF Calling
<1> PICK gs : gs = As(fs, g)
  OBVIOUS
<1>3. Stack(gs) /\ Len(gs) = n /\ (\A i \in 1..(n - 1) : gs[i] = fs[i])
  BY <1>1, <1>2, AsIs
<1>4. Waiting(gs)
  BY <1>1, <1>3 DEF Waiting
<1>5. ASSUME NEW y \in Seq(Lexemes), NEW v
      PROVE  IsValue(T \o y, v) <=> Completes(gs, y, v)
  <2>1. IsValue(T \o y, v) <=> Given(fs, n, w, y, v)
    BY DEF Giving
  <2>2. Given(fs, n, w, y, v) <=> Takes(f) /\ Completes(gs, y, v)
    BY <1>1, <1>2, GivenTop
  <2> QED BY <2>1, <2>2
<1> QED BY <1>2, <1>3, <1>4, <1>5 DEF Follow

LEMMA GivingRefuses ==
    ASSUME NEW T, NEW fs, NEW w, Giving(T, fs, w), Len(fs) > 0, ~Takes(fs[Len(fs)])
    PROVE  Refused(T)
<1> PICK n \in Nat : n = Len(fs) /\ n > 0
  BY DEF Giving, Stack
<1> PICK f : f = fs[n]
  OBVIOUS
<1>1. Stack(fs) /\ WellFormed(f) /\ Calling(f)
  BY DEF Giving, Stack
<1>2. WellFormed(Got(f, w))
  BY <1>1, GotItem, GotKey, GotValue DEF Calling
<1> SUFFICES ASSUME NEW y \in Seq(Lexemes), NEW v PROVE ~IsValue(T \o y, v)
  BY DEF Refused
<1>3. Given(fs, n, w, y, v) => Takes(f)
  BY <1>1, <1>2, GivenTop
<1> QED BY <1>3 DEF Giving

LEMMA GivingEnds ==
    ASSUME NEW T \in Seq(Lexemes), NEW fs, NEW w, Giving(T, fs, w), Len(fs) = 0
    PROVE  IsValue(T, w)
<1>1. Given(fs, 0, w, <<>>, w)
  BY GivenNone
<1>2. IsValue(T \o <<>>, w)
  BY <1>1, EmptySeq DEF Giving
<1> QED BY <1>2, JoinNone

\* The handlers gs are where the handlers fs are, and refuse what they refuse.
SamePlace(g, f) == /\ g.kind = f.kind /\ g.pos = f.pos
                   /\ f.pos \in {"colon", "value"} => (IsHashable(g.key) <=> IsHashable(f.key))
Alike(gs, fs) == Len(gs) = Len(fs) /\ \A i \in 1..Len(fs) : SamePlace(gs[i], fs[i])

\* The handlers fs have read T: what would complete T would complete them, but
\* for what they hold of strings if a part of one was dropped.
HasRead(T, fs, drop) == \E gs : Follow(T, gs) /\ Alike(gs, fs) /\ (drop = FALSE => gs = fs)

\* The value v was delivered after T.
Delivered(T, v, drop) ==
    \/ phase' = "done" /\ result' = v /\ err' = err /\ (drop = FALSE => IsValue(T, v))
    \/ phase' = "cleanup" /\ result' = result /\ err' = "unhashable" /\ Refused(T)
    \/ phase' = "next" /\ result' = result /\ err' = err /\ HasRead(T, frames', drop)

LEMMA SetIs ==
    ASSUME NEW fs, IsSeq(fs), NEW n \in Nat, n = Len(fs), n > 0, NEW f
    PROVE  /\ Len(As(fs, f)) = n /\ As(fs, f)[n] = f
           /\ \A i \in 1..(n - 1) : As(fs, f)[i] = fs[i]
<1>1. PICK S : fs \in Seq(S)
  BY DEF IsSeq
<1>2. fs \in Seq(S \cup {f})
  BY <1>1, SeqMonotonic
<1> QED BY <1>2, ExceptSeq DEF As

LEMMA GotPlace ==
    ASSUME NEW f, IsFrame(f), Calling(f), NEW v
    PROVE  /\ Got(f, v).kind = f.kind
           /\ f.pos = "key" => Got(f, v).pos = "colon" /\ Got(f, v).key = v
           /\ f.pos # "key" => Got(f, v).pos = "comma"
<1>1. CASE f.pos = "item"
  <2>1. Got(f, v) = [f EXCEPT !.val = Append(@, v), !.pos = "comma"]
    BY <1>1 DEF Got
  <2> QED BY <1>1, <2>1 DEF IsFrame
<1>2. CASE f.pos = "key"
  <2>1. Got(f, v) = [f EXCEPT !.key = v, !.pos = "colon"]
    BY <1>2 DEF Got
  <2> QED BY <1>2, <2>1 DEF IsFrame
<1>3. CASE f.pos = "value"
  <2>1. Got(f, v) = [f EXCEPT !.val = Put(@, f.key, v), !.key = NULL, !.pos = "comma"]
    BY <1>3 DEF Got
  <2> QED BY <1>3, <2>1 DEF IsFrame
<1> QED BY <1>1, <1>2, <1>3 DEF Calling

LEMMA AlikeSet ==
    ASSUME NEW gs, IsSeq(gs), NEW fs, IsSeq(fs), Alike(gs, fs), Len(fs) > 0,
           NEW g, NEW f, SamePlace(g, f)
    PROVE  Alike(As(gs, g), As(fs, f))
<1> PICK n \in Nat : n = Len(fs) /\ n = Len(gs) /\ n > 0
  BY DEF Alike, IsSeq
<1> PICK xs : xs = As(fs, f)
  OBVIOUS
<1> PICK zs : zs = As(gs, g)
  OBVIOUS
<1>1. Len(xs) = n /\ xs[n] = f /\ \A i \in 1..(n - 1) : xs[i] = fs[i]
  BY ONLY IsSeq(fs), n \in Nat, n = Len(fs), n > 0, xs = As(fs, f), SetIs
<1>2. Len(zs) = n /\ zs[n] = g /\ \A i \in 1..(n - 1) : zs[i] = gs[i]
  BY ONLY IsSeq(gs), n \in Nat, n = Len(gs), n > 0, zs = As(gs, g), SetIs
<1>3. \A i \in 1..n : i \in 1..(n - 1) \/ i = n
  OBVIOUS
<1>4. \A i \in 1..n : SamePlace(zs[i], xs[i])
  <2>1. \A i \in 1..n : SamePlace(gs[i], fs[i])
    BY DEF Alike
  <2> QED BY <1>1, <1>2, <1>3, <2>1
<1> QED BY <1>1, <1>2, <1>4 DEF Alike

LEMMA DeliverReads ==
    ASSUME NEW T \in Seq(Lexemes), NEW gs, NEW w, Giving(T, gs, w),
           NEW fs, IsSeq(fs), \A i \in 1..Len(fs) : IsFrame(fs[i]), Alike(gs, fs),
           NEW v, IsHashable(w) <=> IsHashable(v), NEW h, Deliver(fs, h, v),
           NEW drop, drop = FALSE => gs = fs /\ w = v
    PROVE  Delivered(T, v, drop)
<1>1. CASE fs = <<>>
  <2>1. phase' = "done" /\ result' = v /\ err' = err
    BY <1>1 DEF Deliver
  <2>2. Len(gs) = 0
    BY <1>1, KeysEmpty DEF Alike
  <2>3. IsValue(T, w)
    BY <2>2, GivingEnds
  <2> QED BY <2>1, <2>3 DEF Delivered
<1>2. CASE fs # <<>>
  <2> PICK n \in Nat : n = Len(fs) /\ n > 0
    BY <1>2, PopFrame
  <2>1. Last(fs) = fs[n] /\ Len(gs) = n
    BY DEF Last, Alike
  <2> PICK f : f = fs[n]
    OBVIOUS
  <2> PICK g : g = gs[n]
    OBVIOUS
  <2>2. IsFrame(f) /\ SamePlace(g, f)
    BY DEF Alike
  <2>3. IsSeq(gs) /\ WellFormed(g) /\ Calling(g)
    BY <2>1 DEF Giving, Stack
  <2>4. Takes(g) <=> Takes(f)
    BY <2>2 DEF Takes, SamePlace
  <2>5. CASE ~Takes(g)
    <3>1. Refused(T)
      BY <2>1, <2>5, GivingRefuses
    <3>2. f.pos = "value" /\ ~IsHashable(f.key)
      BY <2>4, <2>5 DEF Takes
    <3>3. phase' = "cleanup" /\ err' = "unhashable" /\ result' = result
      BY <1>2, <2>1, <3>2 DEF Deliver, Raise
    <3> QED BY <3>1, <3>3 DEF Delivered
  <2>6. CASE Takes(g)
    <3>1. Follow(T, As(gs, Got(g, w)))
      BY <2>1, <2>6, GivingFollows
    <3>2. ~(f.pos = "value" /\ ~IsHashable(f.key))
      BY <2>4, <2>6 DEF Takes
    <3>3. phase' = "next" /\ err' = err /\ result' = result /\ frames' = As(fs, Got(f, v))
      BY <1>2, <2>1, <3>2 DEF Deliver, As, Got
    <3>4. SamePlace(Got(g, w), Got(f, v))
      <4>1. IsFrame(g) /\ Calling(f) /\ g.pos = f.pos /\ g.kind = f.kind
        BY <2>2, <2>3 DEF WellFormed, SamePlace, Calling
      <4>2. /\ Got(g, w).kind = g.kind
            /\ g.pos = "key" => Got(g, w).pos = "colon" /\ Got(g, w).key = w
            /\ g.pos # "key" => Got(g, w).pos = "comma"
        BY <2>3, <4>1, GotPlace
      <4>3. /\ Got(f, v).kind = f.kind
            /\ f.pos = "key" => Got(f, v).pos = "colon" /\ Got(f, v).key = v
            /\ f.pos # "key" => Got(f, v).pos = "comma"
        BY <2>2, <4>1, GotPlace
      <4> QED BY <4>1, <4>2, <4>3 DEF SamePlace
    <3> PICK a : a = Got(g, w)
      OBVIOUS
    <3> PICK b : b = Got(f, v)
      OBVIOUS
    <3>5. Alike(As(gs, a), As(fs, b))
      BY <2>3, <3>4, AlikeSet
    <3>6. drop = FALSE => As(gs, a) = As(fs, b)
      OBVIOUS
    <3>7. HasRead(T, frames', drop)
      BY <3>1, <3>3, <3>5, <3>6 DEF HasRead
    <3> QED BY <3>3, <3>7 DEF Delivered
  <2> QED BY <2>5, <2>6
<1> QED BY <1>1, <1>2
-----------------------------------------------------------------------------
(* The steps of the reader, for handlers that have read what is before the *)
(* token.                                                                  *)

\* The errors that say that the text is wrong.
Judged == {"token", "parse", "string", "unhashable"}

\* What a handler makes of the token that ends T.
Handled(T, drop) ==
    \/ phase' = "done" /\ err' = err /\ (drop = FALSE => IsValue(T, result'))
    \/ phase' = "cleanup" /\ result' = result /\ (err' \in Judged => Refused(T))
    \/ phase' = "next" /\ result' = result /\ err' = err /\ HasRead(T, frames', drop)
    \/ phase' \in {"overrun", "crash"} /\ result' = result /\ err' = err

\* gs are the handlers of the reader, which have read T.
AreHandlers(gs, T) ==
    /\ Follow(T, gs) /\ Alike(gs, frames) /\ (dropped = FALSE => gs = frames)
    /\ FramesInv(frames)

LEMMA DeliveredIs ==
    ASSUME NEW T, NEW v, NEW drop, Delivered(T, v, drop)
    PROVE  Handled(T, drop)
BY DEF Delivered, Handled

LEMMA StoreFailsIs ==
    ASSUME NEW T, NEW fs, NEW h, NEW drop, StoreFails(fs, h)
    PROVE  Handled(T, drop)
BY DEF StoreFails, Crash, Raise, Handled, Judged

LEMMA HandlersTop ==
    ASSUME NEW gs, NEW T, AreHandlers(gs, T), frames # <<>>
    PROVE  /\ Len(frames) \in Nat /\ Len(frames) > 0 /\ Len(gs) = Len(frames)
           /\ Top = frames[Len(frames)] /\ IsFrame(Top) /\ SamePlace(gs[Len(gs)], Top)
           /\ WellFormed(gs[Len(gs)]) /\ (dropped = FALSE => gs[Len(gs)] = Top)
<1>1. Len(frames) \in Nat /\ Len(frames) >= 1 /\ Top = frames[Len(frames)]
  <2>1. IsSeq(frames)
    BY DEF AreHandlers, FramesInv
  <2> QED BY <2>1, PopFrame DEF Top
<1>2. Len(gs) = Len(frames) /\ SamePlace(gs[Len(gs)], frames[Len(frames)])
  BY <1>1 DEF AreHandlers, Alike
<1>3. IsFrame(Top)
  BY <1>1 DEF AreHandlers, FramesInv
<1>4. Stack(gs)
  BY DEF AreHandlers, Follow
<1>5. WellFormed(gs[Len(gs)])
  BY <1>1, <1>2, <1>4, StackTop
<1>6. dropped = FALSE => gs[Len(gs)] = Top
  BY <1>1, <1>2 DEF AreHandlers
<1> QED BY <1>1, <1>2, <1>3, <1>5, <1>6

LEMMA HandlersNone ==
    ASSUME NEW gs, NEW T, AreHandlers(gs, T), frames = <<>>
    PROVE  Len(gs) = 0
BY KeysEmpty DEF AreHandlers, Alike

\* Where a value may begin.
LEMMA BeginsHere ==
    ASSUME NEW gs, NEW T, AreHandlers(gs, T), MayBeValue, NEW l \in Lexemes,
           frames # <<>> /\ Top.pos # "value" => KindOf[l] # Closes
    PROVE  MayBegin(gs, l)
<1>1. CASE frames = <<>>
  BY <1>1, HandlersNone DEF MayBegin
<1>2. CASE frames # <<>>
  <2> PICK g : g = gs[Len(gs)]
    OBVIOUS
  <2>1. IsFrame(Top) /\ g.pos = Top.pos /\ g.kind = Top.kind
    BY <1>2, HandlersTop DEF SamePlace
  <2>2. Calling(g)
    BY <1>2, <2>1 DEF MayBeValue, At_, Calling, IsFrame
  <2>3. g.pos # "value" => l # Closing(ListOf(g))
    BY <1>2, <2>1, ClosingKind DEF Closes
  <2> QED BY <2>2, <2>3 DEF MayBegin
<1> QED BY <1>1, <1>2

\* A scalar, or a string of which a part was dropped.
LEMMA ScalarReads ==
    ASSUME NEW gs, NEW T \in Seq(Lexemes), AreHandlers(gs, T), NEW l \in Lexemes,
           MayBegin(gs, l), KindOf[l] \in ScalarKinds,
           NEW v, IsHashable(ValOf[l]) <=> IsHashable(v),
           NEW drop, drop = FALSE => dropped = FALSE /\ v = ValOf[l],
           Return(frames, held + 1, v)
    PROVE  Handled(Append(T, l), drop)
<1>1. Follow(T, gs) /\ Alike(gs, frames) /\ IsSeq(frames) /\ \A i \in 1..Len(frames) : IsFrame(frames[i])
  BY DEF AreHandlers, FramesInv
<1> PICK U : U = Append(T, l)
  OBVIOUS
<1> PICK w : w = ValOf[l]
  OBVIOUS
<1>2. U \in Seq(Lexemes)
  BY AppendProperties
<1>3. Giving(U, gs, w)
  BY <1>1, ScalarGives
<1>4. drop = FALSE => gs = frames /\ w = v
  BY DEF AreHandlers
<1> PICK h : h = held + 1
  OBVIOUS
<1>5. CASE Deliver(frames, h, v)
  <2>1. Delivered(U, v, drop)
    BY <1>1, <1>2, <1>3, <1>4, <1>5, DeliverReads
  <2> QED BY <2>1, DeliveredIs
<1>6. CASE StoreFails(frames, h)
  BY <1>6, StoreFailsIs
<1> QED BY <1>5, <1>6 DEF Return

LEMMA OpenReads ==
    ASSUME NEW gs, NEW T \in Seq(Lexemes), AreHandlers(gs, T), NEW l \in Lexemes,
           MayBegin(gs, l), NEW f, WellFormed(f), f.pos \in {"item", "key"}, Opens(l, f),
           frames' = Append(frames, f)
    PROVE  HasRead(Append(T, l), frames', dropped)
<1>1. Follow(T, gs) /\ Alike(gs, frames) /\ IsSeq(frames)
  BY DEF AreHandlers, FramesInv
<1> PICK n \in Nat : n = Len(frames) /\ n = Len(gs)
  BY <1>1 DEF Alike, IsSeq
<1> PICK hs : hs = Append(gs, f)
  OBVIOUS
<1> PICK fs : fs = frames'
  OBVIOUS
<1>2. Follow(Append(T, l), hs)
  BY <1>1, OpenFollows
<1>3. Len(hs) = n + 1 /\ hs[n + 1] = f /\ \A i \in 1..n : hs[i] = gs[i]
  <2>1. Stack(gs)
    BY <1>1 DEF Follow
  <2> QED BY <2>1, PushIs
<1>4. Len(fs) = n + 1 /\ fs[n + 1] = f /\ \A i \in 1..n : fs[i] = frames[i]
  <2>1. PICK S : frames \in Seq(S)
    BY <1>1 DEF IsSeq
  <2>2. frames \in Seq(S \cup {f})
    BY <2>1, SeqMonotonic
  <2>3. fs = Append(frames, f)
    OBVIOUS
  <2> PICK R : R = S \cup {f}
    OBVIOUS
  <2>4. frames \in Seq(R) /\ f \in R
    BY <2>2
  <2>5. /\ Len(Append(frames, f)) = Len(frames) + 1 /\ Append(frames, f)[Len(frames) + 1] = f
        /\ \A i \in 1..Len(frames) : Append(frames, f)[i] = frames[i]
    BY ONLY <2>4, AppendProperties
  <2> QED BY <2>3, <2>5
<1>5. \A i \in 1..(n + 1) : SamePlace(hs[i], fs[i])
  <2>1. \A i \in 1..(n + 1) : i \in 1..n \/ i = n + 1
    OBVIOUS
  <2>2. \A i \in 1..n : SamePlace(gs[i], frames[i])
    BY <1>1 DEF Alike
  <2>3. SamePlace(f, f)
    BY DEF SamePlace
  <2> QED BY <1>3, <1>4, <2>1, <2>2, <2>3
<1>6. Alike(hs, fs)
  BY <1>3, <1>4, <1>5 DEF Alike
<1>7. dropped = FALSE => hs = fs
  BY DEF AreHandlers
<1> QED BY <1>2, <1>6, <1>7 DEF HasRead

LEMMA ReadValueReads ==
    ASSUME NEW gs, NEW T \in Seq(Lexemes), AreHandlers(gs, T), NEW l \in Lexemes,
           MayBegin(gs, l), IsTokenOf(tok, l), ReadValue
    PROVE  Handled(Append(T, l), dropped)
<1>1. Follow(T, gs)
  BY DEF AreHandlers
<1>2. CASE tok.type = "BRACE_OPEN"
  <2>1. frames' = Append(frames, OpenObject) /\ phase' = "next" /\ UNCHANGED <<result, err>>
    BY <1>2 DEF ReadValue, ScalarKinds
  <2>2. KindOf[l] = "BRACE_OPEN"
    BY <1>2 DEF IsTokenOf
  <2>3. HasRead(Append(T, l), frames', dropped)
    <3>1. WellFormed(OpenObject) /\ OpenObject.pos \in {"item", "key"} /\ Opens(l, OpenObject)
      BY <2>2, OpenObjectIs, ObjectOpens
    <3> QED BY <2>1, <3>1, OpenReads
  <2> QED BY <2>1, <2>3 DEF Handled
<1>3. CASE tok.type = "BRACKET_OPEN"
  <2>1. frames' = Append(frames, OpenArray) /\ phase' = "next" /\ UNCHANGED <<result, err>>
    BY <1>3 DEF ReadValue, ScalarKinds
  <2>2. KindOf[l] = "BRACKET_OPEN"
    BY <1>3 DEF IsTokenOf
  <2>3. HasRead(Append(T, l), frames', dropped)
    <3>1. WellFormed(OpenArray) /\ OpenArray.pos \in {"item", "key"} /\ Opens(l, OpenArray)
      BY <2>2, OpenArrayIs, ArrayOpens
    <3> QED BY <2>1, <3>1, OpenReads
  <2> QED BY <2>1, <2>3 DEF Handled
<1>4. CASE tok.type = "STRING" /\ ~ValidString(tok.text)
  <2>1. KindOf[l] = "BAD"
    BY <1>4 DEF IsTokenOf
  <2>2. Refused(Append(T, l))
    BY <1>1, <2>1, OtherRefuses DEF ScalarKinds
  <2>3. \/ phase' = "overrun" /\ UNCHANGED <<result, err>>
        \/ phase' = "cleanup" /\ UNCHANGED result
    BY <1>4 DEF ReadValue, Raise
  <2> QED BY <2>2, <2>3 DEF Handled
<1>5. CASE tok.type \in ScalarKinds /\ (tok.type = "STRING" => ValidString(tok.text))
  <2>1. KindOf[l] = tok.type /\ ScalarOf(tok) = ValOf[l]
    BY <1>5 DEF IsTokenOf
  <2>2. CASE Return(frames, held + 1, ScalarOf(tok))
    <3> PICK v : v = ScalarOf(tok) /\ v = ValOf[l]
      BY <2>1
    <3>1. Return(frames, held + 1, v)
      BY <2>2
    <3> QED BY <1>5, <2>1, <3>1, ScalarReads
  <2>3. CASE phase' = "overrun" /\ UNCHANGED <<result, err>>
    BY <2>3 DEF Handled
  <2>4. \/ Return(frames, held + 1, ScalarOf(tok))
        \/ phase' = "overrun" /\ UNCHANGED <<result, err>>
    BY <1>5 DEF ReadValue, ScalarKinds
  <2> QED BY <2>2, <2>3, <2>4
<1>6. CASE tok.type \notin ScalarKinds \cup {"BRACKET_OPEN", "BRACE_OPEN"}
  <2>1. KindOf[l] = tok.type
    BY <1>6 DEF IsTokenOf, ScalarKinds
  <2>2. Refused(Append(T, l))
    BY <1>1, <1>6, <2>1, OtherRefuses
  <2>3. phase' = "cleanup" /\ UNCHANGED result
    BY <1>6 DEF ReadValue, Raise, ScalarKinds
  <2> QED BY <2>2, <2>3 DEF Handled
<1> QED BY <1>2, <1>3, <1>4, <1>5, <1>6

\* The handler of a container returns it.
LEMMA CloseReads ==
    ASSUME NEW gs, NEW T \in Seq(Lexemes), AreHandlers(gs, T), NEW l \in Lexemes,
           frames # <<>>, Shuts(gs[Len(gs)], l), CloseContainer
    PROVE  Handled(Append(T, l), dropped)
<1> PICK n \in Nat : n + 1 = Len(frames) /\ n + 1 = Len(gs)
  <2>1. Len(frames) \in Nat /\ Len(frames) > 0 /\ Len(gs) = Len(frames)
    BY HandlersTop
  <2>2. Len(frames) - 1 \in Nat /\ (Len(frames) - 1) + 1 = Len(frames)
    BY <2>1
  <2> QED BY <2>1, <2>2
<1> PICK g : g = gs[n + 1]
  OBVIOUS
<1> PICK U : U = Append(T, l)
  OBVIOUS
<1> PICK w : w = Built(g, <<>>)
  OBVIOUS
<1> PICK v : v = <<IF Top.kind = "ARRAY" THEN "list" ELSE "dict", Top.val>>
  OBVIOUS
<1>1. Follow(T, gs) /\ Alike(gs, frames) /\ IsSeq(frames) /\ \A i \in 1..(n + 1) : IsFrame(frames[i])
  BY DEF AreHandlers, FramesInv
<1>2. WellFormed(g) /\ g.kind = Top.kind /\ (dropped = FALSE => g = Top)
  BY HandlersTop DEF SamePlace
<1> PICK hs : hs = Front(gs)
  OBVIOUS
<1> PICK fs : fs = Front(frames)
  OBVIOUS
<1>3. U \in Seq(Lexemes)
  BY AppendProperties
<1>4. Giving(U, hs, w)
  BY <1>1, CloseGives
<1>5. IsSeq(hs) /\ Len(hs) = n /\ \A i \in 1..n : hs[i] = gs[i]
  <2>1. IsSeq(gs) /\ gs # <<>>
    BY <1>1 DEF Follow, Stack
  <2>2. /\ IsSeq(hs) /\ Len(hs) = Len(gs) - 1
        /\ \A i \in 1..(Len(gs) - 1) : hs[i] = gs[i]
    BY <2>1, PopFrame
  <2> QED BY <2>2
<1>6. IsSeq(fs) /\ Len(fs) = n /\ \A i \in 1..n : fs[i] = frames[i]
  <2>1. /\ IsSeq(fs) /\ Len(fs) = Len(frames) - 1
        /\ \A i \in 1..(Len(frames) - 1) : fs[i] = frames[i]
    BY <1>1, PopFrame
  <2> QED BY <2>1
<1>7. Alike(hs, fs) /\ \A i \in 1..Len(fs) : IsFrame(fs[i])
  <2>1. \A i \in 1..n : SamePlace(gs[i], frames[i]) /\ IsFrame(frames[i])
    BY <1>1 DEF Alike
  <2> QED BY <1>5, <1>6, <2>1 DEF Alike
<1>8. IsHashable(w) <=> IsHashable(v)
  BY DEF IsHashable, Built
<1>9. ASSUME dropped = FALSE PROVE hs = fs /\ w = v
  <2>1. gs = frames
    BY <1>9 DEF AreHandlers
  <2>2. CASE g.kind = "ARRAY"
    <3>1. IsSeq(g.val)
      BY <1>2, <2>2 DEF WellFormed
    <3>2. g.val \o <<>> = g.val
      BY <3>1, ConcatEmptySeq DEF IsSeq
    <3> QED BY <1>2, <1>9, <2>1, <2>2, <3>2 DEF Built
  <2>3. CASE g.kind # "ARRAY"
    <3>1. g.val = [k \in DOMAIN g.val |-> g.val[k]]
      BY <1>2, <2>3 DEF WellFormed
    <3>2. Merge(g.val, <<>>) = g.val
      BY <3>1, MergeNone
    <3> QED BY <1>2, <1>9, <2>1, <2>3, <3>2 DEF Built
  <2> QED BY <2>2, <2>3
<1>10. Return(fs, held, v)
  BY DEF CloseContainer
<1>11. CASE Deliver(fs, held, v)
  <2>1. Delivered(U, v, dropped)
    BY <1>3, <1>4, <1>6, <1>7, <1>8, <1>9, <1>11, DeliverReads
  <2> QED BY <2>1, DeliveredIs
<1>12. CASE StoreFails(fs, held)
  BY <1>12, StoreFailsIs
<1> QED BY <1>10, <1>11, <1>12 DEF Return

\* The innermost handler goes to another place in its loop.
LEMMA MoveReads ==
    ASSUME NEW gs, NEW T \in Seq(Lexemes), AreHandlers(gs, T), NEW l \in Lexemes,
           frames # <<>>, NEW pos, pos \in {"item", "key", "value"},
           NEW g, g = [gs[Len(gs)] EXCEPT !.pos = pos], WellFormed(g), Moves(gs[Len(gs)], l, g),
           pos = "value" => Top.pos = "colon", frames' = ToPos(pos)
    PROVE  HasRead(Append(T, l), frames', dropped)
<1>1. /\ Follow(T, gs) /\ Alike(gs, frames) /\ IsSeq(frames) /\ IsSeq(gs)
  BY DEF AreHandlers, FramesInv, Follow, Stack
<1>2. Len(gs) = Len(frames) /\ Len(frames) > 0 /\ Len(frames) \in Nat /\ Top = frames[Len(frames)]
  BY HandlersTop
<1> PICK f : f = Top
  OBVIOUS
<1> PICK e : e = gs[Len(gs)]
  OBVIOUS
<1> PICK h : h = [f EXCEPT !.pos = pos]
  OBVIOUS
<1>3. Follow(Append(T, l), As(gs, g))
  BY <1>1, <1>2, MoveFollows
<1>4. frames' = As(frames, h)
  BY <1>2 DEF ToPos, As
<1>5. IsFrame(f) /\ IsFrame(e) /\ SamePlace(e, f) /\ (dropped = FALSE => e = f)
  BY HandlersTop DEF WellFormed
<1>6. SamePlace(g, h)
  <2>1. g.pos = pos /\ g.kind = e.kind /\ g.key = e.key
    BY <1>5 DEF IsFrame
  <2>2. h.pos = pos /\ h.kind = f.kind /\ h.key = f.key
    BY <1>5 DEF IsFrame
  <2> QED BY <1>5, <2>1, <2>2 DEF SamePlace
<1>7. Alike(As(gs, g), As(frames, h))
  BY <1>1, <1>2, <1>6, AlikeSet
<1>8. dropped = FALSE => As(gs, g) = As(frames, h)
  BY <1>5 DEF AreHandlers
<1> QED BY <1>3, <1>4, <1>7, <1>8 DEF HasRead

LEMMA FirstReads ==
    ASSUME NEW gs, NEW T \in Seq(Lexemes), AreHandlers(gs, T), NEW l \in Lexemes,
           IsTokenOf(tok, l), HandleFirst
    PROVE  Handled(Append(T, l), dropped)
<1>1. frames # <<>> /\ Top.pos \in {"key", "item"} /\ MayBeValue
  BY DEF HandleFirst, MayBeValue, At_
<1> PICK g : g = gs[Len(gs)]
  OBVIOUS
<1>2. WellFormed(g) /\ g.pos = Top.pos /\ g.kind = Top.kind /\ IsFrame(Top)
  BY <1>1, HandlersTop DEF SamePlace
<1>3. CASE tok.type = Closes
  <2>1. KindOf[l] = Closes
    BY <1>3 DEF IsTokenOf, Closes
  <2>2. l = Closing(ListOf(g))
    BY <1>2, <2>1, ClosingKind DEF Closes
  <2>3. Shuts(g, l)
    BY <1>1, <1>2, <2>2, CallingShuts
  <2>4. CloseContainer
    BY <1>3 DEF HandleFirst
  <2> QED BY <1>1, <2>3, <2>4, CloseReads
<1>4. CASE tok.type # Closes
  <2>1. KindOf[l] # Closes
    BY <1>4 DEF IsTokenOf, Closes
  <2>2. MayBegin(gs, l)
    BY <1>1, <2>1, BeginsHere
  <2>3. ReadValue
    BY <1>4 DEF HandleFirst
  <2> QED BY <2>2, <2>3, ReadValueReads
<1> QED BY <1>3, <1>4

LEMMA ColonReads ==
    ASSUME NEW gs, NEW T \in Seq(Lexemes), AreHandlers(gs, T), NEW l \in Lexemes,
           IsTokenOf(tok, l), HandleColon
    PROVE  Handled(Append(T, l), dropped)
<1>1. frames # <<>> /\ Top.pos = "colon" /\ UNCHANGED result
  BY DEF HandleColon, At_
<1> PICK e : e = gs[Len(gs)]
  OBVIOUS
<1>2. WellFormed(e) /\ e.pos = "colon" /\ Len(gs) > 0
  BY <1>1, HandlersTop DEF SamePlace
<1>3. CASE tok.type = "COLON"
  <2>1. KindOf[l] = "COLON"
    BY <1>3 DEF IsTokenOf
  <2>2. l = The("COLON")
    BY <2>1, CommaIs
  <2>3. frames' = ToPos("value") /\ phase' = "next" /\ UNCHANGED err
    BY <1>3 DEF HandleColon
  <2> PICK g : g = [e EXCEPT !.pos = "value"]
    OBVIOUS
  <2>4. /\ g.kind = e.kind /\ g.val = e.val /\ g.key = e.key /\ g.pos = "value" /\ IsFrame(g)
    BY <1>2 DEF WellFormed, IsFrame
  <2>5. WellFormed(g)
    BY <1>2, <2>4 DEF WellFormed
  <2>6. Moves(e, l, g)
    BY <1>2, <2>2, <2>4, ColonMoves
  <2>7. HasRead(Append(T, l), frames', dropped)
    BY <1>1, <2>3, <2>5, <2>6, MoveReads
  <2> QED BY <1>1, <2>3, <2>7 DEF Handled
<1>4. CASE tok.type # "COLON"
  <2>1. KindOf[l] # "COLON"
    BY <1>4 DEF IsTokenOf
  <2>2. Stuck(e, l)
    BY <1>2, <2>1, CommaIs, ColonStuck
  <2>3. Refused(Append(T, l))
    BY <1>2, <2>2, StuckRefuses DEF AreHandlers
  <2>4. phase' = "cleanup"
    BY <1>4 DEF HandleColon, Raise
  <2> QED BY <1>1, <2>3, <2>4 DEF Handled
<1> QED BY <1>3, <1>4

LEMMA CommaReads ==
    ASSUME NEW gs, NEW T \in Seq(Lexemes), AreHandlers(gs, T), NEW l \in Lexemes,
           IsTokenOf(tok, l), HandleComma
    PROVE  Handled(Append(T, l), dropped)
<1>1. frames # <<>> /\ Top.pos = "comma"
  BY DEF HandleComma, At_
<1> PICK e : e = gs[Len(gs)]
  OBVIOUS
<1>2. WellFormed(e) /\ e.pos = "comma" /\ Len(gs) > 0 /\ e.kind = Top.kind
  BY <1>1, HandlersTop DEF SamePlace
<1>3. CASE tok.type = Closes
  <2>1. KindOf[l] = Closes
    BY <1>3 DEF IsTokenOf, Closes
  <2>2. l = Closing(ListOf(e))
    BY <1>2, <2>1, ClosingKind DEF Closes
  <2>3. Shuts(e, l)
    BY <1>2, <2>2, CommaShuts
  <2>4. CloseContainer
    BY <1>3 DEF HandleComma
  <2> QED BY <1>1, <2>3, <2>4, CloseReads
<1>4. CASE tok.type = "COMMA"
  <2>1. KindOf[l] = "COMMA" /\ tok.type # Closes
    BY <1>4 DEF IsTokenOf, Closes
  <2>2. l = The("COMMA")
    BY <2>1, CommaIs
  <2> PICK pos : pos = IF Top.kind = "ARRAY" THEN "item" ELSE "key"
    OBVIOUS
  <2>3. frames' = ToPos(pos) /\ phase' = "next" /\ UNCHANGED <<err, result>>
    BY <1>4, <2>1 DEF HandleComma
  <2> PICK g : g = [e EXCEPT !.pos = pos]
    OBVIOUS
  <2>4. /\ g.kind = e.kind /\ g.val = e.val /\ g.key = e.key /\ g.pos = pos /\ IsFrame(g)
        /\ pos \in {"item", "key"}
    BY <1>2 DEF WellFormed, IsFrame
  <2>5. WellFormed(g)
    BY <1>2, <2>4 DEF WellFormed
  <2>6. Moves(e, l, g)
    BY <1>2, <2>2, <2>4, CommaMoves
  <2>7. HasRead(Append(T, l), frames', dropped)
    BY <1>1, <2>3, <2>4, <2>5, <2>6, MoveReads
  <2> QED BY <2>3, <2>7 DEF Handled
<1>5. CASE tok.type \notin {Closes, "COMMA"}
  <2>1. KindOf[l] \notin {Closes, "COMMA"}
    BY <1>5 DEF IsTokenOf, Closes
  <2>2. l # Closing(ListOf(e)) /\ l # The("COMMA")
    BY <1>2, <2>1, CommaIs, ClosingKind DEF Closes
  <2>3. Stuck(e, l)
    BY <1>2, <2>2, CommaStuck
  <2>4. Refused(Append(T, l))
    BY <1>2, <2>3, StuckRefuses DEF AreHandlers
  <2>5. phase' = "cleanup" /\ UNCHANGED result
    BY <1>5 DEF HandleComma, Raise
  <2> QED BY <2>4, <2>5 DEF Handled
<1> QED BY <1>3, <1>4, <1>5
-----------------------------------------------------------------------------
(* The tokenizer in a buffer that is cut: numbers, strings, spacing, keywords. *)

\* The buffer s is w, which ends two bytes after the first n, cut after k of them.
CutOf(w, s, n, k) ==
    /\ n \in Nat /\ k \in 0..n
    /\ Len(w) = n + 2 /\ w[n + 2] = "NUL"
    /\ Len(s) = k + 1 /\ s[k + 1] = "ETX" /\ \A i \in 1..k : s[i] = w[i]

\* p is the first place from i on that is not in S.
IsEnd(s, i, S, p) == p \in i..Len(s) /\ s[p] \notin S /\ \A m \in i..(p - 1) : s[m] \in S

LEMMA EndUnique ==
    ASSUME NEW s, Len(s) \in Nat, NEW i \in Nat, NEW S, NEW p, IsEnd(s, i, S, p)
    PROVE  SpanEnd(s, i, S) = p
<1>1. ASSUME NEW q \in i..Len(s), s[q] \notin S, \A m \in i..(q - 1) : s[m] \in S
      PROVE  q = p
  <2>1. ~(q < p)
    <3>1. ASSUME q < p PROVE q \in i..(p - 1)
      BY <3>1 DEF IsEnd
    <3> QED BY <1>1, <3>1 DEF IsEnd
  <2>2. ~(p < q)
    <3>1. ASSUME p < q PROVE p \in i..(q - 1)
      BY <3>1 DEF IsEnd
    <3> QED BY <1>1, <3>1 DEF IsEnd
  <2> QED BY <2>1, <2>2 DEF IsEnd
<1>2. p \in i..Len(s) /\ s[p] \notin S /\ \A m \in i..(p - 1) : s[m] \in S
  BY DEF IsEnd
<1> QED BY <1>1, <1>2 DEF SpanEnd

LEMMA EndExists ==
    ASSUME NEW s, Len(s) \in Nat, NEW i \in Nat, NEW S, NEW l \in i..Len(s), s[l] \notin S
    PROVE  IsEnd(s, i, S, SpanEnd(s, i, S))
<1> DEFINE Out == {m \in i..Len(s) : s[m] \notin S}
<1>1. Out \in SUBSET Nat /\ l \in Out
  OBVIOUS
<1>2. PICK p \in Out : \A m \in Out : ~(m < p)
  <2> HIDE DEF Out
  <2> QED BY <1>1, FirstOne
<1>3. ASSUME NEW m \in i..(p - 1) PROVE s[m] \in S
  <2>1. m \in i..Len(s) /\ m < p
    BY <1>2
  <2> QED BY <1>2, <2>1
<1>4. IsEnd(s, i, S, p)
  BY <1>2, <1>3 DEF IsEnd
<1> QED BY <1>4, EndUnique

\* Cutting a text cuts what it begins with.
LEMMA SpanCut ==
    ASSUME NEW w, NEW s, NEW n, NEW k, CutOf(w, s, n, k), NEW S, "ETX" \notin S, "NUL" \notin S,
           NEW i \in 1..(k + 1)
    PROVE  /\ IsEnd(s, i, S, SpanEnd(s, i, S)) /\ IsEnd(w, i, S, SpanEnd(w, i, S))
           /\ SpanEnd(s, i, S) = IF SpanEnd(w, i, S) <= k THEN SpanEnd(w, i, S) ELSE k + 1
<1>0. /\ n \in Nat /\ k \in 0..n /\ Len(w) = n + 2 /\ w[n + 2] = "NUL"
      /\ Len(s) = k + 1 /\ s[k + 1] = "ETX" /\ \A m \in 1..k : s[m] = w[m]
  BY DEF CutOf
<1>1. i \in Nat /\ Len(s) \in Nat /\ Len(w) \in Nat /\ k + 1 \in i..Len(s) /\ n + 2 \in i..Len(w)
  BY <1>0
<1>2. IsEnd(s, i, S, SpanEnd(s, i, S))
  BY <1>0, <1>1, EndExists
<1>3. IsEnd(w, i, S, SpanEnd(w, i, S))
  BY <1>0, <1>1, EndExists
<1> PICK p : p = SpanEnd(w, i, S)
  OBVIOUS
<1>4. p \in i..(n + 2) /\ w[p] \notin S /\ \A m \in i..(p - 1) : w[m] \in S
  BY <1>0, <1>3 DEF IsEnd
<1>5. CASE p <= k
  <2>1. p \in i..Len(s) /\ s[p] \notin S
    BY <1>0, <1>4, <1>5
  <2>2. ASSUME NEW m \in i..(p - 1) PROVE s[m] \in S
    <3>1. m \in 1..k
      BY <1>0, <1>4, <1>5
    <3> QED BY <1>0, <1>4, <3>1
  <2>3. IsEnd(s, i, S, p)
    BY <2>1, <2>2 DEF IsEnd
  <2>4. SpanEnd(s, i, S) = p
    BY <1>1, <2>3, EndUnique
  <2> QED BY <1>2, <1>3, <1>5, <2>4
<1>6. CASE ~(p <= k)
  <2>1. ASSUME NEW m \in i..((k + 1) - 1) PROVE s[m] \in S
    <3>1. m \in 1..k /\ m \in i..(p - 1)
      BY <1>0, <1>4, <1>6
    <3> QED BY <1>0, <1>4, <3>1
  <2>2. IsEnd(s, i, S, k + 1)
    BY <1>0, <1>1, <2>1 DEF IsEnd
  <2>3. SpanEnd(s, i, S) = k + 1
    BY <1>1, <2>2, EndUnique
  <2> QED BY <1>2, <1>3, <1>6, <2>3
<1> QED BY <1>5, <1>6
-----------------------------------------------------------------------------
\* The places in a number, and what comes of them.
IntAt(s)  == IF s[1] = "-" THEN 2 ELSE 1
FracAt(s) == IF s[IntAt(s)] = "0" THEN IntAt(s) + 1 ELSE SpanEnd(s, IntAt(s), Digit)
ExpAt(s)  == IF s[FracAt(s)] = "." THEN SpanEnd(s, FracAt(s) + 1, Digit) ELSE FracAt(s)
MantAt(s) == IF s[ExpAt(s)] \notin {"e", "E"} THEN ExpAt(s)
             ELSE IF s[ExpAt(s) + 1] \in Sign THEN ExpAt(s) + 2 ELSE ExpAt(s) + 1
EndAt(s)  == IF MantAt(s) = ExpAt(s) THEN ExpAt(s) ELSE SpanEnd(s, MantAt(s), Digit)

LEMMA NumberIs ==
    ASSUME NEW s
    PROVE  token_number(s) =
               IF FracAt(s) = IntAt(s) THEN token_error(s, IntAt(s), "broken number")
               ELSE IF ExpAt(s) = FracAt(s) + 1 THEN token_error(s, ExpAt(s), "broken number")
               ELSE IF MantAt(s) # ExpAt(s) /\ EndAt(s) = MantAt(s)
               THEN token_error(s, EndAt(s), "broken number")
               ELSE number_ends(s, IF EndAt(s) = FracAt(s) THEN "INT" ELSE "FLOAT", EndAt(s))
BY DEF token_number, EndAt, MantAt, ExpAt, FracAt, IntAt

\* The error of a chunk that ends in the middle of a token.
IsChunkEnd(t) == t.type = "INVALID" /\ t.error = "chunk end"

LEMMA ErrorAtEnd ==
    ASSUME NEW w, NEW s, NEW n, NEW k, CutOf(w, s, n, k), NEW message
    PROVE  IsChunkEnd(token_error(s, k + 1, message))
<1>1. k + 1 <= Len(s) /\ s[k + 1] = "ETX"
  BY DEF CutOf
<1> QED BY <1>1 DEF IsChunkEnd, token_error, At

\* A token of n bytes.
IsToken(t, n) == t.type # "INVALID" /\ t.len = n

LEMMA ErrorInvalid == ASSUME NEW s, NEW here, NEW message PROVE token_error(s, here, message).type = "INVALID"
<1>1. \A e : [type |-> "INVALID", len |-> 0, error |-> e].type = "INVALID"
  OBVIOUS
<1> QED BY <1>1, Zenon DEF token_error

\* A number is a number only with the byte that follows it.
LEMMA NumberCut ==
    ASSUME NEW w, NEW s, NEW n \in Nat, NEW k \in 1..n, CutOf(w, s, n, k),
           IsToken(token_number(w), n)
    PROVE  IsChunkEnd(token_number(s))
<1>0. /\ n \in Nat /\ k \in 1..n /\ Len(w) = n + 2 /\ w[n + 2] = "NUL"
      /\ Len(s) = k + 1 /\ s[k + 1] = "ETX" /\ \A m \in 1..k : s[m] = w[m]
  BY DEF CutOf
<1>1. IntAt(s) = IntAt(w) /\ IntAt(w) \in 1..2
  BY <1>0 DEF IntAt
<1>2. "ETX" \notin Digit /\ "NUL" \notin Digit /\ "ETX" \notin Sign
  BY DEF Digit, Sign
<1>3. /\ FracAt(w) # IntAt(w) /\ ExpAt(w) # FracAt(w) + 1
      /\ MantAt(w) = ExpAt(w) \/ EndAt(w) # MantAt(w)
      /\ token_number(w) = number_ends(w, IF EndAt(w) = FracAt(w) THEN "INT" ELSE "FLOAT", EndAt(w))
  BY NumberIs DEF token_error, IsToken
<1>4. w[EndAt(w)] # "ETX" /\ EndAt(w) - 1 = n
  <2> PICK t : t = (IF EndAt(w) = FracAt(w) THEN "INT" ELSE "FLOAT")
    OBVIOUS
  <2>1. token_number(w) = number_ends(w, t, EndAt(w))
    BY <1>3
  <2>2. w[EndAt(w)] # "ETX"
    <3>1. ASSUME w[EndAt(w)] = "ETX" PROVE FALSE
      <4>1. token_number(w) = token_error(w, EndAt(w), "none")
        BY <2>1, <3>1 DEF number_ends
      <4>2. token_number(w).type = "INVALID"
        BY <4>1, ErrorInvalid
      <4> QED BY <4>2 DEF IsToken
    <3> QED BY <3>1
  <2>3. token_number(w) = update_token(t, EndAt(w))
    BY <2>1, <2>2 DEF number_ends
  <2>4. token_number(w).len = EndAt(w) - 1
    BY <2>3 DEF update_token
  <2> QED BY <2>2, <2>4 DEF IsToken
<1> PICK i : i = IntAt(w)
  OBVIOUS
<1>5. CASE i = k + 1
  <2>1. s[IntAt(s)] = "ETX"
    BY <1>0, <1>1, <1>5
  <2>2. IsEnd(s, k + 1, Digit, k + 1)
    BY <1>0, <1>2 DEF IsEnd
  <2>3. SpanEnd(s, k + 1, Digit) = k + 1
    BY <1>0, <2>2, EndUnique
  <2>4. FracAt(s) = IntAt(s)
    BY <1>1, <1>5, <2>1, <2>3 DEF FracAt
  <2>5. token_number(s) = token_error(s, k + 1, "broken number")
    BY <1>1, <1>5, <2>4, NumberIs
  <2> QED BY <2>5, ErrorAtEnd
<1>6. CASE i # k + 1
  <2>1. i \in 1..k /\ s[i] = w[i]
    BY <1>0, <1>1, <1>6
  <2> PICK f : f = FracAt(w)
    OBVIOUS
  <2> PICK g : g = FracAt(s)
    OBVIOUS
  <2>2. f \in Nat /\ i < f /\ g = IF f <= k THEN f ELSE k + 1
    <3>1. CASE w[i] = "0"
      <4>1. f = i + 1 /\ g = i + 1
        BY <1>1, <2>1, <3>1 DEF FracAt
      <4> QED BY <1>0, <2>1, <4>1
    <3>2. CASE w[i] # "0"
      <4>1. f = SpanEnd(w, i, Digit) /\ g = SpanEnd(s, i, Digit)
        BY <1>1, <2>1, <3>2 DEF FracAt
      <4>2. i \in 1..(k + 1)
        BY <1>0, <2>1
      <4>3. IsEnd(w, i, Digit, f) /\ g = IF f <= k THEN f ELSE k + 1
        BY <1>2, <4>1, <4>2, SpanCut
      <4>4. f \in i..Len(w) /\ f # i
        BY <1>3, <4>3 DEF IsEnd
      <4> QED BY <1>0, <2>1, <4>3, <4>4
    <3> QED BY <3>1, <3>2
  <2>3. g # IntAt(s)
    BY <1>0, <1>1, <2>1, <2>2
  <2>4. CASE ~(f <= k)
    <3>1. g = k + 1 /\ s[g] = "ETX"
      BY <1>0, <2>2, <2>4
    <3>2. ExpAt(s) = k + 1 /\ MantAt(s) = k + 1 /\ EndAt(s) = k + 1
      <4>1. ExpAt(s) = k + 1
        BY <3>1 DEF ExpAt
      <4>2. MantAt(s) = k + 1
        BY <3>1, <4>1 DEF MantAt
      <4> QED BY <4>1, <4>2 DEF EndAt
    <3>3. token_number(s) = number_ends(s, IF EndAt(s) = FracAt(s) THEN "INT" ELSE "FLOAT", k + 1)
      <4>1. k + 1 # (k + 1) + 1
        BY <1>0
      <4> QED BY <2>3, <3>1, <3>2, <4>1, NumberIs
    <3>4. token_number(s) = token_error(s, k + 1, "none")
      BY <1>0, <3>3 DEF number_ends
    <3> QED BY <3>4, ErrorAtEnd
  <2>5. CASE f <= k
    <3>1. g = f /\ f \in 1..k /\ s[f] = w[f]
      BY <1>0, <2>1, <2>2, <2>5
    <3> PICK e : e = ExpAt(w)
      OBVIOUS
    <3> PICK d : d = ExpAt(s)
      OBVIOUS
    <3>2. e \in Nat /\ f <= e /\ d = IF e <= k THEN e ELSE k + 1
      <4>1. CASE w[f] = "."
        <5>1. e = SpanEnd(w, f + 1, Digit) /\ d = SpanEnd(s, f + 1, Digit)
          BY <3>1, <4>1 DEF ExpAt
        <5>2. f + 1 \in 1..(k + 1)
          BY <1>0, <3>1
        <5>3. IsEnd(w, f + 1, Digit, e) /\ d = IF e <= k THEN e ELSE k + 1
          BY <1>2, <5>1, <5>2, SpanCut
        <5>4. e \in (f + 1)..Len(w)
          BY <5>3 DEF IsEnd
        <5> QED BY <1>0, <3>1, <5>3, <5>4
      <4>2. CASE w[f] # "."
        BY <2>5, <3>1, <4>2 DEF ExpAt
      <4> QED BY <4>1, <4>2
    <3>3. CASE ~(e <= k)
      <4>1. d = k + 1 /\ s[d] = "ETX"
        BY <1>0, <3>2, <3>3
      <4>2. MantAt(s) = k + 1 /\ EndAt(s) = k + 1
        BY <4>1 DEF MantAt, EndAt
      <4>3. CASE d = g + 1
        <5>1. token_number(s) = token_error(s, k + 1, "broken number")
          BY <2>3, <4>1, <4>3, NumberIs
        <5> QED BY <5>1, ErrorAtEnd
      <4>4. CASE d # g + 1
        <5>1. token_number(s) = number_ends(s, IF EndAt(s) = FracAt(s) THEN "INT" ELSE "FLOAT", k + 1)
          BY <2>3, <4>1, <4>2, <4>4, NumberIs
        <5>2. token_number(s) = token_error(s, k + 1, "none")
          BY <1>0, <5>1 DEF number_ends
        <5> QED BY <5>2, ErrorAtEnd
      <4> QED BY <4>3, <4>4
    <3>4. CASE e <= k
      <4>1. d = e /\ e \in 1..k /\ s[e] = w[e] /\ d # g + 1
        BY <1>0, <1>3, <3>1, <3>2, <3>4
      <4>2. w[e] \in {"e", "E"}
        <5>1. ASSUME w[e] \notin {"e", "E"} PROVE FALSE
          <6>1. EndAt(w) = e
            BY <5>1 DEF EndAt, MantAt
          <6> QED BY <1>0, <1>4, <4>1, <6>1
        <5> QED BY <5>1
      <4> PICK m : m = MantAt(s)
        OBVIOUS
      <4>3. /\ m # d /\ m \in 1..(k + 1)
            /\ m = k + 1 \/ m = MantAt(w)
        <5>1. CASE e = k
          <6>1. s[e + 1] \notin Sign
            BY <1>0, <1>2, <5>1
          <6>2. m = e + 1
            BY <4>1, <4>2, <6>1 DEF MantAt
          <6> QED BY <1>0, <4>1, <5>1, <6>2
        <5>2. CASE e # k
          <6>1. e + 1 \in 1..k /\ s[e + 1] = w[e + 1]
            BY <1>0, <4>1, <5>2
          <6>2. m = (IF w[e + 1] \in Sign THEN e + 2 ELSE e + 1) /\ m = MantAt(w)
            BY <4>1, <4>2, <6>1 DEF MantAt
          <6> QED BY <1>0, <4>1, <6>1, <6>2
        <5> QED BY <5>1, <5>2
      <4> PICK z : z = EndAt(s)
        OBVIOUS
      <4>4. z = SpanEnd(s, m, Digit)
        BY <4>3 DEF EndAt
      <4>5. z = k + 1
        <5>1. CASE m = k + 1
          <6>1. IsEnd(s, k + 1, Digit, k + 1)
            BY <1>0, <1>2 DEF IsEnd
          <6> QED BY <1>0, <4>4, <5>1, <6>1, EndUnique
        <5>2. CASE m # k + 1
          <6>1. m = MantAt(w) /\ m # e
            BY <4>1, <4>3, <5>2
          <6>2. EndAt(w) = SpanEnd(w, m, Digit)
            BY <6>1 DEF EndAt
          <6>3. z = IF SpanEnd(w, m, Digit) <= k THEN SpanEnd(w, m, Digit) ELSE k + 1
            BY <1>2, <4>3, <4>4, SpanCut
          <6>4. IsEnd(w, m, Digit, SpanEnd(w, m, Digit))
            BY <1>2, <4>3, SpanCut
          <6>5. EndAt(w) \in Int
            BY <1>0, <4>3, <6>2, <6>4 DEF IsEnd
          <6>6. ~(EndAt(w) <= k)
            BY <1>0, <1>4, <6>5
          <6> QED BY <6>2, <6>3, <6>6
        <5> QED BY <5>1, <5>2
      <4>6. CASE z = m
        <5>1. token_number(s) = token_error(s, k + 1, "broken number")
          BY <2>3, <4>1, <4>3, <4>5, <4>6, NumberIs
        <5> QED BY <5>1, ErrorAtEnd
      <4>7. CASE z # m
        <5>1. token_number(s) = number_ends(s, IF EndAt(s) = FracAt(s) THEN "INT" ELSE "FLOAT", k + 1)
          BY <2>3, <4>1, <4>3, <4>5, <4>7, NumberIs
        <5>2. token_number(s) = token_error(s, k + 1, "none")
          BY <1>0, <5>1 DEF number_ends
        <5> QED BY <5>2, ErrorAtEnd
      <4> QED BY <4>6, <4>7
    <3> QED BY <3>3, <3>4
  <2> QED BY <2>4, <2>5
<1> QED BY <1>5, <1>6

\* e is the variable escape of token_string at the first n bytes of s.
Esc(s, n, e) == e = [i \in 1..n |-> i > 2 /\ s[i - 1] = "\\" /\ ~e[i - 1]]

LEMMA EscAt ==
    ASSUME NEW s, NEW n \in Nat, NEW e, Esc(s, n, e), NEW i \in 1..n
    PROVE  e[i] = (i > 2 /\ s[i - 1] = "\\" /\ ~e[i - 1])
<1> DEFINE G == [j \in 1..n |-> j > 2 /\ s[j - 1] = "\\" /\ ~e[j - 1]]
<1>1. e = G
  BY DEF Esc
<1>2. G[i] = (i > 2 /\ s[i - 1] = "\\" /\ ~e[i - 1])
  OBVIOUS
<1> HIDE DEF G
<1> QED BY <1>1, <1>2

LEMMA EscStep ==
    ASSUME NEW s, NEW n \in Nat, NEW e, Esc(s, n, e),
           NEW g, g = [i \in 1..(n + 1) |-> IF i = n + 1 THEN i > 2 /\ s[i - 1] = "\\" /\ ~e[i - 1]
                                            ELSE e[i]]
    PROVE  Esc(s, n + 1, g)
<1>1. ASSUME NEW i \in 1..(n + 1)
      PROVE  g[i] = (i > 2 /\ s[i - 1] = "\\" /\ ~g[i - 1])
  <2>1. i > 2 => i - 1 \in 1..(n + 1) /\ i - 1 # n + 1 /\ g[i - 1] = e[i - 1]
    OBVIOUS
  <2>2. CASE i = n + 1
    BY <2>1, <2>2
  <2>3. CASE i # n + 1
    <3>1. i \in 1..n
      BY <2>3
    <3>2. e[i] = (i > 2 /\ s[i - 1] = "\\" /\ ~e[i - 1])
      BY <3>1, EscAt
    <3>3. g[i] = e[i]
      BY <2>3
    <3> QED BY <2>1, <3>2, <3>3
  <2> QED BY <2>2, <2>3
<1>2. g = [i \in 1..(n + 1) |-> g[i]]
  OBVIOUS
<1>3. g = [i \in 1..(n + 1) |-> i > 2 /\ s[i - 1] = "\\" /\ ~g[i - 1]]
  BY ONLY <1>1, <1>2
<1> QED BY <1>3 DEF Esc

LEMMA EscExists == ASSUME NEW s PROVE \A n \in Nat : \E e : Esc(s, n, e)
<1> DEFINE Bad == {n \in Nat : ~\E e : Esc(s, n, e)}
<1>1. ASSUME NEW n \in Nat, n \in Bad PROVE \E m \in Bad : m < n
  <2>1. CASE n = 0
    <3> DEFINE G == [i \in 1..0 |-> FALSE]
    <3>1. G = [i \in 1..0 |-> i > 2 /\ s[i - 1] = "\\" /\ ~G[i - 1]]
      OBVIOUS
    <3> HIDE DEF G
    <3>2. Esc(s, 0, G)
      BY <3>1 DEF Esc
    <3> QED BY <1>1, <2>1, <3>2
  <2>2. CASE n # 0
    <3> PICK m \in Nat : m + 1 = n
      BY <2>2, n - 1 \in Nat
    <3>1. ASSUME m \notin Bad PROVE FALSE
      <4>1. PICK e : Esc(s, m, e)
        BY <3>1
      <4> PICK g : g = [i \in 1..(m + 1) |-> IF i = m + 1 THEN i > 2 /\ s[i - 1] = "\\" /\ ~e[i - 1]
                                             ELSE e[i]]
        OBVIOUS
      <4>2. Esc(s, m + 1, g)
        BY <4>1, EscStep
      <4> QED BY <1>1, <4>2
    <3> QED BY <3>1
  <2> QED BY <2>1, <2>2
<1> HIDE DEF Bad
<1>2. Bad \in SUBSET Nat
  BY DEF Bad
<1>3. Bad = {}
  BY <1>1, <1>2, FirstOne
<1> QED BY <1>3 DEF Bad

LEMMA EscapeIs ==
    ASSUME NEW s, Len(s) \in Nat
    PROVE  Esc(s, Len(s), Escape(s))
<1> DEFINE F == CHOOSE e : Esc(s, Len(s), e)
<1>1. Esc(s, Len(s), F)
  BY EscExists
<1>2. Escape(s) = F
  BY DEF Escape, Esc
<1> QED BY <1>1, <1>2

\* A byte that is escaped in a text is so wherever the text is cut after it.
LEMMA EscapeCut ==
    ASSUME NEW w, NEW s, NEW n \in Nat, NEW k \in 1..n, CutOf(w, s, n, k)
    PROVE  \A i \in 1..k : Escape(s)[i] = Escape(w)[i]
<1> PICK e : e = Escape(s)
  OBVIOUS
<1> PICK f : f = Escape(w)
  OBVIOUS
<1>0. \A i \in 1..k : s[i] = w[i]
  BY DEF CutOf
<1>1. Esc(s, k + 1, e) /\ Esc(w, n + 2, f)
  <2>1. Len(s) = k + 1 /\ Len(w) = n + 2
    BY DEF CutOf
  <2> QED BY <2>1, EscapeIs
<1> DEFINE Bad == {i \in 1..k : e[i] # f[i]}
<1>2. ASSUME NEW i \in Bad PROVE \E j \in Bad : j < i
  <2>1. i \in 1..(k + 1) /\ i \in 1..(n + 2) /\ i \in 1..k
    OBVIOUS
  <2>2. e[i] = (i > 2 /\ s[i - 1] = "\\" /\ ~e[i - 1])
    BY <1>1, <2>1, EscAt
  <2>3. f[i] = (i > 2 /\ w[i - 1] = "\\" /\ ~f[i - 1])
    BY <1>1, <2>1, EscAt
  <2>4. i > 2 => i - 1 \in 1..k /\ s[i - 1] = w[i - 1]
    BY <1>0, <2>1
  <2>5. i > 2 /\ e[i - 1] # f[i - 1]
    BY <2>1, <2>2, <2>3, <2>4
  <2>6. i - 1 \in Bad /\ i - 1 < i
    BY <2>1, <2>4, <2>5
  <2> QED BY <2>6
<1> HIDE DEF Bad
<1>3. Bad \in SUBSET Nat
  BY DEF Bad
<1>4. Bad = {}
  BY <1>2, <1>3, FirstOne
<1> QED BY <1>4 DEF Bad

\* Where token_string stops: in s, p is the first of these places.
StringEnds(s) == {j \in 2..Len(s) : s[j] \in Control \/ (s[j] = "q" /\ ~Escape(s)[j])}
IsFirst(S, p) == p \in S /\ \A m \in S : p <= m

LEMMA FirstUnique ==
    ASSUME NEW S \in SUBSET Nat, NEW p, IsFirst(S, p)
    PROVE  (CHOOSE j \in S : \A m \in S : j <= m) = p
<1>1. \A j \in S : (\A m \in S : j <= m) => j = p
  BY DEF IsFirst
<1>2. p \in S /\ \A m \in S : p <= m
  BY DEF IsFirst
<1> QED BY <1>1, <1>2

LEMMA StringIs ==
    ASSUME NEW s, Len(s) \in Nat, NEW p, IsFirst(StringEnds(s), p)
    PROVE  /\ s[p] = "q" => token_string(s) = update_token("STRING", p + 1)
           /\ s[p] # "q" => \E message : token_string(s) = token_error(s, p, message)
<1> DEFINE last == CHOOSE j \in StringEnds(s) : \A m \in StringEnds(s) : j <= m
<1>1. StringEnds(s) \in SUBSET Nat
  BY DEF StringEnds
<1>2. last = p
  BY <1>1, FirstUnique
<1>3. token_string(s) = IF s[last] = "q" THEN update_token("STRING", last + 1)
                        ELSE token_error(s, last, "control character")
  BY DEF token_string, StringEnds
<1> HIDE DEF last
<1> QED BY <1>2, <1>3

LEMMA StringCut ==
    ASSUME NEW w, NEW s, NEW n \in Nat, NEW k \in 1..n, CutOf(w, s, n, k),
           IsToken(token_string(w), n)
    PROVE  IF k = n THEN token_string(s) = token_string(w) ELSE IsChunkEnd(token_string(s))
<1>0. /\ Len(w) = n + 2 /\ w[n + 2] = "NUL"
      /\ Len(s) = k + 1 /\ s[k + 1] = "ETX" /\ \A m \in 1..k : s[m] = w[m]
  BY DEF CutOf
<1>1. "NUL" \in Control /\ "ETX" \in Control
  BY DEF Control
<1>2. PICK p \in Nat : IsFirst(StringEnds(w), p)
  <2>1. StringEnds(w) \in SUBSET Nat
    BY DEF StringEnds
  <2>2. n + 2 \in StringEnds(w)
    BY <1>0, <1>1 DEF StringEnds
  <2>3. PICK p \in StringEnds(w) : \A m \in StringEnds(w) : ~(m < p)
    BY <2>1, <2>2, FirstOne
  <2>4. IsFirst(StringEnds(w), p)
    BY <2>1, <2>3 DEF IsFirst
  <2> QED BY <2>1, <2>3, <2>4
<1>3. w[p] = "q" /\ token_string(w) = update_token("STRING", p + 1)
  <2>1. /\ w[p] = "q" => token_string(w) = update_token("STRING", p + 1)
        /\ w[p] # "q" => \E message : token_string(w) = token_error(w, p, message)
    BY <1>0, <1>2, StringIs
  <2>2. ASSUME w[p] # "q" PROVE FALSE
    <3>1. token_string(w).type = "INVALID"
      BY <2>1, <2>2, ErrorInvalid
    <3> QED BY <3>1 DEF IsToken
  <2> QED BY <2>1, <2>2
<1>4. p = n
  <2>1. token_string(w).len = (p + 1) - 1
    BY <1>3 DEF update_token
  <2> QED BY <2>1 DEF IsToken
<1>5. n \in 2..(n + 2) /\ (w[n] \in Control \/ ~Escape(w)[n]) /\ w[n] = "q"
  BY <1>0, <1>2, <1>3, <1>4 DEF IsFirst, StringEnds
<1>6. \A i \in 1..k : Escape(s)[i] = Escape(w)[i]
  BY EscapeCut
<1>7. ASSUME NEW j \in StringEnds(s), j <= k PROVE j >= n
  <2>1. j \in 2..k /\ s[j] = w[j] /\ Escape(s)[j] = Escape(w)[j]
    BY <1>0, <1>6, <1>7 DEF StringEnds
  <2>2. j \in StringEnds(w)
    <3>1. j \in 2..Len(w)
      BY <1>0, <2>1
    <3> QED BY <1>7, <2>1, <3>1 DEF StringEnds
  <2> QED BY <1>2, <1>4, <2>1, <2>2 DEF IsFirst
<1>8. \A j \in StringEnds(s) : j \in 2..(k + 1)
  BY <1>0 DEF StringEnds
<1>9. CASE k = n
  <2>1. n \in StringEnds(s)
    <3>1. n \in 2..Len(s) /\ s[n] = w[n] /\ Escape(s)[n] = Escape(w)[n]
      BY <1>0, <1>5, <1>6, <1>9
    <3> QED BY <1>5, <3>1 DEF StringEnds
  <2>2. IsFirst(StringEnds(s), n)
    <3>1. ASSUME NEW j \in StringEnds(s) PROVE n <= j
      <4>1. j \in 2..(k + 1)
        BY <1>8
      <4> QED BY <1>7, <1>9, <4>1
    <3> QED BY <2>1, <3>1 DEF IsFirst
  <2>3. s[n] = "q"
    BY <1>0, <1>5, <1>9
  <2>4. token_string(s) = update_token("STRING", n + 1)
    BY <1>0, <2>2, <2>3, StringIs
  <2> QED BY <1>3, <1>4, <1>9, <2>4
<1>10. CASE k # n
  <2>1. k + 1 \in StringEnds(s)
    BY <1>0, <1>1 DEF StringEnds
  <2>2. IsFirst(StringEnds(s), k + 1)
    <3>1. ASSUME NEW j \in StringEnds(s) PROVE k + 1 <= j
      <4>1. j \in 2..(k + 1)
        BY <1>8
      <4> QED BY <1>7, <1>10, <4>1
    <3> QED BY <2>1, <3>1 DEF IsFirst
  <2>3. PICK message : token_string(s) = token_error(s, k + 1, message)
    <3>1. s[k + 1] # "q"
      BY <1>0
    <3> QED BY <1>0, <2>2, <3>1, StringIs
  <2>4. IsChunkEnd(token_string(s))
    BY <2>3, ErrorAtEnd
  <2> QED BY <1>10, <2>4
<1> QED BY <1>9, <1>10

LEMMA SpaceCut ==
    ASSUME NEW w, NEW s, NEW n \in Nat, CutOf(w, s, n, n), n # 0, IsToken(token_space(w), n)
    PROVE  token_space(s) = token_space(w)
<1>1. "ETX" \notin Blank /\ "NUL" \notin Blank
  BY DEF Blank
<1>2. 1 \in 1..(n + 1)
  OBVIOUS
<1> PICK p : p = SpanEnd(w, 1, Blank)
  OBVIOUS
<1>3. IsEnd(w, 1, Blank, p) /\ SpanEnd(s, 1, Blank) = IF p <= n THEN p ELSE n + 1
  BY <1>1, <1>2, SpanCut
<1>4. token_space(w) = update_token("SPACE", p) /\ p - 1 = n
  BY DEF token_space, update_token, IsToken
<1>5. p \in Int
  BY <1>3 DEF IsEnd, CutOf
<1>6. SpanEnd(s, 1, Blank) = p
  BY <1>3, <1>4, <1>5
<1> QED BY <1>4, <1>6 DEF token_space

LEMMA KeywordIs ==
    ASSUME NEW s, NEW type, NEW match
    PROVE  IF \A i \in 1..Len(match) : At(s, i) = match[i]
           THEN token_special(s, type, match) = update_token(type, Len(match) + 1)
           ELSE token_special(s, type, match).type = "INVALID"
<1> DEFINE differ == {i \in 1..Len(match) : At(s, i) # match[i]}
<1> DEFINE here == (CHOOSE i \in differ : \A j \in differ : i <= j) + 1
<1>1. token_special(s, type, match) = IF differ = {} THEN update_token(type, Len(match) + 1)
                                      ELSE token_error(s, here, "unknown token")
  BY DEF token_special
<1>2. (\A i \in 1..Len(match) : At(s, i) = match[i]) <=> differ = {}
  OBVIOUS
<1> HIDE DEF differ, here
<1> QED BY <1>1, <1>2, ErrorInvalid, Zenon

LEMMA KeywordCut ==
    ASSUME NEW w, NEW s, NEW n \in Nat, NEW k \in 1..n, CutOf(w, s, n, k), NEW type,
           NEW match, Len(match) \in Nat, \A i \in 1..Len(match) : match[i] # "ETX",
           IsToken(token_special(w, type, match), n)
    PROVE  IF k = n THEN token_special(s, type, match) = token_special(w, type, match)
           ELSE token_special(s, type, match).type = "INVALID"
<1>0. Len(w) = n + 2 /\ Len(s) = k + 1 /\ s[k + 1] = "ETX" /\ \A m \in 1..k : s[m] = w[m]
  BY DEF CutOf
<1>1. /\ \A i \in 1..Len(match) : At(w, i) = match[i]
      /\ token_special(w, type, match) = update_token(type, Len(match) + 1)
  <2>1. token_special(w, type, match).type # "INVALID"
    BY DEF IsToken
  <2> QED BY <2>1, KeywordIs
<1>2. Len(match) = n
  <2>1. token_special(w, type, match).len = (Len(match) + 1) - 1
    BY <1>1 DEF update_token
  <2> QED BY <2>1 DEF IsToken
<1>3. CASE k = n
  <2>1. ASSUME NEW i \in 1..Len(match) PROVE At(s, i) = match[i]
    <3>1. i \in 1..k /\ i <= Len(s) /\ i <= Len(w)
      BY <1>0, <1>2, <1>3
    <3>2. At(s, i) = s[i] /\ At(w, i) = w[i] /\ s[i] = w[i]
      BY <1>0, <3>1 DEF At
    <3> QED BY <1>1, <3>2
  <2>2. token_special(s, type, match) = update_token(type, Len(match) + 1)
    BY <2>1, KeywordIs
  <2> QED BY <1>1, <1>3, <2>2
<1>4. CASE k # n
  <2>1. k + 1 \in 1..Len(match) /\ k + 1 <= Len(s)
    BY <1>0, <1>2, <1>4
  <2>2. At(s, k + 1) = "ETX" /\ match[k + 1] # "ETX"
    BY <1>0, <2>1 DEF At
  <2>3. token_special(s, type, match).type = "INVALID"
    BY <2>1, <2>2, KeywordIs
  <2> QED BY <1>4, <2>3
<1> QED BY <1>3, <1>4

\* The token of one byte of that type.
LEMMA CharIs ==
    ASSUME NEW s
    PROVE  /\ s[1] = "NUL" => dyj_next_token(s) = update_token("EOF", 2)
           /\ s[1] = "{" => dyj_next_token(s) = update_token("BRACE_OPEN", 2)
           /\ s[1] = "}" => dyj_next_token(s) = update_token("BRACE_CLOSE", 2)
           /\ s[1] = "[" => dyj_next_token(s) = update_token("BRACKET_OPEN", 2)
           /\ s[1] = "]" => dyj_next_token(s) = update_token("BRACKET_CLOSE", 2)
           /\ s[1] = ":" => dyj_next_token(s) = update_token("COLON", 2)
           /\ s[1] = "," => dyj_next_token(s) = update_token("COMMA", 2)
BY Zenon DEF dyj_next_token, Blank, Digit

Chars == {"NUL", "{", "}", "[", "]", ":", ","}

LEMMA SameChar ==
    ASSUME NEW w, NEW s, s[1] = w[1], w[1] \in Chars
    PROVE  dyj_next_token(s) = dyj_next_token(w) /\ \E type : dyj_next_token(w) = update_token(type, 2)
BY CharIs, Zenon DEF Chars

LEMMA NextIs ==
    ASSUME NEW s
    PROVE  /\ s[1] \in Blank => dyj_next_token(s) = token_space(s)
           /\ s[1] = "q" => dyj_next_token(s) = token_string(s)
           /\ s[1] \in Digit \cup {"-"} => dyj_next_token(s) = token_number(s)
           /\ s[1] = "t" => dyj_next_token(s) = token_special(s, "TRUE", <<"t", "r", "u", "e">>)
           /\ s[1] = "f" => dyj_next_token(s) = token_special(s, "FALSE", <<"f", "a", "l", "s", "e">>)
           /\ s[1] = "n" => dyj_next_token(s) = token_special(s, "NULL", <<"n", "u", "l", "l">>)
BY Zenon DEF dyj_next_token, Blank, Digit

LEMMA OtherIs ==
    ASSUME NEW s, s[1] \notin Chars, s[1] \notin Blank, s[1] # "q", s[1] \notin Digit \cup {"-"},
           s[1] \notin {"t", "f", "n"}
    PROVE  \E message : dyj_next_token(s) = token_error(s, 1, message)
BY Zenon DEF dyj_next_token, Chars

\* The cut after the first byte or more of a token.
LEMMA NextCut ==
    ASSUME NEW w, NEW s, NEW n \in Nat, NEW k \in 1..n, CutOf(w, s, n, k),
           IsToken(dyj_next_token(w), n), dyj_next_token(w).type = "SPACE" => k = n
    PROVE  \/ k = n /\ dyj_next_token(s) = dyj_next_token(w)
           \/ IsChunkEnd(dyj_next_token(s))
           \/ /\ dyj_next_token(s).type = "INVALID"
              /\ dyj_next_token(w).type \in {"NULL", "TRUE", "FALSE"}
<1>0. s[1] = w[1]
  BY 1 \in 1..k DEF CutOf
<1>1. CASE w[1] \in Chars
  <2>1. dyj_next_token(s) = dyj_next_token(w)
    BY <1>0, <1>1, SameChar
  <2>2. PICK type : dyj_next_token(w) = update_token(type, 2)
    BY <1>0, <1>1, SameChar
  <2>3. n = 1
    <3>1. dyj_next_token(w).len = 2 - 1
      BY <2>2 DEF update_token
    <3> QED BY <3>1 DEF IsToken
  <2>4. k = n
    BY <2>3
  <2> QED BY <2>1, <2>4
<1>2. CASE w[1] \in Blank
  <2>1. dyj_next_token(w) = token_space(w) /\ dyj_next_token(s) = token_space(s)
    BY <1>0, <1>2, NextIs
  <2>2. k = n
    <3>1. token_space(w).type = "SPACE"
      BY DEF token_space, update_token
    <3> QED BY <2>1, <3>1
  <2>3. token_space(s) = token_space(w)
    <3>1. n # 0 /\ CutOf(w, s, n, n) /\ IsToken(token_space(w), n)
      BY <2>1, <2>2
    <3> QED BY <3>1, SpaceCut
  <2> QED BY <2>1, <2>2, <2>3
<1>3. CASE w[1] = "q"
  <2>1. dyj_next_token(w) = token_string(w) /\ dyj_next_token(s) = token_string(s)
    BY <1>0, <1>3, NextIs
  <2>2. IF k = n THEN token_string(s) = token_string(w) ELSE IsChunkEnd(token_string(s))
    BY <2>1, StringCut
  <2> QED BY <2>1, <2>2
<1>4. CASE w[1] \in Digit \cup {"-"}
  <2>1. dyj_next_token(w) = token_number(w) /\ dyj_next_token(s) = token_number(s)
    BY <1>0, <1>4, NextIs
  <2>2. IsChunkEnd(token_number(s))
    BY <2>1, NumberCut
  <2> QED BY <2>1, <2>2
<1>5. ASSUME NEW type \in {"NULL", "TRUE", "FALSE"}, NEW match, Len(match) \in Nat,
             \A i \in 1..Len(match) : match[i] # "ETX",
             dyj_next_token(w) = token_special(w, type, match),
             dyj_next_token(s) = token_special(s, type, match)
      PROVE  \/ k = n /\ dyj_next_token(s) = dyj_next_token(w)
             \/ /\ dyj_next_token(s).type = "INVALID"
                /\ dyj_next_token(w).type \in {"NULL", "TRUE", "FALSE"}
  <2>1. IsToken(token_special(w, type, match), n)
    BY <1>5
  <2>2. IF k = n THEN token_special(s, type, match) = token_special(w, type, match)
        ELSE token_special(s, type, match).type = "INVALID"
    BY <1>5, <2>1, KeywordCut
  <2>3. token_special(w, type, match).type = type
    <3>1. token_special(w, type, match) = update_token(type, Len(match) + 1)
      <4>1. token_special(w, type, match).type # "INVALID"
        BY <2>1 DEF IsToken
      <4> QED BY <4>1, KeywordIs
    <3> QED BY <3>1 DEF update_token
  <2> QED BY <1>5, <2>2, <2>3
<1>6. CASE w[1] = "t"
  <2> PICK match : match = <<"t", "r", "u", "e">>
    OBVIOUS
  <2>1. Len(match) \in Nat /\ \A i \in 1..Len(match) : match[i] # "ETX"
    OBVIOUS
  <2>2. /\ dyj_next_token(w) = token_special(w, "TRUE", match)
        /\ dyj_next_token(s) = token_special(s, "TRUE", match)
    BY <1>0, <1>6, NextIs
  <2> QED BY <1>5, <2>1, <2>2
<1>7. CASE w[1] = "f"
  <2> PICK match : match = <<"f", "a", "l", "s", "e">>
    OBVIOUS
  <2>1. Len(match) \in Nat /\ \A i \in 1..Len(match) : match[i] # "ETX"
    OBVIOUS
  <2>2. /\ dyj_next_token(w) = token_special(w, "FALSE", match)
        /\ dyj_next_token(s) = token_special(s, "FALSE", match)
    BY <1>0, <1>7, NextIs
  <2> QED BY <1>5, <2>1, <2>2
<1>8. CASE w[1] = "n"
  <2> PICK match : match = <<"n", "u", "l", "l">>
    OBVIOUS
  <2>1. Len(match) \in Nat /\ \A i \in 1..Len(match) : match[i] # "ETX"
    OBVIOUS
  <2>2. /\ dyj_next_token(w) = token_special(w, "NULL", match)
        /\ dyj_next_token(s) = token_special(s, "NULL", match)
    BY <1>0, <1>8, NextIs
  <2> QED BY <1>5, <2>1, <2>2
<1>9. CASE /\ w[1] \notin Chars /\ w[1] \notin Blank /\ w[1] # "q"
           /\ w[1] \notin Digit \cup {"-"} /\ w[1] \notin {"t", "f", "n"}
  <2>1. \E message : dyj_next_token(w) = token_error(w, 1, message)
    BY <1>9, OtherIs
  <2>2. dyj_next_token(w).type = "INVALID"
    BY <2>1, ErrorInvalid
  <2> QED BY <2>2 DEF IsToken
<1> QED BY <1>1, <1>2, <1>3, <1>4, <1>6, <1>7, <1>8, <1>9

LEMMA Pair == ASSUME NEW a, NEW b PROVE Len(<<a, b>>) = 2 /\ <<a, b>>[2] = b
OBVIOUS

\* A chunk that ends before the token.
LEMMA NothingRead == IsChunkEnd(dyj_next_token(<<"ETX">>))
<1> PICK s : s = <<"ETX">>
  OBVIOUS
<1>1. s[1] = "ETX" /\ Len(s) = 1
  OBVIOUS
<1>2. /\ s[1] \notin Chars /\ s[1] \notin Blank /\ s[1] # "q" /\ s[1] \notin Digit \cup {"-"}
      /\ s[1] \notin {"t", "f", "n"}
  BY <1>1, Zenon DEF Chars, Blank, Digit
<1>3. PICK message : dyj_next_token(s) = token_error(s, 1, message)
  BY <1>2, OtherIs
<1>4. At(s, 1) = "ETX"
  BY <1>1 DEF At
<1>5. IsChunkEnd(token_error(s, 1, message))
  BY <1>4 DEF IsChunkEnd, token_error
<1> QED BY <1>3, <1>5

\* x, cut after k bytes.
CutAt(x, k) == SubSeq(x, 1, k) \o <<"ETX">>

LEMMA CutIs ==
    ASSUME NEW S, NEW x \in Seq(S), NEW k \in 0..Len(x)
    PROVE  /\ Len(CutAt(x, k)) = k + 1 /\ CutAt(x, k)[k + 1] = "ETX"
           /\ \A i \in 1..k : CutAt(x, k)[i] = x[i]
           /\ Last(CutAt(x, k)) = "ETX"
           /\ k = 0 => CutAt(x, k) = <<"ETX">>
<1> PICK T : T = S \cup {"ETX"}
  OBVIOUS
<1> PICK n \in Nat : n = Len(x)
  OBVIOUS
<1> PICK y : y = SubSeq(x, 1, k)
  OBVIOUS
<1> PICK z : z = <<"ETX">>
  OBVIOUS
<1>1. k \in 0..n
  OBVIOUS
<1>2. y \in Seq(S) /\ Len(y) = k /\ \A i \in 1..k : y[i] = x[i]
  <2>1. y \in Seq(S)
    BY <1>1, SubSeqProperties
  <2>2. Len(y) = k
    BY <1>1, SubSeqProperties
  <2>3. \A i \in 1..k : y[i] = x[i]
    BY <1>1, SubSeqProperties
  <2> QED BY <2>1, <2>2, <2>3
<1>3. y \in Seq(T) /\ z \in Seq(T) /\ Len(z) = 1 /\ z[1] = "ETX"
  BY <1>2, SeqMonotonic
<1> PICK c : c = y \o z
  OBVIOUS
<1>4. /\ Len(c) = k + 1 /\ c[k + 1] = "ETX"
      /\ \A i \in 1..k : c[i] = x[i]
  <2>1. Len(c) = k + 1
    BY <1>2, <1>3, ConcatProperties
  <2>2. \A i \in 1..(k + 1) : c[i] = IF i <= k THEN y[i] ELSE z[i - k]
    BY <1>2, <1>3, ConcatProperties
  <2>3. c[k + 1] = z[1]
    BY <1>1, <2>2
  <2>4. \A i \in 1..k : c[i] = y[i]
    BY <1>1, <2>2
  <2> QED BY <1>2, <1>3, <2>1, <2>3, <2>4
<1>5. Last(c) = "ETX"
  BY <1>4 DEF Last
<1>6. k = 0 => c = z
  <2>1. k = 0 => y = <<>>
    BY <1>2, EmptySeq
  <2>2. <<>> \o z = z
    BY <1>3, ConcatEmptySeq
  <2> QED BY <2>1, <2>2
<1>7. CutAt(x, k) = c
  BY DEF CutAt
<1> QED BY <1>4, <1>5, <1>6, <1>7

LEMMA WholeIs ==
    ASSUME NEW S, NEW x \in Seq(S), NEW c
    PROVE  /\ Len(x \o <<c, "NUL">>) = Len(x) + 2
           /\ (x \o <<c, "NUL">>)[Len(x) + 2] = "NUL"
           /\ \A i \in 1..Len(x) : (x \o <<c, "NUL">>)[i] = x[i]
<1> PICK T : T = S \cup {c, "NUL"}
  OBVIOUS
<1> PICK n \in Nat : n = Len(x)
  OBVIOUS
<1> PICK z : z = <<c, "NUL">>
  OBVIOUS
<1>1. x \in Seq(T) /\ z \in Seq(T) /\ Len(z) = 2 /\ z[2] = "NUL"
  BY SeqMonotonic
<1> PICK w : w = x \o z
  OBVIOUS
<1>2. Len(w) = n + 2
  BY <1>1, ConcatProperties
<1>3. \A i \in 1..(n + 2) : w[i] = IF i <= n THEN x[i] ELSE z[i - n]
  BY <1>1, ConcatProperties
<1>4. w[n + 2] = z[2]
  BY <1>3
<1> QED BY <1>1, <1>2, <1>3, <1>4

LEMMA CutOfWhole ==
    ASSUME NEW S, NEW x \in Seq(S), NEW c, NEW k \in 0..Len(x)
    PROVE  CutOf(x \o <<c, "NUL">>, CutAt(x, k), Len(x), k)
<1> PICK n \in Nat : n = Len(x)
  OBVIOUS
<1> PICK w : w = x \o <<c, "NUL">>
  OBVIOUS
<1> PICK s : s = CutAt(x, k)
  OBVIOUS
<1>1. Len(w) = n + 2 /\ w[n + 2] = "NUL" /\ \A i \in 1..n : w[i] = x[i]
  BY WholeIs
<1>2. Len(s) = k + 1 /\ s[k + 1] = "ETX" /\ \A i \in 1..k : s[i] = x[i]
  BY CutIs
<1>3. \A i \in 1..k : s[i] = w[i]
  BY <1>1, <1>2
<1> QED BY <1>1, <1>2, <1>3 DEF CutOf

LEMMA CutsAre ==
    ASSUME NEW l \in Lexemes, NEW s \in Buffers(l), s # Whole(l)
    PROVE  \E k \in 0..Len(TextOf[l]) :
               /\ s = CutAt(TextOf[l], k)
               /\ KindOf[l] = "EOF" => k = 0
               /\ KindOf[l] = "SPACE" => k \in {0, Len(TextOf[l])}
<1> PICK n \in Nat : n = Len(TextOf[l])
  BY GrammarAssumption
<1>1. s \in Cut(l)
  BY DEF Buffers
<1>2. PICK k \in CASE KindOf[l] = "EOF" -> {0}
                   [] KindOf[l] = "SPACE" -> {0, n}
                   [] OTHER -> 0..n :
          s = CutAt(TextOf[l], k)
  BY <1>1 DEF Cut, CutAt
<1>3. k \in 0..n /\ (KindOf[l] = "EOF" => k = 0) /\ (KindOf[l] = "SPACE" => k \in {0, n})
  BY <1>2
<1> QED BY <1>2, <1>3

LEMMA TokenInIs == ASSUME NEW l \in Lexemes, NEW s \in Buffers(l) PROVE TokenIn[s] = dyj_next_token(s)
BY DEF TokenIn

Keywords == {"NULL", "TRUE", "FALSE"}

\* In any buffer the tokenizer finds the lexeme, or it fails where the buffer
\* ends or no token begins.
LEMMA BufferReads ==
    ASSUME LexemesAreRead, NEW l \in Lexemes, NEW s \in Buffers(l)
    PROVE  IF TokenIn[s].type # "INVALID" THEN IsReadAs(l, s)
           ELSE \/ KindOf[l] = "BAD"
                \/ Last(s) = "ETX" /\ (IsChunkEnd(TokenIn[s]) \/ KindOf[l] \in Keywords)
<1>1. CASE KindOf[l] = "BAD"
  BY <1>1 DEF LexemesAreRead
<1>2. CASE s = Whole(l) /\ KindOf[l] # "BAD"
  BY <1>2 DEF LexemesAreRead, IsReadAs
<1>3. CASE s # Whole(l) /\ KindOf[l] # "BAD"
  <2> PICK x : x = TextOf[l]
    OBVIOUS
  <2> PICK S : S = Range(x)
    OBVIOUS
  <2>1. x \in Seq(S) /\ Len(x) > 0
    BY GrammarAssumption
  <2> PICK n \in Nat : n = Len(x)
    BY <2>1
  <2>2. PICK k \in 0..n : /\ s = CutAt(x, k) /\ (KindOf[l] = "EOF" => k = 0)
                          /\ (KindOf[l] = "SPACE" => k \in {0, n})
    BY <1>3, CutsAre
  <2>3. Last(s) = "ETX"
    BY <2>1, <2>2, CutIs
  <2>4. TokenIn[s] = dyj_next_token(s)
    BY TokenInIs
  <2>5. CASE k = 0
    <3>1. IsChunkEnd(dyj_next_token(s))
      BY <2>1, <2>2, <2>5, CutIs, NothingRead
    <3> QED BY <2>3, <2>4, <3>1 DEF IsChunkEnd
  <2>6. CASE k # 0
    <3> PICK w : w = Whole(l)
      OBVIOUS
    <3>1. KindOf[l] # "EOF" /\ k \in 1..n
      BY <2>2, <2>6
    <3>2. CutOf(w, s, n, k)
      <4>1. w = x \o <<",", "NUL">>
        BY <3>1, Zenon DEF Whole
      <4> QED BY <2>1, <2>2, <4>1, CutOfWhole, Zenon
    <3>3. w \in Buffers(l) /\ IsReadAs(l, w)
      BY <1>3 DEF LexemesAreRead, Buffers
    <3> PICK t : t = dyj_next_token(w)
      OBVIOUS
    <3> PICK text : text = SubSeq(w, 1, t.len)
      OBVIOUS
    <3>4. /\ t.type # "INVALID" /\ t.len = n /\ text = x
          /\ IsTokenOf([type |-> t.type, text |-> text], l)
      <4>1. TokenIn[w] = t
        BY <3>3, TokenInIs
      <4> QED BY <3>3, <4>1 DEF IsReadAs
    <3>5. KindOf[l] = t.type
      BY <1>3, <3>4 DEF IsTokenOf
    <3>6. IsToken(t, n) /\ (t.type = "SPACE" => k = n)
      BY <2>2, <2>6, <3>4, <3>5 DEF IsToken
    <3>7. \/ k = n /\ dyj_next_token(s) = t
          \/ IsChunkEnd(dyj_next_token(s))
          \/ dyj_next_token(s).type = "INVALID" /\ t.type \in {"NULL", "TRUE", "FALSE"}
      BY <3>1, <3>2, <3>6, NextCut
    <3>8. CASE k = n /\ dyj_next_token(s) = t
      <4>1. SubSeq(s, 1, n) = x
        <5>1. Len(s) = n + 1 /\ s = SubSeq(x, 1, n) \o <<"ETX">> /\ SubSeq(x, 1, n) = x
          BY <2>1, <2>2, <3>8, CutIs, SubSeqFull DEF CutAt
        <5> QED BY <2>1, <5>1
      <4> QED BY <2>4, <3>4, <3>8, <4>1 DEF IsReadAs
    <3>9. CASE IsChunkEnd(dyj_next_token(s))
      BY <2>3, <2>4, <3>9 DEF IsChunkEnd
    <3>10. CASE dyj_next_token(s).type = "INVALID" /\ t.type \in {"NULL", "TRUE", "FALSE"}
      BY <2>3, <2>4, <3>5, <3>10 DEF Keywords
    <3> QED BY <3>7, <3>8, <3>9, <3>10
  <2> QED BY <2>5, <2>6
<1> QED BY <1>1, <1>2, <1>3
-----------------------------------------------------------------------------
(* What the reader has read, at every point of it.                         *)

LEMMA DropReads ==
    ASSUME NEW gs, NEW T \in Seq(Lexemes), AreHandlers(gs, T), NEW l \in Lexemes,
           IsTokenOf(tok, l), PartDropped
    PROVE  Handled(Append(T, l), dropped')
<1>1. /\ tok.type = "STRING" /\ ValidString(tok.text) /\ MayBeValue /\ dropped' = TRUE
      /\ Return(frames, held + 1, <<"string">>)
  BY DEF PartDropped
<1>2. KindOf[l] = "STRING" /\ ValOf[l] = <<"string", StringOf(tok.text)>>
  BY <1>1 DEF IsTokenOf, ScalarKinds, ScalarOf
<1>3. MayBegin(gs, l)
  <2>1. KindOf[l] # Closes
    BY <1>2 DEF Closes
  <2> QED BY <1>1, <2>1, BeginsHere
<1> PICK v : v = <<"string">>
  OBVIOUS
<1>4. IsHashable(ValOf[l]) <=> IsHashable(v)
  BY <1>2 DEF IsHashable
<1>5. KindOf[l] \in ScalarKinds
  BY <1>2 DEF ScalarKinds
<1>6. Return(frames, held + 1, v)
  BY <1>1
<1>7. Handled(Append(T, l), TRUE)
  <2>1. TRUE = FALSE => dropped = FALSE /\ v = ValOf[l]
    OBVIOUS
  <2> QED BY <1>3, <1>4, <1>5, <1>6, <2>1, ScalarReads
<1> QED BY <1>1, <1>7

LEMMA HandleReads ==
    ASSUME NEW gs, NEW T \in Seq(Lexemes), AreHandlers(gs, T), NEW l \in Lexemes,
           IsTokenOf(tok, l), Handle
    PROVE  Handled(Append(T, l), dropped')
<1>1. CASE PartDropped
  BY <1>1, DropReads
<1>2. CASE dropped' = dropped /\ HandleFirst
  BY <1>2, FirstReads
<1>3. CASE dropped' = dropped /\ HandleColon
  BY <1>3, ColonReads
<1>4. CASE dropped' = dropped /\ HandleComma
  BY <1>4, CommaReads
<1>5. CASE dropped' = dropped /\ (frames = <<>> \/ At_("value")) /\ ReadValue
  <2>1. MayBeValue /\ (frames # <<>> => Top.pos = "value")
    BY <1>5 DEF MayBeValue, At_
  <2>2. MayBegin(gs, l)
    BY <2>1, BeginsHere
  <2> QED BY <1>5, <2>2, ReadValueReads
<1>6. CASE dropped' = dropped /\ OutOfMemory
  <2>1. \/ phase' = "cleanup" /\ result' = result /\ err' = "memory"
        \/ phase' = "crash" /\ result' = result /\ err' = err
    BY <1>6 DEF OutOfMemory, Raise, Crash
  <2> QED BY <2>1 DEF Handled, Judged
<1> QED BY <1>1, <1>2, <1>3, <1>4, <1>5, <1>6 DEF Handle

\* The end of the text ends the reading.
LEMMA EndStops ==
    ASSUME Handle, tok.type = "EOF"
    PROVE  phase' = "cleanup"
<1>1. ReadValue => phase' = "cleanup"
  BY DEF ReadValue, Raise, ScalarKinds
<1>2. HandleFirst => ReadValue
  BY DEF HandleFirst, Closes
<1>3. HandleColon => phase' = "cleanup"
  BY DEF HandleColon, Raise
<1>4. HandleComma => phase' = "cleanup"
  BY DEF HandleComma, Closes, Raise
<1>5. ~OutOfMemory
  BY DEF OutOfMemory
<1>6. ~PartDropped
  BY DEF PartDropped
<1> QED BY <1>1, <1>2, <1>3, <1>4, <1>5, <1>6 DEF Handle

\* No text goes on with what is no token.
LEMMA BadRefuses ==
    ASSUME NEW gs, NEW T \in Seq(Lexemes), Follow(T, gs), NEW l \in Lexemes,
           KindOf[l] = "BAD"
    PROVE  Refused(Append(T, l))
<1>1. Len(gs) \in Nat /\ (Len(gs) > 0 => WellFormed(gs[Len(gs)]))
  BY DEF Follow, Stack
<1> PICK g : g = gs[Len(gs)]
  OBVIOUS
<1>2. l # Closing(ListOf(g)) /\ l # The("COMMA") /\ l # The("COLON")
  BY CommaIs, ClosingKind
<1>3. CASE Len(gs) > 0 => Calling(g)
  <2>1. MayBegin(gs, l)
    BY <1>2, <1>3 DEF MayBegin
  <2> QED BY <2>1, OtherRefuses DEF ScalarKinds
<1>4. CASE Len(gs) > 0 /\ ~Calling(g)
  <2>1. g.pos \in {"colon", "comma"}
    BY <1>1, <1>4 DEF WellFormed, IsFrame, Calling
  <2>2. Stuck(g, l)
    BY <1>2, <2>1, CommaStuck, ColonStuck
  <2> QED BY <1>4, <2>2, StuckRefuses
<1> QED BY <1>3, <1>4
-----------------------------------------------------------------------------
\* The token ends what was read, and is not yet handled.
ThisToken(T, l) ==
    /\ T \in Seq(Lexemes) /\ l \in Lexemes /\ Tokens = Append(T, l) /\ IsTokenOf(tok, l)
    /\ KindOf[l] = "EOF" \/ Len(T) < MaxLexemes
    /\ HasRead(T, frames, dropped)

ReadInv ==
    /\ read \in Seq(Lexemes)
    /\ dropped \in BOOLEAN
    /\ phase \in {"next", "chunk"} => Len(Tokens) <= MaxLexemes /\ HasRead(Tokens, frames, dropped)
    /\ phase = "chunk" => tok.text[1] \in Readable
    /\ phase = "handle" => \E T, l : ThisToken(T, l)
    /\ phase \in {"next", "chunk", "handle"} => err = "none"
    /\ err \in Judged => Refused(Tokens)
    /\ phase = "done" /\ result # NULL /\ ~dropped =>
           IsValue(Tokens, result) /\ Len(Tokens) <= MaxLexemes

LEMMA InitReads == ASSUME MaxLexemes \in Nat, Init PROVE ReadInv
<1>1. Tokens = <<>> /\ Len(<<>>) = 0
  BY NonBlankNone DEF Init, Tokens
<1>2. HasRead(Tokens, frames, dropped)
  <2>1. Alike(<<>>, <<>>)
    BY <1>1 DEF Alike
  <2> QED BY <1>1, <2>1, FollowNone DEF Init, HasRead
<1>3. read \in Seq(Lexemes)
  BY EmptySeq DEF Init
<1>4. Len(Tokens) <= MaxLexemes
  BY <1>1
<1>5. phase = "next" /\ err = "none" /\ dropped = FALSE
  BY DEF Init
<1> QED BY <1>2, <1>3, <1>4, <1>5 DEF ReadInv, Judged

LEMMA TokensMore ==
    ASSUME NEW l \in Lexemes, read \in Seq(Lexemes), read' = Append(read, l)
    PROVE  /\ read' \in Seq(Lexemes) /\ Tokens \in Seq(Lexemes)
           /\ Tokens' = IF KindOf[l] = "SPACE" THEN Tokens ELSE Append(Tokens, l)
<1>1. Append(read, l) \in Seq(Lexemes)
  BY AppendProperties
<1>2. Tokens' = NonBlank(Append(read, l))
  BY DEF Tokens, NonBlank
<1> QED BY <1>1, <1>2, NonBlankMore DEF Tokens

LEMMA AcceptReads ==
    ASSUME LexemesAreRead, MaxLexemes \in Nat, ReadInv, result = NULL, phase \in {"next", "chunk"},
           NEW l \in Readable, NEW s \in Buffers(l),
           TokenIn[s].type # "INVALID", Accept(l, s, TokenIn[s]), UNCHANGED <<frames, dropped, result>>
    PROVE  ReadInv'
<1> PICK t : t = TokenIn[s]
  OBVIOUS
<1> PICK text : text = SubSeq(s, 1, t.len)
  OBVIOUS
<1>1. l \in Lexemes /\ (Len(Tokens) >= MaxLexemes => KindOf[l] \in {"EOF", "SPACE"})
  BY DEF Readable, Tokens
<1>2. IsTokenOf([type |-> t.type, text |-> text], l)
  BY <1>1, BufferReads DEF IsReadAs
<1>3. read' = Append(read, l) /\ err' = err
  BY DEF Accept
<1>4. /\ read' \in Seq(Lexemes) /\ Tokens \in Seq(Lexemes)
      /\ Tokens' = IF KindOf[l] = "SPACE" THEN Tokens ELSE Append(Tokens, l)
  BY <1>1, <1>3, TokensMore DEF ReadInv
<1>5. err = "none" /\ Len(Tokens) <= MaxLexemes /\ HasRead(Tokens, frames, dropped) /\ dropped \in BOOLEAN
  BY DEF ReadInv
<1>6. HasRead(Tokens, frames', dropped')
  BY <1>5
<1>7. CASE t.type = "SPACE"
  <2>1. phase' = "next"
    BY <1>7 DEF Accept
  <2>2. KindOf[l] = "SPACE"
    BY <1>2, <1>7 DEF IsTokenOf
  <2> QED BY <1>3, <1>4, <1>5, <1>6, <2>1, <2>2 DEF ReadInv, Judged
<1>8. CASE t.type # "SPACE"
  <2>1. phase' = "handle" /\ tok' = [type |-> t.type, text |-> text]
    BY <1>8 DEF Accept
  <2>2. KindOf[l] # "SPACE"
    BY <1>2, <1>8 DEF IsTokenOf
  <2>3. Tokens' = Append(Tokens, l)
    BY <1>4, <2>2
  <2>4. IsTokenOf(tok', l)
    BY <1>2, <2>1
  <2>5. KindOf[l] = "EOF" \/ Len(Tokens) < MaxLexemes
    <3>1. Len(Tokens) \in Nat
      BY <1>4
    <3> QED BY <1>1, <2>2, <3>1
  <2> PICK T : T = Tokens
    OBVIOUS
  <2>6. ThisToken(T, l)'
    BY <1>1, <1>4, <1>6, <2>3, <2>4, <2>5 DEF ThisToken
  <2>7. (\E U, m : ThisToken(U, m))'
    BY <2>6
  <2> QED BY <1>3, <1>4, <1>5, <2>1, <2>7 DEF ReadInv, Judged
<1> QED BY <1>7, <1>8

LEMMA RejectReads ==
    ASSUME LexemesAreRead, ReadInv, phase \in {"next", "chunk"},
           NEW l \in Readable, NEW s \in Buffers(l), TokenIn[s].type = "INVALID",
           Reject(l, s, TokenIn[s]), UNCHANGED <<frames, dropped, result>>
    PROVE  ReadInv'
<1> PICK t : t = TokenIn[s]
  OBVIOUS
<1>1. l \in Lexemes
  BY DEF Readable
<1>2. Last(s) = "ETX" \/ KindOf[l] = "BAD"
  BY <1>1, BufferReads
<1>3. /\ read' = Append(read, l) /\ phase' = "cleanup"
      /\ err' = IF t.error = "chunk end" THEN t.error
                ELSE IF Last(s) = "ETX" THEN "cut token" ELSE "token"
  BY DEF Reject, Raise
<1>4. /\ read' \in Seq(Lexemes) /\ Tokens \in Seq(Lexemes)
      /\ Tokens' = IF KindOf[l] = "SPACE" THEN Tokens ELSE Append(Tokens, l)
  BY <1>1, <1>3, TokensMore DEF ReadInv
<1>5. ASSUME err' \in Judged PROVE Refused(Tokens')
  <2>1. KindOf[l] = "BAD"
    BY <1>2, <1>3, <1>5 DEF Judged
  <2>2. PICK gs : Follow(Tokens, gs)
    BY DEF ReadInv, HasRead
  <2>3. Refused(Append(Tokens, l))
    BY <1>1, <1>4, <2>1, <2>2, BadRefuses
  <2> QED BY <1>4, <2>1, <2>3
<1>6. dropped' \in BOOLEAN
  BY DEF ReadInv
<1> QED BY <1>3, <1>4, <1>5, <1>6 DEF ReadInv

LEMMA NextTokenReads ==
    ASSUME LexemesAreRead, MaxLexemes \in Nat, ReadInv, result = NULL, NextToken
    PROVE  ReadInv'
<1>1. phase = "next" /\ UNCHANGED <<frames, dropped, result>>
  BY DEF NextToken
<1>2. PICK l \in Readable : \E s \in Buffers(l) :
          IF TokenIn[s].type # "INVALID" THEN Accept(l, s, TokenIn[s])
          ELSE IF TokenIn[s].error = "chunk end" /\ chunk_fn
          THEN /\ phase' = "chunk"
               /\ tok' = [None EXCEPT !.text = <<l>>]
               /\ UNCHANGED <<read, loc, err>>
          ELSE Reject(l, s, TokenIn[s])
  BY DEF NextToken
<1>3. PICK s \in Buffers(l) :
          \/ TokenIn[s].type # "INVALID" /\ Accept(l, s, TokenIn[s])
          \/ /\ phase' = "chunk" /\ tok' = [None EXCEPT !.text = <<l>>]
             /\ UNCHANGED <<read, loc, err>>
          \/ TokenIn[s].type = "INVALID" /\ Reject(l, s, TokenIn[s])
  BY <1>2
<1>4. CASE TokenIn[s].type # "INVALID" /\ Accept(l, s, TokenIn[s])
  BY <1>1, <1>4, AcceptReads
<1>5. CASE /\ phase' = "chunk" /\ tok' = [None EXCEPT !.text = <<l>>]
           /\ UNCHANGED <<read, loc, err>>
  <2>1. tok'.text[1] = l
    BY <1>5 DEF None
  <2>2. Tokens' = Tokens /\ Readable' = Readable
    BY <1>5 DEF Tokens, Readable, Blanks
  <2>3. /\ Len(Tokens) <= MaxLexemes /\ HasRead(Tokens, frames, dropped) /\ err = "none"
        /\ read \in Seq(Lexemes) /\ dropped \in BOOLEAN
    BY <1>1 DEF ReadInv
  <2> QED BY <1>1, <1>5, <2>1, <2>2, <2>3 DEF ReadInv, Judged
<1>6. CASE TokenIn[s].type = "INVALID" /\ Reject(l, s, TokenIn[s])
  BY <1>1, <1>6, RejectReads
<1> QED BY <1>3, <1>4, <1>5, <1>6

LEMMA NextChunkReads ==
    ASSUME LexemesAreRead, MaxLexemes \in Nat, ReadInv, result = NULL, NextChunk
    PROVE  ReadInv'
<1>1. phase = "chunk" /\ UNCHANGED <<frames, dropped, result>>
  BY DEF NextChunk
<1> PICK l \in Readable : l = tok.text[1]
  BY <1>1 DEF ReadInv
<1>2. PICK s \in Buffers(l) :
          IF TokenIn[s].type # "INVALID" THEN Accept(l, s, TokenIn[s])
          ELSE Reject(l, s, TokenIn[s])
  BY DEF NextChunk
<1>3. CASE TokenIn[s].type # "INVALID"
  BY <1>1, <1>2, <1>3, AcceptReads
<1>4. CASE TokenIn[s].type = "INVALID"
  BY <1>1, <1>2, <1>4, RejectReads
<1> QED BY <1>3, <1>4

LEMMA HandleKeepsReading ==
    ASSUME MaxLexemes \in Nat, ReadInv, JInv, Handle
    PROVE  ReadInv'
<1>1. phase = "handle" /\ read' = read
  BY DEF Handle
<1>2. PICK T, l : ThisToken(T, l)
  BY <1>1 DEF ReadInv
<1>3. /\ T \in Seq(Lexemes) /\ l \in Lexemes /\ Tokens = Append(T, l) /\ IsTokenOf(tok, l)
      /\ KindOf[l] = "EOF" \/ Len(T) < MaxLexemes
  BY <1>2 DEF ThisToken
<1>4. PICK gs : AreHandlers(gs, T)
  BY <1>2 DEF ThisToken, HasRead, AreHandlers, JInv
<1>5. Tokens' = Tokens
  BY <1>1 DEF Tokens, NonBlank
<1>6. Handled(Tokens, dropped')
  BY <1>3, <1>4, HandleReads
<1>7. err = "none" /\ result = NULL /\ read \in Seq(Lexemes)
  BY <1>1 DEF ReadInv, JInv
<1>8. dropped' \in BOOLEAN
  BY DEF ReadInv, Handle, PartDropped
<1>9. Len(T) < MaxLexemes => Len(Tokens) <= MaxLexemes
  <2>1. Len(Tokens) = Len(T) + 1 /\ Len(T) \in Nat
    BY <1>3, AppendProperties
  <2> QED BY <2>1
<1>10. KindOf[l] = "EOF" => phase' = "cleanup"
  <2>1. KindOf[l] = "EOF" => tok.type = "EOF"
    BY <1>3 DEF IsTokenOf
  <2> QED BY <2>1, EndStops
<1>11. CASE phase' = "done" /\ err' = err /\ (dropped' = FALSE => IsValue(Tokens, result'))
  BY <1>1, <1>3, <1>5, <1>7, <1>8, <1>9, <1>10, <1>11 DEF ReadInv, Judged
<1>12. CASE phase' = "cleanup" /\ result' = result /\ (err' \in Judged => Refused(Tokens))
  BY <1>1, <1>5, <1>7, <1>8, <1>12 DEF ReadInv
<1>13. CASE phase' = "next" /\ result' = result /\ err' = err /\ HasRead(Tokens, frames', dropped')
  BY <1>1, <1>3, <1>5, <1>7, <1>8, <1>9, <1>10, <1>13 DEF ReadInv, Judged
<1>14. CASE phase' \in {"overrun", "crash"} /\ result' = result /\ err' = err
  BY <1>1, <1>5, <1>7, <1>8, <1>14 DEF ReadInv, Judged
<1> QED BY <1>6, <1>11, <1>12, <1>13, <1>14 DEF Handled

LEMMA CleanupKeepsReading ==
    ASSUME ReadInv, JInv, Cleanup
    PROVE  ReadInv'
<1>1. /\ phase = "cleanup" /\ phase' \in {"cleanup", "done"}
      /\ UNCHANGED <<read, dropped, result, err>>
  BY DEF Cleanup
<1>2. result = NULL
  BY <1>1 DEF JInv
<1>3. Tokens' = Tokens
  BY <1>1 DEF Tokens, NonBlank
<1> QED BY <1>1, <1>2, <1>3 DEF ReadInv

LEMMA ReadInvHolds ==
    ASSUME LexemesAreRead, NullIsNoValue
    PROVE  Spec => []ReadInv
<1> SUFFICES ASSUME MaxLexemes \in Nat PROVE Spec => []ReadInv
  BY ReaderAssumption, GrammarAssumption
<1>1. Init => ReadInv
  BY InitReads
<1>2. ReadInv /\ JInv /\ [Next]_vars => ReadInv'
  <2> SUFFICES ASSUME ReadInv, JInv, [Next]_vars PROVE ReadInv'
    OBVIOUS
  <2>1. phase \in {"next", "chunk"} => result = NULL
    BY DEF JInv
  <2>2. CASE NextToken
    BY <2>1, <2>2, NextTokenReads DEF NextToken
  <2>3. CASE NextChunk
    BY <2>1, <2>3, NextChunkReads DEF NextChunk
  <2>4. CASE Handle
    BY <2>4, HandleKeepsReading
  <2>5. CASE Cleanup
    BY <2>5, CleanupKeepsReading
  <2>6. CASE UNCHANGED vars
    <3>1. UNCHANGED <<read, phase, tok, frames, dropped, result, err>>
      BY <2>6 DEF vars
    <3>2. Tokens' = Tokens /\ Readable' = Readable
      BY <3>1 DEF Tokens, Readable, Blanks
    <3>3. (\E T, l : ThisToken(T, l)) => (\E T, l : ThisToken(T, l))'
      BY <3>1, <3>2 DEF ThisToken
    <3> QED BY <3>1, <3>2, <3>3 DEF ReadInv
  <2> QED BY <2>2, <2>3, <2>4, <2>5, <2>6 DEF Next
<1> QED BY <1>1, <1>2, JInvHolds, PTL DEF Spec

\* Whatever the text, its length and depth, and however it comes in chunks: a
\* result that DyJson_Parse or DyJson_NextEx returns is the value that the
\* grammar gives to exactly the lexemes that were read.
THEOREM DocumentsAreRead ==
    ASSUME LexemesAreRead, NullIsNoValue
    PROVE  Spec => []ReadsDocument
<1>1. MaxLexemes \in Nat /\ MaxLexemes <= Size /\ Size \in Nat
  BY ReaderAssumption, GrammarAssumption
<1>2. ReadInv => ReadsDocument
  <2> SUFFICES ASSUME ReadInv, Stopped, result # NULL, ~dropped
               PROVE  [text |-> Tokens, val |-> result] \in Documents
    BY DEF ReadsDocument
  <2> PICK n : n = Len(Tokens)
    OBVIOUS
  <2>1. IsValue(Tokens, result) /\ n <= MaxLexemes
    BY DEF ReadInv, Stopped
  <2>2. n \in Nat /\ n > 0 /\ [text |-> Tokens, val |-> result] \in Grammar[n].value
    BY <2>1, ValueTyped DEF IsValue
  <2>3. n \in 1..Size /\ n \in 0..Size
    BY <1>1, <2>1, <2>2
  <2>4. [text |-> Tokens, val |-> result] \in Derived[n].value
    BY <2>2, <2>3, DerivedIs
  <2> QED BY <2>3, <2>4 DEF Documents
<1>3. Spec => []ReadInv
  BY <1>1, ReadInvHolds
<1> QED BY <1>2, <1>3, PTL

\* An error of the handlers or the tokenizer that says the text is wrong is
\* raised only if no document begins like what was read.
THEOREM RefusalsAreJust ==
    ASSUME LexemesAreRead, NullIsNoValue
    PROVE  Spec => []RefusalIsJust
<1>1. ReadInv => RefusalIsJust
  <2> SUFFICES ASSUME ReadInv, err \in Judged, Tokens \in Beginnings
               PROVE  FALSE
    BY DEF RefusalIsJust, Judged
  <2>1. PICK n \in 1..Size : \E d \in Derived[n].value : \E i \in 0..Len(d.text) : Tokens = SubSeq(d.text, 1, i)
    BY DEF Beginnings, Documents
  <2>2. PICK d \in Derived[n].value : \E i \in 0..Len(d.text) : Tokens = SubSeq(d.text, 1, i)
    BY <2>1
  <2>3. PICK i \in 0..Len(d.text) : Tokens = SubSeq(d.text, 1, i)
    BY <2>2
  <2>4. IsValue(d.text, d.val)
    <3>1. n \in Nat /\ n \in 0..Size
      BY GrammarAssumption
    <3>2. d \in Grammar[n].value
      BY <3>1, DerivedIs
    <3> QED BY <3>1, <3>2, ValueText
  <2> PICK x \in Seq(Lexemes) : x = d.text
    BY <2>4, ValueTyped
  <2> PICK y : y = SubSeq(x, i + 1, Len(x))
    OBVIOUS
  <2>5. y \in Seq(Lexemes) /\ Tokens \o y = x
    <3>1. Len(x) \in Nat /\ i \in 0..Len(x)
      OBVIOUS
    <3>2. y \in Seq(Lexemes)
      BY <3>1, SubSeqProperties
    <3>3. SubSeq(x, 1, i) \o SubSeq(x, i + 1, Len(x)) = SubSeq(x, 1, Len(x))
      <4>1. 1 \in 1..(Len(x) + 1) /\ i \in (1 - 1)..Len(x) /\ Len(x) \in i..Len(x)
        BY <3>1
      <4> QED BY <4>1, ConcatAdjacentSubSeq
    <3>4. SubSeq(x, 1, Len(x)) = x
      BY SubSeqFull
    <3> QED BY <2>3, <3>2, <3>3, <3>4
  <2>6. Refused(Tokens)
    BY DEF ReadInv
  <2>7. ~IsValue(x, d.val)
    BY <2>5, <2>6 DEF Refused
  <2> QED BY <2>4, <2>7
<1> QED BY <1>1, ReadInvHolds, PTL
-----------------------------------------------------------------------------
(* Locations.                                                              *)

\* The places of the line breaks of a text, and the location after it.
Breaks(x) == {i \in 1..Len(x) : x[i] = "\n"}
LocOf(x) == [offset |-> Len(x), line |-> 1 + Cardinality(Breaks(x)),
             column |-> 1 + Len(x) - (IF Breaks(x) = {} THEN 0 ELSE Max(Breaks(x)))]

\* m is the last of the places B.
IsGreatest(B, m) == m \in B /\ \A j \in B : j <= m

LEMMA GreatestExists ==
    ASSUME NEW n \in Nat, NEW B \in SUBSET (1..n), B # {}
    PROVE  \E m \in B : IsGreatest(B, m)
<1> DEFINE S == {k \in 0..n : n - k \in B}
<1>1. S # {}
  <2>1. PICK j \in B : TRUE
    OBVIOUS
  <2>2. n - j \in 0..n /\ n - (n - j) = j
    BY <2>1
  <2> QED BY <2>1, <2>2
<1>2. PICK k \in S : \A j \in S : ~(j < k)
  <2>1. S \in SUBSET Nat
    OBVIOUS
  <2> HIDE DEF S
  <2> QED BY <1>1, <2>1, FirstOne
<1>3. n - k \in B /\ k \in 0..n
  BY <1>2
<1>4. ASSUME NEW j \in B PROVE j <= n - k
  <2>1. j \in 1..n /\ n - j \in 0..n /\ n - (n - j) = j
    OBVIOUS
  <2>2. n - j \in S
    BY <2>1
  <2>3. ~(n - j < k)
    BY <1>2, <2>2
  <2> QED BY <1>3, <2>1, <2>3
<1> QED BY <1>3, <1>4 DEF IsGreatest

LEMMA GreatestIs ==
    ASSUME NEW n \in Nat, NEW B \in SUBSET (1..n), NEW m, IsGreatest(B, m)
    PROVE  /\ Max(B) = m
           /\ (CHOOSE i \in B : \A j \in B : j <= i) = m
<1>1. \A i \in B : i \in Int
  OBVIOUS
<1>2. m \in B /\ \A j \in B : j <= m
  BY DEF IsGreatest
<1>3. \A i \in B : (\A j \in B : i >= j) => i = m
  BY <1>1, <1>2
<1>4. \A i \in B : (\A j \in B : j <= i) => i = m
  BY <1>1, <1>2
<1>5. \A j \in B : m >= j
  BY <1>1, <1>2
<1>6. Max(B) = m
  BY <1>2, <1>3, <1>5 DEF Max
<1>7. (CHOOSE i \in B : \A j \in B : j <= i) = m
  BY <1>2, <1>4
<1> QED BY <1>6, <1>7

\* A set of places moved by k.
Moved(B, k) == {i + k : i \in B}

LEMMA MovedCount ==
    ASSUME NEW B \in SUBSET Nat, IsFiniteSet(B), NEW k \in Nat
    PROVE  IsFiniteSet(Moved(B, k)) /\ Cardinality(Moved(B, k)) = Cardinality(B)
<1> PICK C : C = Moved(B, k)
  OBVIOUS
<1> DEFINE f == [i \in B |-> i + k]
<1>1. f \in [B -> C]
  BY DEF Moved
<1>2. \A a, b \in B : f[a] = f[b] => a = b
  OBVIOUS
<1>3. \A c \in C : \E b \in B : f[b] = c
  BY DEF Moved
<1> HIDE DEF f
<1>4. f \in Bijection(B, C)
  BY <1>1, <1>2, <1>3, Fun_IsBij
<1>5. ExistsBijection(B, C)
  BY <1>4 DEF ExistsBijection
<1> QED BY <1>5, FS_Bijection

LEMMA BreaksAre ==
    ASSUME NEW S, NEW x \in Seq(S)
    PROVE  /\ Len(x) \in Nat /\ Breaks(x) \in SUBSET (1..Len(x))
           /\ IsFiniteSet(Breaks(x)) /\ Cardinality(Breaks(x)) \in Nat
<1>1. Len(x) \in Nat /\ Breaks(x) \in SUBSET (1..Len(x))
  BY DEF Breaks
<1>2. IsFiniteSet(1..Len(x))
  BY <1>1, FS_Interval
<1>3. IsFiniteSet(Breaks(x))
  BY <1>1, <1>2, FS_Subset
<1> QED BY <1>1, <1>3, FS_CardinalityType

LEMMA BreaksJoin ==
    ASSUME NEW S, NEW x \in Seq(S), NEW t \in Seq(S)
    PROVE  /\ x \o t \in Seq(S) /\ Len(x \o t) = Len(x) + Len(t)
           /\ Breaks(x \o t) = Breaks(x) \cup Moved(Breaks(t), Len(x))
           /\ Cardinality(Breaks(x \o t)) = Cardinality(Breaks(x)) + Cardinality(Breaks(t))
<1> PICK n \in Nat : n = Len(x)
  OBVIOUS
<1> PICK m \in Nat : m = Len(t)
  OBVIOUS
<1> PICK y : y = x \o t
  OBVIOUS
<1>1. /\ y \in Seq(S) /\ Len(y) = n + m
      /\ \A i \in 1..(n + m) : y[i] = IF i <= n THEN x[i] ELSE t[i - n]
  BY ConcatProperties
<1>2. Breaks(x) = {i \in 1..n : x[i] = "\n"} /\ Breaks(t) = {i \in 1..m : t[i] = "\n"}
  BY DEF Breaks
<1>3. Breaks(y) = {i \in 1..(n + m) : y[i] = "\n"}
  BY <1>1 DEF Breaks
<1>4. ASSUME NEW i \in Breaks(y) PROVE i \in Breaks(x) \cup Moved(Breaks(t), n)
  <2>1. i \in 1..(n + m) /\ y[i] = "\n"
    BY <1>3
  <2>2. CASE i <= n
    BY <1>1, <1>2, <2>1, <2>2
  <2>3. CASE ~(i <= n)
    <3>1. i - n \in 1..m /\ (i - n) + n = i
      BY <2>1, <2>3
    <3>2. t[i - n] = "\n"
      BY <1>1, <2>1, <2>3
    <3>3. i - n \in Breaks(t)
      BY <1>2, <3>1, <3>2
    <3> QED BY <3>1, <3>3 DEF Moved
  <2> QED BY <2>2, <2>3
<1>5. ASSUME NEW i \in Breaks(x) PROVE i \in Breaks(y)
  <2>1. i \in 1..n /\ x[i] = "\n" /\ i \in 1..(n + m) /\ i <= n
    BY <1>2
  <2> QED BY <1>1, <1>3, <2>1
<1>6. ASSUME NEW i \in Moved(Breaks(t), n) PROVE i \in Breaks(y)
  <2>1. PICK j \in 1..m : i = j + n /\ t[j] = "\n"
    BY <1>2 DEF Moved
  <2>2. i \in 1..(n + m) /\ ~(i <= n) /\ i - n = j
    BY <2>1
  <2> QED BY <1>1, <1>3, <2>1, <2>2
<1>7. Breaks(y) = Breaks(x) \cup Moved(Breaks(t), n)
  BY <1>4, <1>5, <1>6
<1>8. Breaks(x) \cap Moved(Breaks(t), n) = {}
  <2>1. \A i \in Breaks(x) : i \in 1..n
    BY <1>2
  <2>2. \A i \in Moved(Breaks(t), n) : i \notin 1..n
    BY <1>2 DEF Moved
  <2> QED BY <2>1, <2>2
<1>9. /\ IsFiniteSet(Breaks(x)) /\ Cardinality(Breaks(x)) \in Nat
      /\ IsFiniteSet(Breaks(t)) /\ Cardinality(Breaks(t)) \in Nat
  BY BreaksAre
<1>10. /\ IsFiniteSet(Moved(Breaks(t), n))
       /\ Cardinality(Moved(Breaks(t), n)) = Cardinality(Breaks(t))
  <2>1. Breaks(t) \in SUBSET Nat
    BY <1>2
  <2> QED BY <1>9, <2>1, MovedCount
<1>11. Cardinality(Breaks(y)) = Cardinality(Breaks(x)) + Cardinality(Breaks(t))
  <2> PICK A : A = Breaks(x)
    OBVIOUS
  <2> PICK B : B = Moved(Breaks(t), n)
    OBVIOUS
  <2>1. Cardinality(A \cup B) = Cardinality(A) + Cardinality(B) - Cardinality(A \cap B)
    BY <1>9, <1>10, FS_Union
  <2>2. Cardinality(A \cap B) = 0
    BY <1>8, FS_EmptySet
  <2> QED BY <1>7, <1>9, <1>10, <2>1, <2>2
<1> QED BY <1>1, <1>7, <1>11

\* The location after x and then t.
LEMMA LocationJoin ==
    ASSUME NEW S, NEW x \in Seq(S), NEW t \in Seq(S)
    PROVE  end_location(LocOf(x), t) = LocOf(x \o t)
<1> PICK n \in Nat : n = Len(x)
  OBVIOUS
<1> PICK m \in Nat : m = Len(t)
  OBVIOUS
<1> PICK y : y = x \o t
  OBVIOUS
<1> PICK A : A = Breaks(x)
  OBVIOUS
<1> PICK B : B = Breaks(t)
  OBVIOUS
<1> PICK C : C = Breaks(y)
  OBVIOUS
<1>1. /\ A \in SUBSET (1..n) /\ Cardinality(A) \in Nat
      /\ B \in SUBSET (1..m) /\ Cardinality(B) \in Nat
  BY BreaksAre
<1>2. /\ y \in Seq(S) /\ Len(y) = n + m /\ C = A \cup Moved(B, n)
      /\ Cardinality(C) = Cardinality(A) + Cardinality(B)
  BY BreaksJoin
<1> PICK p : p = (IF A = {} THEN 0 ELSE Max(A))
  OBVIOUS
<1> PICK q : q = (IF C = {} THEN 0 ELSE Max(C))
  OBVIOUS
<1> PICK last : last = CHOOSE i \in B : \A j \in B : j <= i
  OBVIOUS
<1>3. p \in Int
  <2>1. CASE A = {}
    BY <2>1
  <2>2. CASE A # {}
    <3>1. PICK k \in A : IsGreatest(A, k)
      BY <1>1, <2>2, GreatestExists
    <3>2. p = k
      BY <1>1, <2>2, <3>1, GreatestIs
    <3> QED BY <1>1, <3>2
  <2> QED BY <2>1, <2>2
<1>4. LocOf(x) = [offset |-> n, line |-> 1 + Cardinality(A), column |-> 1 + n - p]
  BY DEF LocOf
<1>5. LocOf(y) = [offset |-> n + m, line |-> 1 + Cardinality(C), column |-> 1 + (n + m) - q]
  BY <1>2 DEF LocOf
<1>6. end_location(LocOf(x), t) =
          [offset |-> n + m, line |-> 1 + Cardinality(A) + Cardinality(B),
           column |-> IF B = {} THEN 1 + n - p + m ELSE m - last + 1]
  BY <1>4 DEF end_location, Breaks
<1>7. 1 + Cardinality(C) = 1 + Cardinality(A) + Cardinality(B)
  BY <1>1, <1>2
<1>8. CASE B = {}
  <2>1. C = A
    BY <1>2, <1>8 DEF Moved
  <2>2. 1 + (n + m) - q = 1 + n - p + m
    <3>1. q = p
      BY <2>1
    <3> QED BY ONLY <1>3, <3>1, n \in Nat, m \in Nat
  <2> QED BY <1>5, <1>6, <1>7, <1>8, <2>2
<1>9. CASE B # {}
  <2>1. PICK k \in B : IsGreatest(B, k)
    BY <1>1, <1>9, GreatestExists
  <2>2. last = k /\ k \in 1..m
    BY <1>1, <2>1, GreatestIs
  <2>3. IsGreatest(C, k + n)
    <3>1. k + n \in C
      BY <1>2, <2>1 DEF Moved
    <3>2. ASSUME NEW j \in C PROVE j <= k + n
      <4>1. CASE j \in A
        <5>1. j \in 1..n
          BY <1>1, <4>1
        <5> QED BY <2>2, <5>1
      <4>2. CASE j \in Moved(B, n)
        <5>1. PICK i \in B : j = i + n
          BY <4>2 DEF Moved
        <5>2. i <= k /\ i \in 1..m
          BY <1>1, <2>1 DEF IsGreatest
        <5> QED BY <2>2, <5>1, <5>2
      <4> QED BY <1>2, <4>1, <4>2
    <3> QED BY <3>1, <3>2 DEF IsGreatest
  <2>4. C \in SUBSET (1..(n + m)) /\ C # {}
    <3>1. C \in SUBSET (1..(n + m))
      <4>1. C \in SUBSET (1..Len(y))
        BY <1>2, BreaksAre
      <4> QED BY <1>2, <4>1
    <3> QED BY <2>3, <3>1 DEF IsGreatest
  <2>5. q = k + n
    BY <2>3, <2>4, n + m \in Nat, GreatestIs
  <2>6. 1 + (n + m) - q = m - last + 1
    BY ONLY <2>2, <2>5, n \in Nat, m \in Nat
  <2> QED BY <1>5, <1>6, <1>7, <1>9, <2>6
<1> QED BY <1>8, <1>9

LEMMA LocationStart == LocOf(<<>>) = Start
<1>1. Len(<<>>) = 0
  OBVIOUS
<1>2. Breaks(<<>>) = {}
  BY <1>1 DEF Breaks
<1>3. Cardinality(Breaks(<<>>)) = 0
  BY <1>2, FS_EmptySet
<1> QED BY <1>1, <1>2, <1>3 DEF LocOf, Start

\* The bytes of all lexemes; the text of the lexemes ls.
Bytes == UNION {Range(TextOf[l]) : l \in Lexemes}
TextAll(ls) == FlattenSeq([i \in 1..Len(ls) |-> TextOf[ls[i]]])

LEMMA TextIsBytes == ASSUME NEW l \in Lexemes PROVE TextOf[l] \in Seq(Bytes)
<1>1. TextOf[l] \in Seq(Range(TextOf[l]))
  BY GrammarAssumption
<1>2. Range(TextOf[l]) \subseteq Bytes
  BY DEF Bytes
<1> QED BY <1>1, <1>2, SeqMonotonic

LEMMA TextNone == TextAll(<<>>) = <<>>
<1> DEFINE F == [i \in 1..Len(<<>>) |-> TextOf[<<>>[i]]]
<1>1. F = <<>>
  <2>1. Len(<<>>) = 0
    OBVIOUS
  <2>2. DOMAIN F = 1..0 /\ F = [i \in DOMAIN F |-> F[i]]
    BY <2>1
  <2> HIDE DEF F
  <2> QED BY <2>2, NoIndex
<1> QED BY <1>1, FlattenNone DEF TextAll

LEMMA TextMore ==
    ASSUME NEW ls \in Seq(Lexemes), NEW l \in Lexemes
    PROVE  /\ TextAll(ls) \in Seq(Bytes) /\ TextOf[l] \in Seq(Bytes)
           /\ TextAll(Append(ls, l)) = TextAll(ls) \o TextOf[l]
<1> PICK n \in Nat : n = Len(ls)
  OBVIOUS
<1> PICK ms : ms = Append(ls, l)
  OBVIOUS
<1>1. Len(ms) = n + 1 /\ ms[n + 1] = l /\ \A i \in 1..n : ms[i] = ls[i]
  BY AppendProperties
<1> PICK F : F = [i \in 1..n |-> TextOf[ls[i]]]
  OBVIOUS
<1> PICK G : G = [i \in 1..(n + 1) |-> TextOf[ms[i]]]
  OBVIOUS
<1>2. Len(F) = n /\ (F = <<>> \/ n # 0)
  <2>1. F = [i \in 1..n |-> F[i]]
    OBVIOUS
  <2> QED BY <2>1, MapLen
<1>3. Len(G) = n + 1
  <2>1. G = [i \in 1..(n + 1) |-> G[i]] /\ n + 1 \in Nat
    OBVIOUS
  <2> QED BY <2>1, MapLen
<1>4. \A i \in 1..n : F[i] \in Seq(Bytes)
  <2>1. \A i \in 1..n : ls[i] \in Lexemes
    OBVIOUS
  <2> QED BY <2>1, TextIsBytes
<1>5. \A i \in 1..n : G[i] = F[i]
  BY <1>1
<1>6. G[n + 1] = TextOf[l]
  BY <1>1
<1>7. TextOf[l] \in Seq(Bytes)
  BY TextIsBytes
<1>8. OneMore(Bytes, F, G)
  BY <1>2, <1>3, <1>4, <1>5, <1>6, <1>7 DEF OneMore
<1>9. FlattenSeq(G) = FlattenSeq(F) \o G[n + 1] /\ FlattenSeq(F) \in Seq(Bytes)
  BY <1>2, <1>8, FlattenMore
<1>10. TextAll(ls) = FlattenSeq(F) /\ TextAll(ms) = FlattenSeq(G)
  BY <1>1 DEF TextAll
<1> QED BY <1>6, <1>7, <1>9, <1>10

-----------------------------------------------------------------------------
(* The location, and what a cut token is reported as.                      *)

\* The text is read as long as there is no error.
TextInv == /\ read \in Seq(Lexemes)
           /\ phase \in {"next", "chunk", "handle"} => err = "none"
           /\ phase = "chunk" => tok.text[1] \in Readable

\* What an error leaves behind: the location of the text read, unless its last
\* lexeme is no token; a keyword, if it was cut.
Located == {"none", "parse", "unhashable", "memory"}
LocInv == err \in Located => loc = LocOf(TextAll(read))
CutInv == err = "cut token" => KindOf[Last(read)] \in Keywords \cup {"BAD"}

ErrInv == TextInv /\ LocInv /\ CutInv

LEMMA AcceptTells ==
    ASSUME LexemesAreRead, ErrInv, err = "none", NEW l \in Readable, NEW s \in Buffers(l),
           TokenIn[s].type # "INVALID", Accept(l, s, TokenIn[s])
    PROVE  ErrInv'
<1> PICK text : text = SubSeq(s, 1, TokenIn[s].len)
  OBVIOUS
<1>1. l \in Lexemes
  BY DEF Readable
<1>2. text = TextOf[l]
  BY <1>1, BufferReads DEF IsReadAs
<1>3. /\ read' = Append(read, l) /\ loc' = end_location(loc, text)
      /\ err' = "none" /\ phase' \in {"next", "handle"}
  BY DEF Accept
<1>4. loc = LocOf(TextAll(read)) /\ read \in Seq(Lexemes)
  BY DEF ErrInv, TextInv, LocInv, Located
<1>5. /\ TextAll(read) \in Seq(Bytes) /\ TextOf[l] \in Seq(Bytes)
      /\ TextAll(Append(read, l)) = TextAll(read) \o TextOf[l]
  BY <1>1, <1>4, TextMore
<1> PICK x \in Seq(Bytes) : x = TextAll(read)
  BY <1>5
<1>6. end_location(LocOf(x), text) = LocOf(x \o text)
  BY <1>2, <1>5, LocationJoin
<1>7. loc' = LocOf(TextAll(Append(read, l)))
  BY <1>2, <1>3, <1>4, <1>5, <1>6
<1>8. TextAll(read)' = TextAll(Append(read, l))
  BY <1>3 DEF TextAll
<1>9. LocInv'
  BY <1>7, <1>8 DEF LocInv, LocOf, Breaks
<1>10. TextInv'
  <2>1. read' \in Seq(Lexemes)
    BY <1>1, <1>3, <1>4, AppendProperties
  <2> QED BY <1>3, <2>1 DEF TextInv
<1>11. CutInv'
  BY <1>3 DEF CutInv
<1> QED BY <1>9, <1>10, <1>11 DEF ErrInv

LEMMA RejectTells ==
    ASSUME LexemesAreRead, ErrInv, NEW l \in Readable, NEW s \in Buffers(l),
           TokenIn[s].type = "INVALID", Reject(l, s, TokenIn[s])
    PROVE  ErrInv'
<1> PICK t : t = TokenIn[s]
  OBVIOUS
<1>1. l \in Lexemes
  BY DEF Readable
<1>2. KindOf[l] = "BAD" \/ IsChunkEnd(t) \/ KindOf[l] \in Keywords
  BY <1>1, BufferReads
<1>3. /\ read' = Append(read, l) /\ phase' = "cleanup" /\ err' \notin Located
      /\ t.error = "chunk end" => err' # "cut token"
  BY DEF Reject, Raise, Located
<1>4. read' \in Seq(Lexemes) /\ Last(read') = l
  <2>1. read \in Seq(Lexemes)
    BY DEF ErrInv, TextInv
  <2> PICK n \in Nat : n = Len(read)
    BY <2>1
  <2>2. read' \in Seq(Lexemes) /\ Len(read') = n + 1 /\ read'[n + 1] = l
    BY <1>1, <1>3, <2>1, AppendProperties
  <2>3. Last(read') = read'[Len(read')]
    BY DEF Last
  <2> QED BY <2>2, <2>3
<1>5. TextInv' /\ LocInv'
  BY <1>3, <1>4 DEF TextInv, LocInv
<1>6. CutInv'
  <2> SUFFICES ASSUME err' = "cut token" PROVE KindOf[Last(read')] \in Keywords \cup {"BAD"}
    BY DEF CutInv
  <2>1. ~IsChunkEnd(t)
    BY <1>3 DEF IsChunkEnd
  <2> QED BY <1>2, <1>4, <2>1
<1> QED BY <1>5, <1>6 DEF ErrInv

LEMMA SameTells ==
    ASSUME ErrInv, UNCHANGED <<read, loc>>, err' = err \/ (err' # "cut token" /\ err = "none"),
           phase' \in {"next", "chunk", "handle"} => err' = "none",
           phase' = "chunk" => tok'.text[1] \in Readable
    PROVE  ErrInv'
<1>1. TextAll(read)' = TextAll(read) /\ Readable' = Readable
  BY DEF TextAll, Readable, Blanks, NonBlank
<1>2. LocInv'
  BY <1>1 DEF ErrInv, LocInv, Located, LocOf, Breaks
<1>3. CutInv'
  BY DEF ErrInv, CutInv
<1>4. TextInv'
  BY <1>1 DEF ErrInv, TextInv
<1> QED BY <1>2, <1>3, <1>4 DEF ErrInv

\* Handlers raise an error, or go on reading without one.
LEMMA HandleTells ==
    ASSUME Handle
    PROVE  /\ phase' \notin {"chunk", "handle"} /\ (phase' = "next" => err' = err)
           /\ err' = err \/ err' # "cut token"
<1>1. ASSUME NEW fs, NEW h, NEW v, Return(fs, h, v)
      PROVE  /\ phase' \notin {"chunk", "handle"} /\ (phase' = "next" => err' = err)
             /\ err' = err \/ err' # "cut token"
  BY <1>1 DEF Return, Deliver, StoreFails, Crash, Raise
<1>2. PartDropped => \E fs, h, v : Return(fs, h, v)
  BY DEF PartDropped
<1>3. CloseContainer => \E fs, h, v : Return(fs, h, v)
  BY DEF CloseContainer
<1>4. ReadValue => \/ /\ phase' \notin {"chunk", "handle"} /\ (phase' = "next" => err' = err)
                      /\ err' = err \/ err' # "cut token"
                   \/ \E fs, h, v : Return(fs, h, v)
  BY DEF ReadValue, Raise
<1>5. OutOfMemory => phase' \in {"cleanup", "crash"} /\ (err' = err \/ err' # "cut token")
  BY DEF OutOfMemory, Raise, Crash
<1>6. HandleFirst => CloseContainer \/ ReadValue
  BY DEF HandleFirst
<1>7. HandleColon => /\ phase' \notin {"chunk", "handle"} /\ (phase' = "next" => err' = err)
                     /\ err' = err \/ err' # "cut token"
  BY DEF HandleColon, Raise
<1>8. HandleComma => \/ CloseContainer
                     \/ /\ phase' \notin {"chunk", "handle"} /\ (phase' = "next" => err' = err)
                        /\ err' = err \/ err' # "cut token"
  BY DEF HandleComma, Raise
<1> QED BY <1>1, <1>2, <1>3, <1>4, <1>5, <1>6, <1>7, <1>8 DEF Handle

LEMMA ErrInvHolds ==
    ASSUME LexemesAreRead
    PROVE  Spec => []ErrInv
<1>1. Init => ErrInv
  <2> SUFFICES ASSUME Init PROVE ErrInv
    OBVIOUS
  <2>1. read \in Seq(Lexemes)
    BY EmptySeq DEF Init
  <2>2. loc = LocOf(TextAll(read))
    BY TextNone, LocationStart DEF Init
  <2> QED BY <2>1, <2>2 DEF Init, ErrInv, TextInv, LocInv, CutInv
<1>2. ErrInv /\ [Next]_vars => ErrInv'
  <2> SUFFICES ASSUME ErrInv, [Next]_vars PROVE ErrInv'
    OBVIOUS
  <2>1. phase \in {"next", "chunk", "handle"} => err = "none"
    BY DEF ErrInv, TextInv
  <2>2. CASE NextToken
    <3>1. err = "none"
      BY <2>1, <2>2 DEF NextToken
    <3>2. PICK l \in Readable : \E s \in Buffers(l) :
              \/ TokenIn[s].type # "INVALID" /\ Accept(l, s, TokenIn[s])
              \/ /\ phase' = "chunk" /\ tok' = [None EXCEPT !.text = <<l>>]
                 /\ UNCHANGED <<read, loc, err>>
              \/ TokenIn[s].type = "INVALID" /\ Reject(l, s, TokenIn[s])
      BY <2>2 DEF NextToken
    <3>3. PICK s \in Buffers(l) :
              \/ TokenIn[s].type # "INVALID" /\ Accept(l, s, TokenIn[s])
              \/ /\ phase' = "chunk" /\ tok' = [None EXCEPT !.text = <<l>>]
                 /\ UNCHANGED <<read, loc, err>>
              \/ TokenIn[s].type = "INVALID" /\ Reject(l, s, TokenIn[s])
      BY <3>2
    <3>4. CASE TokenIn[s].type # "INVALID" /\ Accept(l, s, TokenIn[s])
      BY <3>1, <3>4, AcceptTells
    <3>5. CASE /\ phase' = "chunk" /\ tok' = [None EXCEPT !.text = <<l>>]
               /\ UNCHANGED <<read, loc, err>>
      <4>1. tok'.text[1] = l
        BY <3>5 DEF None
      <4> QED BY <3>1, <3>5, <4>1, SameTells
    <3>6. CASE TokenIn[s].type = "INVALID" /\ Reject(l, s, TokenIn[s])
      BY <3>6, RejectTells
    <3> QED BY <3>3, <3>4, <3>5, <3>6
  <2>3. CASE NextChunk
    <3>1. err = "none" /\ phase = "chunk"
      BY <2>1, <2>3 DEF NextChunk
    <3> PICK l \in Readable : l = tok.text[1]
      BY <3>1 DEF ErrInv, TextInv
    <3>2. PICK s \in Buffers(l) :
              IF TokenIn[s].type # "INVALID" THEN Accept(l, s, TokenIn[s])
              ELSE Reject(l, s, TokenIn[s])
      BY <2>3 DEF NextChunk
    <3>3. CASE TokenIn[s].type # "INVALID"
      BY <3>1, <3>2, <3>3, AcceptTells
    <3>4. CASE TokenIn[s].type = "INVALID"
      BY <3>2, <3>4, RejectTells
    <3> QED BY <3>3, <3>4
  <2>4. CASE Handle
    <3>1. err = "none" /\ UNCHANGED <<read, loc>>
      BY <2>1, <2>4 DEF Handle
    <3> QED BY <2>4, <3>1, HandleTells, SameTells
  <2>5. CASE Cleanup
    <3>1. UNCHANGED <<read, loc, err>> /\ phase' \in {"cleanup", "done"}
      BY <2>5 DEF Cleanup
    <3> QED BY <3>1, SameTells
  <2>6. CASE UNCHANGED vars
    <3>1. UNCHANGED <<read, loc, err, phase, tok>>
      BY <2>6 DEF vars
    <3> QED BY <2>1, <3>1, SameTells DEF ErrInv, TextInv
  <2> QED BY <2>2, <2>3, <2>4, <2>5, <2>6 DEF Next
<1> QED BY <1>1, <1>2, PTL DEF Spec

\* In any text, at any of its ends: token->end_location is the offset, the line
\* and the column after all that was read, over all chunks.
THEOREM LocationsAreExact ==
    ASSUME LexemesAreRead
    PROVE  Spec => []LocationExact
<1>1. ErrInv => LocationExact
  BY DEF ErrInv, LocInv, LocationExact, Located, LocOf, Breaks, TextAll
<1> QED BY <1>1, ErrInvHolds, PTL

\* Wherever a chunk ends in a number, a string or before a token, the tokenizer
\* says that the chunk has ended; only in a keyword it may not.
THEOREM CutsAreReported ==
    ASSUME LexemesAreRead
    PROVE  Spec => []ChunkEndsReported
<1>1. ErrInv => ChunkEndsReported
  BY DEF ErrInv, CutInv, ChunkEndsReported, Keywords
<1> QED BY <1>1, ErrInvHolds, PTL

-----------------------------------------------------------------------------
(* Integers: the remainder by 2 * Limit.                                   *)

Round == 2 * Limit
Congruent(a, b) == \E k \in Int : a = b + k * Round

LEMMA RoundTyped == Limit \in Nat /\ Limit > 0 /\ Round \in Nat /\ Round > 0
BY BitsAssumption DEF Round

LEMMA CongruentJoin ==
    ASSUME NEW a \in Int, NEW b \in Int, NEW c \in Int, Congruent(a, b), Congruent(b, c)
    PROVE  Congruent(a, c)
<1> PICK r \in Nat : r = Round
  BY RoundTyped
<1>1. PICK k \in Int : a = b + k * r
  BY DEF Congruent
<1>2. PICK m \in Int : b = c + m * r
  BY DEF Congruent
<1>3. a = c + (k + m) * r /\ k + m \in Int
  BY <1>1, <1>2
<1> QED BY <1>3 DEF Congruent

\* One more digit.
LEMMA CongruentMore ==
    ASSUME NEW a \in Int, NEW b \in Int, NEW d \in Int, Congruent(a, b)
    PROVE  Congruent(a * 10, b * 10) /\ Congruent(a + d, b + d) /\ Congruent(-a, -b) /\ Congruent(a, a)
<1> PICK r \in Nat : r = Round
  BY RoundTyped
<1>1. PICK k \in Int : a = b + k * r
  BY DEF Congruent
<1>2. a * 10 = b * 10 + (10 * k) * r /\ 10 * k \in Int
  BY <1>1
<1>3. a + d = (b + d) + k * r
  BY <1>1
<1>4. -a = -b + (-k) * r /\ -k \in Int
  BY <1>1
<1>5. a = a + 0 * r /\ 0 \in Int
  OBVIOUS
<1> QED BY <1>2, <1>3, <1>4, <1>5 DEF Congruent

LEMMA WrapIs ==
    ASSUME NEW v \in Int
    PROVE  Wrap(v) \in (-Limit)..(Limit - 1) /\ Congruent(Wrap(v), v)
<1> PICK h \in Nat : h = Limit
  BY RoundTyped
<1> PICK r \in Nat : r = Round
  BY RoundTyped
<1>1. h > 0 /\ r = 2 * h /\ r > 0
  BY RoundTyped DEF Round
<1> PICK u \in Int : u = v + h
  OBVIOUS
<1> PICK k \in Int : k = u \div r
  BY <1>1
<1> PICK w \in Int : w = u % r
  BY <1>1
<1>2. u = r * k + w /\ w \in 0..(r - 1)
  BY <1>1
<1>3. Wrap(v) = w - h
  BY <1>1 DEF Wrap
<1>4. w - h \in (-h)..(h - 1)
  BY <1>1, <1>2
<1>5. w - h = v + (-k) * r /\ -k \in Int
  <2>1. r * k = k * r /\ (-k) * r = -(k * r)
    OBVIOUS
  <2> QED BY <1>2, <2>1
<1> QED BY <1>3, <1>4, <1>5 DEF Congruent

LEMMA WrapTyped == ASSUME NEW v \in Int PROVE Wrap(v) \in Int
BY WrapIs, RoundTyped

LEMMA CongruentSame ==
    ASSUME NEW a \in (-Limit)..(Limit - 1), NEW b \in (-Limit)..(Limit - 1), Congruent(a, b)
    PROVE  a = b
<1> PICK h \in Nat : h = Limit
  BY RoundTyped
<1> PICK r \in Nat : r = Round
  BY RoundTyped
<1>1. h > 0 /\ r = 2 * h /\ r > 0
  BY RoundTyped DEF Round
<1>2. PICK k \in Int : a = b + k * r
  BY DEF Congruent
<1>3. a - b < r /\ b - a < r
  BY <1>1
<1>4. ~(k >= 1)
  <2>1. ASSUME k >= 1 PROVE k * r >= r
    BY <1>1, <2>1
  <2> QED BY <1>2, <1>3, <2>1
<1>5. ~(k <= -1)
  <2>1. ASSUME k <= -1 PROVE k * r <= -r
    BY <1>1, <2>1
  <2> QED BY <1>2, <1>3, <2>1
<1>6. k = 0
  BY <1>4, <1>5
<1> QED BY <1>2, <1>6

-----------------------------------------------------------------------------
(* The digits of a number, one after the other.                            *)

\* f starts with z and is taken on by G.
Steps(f, z, G, n) == f[0] = z /\ \A i \in 1..n : f[i] = G[i][f[i - 1]]

LEMMA StepsExist ==
    ASSUME NEW S, NEW z \in S, NEW N \in Nat, NEW G \in [1..N -> [S -> S]]
    PROVE  \E f \in [0..N -> S] : Steps(f, z, G, N)
<1> DEFINE Bad == {n \in 0..N : ~\E f \in [0..n -> S] : Steps(f, z, G, n)}
<1>1. ASSUME NEW n \in Bad PROVE \E m \in Bad : m < n
  <2>0. n \in 0..N /\ ~\E f \in [0..n -> S] : Steps(f, z, G, n)
    OBVIOUS
  <2>1. n # 0
    <3>1. ASSUME n = 0 PROVE FALSE
      <4> PICK f : f = [i \in 0..n |-> z]
        OBVIOUS
      <4>1. f \in [0..n -> S] /\ f[0] = z /\ 1..n = {}
        BY <3>1
      <4> QED BY <2>0, <4>1 DEF Steps
    <3> QED BY <3>1
  <2> PICK m \in Nat : m + 1 = n
    BY <2>0, <2>1, n - 1 \in Nat
  <2>2. ASSUME m \notin Bad PROVE FALSE
    <3>1. PICK f \in [0..m -> S] : Steps(f, z, G, m)
      BY <2>0, <2>2
    <3> PICK v : v = G[n][f[m]]
      OBVIOUS
    <3>2. v \in S
      BY <2>0, <2>1
    <3> PICK g : g = [i \in 0..n |-> IF i = n THEN v ELSE f[i]]
      OBVIOUS
    <3>3. g \in [0..n -> S]
      BY <3>2
    <3>4. g[0] = z
      BY <2>1, <3>1 DEF Steps
    <3>5. ASSUME NEW i \in 1..n PROVE g[i] = G[i][g[i - 1]]
      <4>1. g[i - 1] = f[i - 1]
        OBVIOUS
      <4>2. CASE i = n
        <5>1. i - 1 = m /\ g[i] = v
          BY <4>2
        <5> QED BY <4>1, <4>2, <5>1
      <4>3. CASE i # n
        <5>1. i \in 1..m /\ g[i] = f[i]
          BY <4>3
        <5> QED BY <3>1, <4>1, <5>1 DEF Steps
      <4> QED BY <4>2, <4>3
    <3> QED BY <2>0, <3>3, <3>4, <3>5 DEF Steps
  <2>3. m \in 0..N /\ m < n
    BY <2>0
  <2> QED BY <2>2, <2>3
<1> HIDE DEF Bad
<1>2. Bad \in SUBSET Nat
  BY DEF Bad
<1>3. Bad = {}
  BY <1>1, <1>2, FirstOne
<1> QED BY <1>3 DEF Bad

\* The number that a literal stands for, whatever its size.
NumberOf(t) ==
    LET negate == t[1] = "-"
        value[i \in 0..Len(t)] ==
            IF i = 0 \/ (i = 1 /\ negate) THEN 0 ELSE 10 * value[i - 1] + Nibble(t[i])
    IN  IF negate THEN -value[Len(t)] ELSE value[Len(t)]

\* What NumberOf and int_value have of it after each byte.
ValueAfter(t, v) == v = [i \in 0..Len(t) |-> IF i = 0 \/ (i = 1 /\ t[1] = "-") THEN 0
                                         ELSE 10 * v[i - 1] + Nibble(t[i])]
WrappedAfter(t, v) == v = [i \in 0..Len(t) |-> IF i = 0 \/ (i = 1 /\ t[1] = "-") THEN 0
                                          ELSE Wrap(Wrap(v[i - 1] * 10) + Nibble(t[i]))]

\* The bytes of an integer literal behind its sign.
IsNumeral(t) == /\ Len(t) \in Nat \ {0}
                /\ \A i \in 1..Len(t) : t[i] \in Digit \/ (i = 1 /\ t[1] = "-")

LEMMA NibbleTyped == ASSUME NEW c \in Digit PROVE Nibble(c) \in Int
<1>1. \E i \in 1..16 : Nibbles[i] = c
  <2>1. /\ Nibbles[1] = "0" /\ Nibbles[2] = "1" /\ Nibbles[3] = "2" /\ Nibbles[4] = "3"
        /\ Nibbles[5] = "4" /\ Nibbles[6] = "5" /\ Nibbles[7] = "6" /\ Nibbles[8] = "7"
        /\ Nibbles[9] = "8" /\ Nibbles[10] = "9"
    BY DEF Nibbles
  <2>2. {1, 2, 3, 4, 5, 6, 7, 8, 9, 10} \subseteq 1..16
    OBVIOUS
  <2> QED BY <2>1, <2>2, Zenon DEF Digit
<1>2. (CHOOSE i \in 1..16 : Nibbles[i] = c) \in 1..16
  BY <1>1
<1> PICK i \in Int : i = CHOOSE j \in 1..16 : Nibbles[j] = c
  BY <1>2
<1>3. Nibble(c) = i - 1
  BY DEF Nibble
<1> QED BY <1>3


LEMMA ValuesAre ==
    ASSUME NEW t, IsNumeral(t)
    PROVE  /\ \E v \in [0..Len(t) -> Int] : ValueAfter(t, v)
           /\ \E v \in [0..Len(t) -> Int] : WrappedAfter(t, v)
<1> PICK n \in Nat : n = Len(t)
  BY DEF IsNumeral
<1> DEFINE Skip(i) == i = 0 \/ (i = 1 /\ t[1] = "-")
<1>1. ASSUME NEW i \in 1..n, ~Skip(i) PROVE Nibble(t[i]) \in Int
  <2>1. t[i] \in Digit
    BY <1>1 DEF IsNumeral
  <2> QED BY <2>1, NibbleTyped
<1>2. \E v \in [0..n -> Int] : v = [i \in 0..n |-> IF Skip(i) THEN 0 ELSE 10 * v[i - 1] + Nibble(t[i])]
  <2> PICK G : G = [i \in 1..n |-> [x \in Int |-> IF Skip(i) THEN 0 ELSE 10 * x + Nibble(t[i])]]
    OBVIOUS
  <2>1. G \in [1..n -> [Int -> Int]]
    <3>1. ASSUME NEW i \in 1..n, NEW x \in Int
          PROVE  (IF Skip(i) THEN 0 ELSE 10 * x + Nibble(t[i])) \in Int
      <4> HIDE DEF Skip
      <4> QED BY <1>1
    <3> HIDE DEF Skip
    <3> QED BY <3>1
  <2>2. PICK v \in [0..n -> Int] : Steps(v, 0, G, n)
    <3> PICK S : S = Int
      OBVIOUS
    <3> PICK z \in S : z = 0
      OBVIOUS
    <3>1. G \in [1..n -> [S -> S]]
      BY <2>1
    <3>2. \E v \in [0..n -> S] : Steps(v, z, G, n)
      BY ONLY <3>1, StepsExist, z \in S, n \in Nat
    <3> QED BY <3>2
  <2>3. ASSUME NEW i \in 0..n PROVE v[i] = IF Skip(i) THEN 0 ELSE 10 * v[i - 1] + Nibble(t[i])
    <3>1. CASE i = 0
      BY <2>2, <3>1 DEF Steps
    <3>2. CASE i # 0
      <4> PICK j \in 0..n : j = i - 1
        BY <3>2
      <4>1. i \in 1..n /\ v[i - 1] \in Int
        <5>1. i \in 1..n
          BY <3>2
        <5>2. v[j] \in Int
          BY <2>2
        <5> QED BY <5>1, <5>2
      <4>2. v[i] = G[i][v[i - 1]]
        BY <2>2, <4>1 DEF Steps
      <4> PICK x \in Int : x = v[i - 1]
        BY <4>1
      <4> HIDE DEF Skip
      <4> QED BY <4>1, <4>2
    <3> QED BY <3>1, <3>2
  <2> HIDE DEF Skip
  <2> QED BY <2>3
<1>3. \E v \in [0..n -> Int] : v = [i \in 0..n |-> IF Skip(i) THEN 0
                                                    ELSE Wrap(Wrap(v[i - 1] * 10) + Nibble(t[i]))]
  <2> PICK G : G = [i \in 1..n |-> [x \in Int |-> IF Skip(i) THEN 0
                                                   ELSE Wrap(Wrap(x * 10) + Nibble(t[i]))]]
    OBVIOUS
  <2>1. G \in [1..n -> [Int -> Int]]
    <3>1. ASSUME NEW i \in 1..n, NEW x \in Int
          PROVE  (IF Skip(i) THEN 0 ELSE Wrap(Wrap(x * 10) + Nibble(t[i]))) \in Int
      <4> PICK y \in Int : y = x * 10
        OBVIOUS
      <4> PICK z \in Int : z = Wrap(y)
        BY WrapTyped
      <4>3. ASSUME ~Skip(i) PROVE Wrap(Wrap(x * 10) + Nibble(t[i])) \in Int
        <5> PICK u \in Int : u = z + Nibble(t[i])
          BY <1>1, <4>3
        <5>1. Wrap(u) \in Int
          BY WrapTyped
        <5> QED BY <5>1
      <4> HIDE DEF Skip
      <4> QED BY <4>3
    <3> HIDE DEF Skip
    <3> QED BY <3>1
  <2>2. PICK v \in [0..n -> Int] : Steps(v, 0, G, n)
    <3> PICK S : S = Int
      OBVIOUS
    <3> PICK z \in S : z = 0
      OBVIOUS
    <3>1. G \in [1..n -> [S -> S]]
      BY <2>1
    <3>2. \E v \in [0..n -> S] : Steps(v, z, G, n)
      BY ONLY <3>1, StepsExist, z \in S, n \in Nat
    <3> QED BY <3>2
  <2>3. ASSUME NEW i \in 0..n
        PROVE  v[i] = IF Skip(i) THEN 0 ELSE Wrap(Wrap(v[i - 1] * 10) + Nibble(t[i]))
    <3>1. CASE i = 0
      BY <2>2, <3>1 DEF Steps
    <3>2. CASE i # 0
      <4> PICK j \in 0..n : j = i - 1
        BY <3>2
      <4>1. i \in 1..n /\ v[i - 1] \in Int
        <5>1. i \in 1..n
          BY <3>2
        <5>2. v[j] \in Int
          BY <2>2
        <5> QED BY <5>1, <5>2
      <4>2. v[i] = G[i][v[i - 1]]
        BY <2>2, <4>1 DEF Steps
      <4> PICK x \in Int : x = v[i - 1]
        BY <4>1
      <4> HIDE DEF Skip
      <4> QED BY <4>1, <4>2
    <3> QED BY <3>1, <3>2
  <2> HIDE DEF Skip
  <2> QED BY <2>3
<1> QED BY <1>2, <1>3 DEF ValueAfter, WrappedAfter

\* The values of a numeral after each byte, unbounded and wrapped, are congruent.
LEMMA ValuesCongruent ==
    ASSUME NEW t, IsNumeral(t), NEW v, NEW w, ValueAfter(t, v), WrappedAfter(t, w)
    PROVE  \A i \in 0..Len(t) : v[i] \in Int /\ w[i] \in Int /\ Congruent(w[i], v[i])
                                /\ w[i] \in (-Limit)..(Limit - 1)
<1> PICK n \in Nat : n = Len(t)
  BY DEF IsNumeral
<1> DEFINE Skip(i) == i = 0 \/ (i = 1 /\ t[1] = "-")
           Good(i) == v[i] \in Int /\ w[i] \in Int /\ Congruent(w[i], v[i])
                      /\ w[i] \in (-Limit)..(Limit - 1)
           Bad == {i \in 0..n : ~Good(i)}
<1>1. ASSUME NEW i \in 0..n
      PROVE  /\ v[i] = IF Skip(i) THEN 0 ELSE 10 * v[i - 1] + Nibble(t[i])
             /\ w[i] = IF Skip(i) THEN 0 ELSE Wrap(Wrap(w[i - 1] * 10) + Nibble(t[i]))
  <2> DEFINE V == [j \in 0..n |-> IF Skip(j) THEN 0 ELSE 10 * v[j - 1] + Nibble(t[j])]
             W == [j \in 0..n |-> IF Skip(j) THEN 0 ELSE Wrap(Wrap(w[j - 1] * 10) + Nibble(t[j]))]
  <2>1. v = V /\ w = W
    BY DEF ValueAfter, WrappedAfter
  <2>2. /\ V[i] = IF Skip(i) THEN 0 ELSE 10 * v[i - 1] + Nibble(t[i])
        /\ W[i] = IF Skip(i) THEN 0 ELSE Wrap(Wrap(w[i - 1] * 10) + Nibble(t[i]))
    OBVIOUS
  <2> HIDE DEF V, W, Skip
  <2> QED BY <2>1, <2>2
<1>2. ASSUME NEW i \in Bad PROVE \E j \in Bad : j < i
  <2>0. i \in 0..n /\ ~Good(i)
    OBVIOUS
  <2>1. ~Skip(i)
    <3>1. ASSUME Skip(i) PROVE FALSE
      <4>1. v[i] = 0 /\ w[i] = 0
        BY <1>1, <2>0, <3>1
      <4>2. Congruent(0, 0)
        BY CongruentMore, RoundTyped DEF Congruent
      <4> QED BY <2>0, <4>1, <4>2, RoundTyped
    <3> QED BY <3>1
  <2>2. i - 1 \in 0..n /\ i \in 1..n /\ i - 1 < i
    BY <2>0, <2>1
  <2>3. ASSUME Good(i - 1) PROVE FALSE
    <3> PICK a \in Int : a = v[i - 1]
      BY <2>3
    <3> PICK b \in Int : b = w[i - 1]
      BY <2>3
    <3> PICK d \in Int : d = Nibble(t[i])
      <4>1. t[i] \in Digit
        BY <2>1, <2>2 DEF IsNumeral
      <4> QED BY <4>1, NibbleTyped
    <3>1. Congruent(b * 10, a * 10)
      BY <2>3, CongruentMore
    <3> PICK y \in Int : y = b * 10
      OBVIOUS
    <3> PICK c \in Int : c = Wrap(y)
      BY WrapTyped
    <3>2. Congruent(c, b * 10)
      BY WrapIs
    <3>3. Congruent(c, a * 10)
      BY <3>1, <3>2, CongruentJoin
    <3>4. Congruent(c + d, a * 10 + d)
      BY <3>3, CongruentMore
    <3> PICK z \in Int : z = c + d
      OBVIOUS
    <3> PICK e \in Int : e = Wrap(z)
      BY WrapTyped
    <3>5. Congruent(e, c + d) /\ e \in (-Limit)..(Limit - 1)
      BY WrapIs
    <3> PICK x \in Int : x = a * 10 + d
      OBVIOUS
    <3>6. Congruent(e, x)
      BY <3>4, <3>5, CongruentJoin
    <3>7. w[i] = e /\ v[i] = 10 * a + d
      <4> HIDE DEF Skip
      <4> QED BY <1>1, <2>0, <2>1
    <3>8. 10 * a + d = x
      OBVIOUS
    <3> QED BY <2>0, <3>5, <3>6, <3>7, <3>8
  <2> HIDE DEF Good
  <2> QED BY <2>2, <2>3
<1> HIDE DEF Bad
<1>3. Bad \in SUBSET Nat
  BY DEF Bad
<1>4. Bad = {}
  BY <1>2, <1>3, FirstOne
<1> QED BY <1>4 DEF Bad

\* Although each digit may overflow an integer of Bits bits (json_token.c:219) and
\* the number is negated last (json_token.c:294), an integer literal of any length
\* is read as the number it stands for if that is one of Bits bits, the least
\* included, and as the one it wraps to otherwise.
THEOREM IntegersAreExact ==
    ASSUME NEW t, IsNumeral(t)
    PROVE  /\ int_value(t) = Wrap(NumberOf(t))
           /\ NumberOf(t) \in (-Limit)..(Limit - 1) => int_value(t) = NumberOf(t)
<1> PICK n \in Nat : n = Len(t)
  BY DEF IsNumeral
<1> DEFINE v == CHOOSE f : ValueAfter(t, f)
           w == CHOOSE f : WrappedAfter(t, f)
<1>1. ValueAfter(t, v) /\ WrappedAfter(t, w)
  BY ValuesAre
<1>2. NumberOf(t) = IF t[1] = "-" THEN -v[Len(t)] ELSE v[Len(t)]
  BY DEF NumberOf, ValueAfter
<1>3. int_value(t) = IF t[1] = "-" THEN Wrap(-w[Len(t)]) ELSE w[Len(t)]
  BY DEF int_value, WrappedAfter
<1> HIDE DEF v, w
<1> PICK a : a = v[n]
  OBVIOUS
<1> PICK b : b = w[n]
  OBVIOUS
<1>4. a \in Int /\ b \in Int /\ Congruent(b, a) /\ b \in (-Limit)..(Limit - 1)
  BY <1>1, n \in 0..n, ValuesCongruent
<1> PICK x : x = NumberOf(t)
  OBVIOUS
<1> PICK y : y = int_value(t)
  OBVIOUS
<1>5. x \in Int /\ y \in Int /\ Congruent(y, x) /\ y \in (-Limit)..(Limit - 1)
  <2>1. CASE t[1] = "-"
    <3>1. x = -a /\ y = Wrap(-b) /\ -a \in Int /\ -b \in Int
      BY <1>2, <1>3, <1>4, <2>1
    <3>2. Congruent(-b, -a)
      BY <1>4, CongruentMore
    <3> PICK z \in Int : z = -b
      BY <1>4
    <3>3. y \in (-Limit)..(Limit - 1) /\ Congruent(y, -b) /\ y \in Int
      BY <3>1, WrapIs, WrapTyped
    <3> QED BY <3>1, <3>2, <3>3, CongruentJoin
  <2>2. CASE t[1] # "-"
    BY <1>2, <1>3, <1>4, <2>2
  <2> QED BY <2>1, <2>2
<1>6. Wrap(x) \in (-Limit)..(Limit - 1) /\ Congruent(Wrap(x), x) /\ Wrap(x) \in Int
  BY <1>5, WrapIs, RoundTyped
<1>7. Congruent(x, y)
  <2> PICK r \in Nat : r = Round
    BY RoundTyped
  <2>1. PICK k \in Int : y = x + k * r
    BY <1>5 DEF Congruent
  <2>2. x = y + (-k) * r /\ -k \in Int
    BY <1>5, <2>1
  <2> QED BY <2>2 DEF Congruent
<1>8. Congruent(Wrap(x), y)
  BY <1>5, <1>6, <1>7, CongruentJoin
<1>9. Wrap(x) = y
  BY <1>5, <1>6, <1>8, CongruentSame
<1>10. x \in (-Limit)..(Limit - 1) => y = x
  BY <1>5, CongruentSame
<1> QED BY <1>9, <1>10

-----------------------------------------------------------------------------
(* Code points, six bits at a time.                                        *)

LEMMA Shifts == /\ Shift[1] = 1 /\ Shift[2] = 64 /\ Shift[3] = 4096 /\ Shift[4] = 262144
                /\ Shift[5] = 16777216 /\ Shift[6] = 1073741824
BY SMT DEF Shift

LEMMA Leads == /\ Lead[1] = 0 /\ Lead[2] = 192 /\ Lead[3] = 224 /\ Lead[4] = 240
               /\ Lead[5] = 248 /\ Lead[6] = 252
BY SMT DEF Lead

LEMMA SixBits ==
    ASSUME NEW x \in Nat, NEW k \in 1..5
    PROVE  /\ x \div Shift[k] \in Nat /\ x \div Shift[k + 1] \in Nat
           /\ (x \div Shift[k]) % 64 \in 0..63
           /\ x \div Shift[k] = 64 * (x \div Shift[k + 1]) + ((x \div Shift[k]) % 64)
<1>1. CASE k = 1
  BY SMT, <1>1, Shifts
<1>2. CASE k = 2
  <2>1. PICK y \in Nat, r \in Nat : x = 4096 * y + r /\ r < 4096
    <3>1. x = 4096 * (x \div 4096) + (x % 4096) /\ x \div 4096 \in Nat /\ x % 4096 \in Nat /\ x % 4096 < 4096
      BY SMT
    <3> QED BY SMT, <3>1
  <2>2. x \div 4096 = y
    BY SMT, <2>1
  <2>3. PICK s \in 0..63, t \in 0..63 : r = 64 * s + t
    <3>1. r = 64 * (r \div 64) + (r % 64) /\ r \div 64 \in 0..63 /\ r % 64 \in 0..63
      BY SMT, <2>1
    <3> QED BY SMT, <3>1
  <2>4. x \div 64 = 64 * y + s
    BY SMT, <2>1, <2>3
  <2>5. (x \div 64) % 64 = s
    BY SMT, <2>4
  <2>6. Shift[k] = 64 /\ Shift[k + 1] = 4096
    BY SMT, <1>2, Shifts
  <2>7. x \div Shift[k] = 64 * y + s /\ x \div Shift[k + 1] = y
    BY <2>2, <2>4, <2>6
  <2>8. (x \div Shift[k]) % 64 = s
    BY <2>5, <2>6
  <2>9. 64 * y + s \in Nat
    BY SMT, <2>1, <2>3
  <2>10. /\ x \div Shift[k] \in Nat /\ x \div Shift[k + 1] \in Nat
         /\ (x \div Shift[k]) % 64 \in 0..63
    BY <2>7, <2>8, <2>9
  <2>11. x \div Shift[k] = 64 * (x \div Shift[k + 1]) + ((x \div Shift[k]) % 64)
    BY ONLY <2>7, <2>8, Zenon
  <2> QED BY <2>10, <2>11
<1>3. CASE k = 3
  BY SMTT(30), <1>3, Shifts
<1>4. CASE k = 4
  BY SMTT(30), <1>4, Shifts
<1>5. CASE k = 5
  BY SMTT(30), <1>5, Shifts
<1> QED BY SMT, <1>1, <1>2, <1>3, <1>4, <1>5

LEMMA Larges == /\ Largest[1] = 127 /\ Largest[2] = 2047 /\ Largest[3] = 65535 /\ Largest[4] = 2097151
                /\ Largest[5] = 67108863 /\ Largest[6] = 2147483647
BY SMT DEF Largest

\* What dyj_unicode_utf8 encodes.
CodePoints == 0..Largest[6]
\* The last of the first bytes of n bytes.
LastLead == <<127, 223, 239, 247, 251, 253>>

LEMMA LastLeads == /\ LastLead[1] = 127 /\ LastLead[2] = 223 /\ LastLead[3] = 239 /\ LastLead[4] = 247
                   /\ LastLead[5] = 251 /\ LastLead[6] = 253
BY SMT DEF LastLead

LEMMA WidthIs ==
    ASSUME NEW cp \in CodePoints
    PROVE  /\ Width(cp) \in 1..6
           /\ Lead[Width(cp)] + (cp \div Shift[Width(cp)]) \in Lead[Width(cp)]..LastLead[Width(cp)]
<1>1. cp \in Nat /\ cp <= 2147483647
  <2>1. Largest[6] = 2147483647
    BY SMT, Larges
  <2>2. Largest[6] \in Nat
    BY SMT, <2>1
  <2>3. cp \in 0..Largest[6]
    BY DEF CodePoints
  <2>4. cp \in Nat /\ cp <= Largest[6]
    BY SMT, <2>2, <2>3
  <2> QED BY SMT, <2>1, <2>4
<1> DEFINE Fits(n) == cp <= Largest[n] /\ \A m \in 1..(n - 1) : cp > Largest[m]
<1>2. \E n \in 1..6 : Fits(n)
  <2>1. CASE cp <= 127
    <3>1. Fits(1)
      BY SMT, <2>1, Larges
    <3> QED BY SMT, <3>1
  <2>2. CASE cp > 127 /\ cp <= 2047
    <3>1. Fits(2)
      <4>1. 1..(2 - 1) = {1}
        OBVIOUS
      <4> QED BY SMT, <2>2, <4>1, Larges
    <3> QED BY SMT, <3>1
  <2>3. CASE cp > 2047 /\ cp <= 65535
    <3>1. Fits(3)
      <4>1. 1..(3 - 1) = {1, 2}
        OBVIOUS
      <4> QED BY SMT, <1>1, <2>3, <4>1, Larges
    <3> QED BY SMT, <3>1
  <2>4. CASE cp > 65535 /\ cp <= 2097151
    <3>1. Fits(4)
      <4>1. 1..(4 - 1) = {1, 2, 3}
        OBVIOUS
      <4> QED BY SMT, <1>1, <2>4, <4>1, Larges
    <3> QED BY SMT, <3>1
  <2>5. CASE cp > 2097151 /\ cp <= 67108863
    <3>1. Fits(5)
      <4>1. 1..(5 - 1) = {1, 2, 3, 4}
        OBVIOUS
      <4> QED BY SMT, <1>1, <2>5, <4>1, Larges
    <3> QED BY SMT, <3>1
  <2>6. CASE cp > 67108863
    <3>1. Fits(6)
      <4>1. 1..(6 - 1) = {1, 2, 3, 4, 5}
        OBVIOUS
      <4> QED BY SMT, <1>1, <2>6, <4>1, Larges
    <3> QED BY SMT, <3>1
  <2> QED BY SMT, <1>1, <2>1, <2>2, <2>3, <2>4, <2>5, <2>6
<1>3. Width(cp) \in 1..6 /\ Fits(Width(cp))
  BY SMT, <1>2 DEF Width
<1> HIDE DEF Fits
<1>4. PICK w \in 1..6 : w = Width(cp) /\ cp <= Largest[w]
  BY SMT, <1>3 DEF Fits
<1>5. Lead[w] + (cp \div Shift[w]) \in Lead[w]..LastLead[w]
  <2>1. CASE w = 1
    BY SMT, <1>1, <1>4, <2>1, Larges, LastLeads, Shifts, Leads
  <2>2. CASE w = 2
    BY SMT, <1>1, <1>4, <2>2, Larges, LastLeads, Shifts, Leads
  <2>3. CASE w = 3
    BY SMT, <1>1, <1>4, <2>3, Larges, LastLeads, Shifts, Leads
  <2>4. CASE w = 4
    BY SMT, <1>1, <1>4, <2>4, Larges, LastLeads, Shifts, Leads
  <2>5. CASE w = 5
    BY SMT, <1>1, <1>4, <2>5, Larges, LastLeads, Shifts, Leads
  <2>6. CASE w = 6
    BY SMT, <1>1, <1>4, <2>6, Larges, LastLeads, Shifts, Leads
  <2> QED BY SMT, <2>1, <2>2, <2>3, <2>4, <2>5, <2>6
<1> QED BY SMT, <1>4, <1>5

LEMMA FirstBytes ==
    ASSUME NEW n \in 1..6
    PROVE  /\ Shift[n] \in Nat \ {0} /\ Lead[n] \in Nat
           /\ LastLead[n] \in Nat /\ LastLead[n] <= 253
           /\ \A m \in 1..6 : n < m => LastLead[n] < Lead[m]
<1>1. Shift[n] \in Nat \ {0}
  BY SMT, Shifts
<1>2. Lead[n] \in Nat /\ LastLead[n] \in Nat /\ LastLead[n] <= 253
  BY SMT, Leads, LastLeads
<1>3. ASSUME NEW m \in 1..6, n < m PROVE LastLead[n] < Lead[m]
  BY SMT, <1>3, Leads, LastLeads
<1> QED BY SMT, <1>1, <1>2, <1>3

LEMMA Cancelled ==
    ASSUME NEW d \in Nat, NEW a \in Nat, NEW b \in Nat, d + a = d + b
    PROVE  a = b
BY SMT

LEMMA SameLowBits ==
    ASSUME NEW a \in 0..63, NEW b \in 0..63, 128 + a = 128 + b
    PROVE  a = b
BY SMT

LEMMA Quotients ==
    ASSUME NEW x \in Nat, NEW k \in 1..6
    PROVE  x \div Shift[k] \in Nat
<1>1. CASE k = 6
  BY SMT, <1>1, Shifts
<1>2. CASE k \in 1..5
  BY <1>2, SixBits
<1> QED BY SMT, <1>1, <1>2

LEMMA BytesAre ==
    ASSUME NEW cp \in CodePoints
    PROVE  /\ Width(cp) \in 1..6 /\ Len(dyj_unicode_utf8(cp)) = Width(cp)
           /\ DOMAIN dyj_unicode_utf8(cp) = 1..Width(cp)
           /\ dyj_unicode_utf8(cp)[1] = Lead[Width(cp)] + (cp \div Shift[Width(cp)])
           /\ \A i \in 2..Width(cp) : dyj_unicode_utf8(cp)[i] = 128 + ((cp \div Shift[Width(cp) - i + 1]) % 64)
           /\ dyj_unicode_utf8(cp)[1] \in Lead[Width(cp)]..LastLead[Width(cp)]
           /\ \A i \in 2..Width(cp) : dyj_unicode_utf8(cp)[i] \in 128..191
<1> DEFINE n == Width(cp)
           byte(i) == IF i = 1 THEN Lead[n] + (cp \div Shift[n])
                      ELSE 128 + ((cp \div Shift[n - i + 1]) % 64)
           utf8 == [i \in 1..n |-> byte(i)]
<1>1. n \in 1..6 /\ Lead[n] + (cp \div Shift[n]) \in Lead[n]..LastLead[n]
  BY WidthIs
<1>2. dyj_unicode_utf8(cp) = utf8
  BY DEF dyj_unicode_utf8
<1> HIDE DEF n
<1>3. DOMAIN utf8 = 1..n
  OBVIOUS
<1>4. Len(utf8) = n
  <2>1. n \in Nat
    BY SMT, <1>1
  <2> QED BY SMT, <2>1
<1>5. utf8[1] = Lead[n] + (cp \div Shift[n])
  <2>1. 1 \in 1..n
    BY SMT, <1>1
  <2> QED BY <2>1
<1>6. \A i \in 2..n : /\ utf8[i] = 128 + ((cp \div Shift[n - i + 1]) % 64)
                      /\ utf8[i] \in 128..191
  <2> TAKE i \in 2..n
  <2>1. i \in 1..n /\ i # 1 /\ n - i + 1 \in 1..5
    BY SMT, <1>1
  <2>2. utf8[i] = 128 + ((cp \div Shift[n - i + 1]) % 64)
    BY <2>1
  <2>3. cp \in Nat
    <3>1. Largest[6] \in Nat
      BY SMT, Larges
    <3> QED BY SMT, <3>1 DEF CodePoints
  <2>4. (cp \div Shift[n - i + 1]) % 64 \in 0..63
    BY <2>1, <2>3, SixBits
  <2>5. 128 + ((cp \div Shift[n - i + 1]) % 64) \in 128..191
    BY SMT, <2>4
  <2> QED BY <2>2, <2>5
<1> HIDE DEF utf8
<1>7. \A i \in 2..n : utf8[i] = 128 + ((cp \div Shift[n - i + 1]) % 64)
  BY <1>6
<1>8. \A i \in 2..n : utf8[i] \in 128..191
  BY <1>6
<1> QED BY <1>1, <1>2, <1>3, <1>4, <1>5, <1>7, <1>8 DEF n

\* Every code point of up to 31 bits is encoded as one to six bytes: a first one of
\* the range that tells their number, and as many others from 128 to 191, so that no
\* byte of a sequence can be taken for the start of another (dyj_unicode_utf8).
THEOREM CodePointsAreEncoded ==
    ASSUME NEW cp \in CodePoints
    PROVE  LET utf8 == dyj_unicode_utf8(cp)
           IN  /\ utf8 \in Seq(0..253) /\ Len(utf8) \in 1..6
               /\ utf8[1] \in Lead[Len(utf8)]..LastLead[Len(utf8)]
               /\ \A i \in 2..Len(utf8) : utf8[i] \in 128..191
<1> DEFINE utf8 == dyj_unicode_utf8(cp)
           n    == Width(cp)
<1>1. /\ n \in 1..6 /\ Len(utf8) = n /\ DOMAIN utf8 = 1..n
      /\ utf8[1] \in Lead[n]..LastLead[n] /\ \A i \in 2..n : utf8[i] \in 128..191
  BY BytesAre
<1>2. utf8 = [i \in 1..n |-> utf8[i]]
  BY <1>1 DEF dyj_unicode_utf8
<1> HIDE DEF utf8, n
<1>3. utf8[1] \in 0..253
  <2>1. Lead[n] \in Nat /\ LastLead[n] \in Nat /\ LastLead[n] <= 253
    BY <1>1, FirstBytes
  <2>2. utf8[1] \in Lead[n]..LastLead[n]
    BY <1>1
  <2> QED BY ONLY SMT, <2>1, <2>2
<1>4. \A i \in 1..n : utf8[i] \in 0..253
  <2> TAKE i \in 1..n
  <2>1. CASE i = 1
    BY <1>3, <2>1
  <2>2. CASE i # 1
    <3>1. i \in 2..n
      BY ONLY SMT, <1>1, <2>2, i \in 1..n
    <3>2. utf8[i] \in 128..191
      BY <1>1, <3>1
    <3> QED BY ONLY SMT, <3>2
  <2> QED BY <2>1, <2>2
<1>5. utf8 \in Seq(0..253)
  <2>1. utf8 \in [1..n -> 0..253]
    BY <1>2, <1>4
  <2>2. n \in Nat
    BY ONLY SMT, <1>1
  <2> QED BY ONLY SMT, <2>1, <2>2
<1> QED BY <1>1, <1>5 DEF utf8

\* No two code points are encoded alike, and no encoding begins another: what a
\* string of escapes is read as tells the code points that were written
\* (dyj_unicode_utf8).
THEOREM EncodingsAreApart ==
    ASSUME NEW cp \in CodePoints, NEW cq \in CodePoints,
           Len(dyj_unicode_utf8(cp)) <= Len(dyj_unicode_utf8(cq)),
           \A i \in 1..Len(dyj_unicode_utf8(cp)) : dyj_unicode_utf8(cp)[i] = dyj_unicode_utf8(cq)[i]
    PROVE  cp = cq
<1> DEFINE P == dyj_unicode_utf8(cp)
           Q == dyj_unicode_utf8(cq)
           n == Width(cp)
           m == Width(cq)
<1>1. /\ n \in 1..6 /\ m \in 1..6 /\ n <= m /\ \A i \in 1..n : P[i] = Q[i]
      /\ P[1] = Lead[n] + (cp \div Shift[n]) /\ Q[1] = Lead[m] + (cq \div Shift[m])
      /\ P[1] \in Lead[n]..LastLead[n] /\ Q[1] \in Lead[m]..LastLead[m]
      /\ \A i \in 2..n : P[i] = 128 + ((cp \div Shift[n - i + 1]) % 64)
      /\ \A i \in 2..m : Q[i] = 128 + ((cq \div Shift[m - i + 1]) % 64)
  BY BytesAre
<1>2. cp \in Nat /\ cq \in Nat
  <2>1. Largest[6] \in Nat
    BY SMT, Larges
  <2> QED BY SMT, <2>1 DEF CodePoints
<1> HIDE DEF P, Q, n, m
<1>3. n = m
  <2>1. P[1] = Q[1]
    BY SMT, <1>1
  <2>2. ~(n < m)
    <3> SUFFICES ASSUME n < m PROVE FALSE
      OBVIOUS
    <3>1. LastLead[n] < Lead[m] /\ LastLead[n] \in Nat /\ Lead[m] \in Nat /\ Lead[n] \in Nat /\ LastLead[m] \in Nat
      BY <1>1, FirstBytes
    <3>2. P[1] \in Lead[n]..LastLead[n] /\ P[1] \in Lead[m]..LastLead[m]
      BY <1>1, <2>1
    <3> QED BY ONLY SMT, <3>1, <3>2
  <2>3. n \in 1..6 /\ m \in 1..6 /\ n <= m
    BY <1>1
  <2> QED BY ONLY SMT, <2>2, <2>3
<1> DEFINE Same(k) == cp \div Shift[k] = cq \div Shift[k]
<1>4. Same(n)
  <2>1. P[1] = Q[1]
    BY SMT, <1>1
  <2>2. Lead[n] \in Nat
    BY <1>1, FirstBytes
  <2>3. cp \div Shift[n] \in Nat /\ cq \div Shift[n] \in Nat
    BY <1>1, <1>2, Quotients
  <2>4. Lead[n] + (cp \div Shift[n]) = Lead[n] + (cq \div Shift[n])
    BY <1>1, <1>3, <2>1
  <2> QED BY <2>2, <2>3, <2>4, Cancelled
<1>5. \A k \in 1..(n - 1) : Same(k + 1) => Same(k)
  <2> SUFFICES ASSUME NEW k \in 1..(n - 1), Same(k + 1)
               PROVE  Same(k)
    OBVIOUS
  <2>1. k \in 1..5 /\ n - k + 1 \in 2..n /\ n - k + 1 \in 1..n /\ n - (n - k + 1) + 1 = k
    BY SMT, <1>1
  <2>2. 128 + ((cp \div Shift[k]) % 64) = 128 + ((cq \div Shift[k]) % 64)
    BY <1>1, <1>3, <2>1
  <2>3. (cp \div Shift[k]) % 64 \in 0..63 /\ (cq \div Shift[k]) % 64 \in 0..63
    BY <1>2, <2>1, SixBits
  <2>4. (cp \div Shift[k]) % 64 = (cq \div Shift[k]) % 64
    BY <2>2, <2>3, SameLowBits
  <2>5. /\ cp \div Shift[k] = 64 * (cp \div Shift[k + 1]) + ((cp \div Shift[k]) % 64)
        /\ cq \div Shift[k] = 64 * (cq \div Shift[k + 1]) + ((cq \div Shift[k]) % 64)
    BY <1>2, <2>1, SixBits
  <2> QED BY <2>4, <2>5
<1>6. Same(1)
  <2> HIDE DEF Same
  <2> QED BY SMT, <1>1, <1>4, <1>5
<1> QED BY SMT, <1>2, <1>6, Shifts

-----------------------------------------------------------------------------
(* The two scans of a string.                                              *)

\* A text token_string takes for a string: its last byte is the first quote in
\* it that is not escaped.
IsString(t) ==
    /\ Len(t) \in Nat /\ Len(t) >= 2
    /\ t[Len(t)] = "q" /\ ~Escape(t)[Len(t)]
    /\ \A j \in 2..(Len(t) - 1) : t[j] = "q" => Escape(t)[j]

\* Where a token of it may begin.
Starts(t) == {i \in 2..Len(t) : ~Escape(t)[i]}

LEMMA EscapedAt ==
    ASSUME NEW t, Len(t) \in Nat, NEW i \in 1..Len(t)
    PROVE  Escape(t)[i] = (i > 2 /\ t[i - 1] = "\\" /\ ~Escape(t)[i - 1])
<1> PICK e : e = Escape(t)
  OBVIOUS
<1> PICK n \in Nat : n = Len(t)
  OBVIOUS
<1>1. Esc(t, n, e)
  BY EscapeIs
<1>2. i \in 1..n
  OBVIOUS
<1> QED BY <1>1, <1>2, EscAt

LEMMA HexIsPlain == "q" \notin Range(Nibbles) /\ "\\" \notin Range(Nibbles)
<1>1. DOMAIN Nibbles = 1..16
  BY DEF Nibbles
<1>2. /\ Nibbles[1] = "0" /\ Nibbles[2] = "1" /\ Nibbles[3] = "2" /\ Nibbles[4] = "3"
      /\ Nibbles[5] = "4" /\ Nibbles[6] = "5" /\ Nibbles[7] = "6" /\ Nibbles[8] = "7"
  BY DEF Nibbles
<1>3. /\ Nibbles[9] = "8" /\ Nibbles[10] = "9" /\ Nibbles[11] = ":" /\ Nibbles[12] = ";"
      /\ Nibbles[13] = "<" /\ Nibbles[14] = "=" /\ Nibbles[15] = ">" /\ Nibbles[16] = "?"
  BY DEF Nibbles
<1>4. ASSUME NEW i \in 1..16 PROVE Nibbles[i] # "q" /\ Nibbles[i] # "\\"
  <2>1. CASE i <= 8
    BY <1>2, <2>1
  <2>2. CASE i > 8
    <3>1. i \in {9, 10, 11, 12, 13, 14, 15, 16}
      BY <2>2
    <3> QED BY <1>3, <3>1
  <2> QED BY <2>1, <2>2
<1> QED BY <1>1, <1>4 DEF Range

LEMMA NextEscape ==
    ASSUME NEW t, IsString(t), NEW i \in Starts(t), t[i] = "\\",
           NEW r, r = strtok_escape(t, i)
    PROVE  /\ r.begin = i
           /\ \/ r.type = "INVALID"
              \/ r.type = "ESCAPE" /\ r.end \in Starts(t) /\ r.end > i
<1> PICK n \in Nat : n = Len(t)
  BY DEF IsString
<1> PICK e : e = Escape(t)
  OBVIOUS
<1>0. t[n] = "q" /\ ~e[n] /\ \A j \in 2..n : ~e[j] => j \in Starts(t)
  BY DEF IsString, Starts
<1>1. i \in 2..n /\ ~e[i] /\ i < n
  BY <1>0 DEF Starts
<1>2. \A j \in 1..n : e[j] = (j > 2 /\ t[j - 1] = "\\" /\ ~e[j - 1])
  BY EscapedAt
<1>3. e[i + 1] /\ i + 1 < n
  <2>1. e[i + 1] = (i + 1 > 2 /\ t[(i + 1) - 1] = "\\" /\ ~e[(i + 1) - 1])
    BY <1>1, <1>2
  <2>2. (i + 1) - 1 = i /\ i + 1 > 2
    BY <1>1
  <2>3. e[i + 1]
    BY <1>1, <2>1, <2>2
  <2> QED BY <1>0, <1>1, <2>3
<1> DEFINE hex == [k \in 1..4 |-> At(t, i + 1 + k)]
           code == FoldLeft(LAMBDA v, d : 16 * v + Nibble(d), 0, hex)
<1>4. CASE t[i + 1] \in DOMAIN Single
  <2>1. r = [type |-> "ESCAPE", begin |-> i, end |-> i + 2, escape |-> Single[t[i + 1]]]
    <3> PICK c : c = code
      OBVIOUS
    <3> PICK H : H = Range(hex)
      OBVIOUS
    <3>1. t[i + 1] # "u"
      BY <1>4 DEF Single
    <3> QED BY <1>4, <3>1 DEF strtok_escape
  <2>2. i + 2 \in 2..n /\ i + 2 > i /\ (i + 2) - 1 = i + 1
    BY <1>1, <1>3
  <2>3. ~e[i + 2]
    <3>1. e[i + 2] = (i + 2 > 2 /\ t[(i + 2) - 1] = "\\" /\ ~e[(i + 2) - 1])
      BY <1>2, <2>2
    <3> QED BY <1>3, <2>2, <3>1
  <2>4. i + 2 \in Starts(t)
    BY <1>0, <2>2, <2>3
  <2> QED BY <2>1, <2>2, <2>4
<1>5. CASE t[i + 1] \notin DOMAIN Single /\ t[i + 1] = "u" /\ Range(hex) \subseteq Range(Nibbles)
  <2>1. r = [type |-> "ESCAPE", begin |-> i, end |-> i + 6, escape |-> code]
    <3> PICK c : c = code
      OBVIOUS
    <3> PICK H : H = Range(hex)
      OBVIOUS
    <3> QED BY <1>5 DEF strtok_escape
  <2>2. \A k \in 1..4 : At(t, i + 1 + k) # "q" /\ At(t, i + 1 + k) # "\\"
    <3> TAKE k \in 1..4
    <3>1. hex[k] \in Range(hex)
      BY DEF Range
    <3>2. hex[k] = At(t, i + 1 + k)
      OBVIOUS
    <3> HIDE DEF hex
    <3> QED BY <1>5, <3>1, <3>2, HexIsPlain
  <2> HIDE DEF hex, code
  <2>3. \A k \in 1..4 : i + 1 + k <= n => t[i + 1 + k] # "q" /\ t[i + 1 + k] # "\\"
    BY <1>1, <2>2 DEF At
  <2>4. i + 1 + 4 < n
    <3>1. n # i + 1 + 1 /\ n # i + 1 + 2 /\ n # i + 1 + 3 /\ n # i + 1 + 4
      <4>1. 1 \in 1..4 /\ 2 \in 1..4 /\ 3 \in 1..4 /\ 4 \in 1..4 /\ n <= n
        OBVIOUS
      <4> QED BY <1>0, <2>3, <4>1
    <3> QED BY <1>1, <1>3, <3>1
  <2>5. i + 6 \in 2..n /\ i + 6 > i /\ (i + 6) - 1 = i + 1 + 4 /\ 4 \in 1..4
    BY <1>1, <2>4
  <2>6. t[i + 1 + 4] # "\\"
    BY <2>3, <2>4, <2>5
  <2>7. ~e[i + 6]
    <3>1. e[i + 6] = (i + 6 > 2 /\ t[(i + 6) - 1] = "\\" /\ ~e[(i + 6) - 1])
      BY <1>2, <2>5
    <3> QED BY <2>5, <2>6, <3>1
  <2>8. i + 6 \in Starts(t)
    BY <1>0, <2>5, <2>7
  <2> QED BY <2>1, <2>5, <2>8
<1>6. CASE t[i + 1] \notin DOMAIN Single /\ ~(t[i + 1] = "u" /\ Range(hex) \subseteq Range(Nibbles))
  <2>1. r = [type |-> "INVALID", begin |-> i, end |-> i]
    <3> PICK c : c = code
      OBVIOUS
    <3> PICK H : H = Range(hex)
      OBVIOUS
    <3> QED BY <1>6 DEF strtok_escape
  <2> QED BY <2>1
<1> QED BY <1>4, <1>5, <1>6

LEMMA NextText ==
    ASSUME NEW t, IsString(t), NEW i \in Starts(t), t[i] # "\\", t[i] # "q"
    PROVE  (CHOOSE j \in (i + 1)..Len(t) :
                /\ t[j] \in {"q", "\\"}
                /\ \A k \in (i + 1)..(j - 1) : t[k] \notin {"q", "\\"}) \in Starts(t) \cap ((i + 1)..Len(t))
<1> PICK n \in Nat : n = Len(t)
  BY DEF IsString
<1> PICK e : e = Escape(t)
  OBVIOUS
<1>0. t[n] = "q" /\ ~e[n] /\ \A j \in 2..n : ~e[j] => j \in Starts(t)
  BY DEF IsString, Starts
<1>1. i \in 2..n /\ ~e[i] /\ i < n
  BY <1>0 DEF Starts
<1> DEFINE Stop(j) == t[j] \in {"q", "\\"} /\ \A k \in (i + 1)..(j - 1) : t[k] \notin {"q", "\\"}
           Bad == {j \in (i + 1)..n : t[j] \in {"q", "\\"}}
<1>2. \E j \in (i + 1)..n : Stop(j)
  <2> SUFFICES ASSUME \A j \in (i + 1)..n : ~Stop(j) PROVE FALSE
    OBVIOUS
  <2>1. ASSUME NEW j \in Bad PROVE \E m \in Bad : m < j
    <3>1. PICK k \in (i + 1)..(j - 1) : t[k] \in {"q", "\\"}
      OBVIOUS
    <3>2. k \in (i + 1)..n /\ k < j
      BY <1>1
    <3> QED BY <3>1, <3>2
  <2>2. n \in Bad
    BY <1>0, <1>1
  <2>3. Bad \in SUBSET Nat
    BY <1>1
  <2> HIDE DEF Bad
  <2>4. Bad = {}
    BY <2>1, <2>3, FirstOne
  <2> QED BY <2>2, <2>4
<1> PICK j : j = CHOOSE l \in (i + 1)..n : Stop(l)
  OBVIOUS
<1>3. j \in (i + 1)..n /\ Stop(j)
  <2> HIDE DEF Stop
  <2> QED BY <1>2
<1>4. ~e[j]
  <2>1. e[j] = (j > 2 /\ t[j - 1] = "\\" /\ ~e[j - 1])
    BY <1>1, <1>3, EscapedAt
  <2>2. CASE j = i + 1
    <3>1. j - 1 = i
      BY <1>1, <1>3, <2>2
    <3> QED BY <2>1, <3>1
  <2>3. CASE j # i + 1
    <3>1. j - 1 \in (i + 1)..(j - 1)
      BY <1>1, <1>3, <2>3
    <3> QED BY <1>3, <2>1, <3>1
  <2> QED BY <2>2, <2>3
<1>5. j \in Starts(t) /\ j \in (i + 1)..Len(t)
  BY <1>0, <1>1, <1>3, <1>4
<1> QED BY <1>5

LEMMA NextStringToken ==
    ASSUME NEW t, IsString(t), NEW i \in Starts(t),
           NEW r, r = dyj_next_string(t, i)
    PROVE  /\ r.begin = i
           /\ \/ r.type = "INVALID"
              \/ r.type = "QUOTE" /\ i = Len(t) /\ r.end = Len(t) + 1
              \/ r.type \in {"TEXT", "ESCAPE"} /\ r.end \in Starts(t) /\ r.end > i
<1>1. CASE t[i] = "q"
  <2>1. r = [type |-> "QUOTE", begin |-> i, end |-> i + 1]
    BY <1>1 DEF dyj_next_string
  <2>2. i = Len(t)
    BY <1>1 DEF IsString, Starts
  <2> QED BY <2>1, <2>2
<1>2. CASE t[i] = "\\"
  <2>1. r = strtok_escape(t, i)
    BY <1>2 DEF dyj_next_string
  <2>2. /\ r.begin = i
        /\ \/ r.type = "INVALID"
           \/ r.type = "ESCAPE" /\ r.end \in Starts(t) /\ r.end > i
    BY <1>2, <2>1, NextEscape
  <2> QED BY <2>2
<1>3. CASE t[i] # "\\" /\ t[i] # "q"
  <2> DEFINE j == CHOOSE j \in (i + 1)..Len(t) :
                /\ t[j] \in {"q", "\\"}
                /\ \A k \in (i + 1)..(j - 1) : t[k] \notin {"q", "\\"}
  <2>1. r = [type |-> "TEXT", begin |-> i, end |-> j]
    BY <1>3 DEF dyj_next_string
  <2>2. j \in Starts(t) \cap ((i + 1)..Len(t))
    BY <1>3, NextText
  <2>3. i \in Nat /\ Len(t) \in Nat
    BY DEF Starts, IsString
  <2> HIDE DEF j
  <2>4. j > i
    BY <2>2, <2>3
  <2> QED BY <2>1, <2>2, <2>4
<1> QED BY <1>1, <1>2, <1>3

\* The tokens that may begin in a text, and those a scan finds from position i on.
StringTokens(t) == {dyj_next_string(t, i) : i \in Starts(t)}
RestAt(t, f, i) ==
    LET r == dyj_next_string(t, i)
    IN  IF r.type \in {"TEXT", "ESCAPE"} /\ r.end \in (i + 1)..Len(t) THEN <<r>> \o f[r.end] ELSE <<r>>
RestFrom(t, f, m) == f = [i \in m..Len(t) |-> RestAt(t, f, i)]

LEMMA StartsTyped ==
    ASSUME NEW t, IsString(t)
    PROVE  2 \in Starts(t) /\ Starts(t) \subseteq 2..Len(t)
<1>1. 2 \in 1..Len(t) /\ Len(t) \in Nat
  BY DEF IsString
<1>2. Escape(t)[2] = (2 > 2 /\ t[2 - 1] = "\\" /\ ~Escape(t)[2 - 1])
  BY <1>1, EscapedAt
<1>3. ~Escape(t)[2]
  <2>1. ~(2 > 2)
    OBVIOUS
  <2> QED BY <1>2, <2>1, Zenon
<1>4. 2 \in 2..Len(t)
  BY DEF IsString
<1> QED BY <1>3, <1>4 DEF Starts

LEMMA TokenIs ==
    ASSUME NEW t, IsString(t), NEW r \in StringTokens(t)
    PROVE  /\ r.begin \in Starts(t)
           /\ \/ r.type = "INVALID"
              \/ r.type = "QUOTE" /\ r.begin = Len(t) /\ r.end = Len(t) + 1
              \/ r.type \in {"TEXT", "ESCAPE"} /\ r.end \in Starts(t) /\ r.end > r.begin
<1> PICK i \in Starts(t) : r = dyj_next_string(t, i)
  BY DEF StringTokens
<1> QED BY NextStringToken

LEMMA RestStep ==
    ASSUME NEW t, Len(t) \in Nat, NEW m \in Nat, m < Len(t) + 1, NEW f, RestFrom(t, f, m + 1)
    PROVE  \E g : RestFrom(t, g, m)
<1> PICK n \in Nat : n = Len(t)
  OBVIOUS
<1> PICK z : z = RestAt(t, f, m)
  OBVIOUS
<1> PICK g : g = [i \in m..n |-> IF i = m THEN z ELSE f[i]]
  OBVIOUS
<1>1. \A i \in (m + 1)..n : g[i] = f[i] /\ f[i] = RestAt(t, f, i)
  <2> DEFINE G == [i \in (m + 1)..n |-> RestAt(t, f, i)]
  <2>1. f = G
    BY DEF RestFrom
  <2>2. \A i \in (m + 1)..n : G[i] = RestAt(t, f, i)
    OBVIOUS
  <2> HIDE DEF G
  <2> QED BY <2>1, <2>2
<1>2. ASSUME NEW i \in m..n PROVE RestAt(t, g, i) = RestAt(t, f, i)
  <2> PICK r : r = dyj_next_string(t, i)
    OBVIOUS
  <2>1. r.end \in (i + 1)..n => g[r.end] = f[r.end]
    <3> SUFFICES ASSUME r.end \in (i + 1)..n PROVE g[r.end] = f[r.end]
      OBVIOUS
    <3>1. r.end \in (m + 1)..n
      OBVIOUS
    <3> QED BY <1>1, <3>1
  <2> QED BY <2>1 DEF RestAt
<1>3. ASSUME NEW i \in m..n PROVE g[i] = RestAt(t, g, i)
  <2>1. CASE i = m
    BY <1>2, <2>1
  <2>2. CASE i # m
    <3>1. i \in (m + 1)..n
      BY <2>2
    <3> QED BY <1>1, <1>2, <3>1
  <2> QED BY <2>1, <2>2
<1>4. g = [i \in m..n |-> g[i]]
  OBVIOUS
<1>5. g = [i \in m..n |-> RestAt(t, g, i)]
  BY ONLY <1>3, <1>4
<1> QED BY <1>5 DEF RestFrom

LEMMA RestExists ==
    ASSUME NEW t, Len(t) \in Nat
    PROVE  \A m \in 0..(Len(t) + 1) : \E f : RestFrom(t, f, m)
<1> PICK n \in Nat : n = Len(t)
  OBVIOUS
<1> DEFINE Bad == {d \in 0..(n + 1) : ~\E f : RestFrom(t, f, n + 1 - d)}
<1>1. ASSUME NEW d \in Bad PROVE \E c \in Bad : c < d
  <2>1. d \in 0..(n + 1) /\ ~\E f : RestFrom(t, f, n + 1 - d)
    OBVIOUS
  <2>2. d # 0
    <3> SUFFICES ASSUME d = 0 PROVE FALSE
      OBVIOUS
    <3> PICK f : f = [i \in (n + 1)..n |-> 0]
      OBVIOUS
    <3>1. (n + 1)..n = {}
      OBVIOUS
    <3>2. f = [i \in (n + 1)..n |-> RestAt(t, f, i)]
      BY <3>1
    <3>3. RestFrom(t, f, n + 1 - d)
      BY <3>2 DEF RestFrom
    <3> QED BY <2>1, <3>3
  <2> PICK m \in Nat : m = n + 1 - d
    BY <2>1
  <2>3. d - 1 \in 0..(n + 1) /\ d - 1 < d /\ n + 1 - (d - 1) = m + 1 /\ m < n + 1
    BY <2>1, <2>2
  <2>4. ASSUME d - 1 \notin Bad PROVE FALSE
    <3> PICK f : RestFrom(t, f, m + 1)
      BY <2>3, <2>4
    <3> QED BY <2>1, <2>3, RestStep
  <2> QED BY <2>3, <2>4
<1>2. Bad = {}
  <2>1. Bad \in SUBSET Nat
    OBVIOUS
  <2> HIDE DEF Bad
  <2> QED BY <1>1, <2>1, FirstOne
<1>3. ASSUME NEW m \in 0..(n + 1) PROVE \E f : RestFrom(t, f, m)
  <2>1. n + 1 - m \in 0..(n + 1) /\ n + 1 - (n + 1 - m) = m
    OBVIOUS
  <2> QED BY <1>2, <2>1
<1> QED BY <1>3

\* What handle_STRING's loop sees of a text from position i on: tokens one after
\* the other, of which only the last ends the string.
Scan(t, i, ts) ==
    /\ Len(ts) > 0 /\ ts[1].begin = i
    /\ \A k \in 1..Len(ts) : ts[k].begin \in 2..Len(t)
    /\ \A k \in 1..(Len(ts) - 1) :
           /\ ts[k].type \in {"TEXT", "ESCAPE"}
           /\ ts[k].begin < ts[k].end /\ ts[k].end = ts[k + 1].begin
    /\ LET last == ts[Len(ts)]
       IN  \/ last.type = "INVALID"
           \/ last.type = "QUOTE" /\ last.begin = Len(t) /\ last.end = Len(t) + 1

\* One token more in front.
LEMMA ScanJoin ==
    ASSUME NEW t, IsString(t), NEW r \in StringTokens(t),
           NEW us \in Seq(StringTokens(t)), r.type \in {"TEXT", "ESCAPE"}, Scan(t, r.end, us)
    PROVE  Scan(t, r.begin, <<r>> \o us)
<1> PICK n \in Nat : n = Len(us)
  OBVIOUS
<1> PICK ts : ts = <<r>> \o us
  OBVIOUS
<1>0. n > 0 /\ us[1].begin = r.end /\ \A k \in 1..n : us[k].begin \in 2..Len(t)
  BY DEF Scan
<1>1. Len(ts) = n + 1 /\ ts[1] = r /\ \A k \in 1..n : ts[k + 1] = us[k]
  OBVIOUS
<1>2. r.begin \in 2..Len(t) /\ r.end > r.begin
  BY TokenIs, StartsTyped
<1>3. ASSUME NEW k \in 1..(n + 1) PROVE ts[k].begin \in 2..Len(t)
  <2>1. CASE k = 1
    BY <1>1, <1>2, <2>1
  <2>2. CASE k # 1
    <3>1. k - 1 \in 1..n /\ (k - 1) + 1 = k
      BY <2>2
    <3> QED BY <1>0, <1>1, <3>1
  <2> QED BY <2>1, <2>2
<1>4. ASSUME NEW k \in 1..n
      PROVE  /\ ts[k].type \in {"TEXT", "ESCAPE"}
             /\ ts[k].begin < ts[k].end /\ ts[k].end = ts[k + 1].begin
  <2>1. CASE k = 1
    <3>1. ts[k] = r /\ ts[k + 1] = us[1]
      BY <1>0, <1>1, <2>1
    <3>2. r.begin \in Nat /\ r.end \in Nat
      BY <1>0, <1>2, TokenIs, StartsTyped
    <3>3. r.begin < r.end
      BY <1>2, <3>2
    <3> QED BY <1>0, <3>1, <3>3
  <2>2. CASE k # 1
    <3>1. k - 1 \in 1..(n - 1) /\ k - 1 \in 1..n /\ k \in 1..n /\ (k - 1) + 1 = k
      BY <2>2
    <3>2. ts[k] = us[k - 1] /\ ts[k + 1] = us[k]
      BY <1>1, <3>1
    <3>3. /\ us[k - 1].type \in {"TEXT", "ESCAPE"}
          /\ us[k - 1].begin < us[k - 1].end /\ us[k - 1].end = us[(k - 1) + 1].begin
      BY <3>1 DEF Scan
    <3> QED BY <3>1, <3>2, <3>3
  <2> QED BY <2>1, <2>2
<1>5. ts[n + 1] = us[n]
  BY <1>0, <1>1
<1>6. \/ us[n].type = "INVALID"
      \/ us[n].type = "QUOTE" /\ us[n].begin = Len(t) /\ us[n].end = Len(t) + 1
  BY DEF Scan
<1>7. Len(ts) > 0 /\ Len(ts) - 1 = n
  BY <1>1
<1> QED BY <1>1, <1>3, <1>4, <1>5, <1>6, <1>7 DEF Scan

LEMMA RestScans ==
    ASSUME NEW t, IsString(t), NEW f, RestFrom(t, f, 2)
    PROVE  \A i \in Starts(t) : f[i] \in Seq(StringTokens(t)) /\ Scan(t, i, f[i])
<1> PICK n \in Nat : n = Len(t) /\ n >= 2
  BY DEF IsString
<1> DEFINE Good(i) == f[i] \in Seq(StringTokens(t)) /\ Scan(t, i, f[i])
           Bad == {d \in 0..n : n - d \in Starts(t) /\ ~Good(n - d)}
<1>1. \A i \in 2..n : f[i] = RestAt(t, f, i)
  <2> DEFINE G == [i \in 2..n |-> RestAt(t, f, i)]
  <2>1. f = G
    BY DEF RestFrom
  <2>2. \A i \in 2..n : G[i] = RestAt(t, f, i)
    OBVIOUS
  <2> HIDE DEF G
  <2> QED BY <2>1, <2>2
<1>2. ASSUME NEW d \in Bad PROVE \E c \in Bad : c < d
  <2> PICK i \in Starts(t) : i = n - d /\ ~Good(i)
    OBVIOUS
  <2>1. d \in 0..n /\ i \in 2..n
    BY StartsTyped
  <2> PICK r \in StringTokens(t) : r = dyj_next_string(t, i)
    BY DEF StringTokens
  <2>2. r.begin = i
    BY NextStringToken
  <2>3. f[i] = IF r.type \in {"TEXT", "ESCAPE"} /\ r.end \in (i + 1)..n THEN <<r>> \o f[r.end] ELSE <<r>>
    BY <1>1, <2>1 DEF RestAt
  <2>4. r.type \in {"TEXT", "ESCAPE"}
    <3> SUFFICES ASSUME r.type \notin {"TEXT", "ESCAPE"} PROVE FALSE
      OBVIOUS
    <3> PICK ts : ts = <<r>>
      OBVIOUS
    <3>1. ts \in Seq(StringTokens(t)) /\ Len(ts) = 1 /\ ts[1] = r /\ f[i] = ts
      BY <2>3
    <3>2. \/ r.type = "INVALID"
          \/ r.type = "QUOTE" /\ r.begin = Len(t) /\ r.end = Len(t) + 1
      BY TokenIs
    <3>3. Scan(t, i, ts)
      BY <2>1, <2>2, <3>1, <3>2 DEF Scan
    <3> QED BY <3>1, <3>3
  <2> PICK j \in Starts(t) : j = r.end
    BY <2>4, TokenIs
  <2>5. j \in 2..n /\ j > i
    BY <2>2, <2>4, TokenIs, StartsTyped
  <2>6. f[i] = <<r>> \o f[j]
    BY <2>1, <2>3, <2>4, <2>5
  <2>7. ~Good(j)
    <3> SUFFICES ASSUME Good(j) PROVE FALSE
      OBVIOUS
    <3> PICK us \in Seq(StringTokens(t)) : us = f[j] /\ Scan(t, r.end, us)
      OBVIOUS
    <3>1. Scan(t, i, <<r>> \o us)
      BY <2>2, <2>4, ScanJoin
    <3>2. <<r>> \o us \in Seq(StringTokens(t))
      OBVIOUS
    <3> QED BY <2>6, <3>1, <3>2
  <2>8. n - j \in 0..n /\ n - j < d /\ n - (n - j) = j
    BY <2>1, <2>5
  <2>9. n - j \in Bad
    <3> HIDE DEF Good
    <3> QED BY <2>7, <2>8
  <2> QED BY <2>8, <2>9
<1>3. Bad = {}
  <2>1. Bad \in SUBSET Nat
    OBVIOUS
  <2> HIDE DEF Bad
  <2> QED BY <1>2, <2>1, FirstOne
<1>4. ASSUME NEW i \in Starts(t) PROVE Good(i)
  <2>1. i \in 2..n
    BY StartsTyped
  <2>2. n - i \in 0..n /\ n - (n - i) = i
    BY <2>1
  <2> HIDE DEF Good
  <2> QED BY <1>3, <2>2
<1> QED BY <1>4

LEMMA StringIsScanned ==
    ASSUME NEW t, IsString(t)
    PROVE  Scan(t, 2, string_tokens(t))
<1> DEFINE F == CHOOSE f : RestFrom(t, f, 2)
<1>1. RestFrom(t, F, 2)
  <2>1. Len(t) \in Nat /\ 2 \in 0..(Len(t) + 1)
    BY DEF IsString
  <2> QED BY <2>1, RestExists
<1>2. string_tokens(t) = F[2]
  BY DEF string_tokens, RestFrom, RestAt
<1> HIDE DEF F
<1> QED BY <1>1, <1>2, RestScans, StartsTyped

\* handle_STRING scans a string again with rules of its own (dyj_next_string), and
\* without a test for the end of the text: whatever bytes token_string took for a
\* string, in a chunk that ends with a control byte, this scan goes through the same
\* ones, token after token, and stops at the quote where token_string stopped or at
\* an invalid escape before it.
THEOREM StringScansAgree ==
    ASSUME NEW Byte, NEW s \in Seq(Byte), Len(s) >= 2, s[Len(s)] \in Control,
           token_string(s).type = "STRING"
    PROVE  LET text == SubSeq(s, 1, token_string(s).len)
           IN  Len(text) = token_string(s).len /\ Scan(text, 2, string_tokens(text))
<1> PICK N \in Nat : N = Len(s) /\ N >= 2
  OBVIOUS
<1>1. PICK p : IsFirst(StringEnds(s), p)
  <2>1. N \in StringEnds(s) /\ StringEnds(s) \in SUBSET Nat
    BY DEF StringEnds
  <2> SUFFICES ASSUME \A p : ~IsFirst(StringEnds(s), p) PROVE FALSE
    OBVIOUS
  <2>2. ASSUME NEW j \in StringEnds(s) PROVE \E m \in StringEnds(s) : m < j
    BY <2>1, <2>2 DEF IsFirst
  <2> QED BY <2>1, <2>2, FirstOne
<1>2. p \in 2..N /\ \A j \in 2..(p - 1) : s[j] = "q" => Escape(s)[j]
  <2>1. p \in StringEnds(s) /\ \A m \in StringEnds(s) : p <= m
    BY <1>1 DEF IsFirst
  <2>2. p \in 2..N
    BY <2>1 DEF StringEnds
  <2>3. ASSUME NEW j \in 2..(p - 1), s[j] = "q", ~Escape(s)[j] PROVE FALSE
    <3>1. j \in StringEnds(s)
      BY <2>2, <2>3 DEF StringEnds
    <3> QED BY <2>1, <2>2, <3>1
  <2> QED BY <2>2, <2>3
<1>3. s[p] = "q" /\ token_string(s).len = p
  <2>1. /\ s[p] = "q" => token_string(s) = update_token("STRING", p + 1)
        /\ s[p] # "q" => \E message : token_string(s) = token_error(s, p, message)
    BY <1>1, StringIs
  <2>2. s[p] = "q"
    <3> SUFFICES ASSUME s[p] # "q" PROVE FALSE
      OBVIOUS
    <3>1. PICK message : token_string(s) = token_error(s, p, message)
      BY <2>1
    <3>2. token_error(s, p, message).type = "INVALID"
      BY DEF token_error
    <3> QED BY <3>1, <3>2
  <2> QED BY <1>2, <2>1, <2>2 DEF update_token
<1>4. ~Escape(s)[p]
  <2>1. "q" \notin Control
    BY DEF Control
  <2>2. p \in StringEnds(s)
    BY <1>1 DEF IsFirst
  <2> QED BY <1>3, <2>1, <2>2 DEF StringEnds
<1> PICK t : t = SubSeq(s, 1, p)
  OBVIOUS
<1>5. Len(t) = p /\ \A i \in 1..p : t[i] = s[i]
  BY <1>2, SubSeqProperties
<1>6. \A i \in 1..p : Escape(t)[i] = Escape(s)[i]
  <2> DEFINE Bad == {i \in 1..p : Escape(t)[i] # Escape(s)[i]}
  <2>1. ASSUME NEW i \in Bad PROVE \E j \in Bad : j < i
    <3>1. i \in 1..Len(t) /\ i \in 1..Len(s) /\ Escape(t)[i] # Escape(s)[i]
      BY <1>2, <1>5
    <3>2. /\ Escape(t)[i] = (i > 2 /\ t[i - 1] = "\\" /\ ~Escape(t)[i - 1])
          /\ Escape(s)[i] = (i > 2 /\ s[i - 1] = "\\" /\ ~Escape(s)[i - 1])
      <4>1. Len(t) \in Nat /\ Len(s) \in Nat
        BY <1>2, <1>5
      <4> QED BY <3>1, <4>1, EscapedAt
    <3>3. i > 2
      BY <3>1, <3>2
    <3>4. i - 1 \in 1..p /\ t[i - 1] = s[i - 1]
      BY <1>2, <1>5, <3>1, <3>3
    <3>5. Escape(t)[i - 1] # Escape(s)[i - 1]
      BY <3>1, <3>2, <3>4
    <3> QED BY <1>2, <3>1, <3>4, <3>5
  <2>2. Bad \in SUBSET Nat
    BY <1>2
  <2> HIDE DEF Bad
  <2>3. Bad = {}
    BY <2>1, <2>2, FirstOne
  <2> QED BY <2>3 DEF Bad
<1>7. IsString(t)
  <2>1. p \in 1..p /\ \A j \in 2..(p - 1) : j \in 1..p
    BY <1>2
  <2>2. \A j \in 2..(p - 1) : t[j] = "q" => Escape(t)[j]
    BY <1>2, <1>5, <1>6, <2>1
  <2>3. t[p] = "q" /\ ~Escape(t)[p]
    BY <1>3, <1>4, <1>5, <1>6, <2>1
  <2> QED BY <1>2, <1>5, <2>2, <2>3 DEF IsString
<1> QED BY <1>3, <1>5, <1>7, StringIsScanned
=============================================================================
