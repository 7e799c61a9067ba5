------------------------------- MODULE Intern -------------------------------
(***************************************************************************)
(* String interning (string_intern.c, string.c): a global hash table of    *)
(* buckets that refer to the interned strings without counting them; a     *)
(* string whose last reference goes takes its bucket out of the table      *)
(* (string_destroy, string_unintern).                                      *)
(*                                                                         *)
(* table[s] is the chain of slot s: the items of the table bucket and of   *)
(* the buckets chained behind it, each in a cell of some block (Table for  *)
(* the table bucket itself).  Nothing locks the table; a call on it is one *)
(* step here, and the steps between a count reaching zero and the removal  *)
(* of the bucket are separate.                                             *)
(***************************************************************************)
EXTENDS Integers, Sequences, FiniteSets

CONSTANTS Threads,
          Strs,         \* string objects (addresses)
          Texts,        \* string contents
          HashOf,       \* [Texts -> Nat], DyHost.string_hash_fn
          Uninit,       \* [Texts -> SUBSET Nat]: what the uninitialized hash field
                        \* of a new string may hold
          DY_INTERN_TABLE_SIZE, DY_INTERN_BLOCK_SIZE,
          MaxRefs,      \* bound on the references to a string
          NULL, Table

ASSUME InternAssumption ==
    /\ HashOf \in [Texts -> Nat]
    /\ Uninit \in [Texts -> SUBSET Nat]
    /\ DY_INTERN_TABLE_SIZE \in Nat \ {0}
    /\ DY_INTERN_BLOCK_SIZE \in Nat \ {0}
    /\ MaxRefs \in Nat
    /\ NULL \notin Strs
    /\ Table \notin Nat \X Nat

VARIABLES status,   \* "none", "live", or "dying" (in Dy_FreeObject)
          refcnt,   \* DyObject.refcnt
          text, hash, interned,   \* data, hash and the flag DYSTRING_INTERNED
          table,    \* DyIntern.table with the chains
          blocks,   \* number of blocks
          free,     \* the cells on the freelists of the blocks
          freeing,  \* the string each thread destroys
          fault     \* what the code dereferenced, if it should not have

strings == <<status, refcnt, text, hash, interned>>
buckets == <<table, blocks, free>>
vars    == <<strings, buckets, freeing, fault>>

Slots == 0..(DY_INTERN_TABLE_SIZE - 1)
Cells == (1..blocks) \X (1..DY_INTERN_BLOCK_SIZE)
Slot(h) == h % DY_INTERN_TABLE_SIZE

Init == /\ status = [o \in Strs |-> "none"]
        /\ refcnt = [o \in Strs |-> 0]
        /\ text = [o \in Strs |-> NULL]
        /\ hash = [o \in Strs |-> 0]
        /\ interned = [o \in Strs |-> FALSE]
        /\ table = [s \in Slots |-> <<>>]
        /\ blocks = 0
        /\ free = {}
        /\ freeing = [t \in Threads |-> NULL]
        /\ fault = "none"

\* Client code holds a reference to o and may use it.
Held(o) == status[o] = "live" /\ refcnt[o] > 0

\* The positions in the chain of hash h whose item has this text and hash.
Matches(txt, h) == {i \in 1..Len(table[Slot(h)]) :
                      LET o == table[Slot(h)][i].item
                      IN  hash[o] = h /\ text[o] = txt}
First(S) == CHOOSE i \in S : \A j \in S : i <= j
Found(txt, h) == table[Slot(h)][First(Matches(txt, h))].item

NewCells == {blocks + 1} \X (1..DY_INTERN_BLOCK_SIZE)

\* Mutant: the buckets behind the table bucket are cut off.
InsertCutsChain(o, h) ==
    LET s == Slot(h)
        avail == IF free = {} THEN NewCells ELSE free
    IN  IF table[s] = <<>>
        THEN /\ table' = [table EXCEPT ![s] = <<[cell |-> Table, item |-> o]>>]
             /\ UNCHANGED <<blocks, free>>
        ELSE \E c \in avail :
             /\ table' = [table EXCEPT ![s] = <<Head(@), [cell |-> c, item |-> o]>>]
             /\ blocks' = IF free = {} THEN blocks + 1 ELSE blocks
             /\ free' = avail \ {c}

\* A bucket for o: the table bucket if that is empty, else one from any block
\* with a free cell (si_get_free_bucket), or from a new block, chained right
\* after the table bucket.
Insert(o, h) ==
    LET s == Slot(h)
        avail == IF free = {} THEN NewCells ELSE free
    IN  IF table[s] = <<>>
        THEN /\ table' = [table EXCEPT ![s] = <<[cell |-> Table, item |-> o]>>]
             /\ UNCHANGED <<blocks, free>>
        ELSE \E c \in avail :
             /\ table' = [table EXCEPT ![s] =
                            <<Head(@), [cell |-> c, item |-> o]>> \o Tail(@)]
             /\ blocks' = IF free = {} THEN blocks + 1 ELSE blocks
             /\ free' = avail \ {c}
-----------------------------------------------------------------------------
Running(t) == freeing[t] = NULL

\* DyString_FromString: neither flag is set and the hash is not computed.
DyString_FromString(t, o, txt) ==
    /\ Running(t) /\ status[o] = "none"
    /\ status' = [status EXCEPT ![o] = "live"]
    /\ refcnt' = [refcnt EXCEPT ![o] = 1]
    /\ text' = [text EXCEPT ![o] = txt]
    /\ \E h \in Uninit[txt] : hash' = [hash EXCEPT ![o] = h]
    /\ interned' = [interned EXCEPT ![o] = FALSE]
    /\ UNCHANGED <<buckets, freeing>>

\* DyString_InternStringFromStringAndSize, on a text that is in the table.
InternFound(t, txt) ==
    /\ Running(t)
    /\ Matches(txt, HashOf[txt]) # {}
    /\ refcnt[Found(txt, HashOf[txt])] < MaxRefs
    /\ refcnt' = [refcnt EXCEPT ![Found(txt, HashOf[txt])] = @ + 1]
    /\ UNCHANGED <<status, text, hash, interned, buckets, freeing>>

\* ... and on a text that is not: a new string.
InternNew(t, o, txt) ==
    /\ Running(t)
    /\ Matches(txt, HashOf[txt]) = {}
    /\ status[o] = "none"
    /\ status' = [status EXCEPT ![o] = "live"]
    /\ refcnt' = [refcnt EXCEPT ![o] = 1]
    /\ text' = [text EXCEPT ![o] = txt]
    /\ hash' = [hash EXCEPT ![o] = HashOf[txt]]
    /\ interned' = [interned EXCEPT ![o] = TRUE]
    /\ Insert(o, HashOf[txt])
    /\ UNCHANGED freeing

\* DyString_Intern on a string that is not interned, when no equal one is.
\* string_hash (string.c:78) returns the field as it is.
InternObject(t, o) ==
    /\ Running(t) /\ Held(o) /\ ~interned[o]
    /\ Matches(text[o], hash[o]) = {}
    /\ interned' = [interned EXCEPT ![o] = TRUE]
    /\ Insert(o, hash[o])
    /\ UNCHANGED <<status, refcnt, text, hash, freeing>>

\* DyString_InternInplace when an equal one is: retain that one, release o.
InternReplace(t, o) ==
    /\ Running(t) /\ Held(o) /\ ~interned[o]
    /\ Matches(text[o], hash[o]) # {}
    /\ LET p == Found(text[o], hash[o])
       IN  /\ refcnt[p] < MaxRefs
           /\ refcnt' = [refcnt EXCEPT ![o] = @ - 1, ![p] = @ + 1]
    /\ IF refcnt[o] = 1
       THEN /\ status' = [status EXCEPT ![o] = "dying"]
            /\ freeing' = [freeing EXCEPT ![t] = o]
       ELSE UNCHANGED <<status, freeing>>
    /\ UNCHANGED <<text, hash, interned, buckets>>

\* A NULL of dy_malloc is dereferenced: that of the string of InternNew, and
\* that of a block in si_get_free_bucket.
InternNoMemory(t) ==
    /\ Running(t)
    /\ \/ \E txt \in Texts : Matches(txt, HashOf[txt]) = {}
       \/ \E o \in Strs : /\ Held(o) /\ ~interned[o]
                          /\ Matches(text[o], hash[o]) = {}
                          /\ table[Slot(hash[o])] # <<>> /\ free = {}
    /\ fault' = "no memory"
    /\ UNCHANGED <<strings, buckets, freeing>>

Dy_Retain(t, o) == /\ Running(t) /\ Held(o) /\ refcnt[o] < MaxRefs
                   /\ refcnt' = [refcnt EXCEPT ![o] = @ + 1]
                   /\ UNCHANGED <<status, text, hash, interned, buckets, freeing>>

Dy_Release(t, o) == /\ Running(t) /\ Held(o)
                    /\ refcnt' = [refcnt EXCEPT ![o] = @ - 1]
                    /\ IF refcnt[o] = 1
                       THEN /\ status' = [status EXCEPT ![o] = "dying"]
                            /\ freeing' = [freeing EXCEPT ![t] = o]
                       ELSE UNCHANGED <<status, freeing>>
                    /\ UNCHANGED <<text, hash, interned, buckets>>
-----------------------------------------------------------------------------
\* The loop of string_unintern compares contents, not addresses or hashes.
Equal(o) == {i \in 1..Len(table[Slot(hash[o])]) :
               text[table[Slot(hash[o])][i].item] = text[o]}

RemoveAt(c, i) == SubSeq(c, 1, i - 1) \o SubSeq(c, i + 1, Len(c))

\* Mutant: the second bucket is copied into the table and its cell freed, but
\* the table bucket still points to it.
UninternKeepsSecond(o) ==
    LET s == Slot(hash[o])
        c == table[s]
        i == First(Equal(o))
    IN  IF Equal(o) = {} THEN UNCHANGED buckets
        ELSE /\ IF i > 1
                THEN /\ table' = [table EXCEPT ![s] = RemoveAt(c, i)]
                     /\ free' = free \cup {c[i].cell}
                ELSE IF Len(c) = 1
                THEN table' = [table EXCEPT ![s] = <<>>] /\ UNCHANGED free
                ELSE /\ table' = [table EXCEPT ![s][1] = [cell |-> Table, item |-> c[2].item]]
                     /\ free' = free \cup {c[2].cell}
             /\ UNCHANGED blocks

\* Removing the table bucket copies the second one over it; that one's cell is
\* freed.
string_unintern(o) ==
    LET s == Slot(hash[o])
        c == table[s]
        i == First(Equal(o))
    IN  IF Equal(o) = {} THEN UNCHANGED buckets
        ELSE /\ IF i > 1
                THEN /\ table' = [table EXCEPT ![s] = RemoveAt(c, i)]
                     /\ free' = free \cup {c[i].cell}
                ELSE IF Len(c) = 1
                THEN table' = [table EXCEPT ![s] = <<>>] /\ UNCHANGED free
                ELSE /\ table' = [table EXCEPT ![s] =
                                    <<[cell |-> Table, item |-> c[2].item]>>
                                    \o SubSeq(c, 3, Len(c))]
                     /\ free' = free \cup {c[2].cell}
             /\ UNCHANGED blocks

\* Mutant: the destroyed string stays in the table.
FreeKeepsBucket(t) == /\ freeing[t] # NULL
                      /\ UNCHANGED buckets
                      /\ status' = [status EXCEPT ![freeing[t]] = "none"]
                      /\ freeing' = [freeing EXCEPT ![t] = NULL]
                      /\ UNCHANGED <<refcnt, text, hash, interned>>

\* Dy_FreeObject: string_destroy, then the memory is freed.
Dy_FreeObject(t) ==
    LET o == freeing[t]
    IN  /\ o # NULL
        /\ IF interned[o] THEN string_unintern(o) ELSE UNCHANGED buckets
        /\ status' = [status EXCEPT ![o] = "none"]
        /\ freeing' = [freeing EXCEPT ![t] = NULL]
        /\ UNCHANGED <<refcnt, text, hash, interned>>

Step(t) == \/ \E o \in Strs : \/ \E txt \in Texts : \/ DyString_FromString(t, o, txt)
                                                  \/ InternNew(t, o, txt)
                             \/ InternObject(t, o)
                             \/ InternReplace(t, o)
                             \/ Dy_Retain(t, o)
                             \/ Dy_Release(t, o)
           \/ \E txt \in Texts : InternFound(t, txt)
           \/ Dy_FreeObject(t)

\* A fault ends the behaviour.
Next == /\ fault = "none"
        /\ \E t \in Threads : \/ Step(t) /\ UNCHANGED fault
                              \/ InternNoMemory(t)

Spec == Init /\ [][Next]_vars
-----------------------------------------------------------------------------
Chained == UNION {{<<s, i>> : i \in 1..Len(table[s])} : s \in Slots}
ItemAt(b) == table[b[1]][b[2]].item

\* The table refers to strings without counting them: every string in it still
\* exists, and every interned string that exists is in it, once, in the slot of
\* its hash, whatever order strings of a chain are destroyed in.
TableIsExact ==
    /\ \A b \in Chained : /\ status[ItemAt(b)] # "none" /\ interned[ItemAt(b)]
                          /\ b[1] = Slot(hash[ItemAt(b)])
    /\ \A o \in Strs : status[o] # "none" /\ interned[o] =>
          Cardinality({b \in Chained : ItemAt(b) = o}) = 1

\* Interned strings with equal contents are one object.
InternedOnce ==
    \A o, p \in {q \in Strs : status[q] = "live" /\ interned[q]} :
        text[o] = text[p] => o = p

\* A cell is free or chained once: blocks are never lost or used twice.
CellsConserved ==
    /\ \A c \in Cells : Cardinality({b \in Chained : table[b[1]][b[2]].cell = c})
                          = IF c \in free THEN 0 ELSE 1

\* object.h: an object is deleted with its last reference, so not before.  Two
\* threads break this (MCInternThreads.cfg).
DeletedLast == \A o \in Strs : refcnt[o] > 0 => status[o] = "live"
=============================================================================
