-------------------------------- MODULE Dict --------------------------------
(***************************************************************************)
(* The dictionary of dict.c: a table of buckets embedded in the object;    *)
(* each table bucket heads a chain of further buckets, which live in       *)
(* blocks of doubling size, each block with its own freelist.              *)
(*                                                                         *)
(* A bucket is [cell, key, val]; its hash is the hash of its key (both are *)
(* always stored together).  Chains are sequences in the order of the next *)
(* pointers.  The order of a freelist is left to module Freelist: here a   *)
(* block's free cells are a set.                                           *)
(*                                                                         *)
(* The code dereferences a null key, freed blocks, and the NULL of a block *)
(* or an iterator it could not allocate: these end the behaviour in a      *)
(* state with fault # "none".  An extra release of a value is counted in   *)
(* over.                                                                   *)
(***************************************************************************)
EXTENDS Integers, Sequences, FiniteSets

CONSTANTS Keys,          \* key objects
          Vals,          \* value objects
          Contents,      \* what Dy_Equals compares
          ContentOf,     \* [Keys -> Contents]
          Hashable,      \* the keys Dy_HashEx accepts (strings and longs)
          HashOf,        \* [Hashable -> Nat], what Dy_HashEx returns
          DY_TABLE_SIZE, \* buckets embedded in the object (1 in dict_p.h)
          DY_BLOCK_SIZE, \* buckets in the first block (8 in dict_p.h)
          NULL,          \* the null pointer
          Undefined,     \* Dy_Undefined: lookup found nothing
          MaxOver        \* bound on the extra releases of one value

ASSUME DictAssumption ==
    /\ NULL \notin Keys \cup Vals
    /\ Undefined \notin Vals
    /\ Hashable \subseteq Keys
    /\ ContentOf \in [Keys -> Contents]
    /\ HashOf \in [Hashable -> Nat]
    /\ DY_TABLE_SIZE \in Nat \ {0}
    /\ DY_BLOCK_SIZE \in Nat \ {0}
    /\ MaxOver \in Nat

VARIABLES head,    \* table[s]: the key (NULL if the slot is empty) and the value
          chain,   \* the buckets behind table[s], in next order
          blocks,  \* sizes of the blocks, oldest first: o->blocks is the last
          free,    \* the cells on the freelists of the blocks
          freed,   \* dict_clean freed the blocks, o->blocks still points there
          live,    \* the object exists
          fault,   \* what the code dereferenced, if it should not have
          refs,    \* Dy_Retain minus Dy_Release calls per object (history)
          over     \* releases of a value the dictionary no longer owned (history)

mem   == <<head, chain, blocks, free>>
ghost == <<refs, over>>
vars  == <<mem, freed, live, fault, ghost>>

Slots    == 0..(DY_TABLE_SIZE - 1)
CellsOf(b) == {b} \X (1..blocks[b])
Cells    == UNION {CellsOf(b) : b \in 1..Len(blocks)}
Newest   == Len(blocks)
InUse    == [s \in Slots |-> {chain[s][i].cell : i \in 1..Len(chain[s])}]

\* Equal contents hash alike, as a hash table needs.  True of longs and of
\* interned strings; string_hash (string.c:77) does not make it true of others.
HashConsistent == \A k, l \in Hashable : ContentOf[k] = ContentOf[l] => HashOf[k] = HashOf[l]

Dy_Equals(k, l) == ContentOf[k] = ContentOf[l]
SlotOf(k) == HashOf[k] % DY_TABLE_SIZE
Empty(s) == head[s].key = NULL
Positions(s) == IF Empty(s) THEN {} ELSE 0..Len(chain[s])
KeyAt(s, i) == IF i = 0 THEN head[s].key ELSE chain[s][i].key
ValAt(s, i) == IF i = 0 THEN head[s].val ELSE chain[s][i].val
First(S) == CHOOSE i \in S : \A j \in S : i <= j

Plus(f, o)  == [f EXCEPT ![o] = @ + 1]
Minus(f, o) == [f EXCEPT ![o] = @ - 1]

Objects == Keys \cup Vals
-----------------------------------------------------------------------------
dict_init == /\ head = [s \in Slots |-> [key |-> NULL, val |-> NULL]]
             /\ chain = [s \in Slots |-> <<>>]
             /\ blocks = <<>>
             /\ free = {}

\* DyDict_New
Init == /\ dict_init
        /\ freed = FALSE /\ live = TRUE /\ fault = "none"
        /\ refs = [o \in Objects |-> 0]
        /\ over = [v \in Vals |-> 0]

Running == live /\ fault = "none"

Fault(what) == fault' = what /\ UNCHANGED <<mem, freed, live, ghost>>

\* find_bucket: a stored hash of 0 matches any hash.
find_bucket(k) ==
    {i \in Positions(SlotOf(k)) : /\ HashOf[KeyAt(SlotOf(k), i)] \in {0, HashOf[k]}
                                  /\ Dy_Equals(k, KeyAt(SlotOf(k), i))}

dict_get(k) == LET found == find_bucket(k)
               IN  IF found = {} THEN Undefined ELSE ValAt(SlotOf(k), First(found))

\* The matching positions of find_or_create_bucket's first loop.
matching(k) ==
    {i \in Positions(SlotOf(k)) : /\ HashOf[KeyAt(SlotOf(k), i)] = HashOf[k]
                                  /\ Dy_Equals(k, KeyAt(SlotOf(k), i))}

\* The matching positions of find_and_remove_bucket's loop: no hash is compared.
equal(k) == {i \in Positions(SlotOf(k)) : Dy_Equals(k, KeyAt(SlotOf(k), i))}

\* The occurrences of an object among the keys and values of the buckets.
Buckets == UNION {{s} \X Positions(s) : s \in Slots}
Occ(o) == Cardinality({b \in Buckets : KeyAt(b[1], b[2]) = o})
          + Cardinality({b \in Buckets : ValAt(b[1], b[2]) = o})
-----------------------------------------------------------------------------
(* dict_setitem with a value.  It retains the new key and value, then      *)
(* releases what the bucket held before.                                   *)

\* An empty table bucket is reused as it is: its value pointer is that of
\* the entry last removed from it, and dict_setitem releases it once more.
SetEmptySlot(k, v) ==
    LET s == SlotOf(k)
        stale == head[s].val
    IN  /\ Empty(s)
        /\ head' = [head EXCEPT ![s] = [key |-> k, val |-> v]]
        /\ IF stale = NULL
           THEN /\ refs' = Plus(Plus(refs, k), v)
                /\ UNCHANGED over
           ELSE /\ over[stale] < MaxOver
                /\ refs' = Minus(Plus(Plus(refs, k), v), stale)
                /\ over' = Plus(over, stale)
        /\ UNCHANGED <<chain, blocks, free, freed, live, fault>>

\* Mutant: the overwritten value is not released.
OverwriteLeaks(s, i, k, v) ==
    /\ IF i = 0
       THEN /\ head' = [head EXCEPT ![s] = [key |-> k, val |-> v]]
            /\ UNCHANGED chain
       ELSE /\ chain' = [chain EXCEPT ![s][i] = [@ EXCEPT !.key = k, !.val = v]]
            /\ UNCHANGED head
    /\ refs' = Minus(Plus(Plus(refs, k), v), KeyAt(s, i))

Overwrite(s, i, k, v) ==
    /\ IF i = 0
       THEN /\ head' = [head EXCEPT ![s] = [key |-> k, val |-> v]]
            /\ UNCHANGED chain
       ELSE /\ chain' = [chain EXCEPT ![s][i] = [@ EXCEPT !.key = k, !.val = v]]
            /\ UNCHANGED head
    /\ refs' = Minus(Minus(Plus(Plus(refs, k), v), KeyAt(s, i)), ValAt(s, i))

SetExisting(k, v) == /\ matching(k) # {}
                     /\ Overwrite(SlotOf(k), First(matching(k)), k, v)
                     /\ UNCHANGED <<blocks, free, freed, live, fault, over>>

\* Mutant: a new block although the newest one still has a free cell.
GrowsEarly == Cardinality({c \in free : c[1] = Newest}) < 2

\* Only the newest block is asked for a free cell; if it has none, a block of
\* twice its size is put in front.  The new bucket comes right after the head.
NeedsBlock == \A c \in free : c[1] # Newest

NextSize == IF blocks = <<>> THEN DY_BLOCK_SIZE ELSE 2 * blocks[Newest]
NewCells == {Newest + 1} \X (1..NextSize)

\* A bucket in cell c, right after the head of slot s, before which the cells
\* in avail were free.
Insert(s, c, k, v, avail) ==
    /\ chain' = [chain EXCEPT ![s] = <<[cell |-> c, key |-> k, val |-> v]>> \o @]
    /\ free' = avail \ {c}
    /\ refs' = Plus(Plus(refs, k), v)

SetNew(k, v) ==
    /\ ~Empty(SlotOf(k))
    /\ matching(k) = {}
    /\ ~freed
    /\ \/ /\ NeedsBlock
          /\ blocks' = Append(blocks, NextSize)
          /\ \E c \in NewCells : Insert(SlotOf(k), c, k, v, free \cup NewCells)
       \/ /\ ~NeedsBlock
          /\ \E c \in free : c[1] = Newest /\ Insert(SlotOf(k), c, k, v, free)
          /\ UNCHANGED blocks
    /\ UNCHANGED <<head, freed, live, fault, over>>

\* After DyDict_Clear, o->blocks points to freed memory.
SetNewFreed(k) == /\ ~Empty(SlotOf(k))
                  /\ matching(k) = {}
                  /\ freed
                  /\ Fault("freed block")

\* create_block (dict.c:146) writes to the block without a look at dy_malloc.
SetNewNoMemory(k) == /\ ~Empty(SlotOf(k))
                     /\ matching(k) = {}
                     /\ ~freed /\ NeedsBlock
                     /\ Fault("no memory")

dict_setitem(k, v) == /\ Running
                      /\ \/ SetEmptySlot(k, v)
                         \/ SetExisting(k, v)
                         \/ SetNew(k, v)
                         \/ SetNewFreed(k)
                         \/ SetNewNoMemory(k)
-----------------------------------------------------------------------------
(* dict_setitem with value NULL: find_and_remove_bucket.                   *)

ReleaseBucket(s, i) == refs' = Minus(Minus(refs, KeyAt(s, i)), ValAt(s, i))

RemoveAt(c, i) == [j \in 1..(Len(c) - 1) |-> IF j < i THEN c[j] ELSE c[j + 1]]

\* Mutant: the second bucket is pulled into the table but not unlinked.
PullKeepsLink(s) ==
    /\ head' = [head EXCEPT ![s] = [key |-> chain[s][1].key, val |-> chain[s][1].val]]
    /\ UNCHANGED chain
    /\ free' = free \cup {chain[s][1].cell}

\* Mutant: the pulled-in bucket's cell is not given back.
PullLeaksCell(s) ==
    /\ head' = [head EXCEPT ![s] = [key |-> chain[s][1].key, val |-> chain[s][1].val]]
    /\ chain' = [chain EXCEPT ![s] = RemoveAt(chain[s], 1)]
    /\ UNCHANGED free

\* The second bucket is copied over the removed table bucket.
PullSecond(s) ==
    /\ head' = [head EXCEPT ![s] = [key |-> chain[s][1].key, val |-> chain[s][1].val]]
    /\ chain' = [chain EXCEPT ![s] = RemoveAt(chain[s], 1)]
    /\ free' = free \cup {chain[s][1].cell}

\* The last bucket of a slot: the key is cleared, the value pointer stays.
Invalidate(s) == /\ head' = [head EXCEPT ![s].key = NULL]
                 /\ UNCHANGED <<chain, free>>

Unlink(s, i) == /\ chain' = [chain EXCEPT ![s] = RemoveAt(chain[s], i)]
                /\ free' = free \cup {chain[s][i].cell}
                /\ UNCHANGED head

\* Mutant: the table bucket is invalidated whatever is chained behind it.
RemoveForgetsChain(k) ==
    LET s == SlotOf(k)
        i == First(equal(k))
    IN  /\ ~Empty(s)
        /\ equal(k) # {}
        /\ IF i = 0 THEN Invalidate(s) ELSE Unlink(s, i)
        /\ ReleaseBucket(s, i)
        /\ UNCHANGED <<blocks, freed, live, fault, over>>

Remove(k) ==
    LET s == SlotOf(k)
        i == First(equal(k))
    IN  /\ ~Empty(s)
        /\ equal(k) # {}
        /\ IF i > 0 THEN Unlink(s, i)
           ELSE IF chain[s] = <<>> THEN Invalidate(s) ELSE PullSecond(s)
        /\ ReleaseBucket(s, i)
        /\ UNCHANGED <<blocks, freed, live, fault, over>>

\* The loop compares the key of the table bucket before anything tests it.
RemoveFromEmpty(k) == Empty(SlotOf(k)) /\ Fault("null key")

find_and_remove_bucket(k) == /\ Running
                             /\ Remove(k) \/ RemoveFromEmpty(k)
-----------------------------------------------------------------------------
(* dict_clean: release the entries, empty the table, free the blocks.      *)
(* o->blocks and the value pointers of the table are left as they are.     *)

\* Mutant: the table's next pointers survive the blocks.
CleanKeepsNext ==
    /\ ~freed
    /\ refs' = [o \in Objects |-> refs[o] - Occ(o)]
    /\ head' = [s \in Slots |-> [head[s] EXCEPT !.key = NULL]]
    /\ free' = {}
    /\ freed' = (blocks # <<>>)
    /\ UNCHANGED <<chain, blocks, fault, over>>

dict_clean == /\ ~freed
              /\ refs' = [o \in Objects |-> refs[o] - Occ(o)]
              /\ head' = [s \in Slots |-> [head[s] EXCEPT !.key = NULL]]
              /\ chain' = [s \in Slots |-> <<>>]
              /\ free' = {}
              /\ freed' = (blocks # <<>>)
              /\ UNCHANGED <<blocks, fault, over>>

\* Freed blocks are walked, and freed, again.
CleanFreed == freed /\ Fault("freed block")

DyDict_Clear == Running /\ ((dict_clean /\ UNCHANGED live) \/ CleanFreed)

\* The last reference to the dictionary goes away (Dy_FreeObject).
dict_destroy == Running /\ ((dict_clean /\ live' = FALSE) \/ CleanFreed)

(* Iteration (DyDict_Iter, DyDict_IterNext) over a dictionary that is not  *)
(* changed meanwhile.  A position is a table bucket and the place in its   *)
(* chain, as in Buckets; NULL after the last.                              *)

\* The next table bucket after s that is not empty.
find_next_table_block(s) ==
    LET rest == {t \in Slots : t > s /\ ~Empty(t)}
    IN  IF rest = {} THEN NULL ELSE <<First(rest), 0>>

DyDict_Iter == find_next_table_block(-1)
DyDict_IterNext(at) ==
    IF at[2] < Len(chain[at[1]]) THEN <<at[1], at[2] + 1>> ELSE find_next_table_block(at[1])

\* A NULL of dy_malloc sets the MemoryError and is dereferenced then.
DyDict_IterNoMemory == Running /\ Fault("no memory")

\* The first n positions an iterator has, and NULL from the end on.
Visits(n) ==
    LET visit[i \in 1..n] == IF i = 1 THEN DyDict_Iter
                            ELSE IF visit[i - 1] = NULL THEN NULL ELSE DyDict_IterNext(visit[i - 1])
    IN  visit
-----------------------------------------------------------------------------
Next == \/ \E k \in Hashable : \/ \E v \in Vals : dict_setitem(k, v)
                              \/ find_and_remove_bucket(k)
        \/ DyDict_Clear
        \/ dict_destroy
        \/ DyDict_IterNoMemory

Spec == Init /\ [][Next]_vars
-----------------------------------------------------------------------------
BucketType == [cell : Cells, key : Hashable, val : Vals]

TypeOK ==
    /\ head \in [Slots -> [key : Hashable \cup {NULL}, val : Vals \cup {NULL}]]
    /\ \A s \in Slots : ~Empty(s) => head[s].val # NULL
    /\ blocks \in Seq(Nat \ {0})
    /\ chain \in [Slots -> Seq(BucketType)]
    /\ freed => \A s \in Slots : chain[s] = <<>>
    /\ free \subseteq Cells
    /\ freed \in BOOLEAN /\ live \in BOOLEAN
    /\ fault \in {"none", "null key", "freed block", "no memory"}
    /\ refs \in [Objects -> Int]
    /\ over \in [Vals -> 0..MaxOver]

\* A cell of a block is in exactly one place: on the block's freelist, or in
\* one chain, once.  No removal loses a bucket or frees one still linked, the
\* pulled-in second bucket included (dict.c:229-246).
CellsConserved ==
    ~freed => /\ \A s \in Slots : \A i, j \in 1..Len(chain[s]) :
                     chain[s][i].cell = chain[s][j].cell => i = j
              /\ \A s, t \in Slots : s # t => InUse[s] \cap InUse[t] = {}
              /\ UNION {InUse[s] : s \in Slots} = Cells \ free

\* find_bucket takes an empty table bucket to mean an empty slot (dict.c:135),
\* so no removal may empty it while buckets are chained behind it.
NothingBehindEmptyHead == \A s \in Slots : Empty(s) => chain[s] = <<>>

\* An iterator comes to every entry once, and then to the end: pulling the second
\* bucket into the table, emptying a table bucket and clearing all leave no entry
\* where it passes by, and none where it finds one that is gone.
IteratesOnce ==
    LET stored == UNION {{s} \X ((IF Empty(s) THEN {} ELSE {0}) \cup 1..Len(chain[s])) : s \in Slots}
        n      == Cardinality(stored)
        visits == Visits(n + 1)
    IN  {visits[i] : i \in 1..n} = stored /\ visits[n + 1] = NULL

\* A key is stored at most once, and wherever an entry is stored a lookup with
\* any equal key finds it: set, remove and lookup, which match buckets in
\* three different ways, agree as long as equal keys hash alike.
EntriesFindable ==
    \A k \in Hashable :
        LET stored == {b \in Buckets : Dy_Equals(k, KeyAt(b[1], b[2]))}
        IN  /\ stored = {<<SlotOf(k), i>> : i \in find_bucket(k)}
            /\ Cardinality(stored) <= 1

\* The dictionary holds one reference for each place an object is stored in,
\* less the stale values it released again; after dict_destroy, none.
RefsAccounted ==
    \A o \in Objects : refs[o] = Occ(o) - (IF o \in Vals THEN over[o] ELSE 0)

\* A block is added only when every cell of the newest one is chained: so the
\* newest block is never more than twice as large as the live entries need.
GrowsOnlyWhenFull ==
    [][blocks' # blocks /\ blocks # <<>> =>
         \A c \in CellsOf(Newest) : \E s \in Slots : c \in InUse[s]]_vars

\* A key of each content, and the map that lookups show.
KeyFor == [c \in {ContentOf[k] : k \in Hashable} |->
              CHOOSE k \in Hashable : ContentOf[k] = c]
M == INSTANCE DictMap WITH Contents <- DOMAIN KeyFor,
                           map <- [c \in DOMAIN KeyFor |-> dict_get(KeyFor[c])]

\* Through all chains, blocks and pulled buckets the dictionary is a map from
\* key contents to values: what Dy_SetItem and Dy_GetItem promise.
MapSpec == M!Spec
-----------------------------------------------------------------------------
(* What the sources say, and the code does not keep (runs that fail).      *)

\* dict.c:187 clears new buckets because a stale pointer "would cause issues
\* with Dy_Release"; a reused table bucket is not cleared.
NoStaleRelease == \A v \in Vals : over[v] = 0

\* collections.h:103: "Clear all items from a dictionary".
ClearIsSafe == fault # "freed block"
=============================================================================
