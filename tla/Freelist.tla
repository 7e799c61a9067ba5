------------------------------ MODULE Freelist ------------------------------
(***************************************************************************)
(* The freelist of freelist_p.h / freelist.c: the free cells of a block    *)
(* are linked through their own memory, root points at the first.  The     *)
(* link word of a cell in use belongs to its user: it is Garbage here.     *)
(***************************************************************************)
EXTENDS Integers, FiniteSets

CONSTANTS N,          \* item_count: the cells are 1..N, in address order
          NULL,       \* the null pointer
          Garbage     \* a link word overwritten by the cell's user

ASSUME FreelistAssumption == N \in Nat /\ NULL \notin 1..N /\ Garbage \notin 1..N
                             /\ NULL # Garbage

Cells == 1..N

VARIABLES root,       \* freelist_t.root
          next,       \* freelist_entry_t.next of every cell
          held        \* the cells popped and not pushed back (history)

vars == <<root, next, held>>

\* freelist_init links every cell to the one after it.
FreelistInit == /\ root = IF N = 0 THEN NULL ELSE 1
                /\ next = [c \in Cells |-> IF c = N THEN NULL ELSE c + 1]

Init == FreelistInit /\ held = {}

freelist_empty == root = NULL

\* Mutant: a pop that leaves root alone hands the same cell out again.
PopKeepsRoot == /\ ~freelist_empty
                /\ root' = IF held = {} THEN next[root] ELSE root
                /\ held' = held \cup {root}
                /\ \E w \in {next[root], Garbage} : next' = [next EXCEPT ![root] = w]

\* The caller tests freelist_empty2 first (dict.c:172); it may then write
\* anything over the link word (a bucket's hash lies there), or nothing.
freelist_pop == /\ ~freelist_empty
                /\ root' = next[root]
                /\ held' = held \cup {root}
                /\ \E w \in {next[root], Garbage} : next' = [next EXCEPT ![root] = w]

\* Mutant: a push that stores root before linking the entry loops on itself.
PushSwapped == \E c \in held : /\ root' = c
                               /\ next' = [next EXCEPT ![c] = c]
                               /\ held' = held \ {c}

\* free_bucket pushes only cells that were popped (dict.c:201-209).
freelist_push == \E c \in held : /\ next' = [next EXCEPT ![c] = root]
                                 /\ root' = c
                                 /\ held' = held \ {c}

Next == freelist_pop \/ freelist_push

Spec == Init /\ [][Next]_vars
-----------------------------------------------------------------------------
\* The pointer k links after root; it stays at NULL or Garbage once there.
Walk == LET w[k \in 0..N+1] == IF k = 0 THEN root
                               ELSE IF w[k-1] \in Cells THEN next[w[k-1]] ELSE w[k-1]
        IN  w

\* freelist_len's traversal meets exactly these cells.
Listed == {Walk[k] : k \in 0..N} \cap Cells

\* Following the links from root ends at NULL and meets each cell that is not
\* held exactly once: no cell is lost, handed out twice or left in a cycle.
FreeCellsAreListed == /\ Walk[N + 1] = NULL
                      /\ Listed = Cells \ held

\* freelist.c implements the pool: pop hands out a cell nobody holds.
P == INSTANCE Pool WITH avail <- Listed
PoolSpec == P!Spec
=============================================================================
