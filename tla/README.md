# Verification of libdy

libdy is a small dynamic object system in C: reference-counted boxes (longs, doubles,
booleans, strings), lists, dictionaries, exceptions, callables and userdata, a JSON
reader and writer on top, a C++ wrapper (`libdy++`) and a bridge to Python (`pydy`).
This directory holds TLA+ models of all of these, the TLC configurations that check them and
TLAPS proofs about the core.

To check a module: `tlc -config MCDict.cfg MCDict`; to check the proofs: `tlapm DictProofs.tla`.
`PROJECT.json` lists the runs, the proved theorems, the source lines every definition
models, the hazards of the code and the findings.

## 1. Inventory

| Component | Source | State | Operations | What makes it correct |
|---|---|---|---|---|
| reference counting | `dy.c` 37-184, `dy_p.h`, `object.h` | an `_Atomic` count per object | `Dy_InitObject`, `Dy_Retain`, `Dy_Release`, `Dy_Pass`, `Dy_FreeObject` | nobody refers to a freed object; each object is freed once, and in the end |
| freelist | `freelist.c`, `freelist_p.h` | root pointer, links kept in the free cells | init, pop, push, len | every free cell is listed once, none that is in use |
| dictionary | `dict.c`, `dict_p.h` | embedded table, chains of buckets in blocks of doubling size, a freelist per block, parent | set, delete, lookup, clear, destroy, iterate, repr | it is a map; no bucket and no reference is lost |
| list | `list.c`, `list_p.h` | buffer, capacity, size | new, preallocate, insert, append, get, set, clear, destroy, repr | it is a sequence; the resize rule leaves room |
| string interning | `string_intern.c`, `string.c` | global table of uncounted references; hash and flags of each string | intern a text or a string, unintern on destruction | equal interned strings are one object; the table never dangles |
| error state | `error.c`, `exceptions.h`, `exceptions_c.h` | current exception per thread, cause of each exception, one static `MemoryError` | set, discard-and-set, clear, occurred, cause, filter | no error is masked, lost or freed in use; chains of causes end |
| item access | `dy.c` 389-633, `runtime.h` | - | `Dy_GetItem*`, `Dy_SetItem*`, attributes, hashing | each type gets its own operation, errors for the others |
| callables, userdata | `userdata.c`, `call.h` | callback, data, destructor | create, call with 0..n arguments, method call | arguments and result are owned once |
| JSON reader | `json.c` | a stack of open containers and keys, an escape table | parse, parse in chunks | reads exactly the documents, each as its value; releases every partial result on an error; always returns |
| JSON tokenizer | `json_token.c` | the place in a chunk, the location in the text | next token, next part of a string | one token per lexeme wherever chunks end; the location adds up |
| string builder, linear allocator | `buildstring.c`, `linalloc.c` | chunk list; fill pointer | append, join; allocate | joins in order; never hands out more than it has |
| C++ wrapper | `libdy++/` | one counted reference per wrapper | copies, moves, conversions, subscripts, callables, exceptions | counts follow C++ object lifetimes |
| Python bridge | `pydy/pydy.c` | proxies in both directions | convert, call, translate exceptions | references of two heaps are paired |

How they interact. Everything holds everything else by counted reference; a container's
destructor releases its items, which may run further destructors, also a userdata
destructor of the client, which may call the library again (callbacks). The intern table is
the exception: it refers to strings without counting them, and a string's destructor calls
back into the table. Errors are out of band: a failing call leaves an exception in
thread-local state and returns null; the C++ layer turns it into a C++ exception, the Python
layer into one of Python's, and each back again. Dictionaries and the intern table take their buckets
from blocks with freelists. The C++ and Python layers are clients of the same counts; Python
has counts of its own, and a wrapper holds one reference on the other side.

Which behaviours are hard: races on the last reference and on the global intern table;
cascades of destructors, re-entrant ones included; removal of the embedded table bucket,
into which the second bucket is copied; cells reused through links stored in themselves;
calls that fail after a reference was passed (`Dy_Pass`); exceptions that are set while
others are current; the capacity rule of lists, whose history (preallocation, clear)
matters; hashes that may not be there; any allocation that fails in the middle of a call, in three
languages; tokens cut by the end of a chunk. There is no persistence, no messages and no
timeouts: crash recovery, lost messages and retries do not arise.
The full list, line by line, is under `hazards` in `PROJECT.json`.

## 2. Modules

| Module | Models | Checked by |
|---|---|---|
| `Pool` | what a freelist promises: cells handed out and taken back | |
| `Freelist` | `freelist.c`; implements `Pool` | `MCFreelist` |
| `FreelistProofs` | the proofs about `Freelist` | |
| `Ownership` | what counting promises: only unreachable memory is reclaimed | |
| `Heap` | the counts of `dy.c`; implements `Ownership` | `MCHeap` |
| `HeapProofs` | the proofs about `Heap` | |
| `DictMap` | what a dictionary promises: a map of key contents to values | |
| `Dict` | `dict.c`; implements `DictMap` | `MCDict*` |
| `DictProofs` | the proofs about `Dict`: its representation, its cells, its keys | |
| `DictMapProofs` | more of them: references, the map, growth, iteration | |
| `ListSeq` | what a list promises: a sequence | |
| `List` | `list.c`; implements `ListSeq` | `MCList*` |
| `ListProofs` | the proofs about `List` | |
| `ErrorState` | `error.c`, and the handlers of `exceptions_c.h` | `MCErrorState` |
| `ErrorProofs` | the proofs about `ErrorState` | |
| `Intern` | `string_intern.c` with the life of strings | `MCIntern*` |
| `InternProofs` | the proofs about `Intern` | |
| `JsonGrammar` | what a document is: texts and their values, derived from a grammar | |
| `JsonText` | `json_token.c` as operators on a buffer | `MCJson` |
| `Json` | `json.c`: the reader and its handlers | `MCJson` |
| `JsonProofs` | the proofs about `Json` | |
| `Objects` | the counted objects and the error state as library calls see them | `MCCxx`, `MCPy` |
| `BuildString` | `buildstring.c` and the representations of strings, lists and dictionaries | `MCCxx`, `MCPy` |
| `Access` | item access through `dy.c`, with parents; userdata | `MCCxx`, `MCPy` |
| `Callables` | the calls of `userdata.c` | `MCCxx`, `MCPy` |
| `Cxx` | `libdy++` in a program that uses it | `MCCxx` |
| `PyConvert` | the conversions of `pydy.c`, errors and functions included | `MCPy` |
| `PyBridge` | the methods and functions of `pydy.c`, in a Python and a C program | `MCPy` |

The `MC` modules only give constants values.

### Heap

A *place* is a variable of a thread or an item slot of a container; `at` says what its memory
shows. Every count update is a step of its own, since the count is `_Atomic`. `New`, `Dy_Retain`,
`ReleaseHandle`, `SetItem`, `RemoveItem`, `Clear`, `Dy_Pass`, `SetItemPassed` and `SetItemPassedFails` are the
client's steps; a call that releases something goes on afterwards, and `work[t]` is the stack of the calls
thread `t` is in: `dict_setitem` (`FinishSet`), `DyList_Clear` and `DyDict_Clear` (`ReleaseSlot`, `FinishClear`) and
`Dy_FreeObject` (`ReleaseSlot`, `FreeMemory`). The order is the code's: `list_setitem` and the deletion of a dictionary
entry take the old item out of its slot before they release it, while `dict_setitem` (`dict.c:302-308`), the clears and
the destructors (`list.c:202-224`, `dict.c:86-97`) release it first. Until they go on, the slot is in `stale`: it
shows an object that it no longer counts and that may be dying or freed. `pending` is what `dict_setitem` has
retained and not yet written. A userdata destructor may take any client step in the middle of all this.

Containers have no lock, so their users have to serialize access: a thread starts a call on a container that it
refers to, and only if no call on it is unfinished (`MayUse`). The exception is a destructor that uses the very container
its own thread is in a call on, which no user could serialize: `Reenter` records it in `reentered`, as does the
release of the last reference to such a container, and the behaviour ends there. What the destructor would
read is not modelled. `Dy_Pass` is taken only on the sole reference, as `object.h:82` demands.

### Dict

`head[s]` is the embedded bucket, `chain[s]` the buckets behind it, `free` the cells on the
freelists, `blocks` the block sizes. One action per branch of `find_or_create_bucket` (`SetEmptySlot`,
`SetExisting`, `SetNew`, `SetNewFreed`) and of `find_and_remove_bucket` (`Remove` with `PullSecond`, `Invalidate`
or `Unlink`; `RemoveFromEmpty`), and `DyDict_Clear`, `dict_destroy`. The three
loops match buckets differently, and the model keeps that (`find_bucket`, `matching`, `equal`).
`refs` and `over` are history: references held, and extra releases. Where the code would touch
memory that is not its own, the behaviour ends in `fault`: a delete in an empty slot
compares with a null key, a dictionary that was cleared keeps a pointer to its freed
blocks, and a failed allocation of a block or an iterator is not tested but dereferenced (`SetNewNoMemory`, `dict.c:146-156`;
`DyDict_IterNoMemory`, `dict.c:455-459`). So every behaviour of `MCDict` runs up to such a call and stops there.
Otherwise `DyDict_Iter` and `DyDict_IterNext` change nothing and are operators: `Visits` is what an iterator shows of the
dictionary of a state. Deleting while an iterator is open is left out.

### List

`Fits`, `AssertFails`, `NewSize` and `Resized` are `list_resize`; `Index` and `Shift` are
`list_insert`'s index arithmetic and its loop. Insertion at index 0 is an unsigned loop
that never ends (`fault = "out of bounds"`). Clearing frees the buffer but leaves `allocated`.
Preallocation for one, two or three items breaks the assertion of `list_resize` after a clear
(the freed buffer then counts as at least half used) or when its allocation failed; `Prealloc` in
`MCList` leaves these out, and the theorem `AssertionHolds` names exactly this condition.
Setting `Prealloc = {2}` in `MCList.cfg` shows the failure.

### ErrorState

`Install` is `DyErr_SetObject`: the thread's reference to the current exception becomes the
new one's cause. Releasing an exception unwinds its causes one release at a time (`Unwind`)
and only then installs the result (`Finish`), with other threads in between. The static `MemoryError`
is one of the exceptions, shared by the threads. Nothing keeps a thread from setting an exception that is
already current or a cause, its own or, with `MemoryError`, another thread's: the code overwrites the cause without a test
(`error.c:107-113`). `again` remembers the exceptions set like this as long as they exist, and `lost` counts the references
that were overwritten. `DyErr_DiscardAndSetObject` releases the old chain before it retains its argument, which may be one of the
old causes (`Known`) and may be freed by then (`fault = "freed"`, `error.c:118`).

`handlers[t]` is the stack of the thread's `DY_ERR_HANDLER` blocks in which a clause has applied: the
local variable `__ehandled`, and, as history, the exception that was caught, until the thread
clears or discards its error itself. `DY_ERR_CATCH`, `DY_ERR_RETHROW`, `DY_ERR_HANDLER_END` and
`DY_ERR_RETHROW_RETURN` are the macros. Which clause applies (`DyErr_Filter`) is left open. The end of
an inner handler clears the outer one's exception too, with the chain; the outer end then
releases a null pointer (`fault = "null"`, `error.c:46`).

### Intern

`table[s]` is a chain of references that are not counted. Strings are created with whatever
hash their memory holds (`Uninit`): `string_hash` never computes it, because `!o->flags & DYSTRING_HASH`
(`string.c:80`) is always 0. `MCIntern` takes the hash to be right, as it is for strings made by the
interning functions, and checks everything else; `MCInternHash` shows what happens
otherwise. A failed allocation of a string or a block is dereferenced and ends the behaviour (`InternNoMemory`,
`string_intern.c:103-104`, `167-168`, `182-183`). Between the release that reaches zero and the removal of the bucket other threads
run; `MCIntern` has one thread, `MCInternThreads` two. `InternFound` and `InternNew` are `DyString_InternStringFromStringAndSize`, `InternObject` and
`InternReplace` are `DyString_InternInplace`, whose `DyString_Intern` counts nothing itself.

### Freelist

The links lie in the cells; the user of a cell may overwrite its link (`Garbage`). `Dict` and
`Intern` use the abstraction `Pool` gives them: a block's free cells are a set.

### Json, JsonText, JsonGrammar

A *lexeme* stands for a piece of text with its bytes (`TextOf`), the token it is (`KindOf`) and its
value (`ValOf`). The text is not fixed beforehand: `NextToken` picks a lexeme and a buffer
that holds it, whole or cut anywhere by the end of the chunk (`Buffers`), and runs the tokenizer
(`dyj_next_token` of `JsonText`, byte by byte) on it. If the chunk ended, `NextChunk` lets the caller read on, once, as
`next_token` does. `Handle` is what the handlers do with a token. The recursion of
`DyJson_ThisEx` is the stack `frames`: `pos` is the place in the loop of `handle_OBJECT` or
`handle_ARRAY`, `key` the key that waits for its value. `Cleanup` is one return on an
error. `held` counts references, not objects. Any allocation may fail. Where the reader notices, that is an error:
`OutOfMemory` for strings and dictionaries, `StoreFails` when a finished value, also a container that its closing bracket completes, cannot be appended to
the list around it (`json.c:114-118`). Where nothing is tested it is a crash, which ends the behaviour (phase `"crash"`): numbers and lists are made by `NEW`
(`dy_p.h:32`), and a new entry of a dictionary may need a block (`dict.c:146`). And at one place it goes unnoticed: `PartDropped` (`json.c:167`), at most
once in a behaviour.
A string with more escapes than the table has room for runs off the table, since its
limit never triggers (`linalloc.c:42`): phase `"overrun"`, where the behaviour ends.

`JsonText` keeps what the properties depend on: which byte ends a token, that a number at the end of the text
is known to end only by the byte behind it, what is read behind the sentinel
(`Beyond`), the sign of `char` (`SignedChar`), the width of integers (`Bits`), which escapes are taken
(decimal digits and six punctuation characters in `\u`, no letters). `JsonGrammar` derives all documents of up to
`Size` lexemes with their values, from rules in the order of the text, and knows nothing of the reader.
What the tables say of a lexeme and what the tokenizer makes of its bytes must agree: `LexemesAreRead`, a hypothesis of
the proofs, says that an uncut lexeme is the token of its kind and value, and that one that is no token (`"BAD"`) is none however it is cut.
Of lexemes that are cut nothing is supposed.

### Objects, Access, Callables, BuildString

These describe whole library calls, in a sequential program, as functions from a state to
the set of their outcomes `[s, ret]`; each allocation adds an outcome where it fails: an error where the code tests
it, as for strings and dictionaries, and `Crash` where it does not. The macro `NEW` clears the memory before its users
test the pointer (`dy_p.h:32`), so for longs, lists and callables, and for the block of a growing dictionary, a failure is a crash. The state has
the objects (type, count, value, link, items), the current exception and `fault`. `Then` runs a
call on each outcome of the one before, so that the body of a C function reads in its
own order. What the components do inside was the subject of `Heap`, `Dict`, `List` and `ErrorState`; here it is
who holds a reference when a call fails in the middle. `Swept` takes memory back that was freed and
that nothing refers to; memory that was freed and is still referred to ends the behaviour (`fault = "freed"`).
`Callables` has the functions behind callables as a parameter (`Body`), which `Cxx` and `PyBridge`
instantiate with their own.

### Cxx

A program with variables `obj` of the class `Object`, one `SubscriptionRef` and one caught `Exception`.
Each constructor, destructor, operator and method is an action; several C++ functions that
do the same with counts are one (`GetItem` for `getItem` and its variants, for instance). An outcome
`Thrown` is a C++ exception: the objects of the scopes it leaves are destroyed, and it is caught
by the program. `calls` is what the template `fnx::calls` in `callable.h` makes of a C++ function.

### PyConvert, PyBridge

Python's lists, dictionaries, functions and wrappers (`PyDy`) are in the same heap, counted the
same way; `link` of a wrapper is the Dy object it holds. `pyerr` is Python's error state. A Python
program holds references in its variables, a C program one Dy object. CPython is external, modelled from how `pydy.c`
uses it: a constructor may fail and then sets an error, and small integers are never freed (`Small`). `PyDyType` is a static type
without `tp_dealloc` that names `dy_finalize` as its `tp_finalize` (`pydy.c:285`, `328`); the deallocator it inherits does not call that. So a wrapper that dies
keeps its reference to the Dy object for ever, and `kept` counts these references. A wrapper is callable itself, and a callable may be made of it as of a
function (`CallWrapped`); that it has no `__get__` makes calls of it with a `self` fail (`Bind`). The test for a dictionary as parent takes the address of a pointer for an exception
class (`pydy.c:509`): Python notices, or the behaviour ends (`fault = "wild"`). After each call the program on its side handles its error,
so a call begins without one, unless the bridge left it on the other side.

## 3. Runs

Runs that must pass:

| Run | Instance | Shows |
|---|---|---|
| `MCHeap` | 2 threads, 3 objects, 3 variables; a dictionary and a list with a slot each, and a userdata | `NoDangling`, `CountsAgree`, `DestroyedOnce`, `CallsKeepTheirContainer`, `NothingForgotten`, `OwnershipSpec`, `DyingIsFreed` |
| `MCDict` | 5 keys (one an equal twin, hash 0), 2 values, one table bucket, first block of 1 | `CellsConserved`, `IteratesOnce`, `EntriesFindable`, `RefsAccounted`, `GrowsOnlyWhenFull`, `MapSpec` |
| `MCIntern` | 4 strings, 3 texts, one slot, blocks of 1 | `TableIsExact`, `InternedOnce`, `CellsConserved` |
| `MCErrorState` | 2 threads, 2 exceptions and `MemoryError`, of which one reference may be overwritten; 2 handlers or references in one thread | `CountsAgree`, `CauseChainEnds`, `ErrorStatesApart`, `CaughtStays`, `NothingMasked` |
| `MCList` | 2 items, at most 9 entries | `AssertHolds`, `RefsAccounted`, `SeqSpec` |
| `MCFreelist` | 5 cells | `FreeCellsAreListed`, `PoolSpec` |
| `MCJson` | 23 lexemes, texts of up to 5 of them and a spacing, integers of 5 bits, 2 escapes | `ReadsDocument`, `RefusalIsJust`, `ChunkEndsReported`, `NothingLeaks`, `LocationExact`, `ParseEnds` |
| `MCCxx` | 2 variables, a reference, a caught exception; 3 objects, 2 exceptions | `OnlyTheseUnbalance`, `FreedOnlyIfRobbed`, `RefShowsItem`, `ReprCloses` |
| `MCPy` | 2 Python variables, one of C; 3 objects, 2 exceptions, 4 Python objects | `OnlyTheseUnbalance`, `ErrorsOnRightSide` |

`TypeOK` is an invariant of `MCHeap` and `MCDict` too, where the proofs rest on it; in the other runs it
says nothing that their properties do not. `MCJson` also has TLC evaluate, as `TableAssumption`, the hypothesis about its
23 lexemes under which the theorems about `Json` are proved.

What `OnlyTheseUnbalance` shows. The code of the two wrappers does not keep its counts everywhere; a property
that says so plainly would fail at the first such call and check nothing else. So the property
names the calls that leave a count too high (`Leaking`, `Reraising`) or too low (`OverReleasing`, `Passing`,
`Converting`), each with its line, and says that no other call does, on any path. A count that has become too low is
followed one call further, to the free that comes too early (`FreedOnlyIfRobbed`). References that only a dead wrapper held are not counted as
surplus but in `kept`, and the property names the calls in which a wrapper may die (`Dropping`). `ErrorsOnRightSide` and
`ChunkEndsReported` list their exceptions in the same way.

What the properties of `MCErrorState` show. `exceptions.h:39` has "error state is stored per-thread", which does not hold of the static
`MemoryError`: two threads that run out of memory share it, and the cause that the second sets is also in the first one's chain. `ErrorStatesApart` says that
two threads share part of their chains only behind an exception that was set again, and `CauseChainEnds` and `CaughtStays` say the same of cycles and of
errors that leave their handler. So these are properties of the code as it is, with the case in which it fails as a part of the state, and in `CountsAgree`
what is overwritten is `lost`.

Runs that TLC must find violated, each a disagreement between the code and what the
sources say of it (quoted under `findings`):

| Run | Property | The code |
|---|---|---|
| `MCDictStale` | `NoStaleRelease` | an emptied table bucket keeps its value, which the next store releases again |
| `MCDictClear` | `ClearIsSafe` | a cleared dictionary keeps a pointer to its freed blocks |
| `MCInternHash` | `InternedOnce` | string hashes are never computed |

Two more configurations are not among the runs, and show what the hazards they stand for
look like; TLC finds each violated within seconds:

| Configuration | Property | The code |
|---|---|---|
| `MCListInsert.cfg` (`MCList`) | `InsertStaysInside` | insertion at 0 counts an unsigned index below 0 (`list.c:167`) |
| `MCInternThreads.cfg` (`MCIntern`) | `DeletedLast` | a string whose count reached zero is handed out again (`string_intern.c:178`) |

No document promises that threads may share the intern table, so the second is no disagreement; with one thread `DeletedLast` cannot fail and
is not checked. `InternedOnce` holds in `MCIntern` and fails in `MCInternHash`: what differs is a constant (`Uninit`), so the pair says
precisely on what the property depends.

Bounds. `MCHeap`: two containers, one of each kind, are enough for cycles, self-reference and a cascade
of depth two, a third object for aliasing and for a destructor that calls back in the middle of any of these; two variables of
one thread and one of the other give a race on the last two references. With one slot each, a container that is half cleared has nothing left to
release; that it may is left to the proofs, which have no such bound. `MCDict`: four different keys in one chain fill blocks of 1 and 2 buckets and force
one of 4, with removal at the table bucket, in the middle and at the end; the real table also has one
bucket (`DY_TABLE_SIZE`), so all keys do collide in it; the twin and the hash 0 exercise the
three matching rules. `MaxOver = 1` stops a behaviour at the second stale release of
a value. `MCIntern`: a chain of three, whose second and third bucket are in a block each; `MaxRefs = 2` bounds the count. `MCList`: nine items go through the capacities 4, 8 and
16 and both branches of the growth rule. `MCErrorState`: a chain of three causes that one thread may
set while the other walks down it, and a handler inside a handler or around a held reference (`MaxLocals`, in one thread, the other one only
sets, discards and clears); one overwritten reference to `MemoryError` (`MaxLost`) is enough for it to become its own cause and to be
in the chains of both threads. `MCFreelist`: all orders of five cells.
`MCJson`: five tokens are enough for `{"a":{"a"` and every other way to fail inside a container inside a key, for
containers in containers and a key that cannot be one (an entry that replaces another takes nine tokens and is left to the
proofs, which have no such bound); `Size = 6` leaves no text of the run out of the grammar; strings have one part or three, with a code point of three bytes;
`Bits = 5` puts the least and the greatest integer within reach. After `MaxLexemes` only the end may follow, and there is at most
one spacing (`MaxBlanks`). `MCCxx` and `MCPy`: three objects make a container, a key and a value; the state constraint
`Within` stops at a count above `MaxCount = 2`, a container with more than one entry, a second exception, a leak, or a
second reference that was released and not owned; a leak only stays, and what a first wrong release leads to is
followed. In `MCCxx` callables take a list or one argument (`Kinds`), those with none being a simpler case. `MCPy` also bounds the
number of objects, in all and while an error is pending (`MaxObjects`, `MaxPending`), and containers are lists within dictionaries at most
(`Leaf`). Its view leaves out `did`, which only records the last call: it decides nothing, and action properties look at it in
every step.

All symmetric model values are declared so, except in `MCHeap`, which checks a liveness property.
Deadlock is not checked: a client may stop calling, a bounded model runs into its bounds and a
faulty call ends its behaviour.

Fairness. `MCHeap` and `MCJson` state it. The reader is a single call: it waits only for the caller's
function that reads chunks, and that returns (weak fairness of `Next`). It does not follow from that alone that
the reader stops: `ParseEnds` fails if an incomplete token is asked for again and again. In `MCHeap`, a thread that is in `Dy_FreeObject` goes on: it waits for no lock and
no other thread. The fairness is strong and per object, because a client's destructor may
destroy other objects while it runs; it amounts to assuming that such destructors return.
Without that assumption `DyingIsFreed` is false, and it is not the library's fault.

Every property of a passing run has a mutant in `PROJECT.json`: an operator next to the
definition it replaces (marked `Mutant:`) with a plausible mistake, for which TLC finds the
property violated.

## 4. Proofs

| Theorem | Says |
|---|---|
| `HeapProofs!TypesAreKept` | `TypeOK` |
| `HeapProofs!NothingDangles` | `NoDangling` for any objects, threads, places |
| `HeapProofs!ContainersOutliveCalls` | `CallsKeepTheirContainer` |
| `HeapProofs!CountsAreExact` | `CountsAgree` |
| `HeapProofs!ObjectsDieOnce` | `DestroyedOnce` |
| `HeapProofs!OnlyFailedStoresForget` | `NothingForgotten` |
| `HeapProofs!CountsImplementOwnership` | `Heap` implements `Ownership` |
| `FreelistProofs!FreelistIsExact` | `FreeCellsAreListed` for any number of cells and whatever is left in them |
| `FreelistProofs!FreelistIsPool` | `Freelist` implements `Pool` |
| `DictProofs!TypeCorrect` | the representation of a dictionary stays well formed |
| `DictProofs!CellsAreConserved` | `CellsConserved` and `NothingBehindEmptyHead` for any table and block size |
| `DictProofs!KeysAreUnique` | `EntriesFindable`, if equal keys hash alike |
| `DictMapProofs!ReferencesAreAccounted` | `RefsAccounted` |
| `DictMapProofs!GrowsWhenFull` | `GrowsOnlyWhenFull` |
| `DictMapProofs!DictIsMap` | `Dict` implements `DictMap`, if equal keys hash alike |
| `DictMapProofs!LookupsSeeCalls` | a lookup after a set finds the value, one after a removal nothing (`SeesCalls`), if equal keys hash alike |
| `DictMapProofs!IterationIsComplete` | `IteratesOnce`, if the null pointer is not a place |
| `ListProofs!AssertionHolds` | `list_resize`'s assertion, unless 1, 2 or 3 items are preallocated |
| `ListProofs!ListIsSequence` | `List` implements `ListSeq`, under the same condition |
| `ListProofs!ReferencesAccounted` | `RefsAccounted`, under the same condition |
| `ErrorProofs!NoErrorIsMasked` | `NothingMasked`, also for exceptions that are set again |
| `ErrorProofs!TypesAreKept` | states, causes, counts and handlers stay well formed (`TypeInv`) |
| `ErrorProofs!ErrorsAreCounted` | `CountsAgree` |
| `ErrorProofs!CausesEnd` | `CauseChainEnds` |
| `ErrorProofs!ErrorsArePerThread` | `ErrorStatesApart` |
| `ErrorProofs!CaughtIsKept` | `CaughtStays` |
| `InternProofs!TableListsStrings` | `TableIsExact`, if hash fields are right |
| `InternProofs!EqualStringsAreOne` | `InternedOnce`, if hash fields are right |
| `InternProofs!CellsAreConserved` | `CellsConserved`, if hash fields are right |
| `JsonProofs!NothingIsLeaked` | `NothingLeaks` for texts of any length and depth, if the null pointer is not a value |
| `JsonProofs!DocumentsAreRead` | `ReadsDocument` for texts of any length and depth, if lexemes are what the tables say and the null pointer is not a value |
| `JsonProofs!RefusalsAreJust` | `RefusalIsJust`, under the same conditions |
| `JsonProofs!LocationsAreExact` | `LocationExact`, if lexemes are what the tables say |
| `JsonProofs!CutsAreReported` | `ChunkEndsReported`, if lexemes are what the tables say |
| `JsonProofs!IntegersAreExact` | an integer literal of any length is read as its number, wrapped to `Bits` bits; exactly, if it is one of that many bits |
| `JsonProofs!CodePointsAreEncoded` | the bytes of a code point of up to 31 bits are a first one that tells their number, and others that cannot be a first one |
| `JsonProofs!EncodingsAreApart` | no encoding of a code point is another one's or its beginning |
| `JsonProofs!StringScansAgree` | the two scans of a string, in `token_string` and `dyj_next_string`, agree about where it ends, whatever its bytes |

They rest on the modules' `ASSUME`s about constants (which TLC evaluates in the runs) and nothing
else but the conditions named here, which the theorems state: `KeysAreUnique`, `DictIsMap` and `LookupsSeeCalls` on `HashConsistent`,
those about `List` on what may be preallocated, those about `Intern` on
`RightHashes`, and the four about what `Json` reads (`DocumentsAreRead` to `CutsAreReported`) on `LexemesAreRead`, which TLC evaluates for the lexemes of `MCJson`. `NullIsNoPlace` and `NullIsNoValue` only say that the constant `NULL` is none of the tuples that
places and values are written as. Where the code does not meet a condition, a configuration of section 3 shows what happens instead (for preallocation, section 2 says how to see it).

*Heap.* A slot that is stale shows one object and counts another, or none, so the counts are compared with what a place owns (`Owned`, as a function
`Own`), and the invariant `IInv` has two parts. `Counting` says that what is owned is alive, that counts are the numbers of owners (`Counted`), that dying, leaked
and passed objects have count zero and the passed and leaked ones are different and live (`Uncounted`), and `NothingForgotten`. `CountsAgree` is not inductive
without these: it has to be known that an object with count zero is not released again. `Calling` says which call answers for each stale slot and each
retained value (`StaleHasCall`, `PendingHasCall`), that a destruction is of a dying object and any other call of a live one (`CallStates`), and that there is one call on an object at
a time (`Once`) up to the moment of a reentry, from which on only destructions are known to be single (`FreeOnce`). `NothingDangles` combines the two: a place that is not stale shows what it owns, and
that is alive; a stale one has its call. A release is one lemma for every place it occurs in (`Dropping`, `Gaining`, `Replacing` with the lemmas about
`Count`, which say how the number of owners changes when one place changes); then each step has one. For the last thing a call does,
taking out all slots at once (`Emptying`), it is used that they are stale and own nothing. Refinement: a step changes what one place owns, or whether one object exists (`PointStep`).

*Freelist.* The invariant names the list itself (`Linked`): a sequence of the free cells without repetition, whose first is
`root` and in which each cell's link is the next. `freelist_pop` drops its first and `freelist_push` puts one before it, whatever
the cell's user wrote into its link before. The walk of `freelist_len` is a recursive function: that it
meets the cells of the list and then `NULL` is shown as the absence of a first step where it does not (`NoFirst`), which is how
these proofs do induction. The refinement follows, as pop and push change the listed cells by one.

*Dict.* Everything rests on the type invariant, which contains that a stored key has a value.
`CellsConserved` and `NothingBehindEmptyHead` are inductive together: insertion takes a cell from the free ones,
removal gives back exactly that of the removed position, and the table bucket is invalidated only
when nothing is behind it. `KeysAreUnique` needs in addition that an entry lies in the slot of its hash.
What the calls do to entries is said once: `Moved` is a bijection between the places of the entries that stay, before and after,
with what was added and what was removed left out, and each branch of `dict.c` has its own (insertion before a chain, an
overwritten table bucket, a second bucket pulled over the first, an unlinked one). `ReferencesAreAccounted` follows by
counting along it, the refinement by carrying `GetsRight` along it: that a lookup finds exactly what is stored. For `IterationIsComplete` each
place has a rank in the order of slots and chains, and `DyDict_IterNext` goes from one rank to the next.

*List.* The strengthening `RoomOrNone` says that a capacity is zero or at least four: the resize rule makes no smaller
one. A list whose buffer was dropped has size 0, and one item is less than half of four, so the buffer is
allocated anew before anything is stored. With it, each call comes down to `Inserted`,
`Overwritten`, `Release` or no change of the items: the refinement compares these with the operations of `ListSeq`
(`InsertRefines`, `StepRefines`), and `ReferencesAccounted` counts the places an item is at, where an insertion
moves every place behind it by one (`InsertedOcc`, by a bijection).

*Error state.* Nothing is supposed of what is set: an exception may be set again as often as one likes. What remains true then is said of the others, and
rests on `OneReferrer`: an exception that is not in `again` is the current one of one thread, or the cause of one exception, or neither. A set that would give it a second referrer
puts it in `again`, and it leaves that only when it is freed or set while nothing refers to it. The count of an exception is compared with the references to it and with those that were lost;
one lemma says how that sum changes with each kind of reference (`ReferencesChange`). With that, `CauseChainEnds` is inductive: a set of exceptions
closed under cause would have to be entered by a second referrer. `NothingMasked` needs none of this. `Chain` follows causes one step per exception; that this is the least set that holds the current exception and is closed under
cause (`InChain`) is a matter of counting: it grows in each step or is complete (`FromCloses`, `ChainIs`). For `ErrorStatesApart`, the first exception that two chains have in common has
two referrers, so it is in `again`. For `CaughtStays` it has to be shown that what was caught is not freed, also when a set has cut it off from the error state: it is then still reached from an exception to
which a reference was lost, and that is never freed (`IsKept`); and as long as nothing in the error state was set again, it is reached from the current exception (`Stays`). `CaughtInv` says both
of all handlers, with one lemma for each way the causes change (`CaughtInstall`, `CaughtUnwind`, `CaughtFinish`).

*Intern.* `string_unintern` takes out the first bucket with the string's text in the slot of its hash. That this is the string's own
needs that texts in a chain are different (`TextsDistinct`) and the hash under which it was put in is still that of the
text (`HashesRight`); that every interned string is in the table (`AllListed`) is then kept. `CellsOnce` is the same
argument as in `Dict`. Calls on the table are atomic in the model, so the theorems hold for any number of threads that take turns.

*Json.* Which handlers hold a key is told by where they are in their loops (`HoldsKey`), and only the innermost can be between a
key and its colon, since the others wait for a value; so an error on its way out leaves at most one key behind. After
an error the innermost handler may also have given up a key that cannot be one. `JInv` says this and counts; what the tokenizer
and the grammar say is not needed for `NothingIsLeaked`.

`DocumentsAreRead` and `RefusalsAreJust` compare the reader, which goes through the text once with a stack, with a grammar that says of a
whole text what it is. They rest on one invariant, `ReadInv`. `Grammar` is the grammar without the bound `Size`, and
`DerivedIs` says that `Derived` is its beginning. `Completes` says of a stack of handlers which texts, read from now on, make it return which
value, each handler from the place in its loop where it is; `Follow` says that after a text these are exactly the texts that
make a document of it. It holds of the empty stack and the empty text, and each lexeme takes it on: the rules,
read backwards from their first lexeme, say what may come where a value may begin (`WantsScalar`, `WantsOpen`, `WantsOther`), behind an item or an entry
(`CommaMoves`, `CommaStuck`) and behind a key (`ColonMoves`, `ColonStuck`). A value that a handler returns
is given to the one below (`Given`). So a document is complete when the stack is empty, and where no rule goes on with the lexeme that was read, no
document begins like that (`Refused`), which is all an error may say. A dictionary is built from the front by the reader and
from the whole list by the grammar; `Put` and `ToDict` agree because later entries win in both (`MergePut`). When a part of a string was dropped (`json.c:167`) the
handlers hold values that the text does not say; `ReadInv` then speaks of handlers of the same shape, which would have read the
text as it is, so that `RefusalIsJust` holds there too.

`LocationsAreExact` says of `end_location`, which adds token to token, that it is a count of bytes and line breaks of the text as a whole:
joining two texts adds their breaks, and only the last break decides the column (`LocationJoin`). `CutsAreReported` goes byte by byte: if a
buffer holds a lexeme cut by the end of a chunk, then a number stops at the sentinel, since the bytes before it are digits and signs
in the whole lexeme too (`NumberCut`); a string meets the sentinel before any closing quote, as the escapes before it are the same (`StringCut`); spacing
and keywords follow (`SpaceCut`, `KeywordCut`). So in a cut buffer the tokenizer finds the whole token or reports the end of the chunk (`BufferReads`), and
a keyword is the one exception, which the property names.

The last four are about functions of the tokenizer, for every input. Integers (`IntegersAreExact`): `Congruent` numbers differ by a multiple of `2^Bits`, each
step of the loop keeps the accumulated value congruent to the number read so far although it wraps, the negation at the end does too, and of the
numbers that are congruent only one fits. Code points: the six tables of `dyj_unicode_utf8` give disjoint ranges of first bytes, so two equal encodings have
the same length, and from the first byte on each further one adds the same six bits to both (`SixBits`). Strings: `handle_STRING` scans a string
again after `token_string` has found its end, with other rules (`\u` takes four digits, text runs to the next quote or
backslash) and no test for the end of the buffer. `StringScansAgree` holds since a token never begins at an escaped byte (`Starts`): an escape ends behind
the byte it escapes, and none of the sixteen bytes that `\u` takes for digits is a quote or a backslash (`HexIsPlain`), so that it cannot step over
the closing quote. In these definitions recursion is a recursive function, whose existence is shown first, by extending it one argument at a time (`StepsExist`, `RestExists`).

Only model-checked. The liveness properties `DyingIsFreed` and `ParseEnds`: TLAPS has no proof rule for fairness here. The
properties of the wrappers, `OnlyTheseUnbalance`, `FreedOnlyIfRobbed`, `RefShowsItem`, `ErrorsOnRightSide` and `ReprCloses`:
`Objects`, `Access` and `BuildString` use recursive operators, so no module above them can hold a theorem.

## 5. What is not modelled, and the plan

Left out for good: formatting of messages, hash functions (they are parameters), the numeric boxes, the value of floats,
the Qt conversions and the template machinery of `libdy++`, the initialisation of the Python module, the build, the test
programs. A failed allocation is an error, a fault or a crash, as the code has it; left out are those of `Heap`, of an append in `List` whose buffer cannot grow,
which change nothing, and that of an exception in `ErrorState`, which is a crash.
Calls of one container from two threads without a lock are undefined and not modelled. `bs->part` pointers and
`dy_buildstring_printf` are modelled as far as ownership goes, not their contents.

Left for later, in this order:

1. What a destructor reads that re-enters a container in the middle of a call (`dict.c:302`, `list.c:219`), which `Heap` records and does not
   follow: the calls of `Dict` and `List` in steps, with the client in between, composed with `Heap`.
2. An iterator over a dictionary that changes (`dict.c:475`).
3. Exception data destructors (`error.c:135`), which run while the error state still refers to the dying exception, and `DyErr_Filter`
   as a function on identifiers (`error.c:196`).
4. `Dy_Call` and `Dy_CallString` with a given list of arguments, comparison of strings, the names of userdata.

Proofs: the counts of the two wrappers (`OnlyTheseUnbalance`), for which the recursive operators of `Objects`, `Access` and
`BuildString` would have to become functions.
