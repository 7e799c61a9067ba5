----------------------------- MODULE ErrorState -----------------------------
(***************************************************************************)
(* The error state of error.c: each thread has a current exception         *)
(* (dy_error_state, _Thread_local), each exception the cause that was      *)
(* current when it was set, and one static MemoryError serves all threads. *)
(*                                                                         *)
(* Releasing an exception walks down its causes: exception_destroy ends    *)
(* with the release of the cause, so todo[t] is the exception thread t     *)
(* releases next.  DyErr_Clear and DyErr_DiscardAndSetObject install their *)
(* result (then[t]) after that walk; other threads run in between.         *)
(*                                                                         *)
(* The handler macros of exceptions_c.h keep what they need in local       *)
(* variables of the thread: handlers[t], innermost last.                   *)
(***************************************************************************)
EXTENDS Integers, Sequences, FiniteSets

CONSTANTS Threads,
          Exc,          \* exception objects, the static one included
          MemoryError,  \* __MemoryError
          MaxLocals,    \* bound on the handlers and held references of each thread
          MaxLost,      \* bound on the lost references to each exception
          NULL, Idle

ASSUME ErrorAssumption == /\ MemoryError \in Exc
                          /\ NULL \notin Exc /\ Idle \notin Exc \cup {NULL}
                          /\ IsFiniteSet(Threads) /\ IsFiniteSet(Exc)
                          /\ MaxLocals \in [Threads -> Nat] /\ MaxLost \in [Exc -> Nat]

VARIABLES state,   \* dy_error_state of each thread
          cause,   \* DyExceptionObject.cause
          refcnt,  \* DyObject.refcnt
          live,    \* the exception objects that exist
          held,    \* the references the code of each thread holds
          todo,    \* the exception whose reference a thread releases next
          then,    \* what becomes current after that; Idle if nothing does
          handlers, \* the open handlers of each thread: whether the exception is
                   \* handled, and which it is, or NULL if the thread has
                   \* cleared or discarded its error since (history)
          again,   \* exceptions set last while current or a cause (history)
          lost,    \* how many references to each were overwritten (history)
          fault    \* what a call dereferenced, if it should not have

vars == <<state, cause, refcnt, live, held, todo, then, handlers, again, lost, fault>>

Init == /\ state = [t \in Threads |-> NULL]
        /\ cause = [e \in Exc |-> NULL]
        /\ refcnt = [e \in Exc |-> IF e = MemoryError THEN 1 ELSE 0]
        /\ live = {MemoryError}
        /\ held = [t \in Threads |-> {}]
        /\ todo = [t \in Threads |-> NULL]
        /\ then = [t \in Threads |-> Idle]
        /\ handlers = [t \in Threads |-> <<>>]
        /\ again = {}
        /\ lost = [e \in Exc |-> 0]
        /\ fault = "none"

Running(t) == fault = "none" /\ todo[t] = NULL /\ then[t] = Idle

\* e is the current exception of a thread, or the cause of an exception.
InUse(e) == /\ e # NULL
            /\ \/ \E t \in Threads : state[t] = e /\ then[t] = Idle
               \/ \E x \in live : cause[x] = e

SetNow(e) == again' = IF InUse(e) THEN again \cup {e} ELSE again \ {e}

\* The exceptions the code of thread t can name: those it holds, its current
\* one (DyErr_Occurred) and their causes (DyErr_Cause).
Known(t) == LET seen == held[t] \cup ({state[t]} \ {NULL})
            IN  (seen \cup {cause[x] : x \in seen}) \ {NULL}
HasRoom(t) == Len(handlers[t]) + Cardinality(held[t]) < MaxLocals[t]
-----------------------------------------------------------------------------
(* Setting an exception.                                                   *)

\* Mutant: the current exception is forgotten, not kept as the cause.
SetForgets(t, e, n) ==
    /\ state' = [state EXCEPT ![t] = e]
    /\ cause' = [cause EXCEPT ![e] = NULL]
    /\ refcnt' = [refcnt EXCEPT ![e] = n + 1]
    /\ SetNow(e)

\* Mutant: dy_error_state is not thread-local.
InstallForAll(t, e, n) ==
    /\ state' = [u \in Threads |-> e]
    /\ cause' = [cause EXCEPT ![e] = state[t]]
    /\ refcnt' = [refcnt EXCEPT ![e] = n + 1]
    /\ SetNow(e)

\* DyErr_SetObject, on an exception with count n: the thread's reference to
\* the current exception becomes the cause; an earlier cause is overwritten.
Install(t, e, n) ==
    /\ state' = [state EXCEPT ![t] = e]
    /\ cause' = [cause EXCEPT ![e] = state[t]]
    /\ refcnt' = [refcnt EXCEPT ![e] = n + 1]
    /\ SetNow(e)

\* DyErr_Set, DyErr_Format, DyErr_SetArgumentTypeError: a new exception is
\* passed (Dy_Pass, so its count is 0) to DyErr_SetObject.
DyErr_Set(t, e) == /\ Running(t)
                   /\ e \notin live
                   /\ live' = live \cup {e}
                   /\ Install(t, e, 0)
                   /\ UNCHANGED <<held, todo, then, handlers, lost, fault>>

\* An exception that exists is set: its reference to an earlier cause is lost.
SetExisting(t, e) ==
    /\ Install(t, e, refcnt[e])
    /\ IF cause[e] = NULL
       THEN UNCHANGED lost
       ELSE lost[cause[e]] < MaxLost[cause[e]] /\ lost' = [lost EXCEPT ![cause[e]] = @ + 1]
    /\ UNCHANGED <<live, held, todo, then, handlers, fault>>

DyErr_SetObject(t, e) == Running(t) /\ e \in Known(t) /\ SetExisting(t, e)

DyErr_SetMemoryError(t) == Running(t) /\ SetExisting(t, MemoryError)
-----------------------------------------------------------------------------
(* Releasing exceptions.                                                   *)

\* Handlers that can no longer rely on what they caught.
Forgotten(hs) == [i \in DOMAIN hs |-> [hs[i] EXCEPT !.exc = NULL]]

DyErr_DiscardAndSetObject(t, e) ==
    /\ Running(t) /\ e \in Known(t)
    /\ todo' = [todo EXCEPT ![t] = state[t]]
    /\ then' = [then EXCEPT ![t] = e]
    /\ handlers' = [handlers EXCEPT ![t] = Forgotten(@)]
    /\ UNCHANGED <<state, cause, refcnt, live, held, again, lost, fault>>

\* Whether there is an exception is not tested.
Clear(t) ==
    \/ /\ state[t] # NULL
       /\ todo' = [todo EXCEPT ![t] = state[t]]
       /\ then' = [then EXCEPT ![t] = NULL]
       /\ UNCHANGED fault
    \/ /\ state[t] = NULL
       /\ fault' = "null"
       /\ UNCHANGED <<todo, then>>

DyErr_Clear(t) ==
    /\ Running(t)
    /\ Clear(t)
    /\ handlers' = [handlers EXCEPT ![t] = Forgotten(@)]
    /\ UNCHANGED <<state, cause, refcnt, live, held, again, lost>>

\* Dy_Release of an exception the thread holds (Exception::~Exception).
Dy_Release(t, e) == /\ Running(t) /\ e \in held[t]
                    /\ held' = [held EXCEPT ![t] = @ \ {e}]
                    /\ todo' = [todo EXCEPT ![t] = e]
                    /\ UNCHANGED <<state, cause, refcnt, live, then, handlers, again, lost, fault>>

\* Dy_Retain of what DyErr_Occurred or DyErr_Cause returned.
Dy_Retain(t, e) ==
    /\ Running(t)
    /\ e \in Known(t) \ held[t] /\ HasRoom(t)
    /\ held' = [held EXCEPT ![t] = @ \cup {e}]
    /\ refcnt' = [refcnt EXCEPT ![e] = @ + 1]
    /\ UNCHANGED <<state, cause, live, todo, then, handlers, again, lost, fault>>

\* Mutant: the cause of a destroyed exception is not released.
UnwindLeaks(t) ==
    LET e == todo[t]
    IN  /\ e # NULL
        /\ refcnt' = [refcnt EXCEPT ![e] = @ - 1]
        /\ todo' = [todo EXCEPT ![t] = NULL]
        /\ live' = IF refcnt[e] = 1 THEN live \ {e} ELSE live
        /\ UNCHANGED <<state, cause, held, then, handlers, again, lost, fault>>

\* One Dy_Release of the walk: the last reference destroys the exception, and
\* exception_destroy releases its cause.
Unwind(t) ==
    LET e == todo[t]
    IN  /\ e # NULL
        /\ refcnt' = [refcnt EXCEPT ![e] = @ - 1]
        /\ IF refcnt[e] = 1
           THEN /\ live' = live \ {e}
                /\ todo' = [todo EXCEPT ![t] = cause[e]]
                /\ cause' = [cause EXCEPT ![e] = NULL]
                /\ again' = again \ {e}
           ELSE UNCHANGED <<live, cause, again>> /\ todo' = [todo EXCEPT ![t] = NULL]
        /\ UNCHANGED <<state, held, then, handlers, lost, fault>>

\* Mutant: the discarded exception becomes the cause.
FinishChains(t) ==
    /\ todo[t] = NULL /\ then[t] # Idle
    /\ state' = [state EXCEPT ![t] = then[t]]
    /\ cause' = [e \in Exc |-> IF e = then[t] THEN state[t] ELSE cause[e]]
    /\ then' = [then EXCEPT ![t] = Idle]
    /\ refcnt' = [e \in Exc |-> refcnt[e] + (IF e = then[t] THEN 1 ELSE 0)]
    /\ UNCHANGED <<live, held, todo, handlers, again, lost, fault>>

\* The walk is over: DyErr_Clear sets NULL, DyErr_DiscardAndSetObject retains
\* its argument, whose cause is left as it is.  It may have been freed in the
\* walk, if only the discarded exceptions referred to it.
Finish(t) ==
    /\ todo[t] = NULL /\ then[t] # Idle
    /\ IF then[t] \in live \cup {NULL}
       THEN /\ state' = [state EXCEPT ![t] = then[t]]
            /\ then' = [then EXCEPT ![t] = Idle]
            /\ refcnt' = [e \in Exc |-> refcnt[e] + (IF e = then[t] THEN 1 ELSE 0)]
            /\ SetNow(then[t])
            /\ UNCHANGED fault
       ELSE fault' = "freed" /\ UNCHANGED <<state, then, refcnt, again>>
    /\ UNCHANGED <<cause, live, held, todo, handlers, lost>>

-----------------------------------------------------------------------------
(* DY_ERR_HANDLER ... DY_ERR_HANDLER_END.                                  *)

\* A catch clause that applies; one that does not, and the end after none did,
\* do nothing.  The exception is only borrowed.
DY_ERR_CATCH(t) ==
    /\ Running(t) /\ state[t] # NULL /\ HasRoom(t)
    /\ handlers' = [handlers EXCEPT ![t] = Append(@, [exc |-> state[t], handled |-> TRUE])]
    /\ UNCHANGED <<state, cause, refcnt, live, held, todo, then, again, lost, fault>>

InHandler(t) == Running(t) /\ handlers[t] # <<>>
Inner(t) == handlers[t][Len(handlers[t])]
Outer(t) == SubSeq(handlers[t], 1, Len(handlers[t]) - 1)

DY_ERR_RETHROW(t) ==
    /\ InHandler(t) /\ Inner(t).handled
    /\ handlers' = [handlers EXCEPT ![t][Len(handlers[t])].handled = FALSE]
    /\ UNCHANGED <<state, cause, refcnt, live, held, todo, then, again, lost, fault>>

\* Mutant: the error is cleared in any case.
EndClears(t) ==
    /\ InHandler(t)
    /\ Clear(t)
    /\ handlers' = [handlers EXCEPT ![t] = IF Inner(t).handled THEN Forgotten(Outer(t)) ELSE Outer(t)]
    /\ UNCHANGED <<state, cause, refcnt, live, held, again, lost>>

\* The end, or DY_ERR_ESCAPE: what is cleared is whatever is current then, with
\* all its causes.
DY_ERR_HANDLER_END(t) ==
    /\ InHandler(t)
    /\ IF Inner(t).handled
       THEN Clear(t) /\ handlers' = [handlers EXCEPT ![t] = Forgotten(Outer(t))]
       ELSE handlers' = [handlers EXCEPT ![t] = Outer(t)] /\ UNCHANGED <<todo, then, fault>>
    /\ UNCHANGED <<state, cause, refcnt, live, held, again, lost>>

DY_ERR_RETHROW_RETURN(t) ==
    /\ InHandler(t)
    /\ handlers' = [handlers EXCEPT ![t] = Outer(t)]
    /\ UNCHANGED <<state, cause, refcnt, live, held, todo, then, again, lost, fault>>

Next == fault = "none" /\ \E t \in Threads :
          \/ \E e \in Exc : \/ DyErr_Set(t, e)
                            \/ DyErr_SetObject(t, e)
                            \/ DyErr_DiscardAndSetObject(t, e)
                            \/ Dy_Release(t, e)
                            \/ Dy_Retain(t, e)
          \/ DyErr_SetMemoryError(t)
          \/ DyErr_Clear(t)
          \/ Unwind(t)
          \/ Finish(t)
          \/ DY_ERR_CATCH(t)
          \/ DY_ERR_RETHROW(t)
          \/ DY_ERR_HANDLER_END(t)
          \/ DY_ERR_RETHROW_RETURN(t)

Spec == Init /\ [][Next]_vars
-----------------------------------------------------------------------------
\* The references to e: as current exception (unless it is being replaced), as
\* a cause, from client code, about to be released, and the static one.
References(e) ==
      Cardinality({t \in Threads : state[t] = e /\ then[t] = Idle})
    + Cardinality({x \in live : cause[x] = e})
    + Cardinality({t \in Threads : e \in held[t]})
    + Cardinality({t \in Threads : todo[t] = e})
    + (IF e = MemoryError THEN 1 ELSE 0)

\* The count of an exception is the number of references to it, through every
\* interleaving of setting, discarding and clearing, and of those that setting
\* an exception with a cause overwrote; and it exists exactly as long as there
\* is one: no error is used after it was freed, except by the fault "freed".
CountsAgree == \A e \in Exc : /\ refcnt[e] = References(e) + lost[e]
                              /\ e \in live <=> refcnt[e] > 0

\* Following causes ends, unless it comes to an exception that was set while it
\* was current or a cause, as DyErr_SetMemoryError may do: no set of other
\* exceptions is closed under cause.
CauseChainEnds ==
    \A S \in SUBSET (live \ again) : S # {} => \E e \in S : cause[e] \notin S

\* The exceptions of a thread's error state: the current one and its causes.
Chain(t) == LET from[n \in 0..Cardinality(Exc)] ==
                    IF n = 0 THEN {state[t]} ELSE from[n - 1] \cup {cause[x] : x \in from[n - 1] \ {NULL}}
            IN  IF then[t] = Idle THEN from[Cardinality(Exc)] \ {NULL} ELSE {}

\* exceptions.h:39 has "error state is stored per-thread".  The error states of
\* two threads have an exception in common only if one of those in common was
\* set while it was current or a cause: setting MemoryError in two threads is
\* enough, and the only way without handing an exception over.
ErrorStatesApart == \A t, u \in Threads :
    t # u /\ Chain(t) \cap Chain(u) # {} => Chain(t) \cap Chain(u) \cap again # {}

\* An exception that was current when another was set remains reachable: it is
\* dropped only by DyErr_Clear or DyErr_DiscardAndSetObject.
NothingMasked ==
    [][\A t \in Threads :
         /\ state[t] # NULL /\ state'[t] # state[t] /\ then[t] = Idle
         => state'[t] # NULL /\ cause'[state'[t]] = state[t]]_vars

\* What a handler caught is not freed under the handler, whatever this and other
\* threads raise, catch and rethrow, and stays in the error state, unless one of
\* the state's exceptions was set again while current or a cause.  It goes only
\* when the thread itself clears or discards its error, which a nested handler
\* does for all outer ones at its end.
CaughtStays == \A t \in Threads : \A i \in DOMAIN handlers[t] :
    handlers[t][i].exc # NULL =>
        /\ handlers[t][i].exc \in live
        /\ handlers[t][i].exc \in Chain(t) \/ Chain(t) \cap again # {}
=============================================================================
