---------------------------- MODULE ErrorProofs -----------------------------
(***************************************************************************)
(* Proofs about ErrorState, for any threads and exceptions: no error is    *)
(* masked, counts are exact, causes end, threads have error states of      *)
(* their own and handlers keep what they caught, but for what the set of   *)
(* an exception that is in use already does to the states it is in.        *)
(*                                                                         *)
(* All rests on what the other exceptions have in common: one thread or    *)
(* one exception refers to each at most (OneReferrer).  Chain, which       *)
(* follows causes a number of times, is the least set with the current     *)
(* exception that is closed under cause (InChain): two such sets can only  *)
(* meet where something has two referrers.  What a handler caught stays    *)
(* alive because it is reached from the error state or from a reference    *)
(* that was lost (IsKept), none of which is released again.                *)
(***************************************************************************)
EXTENDS ErrorState, FiniteSetTheorems, SequenceTheorems, TLAPS

TypeInv == /\ state \in [Threads -> Exc \cup {NULL}]
           /\ cause \in [Exc -> Exc \cup {NULL}]
           /\ refcnt \in [Exc -> Int]
           /\ live \in SUBSET Exc
           /\ held \in [Threads -> SUBSET Exc]
           /\ todo \in [Threads -> Exc \cup {NULL}]
           /\ then \in [Threads -> Exc \cup {NULL, Idle}]
           /\ again \in SUBSET Exc
           /\ lost \in [Exc -> Nat]

Current(e)   == {t \in Threads : state[t] = e /\ then[t] = Idle}
CauseOf(e)   == {x \in live : cause[x] = e}
HeldBy(e)    == {t \in Threads : e \in held[t]}
ToRelease(e) == {t \in Threads : todo[t] = e}
Bit(b)       == IF b THEN 1 ELSE 0

\* Only one error state has the exception, unless it was set while in use.
OneReferrer == \A e \in live \ again :
    /\ \A t, u \in Current(e) : t = u
    /\ \A x, y \in CauseOf(e) : x = y
    /\ Current(e) = {} \/ CauseOf(e) = {}

DeadHaveNoCause == \A e \in Exc \ live : cause[e] = NULL

IInv == TypeInv /\ CountsAgree /\ OneReferrer /\ DeadHaveNoCause /\ CauseChainEnds
-----------------------------------------------------------------------------
(* Counting references.                                                    *)

\* Two finite sets that differ in one element at most.
LEMMA OneChange ==
  ASSUME NEW S, NEW T, NEW x, IsFiniteSet(S), \A y : y # x => (y \in T <=> y \in S)
  PROVE  /\ IsFiniteSet(T)
         /\ Cardinality(T) = Cardinality(S) + Bit(x \in T) - Bit(x \in S)
<1>1. Cardinality(S) \in Nat
  BY FS_CardinalityType
<1>2. CASE x \in T
  <2>1. T = S \cup {x}
    BY <1>2
  <2> QED BY <2>1, <1>1, <1>2, FS_AddElement DEF Bit
<1>3. CASE x \notin T
  <2>1. T = S \ {x}
    BY <1>3
  <2> QED BY <2>1, <1>1, <1>3, FS_RemoveElement DEF Bit
<1> QED BY <1>2, <1>3

\* The sets that References counts.
LEMMA ReferenceSets ==
  ASSUME TypeInv, NEW e \in Exc
  PROVE  /\ IsFiniteSet(Current(e)) /\ IsFiniteSet(CauseOf(e))
         /\ IsFiniteSet(HeldBy(e)) /\ IsFiniteSet(ToRelease(e))
         /\ Cardinality(Current(e)) \in Nat /\ Cardinality(CauseOf(e)) \in Nat
         /\ Cardinality(HeldBy(e)) \in Nat /\ Cardinality(ToRelease(e)) \in Nat
         /\ References(e) = Cardinality(Current(e)) + Cardinality(CauseOf(e))
                            + Cardinality(HeldBy(e)) + Cardinality(ToRelease(e))
                            + Bit(e = MemoryError)
<1>1. /\ Current(e) \in SUBSET Threads /\ CauseOf(e) \in SUBSET Exc
      /\ HeldBy(e) \in SUBSET Threads /\ ToRelease(e) \in SUBSET Threads
  BY DEF Current, CauseOf, HeldBy, ToRelease, TypeInv
<1>2. /\ IsFiniteSet(Current(e)) /\ IsFiniteSet(CauseOf(e))
      /\ IsFiniteSet(HeldBy(e)) /\ IsFiniteSet(ToRelease(e))
  BY <1>1, FS_Subset, ErrorAssumption
<1>3. References(e) = Cardinality(Current(e)) + Cardinality(CauseOf(e))
                      + Cardinality(HeldBy(e)) + Cardinality(ToRelease(e))
                      + Bit(e = MemoryError)
  BY DEF References, Current, CauseOf, HeldBy, ToRelease, Bit
<1> QED BY <1>2, <1>3, FS_CardinalityType

\* A reference of any kind counts for at least one; two kinds for two.
LEMMA Referenced ==
  ASSUME TypeInv, NEW e \in Exc
  PROVE  /\ References(e) \in Nat
         /\ Current(e) # {} \/ CauseOf(e) # {} \/ HeldBy(e) # {} \/ ToRelease(e) # {} \/ e = MemoryError
               => References(e) >= 1
         /\ ToRelease(e) # {} /\ (Current(e) # {} \/ CauseOf(e) # {} \/ e = MemoryError)
               => References(e) >= 2
<1>1. \A S : IsFiniteSet(S) /\ S # {} => Cardinality(S) # 0
  BY FS_EmptySet
<1>2. References(e) \in Nat
  BY ReferenceSets DEF Bit
<1>3. Current(e) # {} \/ CauseOf(e) # {} \/ HeldBy(e) # {} \/ ToRelease(e) # {} \/ e = MemoryError
          => References(e) >= 1
  BY <1>1, ReferenceSets DEF Bit
<1>4. ASSUME ToRelease(e) # {} PROVE Cardinality(ToRelease(e)) >= 1
  BY <1>1, <1>4, ReferenceSets
<1>5. ASSUME ToRelease(e) # {}, Current(e) # {} PROVE References(e) >= 2
  BY <1>1, <1>4, <1>5, ReferenceSets DEF Bit
<1>6. ASSUME ToRelease(e) # {}, CauseOf(e) # {} \/ e = MemoryError PROVE References(e) >= 2
  BY <1>1, <1>4, <1>6, ReferenceSets DEF Bit
<1> QED BY <1>2, <1>3, <1>5, <1>6

\* A step of thread t that changes the cause or the life of exception x only.
LEMMA ReferencesChange ==
  ASSUME TypeInv, NEW t \in Threads, NEW x \in Exc, NEW e \in Exc,
         \A u \in Threads \ {t} : /\ state'[u] = state[u] /\ then'[u] = then[u]
                                  /\ todo'[u] = todo[u] /\ held'[u] = held[u],
         \A y \in Exc \ {x} : cause'[y] = cause[y] /\ (y \in live' <=> y \in live),
         live' \subseteq Exc
  PROVE  References(e)' = References(e)
             + Bit(state'[t] = e /\ then'[t] = Idle) - Bit(state[t] = e /\ then[t] = Idle)
             + Bit(x \in live' /\ cause'[x] = e)     - Bit(x \in live /\ cause[x] = e)
             + Bit(e \in held'[t])                   - Bit(e \in held[t])
             + Bit(todo'[t] = e)                     - Bit(todo[t] = e)
<1> USE ReferenceSets
<1>1. Cardinality(Current(e)') = Cardinality(Current(e))
          + Bit(state'[t] = e /\ then'[t] = Idle) - Bit(state[t] = e /\ then[t] = Idle)
  <2>1. \A u : u # t => (u \in Current(e)' <=> u \in Current(e))
    BY DEF Current
  <2>2. /\ t \in Current(e) <=> state[t] = e /\ then[t] = Idle
        /\ t \in Current(e)' <=> state'[t] = e /\ then'[t] = Idle
    BY DEF Current
  <2>3. Cardinality(Current(e)') = Cardinality(Current(e)) + Bit(t \in Current(e)') - Bit(t \in Current(e))
    BY <2>1, OneChange
  <2> QED BY <2>2, <2>3 DEF Bit
<1>2. Cardinality(CauseOf(e)') = Cardinality(CauseOf(e))
          + Bit(x \in live' /\ cause'[x] = e) - Bit(x \in live /\ cause[x] = e)
  <2>1. \A y : y # x => (y \in CauseOf(e)' <=> y \in CauseOf(e))
    BY DEF CauseOf, TypeInv
  <2>2. /\ x \in CauseOf(e) <=> x \in live /\ cause[x] = e
        /\ x \in CauseOf(e)' <=> x \in live' /\ cause'[x] = e
    BY DEF CauseOf
  <2>3. Cardinality(CauseOf(e)') = Cardinality(CauseOf(e)) + Bit(x \in CauseOf(e)') - Bit(x \in CauseOf(e))
    BY <2>1, OneChange
  <2> QED BY <2>2, <2>3 DEF Bit
<1>3. Cardinality(HeldBy(e)') = Cardinality(HeldBy(e)) + Bit(e \in held'[t]) - Bit(e \in held[t])
  <2>1. \A u : u # t => (u \in HeldBy(e)' <=> u \in HeldBy(e))
    BY DEF HeldBy
  <2>2. (t \in HeldBy(e) <=> e \in held[t]) /\ (t \in HeldBy(e)' <=> e \in held'[t])
    BY DEF HeldBy
  <2>3. Cardinality(HeldBy(e)') = Cardinality(HeldBy(e)) + Bit(t \in HeldBy(e)') - Bit(t \in HeldBy(e))
    BY <2>1, OneChange
  <2> QED BY <2>2, <2>3 DEF Bit
<1>4. Cardinality(ToRelease(e)') = Cardinality(ToRelease(e)) + Bit(todo'[t] = e) - Bit(todo[t] = e)
  <2>1. \A u : u # t => (u \in ToRelease(e)' <=> u \in ToRelease(e))
    BY DEF ToRelease
  <2>2. (t \in ToRelease(e) <=> todo[t] = e) /\ (t \in ToRelease(e)' <=> todo'[t] = e)
    BY DEF ToRelease
  <2>3. Cardinality(ToRelease(e)') = Cardinality(ToRelease(e)) + Bit(t \in ToRelease(e)') - Bit(t \in ToRelease(e))
    BY <2>1, OneChange
  <2> QED BY <2>2, <2>3 DEF Bit
<1>5. References(e)' = Cardinality(Current(e)') + Cardinality(CauseOf(e)')
                       + Cardinality(HeldBy(e)') + Cardinality(ToRelease(e)')
                       + Bit(e = MemoryError)
  BY DEF References, Current, CauseOf, HeldBy, ToRelease, Bit
<1> QED BY <1>1, <1>2, <1>3, <1>4, <1>5 DEF Bit
-----------------------------------------------------------------------------
(* What the invariant says of references: they are to live exceptions.     *)

LEMMA ReferencesAreLive ==
  ASSUME IInv
  PROVE  /\ MemoryError \in live
         /\ \A t \in Threads : state[t] # NULL /\ then[t] = Idle => state[t] \in live
         /\ \A t \in Threads : held[t] \subseteq live
         /\ \A t \in Threads : todo[t] # NULL => todo[t] \in live
         /\ \A x \in live : cause[x] # NULL => cause[x] \in live
         /\ \A e \in Exc : lost[e] > 0 => e \in live
<1>1. \A e \in Exc : References(e) >= 1 => e \in live
  <2> TAKE e \in Exc
  <2>1. /\ refcnt[e] = References(e) + lost[e] /\ (e \in live <=> refcnt[e] > 0)
        /\ lost[e] \in Nat /\ References(e) \in Nat
    BY Referenced DEF IInv, CountsAgree, TypeInv
  <2> QED BY <2>1
<1>2. MemoryError \in Exc
  BY ErrorAssumption
<1>3. MemoryError \in live
  BY <1>1, <1>2, Referenced DEF IInv
<1>4. ASSUME NEW t \in Threads, state[t] # NULL, then[t] = Idle PROVE state[t] \in live
  <2>1. state[t] \in Exc /\ t \in Current(state[t])
    BY <1>4 DEF IInv, TypeInv, Current
  <2> QED BY <2>1, <1>1, Referenced DEF IInv
<1>5. ASSUME NEW t \in Threads, NEW e \in held[t] PROVE e \in live
  <2>1. e \in Exc /\ t \in HeldBy(e)
    BY DEF IInv, TypeInv, HeldBy
  <2> QED BY <2>1, <1>1, Referenced DEF IInv
<1>6. ASSUME NEW t \in Threads, todo[t] # NULL PROVE todo[t] \in live
  <2>1. todo[t] \in Exc /\ t \in ToRelease(todo[t])
    BY <1>6 DEF IInv, TypeInv, ToRelease
  <2> QED BY <2>1, <1>1, Referenced DEF IInv
<1>7. ASSUME NEW x \in live, cause[x] # NULL PROVE cause[x] \in live
  <2>1. cause[x] \in Exc /\ x \in CauseOf(cause[x])
    BY <1>7 DEF IInv, TypeInv, CauseOf
  <2> QED BY <2>1, <1>1, Referenced DEF IInv
<1>8. ASSUME NEW e \in Exc, lost[e] > 0 PROVE e \in live
  <2>1. /\ refcnt[e] = References(e) + lost[e] /\ (e \in live <=> refcnt[e] > 0)
        /\ lost[e] \in Nat /\ References(e) \in Nat
    BY Referenced DEF IInv, CountsAgree, TypeInv
  <2> QED BY <1>8, <2>1
<1> QED BY <1>3, <1>4, <1>5, <1>6, <1>7, <1>8
-----------------------------------------------------------------------------
(* Types.                                                                  *)

LEMMA TypesStart == Init => TypeInv
  BY ErrorAssumption DEF Init, TypeInv

LEMMA SetExistingTypes ==
  ASSUME TypeInv, NEW t \in Threads, NEW e \in Exc, SetExisting(t, e)
  PROVE  TypeInv'
<1>1. cause[e] \in Exc \cup {NULL} /\ state[t] \in Exc \cup {NULL} /\ refcnt[e] + 1 \in Int
  BY DEF TypeInv
<1>2. lost' \in [Exc -> Nat]
  BY <1>1 DEF SetExisting, TypeInv
<1> QED BY <1>1, <1>2 DEF SetExisting, Install, SetNow, TypeInv

\* No call stores anything but exceptions.
LEMMA TypesKept ==
  ASSUME TypeInv, [Next]_vars
  PROVE  TypeInv'
<1>1. CASE UNCHANGED vars
  BY <1>1 DEF vars, TypeInv
<1>2. ASSUME NEW t \in Threads, NEW e \in Exc, DyErr_Set(t, e) PROVE TypeInv'
  BY <1>2 DEF DyErr_Set, Install, SetNow, TypeInv
<1>3. ASSUME NEW t \in Threads, NEW e \in Exc, DyErr_SetObject(t, e) PROVE TypeInv'
  BY <1>3, SetExistingTypes DEF DyErr_SetObject
<1>4. ASSUME NEW t \in Threads, DyErr_SetMemoryError(t) PROVE TypeInv'
  BY <1>4, ErrorAssumption, SetExistingTypes DEF DyErr_SetMemoryError
<1>5. ASSUME NEW t \in Threads, NEW e \in Exc, DyErr_DiscardAndSetObject(t, e) PROVE TypeInv'
  BY <1>5 DEF DyErr_DiscardAndSetObject, TypeInv
<1>6. ASSUME NEW t \in Threads, NEW e \in Exc, Dy_Release(t, e) PROVE TypeInv'
  BY <1>6 DEF Dy_Release, TypeInv
<1>7. ASSUME NEW t \in Threads, NEW e \in Exc, Dy_Retain(t, e) PROVE TypeInv'
  BY <1>7 DEF Dy_Retain, TypeInv
<1>8. ASSUME NEW t \in Threads, DyErr_Clear(t) PROVE TypeInv'
  BY <1>8 DEF DyErr_Clear, Clear, TypeInv
<1>9. ASSUME NEW t \in Threads, Unwind(t) PROVE TypeInv'
  <2>1. todo[t] \in Exc
    BY <1>9 DEF Unwind, TypeInv
  <2>2. cause[todo[t]] \in Exc \cup {NULL}
    BY <2>1 DEF TypeInv
  <2> QED BY <1>9, <2>1, <2>2 DEF Unwind, TypeInv
<1>10. ASSUME NEW t \in Threads, Finish(t) PROVE TypeInv'
  <2>1. then[t] \in Exc \cup {NULL}
    BY <1>10 DEF Finish, TypeInv
  <2>2. (InUse(then[t]) => then[t] \in Exc)
    BY <2>1 DEF InUse
  <2> QED BY <1>10, <2>1, <2>2 DEF Finish, SetNow, TypeInv
<1>11. ASSUME NEW t \in Threads, DY_ERR_HANDLER_END(t) PROVE TypeInv'
  BY <1>11 DEF DY_ERR_HANDLER_END, Clear, TypeInv
<1>12. ASSUME NEW t \in Threads,
              DY_ERR_CATCH(t) \/ DY_ERR_RETHROW(t) \/ DY_ERR_RETHROW_RETURN(t)
       PROVE  TypeInv'
  BY <1>12 DEF DY_ERR_CATCH, DY_ERR_RETHROW, DY_ERR_RETHROW_RETURN, TypeInv
<1> QED BY <1>1, <1>2, <1>3, <1>4, <1>5, <1>6, <1>7, <1>8, <1>9, <1>10, <1>11, <1>12 DEF Next

\* The error state refers to exceptions only, through every call and handler.
THEOREM TypesAreKept == Spec => []TypeInv
  BY TypesStart, TypesKept, PTL DEF Spec

\* What was current stays reachable as the cause of what is set after it, also where an
\* exception is set that is in use already.
THEOREM NoErrorIsMasked == Spec => NothingMasked
<1>1. ASSUME TypeInv, [Next]_vars
      PROVE  [\A t \in Threads :
                /\ state[t] # NULL /\ state'[t] # state[t] /\ then[t] = Idle
                => state'[t] # NULL /\ cause'[state'[t]] = state[t]]_vars
  <2> SUFFICES ASSUME NEW t \in Threads, state'[t] # state[t], then[t] = Idle
               PROVE  state'[t] # NULL /\ cause'[state'[t]] = state[t]
    OBVIOUS
  <2>1. ASSUME NEW u \in Threads, NEW e \in Exc,
               state' = [state EXCEPT ![u] = e], cause' = [cause EXCEPT ![e] = state[u]]
        PROVE  state'[t] # NULL /\ cause'[state'[t]] = state[t]
    <3>1. t = u /\ state'[t] = e /\ cause'[e] = state[u]
      BY <1>1, <2>1 DEF TypeInv
    <3> QED BY <3>1, ErrorAssumption
  <2>2. ASSUME NEW u \in Threads, Finish(u) PROVE FALSE
    BY <1>1, <2>2 DEF Finish, TypeInv
  <2>3. CASE UNCHANGED state
    BY <2>3
  <2>4. \/ \E u \in Threads, e \in Exc : /\ state' = [state EXCEPT ![u] = e]
                                         /\ cause' = [cause EXCEPT ![e] = state[u]]
        \/ \E u \in Threads : Finish(u)
        \/ UNCHANGED state
    BY <1>1, ErrorAssumption DEF Next, vars, Install, DyErr_Set, DyErr_SetObject, DyErr_SetMemoryError, SetExisting,
       DyErr_DiscardAndSetObject, Dy_Release, Dy_Retain, DyErr_Clear, Unwind, DY_ERR_CATCH,
       DY_ERR_RETHROW, DY_ERR_HANDLER_END, DY_ERR_RETHROW_RETURN
  <2> QED BY <2>1, <2>2, <2>3, <2>4
<1> QED BY <1>1, TypesAreKept, PTL DEF Spec, NothingMasked
-----------------------------------------------------------------------------
(* What is counted.                                                        *)

\* Of the counts, only what changes has to be looked at.
LEMMA CountsKept ==
  ASSUME IInv, TypeInv',
         \A e \in Exc : /\ refcnt'[e] - refcnt[e] = (References(e)' - References(e)) + (lost'[e] - lost[e])
                        /\ e \in live' <=> refcnt'[e] > 0
  PROVE  CountsAgree'
<1> SUFFICES ASSUME NEW e \in Exc
             PROVE  /\ refcnt'[e] = References(e)' + lost'[e]
                    /\ e \in live' <=> refcnt'[e] > 0
  BY DEF CountsAgree, References
<1>1. /\ refcnt[e] = References(e) + lost[e] /\ refcnt[e] \in Int /\ refcnt'[e] \in Int
      /\ lost[e] \in Nat /\ lost'[e] \in Nat /\ References(e) \in Nat
  BY Referenced DEF IInv, CountsAgree, TypeInv
<1>2. References(e)' \in Int
  <2>1. (TypeInv => References(e) \in Nat)'
    BY Referenced, PTL
  <2> QED BY <2>1
<1> QED BY <1>1, <1>2

\* No exception that keeps its life and its standing gets another referrer.
LEMMA ReferrersKept ==
  ASSUME OneReferrer,
         \A e \in live' \ again' : /\ e \in live \ again
                                   /\ Current(e)' \subseteq Current(e)
                                   /\ CauseOf(e)' \subseteq CauseOf(e)
  PROVE  OneReferrer'
<1> SUFFICES ASSUME NEW e \in live' \ again'
             PROVE  /\ \A t, u \in Current(e)' : t = u
                    /\ \A x, y \in CauseOf(e)' : x = y
                    /\ Current(e)' = {} \/ CauseOf(e)' = {}
  BY DEF OneReferrer, Current, CauseOf
<1>1. /\ \A t, u \in Current(e) : t = u
      /\ \A x, y \in CauseOf(e) : x = y
      /\ Current(e) = {} \/ CauseOf(e) = {}
  BY DEF OneReferrer
<1> QED BY <1>1

\* An exception is in use if something refers to it.
LEMMA InUseIs ==
  ASSUME NEW e \in Exc
  PROVE  InUse(e) <=> Current(e) # {} \/ CauseOf(e) # {}
BY ErrorAssumption DEF InUse, Current, CauseOf

\* Exception x becomes current, and its earlier cause is lost.
LEMMA InstallStep ==
  ASSUME IInv, TypeInv', NEW t \in Threads, NEW x \in Exc, Running(t),
         live' = live \cup {x},
         \A y \in Exc : lost'[y] = lost[y] + Bit(x \in live /\ cause[x] = y),
         Install(t, x, refcnt[x]),
         UNCHANGED <<held, todo, then>>
  PROVE  IInv'
<1> USE DEF Install
<1>1. /\ state \in [Threads -> Exc \cup {NULL}] /\ cause \in [Exc -> Exc \cup {NULL}]
      /\ refcnt \in [Exc -> Int] /\ live \subseteq Exc /\ lost \in [Exc -> Nat]
      /\ again \subseteq Exc
  BY DEF IInv, TypeInv
<1>2. /\ state'[t] = x /\ \A u \in Threads \ {t} : state'[u] = state[u]
      /\ cause'[x] = state[t] /\ \A y \in Exc \ {x} : cause'[y] = cause[y]
      /\ refcnt'[x] = refcnt[x] + 1 /\ \A y \in Exc \ {x} : refcnt'[y] = refcnt[y]
  BY <1>1
<1>3. then[t] = Idle /\ NULL \notin Exc
  BY ErrorAssumption DEF Running
<1>4. CountsAgree'
  <2> SUFFICES ASSUME NEW e \in Exc
               PROVE  /\ refcnt'[e] - refcnt[e] = (References(e)' - References(e)) + (lost'[e] - lost[e])
                      /\ e \in live' <=> refcnt'[e] > 0
    BY CountsKept
  <2>1. /\ refcnt[e] = References(e) + lost[e] /\ References(e) \in Nat /\ lost[e] \in Nat
        /\ e \in live <=> refcnt[e] > 0
    BY Referenced DEF IInv, CountsAgree, TypeInv
  <2>2. References(e)' = References(e)
             + Bit(state'[t] = e /\ then'[t] = Idle) - Bit(state[t] = e /\ then[t] = Idle)
             + Bit(x \in live' /\ cause'[x] = e)     - Bit(x \in live /\ cause[x] = e)
             + Bit(e \in held'[t])                   - Bit(e \in held[t])
             + Bit(todo'[t] = e)                     - Bit(todo[t] = e)
    <3>1. \A u \in Threads \ {t} : /\ state'[u] = state[u] /\ then'[u] = then[u]
                                   /\ todo'[u] = todo[u] /\ held'[u] = held[u]
      BY <1>2
    <3>2. \A y \in Exc \ {x} : cause'[y] = cause[y] /\ (y \in live' <=> y \in live)
      BY <1>2
    <3>3. live' \subseteq Exc
      BY <1>1
    <3> QED BY <3>1, <3>2, <3>3, ReferencesChange DEF IInv
  <2>3. lost'[e] = lost[e] + Bit(x \in live /\ cause[x] = e)
    OBVIOUS
  <2>4. References(e)' = References(e) + Bit(x = e) - Bit(x \in live /\ cause[x] = e)
    BY <1>2, <1>3, <2>1, <2>2 DEF Bit
  <2>5. refcnt'[e] = refcnt[e] + Bit(x = e)
    BY <1>1, <1>2 DEF Bit
  <2>6. refcnt'[e] - refcnt[e] = (References(e)' - References(e)) + (lost'[e] - lost[e])
    BY <2>1, <2>3, <2>4, <2>5 DEF Bit
  <2> QED BY <1>2, <2>1, <2>5, <2>6 DEF Bit
<1>5. OneReferrer'
  <2> SUFFICES ASSUME NEW e \in live' \ again'
               PROVE  /\ \A a, b \in Current(e)' : a = b
                      /\ \A a, b \in CauseOf(e)' : a = b
                      /\ Current(e)' = {} \/ CauseOf(e)' = {}
    BY DEF OneReferrer, Current, CauseOf
  <2>1. e \in Exc /\ e # NULL
    BY <1>1, <1>3
  <2>2. CASE e = x
    <3>1. ~InUse(x)
      BY <2>1, <2>2 DEF SetNow
    <3>2. Current(x) = {} /\ CauseOf(x) = {}
      BY <3>1, InUseIs
    <3>3. Current(x)' = {t}
      BY <1>2, <1>3, <3>2 DEF Current
    <3>4. state[t] # x
      BY <1>3, <3>2 DEF Current
    <3>5. CauseOf(x)' = {}
      BY <1>1, <1>2, <3>2, <3>4 DEF CauseOf
    <3> QED BY <2>2, <3>3, <3>5
  <2>3. CASE e # x
    <3>1. e \in live \ again
      BY <2>3 DEF SetNow
    <3>2. /\ \A a, b \in Current(e) : a = b
          /\ \A a, b \in CauseOf(e) : a = b
          /\ Current(e) = {} \/ CauseOf(e) = {}
      BY <3>1 DEF IInv, OneReferrer
    <3>3. Current(e)' = Current(e) \ {t}
      BY <1>2, <2>3 DEF Current
    <3>4. CauseOf(e)' \subseteq CauseOf(e) \cup {x}
      BY <1>1, <1>2 DEF CauseOf
    <3>5. CASE state[t] = e
      <4>1. t \in Current(e)
        BY <1>3, <3>5 DEF Current
      <4>2. CauseOf(e) = {} /\ Current(e)' = {}
        BY <3>2, <3>3, <4>1
      <4> QED BY <3>4, <4>2
    <3>6. CASE state[t] # e
      <4>1. x \notin CauseOf(e)'
        BY <1>2, <3>6 DEF CauseOf
      <4> QED BY <3>2, <3>3, <3>4, <4>1
    <3> QED BY <3>5, <3>6
  <2> QED BY <2>2, <2>3
<1>6. DeadHaveNoCause'
  BY <1>2 DEF IInv, DeadHaveNoCause
<1>7. CauseChainEnds'
  <2> SUFFICES ASSUME NEW S \in SUBSET (live' \ again'), S # {}
               PROVE  \E e \in S : cause'[e] \notin S
    BY DEF CauseChainEnds
  <2>1. \A R \in SUBSET (live \ again) : R # {} => \E e \in R : cause[e] \notin R
    BY DEF IInv, CauseChainEnds
  <2>2. S \ {x} \in SUBSET (live \ again)
    BY DEF SetNow
  <2>3. CASE x \notin S
    <3>1. S \in SUBSET (live \ again)
      BY <2>2, <2>3
    <3>2. PICK e \in S : cause[e] \notin S
      BY <2>1, <3>1
    <3> QED BY <1>1, <1>2, <2>3, <3>1, <3>2
  <2>4. CASE x \in S
    <3>1. ~InUse(x)
      BY <2>4 DEF SetNow
    <3>2. Current(x) = {} /\ CauseOf(x) = {}
      BY <3>1, InUseIs
    <3>3. CASE S = {x}
      <4>1. state[t] # x
        BY <1>3, <3>2 DEF Current
      <4> QED BY <1>2, <3>3, <4>1
    <3>4. CASE S \ {x} # {}
      <4>1. PICK e \in S \ {x} : cause[e] \notin S \ {x}
        BY <2>1, <2>2, <3>4
      <4>2. e \in live /\ cause'[e] = cause[e]
        BY <1>1, <1>2, <2>2, <4>1
      <4>3. cause[e] # x
        BY <3>2, <4>2 DEF CauseOf
      <4> QED BY <4>1, <4>2, <4>3
    <3> QED BY <2>4, <3>3, <3>4
  <2> QED BY <2>3, <2>4
<1> QED BY <1>4, <1>5, <1>6, <1>7 DEF IInv

\* Thread t gives up what is current (if anything), or a reference it holds: the
\* release is still to come.
LEMMA StartStep ==
  ASSUME IInv, TypeInv', NEW t \in Threads, Running(t), NEW e \in Exc \cup {NULL},
         UNCHANGED <<state, cause, refcnt, live, again, lost>>,
         todo' = [todo EXCEPT ![t] = e],
         \/ /\ state[t] = e /\ UNCHANGED held
            /\ \E n \in Exc \cup {NULL} : then' = [then EXCEPT ![t] = n]
         \/ /\ e \in held[t] /\ UNCHANGED then
            /\ held' = [held EXCEPT ![t] = @ \ {e}]
  PROVE  IInv'
<1>1. /\ todo \in [Threads -> Exc \cup {NULL}] /\ then \in [Threads -> Exc \cup {NULL, Idle}]
      /\ held \in [Threads -> SUBSET Exc] /\ live \subseteq Exc
  BY DEF IInv, TypeInv
<1>2. then[t] = Idle /\ todo[t] = NULL /\ NULL \notin Exc /\ Idle \notin Exc \cup {NULL}
  BY ErrorAssumption DEF Running
<1>3. /\ todo'[t] = e
      /\ \A u \in Threads \ {t} : todo'[u] = todo[u] /\ then'[u] = then[u] /\ held'[u] = held[u]
  BY <1>1
<1>4. \/ state[t] = e /\ held' = held /\ then'[t] \in Exc \cup {NULL}
      \/ e \in held[t] /\ then' = then /\ held'[t] = held[t] \ {e}
  BY <1>1
<1>5. CountsAgree'
  <2> SUFFICES ASSUME NEW y \in Exc
               PROVE  /\ refcnt'[y] - refcnt[y] = (References(y)' - References(y)) + (lost'[y] - lost[y])
                      /\ y \in live' <=> refcnt'[y] > 0
    BY CountsKept
  <2>1. /\ refcnt[y] = References(y) + lost[y] /\ References(y) \in Nat /\ lost[y] \in Nat
        /\ y \in live <=> refcnt[y] > 0
    BY Referenced DEF IInv, CountsAgree, TypeInv
  <2>2. References(y)' = References(y)
             + Bit(state'[t] = y /\ then'[t] = Idle) - Bit(state[t] = y /\ then[t] = Idle)
             + Bit(y \in live' /\ cause'[y] = y)     - Bit(y \in live /\ cause[y] = y)
             + Bit(y \in held'[t])                   - Bit(y \in held[t])
             + Bit(todo'[t] = y)                     - Bit(todo[t] = y)
    BY <1>1, <1>3, ReferencesChange DEF IInv
  <2>3. y # NULL
    BY <1>2
  <2>4. References(y)' = References(y)
    <3>1. CASE state[t] = e /\ held' = held /\ then'[t] \in Exc \cup {NULL}
      BY <1>2, <1>3, <2>1, <2>2, <2>3, <3>1 DEF Bit
    <3>2. CASE e \in held[t] /\ then' = then /\ held'[t] = held[t] \ {e}
      BY <1>2, <1>3, <2>1, <2>2, <2>3, <3>2 DEF Bit
    <3> QED BY <1>4, <3>1, <3>2
  <2> QED BY <2>1, <2>4
<1>6. OneReferrer'
  <2>1. \A u \in Threads : then'[u] = Idle => then[u] = Idle
    BY <1>2, <1>3
  <2>2. \A y : Current(y)' \subseteq Current(y) /\ CauseOf(y)' \subseteq CauseOf(y)
    BY <2>1 DEF Current, CauseOf
  <2> QED BY <2>2, ReferrersKept DEF IInv
<1>7. DeadHaveNoCause' /\ CauseChainEnds'
  BY DEF IInv, DeadHaveNoCause, CauseChainEnds
<1> QED BY <1>5, <1>6, <1>7 DEF IInv

\* What the code of a thread can name exists.
LEMMA KnownIsLive ==
  ASSUME IInv, NEW t \in Threads, Running(t), NEW e \in Known(t)
  PROVE  e \in live
<1>1. then[t] = Idle /\ e # NULL
  BY DEF Running, Known
<1>2. held[t] \cup ({state[t]} \ {NULL}) \subseteq live
  BY <1>1, ReferencesAreLive
<1> QED BY <1>1, <1>2, ReferencesAreLive DEF Known

LEMMA RetainStep ==
  ASSUME IInv, TypeInv', NEW t \in Threads, NEW e \in Exc, Dy_Retain(t, e)
  PROVE  IInv'
<1> USE DEF Dy_Retain
<1>1. /\ cause \in [Exc -> Exc \cup {NULL}] /\ refcnt \in [Exc -> Int]
      /\ held \in [Threads -> SUBSET Exc] /\ live \subseteq Exc
  BY DEF IInv, TypeInv
<1>2. /\ held'[t] = held[t] \cup {e} /\ \A u \in Threads \ {t} : held'[u] = held[u]
      /\ refcnt'[e] = refcnt[e] + 1 /\ \A y \in Exc \ {e} : refcnt'[y] = refcnt[y]
  BY <1>1
<1>3. e \in live
  BY KnownIsLive
<1>4. CountsAgree'
  <2> SUFFICES ASSUME NEW y \in Exc
               PROVE  /\ refcnt'[y] - refcnt[y] = (References(y)' - References(y)) + (lost'[y] - lost[y])
                      /\ y \in live' <=> refcnt'[y] > 0
    BY CountsKept
  <2>1. /\ refcnt[y] = References(y) + lost[y] /\ References(y) \in Nat /\ lost[y] \in Nat
        /\ y \in live <=> refcnt[y] > 0
    BY Referenced DEF IInv, CountsAgree, TypeInv
  <2>2. References(y)' = References(y)
             + Bit(state'[t] = y /\ then'[t] = Idle) - Bit(state[t] = y /\ then[t] = Idle)
             + Bit(e \in live' /\ cause'[e] = y)     - Bit(e \in live /\ cause[e] = y)
             + Bit(y \in held'[t])                   - Bit(y \in held[t])
             + Bit(todo'[t] = y)                     - Bit(todo[t] = y)
    BY <1>1, <1>2, ReferencesChange DEF IInv
  <2>3. References(y)' = References(y) + Bit(y = e)
    BY <1>2, <2>1, <2>2 DEF Bit
  <2> QED BY <1>2, <1>3, <2>1, <2>3 DEF Bit
<1>5. OneReferrer'
  BY ReferrersKept DEF IInv, Current, CauseOf
<1>6. DeadHaveNoCause' /\ CauseChainEnds'
  BY DEF IInv, DeadHaveNoCause, CauseChainEnds
<1> QED BY <1>4, <1>5, <1>6 DEF IInv

\* The walk down the causes: what a destroyed exception referred to is released
\* next, so its reference has only moved.
LEMMA UnwindStep ==
  ASSUME IInv, TypeInv', NEW t \in Threads, Unwind(t)
  PROVE  IInv'
<1> DEFINE e == todo[t]
<1>1. /\ cause \in [Exc -> Exc \cup {NULL}] /\ refcnt \in [Exc -> Int]
      /\ todo \in [Threads -> Exc \cup {NULL}] /\ live \subseteq Exc
  BY DEF IInv, TypeInv
<1>2. e \in Exc /\ e \in live /\ NULL \notin Exc
  BY <1>1, ErrorAssumption, ReferencesAreLive DEF Unwind
<1>3. /\ refcnt'[e] = refcnt[e] - 1 /\ \A y \in Exc \ {e} : refcnt'[y] = refcnt[y]
      /\ \A u \in Threads \ {t} : todo'[u] = todo[u]
      /\ \A y \in Exc \ {e} : cause'[y] = cause[y]
      /\ UNCHANGED <<state, held, then, lost>>
      /\ \/ /\ refcnt[e] = 1 /\ live' = live \ {e} /\ todo'[t] = cause[e]
            /\ cause'[e] = NULL /\ again' = again \ {e}
         \/ /\ refcnt[e] # 1 /\ live' = live /\ todo'[t] = NULL
            /\ cause' = cause /\ again' = again
  BY <1>1, <1>2 DEF Unwind
<1>4. CountsAgree'
  <2> SUFFICES ASSUME NEW y \in Exc
               PROVE  /\ refcnt'[y] - refcnt[y] = (References(y)' - References(y)) + (lost'[y] - lost[y])
                      /\ y \in live' <=> refcnt'[y] > 0
    BY CountsKept
  <2>1. /\ refcnt[y] = References(y) + lost[y] /\ References(y) \in Nat /\ lost[y] \in Nat
        /\ (y \in live <=> refcnt[y] > 0) /\ refcnt[e] \in Int /\ refcnt[e] > 0
    BY <1>1, <1>2, Referenced DEF IInv, CountsAgree, TypeInv
  <2>2. References(y)' = References(y)
             + Bit(state'[t] = y /\ then'[t] = Idle) - Bit(state[t] = y /\ then[t] = Idle)
             + Bit(e \in live' /\ cause'[e] = y)     - Bit(e \in live /\ cause[e] = y)
             + Bit(y \in held'[t])                   - Bit(y \in held[t])
             + Bit(todo'[t] = y)                     - Bit(todo[t] = y)
    <3>1. \A z \in Exc \ {e} : cause'[z] = cause[z] /\ (z \in live' <=> z \in live)
      BY <1>3
    <3>2. \A u \in Threads \ {t} : /\ state'[u] = state[u] /\ then'[u] = then[u]
                                   /\ todo'[u] = todo[u] /\ held'[u] = held[u]
      BY <1>3
    <3>3. live' \subseteq Exc
      BY <1>1, <1>3
    <3> HIDE DEF e
    <3> QED BY <1>2, <3>1, <3>2, <3>3, ReferencesChange DEF IInv
  <2>3. y # NULL
    BY <1>2
  <2>4. CASE refcnt[e] = 1
    <3>1. References(y)' = References(y) - Bit(y = e)
      BY <1>2, <1>3, <2>1, <2>2, <2>3, <2>4 DEF Bit
    <3> QED BY <1>2, <1>3, <2>1, <2>4, <3>1 DEF Bit
  <2>5. CASE refcnt[e] # 1
    <3>1. References(y)' = References(y) - Bit(y = e)
      BY <1>2, <1>3, <2>1, <2>2, <2>3, <2>5 DEF Bit
    <3> QED BY <1>2, <1>3, <2>1, <2>5, <3>1 DEF Bit
  <2> QED BY <2>4, <2>5
<1>5. live' \subseteq live /\ live' \ again' \subseteq live \ again
  BY <1>3
<1>6. \A x \in live' : x \in live /\ cause'[x] = cause[x]
  BY <1>1, <1>3
<1>7. OneReferrer'
  <2>1. \A y : Current(y)' \subseteq Current(y) /\ CauseOf(y)' \subseteq CauseOf(y)
    BY <1>3, <1>6 DEF Current, CauseOf
  <2> QED BY <1>5, <2>1, ReferrersKept DEF IInv
<1>8. DeadHaveNoCause'
  <2> SUFFICES ASSUME NEW x \in Exc \ live' PROVE cause'[x] = NULL
    BY DEF DeadHaveNoCause
  <2>1. cause[x] = NULL \/ x = e
    BY <1>3 DEF IInv, DeadHaveNoCause
  <2> QED BY <1>2, <1>3, <2>1
<1>9. CauseChainEnds'
  BY <1>5, <1>6 DEF IInv, CauseChainEnds
<1> QED BY <1>4, <1>7, <1>8, <1>9 DEF IInv

\* After the walk the exception becomes current, unless it has been freed.
LEMMA FinishStep ==
  ASSUME IInv, TypeInv', NEW t \in Threads, Finish(t), then[t] \in live \cup {NULL}
  PROVE  IInv'
<1> PICK n : n = then[t]
  OBVIOUS
<1>1. /\ state \in [Threads -> Exc \cup {NULL}] /\ then \in [Threads -> Exc \cup {NULL, Idle}]
      /\ refcnt \in [Exc -> Int] /\ live \subseteq Exc
  BY DEF IInv, TypeInv
<1>2. n \in Exc \cup {NULL} /\ n # Idle /\ NULL \notin Exc /\ Idle \notin Exc \cup {NULL}
  BY <1>1, ErrorAssumption DEF Finish
<1>3. /\ state'[t] = n /\ \A u \in Threads \ {t} : state'[u] = state[u]
      /\ then'[t] = Idle /\ \A u \in Threads \ {t} : then'[u] = then[u]
      /\ \A y \in Exc : refcnt'[y] = refcnt[y] + Bit(y = n)
      /\ SetNow(n)
      /\ UNCHANGED <<cause, live, held, todo, lost>>
  BY <1>1 DEF Finish, Bit
<1>4. CountsAgree'
  <2> SUFFICES ASSUME NEW y \in Exc
               PROVE  /\ refcnt'[y] - refcnt[y] = (References(y)' - References(y)) + (lost'[y] - lost[y])
                      /\ y \in live' <=> refcnt'[y] > 0
    BY CountsKept
  <2>1. /\ refcnt[y] = References(y) + lost[y] /\ References(y) \in Nat /\ lost[y] \in Nat
        /\ y \in live <=> refcnt[y] > 0
    BY Referenced DEF IInv, CountsAgree, TypeInv
  <2>2. References(y)' = References(y)
             + Bit(state'[t] = y /\ then'[t] = Idle) - Bit(state[t] = y /\ then[t] = Idle)
             + Bit(y \in live' /\ cause'[y] = y)     - Bit(y \in live /\ cause[y] = y)
             + Bit(y \in held'[t])                   - Bit(y \in held[t])
             + Bit(todo'[t] = y)                     - Bit(todo[t] = y)
    BY <1>1, <1>3, ReferencesChange DEF IInv
  <2>3. References(y)' = References(y) + Bit(y = n)
    BY <1>2, <1>3, <2>1, <2>2 DEF Bit
  <2>4. y = n => y \in live
    BY <1>2
  <2> QED BY <1>3, <2>1, <2>3, <2>4 DEF Bit
<1>5. OneReferrer'
  <2> SUFFICES ASSUME NEW e \in live' \ again'
               PROVE  /\ \A a, b \in Current(e)' : a = b
                      /\ \A a, b \in CauseOf(e)' : a = b
                      /\ Current(e)' = {} \/ CauseOf(e)' = {}
    BY DEF OneReferrer, Current, CauseOf
  <2>1. e \in Exc /\ CauseOf(e)' = CauseOf(e)
    BY <1>1, <1>3 DEF CauseOf
  <2>2. CASE e = n
    <3>1. Current(e) = {} /\ CauseOf(e) = {}
      BY <1>3, <2>1, <2>2, InUseIs DEF SetNow
    <3>2. Current(e)' \subseteq {t}
      BY <1>3, <3>1 DEF Current
    <3> QED BY <2>1, <3>1, <3>2
  <2>3. CASE e # n
    <3>1. e \in live \ again
      BY <1>3, <2>3 DEF SetNow
    <3>2. Current(e)' \subseteq Current(e)
      BY <1>3, <2>3 DEF Current
    <3> QED BY <2>1, <3>1, <3>2 DEF IInv, OneReferrer
  <2> QED BY <2>2, <2>3
<1>6. DeadHaveNoCause'
  BY <1>3 DEF IInv, DeadHaveNoCause
<1>7. CauseChainEnds'
  <2> SUFFICES ASSUME NEW S \in SUBSET (live' \ again'), S # {}
               PROVE  \E e \in S : cause[e] \notin S
    BY <1>3 DEF CauseChainEnds
  <2>1. \A R \in SUBSET (live \ again) : R # {} => \E e \in R : cause[e] \notin R
    BY DEF IInv, CauseChainEnds
  <2>2. S \ {n} \in SUBSET (live \ again)
    BY <1>3 DEF SetNow
  <2>3. CASE n \notin S
    <3>1. S \in SUBSET (live \ again)
      BY <2>2, <2>3
    <3> QED BY <2>1, <3>1
  <2>4. CASE n \in S
    <3>1. n \in Exc /\ n \in live /\ ~InUse(n)
      BY <1>1, <1>3, <2>4 DEF SetNow
    <3>2. \A x \in live : cause[x] # n
      BY <3>1, InUseIs DEF CauseOf
    <3>3. CASE S = {n}
      BY <3>1, <3>2, <3>3
    <3>4. CASE S \ {n} # {}
      <4>1. PICK e \in S \ {n} : cause[e] \notin S \ {n}
        BY <2>1, <2>2, <3>4
      <4> QED BY <2>2, <3>2, <4>1
    <3> QED BY <2>4, <3>3, <3>4
  <2> QED BY <2>3, <2>4
<1> QED BY <1>4, <1>5, <1>6, <1>7 DEF IInv

LEMMA ErrorsStart == Init => IInv
<1> SUFFICES ASSUME Init PROVE IInv
  OBVIOUS
<1>1. TypeInv
  BY TypesStart
<1>2. MemoryError \in Exc /\ NULL \notin Exc /\ Idle \notin Exc \cup {NULL}
  BY ErrorAssumption
<1>3. \A e \in Exc : Current(e) = {} /\ CauseOf(e) = {} /\ HeldBy(e) = {} /\ ToRelease(e) = {}
  BY <1>2 DEF Init, Current, CauseOf, HeldBy, ToRelease
<1>4. CountsAgree
  <2> SUFFICES ASSUME NEW e \in Exc
               PROVE  refcnt[e] = References(e) + lost[e] /\ (e \in live <=> refcnt[e] > 0)
    BY DEF CountsAgree
  <2>1. References(e) = Bit(e = MemoryError)
    BY <1>1, <1>3, ReferenceSets, FS_EmptySet DEF Bit
  <2> QED BY <1>2, <2>1 DEF Init, Bit
<1>5. OneReferrer
  BY <1>1, <1>3 DEF OneReferrer, TypeInv
<1>6. DeadHaveNoCause /\ CauseChainEnds
  BY <1>2 DEF Init, DeadHaveNoCause, CauseChainEnds
<1> QED BY <1>1, <1>4, <1>5, <1>6 DEF IInv

\* The handler macros, and a call that fails, change no reference.
LEMMA NoReferenceStep ==
  ASSUME IInv, TypeInv', UNCHANGED <<state, cause, refcnt, live, held, todo, then, again, lost>>
  PROVE  IInv'
<1>1. CountsAgree'
  BY DEF IInv, CountsAgree, References
<1>2. OneReferrer'
  BY ReferrersKept DEF IInv, Current, CauseOf
<1> QED BY <1>1, <1>2 DEF IInv, DeadHaveNoCause, CauseChainEnds

\* DyErr_Clear where there is an exception, and where there is none.
LEMMA ClearStep ==
  ASSUME IInv, TypeInv', NEW t \in Threads, Running(t), Clear(t),
         UNCHANGED <<state, cause, refcnt, live, held, again, lost>>
  PROVE  IInv'
<1>1. CASE state[t] # NULL
  <2>1. state[t] \in Exc
    BY <1>1 DEF IInv, TypeInv
  <2> QED BY <1>1, <2>1, StartStep DEF Clear
<1>2. CASE state[t] = NULL
  BY <1>2, NoReferenceStep DEF Clear
<1> QED BY <1>1, <1>2

\* An exception that exists is set.
LEMMA SetExistingStep ==
  ASSUME IInv, TypeInv', NEW t \in Threads, NEW e \in live, Running(t), SetExisting(t, e)
  PROVE  IInv'
<1>1. e \in Exc /\ cause[e] \in Exc \cup {NULL} /\ lost \in [Exc -> Nat] /\ NULL \notin Exc
  BY ErrorAssumption DEF IInv, TypeInv
<1>2. \A y \in Exc : lost'[y] = lost[y] + Bit(e \in live /\ cause[e] = y)
  <2>1. CASE cause[e] = NULL
    BY <1>1, <2>1 DEF SetExisting, Bit
  <2>2. CASE cause[e] # NULL
    BY <1>1, <2>2 DEF SetExisting, Bit
  <2> QED BY <2>1, <2>2
<1>3. live' = live \cup {e}
  BY DEF SetExisting
<1> QED BY <1>1, <1>2, <1>3, InstallStep DEF SetExisting

\* A new exception is set.
LEMMA SetNewStep ==
  ASSUME IInv, TypeInv', NEW t \in Threads, NEW e \in Exc, DyErr_Set(t, e)
  PROVE  IInv'
<1>1. refcnt[e] = 0
  <2>1. /\ References(e) \in Nat /\ lost[e] \in Nat /\ refcnt[e] = References(e) + lost[e]
        /\ e \in live <=> refcnt[e] > 0
    BY Referenced DEF IInv, CountsAgree, TypeInv
  <2> QED BY <2>1 DEF DyErr_Set
<1>2. \A y \in Exc : lost'[y] = lost[y] + Bit(e \in live /\ cause[e] = y)
  BY DEF DyErr_Set, IInv, TypeInv, Bit
<1>3. Install(t, e, refcnt[e])
  BY <1>1 DEF DyErr_Set
<1> QED BY <1>2, <1>3, InstallStep DEF DyErr_Set

LEMMA ErrorsKept ==
  ASSUME IInv, [Next]_vars
  PROVE  IInv'
<1>1. TypeInv'
  BY TypesKept DEF IInv
<1>2. state \in [Threads -> Exc \cup {NULL}]
  BY DEF IInv, TypeInv
<1>3. CASE UNCHANGED vars
  BY <1>1, <1>3, NoReferenceStep DEF vars
<1>4. ASSUME NEW t \in Threads, NEW e \in Exc, DyErr_Set(t, e) PROVE IInv'
  BY <1>1, <1>4, SetNewStep
<1>5. ASSUME NEW t \in Threads, NEW e \in Exc, DyErr_SetObject(t, e) PROVE IInv'
  BY <1>1, <1>5, KnownIsLive, SetExistingStep DEF DyErr_SetObject
<1>6. ASSUME NEW t \in Threads, DyErr_SetMemoryError(t) PROVE IInv'
  BY <1>1, <1>6, ReferencesAreLive, SetExistingStep DEF DyErr_SetMemoryError
<1>7. ASSUME NEW t \in Threads, NEW e \in Exc, DyErr_DiscardAndSetObject(t, e) PROVE IInv'
  <2>1. state[t] \in Exc \cup {NULL}
    BY <1>2
  <2> QED BY <1>1, <1>7, <2>1, StartStep DEF DyErr_DiscardAndSetObject
<1>8. ASSUME NEW t \in Threads, NEW e \in Exc, Dy_Release(t, e) PROVE IInv'
  BY <1>1, <1>8, StartStep DEF Dy_Release
<1>9. ASSUME NEW t \in Threads, NEW e \in Exc, Dy_Retain(t, e) PROVE IInv'
  BY <1>1, <1>9, RetainStep
<1>10. ASSUME NEW t \in Threads, DyErr_Clear(t) PROVE IInv'
  BY <1>1, <1>10, ClearStep DEF DyErr_Clear
<1>11. ASSUME NEW t \in Threads, Unwind(t) PROVE IInv'
  BY <1>1, <1>11, UnwindStep
<1>12. ASSUME NEW t \in Threads, Finish(t) PROVE IInv'
  <2>1. CASE then[t] \in live \cup {NULL}
    BY <1>1, <1>12, <2>1, FinishStep
  <2>2. CASE then[t] \notin live \cup {NULL}
    BY <1>1, <1>12, <2>2, NoReferenceStep DEF Finish
  <2> QED BY <2>1, <2>2
<1>13. ASSUME NEW t \in Threads, DY_ERR_HANDLER_END(t) PROVE IInv'
  <2>1. CASE Inner(t).handled
    BY <1>1, <1>13, <2>1, ClearStep DEF DY_ERR_HANDLER_END, InHandler
  <2>2. CASE ~Inner(t).handled
    BY <1>1, <1>13, <2>2, NoReferenceStep DEF DY_ERR_HANDLER_END
  <2> QED BY <2>1, <2>2
<1>14. ASSUME NEW t \in Threads,
              DY_ERR_CATCH(t) \/ DY_ERR_RETHROW(t) \/ DY_ERR_RETHROW_RETURN(t)
       PROVE  IInv'
  BY <1>1, <1>14, NoReferenceStep DEF DY_ERR_CATCH, DY_ERR_RETHROW, DY_ERR_RETHROW_RETURN
<1> QED BY <1>3, <1>4, <1>5, <1>6, <1>7, <1>8, <1>9, <1>10, <1>11, <1>12, <1>13, <1>14 DEF Next

LEMMA Invariance == Spec => []IInv
  BY ErrorsStart, ErrorsKept, PTL DEF Spec

\* Every exception of every thread is counted exactly, through sets, discards and clears in
\* any order, also of exceptions that are in use, but for the causes such sets overwrite.
THEOREM ErrorsAreCounted == Spec => []CountsAgree
<1>1. IInv => CountsAgree
  BY DEF IInv
<1> QED BY <1>1, Invariance, PTL

\* Following causes from an exception comes to an end, or to an exception that was set while
\* it was in use.
THEOREM CausesEnd == Spec => []CauseChainEnds
<1>1. IInv => CauseChainEnds
  BY DEF IInv
<1> QED BY <1>1, Invariance, PTL
-----------------------------------------------------------------------------
(* The error states of threads.                                            *)

\* e is in every set that has t's exception and, with an exception, its cause.
InChain(t, e) ==
    \A S \in SUBSET (Exc \cup {NULL}) :
        state[t] \in S /\ (\A x \in S \ {NULL} : cause[x] \in S) => e \in S

\* Induction: a set of naturals without a first element is empty.
LEMMA NoneFirst ==
  ASSUME NEW S \in SUBSET Nat, \A n \in S : \E m \in S : m < n
  PROVE  S = {}
<1>1. ASSUME S # {} PROVE FALSE
  <2>1. PICK x \in S : \A y \in S : ~(<<y, x>> \in OpToRel(<, Nat))
    BY <1>1, WFMin, NatLessThanWellFounded
  <2>2. \A y \in S : ~(y < x)
    BY <2>1 DEF OpToRel
  <2> QED BY <2>2
<1> QED BY <1>1

\* What is reached from S with one cause more.
Wider(S) == S \cup {cause[x] : x \in S \ {NULL}}

IsFrom(f, t, n) == f = [i \in 0..n |-> IF i = 0 THEN {state[t]} ELSE Wider(f[i - 1])]

LEMMA FromExists ==
  ASSUME NEW t
  PROVE  \A n \in Nat : \E f : IsFrom(f, t, n)
<1> DEFINE S == {n \in Nat : ~(\E f : IsFrom(f, t, n))}
<1>1. ASSUME NEW n \in S PROVE \E m \in S : m < n
  <2>1. n # 0
    <3>1. IsFrom([i \in 0..0 |-> {state[t]}], t, 0)
      BY DEF IsFrom
    <3> QED BY <3>1
  <2> SUFFICES ASSUME n - 1 \notin S PROVE FALSE
    BY <2>1
  <2>2. PICK f : IsFrom(f, t, n - 1)
    BY <2>1
  <2> DEFINE g == [i \in 0..n |-> IF i = 0 THEN {state[t]} ELSE Wider(f[i - 1])]
  <2>3. ASSUME NEW i \in 1..n PROVE g[i - 1] = f[i - 1]
    <3>1. i - 1 \in 0..n /\ i - 1 \in 0..(n - 1)
      OBVIOUS
    <3>2. f[i - 1] = IF i - 1 = 0 THEN {state[t]} ELSE Wider(f[(i - 1) - 1])
      BY <2>2, <3>1 DEF IsFrom
    <3> QED BY <3>1, <3>2
  <2>4. g = [i \in 0..n |-> IF i = 0 THEN {state[t]} ELSE Wider(g[i - 1])]
    <3>1. ASSUME NEW i \in 0..n PROVE g[i] = IF i = 0 THEN {state[t]} ELSE Wider(g[i - 1])
      <4>1. g[i] = IF i = 0 THEN {state[t]} ELSE Wider(f[i - 1])
        OBVIOUS
      <4> HIDE DEF g
      <4>2. CASE i = 0
        BY <4>1, <4>2
      <4>3. CASE i # 0
        <5>1. i \in 1..n
          BY <4>3
        <5> QED BY <2>3, <4>1, <4>3, <5>1
      <4> QED BY <4>2, <4>3
    <3> HIDE DEF g
    <3>2. g = [i \in 0..n |-> g[i]]
      BY DEF g
    <3> QED BY <3>1, <3>2
  <2> QED BY <2>4 DEF IsFrom
<1>2. S = {}
  <2> HIDE DEF S
  <2>1. S \in SUBSET Nat
    BY DEF S
  <2> QED BY <1>1, <2>1, NoneFirst
<1> QED BY <1>2

\* Every step that adds an exception has one fewer left: the last adds none.
LEMMA FromCloses ==
  ASSUME TypeInv, NEW t \in Threads, NEW n \in Nat, NEW f, IsFrom(f, t, n),
         n = Cardinality(Exc)
  PROVE  f[n] \in SUBSET (Exc \cup {NULL}) /\ state[t] \in f[n] /\ Wider(f[n]) = f[n]
<1>0. /\ state[t] \in Exc \cup {NULL} /\ cause \in [Exc -> Exc \cup {NULL}]
      /\ IsFiniteSet(Exc) /\ NULL \notin Exc
  BY ErrorAssumption DEF TypeInv
<1> DEFINE Good(S, i) == /\ S \in SUBSET (Exc \cup {NULL}) /\ state[t] \in S
                         /\ Wider(S) = S \/ Cardinality(S \ {NULL}) >= i + 1
           Bad == {i \in 0..n : ~Good(f[i], i)}
<1>1. f[0] = {state[t]} /\ \A i \in 1..n : f[i] = Wider(f[i - 1])
  <2>1. \A i \in 0..n : f[i] = IF i = 0 THEN {state[t]} ELSE Wider(f[i - 1])
    BY DEF IsFrom
  <2> QED BY <2>1
<1>2. Good({state[t]}, 0)
  <2>1. CASE state[t] = NULL
    BY <2>1 DEF Wider
  <2>2. CASE state[t] # NULL
    <3>1. {state[t]} \ {NULL} = {state[t]}
      BY <2>2
    <3>2. Cardinality({state[t]}) = 1
      BY FS_Singleton
    <3>3. Cardinality({state[t]} \ {NULL}) >= 0 + 1
      BY <3>1, <3>2
    <3> QED BY <1>0, <3>3
  <2> QED BY <2>1, <2>2
<1>3. ASSUME NEW S, NEW i \in Nat, Good(S, i) PROVE Good(Wider(S), i + 1)
  <2>1. Wider(S) \in SUBSET (Exc \cup {NULL}) /\ state[t] \in Wider(S)
    BY <1>0, <1>3 DEF Wider
  <2>2. CASE Wider(S) = S
    BY <1>3, <2>2
  <2>3. CASE Wider(S) # S /\ \A x \in S \ {NULL} : cause[x] \in S \cup {NULL}
    <3>1. Wider(Wider(S)) = Wider(S)
      BY <2>3 DEF Wider
    <3> QED BY <2>1, <3>1
  <2>4. CASE Wider(S) # S /\ \E x \in S \ {NULL} : cause[x] \notin S \cup {NULL}
    <3>1. PICK x \in S \ {NULL} : cause[x] \notin S \cup {NULL}
      BY <2>4
    <3> PICK c : c = cause[x]
      OBVIOUS
    <3>2. IsFiniteSet(S \ {NULL}) /\ IsFiniteSet(Wider(S) \ {NULL})
      <4>1. S \ {NULL} \in SUBSET Exc /\ Wider(S) \ {NULL} \in SUBSET Exc
        BY <1>3, <2>1
      <4> QED BY <1>0, <4>1, FS_Subset
    <3>3. Cardinality((S \ {NULL}) \cup {c}) = Cardinality(S \ {NULL}) + 1
      BY <3>1, <3>2, FS_AddElement
    <3>4. (S \ {NULL}) \cup {c} \in SUBSET (Wider(S) \ {NULL})
      BY <3>1 DEF Wider
    <3>5. Cardinality((S \ {NULL}) \cup {c}) <= Cardinality(Wider(S) \ {NULL})
      BY <3>2, <3>4, FS_Subset
    <3>6. Cardinality(S \ {NULL}) \in Nat /\ Cardinality(Wider(S) \ {NULL}) \in Nat
      BY <3>2, FS_CardinalityType
    <3>7. Cardinality(S \ {NULL}) >= i + 1
      BY <1>3, <2>4
    <3>8. Cardinality(Wider(S) \ {NULL}) >= (i + 1) + 1
      BY <3>3, <3>5, <3>6, <3>7
    <3> QED BY <2>1, <3>8
  <2> QED BY <2>2, <2>3, <2>4
<1>4. Bad = {}
  <2>1. ASSUME NEW i \in Bad PROVE \E j \in Bad : j < i
    <3>1. i # 0
      BY <1>1, <1>2
    <3>2. i \in 1..n /\ i - 1 \in 0..n /\ i - 1 < i /\ i - 1 \in Nat /\ (i - 1) + 1 = i
      BY <3>1
    <3>3. ASSUME Good(f[i - 1], i - 1) PROVE FALSE
      <4>1. Good(Wider(f[i - 1]), (i - 1) + 1)
        BY <1>3, <3>2, <3>3
      <4> HIDE DEF Good
      <4> QED BY <1>1, <3>2, <4>1
    <3> HIDE DEF Good
    <3> QED BY <3>2, <3>3
  <2> HIDE DEF Good
  <2>2. Bad \in SUBSET Nat
    OBVIOUS
  <2> HIDE DEF Bad
  <2> QED BY <2>1, <2>2, NoneFirst
<1>5. Good(f[n], n)
  <2> HIDE DEF Good
  <2> QED BY <1>4
<1>6. ~(Cardinality(f[n] \ {NULL}) >= n + 1)
  <2>1. f[n] \ {NULL} \in SUBSET Exc
    BY <1>5
  <2>2. Cardinality(f[n] \ {NULL}) <= n /\ Cardinality(f[n] \ {NULL}) \in Nat
    BY <1>0, <2>1, FS_Subset, FS_CardinalityType
  <2> QED BY <2>2
<1> QED BY <1>5, <1>6

\* Chain(t) is what InChain says: following causes as often as there are
\* exceptions comes to the end.
LEMMA ChainIs ==
  ASSUME TypeInv, NEW t \in Threads, then[t] = Idle
  PROVE  Chain(t) = {e \in Exc : InChain(t, e)}
<1> PICK n : n = Cardinality(Exc)
  OBVIOUS
<1>1. n \in Nat /\ NULL \notin Exc
  BY ErrorAssumption, FS_CardinalityType
<1> DEFINE from == CHOOSE f : f = [i \in 0..n |-> IF i = 0 THEN {state[t]}
                                 ELSE f[i - 1] \cup {cause[x] : x \in f[i - 1] \ {NULL}}]
<1>2. Chain(t) = from[n] \ {NULL}
  BY DEF Chain
<1>3. IsFrom(from, t, n)
  <2>1. PICK g : IsFrom(g, t, n)
    BY <1>1, FromExists
  <2>2. g = [i \in 0..n |-> IF i = 0 THEN {state[t]}
                            ELSE g[i - 1] \cup {cause[x] : x \in g[i - 1] \ {NULL}}]
    BY <2>1 DEF IsFrom, Wider
  <2>3. from = [i \in 0..n |-> IF i = 0 THEN {state[t]}
                               ELSE from[i - 1] \cup {cause[x] : x \in from[i - 1] \ {NULL}}]
    BY <2>2
  <2> HIDE DEF from
  <2> QED BY <2>3 DEF IsFrom, Wider
<1> HIDE DEF from
<1>4. from[n] \in SUBSET (Exc \cup {NULL}) /\ state[t] \in from[n] /\ Wider(from[n]) = from[n]
  BY <1>1, <1>3, FromCloses
<1>5. \A x \in from[n] \ {NULL} : cause[x] \in from[n]
  BY <1>4 DEF Wider
<1>6. ASSUME NEW S \in SUBSET (Exc \cup {NULL}), state[t] \in S,
             \A x \in S \ {NULL} : cause[x] \in S
      PROVE  from[n] \subseteq S
  <2> DEFINE Out == {i \in 0..n : ~(from[i] \subseteq S)}
  <2>1. from[0] = {state[t]} /\ \A i \in 1..n : from[i] = Wider(from[i - 1])
    <3>1. \A i \in 0..n : from[i] = IF i = 0 THEN {state[t]} ELSE Wider(from[i - 1])
      BY <1>3 DEF IsFrom
    <3> QED BY <1>1, <3>1
  <2>2. ASSUME NEW i \in Out PROVE \E j \in Out : j < i
    <3>1. i # 0
      BY <1>6, <2>1
    <3>2. i \in 1..n /\ i - 1 \in 0..n /\ i - 1 < i
      BY <1>1, <3>1
    <3>3. ASSUME from[i - 1] \subseteq S PROVE FALSE
      <4>1. Wider(from[i - 1]) \subseteq S
        BY <1>6, <3>3 DEF Wider
      <4> QED BY <2>1, <3>2, <4>1
    <3> QED BY <3>2, <3>3
  <2>3. Out = {}
    <3>1. Out \in SUBSET Nat
      BY <1>1
    <3> HIDE DEF Out
    <3> QED BY <2>2, <3>1, NoneFirst
  <2> QED BY <1>1, <2>3
<1>7. \A e \in from[n] : InChain(t, e)
  BY <1>6 DEF InChain
<1>8. \A e : InChain(t, e) => e \in from[n]
  BY <1>4, <1>5 DEF InChain
<1> QED BY <1>1, <1>2, <1>4, <1>7, <1>8

\* Every exception of an error state exists; it is the current one or the cause
\* of another.
LEMMA ChainLinks ==
  ASSUME IInv, NEW t \in Threads, then[t] = Idle, NEW e, InChain(t, e), e # NULL
  PROVE  /\ e \in live
         /\ e = state[t] \/ \E x \in live : x # NULL /\ InChain(t, x) /\ cause[x] = e
<1> DEFINE Good(y) == /\ y \in live /\ InChain(t, y)
                      /\ y = state[t] \/ \E x \in live : x # NULL /\ InChain(t, x) /\ cause[x] = y
           S == {y \in Exc : Good(y)} \cup {NULL}
<1>1. live \subseteq Exc /\ state[t] \in Exc \cup {NULL} /\ NULL \notin Exc
  BY ErrorAssumption DEF IInv, TypeInv
<1>2. state[t] \in S
  <2>1. InChain(t, state[t])
    BY DEF InChain
  <2> QED BY <1>1, <2>1, ReferencesAreLive
<1>3. ASSUME NEW x \in S \ {NULL} PROVE cause[x] \in S
  <2>1. x \in live /\ InChain(t, x) /\ x # NULL
    BY <1>3
  <2>2. InChain(t, cause[x])
    BY <2>1 DEF InChain
  <2>3. cause[x] = NULL \/ cause[x] \in live
    BY <2>1, ReferencesAreLive
  <2> QED BY <1>1, <2>1, <2>2, <2>3
<1>4. e \in S
  <2>1. S \in SUBSET (Exc \cup {NULL})
    OBVIOUS
  <2> HIDE DEF S
  <2> QED BY <1>2, <1>3, <2>1 DEF InChain
<1> QED BY <1>4

\* exceptions.h:39 says that the error state is stored per thread: the error states of two
\* threads have no exception in common, whatever the threads set, discard and hand over,
\* unless one of those in common was set while it was in use, as MemoryError may be.
THEOREM ErrorsArePerThread == Spec => []ErrorStatesApart
<1>1. IInv => ErrorStatesApart
  <2> SUFFICES ASSUME IInv, NEW t \in Threads, NEW u \in Threads, t # u,
                      Chain(t) \cap Chain(u) # {}, Chain(t) \cap Chain(u) \cap again = {}
               PROVE  FALSE
    BY DEF ErrorStatesApart
  <2>1. then[t] = Idle /\ then[u] = Idle
    BY DEF Chain
  <2>2. TypeInv /\ NULL \notin Exc /\ state[t] \in Exc \cup {NULL} /\ cause \in [Exc -> Exc \cup {NULL}]
    BY ErrorAssumption DEF IInv, TypeInv
  <2>3. Chain(t) = {e \in Exc : InChain(t, e)} /\ Chain(u) = {e \in Exc : InChain(u, e)}
    BY <2>1, <2>2, ChainIs
  <2> DEFINE D == Chain(t) \cap Chain(u)
  <2>4. ASSUME NEW e \in D
        PROVE  /\ e \in live \ again /\ e # NULL
               /\ e = state[t] \/ \E x \in live : x # NULL /\ InChain(t, x) /\ cause[x] = e
               /\ e = state[u] \/ \E x \in live : x # NULL /\ InChain(u, x) /\ cause[x] = e
    <3>1. InChain(t, e) /\ InChain(u, e) /\ e # NULL /\ e \notin again
      BY <2>2, <2>3
    <3> QED BY <2>1, <3>1, ChainLinks
  <2>5. ASSUME NEW e \in D
        PROVE  e # state[t] /\ \A x \in live : cause[x] = e => x \in D
    <3> HIDE DEF D
    <3>1. /\ \A a, b \in Current(e) : a = b
          /\ \A a, b \in CauseOf(e) : a = b
          /\ Current(e) = {} \/ CauseOf(e) = {}
      BY <2>4 DEF IInv, OneReferrer
    <3>2. (e = state[t] => t \in Current(e)) /\ (e = state[u] => u \in Current(e))
      BY <2>1 DEF Current
    <3>3. e # state[t] /\ e # state[u]
      <4>1. ~(e = state[t] /\ e = state[u])
        BY <3>1, <3>2
      <4>2. ~(e = state[t] /\ CauseOf(e) # {}) /\ ~(e = state[u] /\ CauseOf(e) # {})
        BY <3>1, <3>2
      <4> QED BY <2>4, <4>1, <4>2 DEF CauseOf
    <3>4. PICK x \in live : InChain(t, x) /\ cause[x] = e
      BY <2>4, <3>3
    <3>5. PICK y \in live : InChain(u, y) /\ cause[y] = e
      BY <2>4, <3>3
    <3>6. x = y
      BY <3>1, <3>4, <3>5 DEF CauseOf
    <3>7. x \in D
      BY <2>3, <3>4, <3>5, <3>6 DEF D, IInv, TypeInv
    <3>8. \A z \in live : cause[z] = e => z = x
      BY <3>1, <3>4 DEF CauseOf
    <3> QED BY <3>3, <3>7, <3>8
  <2> DEFINE S == (Chain(t) \ D) \cup {NULL}
  <2>6. state[t] \in S
    <3>1. InChain(t, state[t])
      BY DEF InChain
    <3> QED BY <2>2, <2>3, <2>5, <3>1
  <2>7. ASSUME NEW x \in S \ {NULL} PROVE cause[x] \in S
    <3>1. x \in Exc /\ x # NULL /\ InChain(t, x) /\ x \notin D
      BY <2>2, <2>3
    <3>2. x \in live
      BY <2>1, <3>1, ChainLinks
    <3>3. InChain(t, cause[x])
      BY <3>1 DEF InChain
    <3>4. cause[x] \notin D
      BY <2>5, <3>1, <3>2
    <3> QED BY <2>2, <2>3, <3>1, <3>3, <3>4
  <2>8. ASSUME NEW e \in D PROVE FALSE
    <3>1. InChain(t, e) /\ e # NULL
      BY <2>2, <2>3
    <3>2. S \in SUBSET (Exc \cup {NULL})
      BY <2>3
    <3>3. e \in S
      <4> HIDE DEF S
      <4> QED BY <2>6, <2>7, <3>1, <3>2 DEF InChain
    <3> QED BY <3>1, <3>3
  <2> QED BY <2>8
<1> QED BY <1>1, Invariance, PTL
-----------------------------------------------------------------------------
(* What handlers have caught.                                              *)

\* e is reached by causes from t's exception, or from one to which a reference
\* was lost.
IsKept(t, e) ==
    \A S \in SUBSET (Exc \cup {NULL}) :
        /\ state[t] \in S /\ {x \in Exc : lost[x] > 0} \subseteq S
        /\ \A x \in S \ {NULL} : cause[x] \in S
        => e \in S

\* An exception in t's error state was set while in use.
IsMarked(t) == \E a \in again : InChain(t, a)

HandlerType == [exc : Exc \cup {NULL}, handled : BOOLEAN]

Caught(t) == {handlers[t][i].exc : i \in DOMAIN handlers[t]} \ {NULL}

\* What is caught stays, and nothing is while the error of a thread is replaced.
Stays(t, e) == then[t] = Idle /\ IsKept(t, e) /\ (InChain(t, e) \/ IsMarked(t))

CaughtInv == /\ handlers \in [Threads -> Seq(HandlerType)]
             /\ \A t \in Threads : \A e \in Caught(t) : Stays(t, e)

LEMMA ForgetHandlers ==
  ASSUME NEW hs \in Seq(HandlerType)
  PROVE  /\ Forgotten(hs) \in Seq(HandlerType)
         /\ \A i \in DOMAIN Forgotten(hs) : Forgotten(hs)[i].exc = NULL
<1>1. Len(hs) \in Nat /\ DOMAIN hs = 1..Len(hs)
  BY LenProperties
<1> PICK n \in Nat : n = Len(hs)
  BY <1>1
<1>2. ASSUME NEW i \in 1..n
      PROVE  [hs[i] EXCEPT !.exc = NULL] \in HandlerType /\ [hs[i] EXCEPT !.exc = NULL].exc = NULL
  <2>1. hs[i] \in HandlerType
    BY ElementOfSeq
  <2> QED BY <2>1 DEF HandlerType
<1>3. Forgotten(hs) = [i \in 1..n |-> [hs[i] EXCEPT !.exc = NULL]]
  BY <1>1 DEF Forgotten
<1>4. Forgotten(hs) \in Seq(HandlerType) /\ DOMAIN Forgotten(hs) = 1..n
  BY <1>2, <1>3, IsASeq
<1> QED BY <1>2, <1>3, <1>4

LEMMA OuterHandlers ==
  ASSUME CaughtInv, NEW t \in Threads, handlers[t] # <<>>
  PROVE  /\ Outer(t) \in Seq(HandlerType)
         /\ \A i \in DOMAIN Outer(t) : i \in DOMAIN handlers[t] /\ Outer(t)[i] = handlers[t][i]
<1>1. handlers[t] \in Seq(HandlerType) /\ Len(handlers[t]) \in Nat /\ Len(handlers[t]) # 0
      /\ DOMAIN handlers[t] = 1..Len(handlers[t])
  BY LenProperties, EmptySeq DEF CaughtInv
<1> QED BY <1>1 DEF Outer

\* What is kept exists, and more than a release that is to come refers to it.
LEMMA KeptIsReferenced ==
  ASSUME IInv, NEW t \in Threads, then[t] = Idle, NEW e, IsKept(t, e), e # NULL
  PROVE  e \in live /\ (Current(e) # {} \/ CauseOf(e) # {} \/ lost[e] > 0)
<1> DEFINE S == {y \in live : Current(y) # {} \/ CauseOf(y) # {} \/ lost[y] > 0} \cup {NULL}
<1>1. live \subseteq Exc /\ state[t] \in Exc \cup {NULL} /\ NULL \notin Exc
  BY ErrorAssumption DEF IInv, TypeInv
<1>2. state[t] \in S
  <2>1. t \in Current(state[t])
    BY DEF Current
  <2> QED BY <1>1, <2>1, ReferencesAreLive
<1>3. {x \in Exc : lost[x] > 0} \subseteq S
  BY ReferencesAreLive
<1>4. ASSUME NEW x \in S \ {NULL} PROVE cause[x] \in S
  <2>1. x \in live /\ x \in CauseOf(cause[x])
    BY <1>4 DEF CauseOf
  <2> QED BY <2>1, ReferencesAreLive
<1>5. e \in S
  <2>1. S \in SUBSET (Exc \cup {NULL})
    BY <1>1
  <2> HIDE DEF S
  <2> QED BY <1>2, <1>3, <1>4, <2>1 DEF IsKept
<1> QED BY <1>5

\* What is in the error state is in use.
LEMMA ChainIsInUse ==
  ASSUME IInv, NEW t \in Threads, then[t] = Idle, NEW e \in Exc, InChain(t, e)
  PROVE  InUse(e) /\ e \in live /\ e # NULL
<1>1. e # NULL
  BY ErrorAssumption
<1>2. e \in live /\ (e = state[t] \/ \E x \in live : cause[x] = e)
  BY <1>1, ChainLinks
<1> QED BY <1>1, <1>2 DEF InUse

\* The handlers of one thread change, the error states do not.
LEMMA CaughtChange ==
  ASSUME CaughtInv, NEW t \in Threads, NEW hs \in Seq(HandlerType),
         handlers' = [handlers EXCEPT ![t] = hs],
         \A u \in Threads \ {t} : UNCHANGED then[u], UNCHANGED <<state, cause, again, lost>>,
         \A i \in DOMAIN hs : hs[i].exc # NULL =>
             then'[t] = Idle /\ (hs[i].exc = state[t] \/ hs[i].exc \in Caught(t))
  PROVE  CaughtInv'
<1>1. handlers' \in [Threads -> Seq(HandlerType)] /\ handlers'[t] = hs
      /\ \A u \in Threads \ {t} : handlers'[u] = handlers[u]
  BY DEF CaughtInv
<1>2. \A u, e : (InChain(u, e)' <=> InChain(u, e)) /\ (IsKept(u, e)' <=> IsKept(u, e))
  BY DEF InChain, IsKept
<1>3. \A u : IsMarked(u)' <=> IsMarked(u)
  BY <1>2 DEF IsMarked
<1>4. \A u \in Threads \ {t} : Caught(u)' = Caught(u)
  BY <1>1 DEF Caught
<1>5. ASSUME NEW e \in Caught(t)'
      PROVE  then'[t] = Idle /\ IsKept(t, e) /\ (InChain(t, e) \/ IsMarked(t))
  <2>1. PICK i \in DOMAIN hs : e = hs[i].exc /\ e # NULL
    BY <1>1 DEF Caught
  <2>2. InChain(t, state[t]) /\ IsKept(t, state[t])
    BY DEF InChain, IsKept
  <2> QED BY <2>1, <2>2 DEF CaughtInv, Stays
<1>6. ASSUME NEW u \in Threads, NEW e \in Caught(u)' PROVE Stays(u, e)'
  <2>1. CASE u = t
    BY <1>2, <1>3, <1>5, <2>1 DEF Stays
  <2>2. CASE u # t
    BY <1>2, <1>3, <1>4, <2>2 DEF CaughtInv, Stays
  <2> QED BY <2>1, <2>2
<1> QED BY <1>1, <1>6 DEF CaughtInv

\* A step that forgets what all handlers of t have caught.
LEMMA CaughtForget ==
  ASSUME CaughtInv, NEW t \in Threads, NEW hs \in Seq(HandlerType),
         handlers' = [handlers EXCEPT ![t] = Forgotten(hs)],
         \A u \in Threads \ {t} : UNCHANGED then[u], UNCHANGED <<state, cause, again, lost>>
  PROVE  CaughtInv'
  BY ForgetHandlers, CaughtChange

\* A step of other variables.
LEMMA CaughtSame ==
  ASSUME CaughtInv, UNCHANGED <<handlers, state, cause, then, again, lost>>
  PROVE  CaughtInv'
<1>1. \A u \in Threads : Caught(u)' = Caught(u)
  BY DEF Caught
<1>2. \A u, e : (InChain(u, e)' <=> InChain(u, e)) /\ (IsKept(u, e)' <=> IsKept(u, e))
  BY DEF InChain, IsKept
<1>3. \A u, e : Stays(u, e)' <=> Stays(u, e)
  BY <1>2 DEF Stays, IsMarked
<1> QED BY <1>1, <1>3 DEF CaughtInv

\* An exception becomes current in front of that of its thread; if it was in use,
\* other error states may be cut after it.
LEMMA CaughtInstall ==
  ASSUME IInv, CaughtInv, NEW t \in Threads, NEW x \in Exc, Running(t),
         Install(t, x, refcnt[x]),
         \A y \in Exc : lost[y] > 0 => lost'[y] > 0, cause[x] # NULL => lost'[cause[x]] > 0,
         UNCHANGED <<handlers, then>>
  PROVE  CaughtInv'
<1>1. /\ state \in [Threads -> Exc \cup {NULL}] /\ cause \in [Exc -> Exc \cup {NULL}]
      /\ live \subseteq Exc /\ lost \in [Exc -> Nat] /\ again \subseteq Exc /\ then[t] = Idle
      /\ NULL \notin Exc
  BY ErrorAssumption DEF IInv, TypeInv, Running
<1>2. /\ state'[t] = x /\ \A u \in Threads \ {t} : state'[u] = state[u]
      /\ cause'[x] = state[t] /\ \A y \in Exc \ {x} : cause'[y] = cause[y]
      /\ again' = IF InUse(x) THEN again \cup {x} ELSE again \ {x}
  BY <1>1 DEF Install, SetNow
<1>3. \A u \in Threads : Caught(u)' = Caught(u)
  BY DEF Caught
<1>4. ASSUME NEW u \in Threads, NEW S \in SUBSET (Exc \cup {NULL}), state'[u] \in S,
             \A y \in S \ {NULL} : cause'[y] \in S
      PROVE  state[u] \in S
  <2>1. CASE u = t
    BY <1>1, <1>2, <1>4, <2>1
  <2>2. CASE u # t
    BY <1>2, <1>4, <2>2
  <2> QED BY <2>1, <2>2
<1>5. ASSUME NEW u \in Threads, NEW e, e # NULL, IsKept(u, e) PROVE IsKept(u, e)'
  <2> SUFFICES ASSUME NEW S \in SUBSET (Exc \cup {NULL}), state'[u] \in S,
                      {y \in Exc : lost'[y] > 0} \subseteq S,
                      \A y \in S \ {NULL} : cause'[y] \in S
               PROVE  e \in S
    BY DEF IsKept
  <2> DEFINE T == S \cup {NULL}
  <2>1. state[u] \in T
    BY <1>4
  <2>2. ASSUME NEW y \in Exc, lost[y] > 0 PROVE y \in T
    <3>1. lost'[y] > 0
      BY <2>2
    <3> QED BY <3>1
  <2>3. ASSUME NEW y \in T \ {NULL} PROVE cause[y] \in T
    <3>1. CASE y = x
      BY <1>1, <3>1
    <3>2. CASE y # x
      BY <1>2, <3>2
    <3> QED BY <3>1, <3>2
  <2>4. e \in T
    <3>1. T \in SUBSET (Exc \cup {NULL})
      OBVIOUS
    <3> HIDE DEF T
    <3> QED BY <1>5, <2>1, <2>2, <2>3, <3>1 DEF IsKept
  <2> QED BY <1>5, <2>4
<1>6. ASSUME NEW u \in Threads, then[u] = Idle, ~InUse(x), NEW e, InChain(u, e), e # NULL
      PROVE  InChain(u, e)'
  <2> SUFFICES ASSUME NEW S \in SUBSET (Exc \cup {NULL}), state'[u] \in S,
                      \A y \in S \ {NULL} : cause'[y] \in S
               PROVE  e \in S
    BY DEF InChain
  <2> DEFINE T == (S \cap {y \in Exc : InChain(u, y)}) \cup {NULL}
  <2>1. state[u] \in T
    <3>1. InChain(u, state[u])
      BY DEF InChain
    <3> QED BY <1>1, <1>4, <3>1
  <2>2. ASSUME NEW y \in T \ {NULL} PROVE cause[y] \in T
    <3>1. y \in S /\ y \in Exc /\ InChain(u, y)
      BY <1>1
    <3>2. y # x
      BY <1>6, <3>1, ChainIsInUse
    <3>3. cause[y] \in S
      BY <1>1, <1>2, <3>1, <3>2
    <3>4. InChain(u, cause[y])
      BY <1>1, <3>1 DEF InChain
    <3> QED BY <1>1, <3>1, <3>3, <3>4
  <2>3. e \in T
    <3>1. T \in SUBSET (Exc \cup {NULL})
      OBVIOUS
    <3> HIDE DEF T
    <3> QED BY <1>6, <2>1, <2>2, <3>1 DEF InChain
  <2> QED BY <1>6, <2>3
<1>7. ASSUME NEW u \in Threads \ {t}, InChain(u, x) PROVE InChain(u, x)'
  <2> SUFFICES ASSUME NEW S \in SUBSET (Exc \cup {NULL}), state[u] \in S,
                      \A y \in S \ {NULL} : cause'[y] \in S, x \notin S
               PROVE  FALSE
    BY <1>2 DEF InChain
  <2>1. \A y \in S \ {NULL} : cause[y] \in S
    BY <1>2
  <2> QED BY <1>7, <2>1 DEF InChain
<1>8. ASSUME NEW u \in Threads \ {t}, ~InChain(u, x), NEW e, InChain(u, e) PROVE InChain(u, e)'
  <2>1. PICK R \in SUBSET (Exc \cup {NULL}) :
            state[u] \in R /\ (\A y \in R \ {NULL} : cause[y] \in R) /\ x \notin R
    BY <1>8 DEF InChain
  <2> SUFFICES ASSUME NEW S \in SUBSET (Exc \cup {NULL}), state[u] \in S,
                      \A y \in S \ {NULL} : cause'[y] \in S
               PROVE  e \in S
    BY <1>2 DEF InChain
  <2>2. ASSUME NEW y \in (S \cap R) \ {NULL} PROVE cause[y] \in S \cap R
    <3>1. y \in Exc \ {x}
      BY <2>1
    <3> QED BY <1>2, <2>1, <3>1
  <2>3. S \cap R \in SUBSET (Exc \cup {NULL}) /\ state[u] \in S \cap R
    BY <2>1
  <2> QED BY <1>8, <2>2, <2>3 DEF InChain
<1>9. ASSUME NEW u \in Threads, NEW e, e # NULL, Stays(u, e) PROVE Stays(u, e)'
  <2>1. then'[u] = Idle /\ IsKept(u, e)'
    BY <1>5, <1>9 DEF Stays
  <2>2. CASE ~InUse(x)
    <3>1. CASE InChain(u, e)
      BY <1>6, <1>9, <2>1, <2>2, <3>1 DEF Stays
    <3>2. CASE IsMarked(u)
      <4>1. PICK a \in again : InChain(u, a)
        BY <3>2 DEF IsMarked
      <4>2. InUse(a) /\ a # NULL
        BY <1>1, <1>9, <4>1, ChainIsInUse DEF Stays
      <4>3. a \in again' /\ InChain(u, a)'
        BY <1>2, <1>6, <1>9, <2>2, <4>1, <4>2 DEF Stays
      <4> QED BY <2>1, <4>3 DEF Stays, IsMarked
    <3> QED BY <1>9, <3>1, <3>2 DEF Stays
  <2>3. CASE InUse(x) /\ (u = t \/ InChain(u, x))
    <3>1. InChain(u, x)'
      <4>1. CASE u = t
        BY <1>2, <4>1 DEF InChain
      <4> QED BY <1>7, <2>3, <4>1
    <3> QED BY <1>2, <2>1, <2>3, <3>1 DEF Stays, IsMarked
  <2>4. CASE InUse(x) /\ u # t /\ ~InChain(u, x)
    <3>1. \A a : InChain(u, a) => InChain(u, a)'
      BY <1>8, <2>4
    <3>2. again \subseteq again'
      BY <1>2, <2>4
    <3> QED BY <1>9, <2>1, <3>1, <3>2 DEF Stays, IsMarked
  <2> QED BY <2>2, <2>3, <2>4
<1>10. \A u \in Threads : \A e \in Caught(u)' : Stays(u, e)'
  <2> SUFFICES ASSUME NEW u \in Threads, NEW e \in Caught(u) PROVE Stays(u, e)'
    BY <1>3
  <2>1. e # NULL /\ Stays(u, e)
    BY DEF Caught, CaughtInv
  <2> QED BY <1>9, <2>1
<1> QED BY <1>10 DEF CaughtInv

\* A destroyed exception was in no error state and to none was a reference lost.
LEMMA CaughtUnwind ==
  ASSUME IInv, CaughtInv, NEW t \in Threads, Unwind(t)
  PROVE  CaughtInv'
<1> PICK x : x = todo[t]
  OBVIOUS
<1>1. /\ x \in Exc /\ NULL \notin Exc /\ cause \in [Exc -> Exc \cup {NULL}]
      /\ state \in [Threads -> Exc \cup {NULL}] /\ again \subseteq Exc
  BY ErrorAssumption DEF Unwind, IInv, TypeInv
<1>2. CASE refcnt[x] # 1
  BY <1>2, CaughtSame DEF Unwind
<1>3. CASE refcnt[x] = 1
  <2>1. /\ \A y \in Exc \ {x} : cause'[y] = cause[y]
        /\ again' = again \ {x}
        /\ UNCHANGED <<handlers, state, then, lost>>
    BY <1>1, <1>3 DEF Unwind
  <2>2. ASSUME NEW u \in Threads, then[u] = Idle PROVE ~IsKept(u, x)
    <3>1. /\ refcnt[x] = References(x) + lost[x] /\ References(x) \in Nat /\ lost[x] \in Nat
          /\ ToRelease(x) # {}
      BY <1>1, Referenced DEF IInv, CountsAgree, TypeInv, ToRelease
    <3>2. References(x) >= 1 /\ (Current(x) # {} \/ CauseOf(x) # {} => References(x) >= 2)
      BY <1>1, <3>1, Referenced DEF IInv
    <3>3. Current(x) = {} /\ CauseOf(x) = {} /\ lost[x] = 0
      BY <1>3, <3>1, <3>2
    <3> QED BY <1>1, <2>2, <3>3, KeptIsReferenced
  <2>3. ASSUME NEW u \in Threads, then[u] = Idle, NEW e, IsKept(u, e) PROVE IsKept(u, e)'
    <3> SUFFICES ASSUME NEW S \in SUBSET (Exc \cup {NULL}), state[u] \in S,
                        {y \in Exc : lost[y] > 0} \subseteq S,
                        \A y \in S \ {NULL} : cause'[y] \in S
                 PROVE  e \in S
      BY <2>1 DEF IsKept
    <3> DEFINE T == {y \in S : IsKept(u, y)}
    <3>1. state[u] \in T
      BY DEF IsKept
    <3>2. {y \in Exc : lost[y] > 0} \subseteq T
      BY DEF IsKept
    <3>3. ASSUME NEW y \in T \ {NULL} PROVE cause[y] \in T
      <4>1. y \in Exc \ {x}
        BY <2>2, <2>3
      <4>2. IsKept(u, cause[y])
        BY DEF IsKept
      <4> QED BY <2>1, <4>1, <4>2
    <3>4. e \in T
      <4>1. T \in SUBSET (Exc \cup {NULL})
        OBVIOUS
      <4> HIDE DEF T
      <4> QED BY <2>3, <3>1, <3>2, <3>3, <4>1 DEF IsKept
    <3> QED BY <3>4
  <2>4. ASSUME NEW u \in Threads, then[u] = Idle, NEW e, InChain(u, e) PROVE InChain(u, e)'
    <3> SUFFICES ASSUME NEW S \in SUBSET (Exc \cup {NULL}), state[u] \in S,
                        \A y \in S \ {NULL} : cause'[y] \in S
                 PROVE  e \in S
      BY <2>1 DEF InChain
    <3> DEFINE T == {y \in S : InChain(u, y)}
    <3>1. state[u] \in T
      BY DEF InChain
    <3>2. ASSUME NEW y \in T \ {NULL} PROVE cause[y] \in T
      <4>1. IsKept(u, y)
        BY DEF InChain, IsKept
      <4>2. y \in Exc \ {x}
        BY <2>2, <2>4, <4>1
      <4>3. InChain(u, cause[y])
        BY DEF InChain
      <4> QED BY <2>1, <4>2, <4>3
    <3>3. e \in T
      <4>1. T \in SUBSET (Exc \cup {NULL})
        OBVIOUS
      <4> HIDE DEF T
      <4> QED BY <2>4, <3>1, <3>2, <4>1 DEF InChain
    <3> QED BY <3>3
  <2>5. ASSUME NEW u \in Threads, then[u] = Idle, IsMarked(u) PROVE IsMarked(u)'
    <3>1. PICK a \in again : InChain(u, a)
      BY <2>5 DEF IsMarked
    <3>2. IsKept(u, a)
      BY <3>1 DEF InChain, IsKept
    <3>3. a # x
      BY <2>2, <2>5, <3>2
    <3> QED BY <2>1, <2>4, <2>5, <3>1, <3>3 DEF IsMarked
  <2>6. ASSUME NEW u \in Threads, NEW e \in Caught(u) PROVE Stays(u, e)'
    <3>1. Stays(u, e)
      BY DEF CaughtInv
    <3> QED BY <2>1, <2>3, <2>4, <2>5, <3>1 DEF Stays
  <2>7. \A u \in Threads : Caught(u)' = Caught(u)
    BY <2>1 DEF Caught
  <2> QED BY <2>1, <2>6, <2>7 DEF CaughtInv
<1> QED BY <1>2, <1>3

\* The error of a thread without handlers that rely on it is replaced.
LEMMA CaughtFinish ==
  ASSUME IInv, CaughtInv, NEW t \in Threads, Finish(t)
  PROVE  CaughtInv'
<1>1. /\ state \in [Threads -> Exc \cup {NULL}] /\ then \in [Threads -> Exc \cup {NULL, Idle}]
      /\ again \subseteq Exc
  BY DEF IInv, TypeInv
<1>2. /\ UNCHANGED <<handlers, cause, lost>> /\ then[t] # Idle
      /\ \A u \in Threads \ {t} : UNCHANGED <<state[u], then[u]>>
      /\ again' = again \/ SetNow(then[t])
  BY <1>1 DEF Finish
<1>3. ASSUME NEW u \in Threads, NEW e \in Caught(u) PROVE Stays(u, e)'
  <2>1. Stays(u, e) /\ u # t
    BY <1>2 DEF CaughtInv, Stays
  <2>2. UNCHANGED <<state[u], then[u]>>
    BY <1>2, <2>1
  <2>3. \A a : (InChain(u, a)' <=> InChain(u, a)) /\ (IsKept(u, a)' <=> IsKept(u, a))
    BY <1>2, <2>2 DEF InChain, IsKept
  <2>4. \A a \in again : InChain(u, a) => a \in again'
    <3> SUFFICES ASSUME NEW a \in again, InChain(u, a) PROVE a \in again'
      OBVIOUS
    <3>1. InUse(a)
      BY <1>1, <2>1, ChainIsInUse DEF Stays
    <3> QED BY <1>2, <3>1 DEF SetNow
  <2> QED BY <2>1, <2>2, <2>3, <2>4 DEF Stays, IsMarked
<1>4. \A u \in Threads : Caught(u)' = Caught(u)
  BY <1>2 DEF Caught
<1> QED BY <1>2, <1>3, <1>4 DEF CaughtInv

LEMMA CaughtSet ==
  ASSUME IInv, CaughtInv, NEW t \in Threads, NEW e \in Exc, Running(t), SetExisting(t, e)
  PROVE  CaughtInv'
<1>1. cause[e] \in Exc \cup {NULL} /\ lost \in [Exc -> Nat]
  BY DEF IInv, TypeInv
<1>2. (\A y \in Exc : lost[y] > 0 => lost'[y] > 0) /\ (cause[e] # NULL => lost'[cause[e]] > 0)
  <2>1. CASE cause[e] = NULL
    BY <1>1, <2>1 DEF SetExisting
  <2>2. CASE cause[e] # NULL
    BY <1>1, <2>2 DEF SetExisting
  <2> QED BY <2>1, <2>2
<1> QED BY <1>2, CaughtInstall DEF SetExisting

LEMMA CaughtKept ==
  ASSUME IInv, CaughtInv, [Next]_vars
  PROVE  CaughtInv'
<1>1. /\ state \in [Threads -> Exc \cup {NULL}] /\ then \in [Threads -> Exc \cup {NULL, Idle}]
      /\ handlers \in [Threads -> Seq(HandlerType)]
      /\ NULL \notin Exc /\ Idle \notin Exc \cup {NULL}
  BY ErrorAssumption DEF IInv, TypeInv, CaughtInv
<1>2. CASE UNCHANGED vars
  BY <1>2, CaughtSame DEF vars
<1>3. ASSUME NEW t \in Threads, NEW e \in Exc, DyErr_Set(t, e) PROVE CaughtInv'
  <2>1. refcnt[e] = 0
    <3>1. /\ References(e) \in Nat /\ lost[e] \in Nat /\ refcnt[e] = References(e) + lost[e]
          /\ e \in live <=> refcnt[e] > 0
      BY Referenced DEF IInv, CountsAgree, TypeInv
    <3> QED BY <1>3, <3>1 DEF DyErr_Set
  <2>2. cause[e] = NULL /\ \A y \in Exc : lost[y] > 0 => lost'[y] > 0
    BY <1>3 DEF DyErr_Set, IInv, DeadHaveNoCause, TypeInv
  <2>3. Install(t, e, refcnt[e])
    BY <1>3, <2>1 DEF DyErr_Set
  <2> QED BY <1>3, <2>2, <2>3, CaughtInstall DEF DyErr_Set
<1>4. ASSUME NEW t \in Threads, NEW e \in Exc, DyErr_SetObject(t, e) PROVE CaughtInv'
  BY <1>4, CaughtSet DEF DyErr_SetObject
<1>5. ASSUME NEW t \in Threads, DyErr_SetMemoryError(t) PROVE CaughtInv'
  BY <1>5, ErrorAssumption, CaughtSet DEF DyErr_SetMemoryError
<1>6. ASSUME NEW t \in Threads, NEW e \in Exc, DyErr_DiscardAndSetObject(t, e) PROVE CaughtInv'
  BY <1>1, <1>6, CaughtForget DEF DyErr_DiscardAndSetObject
<1>7. ASSUME NEW t \in Threads, NEW e \in Exc, Dy_Release(t, e) PROVE CaughtInv'
  BY <1>7, CaughtSame DEF Dy_Release
<1>8. ASSUME NEW t \in Threads, NEW e \in Exc, Dy_Retain(t, e) PROVE CaughtInv'
  BY <1>8, CaughtSame DEF Dy_Retain
<1>9. ASSUME NEW t \in Threads, Clear(t) PROVE \A u \in Threads \ {t} : UNCHANGED then[u]
  BY <1>1, <1>9 DEF Clear
<1>10. ASSUME NEW t \in Threads, DyErr_Clear(t) PROVE CaughtInv'
  BY <1>1, <1>9, <1>10, CaughtForget DEF DyErr_Clear
<1>11. ASSUME NEW t \in Threads, Unwind(t) PROVE CaughtInv'
  BY <1>11, CaughtUnwind
<1>12. ASSUME NEW t \in Threads, Finish(t) PROVE CaughtInv'
  BY <1>12, CaughtFinish
<1>13. ASSUME NEW t \in Threads, DY_ERR_CATCH(t) PROVE CaughtInv'
  <2> DEFINE h == [exc |-> state[t], handled |-> TRUE]
             hs == Append(handlers[t], h)
  <2>1. h \in HandlerType /\ h.exc = state[t]
    BY <1>1 DEF HandlerType
  <2>2. handlers[t] \in Seq(HandlerType) /\ Len(handlers[t]) \in Nat
        /\ DOMAIN handlers[t] = 1..Len(handlers[t])
    BY <1>1, LenProperties
  <2>3. handlers' = [handlers EXCEPT ![t] = hs] /\ then' = then /\ then[t] = Idle
        /\ UNCHANGED <<state, cause, again, lost>>
    BY <1>13 DEF DY_ERR_CATCH, Running
  <2> HIDE DEF h
  <2>4. hs \in Seq(HandlerType)
    BY <2>1, <2>2, AppendProperties
  <2>5. ASSUME NEW i \in DOMAIN hs PROVE hs[i] = h \/ \E j \in DOMAIN handlers[t] : hs[i] = handlers[t][j]
    BY <2>1, <2>2, AppendProperties
  <2> HIDE DEF hs
  <2>6. \A i \in DOMAIN hs : hs[i].exc # NULL => hs[i].exc = state[t] \/ hs[i].exc \in Caught(t)
    BY <2>1, <2>5 DEF Caught
  <2> QED BY <2>3, <2>4, <2>6, CaughtChange
<1>14. ASSUME NEW t \in Threads, DY_ERR_RETHROW(t) PROVE CaughtInv'
  <2> PICK n : n = Len(handlers[t])
    OBVIOUS
  <2> DEFINE h == [handlers[t][n] EXCEPT !.handled = FALSE]
             hs == [handlers[t] EXCEPT ![n] = h]
  <2>1. handlers[t] \in Seq(HandlerType) /\ n \in Nat /\ n \in 1..Len(handlers[t])
        /\ DOMAIN handlers[t] = 1..Len(handlers[t])
    BY <1>1, <1>14, LenProperties, EmptySeq DEF DY_ERR_RETHROW, InHandler
  <2>2. handlers[t][n] \in HandlerType
    BY <2>1, ElementOfSeq
  <2>3. h \in HandlerType /\ h.exc = handlers[t][n].exc
    BY <2>2 DEF HandlerType
  <2>4. handlers' = [handlers EXCEPT ![t] = hs] /\ then' = then /\ then[t] = Idle
        /\ UNCHANGED <<state, cause, again, lost>>
    BY <1>14 DEF DY_ERR_RETHROW, InHandler, Running
  <2> HIDE DEF h
  <2>5. /\ hs \in Seq(HandlerType) /\ DOMAIN hs = DOMAIN handlers[t]
        /\ \A i \in DOMAIN hs : hs[i] = IF i = n THEN h ELSE handlers[t][i]
    BY <2>1, <2>3, ExceptSeq
  <2> HIDE DEF hs
  <2>6. \A i \in DOMAIN hs : hs[i].exc = handlers[t][i].exc
    BY <2>3, <2>5
  <2>7. \A i \in DOMAIN hs : hs[i].exc # NULL => hs[i].exc \in Caught(t)
    BY <2>5, <2>6 DEF Caught
  <2> QED BY <2>4, <2>5, <2>7, CaughtChange
<1>15. ASSUME NEW t \in Threads, InHandler(t), UNCHANGED <<state, cause, then, again, lost>>,
              handlers' = [handlers EXCEPT ![t] = Outer(t)]
       PROVE  CaughtInv'
  <2>1. /\ Outer(t) \in Seq(HandlerType)
        /\ \A i \in DOMAIN Outer(t) : i \in DOMAIN handlers[t] /\ Outer(t)[i] = handlers[t][i]
    BY <1>15, OuterHandlers DEF InHandler
  <2> PICK hs : hs = Outer(t)
    OBVIOUS
  <2>2. \A i \in DOMAIN hs : hs[i].exc # NULL => hs[i].exc \in Caught(t)
    BY <2>1 DEF Caught
  <2>3. then[t] = Idle
    BY <1>15 DEF InHandler, Running
  <2> QED BY <1>15, <2>1, <2>2, <2>3, CaughtChange
<1>16. ASSUME NEW t \in Threads, DY_ERR_HANDLER_END(t) PROVE CaughtInv'
  <2>1. CASE Inner(t).handled
    <3>1. Outer(t) \in Seq(HandlerType)
      BY <1>16, OuterHandlers DEF DY_ERR_HANDLER_END, InHandler
    <3>2. /\ Clear(t) /\ handlers' = [handlers EXCEPT ![t] = Forgotten(Outer(t))]
          /\ UNCHANGED <<state, cause, again, lost>>
      BY <1>16, <2>1 DEF DY_ERR_HANDLER_END
    <3> QED BY <1>9, <3>1, <3>2, CaughtForget
  <2>2. CASE ~Inner(t).handled
    BY <1>15, <1>16, <2>2 DEF DY_ERR_HANDLER_END
  <2> QED BY <2>1, <2>2
<1>17. ASSUME NEW t \in Threads, DY_ERR_RETHROW_RETURN(t) PROVE CaughtInv'
  BY <1>15, <1>17 DEF DY_ERR_RETHROW_RETURN
<1> QED BY <1>2, <1>3, <1>4, <1>5, <1>6, <1>7, <1>8, <1>10, <1>11, <1>12, <1>13, <1>14, <1>16, <1>17
        DEF Next

\* What a handler of exceptions_c.h caught is not freed before the handler's thread clears or
\* discards its error, whatever this and other threads raise, catch and rethrow, to any depth
\* of handlers; and it stays in the thread's error state, unless an exception of that was
\* set while in use.
THEOREM CaughtIsKept == Spec => []CaughtStays
<1>1. Init => IInv /\ CaughtInv
  <2>1. Init => CaughtInv
    BY EmptySeq DEF Init, CaughtInv, Caught
  <2> QED BY <2>1, ErrorsStart
<1>2. IInv /\ CaughtInv /\ [Next]_vars => (IInv /\ CaughtInv)'
  BY ErrorsKept, CaughtKept
<1>3. IInv /\ CaughtInv => CaughtStays
  <2> SUFFICES ASSUME IInv, CaughtInv, NEW t \in Threads, NEW i \in DOMAIN handlers[t],
                      handlers[t][i].exc # NULL
               PROVE  /\ handlers[t][i].exc \in live
                      /\ handlers[t][i].exc \in Chain(t) \/ Chain(t) \cap again # {}
    BY DEF CaughtStays
  <2> PICK e : e = handlers[t][i].exc
    OBVIOUS
  <2>1. Stays(t, e) /\ then[t] = Idle /\ e # NULL
    BY DEF CaughtInv, Caught, Stays
  <2>2. e \in live
    BY <2>1, KeptIsReferenced DEF Stays
  <2>3. Chain(t) = {y \in Exc : InChain(t, y)}
    BY <2>1, ChainIs DEF IInv
  <2>4. CASE InChain(t, e)
    BY <2>2, <2>3, <2>4 DEF IInv, TypeInv
  <2>5. CASE IsMarked(t)
    BY <2>2, <2>3, <2>5 DEF IsMarked, IInv, TypeInv
  <2> QED BY <2>1, <2>2, <2>4, <2>5 DEF Stays
<1> QED BY <1>1, <1>2, <1>3, PTL DEF Spec
=============================================================================
