----------------------------- MODULE HeapProofs -----------------------------
(***************************************************************************)
(* Proofs about Heap, for any number of threads, objects and places.       *)
(*                                                                         *)
(* The invariant has two halves.  Counting says that the count of an object*)
(* is the number of places that count it, that those places count live     *)
(* objects, and that a passed, leaked or dying object has count zero: so   *)
(* the release that destroys an object is that of its last place.  Calling *)
(* says which unfinished call each stale slot belongs to, and that there is*)
(* one call on an object at a time until a destructor reenters one: so the *)
(* call that goes on finds its slots as it left them, and the memory freed *)
(* is that of an object no place counts any more.                          *)
(***************************************************************************)
EXTENDS Heap, FiniteSetTheorems, SequenceTheorems, TLAPS

\* The object each place counts.
Own == [p \in Places |-> Owned(p)]

Count(f, o) == Cardinality({p \in Places : f[p] = o})

OwnedLive == \A p \in Places : Own[p] # NULL => status[Own[p]] = "live"

Counted == \A o \in Obj : status[o] # "none" => refcnt[o] = Count(Own, o)

Uncounted ==
    /\ \A o \in Obj : status[o] = "dying" => refcnt[o] = 0
    /\ \A o \in leaked : status[o] = "live" /\ refcnt[o] = 0
    /\ \A t \in Threads : floating[t] # NULL =>
          status[floating[t]] = "live" /\ refcnt[floating[t]] = 0
    /\ \A t \in Threads : floating[t] \notin leaked
    /\ \A t, u \in Threads : floating[t] = floating[u] /\ floating[t] # NULL => t = u

Counting == OwnedLive /\ Counted /\ Uncounted /\ NothingForgotten

\* The unfinished calls of all threads.
AllCalls(w) == UNION {Unfinished(w[t]) : t \in Threads}

\* There is one call on an object at a time.
Once(w) == \A t, u \in Threads : \A i \in DOMAIN w[t], j \in DOMAIN w[u] :
               w[t][i].on = w[u][j].on => t = u /\ i = j

FreeOnce(w) == \A t, u \in Threads : \A i \in DOMAIN w[t], j \in DOMAIN w[u] :
                   w[t][i].name = "free" /\ w[u][j] = w[t][i] => t = u /\ i = j

\* A retained value waits for the bucket of the dict_setitem that is unfinished.
PendingHasCall == \A p \in Slots : pending[p] # NULL =>
                      p \in stale /\ SetCall(p) \in AllCalls(work)

StaleHasCall == \A p \in stale : \E c \in AllCalls(work) : Releases(c, p)

SetCallsAreStale == \A c \in AllCalls(work) : c.name = "set" =>
                        c.slot \in stale /\ c.on = ContainerOf[c.slot]

CallStates == \A c \in AllCalls(work) :
                  /\ c.name = "free" => status[c.on] = "dying"
                  /\ c.name # "free" => status[c.on] = "live" \/ reentered = c.on

Reentry == reentered # NULL => \E c \in AllCalls(work) : c.on = reentered /\ c.name # "free"

Calling == /\ PendingHasCall /\ StaleHasCall /\ SetCallsAreStale
           /\ CallStates /\ Reentry
           /\ FreeOnce(work)
           /\ reentered = NULL => Once(work)

IInv == TypeOK /\ Counting /\ Calling
-----------------------------------------------------------------------------
(* Counting places.                                                        *)

LEMMA PlacesFinite == IsFiniteSet(Places)
  BY HeapAssumption, FS_Union DEF Places

LEMMA CountType ==
  ASSUME NEW f \in [Places -> Obj \cup {NULL}], NEW o
  PROVE  Count(f, o) \in Nat
<1>1. IsFiniteSet({p \in Places : f[p] = o})
  BY PlacesFinite, FS_Subset
<1> QED BY <1>1, FS_CardinalityType DEF Count

\* An object a place refers to has a count of at least one.
LEMMA CountPositive ==
  ASSUME NEW f \in [Places -> Obj \cup {NULL}], NEW p \in Places
  PROVE  Count(f, f[p]) >= 1
<1> DEFINE S == {q \in Places : f[q] = f[p]}
<1>1. IsFiniteSet(S) /\ S # {}
  BY PlacesFinite, FS_Subset
<1>2. Cardinality(S) \in Nat /\ Cardinality(S) # 0
  BY <1>1, FS_CardinalityType, FS_EmptySet
<1> QED BY <1>2 DEF Count

\* An object with count zero is referred to by no place.
LEMMA CountZero ==
  ASSUME NEW f \in [Places -> Obj \cup {NULL}], NEW o, Count(f, o) = 0
  PROVE  \A p \in Places : f[p] # o
  BY CountPositive

\* Pointing place p, which referred to something else, to o.
LEMMA CountPoint ==
  ASSUME NEW f \in [Places -> Obj \cup {NULL}], NEW p \in Places,
         NEW o \in Obj \cup {NULL}, f[p] # o
  PROVE  /\ Count([f EXCEPT ![p] = o], o) = Count(f, o) + 1
         /\ Count([f EXCEPT ![p] = o], f[p]) = Count(f, f[p]) - 1
         /\ \A x : x # o /\ x # f[p] => Count([f EXCEPT ![p] = o], x) = Count(f, x)
<1> DEFINE g == [f EXCEPT ![p] = o]
           At(h, x) == {q \in Places : h[q] = x}
<1>1. \A h \in [Places -> Obj \cup {NULL}] : \A x : IsFiniteSet(At(h, x))
  BY PlacesFinite, FS_Subset
<1>2. g \in [Places -> Obj \cup {NULL}]
  OBVIOUS
<1>3. Count(g, o) = Count(f, o) + 1
  <2>1. At(g, o) = At(f, o) \cup {p} /\ p \notin At(f, o)
    OBVIOUS
  <2>2. Cardinality(At(f, o) \cup {p}) = Cardinality(At(f, o)) + 1
    <3>1. IsFiniteSet(At(f, o))
      BY <1>1
    <3> HIDE DEF At
    <3> QED BY <2>1, <3>1, FS_AddElement
  <2> QED BY <2>1, <2>2 DEF Count
<1>4. Count(g, f[p]) = Count(f, f[p]) - 1
  <2>1. At(g, f[p]) = At(f, f[p]) \ {p} /\ p \in At(f, f[p])
    OBVIOUS
  <2>2. Cardinality(At(f, f[p]) \ {p}) = Cardinality(At(f, f[p])) - 1
    BY <1>1, <2>1, FS_RemoveElement
  <2> QED BY <2>1, <2>2 DEF Count
<1>5. ASSUME NEW x, x # o, x # f[p] PROVE Count(g, x) = Count(f, x)
  <2>1. At(g, x) = At(f, x)
    BY <1>5
  <2> QED BY <2>1 DEF Count
<1> QED BY <1>3, <1>4, <1>5
-----------------------------------------------------------------------------
(* The calls in progress.                                                  *)

LEMMA Pushed ==
  ASSUME NEW S, NEW s \in Seq(S), NEW x \in S
  PROVE  /\ <<x>> \o s \in Seq(S)
         /\ Len(<<x>> \o s) = Len(s) + 1
         /\ (<<x>> \o s)[1] = x
         /\ \A i \in 2..(Len(s) + 1) : (<<x>> \o s)[i] = s[i - 1]
  OBVIOUS

LEMMA Popped ==
  ASSUME NEW S, NEW s \in Seq(S), s # <<>>
  PROVE  /\ Tail(s) \in Seq(S) /\ Head(s) \in S /\ Head(s) = s[1]
         /\ Len(Tail(s)) = Len(s) - 1 /\ Len(s) \in Nat \ {0}
         /\ \A i \in 1..(Len(s) - 1) : Tail(s)[i] = s[i + 1]
  OBVIOUS

LEMMA CallsAreCalls ==
  ASSUME NEW w \in [Threads -> Seq(Calls)]
  PROVE  AllCalls(w) \subseteq Calls
  BY ElementOfSeq DEF AllCalls, Unfinished

\* Thread t begins a call.
LEMMA Beginning ==
  ASSUME NEW w \in [Threads -> Seq(Calls)], NEW t \in Threads, NEW c \in Calls
  PROVE  LET v == [w EXCEPT ![t] = <<c>> \o @]
         IN  /\ v \in [Threads -> Seq(Calls)]
             /\ AllCalls(v) = AllCalls(w) \cup {c}
             /\ Once(w) /\ (\A d \in AllCalls(w) : d.on # c.on) => Once(v)
             /\ FreeOnce(w) /\ (c.name = "free" => c \notin AllCalls(w)) => FreeOnce(v)
<1> DEFINE v == [w EXCEPT ![t] = <<c>> \o @]
           n == Len(w[t])
<1>1. /\ v[t] \in Seq(Calls) /\ v[t] = <<c>> \o w[t]
      /\ DOMAIN v[t] = 1..(n + 1) /\ DOMAIN w[t] = 1..n /\ n \in Nat
      /\ v[t][1] = c
      /\ \A i \in 2..(n + 1) : v[t][i] = w[t][i - 1]
  <2>1. w[t] \in Seq(Calls)
    OBVIOUS
  <2>2. v[t] = <<c>> \o w[t]
    OBVIOUS
  <2>3. /\ v[t] \in Seq(Calls) /\ Len(v[t]) = n + 1 /\ v[t][1] = c
        /\ \A i \in 2..(n + 1) : v[t][i] = w[t][i - 1]
    BY <2>1, <2>2, Pushed
  <2> HIDE DEF v
  <2>4. DOMAIN v[t] = 1..Len(v[t]) /\ DOMAIN w[t] = 1..n /\ n \in Nat
    BY <2>1, <2>3
  <2> QED BY <2>1, <2>2, <2>3, <2>4
<1>2. v \in [Threads -> Seq(Calls)] /\ \A u \in Threads : u # t => v[u] = w[u]
  BY <1>1
<1> HIDE DEF v, n
\* A call of v is c, or was in w.
<1>3. ASSUME NEW u \in Threads, NEW i \in DOMAIN v[u]
      PROVE  \/ u = t /\ i = 1 /\ v[u][i] = c
             \/ u = t /\ i - 1 \in DOMAIN w[u] /\ v[u][i] = w[u][i - 1] /\ i \in Int
             \/ u # t /\ i \in DOMAIN w[u] /\ v[u][i] = w[u][i]
  <2>1. CASE u # t
    BY <1>2, <1>3, <2>1
  <2>2. CASE u = t /\ i = 1
    BY <1>1, <2>2
  <2>3. CASE u = t /\ i # 1
    <3>1. i \in 2..(n + 1) /\ i - 1 \in 1..n
      BY <1>1, <1>3, <2>3
    <3> QED BY <1>1, <2>3, <3>1
  <2> QED BY <2>1, <2>2, <2>3
<1>4. AllCalls(v) = AllCalls(w) \cup {c}
  <2>1. ASSUME NEW d \in AllCalls(v) PROVE d \in AllCalls(w) \cup {c}
    <3>1a. PICK u \in Threads : \E i \in DOMAIN v[u] : d = v[u][i]
      BY DEF AllCalls, Unfinished
    <3>1. PICK i \in DOMAIN v[u] : d = v[u][i]
      BY <3>1a
    <3> QED BY <1>3, <3>1 DEF AllCalls, Unfinished
  <2>2. c \in AllCalls(v)
    <3>1. 1 \in DOMAIN v[t] /\ v[t][1] = c
      BY <1>1
    <3> QED BY <3>1 DEF AllCalls, Unfinished
  <2>3. ASSUME NEW d \in AllCalls(w) PROVE d \in AllCalls(v)
    <3>1a. PICK u \in Threads : \E i \in DOMAIN w[u] : d = w[u][i]
      BY DEF AllCalls, Unfinished
    <3>1. PICK i \in DOMAIN w[u] : d = w[u][i]
      BY <3>1a
    <3>2. CASE u = t
      <4>1. i \in 1..n /\ i + 1 \in 2..(n + 1) /\ (i + 1) - 1 = i
        BY <1>1, <3>1, <3>2
      <4>2. i + 1 \in DOMAIN v[t] /\ v[t][i + 1] = d
        BY <1>1, <3>1, <3>2, <4>1
      <4> QED BY <4>2 DEF AllCalls, Unfinished
    <3>3. CASE u # t
      BY <1>2, <3>1, <3>3 DEF AllCalls, Unfinished
    <3> QED BY <3>2, <3>3
  <2> QED BY <2>1, <2>2, <2>3
<1>5. \A u \in Threads : \A i \in DOMAIN w[u] : w[u][i] \in AllCalls(w)
  BY DEF AllCalls, Unfinished
<1>6. ASSUME Once(w), \A d \in AllCalls(w) : d.on # c.on PROVE Once(v)
  <2> SUFFICES ASSUME NEW u \in Threads, NEW r \in Threads,
                      NEW i \in DOMAIN v[u], NEW j \in DOMAIN v[r],
                      v[u][i].on = v[r][j].on
               PROVE  u = r /\ i = j
    BY DEF Once
  <2>1. \A k \in DOMAIN w[u], l \in DOMAIN w[r] :
           w[u][k].on = w[r][l].on => u = r /\ k = l
    BY <1>6 DEF Once
  <2>2. \/ u = t /\ i = 1 /\ v[u][i] = c
        \/ u = t /\ i - 1 \in DOMAIN w[u] /\ v[u][i] = w[u][i - 1] /\ i \in Int
        \/ u # t /\ i \in DOMAIN w[u] /\ v[u][i] = w[u][i]
    BY <1>3
  <2>3. \/ r = t /\ j = 1 /\ v[r][j] = c
        \/ r = t /\ j - 1 \in DOMAIN w[r] /\ v[r][j] = w[r][j - 1] /\ j \in Int
        \/ r # t /\ j \in DOMAIN w[r] /\ v[r][j] = w[r][j]
    BY <1>3
  <2> QED BY <1>5, <1>6, <2>1, <2>2, <2>3
<1>7. ASSUME FreeOnce(w), c.name = "free" => c \notin AllCalls(w) PROVE FreeOnce(v)
  <2> SUFFICES ASSUME NEW u \in Threads, NEW r \in Threads,
                      NEW i \in DOMAIN v[u], NEW j \in DOMAIN v[r],
                      v[u][i].name = "free", v[r][j] = v[u][i]
               PROVE  u = r /\ i = j
    BY DEF FreeOnce
  <2>1. \A k \in DOMAIN w[u], l \in DOMAIN w[r] :
           w[u][k].name = "free" /\ w[r][l] = w[u][k] => u = r /\ k = l
    BY <1>7 DEF FreeOnce
  <2>2. \/ u = t /\ i = 1 /\ v[u][i] = c
        \/ u = t /\ i - 1 \in DOMAIN w[u] /\ v[u][i] = w[u][i - 1] /\ i \in Int
        \/ u # t /\ i \in DOMAIN w[u] /\ v[u][i] = w[u][i]
    BY <1>3
  <2>3. \/ r = t /\ j = 1 /\ v[r][j] = c
        \/ r = t /\ j - 1 \in DOMAIN w[r] /\ v[r][j] = w[r][j - 1] /\ j \in Int
        \/ r # t /\ j \in DOMAIN w[r] /\ v[r][j] = w[r][j]
    BY <1>3
  <2> QED BY <1>5, <1>7, <2>1, <2>2, <2>3
<1> QED BY <1>2, <1>4, <1>6, <1>7 DEF v

\* Thread t returns from its innermost call.
LEMMA Returning ==
  ASSUME NEW w \in [Threads -> Seq(Calls)], NEW t \in Threads, w[t] # <<>>, Once(w)
  PROVE  LET v == [w EXCEPT ![t] = Tail(@)]
         IN  /\ v \in [Threads -> Seq(Calls)]
             /\ Head(w[t]) \in AllCalls(w) /\ Head(w[t]) \in Calls
             /\ AllCalls(v) \subseteq AllCalls(w)
             /\ \A d \in AllCalls(v) : d.on # Head(w[t]).on
             /\ \A d \in AllCalls(w) : d # Head(w[t]) => d \in AllCalls(v)
             /\ Once(v) /\ FreeOnce(v)
<1> DEFINE v == [w EXCEPT ![t] = Tail(@)]
           n == Len(w[t])
           c == Head(w[t])
<1>1. /\ v[t] \in Seq(Calls) /\ c \in Calls /\ c = w[t][1]
      /\ DOMAIN v[t] = 1..(n - 1) /\ DOMAIN w[t] = 1..n /\ n \in Nat \ {0}
      /\ \A i \in 1..(n - 1) : v[t][i] = w[t][i + 1]
  <2>1. w[t] \in Seq(Calls) /\ v[t] = Tail(w[t])
    OBVIOUS
  <2> HIDE DEF v
  <2>2. /\ v[t] \in Seq(Calls) /\ c \in Calls /\ c = w[t][1]
        /\ Len(v[t]) = n - 1 /\ n \in Nat \ {0}
        /\ \A i \in 1..(n - 1) : v[t][i] = w[t][i + 1]
    BY <2>1, Popped
  <2>3. DOMAIN v[t] = 1..Len(v[t]) /\ DOMAIN w[t] = 1..n
    BY <2>1, <2>2
  <2> QED BY <2>2, <2>3
<1>2. v \in [Threads -> Seq(Calls)] /\ \A u \in Threads : u # t => v[u] = w[u]
  BY <1>1
<1> HIDE DEF v, n, c
<1>3. 1 \in DOMAIN w[t] /\ c \in AllCalls(w)
  BY <1>1 DEF AllCalls, Unfinished
\* The place in w of what is left.
<1>4. ASSUME NEW u \in Threads, NEW i \in DOMAIN v[u]
      PROVE  LET k == IF u = t THEN i + 1 ELSE i
             IN  /\ k \in DOMAIN w[u] /\ v[u][i] = w[u][k]
                 /\ u = t => i \in Int /\ k # 1
  <2>1. CASE u = t
    <3>1. i \in 1..(n - 1) /\ i + 1 \in 1..n /\ i + 1 # 1 /\ i \in Int
      BY <1>1, <1>4, <2>1
    <3> QED BY <1>1, <2>1, <3>1
  <2>2. CASE u # t
    BY <1>2, <1>4, <2>2
  <2> QED BY <2>1, <2>2
<1>5. ASSUME NEW u \in Threads, NEW i \in DOMAIN v[u]
      PROVE  v[u][i] \in AllCalls(w) /\ v[u][i].on # c.on
  <2> DEFINE k == IF u = t THEN i + 1 ELSE i
  <2>1. k \in DOMAIN w[u] /\ v[u][i] = w[u][k] /\ (u = t => k # 1)
    BY <1>4
  <2> HIDE DEF k
  <2>2. w[u][k].on = w[t][1].on => u = t /\ k = 1
    BY <1>3, <2>1 DEF Once
  <2> QED BY <1>1, <2>1, <2>2 DEF AllCalls, Unfinished
<1>6. AllCalls(v) \subseteq AllCalls(w) /\ \A d \in AllCalls(v) : d.on # c.on
  <2> SUFFICES ASSUME NEW d \in AllCalls(v) PROVE d \in AllCalls(w) /\ d.on # c.on
    OBVIOUS
  <2>1a. PICK u \in Threads : \E i \in DOMAIN v[u] : d = v[u][i]
    BY DEF AllCalls, Unfinished
  <2>1. PICK i \in DOMAIN v[u] : d = v[u][i]
    BY <2>1a
  <2> QED BY <1>5, <2>1
<1>7. ASSUME NEW d \in AllCalls(w), d # c PROVE d \in AllCalls(v)
  <2>1a. PICK u \in Threads : \E i \in DOMAIN w[u] : d = w[u][i]
    BY DEF AllCalls, Unfinished
  <2>1. PICK i \in DOMAIN w[u] : d = w[u][i]
    BY <2>1a
  <2>2. CASE u = t
    <3>1. i # 1 /\ i \in 1..n
      BY <1>1, <1>7, <2>1, <2>2
    <3>2. i - 1 \in 1..(n - 1) /\ (i - 1) + 1 = i
      BY <1>1, <3>1
    <3>3. i - 1 \in DOMAIN v[t] /\ v[t][i - 1] = d
      BY <1>1, <2>1, <2>2, <3>2
    <3> QED BY <3>3 DEF AllCalls, Unfinished
  <2>3. CASE u # t
    BY <1>2, <2>1, <2>3 DEF AllCalls, Unfinished
  <2> QED BY <2>2, <2>3
<1>8. Once(v)
  <2> SUFFICES ASSUME NEW u \in Threads, NEW r \in Threads,
                      NEW i \in DOMAIN v[u], NEW j \in DOMAIN v[r],
                      v[u][i].on = v[r][j].on
               PROVE  u = r /\ i = j
    BY DEF Once
  <2> DEFINE k == IF u = t THEN i + 1 ELSE i
             l == IF r = t THEN j + 1 ELSE j
  <2>1. k \in DOMAIN w[u] /\ v[u][i] = w[u][k] /\ (u = t => i \in Int)
    BY <1>4
  <2>2. l \in DOMAIN w[r] /\ v[r][j] = w[r][l] /\ (r = t => j \in Int)
    BY <1>4
  <2>3. u = r /\ k = l
    <3> HIDE DEF k, l
    <3> QED BY <2>1, <2>2 DEF Once
  <2> QED BY <2>1, <2>2, <2>3
<1>9. FreeOnce(v)
  BY <1>8 DEF Once, FreeOnce
<1> QED BY <1>1, <1>2, <1>3, <1>6, <1>7, <1>8, <1>9 DEF v, c
-----------------------------------------------------------------------------
(* Counting: what a step does to the counts, given what it does to Own.    *)

LEMMA Types ==
  ASSUME TypeOK
  PROVE  /\ status \in [Obj -> {"none", "live", "dying"}]
         /\ refcnt \in [Obj -> Nat]
         /\ Own \in [Places -> Obj \cup {NULL}]
         /\ floating \in [Threads -> Obj \cup {NULL}]
         /\ leaked \subseteq Obj
         /\ NULL \notin Obj
  BY HeapAssumption DEF TypeOK, Own, Owned, Places

\* The types Counting is about.
CountTypes == /\ status \in [Obj -> {"none", "live", "dying"}]
              /\ refcnt \in [Obj -> Nat]
              /\ floating \in [Threads -> Obj \cup {NULL}]
              /\ leaked \subseteq Obj

\* A place counts a live object with a positive count, which is therefore
\* neither passed nor leaked.
LEMMA Referenced ==
  ASSUME TypeOK, Counting, NEW p \in Places, Own[p] # NULL
  PROVE  /\ Own[p] \in Obj /\ status[Own[p]] = "live"
         /\ refcnt[Own[p]] = Count(Own, Own[p])
         /\ refcnt[Own[p]] \in Nat /\ refcnt[Own[p]] >= 1
         /\ Own[p] \notin leaked
         /\ \A u \in Threads : floating[u] # Own[p]
<1>1. Own[p] \in Obj /\ status[Own[p]] = "live"
  BY Types DEF Counting, OwnedLive
<1>2. refcnt[Own[p]] = Count(Own, Own[p])
  BY <1>1 DEF Counting, Counted
<1>3. Count(Own, Own[p]) >= 1 /\ refcnt[Own[p]] \in Nat
  BY <1>1, Types, CountPositive
<1> QED BY <1>1, <1>2, <1>3 DEF Counting, Uncounted

\* What a container call needs of the item o it stores, and what it may do to
\* floating: o is taken from it, if it was there.
Takes(o) ==
    /\ floating' \in [Threads -> Obj \cup {NULL}]
    /\ \A u \in Threads : floating'[u] \in {floating[u], NULL} /\ floating'[u] # o
    /\ \A u \in Threads : floating[u] # o => floating'[u] = floating[u]

LEMMA Taking ==
  ASSUME TypeOK, Counting, NEW o \in Obj, UNCHANGED leaked, Takes(o)
  PROVE  /\ \A u \in Threads : floating'[u] # NULL =>
               /\ floating'[u] \in Obj /\ floating'[u] # o
               /\ status[floating'[u]] = "live" /\ refcnt[floating'[u]] = 0
         /\ \A u \in Threads : floating'[u] \notin leaked'
         /\ \A u, v \in Threads :
               floating'[u] = floating'[v] /\ floating'[u] # NULL => u = v
  BY Types DEF Counting, Uncounted, Takes

\* A place that counted nothing counts o.
LEMMA Gaining ==
  ASSUME TypeOK, Counting, NEW p \in Places, NEW o \in Obj,
         Own[p] = NULL, Own' = [Own EXCEPT ![p] = o],
         status[o] = "live", o \notin leaked, Takes(o),
         refcnt' = Retained(o), UNCHANGED <<status, leaked>>
  PROVE  Counting' /\ CountTypes'
<1>1. /\ refcnt' \in [Obj -> Nat]
      /\ refcnt[o] \in Nat /\ refcnt'[o] = refcnt[o] + 1
      /\ \A x \in Obj : x # o => refcnt'[x] = refcnt[x]
  BY Types DEF Retained
<1>2. /\ Count(Own', o) = Count(Own, o) + 1
      /\ \A x \in Obj : x # o => Count(Own', x) = Count(Own, x)
  <2>1. Own[p] # o /\ o \in Obj \cup {NULL}
    BY Types
  <2>2. /\ Count([Own EXCEPT ![p] = o], o) = Count(Own, o) + 1
        /\ \A x : x # o /\ x # Own[p] => Count([Own EXCEPT ![p] = o], x) = Count(Own, x)
    BY <2>1, Types, CountPoint
  <2> QED BY <2>2, Types
<1>3. OwnedLive'
  BY Types DEF Counting, OwnedLive
<1>4. Counted'
  BY <1>1, <1>2 DEF Counting, Counted
<1>5. Uncounted'
  BY <1>1, Taking, Types DEF Counting, Uncounted
<1>6. NothingForgotten'
  BY <1>1 DEF Counting, NothingForgotten, Takes
<1> QED BY <1>1, <1>3, <1>4, <1>5, <1>6, Types DEF Counting, CountTypes, Takes

\* Place p counts o, or nothing, and not q any more, which is released.
LEMMA Replacing ==
  ASSUME TypeOK, Counting, NEW p \in Places, NEW o \in Obj \cup {NULL},
         NEW q, q = Own[p], q # NULL, Own' = [Own EXCEPT ![p] = o],
         o = NULL => UNCHANGED floating,
         o # NULL => status[o] = "live" /\ o \notin leaked /\ Takes(o),
         NEW counts, counts = IF o = NULL THEN refcnt ELSE Retained(o),
         refcnt' = [counts EXCEPT ![q] = @ - 1],
         status' = IF counts[q] = 1 THEN [status EXCEPT ![q] = "dying"] ELSE status,
         UNCHANGED leaked
  PROVE  Counting' /\ CountTypes'
<1>1. /\ q \in Obj /\ status[q] = "live" /\ q \notin leaked
      /\ refcnt[q] = Count(Own, q) /\ refcnt[q] \in Nat /\ refcnt[q] >= 1
      /\ \A u \in Threads : floating[u] # q
  BY Referenced
<1>2. /\ counts \in [Obj -> Nat]
      /\ o # NULL => counts[o] = refcnt[o] + 1
      /\ \A x \in Obj : x # o => counts[x] = refcnt[x]
  BY Types DEF Retained
<1>3. CASE o = q
  <2>1. /\ Own' = Own /\ UNCHANGED <<status, refcnt>>
    <3>1. Own' = Own
      BY <1>3, Types
    <3>2. counts[q] = refcnt[q] + 1 /\ counts[q] # 1
      BY <1>1, <1>2, <1>3
    <3>3. refcnt' = [counts EXCEPT ![q] = refcnt[q]] /\ refcnt' = refcnt
      <4>1. \A x \in Obj : refcnt'[x] = refcnt[x]
        BY <1>1, <1>2, <1>3, <3>2
      <4> QED BY <1>1, <1>2, <1>3, <3>2, <4>1, Types
    <3> QED BY <3>1, <3>2, <3>3
  <2>2. o \in Obj /\ Takes(o)
    BY <1>1, <1>3
  <2>3. OwnedLive' /\ Counted'
    <3>1. OwnedLive' BY <2>1 DEF Counting, OwnedLive
    <3>2. Counted' BY <2>1 DEF Counting, Counted
    <3> QED BY <3>1, <3>2
  <2>4. Uncounted'
    BY <2>1, <2>2, Taking DEF Counting, Uncounted
  <2>5. NothingForgotten'
    <3> SUFFICES ASSUME NEW x \in Obj, status'[x] = "live", refcnt'[x] = 0
                 PROVE  x \in leaked' \/ \E u \in Threads : floating'[u] = x
      BY DEF NothingForgotten
    <3>1. status[x] = "live" /\ refcnt[x] = 0
      BY <2>1
    <3>2. x # o
      <4>1. refcnt[o] # 0
        BY <1>1, <1>3
      <4> QED BY <3>1, <4>1
    <3> QED BY <2>2, <3>1, <3>2 DEF Counting, NothingForgotten, Takes
  <2> QED BY <2>1, <2>2, <2>3, <2>4, <2>5, Types DEF Counting, CountTypes, Takes
<1>4. CASE o # q
  <2>1. /\ Own' \in [Places -> Obj \cup {NULL}]
        /\ Count(Own', q) = refcnt[q] - 1
        /\ o # NULL => Count(Own', o) = Count(Own, o) + 1
        /\ \A x \in Obj : x # o /\ x # q => Count(Own', x) = Count(Own, x)
    <3>1. Own[p] # o /\ Own \in [Places -> Obj \cup {NULL}]
      BY <1>4, Types
    <3>2. /\ Count([Own EXCEPT ![p] = o], o) = Count(Own, o) + 1
          /\ Count([Own EXCEPT ![p] = o], Own[p]) = Count(Own, Own[p]) - 1
          /\ \A x : x # o /\ x # Own[p] => Count([Own EXCEPT ![p] = o], x) = Count(Own, x)
      BY <3>1, CountPoint
    <3> QED BY <1>1, <3>1, <3>2
  <2>2. /\ refcnt' \in [Obj -> Nat]
        /\ refcnt'[q] = refcnt[q] - 1
        /\ o # NULL => refcnt'[o] = refcnt[o] + 1 /\ refcnt[o] \in Nat
        /\ \A x \in Obj : x # o /\ x # q => refcnt'[x] = refcnt[x]
        /\ counts[q] = refcnt[q]
    BY <1>1, <1>2, <1>4, Types
  <2>3. /\ \A u \in Threads : floating'[u] # NULL =>
              /\ floating'[u] \in Obj /\ floating'[u] # o /\ floating'[u] # q
              /\ status[floating'[u]] = "live" /\ refcnt[floating'[u]] = 0
        /\ \A u \in Threads : floating'[u] \notin leaked'
        /\ \A u, v \in Threads :
              floating'[u] = floating'[v] /\ floating'[u] # NULL => u = v
        /\ floating' \in [Threads -> Obj \cup {NULL}]
        /\ \A u \in Threads : floating[u] # o \/ o = NULL => floating'[u] = floating[u]
    <3>1. CASE o = NULL
      BY <1>1, <3>1, Types DEF Counting, Uncounted
    <3>2. CASE o # NULL
      <4>1. \A u \in Threads : floating'[u] # q
        BY <1>1, <3>2 DEF Takes
      <4> QED BY <3>2, <4>1, Taking DEF Takes
    <3> QED BY <3>1, <3>2
  <2>4. leaked \subseteq Obj /\ \A x \in leaked : status[x] = "live" /\ refcnt[x] = 0
    BY Types DEF Counting, Uncounted
  <2>5. Counted'
    <3>1. \A x \in Obj : status'[x] # "none" => status[x] # "none"
      BY <1>1, Types
    <3>2. \A x \in Obj : status[x] # "none" => refcnt'[x] = Count(Own', x)
      BY <1>1, <2>1, <2>2, Types DEF Counting, Counted
    <3> QED BY <3>1, <3>2 DEF Counted
  <2>6. CASE counts[q] = 1
    <3>1. /\ status' \in [Obj -> {"none", "live", "dying"}]
          /\ status'[q] = "dying"
          /\ \A x \in Obj : x # q => status'[x] = status[x]
      BY <1>1, <2>6, Types
    <3>2. \A r \in Places : Own'[r] # q
      <4>1. Count(Own', q) = 0
        BY <2>1, <2>2, <2>6
      <4> QED BY <2>1, <4>1, CountZero
    <3>3. OwnedLive'
      BY <1>1, <2>1, <3>1, <3>2, Types DEF Counting, OwnedLive
    <3>4. Uncounted'
      <4>1. \A x \in leaked : x # q /\ x # o
        BY <1>1, Types
      <4>2. refcnt'[q] = 0
        BY <2>2, <2>6
      <4>3. \A x \in Obj : status'[x] = "dying" => refcnt'[x] = 0
        BY <2>2, <3>1, <4>2 DEF Counting, Uncounted
      <4>4. \A x \in leaked : status'[x] = "live" /\ refcnt'[x] = 0
        BY <2>2, <2>4, <3>1, <4>1
      <4>5. \A u \in Threads : floating'[u] # NULL =>
               status'[floating'[u]] = "live" /\ refcnt'[floating'[u]] = 0
        BY <2>2, <2>3, <3>1
      <4> QED BY <2>3, <4>3, <4>4, <4>5 DEF Uncounted
    <3>5. NothingForgotten'
      <4> SUFFICES ASSUME NEW x \in Obj, status'[x] = "live", refcnt'[x] = 0
                   PROVE  x \in leaked' \/ \E u \in Threads : floating'[u] = x
        BY DEF NothingForgotten
      <4>1. x # q /\ x # o
        BY <2>2, <3>1, Types
      <4> QED BY <2>2, <2>3, <3>1, <4>1 DEF Counting, NothingForgotten
    <3> QED BY <2>2, <2>3, <2>4, <2>5, <3>1, <3>3, <3>4, <3>5 DEF Counting, CountTypes
  <2>7. CASE counts[q] # 1
    <3>1. UNCHANGED status
      BY <2>7
    <3>2. OwnedLive'
      BY <1>4, <2>1, <3>1, Types DEF Counting, OwnedLive
    <3>3. Uncounted'
      <4>1. \A x \in leaked : x # q /\ x # o
        BY <1>1, Types
      <4>2. \A x \in Obj : status'[x] = "dying" => refcnt'[x] = 0
        BY <1>1, <2>2, <3>1 DEF Counting, Uncounted
      <4>3. \A x \in leaked : status'[x] = "live" /\ refcnt'[x] = 0
        BY <2>2, <2>4, <3>1, <4>1
      <4>4. \A u \in Threads : floating'[u] # NULL =>
               status'[floating'[u]] = "live" /\ refcnt'[floating'[u]] = 0
        BY <2>2, <2>3, <3>1
      <4> QED BY <2>3, <4>2, <4>3, <4>4 DEF Uncounted
    <3>4. NothingForgotten'
      <4> SUFFICES ASSUME NEW x \in Obj, status'[x] = "live", refcnt'[x] = 0
                   PROVE  x \in leaked' \/ \E u \in Threads : floating'[u] = x
        BY DEF NothingForgotten
      <4>1. x # q /\ x # o
        BY <1>1, <2>2, <2>7, Types
      <4> QED BY <2>2, <2>3, <3>1, <4>1 DEF Counting, NothingForgotten
    <3> QED BY <2>2, <2>3, <2>4, <2>5, <3>1, <3>2, <3>3, <3>4, Types DEF Counting, CountTypes
  <2> QED BY <2>6, <2>7
<1> QED BY <1>3, <1>4

\* A step that changes nothing of it.
LEMMA Resting ==
  ASSUME TypeOK, Counting, UNCHANGED <<status, refcnt, Own, floating, leaked>>
  PROVE  Counting' /\ CountTypes'
<1>1. OwnedLive'
  BY DEF Counting, OwnedLive
<1>2. Counted'
  BY DEF Counting, Counted
<1>3. Uncounted'
  BY DEF Counting, Uncounted
<1>4. NothingForgotten'
  BY DEF Counting, NothingForgotten
<1>5. CountTypes'
  BY Types DEF CountTypes
<1> QED BY <1>1, <1>2, <1>3, <1>4, <1>5 DEF Counting

\* The memory of a dying object is freed.
LEMMA Freed ==
  ASSUME TypeOK, Counting, NEW o \in Obj, status[o] = "dying",
         status' = [status EXCEPT ![o] = "none"],
         UNCHANGED <<refcnt, Own, floating, leaked>>
  PROVE  Counting' /\ CountTypes'
<1>1. /\ status' \in [Obj -> {"none", "live", "dying"}]
      /\ status'[o] = "none"
      /\ \A x \in Obj : x # o => status'[x] = status[x]
  BY Types
<1>2. OwnedLive'
  BY <1>1, Types DEF Counting, OwnedLive
<1>3. Counted'
  BY <1>1 DEF Counting, Counted
<1>4. Uncounted'
  BY <1>1, Types DEF Counting, Uncounted
<1>5. NothingForgotten'
  BY <1>1 DEF Counting, NothingForgotten
<1> QED BY <1>1, <1>2, <1>3, <1>4, <1>5, Types DEF Counting, CountTypes
-----------------------------------------------------------------------------
(* Calling: what a step does to the unfinished calls.                      *)

LEMMA CallOn ==
  ASSUME NEW w, NEW o
  PROVE  InCall(w, o) <=> \E c \in AllCalls(w) : c.on = o
  BY DEF InCall, AllCalls

\* Between calls that are where they should be, a live object is released.
LEMMA CallsAfterRelease ==
  ASSUME NEW t \in Threads, NEW counts, NEW q \in Obj,
         NEW w \in [Threads -> Seq(Calls)],
         status \in [Obj -> {"none", "live", "dying"}], status[q] = "live",
         Once(w), FreeOnce(w),
         \A c \in AllCalls(w) : /\ c.name = "free" => status[c.on] = "dying"
                                /\ c.name # "free" => status[c.on] = "live",
         reentered = NULL,
         Dy_Release(t, counts, q, w)
  PROVE  /\ work' \in [Threads -> Seq(Calls)] /\ reentered' \in Obj \cup {NULL}
         /\ AllCalls(w) \subseteq AllCalls(work')
         /\ \A c \in AllCalls(work') : c.name # "free" => c \in AllCalls(w)
         /\ CallStates' /\ Reentry' /\ FreeOnce(work')
         /\ reentered' = NULL => Once(work')
<1>1. NULL \notin Obj /\ \A c \in AllCalls(w) : c \in Calls /\ c.on \in Obj
  BY HeapAssumption, CallsAreCalls DEF Calls
<1>2. CASE counts[q] # 1
  <2>1. work' = w /\ status' = status /\ reentered' = NULL
    BY <1>2 DEF Dy_Release
  <2> QED BY <2>1 DEF CallStates, Reentry
<1>3. CASE counts[q] = 1
  <2> DEFINE f == FreeCall(q)
  <2>1. f \in Calls /\ f.name = "free" /\ f.on = q
    BY DEF FreeCall, Calls
  <2>2. /\ work' = [w EXCEPT ![t] = <<f>> \o @]
        /\ status' = [status EXCEPT ![q] = "dying"]
        /\ reentered' = IF InCall(w, q) THEN q ELSE NULL
    BY <1>3 DEF Dy_Release
  <2> HIDE DEF f
  <2>3. f \notin AllCalls(w)
    BY <2>1
  <2>4. /\ work' \in [Threads -> Seq(Calls)]
        /\ AllCalls(work') = AllCalls(w) \cup {f}
        /\ (\A d \in AllCalls(w) : d.on # f.on) => Once(work')
        /\ FreeOnce(work')
    BY <2>1, <2>2, <2>3, Beginning
  <2>5. /\ status'[q] = "dying"
        /\ \A x \in Obj : x # q => status'[x] = status[x]
    BY <2>2
  <2>6. InCall(w, q) <=> \E c \in AllCalls(w) : c.on = q
    BY CallOn
  <2>7. CallStates'
    <3> SUFFICES ASSUME NEW c \in AllCalls(work')
                 PROVE  /\ c.name = "free" => status'[c.on] = "dying"
                        /\ c.name # "free" => status'[c.on] = "live" \/ reentered' = c.on
      BY DEF CallStates
    <3>1. CASE c = f
      BY <2>1, <2>5, <3>1
    <3>2. CASE c \in AllCalls(w) /\ c.on # q
      BY <1>1, <2>5, <3>2
    <3>3. CASE c \in AllCalls(w) /\ c.on = q
      BY <2>2, <2>5, <2>6, <3>3
    <3> QED BY <2>4, <3>1, <3>2, <3>3
  <2>8. Reentry'
    <3>1. CASE \E c \in AllCalls(w) : c.on = q
      <4>1. PICK c \in AllCalls(w) : c.on = q
        BY <3>1
      <4>2. c.name # "free" /\ c \in AllCalls(work') /\ reentered' = q
        BY <2>2, <2>4, <2>6, <4>1
      <4> QED BY <4>1, <4>2 DEF Reentry
    <3>2. CASE ~\E c \in AllCalls(w) : c.on = q
      BY <2>2, <2>6, <3>2 DEF Reentry
    <3> QED BY <3>1, <3>2
  <2>9. reentered' = NULL => Once(work')
    BY <1>1, <2>1, <2>2, <2>4, <2>6
  <2> QED BY <1>1, <2>1, <2>2, <2>4, <2>7, <2>8, <2>9
<1> QED BY <1>2, <1>3

\* Nothing is reentered yet.
LEMMA BetweenCalls ==
  ASSUME IInv, reentered = NULL
  PROVE  /\ work \in [Threads -> Seq(Calls)] /\ Once(work) /\ FreeOnce(work)
         /\ \A c \in AllCalls(work) : /\ c \in Calls /\ c.on \in Obj
                                      /\ c.name = "free" => status[c.on] = "dying"
                                      /\ c.name # "free" => status[c.on] = "live"
<1>1. work \in [Threads -> Seq(Calls)] /\ AllCalls(work) \subseteq Calls
  BY CallsAreCalls DEF IInv, TypeOK
<1>2. \A c \in AllCalls(work) : c.on \in Obj
  BY <1>1 DEF Calls
<1> QED BY <1>1, <1>2, HeapAssumption DEF IInv, Calling, CallStates

\* A step that makes no call and ends none.
LEMMA CallsRest ==
  ASSUME IInv, reentered = NULL,
         UNCHANGED <<status, stale, pending, work, reentered>>
  PROVE  Calling'
<1>1. PendingHasCall' /\ StaleHasCall' /\ SetCallsAreStale'
  BY DEF IInv, Calling, PendingHasCall, StaleHasCall, SetCallsAreStale, Releases, SetCall
<1>2. CallStates' /\ Reentry' /\ FreeOnce(work') /\ (reentered' = NULL => Once(work'))
  BY DEF IInv, Calling, CallStates, Reentry
<1> QED BY <1>1, <1>2 DEF Calling

\* The slots of a container no call is unfinished on are not stale.
LEMMA NotStale ==
  ASSUME IInv, NEW p \in Slots, ~InCall(work, ContainerOf[p])
  PROVE  p \notin stale /\ pending[p] = NULL /\ Own[p] = at[p] /\ p \in Places
<1>1. p \notin stale
  BY CallOn DEF IInv, Calling, StaleHasCall, Releases
<1> QED BY <1>1 DEF IInv, Calling, PendingHasCall, Own, Owned, Places

LEMMA HandleOwns ==
  ASSUME TypeOK, NEW h \in Handles
  PROVE  h \in Places /\ h \notin stale /\ Own[h] = at[h]
  BY HeapAssumption DEF TypeOK, Own, Owned, Places

\* What is shown by a place that is not stale is what it counts.
LEMMA OwnChanges ==
  ASSUME TypeOK, NEW p \in Places, p \notin stale, NEW x,
         at' = [at EXCEPT ![p] = x], UNCHANGED <<stale, pending>>
  PROVE  Own' = [Own EXCEPT ![p] = x]
<1>1. at \in [Places -> Obj \cup {NULL}]
  BY DEF TypeOK
<1>2. \A r \in Places : Own'[r] = IF r = p THEN x ELSE Own[r]
  BY <1>1 DEF Own, Owned
<1> QED BY <1>2 DEF Own

LEMMA OwnRests ==
  ASSUME UNCHANGED <<at, stale, pending>>
  PROVE  Own' = Own
  BY DEF Own, Owned
-----------------------------------------------------------------------------
(* The steps of a client.                                                  *)

LEMMA Creating ==
  ASSUME IInv, reentered = NULL, NEW t \in Threads, NEW h \in Handles, NEW o \in Obj,
         New(t, h, o)
  PROVE  IInv'
<1>1. /\ h \in Places /\ h \notin stale /\ Own[h] = NULL
      /\ at' = [at EXCEPT ![h] = o] /\ at \in [Places -> Obj \cup {NULL}]
      /\ Own \in [Places -> Obj \cup {NULL}]
  BY HandleOwns, Types DEF New, IInv, TypeOK
<1>2. /\ status[o] = "none"
      /\ status' = [status EXCEPT ![o] = "live"]
      /\ refcnt' = [refcnt EXCEPT ![o] = 1]
      /\ UNCHANGED <<stale, pending, floating, leaked, work, reentered>>
  BY DEF New
<1>3. Own' = [Own EXCEPT ![h] = o]
  BY <1>1, <1>2, OwnChanges DEF IInv
<1>4. /\ status' \in [Obj -> {"none", "live", "dying"}]
      /\ status'[o] = "live"
      /\ \A x \in Obj : x # o => status'[x] = status[x]
      /\ refcnt' \in [Obj -> Nat]
      /\ refcnt'[o] = 1
      /\ \A x \in Obj : x # o => refcnt'[x] = refcnt[x]
  BY <1>2, Types DEF IInv
<1>5. /\ NULL \notin Obj
      /\ \A r \in Places : Own[r] # o
      /\ o \notin leaked /\ \A u \in Threads : floating[u] # o
  BY <1>2, HeapAssumption DEF IInv, Counting, OwnedLive, Uncounted
<1>6. /\ Count(Own', o) = 1
      /\ \A x \in Obj : x # o => Count(Own', x) = Count(Own, x)
  <2>1. Own[h] # o /\ o \in Obj \cup {NULL}
    BY <1>1, <1>5
  <2>2. /\ Count([Own EXCEPT ![h] = o], o) = Count(Own, o) + 1
        /\ \A x : x # o /\ x # Own[h] => Count([Own EXCEPT ![h] = o], x) = Count(Own, x)
    BY <1>1, <2>1, CountPoint
  <2>3. Count(Own, o) = 0
    BY <1>5, FS_EmptySet DEF Count
  <2>4. Count(Own', o) = 1
    BY <1>3, <2>2, <2>3
  <2>5. ASSUME NEW x \in Obj, x # o PROVE Count(Own', x) = Count(Own, x)
    BY <1>1, <1>3, <1>5, <2>2, <2>5
  <2> QED BY <2>4, <2>5
<1>7. OwnedLive'
  BY <1>1, <1>3, <1>4, <1>5 DEF IInv, Counting, OwnedLive
<1>8. Counted'
  BY <1>4, <1>6 DEF IInv, Counting, Counted
<1>9. Uncounted'
  BY <1>2, <1>4, <1>5, Types DEF IInv, Counting, Uncounted
<1>10. NothingForgotten'
  BY <1>2, <1>4 DEF IInv, Counting, NothingForgotten
<1>11. TypeOK'
  <2>1. at' \in [Places -> Obj \cup {NULL}]
    BY <1>1
  <2> QED BY <1>2, <1>4, <2>1 DEF IInv, TypeOK
<1>12. Calling'
  <2>1. PendingHasCall' /\ StaleHasCall' /\ SetCallsAreStale'
    BY <1>2 DEF IInv, Calling, PendingHasCall, StaleHasCall, SetCallsAreStale, Releases, SetCall
  <2>2. CallStates'
    BY <1>2, <1>4, BetweenCalls DEF CallStates
  <2>3. Reentry' /\ FreeOnce(work') /\ (reentered' = NULL => Once(work'))
    BY <1>2 DEF IInv, Calling, Reentry
  <2> QED BY <2>1, <2>2, <2>3 DEF Calling
<1> QED BY <1>7, <1>8, <1>9, <1>10, <1>11, <1>12 DEF IInv, Counting

LEMMA Retaining ==
  ASSUME IInv, reentered = NULL, NEW t \in Threads, NEW p \in Places, NEW h \in Handles,
         Dy_Retain(t, p, h)
  PROVE  IInv'
<1> DEFINE o == at[p]
<1>1. /\ h \in Places /\ h \notin stale /\ Own[h] = NULL
      /\ at' = [at EXCEPT ![h] = o] /\ o # NULL
      /\ refcnt' = Retained(o)
      /\ UNCHANGED <<status, stale, pending, floating, leaked, work, reentered>>
      /\ at \in [Places -> Obj \cup {NULL}]
  BY HandleOwns DEF Dy_Retain, IInv, TypeOK
<1>2. Own[p] = o
  <2>1. CASE p \in Handles
    BY <2>1, HandleOwns DEF IInv
  <2>2. CASE p \in Slots /\ MayUse(t, ContainerOf[p])
    BY <2>2, NotStale DEF MayUse
  <2> QED BY <2>1, <2>2 DEF Dy_Retain
<1>3. /\ o \in Obj /\ status[o] = "live" /\ o \notin leaked
      /\ \A u \in Threads : floating[u] # o
  BY <1>1, <1>2, Referenced DEF IInv
<1>4. Own' = [Own EXCEPT ![h] = o]
  BY <1>1, OwnChanges DEF IInv
<1> HIDE DEF o
<1>5. Takes(o)
  BY <1>1, <1>3, Types DEF Takes, IInv
<1>6. Counting' /\ CountTypes'
  BY <1>1, <1>3, <1>4, <1>5, Gaining DEF IInv
<1>7. at' \in [Places -> Obj \cup {NULL}]
  BY <1>1, <1>3
<1>8. TypeOK'
  BY <1>1, <1>6, <1>7 DEF TypeOK, CountTypes, IInv
<1> QED BY <1>1, <1>6, <1>8, CallsRest DEF IInv

\* The reference of a variable, or of the slot of a deleted entry, is released.
LEMMA Dropping ==
  ASSUME IInv, reentered = NULL, NEW t \in Threads, NEW p \in Places,
         p \notin stale, at[p] # NULL, at' = [at EXCEPT ![p] = NULL],
         Dy_Release(t, refcnt, at[p], work),
         UNCHANGED <<stale, pending, floating, leaked>>
  PROVE  IInv'
<1> DEFINE q == at[p]
<1>1. q = Own[p] /\ q # NULL /\ Own' = [Own EXCEPT ![p] = NULL]
  BY OwnChanges DEF Own, Owned, IInv
<1>2. q \in Obj /\ status[q] = "live"
  BY <1>1, Referenced DEF IInv
<1>3. /\ refcnt' = [refcnt EXCEPT ![q] = @ - 1]
      /\ status' = IF refcnt[q] = 1 THEN [status EXCEPT ![q] = "dying"] ELSE status
  BY DEF Dy_Release
<1>4. Counting' /\ CountTypes'
  <2> HIDE DEF q
  <2> QED BY <1>1, <1>3, Replacing DEF IInv
<1>5. /\ work' \in [Threads -> Seq(Calls)] /\ reentered' \in Obj \cup {NULL}
      /\ AllCalls(work) \subseteq AllCalls(work')
      /\ \A c \in AllCalls(work') : c.name # "free" => c \in AllCalls(work)
      /\ CallStates' /\ Reentry' /\ FreeOnce(work')
      /\ reentered' = NULL => Once(work')
  <2> HIDE DEF q
  <2>1. Dy_Release(t, refcnt, q, work) /\ status \in [Obj -> {"none", "live", "dying"}]
    BY Types DEF q, IInv
  <2> QED BY <1>2, <2>1, BetweenCalls, CallsAfterRelease
<1>6. Calling'
  <2>1. PendingHasCall' /\ StaleHasCall'
    BY <1>5 DEF IInv, Calling, PendingHasCall, StaleHasCall, Releases, SetCall
  <2>2. SetCallsAreStale'
    BY <1>5 DEF IInv, Calling, SetCallsAreStale
  <2> QED BY <1>5, <2>1, <2>2 DEF Calling
<1>7. at' \in [Places -> Obj \cup {NULL}]
  BY DEF IInv, TypeOK
<1>8. TypeOK'
  BY <1>4, <1>5, <1>7 DEF TypeOK, CountTypes, IInv
<1> QED BY <1>4, <1>6, <1>8 DEF IInv
LEMMA Clearing ==
  ASSUME IInv, reentered = NULL, NEW t \in Threads, NEW c \in Obj, Clear(t, c)
  PROVE  IInv'
<1> DEFINE k == ClearCall(c)
<1>1. k \in Calls /\ k.on = c /\ k.name = "clear"
  BY DEF ClearCall, Calls
<1>2. /\ work' = [work EXCEPT ![t] = <<k>> \o @]
      /\ UNCHANGED <<status, refcnt, at, stale, pending, floating, leaked, reentered>>
      /\ Holds(t, c) /\ ~InCall(work, c)
  BY DEF Clear, MayUse
<1> HIDE DEF k
<1>3. \A d \in AllCalls(work) : d.on # c
  BY <1>2, CallOn
<1>4. /\ work' \in [Threads -> Seq(Calls)]
      /\ AllCalls(work') = AllCalls(work) \cup {k}
      /\ Once(work') /\ FreeOnce(work')
  BY <1>1, <1>2, <1>3, BetweenCalls, Beginning
\* A thread holds live objects only.
<1>5. status[c] = "live"
  <2>1. PICK h \in Handles : at[h] = c
    BY <1>2 DEF Holds
  <2> QED BY <2>1, HandleOwns, Referenced, HeapAssumption DEF IInv
<1>6. Counting' /\ CountTypes'
  BY <1>2, OwnRests, Resting DEF IInv
<1>7. Calling'
  <2>1. PendingHasCall' /\ StaleHasCall'
    BY <1>2, <1>4 DEF IInv, Calling, PendingHasCall, StaleHasCall, Releases, SetCall
  <2>2. SetCallsAreStale'
    BY <1>1, <1>2, <1>4 DEF IInv, Calling, SetCallsAreStale
  <2>3. CallStates'
    BY <1>1, <1>2, <1>4, <1>5, BetweenCalls DEF CallStates
  <2>4. Reentry'
    BY <1>2 DEF Reentry
  <2> QED BY <1>4, <2>1, <2>2, <2>3, <2>4 DEF Calling
<1>8. TypeOK'
  BY <1>2, <1>4, <1>6 DEF TypeOK, CountTypes, IInv
<1> QED BY <1>6, <1>7, <1>8 DEF IInv

LEMMA Passing ==
  ASSUME IInv, reentered = NULL, NEW t \in Threads, NEW h \in Handles, Dy_Pass(t, h)
  PROVE  IInv'
<1> DEFINE o == at[h]
<1>1. /\ h \in Places /\ h \notin stale /\ Own[h] = o /\ o # NULL
      /\ at' = [at EXCEPT ![h] = NULL]
      /\ floating[t] = NULL
      /\ refcnt[o] = 1
      /\ refcnt' = [refcnt EXCEPT ![o] = 0]
      /\ floating' = [floating EXCEPT ![t] = o]
      /\ UNCHANGED <<status, stale, pending, leaked, work, reentered>>
  BY HandleOwns DEF Dy_Pass, IInv
<1>2. Own' = [Own EXCEPT ![h] = NULL]
  BY <1>1, OwnChanges DEF IInv
<1>3. /\ o \in Obj /\ status[o] = "live" /\ o \notin leaked
      /\ \A u \in Threads : floating[u] # o
      /\ refcnt[o] = Count(Own, o)
  BY <1>1, Referenced DEF IInv
<1>4. at' \in [Places -> Obj \cup {NULL}]
  BY <1>1 DEF IInv, TypeOK
<1> HIDE DEF o
<1>5. /\ Own' \in [Places -> Obj \cup {NULL}]
      /\ Count(Own', o) = 0
      /\ \A x \in Obj : x # o => Count(Own', x) = Count(Own, x)
  <2>1. h \in Places /\ Own[h] # NULL /\ Own \in [Places -> Obj \cup {NULL}]
        /\ NULL \in Obj \cup {NULL}
    BY <1>1, Types DEF IInv
  <2>2. /\ Count([Own EXCEPT ![h] = NULL], Own[h]) = Count(Own, Own[h]) - 1
        /\ \A x : x # NULL /\ x # Own[h] => Count([Own EXCEPT ![h] = NULL], x) = Count(Own, x)
    BY <2>1, CountPoint
  <2>3. Count(Own', o) = 0
    BY <1>1, <1>2, <1>3, <2>2
  <2>4. ASSUME NEW x \in Obj, x # o PROVE Count(Own', x) = Count(Own, x)
    BY <1>1, <1>2, <2>2, <2>4, HeapAssumption
  <2> QED BY <1>2, <2>1, <2>3, <2>4
<1>6. /\ refcnt' \in [Obj -> Nat]
      /\ refcnt'[o] = 0
      /\ \A x \in Obj : x # o => refcnt'[x] = refcnt[x]
      /\ floating' \in [Threads -> Obj \cup {NULL}]
      /\ floating'[t] = o
      /\ \A u \in Threads : u # t => floating'[u] = floating[u]
  BY <1>1, <1>3, Types DEF IInv
<1>7. OwnedLive'
  BY <1>1, <1>2, Types DEF IInv, Counting, OwnedLive
<1>8. Counted'
  BY <1>1, <1>5, <1>6 DEF IInv, Counting, Counted
<1>9. Uncounted'
  BY <1>1, <1>3, <1>6, Types DEF IInv, Counting, Uncounted
<1>10. NothingForgotten'
  BY <1>1, <1>6, HeapAssumption DEF IInv, Counting, NothingForgotten
<1>11. TypeOK'
  BY <1>1, <1>4, <1>6 DEF TypeOK, IInv
<1> QED BY <1>1, <1>7, <1>8, <1>9, <1>10, <1>11, CallsRest DEF IInv, Counting

LEMMA Leaking ==
  ASSUME IInv, reentered = NULL, NEW t \in Threads, SetItemPassedFails(t)
  PROVE  IInv'
<1>1. /\ floating[t] # NULL
      /\ leaked' = leaked \cup {floating[t]}
      /\ floating' = [floating EXCEPT ![t] = NULL]
      /\ UNCHANGED <<status, refcnt, at, stale, pending, work, reentered>>
  BY DEF SetItemPassedFails
<1>2. /\ floating'[t] = NULL
      /\ \A u \in Threads : u # t => floating'[u] = floating[u]
      /\ floating' \in [Threads -> Obj \cup {NULL}]
      /\ floating[t] \in Obj
      /\ Own' = Own
  BY <1>1, OwnRests, Types DEF IInv
<1>3. OwnedLive' /\ Counted'
  <2>1. OwnedLive' BY <1>1, <1>2 DEF IInv, Counting, OwnedLive
  <2>2. Counted' BY <1>1, <1>2 DEF IInv, Counting, Counted
  <2> QED BY <2>1, <2>2
<1>4. Uncounted'
  BY <1>1, <1>2, Types DEF IInv, Counting, Uncounted
<1>5. NothingForgotten'
  BY <1>1, <1>2 DEF IInv, Counting, NothingForgotten
<1>6. TypeOK'
  BY <1>1, <1>2 DEF TypeOK, IInv
<1> QED BY <1>1, <1>3, <1>4, <1>5, <1>6, CallsRest DEF IInv, Counting

LEMMA Reentering ==
  ASSUME IInv, reentered = NULL, NEW t \in Threads, NEW c \in Obj, Reenter(t, c)
  PROVE  IInv'
<1>1. /\ reentered' = c /\ Holds(t, c)
      /\ UNCHANGED <<status, refcnt, at, stale, pending, floating, leaked, work>>
      /\ \E k \in AllCalls(work) : k.on = c
  BY DEF Reenter, AllCalls
<1>2. status[c] = "live"
  <2>1. PICK h \in Handles : at[h] = c
    BY <1>1 DEF Holds
  <2> QED BY <2>1, HandleOwns, Referenced, HeapAssumption DEF IInv
<1>3. Counting' /\ CountTypes'
  BY <1>1, OwnRests, Resting DEF IInv
<1>4. PendingHasCall' /\ StaleHasCall' /\ SetCallsAreStale'
  BY <1>1 DEF IInv, Calling, PendingHasCall, StaleHasCall, SetCallsAreStale, Releases, SetCall
<1>5. CallStates'
  BY <1>1, BetweenCalls DEF CallStates
<1>6. Reentry'
  BY <1>1, <1>2, BetweenCalls DEF Reentry
<1>7. FreeOnce(work') /\ reentered' # NULL
  BY <1>1, HeapAssumption DEF IInv, Calling
<1>8. TypeOK'
  BY <1>1 DEF TypeOK, IInv
<1> QED BY <1>3, <1>4, <1>5, <1>6, <1>7, <1>8 DEF IInv, Calling

\* An item is stored by a container call, which takes it.
LEMMA Storing ==
  ASSUME IInv, reentered = NULL, NEW t \in Threads, NEW p \in Slots, NEW o \in Obj,
         status[o] = "live", o \notin leaked, UNCHANGED leaked, Takes(o),
         MayUse(t, ContainerOf[p]), StoreItem(t, p, o)
  PROVE  IInv'
<1>1. /\ p \in Places /\ p \notin stale /\ pending[p] = NULL /\ Own[p] = at[p]
      /\ at \in [Places -> Obj \cup {NULL}] /\ NULL \notin Obj /\ o # NULL
      /\ floating' \in [Threads -> Obj \cup {NULL}]
  BY NotStale, HeapAssumption DEF MayUse, IInv, TypeOK, Takes
<1>2. CASE FillSlot(p, o)
  <2>1. /\ at[p] = NULL /\ at' = [at EXCEPT ![p] = o] /\ refcnt' = Retained(o)
        /\ UNCHANGED <<status, stale, pending, work, reentered>>
    BY <1>2 DEF FillSlot
  <2>2. Own' = [Own EXCEPT ![p] = o]
    BY <1>1, <2>1, OwnChanges DEF IInv
  <2>3. Counting' /\ CountTypes'
    BY <1>1, <2>1, <2>2, Gaining DEF IInv
  <2>4. TypeOK'
    <3>1. at' \in [Places -> Obj \cup {NULL}]
      BY <1>1, <2>1
    <3> QED BY <2>1, <2>3, <3>1 DEF TypeOK, CountTypes, IInv
  <2> QED BY <2>1, <2>3, <2>4, CallsRest DEF IInv
<1> DEFINE q == at[p]
\* What the two calls that replace an item q have in common.
<1>3. ASSUME q # NULL, Own' = [Own EXCEPT ![p] = o],
             NEW w \in [Threads -> Seq(Calls)], Dy_Release(t, Retained(o), q, w),
             Once(w), FreeOnce(w),
             \A c \in AllCalls(w) : /\ c.name = "free" => status[c.on] = "dying"
                                    /\ c.name # "free" => status[c.on] = "live"
      PROVE  /\ Counting' /\ CountTypes'
             /\ work' \in [Threads -> Seq(Calls)] /\ reentered' \in Obj \cup {NULL}
             /\ AllCalls(w) \subseteq AllCalls(work')
             /\ \A c \in AllCalls(work') : c.name # "free" => c \in AllCalls(w)
             /\ CallStates' /\ Reentry' /\ FreeOnce(work')
             /\ reentered' = NULL => Once(work')
  <2>1. q = Own[p] /\ q \in Obj /\ status[q] = "live"
    BY <1>1, <1>3, Referenced DEF IInv
  <2>2. /\ refcnt' = [Retained(o) EXCEPT ![q] = @ - 1]
        /\ status' = IF Retained(o)[q] = 1 THEN [status EXCEPT ![q] = "dying"] ELSE status
    BY <1>3 DEF Dy_Release
  <2> HIDE DEF q
  <2>3. Counting' /\ CountTypes'
    BY <1>1, <1>3, <2>1, <2>2, Replacing DEF IInv
  <2>4. status \in [Obj -> {"none", "live", "dying"}]
    BY Types DEF IInv
  <2> QED BY <1>3, <2>1, <2>3, <2>4, CallsAfterRelease
<1>4. CASE list_setitem(t, p, o)
  <2>1. /\ q # NULL /\ at' = [at EXCEPT ![p] = o]
        /\ Dy_Release(t, Retained(o), q, work) /\ UNCHANGED <<stale, pending>>
    BY <1>4 DEF list_setitem
  <2>2. Own' = [Own EXCEPT ![p] = o]
    BY <1>1, <2>1, OwnChanges DEF IInv
  <2> HIDE DEF q
  <2>3. /\ Counting' /\ CountTypes'
        /\ work' \in [Threads -> Seq(Calls)] /\ reentered' \in Obj \cup {NULL}
        /\ AllCalls(work) \subseteq AllCalls(work')
        /\ \A c \in AllCalls(work') : c.name # "free" => c \in AllCalls(work)
        /\ CallStates' /\ Reentry' /\ FreeOnce(work')
        /\ reentered' = NULL => Once(work')
    BY <1>3, <2>1, <2>2, BetweenCalls
  <2>4. Calling'
    <3>1. PendingHasCall' /\ StaleHasCall'
      BY <2>1, <2>3 DEF IInv, Calling, PendingHasCall, StaleHasCall, Releases, SetCall
    <3>2. SetCallsAreStale'
      BY <2>1, <2>3 DEF IInv, Calling, SetCallsAreStale
    <3> QED BY <2>3, <3>1, <3>2 DEF Calling
  <2>5. TypeOK'
    <3>1. at' \in [Places -> Obj \cup {NULL}]
      BY <1>1, <2>1
    <3> QED BY <2>1, <2>3, <3>1 DEF TypeOK, CountTypes, IInv
  <2> QED BY <2>3, <2>4, <2>5 DEF IInv
<1>5. CASE dict_setitem(t, p, o)
  <2> DEFINE k == SetCall(p)
             w == [work EXCEPT ![t] = <<k>> \o @]
  <2>1. /\ q # NULL /\ at' = at
        /\ stale' = stale \cup {p} /\ pending' = [pending EXCEPT ![p] = o]
        /\ Dy_Release(t, Retained(o), q, w)
    BY <1>5 DEF dict_setitem
  <2>2. Own' = [Own EXCEPT ![p] = o]
    <3>1. pending \in [Slots -> Obj \cup {NULL}]
      BY DEF IInv, TypeOK
    <3>2. \A r \in Places : Own'[r] = IF r = p THEN o ELSE Own[r]
      BY <1>1, <2>1, <3>1 DEF Own, Owned
    <3> QED BY <3>2 DEF Own
  <2>3. /\ k \in Calls /\ k.on = ContainerOf[p] /\ k.name = "set" /\ k.slot = p
        /\ ContainerOf[p] \in Obj
    BY HeapAssumption DEF SetCall, Calls
  <2>4. status[ContainerOf[p]] = "live"
    <3>1. PICK h \in Handles : at[h] = ContainerOf[p]
      BY DEF MayUse, Holds
    <3> QED BY <2>3, <3>1, HandleOwns, Referenced, HeapAssumption DEF IInv
  <2>5. /\ w \in [Threads -> Seq(Calls)]
        /\ AllCalls(w) = AllCalls(work) \cup {k}
        /\ Once(w) /\ FreeOnce(w)
    <3>1. \A d \in AllCalls(work) : d.on # k.on
      BY <2>3, CallOn DEF MayUse
    <3> HIDE DEF k
    <3> QED BY <2>3, <3>1, BetweenCalls, Beginning
  <2> HIDE DEF q, w, k
  <2>6. /\ Counting' /\ CountTypes'
        /\ work' \in [Threads -> Seq(Calls)] /\ reentered' \in Obj \cup {NULL}
        /\ AllCalls(w) \subseteq AllCalls(work')
        /\ \A c \in AllCalls(work') : c.name # "free" => c \in AllCalls(w)
        /\ CallStates' /\ Reentry' /\ FreeOnce(work')
        /\ reentered' = NULL => Once(work')
    <3>1. \A c \in AllCalls(w) : /\ c.name = "free" => status[c.on] = "dying"
                                 /\ c.name # "free" => status[c.on] = "live"
      BY <2>3, <2>4, <2>5, BetweenCalls
    <3> QED BY <1>3, <2>1, <2>2, <2>5, <3>1
  <2>7. k \in AllCalls(work') /\ AllCalls(work) \subseteq AllCalls(work')
    BY <2>5, <2>6
  <2>8. PendingHasCall'
    <3>1. \A r \in Slots : r # p => pending'[r] = pending[r]
      BY <2>1 DEF IInv, TypeOK
    <3>2. \A r \in Slots : pending[r] # NULL => r \in stale /\ SetCall(r) \in AllCalls(work)
      BY DEF IInv, Calling, PendingHasCall
    <3>3. \A r \in Slots : (SetCall(r))' = SetCall(r)
      BY DEF SetCall
    <3> QED BY <2>1, <2>7, <3>1, <3>2, <3>3 DEF PendingHasCall, k
  <2>9. StaleHasCall'
    BY <2>1, <2>3, <2>7 DEF IInv, Calling, StaleHasCall, Releases
  <2>10. SetCallsAreStale'
    BY <2>1, <2>3, <2>5, <2>6 DEF IInv, Calling, SetCallsAreStale
  <2>11. TypeOK'
    <3>1. /\ at' \in [Places -> Obj \cup {NULL}] /\ stale' \subseteq Slots
          /\ pending' \in [Slots -> Obj \cup {NULL}]
      BY <2>1 DEF IInv, TypeOK
    <3> QED BY <2>6, <3>1 DEF TypeOK, CountTypes
  <2> QED BY <2>6, <2>8, <2>9, <2>10, <2>11 DEF IInv, Calling
<1> QED BY <1>2, <1>4, <1>5 DEF StoreItem

\* SetItem and SetItemPassed are container calls: StoreItem and what it takes.
LEMMA SettingItem ==
  ASSUME IInv, reentered = NULL, NEW t \in Threads, NEW h \in Handles, NEW p \in Slots,
         SetItem(t, p, h)
  PROVE  IInv'
<1>1. h \in Places /\ at[h] # NULL /\ Own[h] = at[h]
  BY HandleOwns DEF SetItem, IInv
<1>2. /\ at[h] \in Obj /\ status[at[h]] = "live" /\ at[h] \notin leaked
      /\ \A u \in Threads : floating[u] # at[h]
  BY <1>1, Referenced DEF IInv
<1>3. /\ UNCHANGED <<floating, leaked>> /\ StoreItem(t, p, at[h])
      /\ MayUse(t, ContainerOf[p])
  BY DEF SetItem
<1>4. Takes(at[h])
  BY <1>2, <1>3, Types DEF Takes, IInv
<1> QED BY <1>2, <1>3, <1>4, Storing

LEMMA SettingPassed ==
  ASSUME IInv, reentered = NULL, NEW t \in Threads, NEW p \in Slots, SetItemPassed(t, p)
  PROVE  IInv'
<1> DEFINE o == floating[t]
<1>1. /\ o # NULL
      /\ StoreItem(t, p, o) /\ MayUse(t, ContainerOf[p])
      /\ floating' = [floating EXCEPT ![t] = NULL]
      /\ leaked' = leaked
  BY DEF SetItemPassed
<1>2. o \in Obj /\ status[o] = "live" /\ o \notin leaked
  BY <1>1, Types DEF IInv, Counting, Uncounted
<1>3. \A u \in Threads : u # t => floating[u] # o
  BY <1>1 DEF IInv, Counting, Uncounted
<1>4. Takes(o)
  BY <1>1, <1>2, <1>3, Types DEF Takes, IInv
<1> HIDE DEF o
<1> QED BY <1>1, <1>2, <1>4, Storing
-----------------------------------------------------------------------------
(* The calls go on.                                                        *)

\* The innermost call of t is on nothing another call is on.
LEMMA TopCall ==
  ASSUME IInv, reentered = NULL, NEW t \in Threads, Working(t)
  PROVE  /\ Top(t) \in AllCalls(work) /\ Top(t) \in Calls /\ Top(t).on \in Obj
         /\ Top(t).name = "free" => status[Top(t).on] = "dying"
         /\ Return(t) =>
              /\ work' \in [Threads -> Seq(Calls)]
              /\ AllCalls(work') \subseteq AllCalls(work)
              /\ \A d \in AllCalls(work') : d.on # Top(t).on
              /\ \A d \in AllCalls(work) : d # Top(t) => d \in AllCalls(work')
              /\ Once(work') /\ FreeOnce(work')
<1>1. work[t] # <<>> /\ work \in [Threads -> Seq(Calls)] /\ Once(work)
  BY BetweenCalls DEF Working
<1>2. LET v == [work EXCEPT ![t] = Tail(@)]
      IN  /\ v \in [Threads -> Seq(Calls)]
          /\ Top(t) \in AllCalls(work) /\ Top(t) \in Calls
          /\ AllCalls(v) \subseteq AllCalls(work)
          /\ \A d \in AllCalls(v) : d.on # Top(t).on
          /\ \A d \in AllCalls(work) : d # Top(t) => d \in AllCalls(v)
          /\ Once(v) /\ FreeOnce(v)
  BY <1>1, Returning DEF Top
<1>3. Return(t) => work' = [work EXCEPT ![t] = Tail(@)]
  BY DEF Return
<1> DEFINE v == [work EXCEPT ![t] = Tail(@)]
<1>4. /\ v \in [Threads -> Seq(Calls)]
      /\ AllCalls(v) \subseteq AllCalls(work)
      /\ \A d \in AllCalls(v) : d.on # Top(t).on
      /\ \A d \in AllCalls(work) : d # Top(t) => d \in AllCalls(v)
      /\ Once(v) /\ FreeOnce(v)
      /\ Return(t) => work' = v
  BY <1>2, <1>3
<1>5. Top(t) \in AllCalls(work) /\ Top(t) \in Calls
  BY <1>2
<1> HIDE DEF v
<1>6. Top(t).on \in Obj /\ (Top(t).name = "free" => status[Top(t).on] = "dying")
  BY <1>5, BetweenCalls
<1>7. ASSUME Return(t)
      PROVE  /\ work' \in [Threads -> Seq(Calls)]
             /\ AllCalls(work') \subseteq AllCalls(work)
             /\ \A d \in AllCalls(work') : d.on # Top(t).on
             /\ \A d \in AllCalls(work) : d # Top(t) => d \in AllCalls(work')
             /\ Once(work') /\ FreeOnce(work')
  <2>1. work' = v
    BY <1>4, <1>7
  <2> QED BY <1>4, <2>1
<1> QED BY <1>5, <1>6, <1>7

\* No other call of a thread is on what a call is on.
LEMMA OneCallOn ==
  ASSUME IInv, reentered = NULL, NEW c \in AllCalls(work), NEW d \in AllCalls(work),
         c.on = d.on
  PROVE  c = d
<1>1. PICK t \in Threads : \E i \in DOMAIN work[t] : c = work[t][i]
  BY DEF AllCalls, Unfinished
<1>2. PICK i \in DOMAIN work[t] : c = work[t][i]
  BY <1>1
<1>3. PICK u \in Threads : \E j \in DOMAIN work[u] : d = work[u][j]
  BY DEF AllCalls, Unfinished
<1>4. PICK j \in DOMAIN work[u] : d = work[u][j]
  BY <1>3
<1>5. t = u /\ i = j
  BY <1>2, <1>4, BetweenCalls DEF Once
<1> QED BY <1>2, <1>4, <1>5

\* A call that returns leaves the slots of other containers alone, and its own
\* are neither stale nor waited for any more.
LEMMA Finishing ==
  ASSUME IInv, reentered = NULL, NEW t \in Threads, Working(t), Return(t),
         NEW S \in SUBSET Slots,
         \A p \in stale : Releases(Top(t), p) <=> p \in S,
         stale' = stale \ S,
         pending' \in [Slots -> Obj \cup {NULL}],
         \A p \in Slots : pending'[p] = IF p \in S THEN NULL ELSE pending[p],
         \A x \in Obj : status'[x] = status[x] \/ x = Top(t).on,
         reentered' = NULL
  PROVE  Calling'
<1> DEFINE c == Top(t)
<1>1. /\ c \in AllCalls(work) /\ c \in Calls
      /\ AllCalls(work') \subseteq AllCalls(work)
      /\ \A d \in AllCalls(work') : d.on # c.on
      /\ \A d \in AllCalls(work) : d # c => d \in AllCalls(work')
      /\ Once(work') /\ FreeOnce(work')
  BY TopCall
<1> HIDE DEF c
<1>2. StaleHasCall'
  <2> SUFFICES ASSUME NEW p \in stale' PROVE \E d \in AllCalls(work') : Releases(d, p)
    BY DEF StaleHasCall, Releases
  <2>1. p \in stale /\ p \notin S
    OBVIOUS
  <2>2. PICK d \in AllCalls(work) : Releases(d, p)
    BY <2>1 DEF IInv, Calling, StaleHasCall
  <2>3. d # c
    BY <2>1, <2>2 DEF c
  <2> QED BY <1>1, <2>2, <2>3
<1>3. PendingHasCall'
  <2> SUFFICES ASSUME NEW p \in Slots, pending'[p] # NULL
               PROVE  p \in stale' /\ SetCall(p) \in AllCalls(work')
    BY DEF PendingHasCall, SetCall
  <2>1. p \notin S /\ pending[p] # NULL
    OBVIOUS
  <2>2. p \in stale /\ SetCall(p) \in AllCalls(work)
    BY <2>1 DEF IInv, Calling, PendingHasCall
  <2>3. Releases(SetCall(p), p)
    BY DEF Releases, SetCall
  <2>4. SetCall(p) # c
    BY <2>1, <2>2, <2>3 DEF c
  <2> QED BY <1>1, <2>1, <2>2, <2>4
<1>4. SetCallsAreStale'
  <2> SUFFICES ASSUME NEW d \in AllCalls(work'), d.name = "set"
               PROVE  d.slot \in stale' /\ d.on = ContainerOf[d.slot]
    BY DEF SetCallsAreStale
  <2>1. d \in AllCalls(work) /\ d.on # c.on
    BY <1>1
  <2>2. d.slot \in stale /\ d.on = ContainerOf[d.slot]
    BY <2>1 DEF IInv, Calling, SetCallsAreStale
  <2>3. d.slot \notin S
    BY <2>1, <2>2 DEF c, Releases
  <2> QED BY <2>2, <2>3
<1>5. CallStates'
  BY <1>1, BetweenCalls DEF CallStates, c
<1>6. Reentry'
  BY DEF Reentry
<1> QED BY <1>1, <1>2, <1>3, <1>4, <1>5, <1>6 DEF Calling

LEMMA Writing ==
  ASSUME IInv, reentered = NULL, NEW t \in Threads, FinishSet(t)
  PROVE  IInv' /\ Own' = Own /\ UNCHANGED status
<1> DEFINE c == Top(t)
           p == c.slot
<1>1. /\ Working(t) /\ Return(t) /\ c.name = "set"
      /\ at' = [at EXCEPT ![p] = pending[p]]
      /\ stale' = stale \ {p}
      /\ pending' = [pending EXCEPT ![p] = NULL]
      /\ UNCHANGED <<status, refcnt, floating, leaked, reentered>>
  BY DEF FinishSet
<1>2. c \in AllCalls(work) /\ c \in Calls /\ work' \in [Threads -> Seq(Calls)]
  BY <1>1, TopCall
<1>3. p \in stale /\ c.on = ContainerOf[p]
  BY <1>1, <1>2 DEF IInv, Calling, SetCallsAreStale
<1>4. /\ p \in Slots /\ p \in Places
      /\ pending \in [Slots -> Obj \cup {NULL}]
      /\ at \in [Places -> Obj \cup {NULL}]
  BY <1>3 DEF IInv, TypeOK, Places
<1> HIDE DEF p
<1>5. /\ pending' \in [Slots -> Obj \cup {NULL}]
      /\ at' \in [Places -> Obj \cup {NULL}]
      /\ \A r \in Slots : pending'[r] = IF r \in {p} THEN NULL ELSE pending[r]
  BY <1>1, <1>4
<1>6. Own' = Own
  <2>1. \A r \in Places : Own'[r] = Own[r]
    BY <1>1, <1>3, <1>4, <1>5 DEF Own, Owned
  <2> QED BY <2>1 DEF Own
<1>7. \A r \in stale : Releases(c, r) <=> r \in {p}
  BY <1>1, <1>3 DEF Releases, p
<1> HIDE DEF c
<1>8. Calling'
  BY <1>1, <1>4, <1>5, <1>7, Finishing DEF c
<1>9. Counting' /\ CountTypes'
  BY <1>1, <1>6, Resting DEF IInv
<1>10. TypeOK'
  BY <1>1, <1>2, <1>5, <1>9 DEF IInv, TypeOK, CountTypes
<1> QED BY <1>1, <1>6, <1>8, <1>9, <1>10 DEF IInv

LEMMA ReleasingSlot ==
  ASSUME IInv, reentered = NULL, NEW t \in Threads, NEW p \in Slots, ReleaseSlot(t, p)
  PROVE  IInv' /\ Own' = [Own EXCEPT ![p] = NULL]
<1> DEFINE c == Top(t)
           q == at[p]
<1>1. /\ Working(t) /\ c.name \in {"free", "clear"}
      /\ ContainerOf[p] = c.on
      /\ q # NULL /\ p \notin stale
      /\ stale' = stale \cup {p}
      /\ Dy_Release(t, refcnt, q, work)
      /\ UNCHANGED <<at, pending, floating, leaked>>
  BY DEF ReleaseSlot
<1>2. c \in AllCalls(work)
  BY <1>1, TopCall
<1>3. /\ p \in Places /\ pending[p] = NULL /\ q = Own[p]
      /\ at \in [Places -> Obj \cup {NULL}]
      /\ pending \in [Slots -> Obj \cup {NULL}]
  BY <1>1 DEF IInv, TypeOK, Calling, PendingHasCall, Own, Owned, Places
<1>4. Own' = [Own EXCEPT ![p] = NULL]
  <2>1. \A r \in Places : Own'[r] = IF r = p THEN NULL ELSE Own[r]
    BY <1>1, <1>3 DEF Own, Owned
  <2> QED BY <2>1 DEF Own
<1>5. q \in Obj /\ status[q] = "live"
  BY <1>1, <1>3, Referenced DEF IInv
<1>6. /\ refcnt' = [refcnt EXCEPT ![q] = @ - 1]
      /\ status' = IF refcnt[q] = 1 THEN [status EXCEPT ![q] = "dying"] ELSE status
  BY <1>1 DEF Dy_Release
<1> HIDE DEF q, c
<1>7. Counting' /\ CountTypes'
  BY <1>1, <1>3, <1>4, <1>6, Replacing DEF IInv
<1>8. /\ work' \in [Threads -> Seq(Calls)] /\ reentered' \in Obj \cup {NULL}
      /\ AllCalls(work) \subseteq AllCalls(work')
      /\ \A d \in AllCalls(work') : d.name # "free" => d \in AllCalls(work)
      /\ CallStates' /\ Reentry' /\ FreeOnce(work')
      /\ reentered' = NULL => Once(work')
  <2>1. status \in [Obj -> {"none", "live", "dying"}]
    BY Types DEF IInv
  <2> QED BY <1>1, <1>5, <2>1, BetweenCalls, CallsAfterRelease
<1>9. PendingHasCall'
  BY <1>1, <1>8 DEF IInv, Calling, PendingHasCall, SetCall
<1>10. StaleHasCall'
  <2> SUFFICES ASSUME NEW r \in stale' PROVE \E d \in AllCalls(work') : Releases(d, r)
    BY DEF StaleHasCall, Releases
  <2>1. CASE r = p
    BY <1>1, <1>2, <1>8, <2>1 DEF Releases
  <2>2. CASE r \in stale
    BY <1>8, <2>2 DEF IInv, Calling, StaleHasCall
  <2> QED BY <1>1, <2>1, <2>2
<1>11. SetCallsAreStale'
  BY <1>1, <1>8 DEF IInv, Calling, SetCallsAreStale
<1>12. TypeOK'
  <2>1. stale' \subseteq Slots
    BY <1>1 DEF IInv, TypeOK
  <2> QED BY <1>1, <1>3, <1>7, <1>8, <2>1 DEF TypeOK, CountTypes
<1> QED BY <1>4, <1>7, <1>8, <1>9, <1>10, <1>11, <1>12 DEF IInv, Calling

\* A clear or a destruction takes its slots out when all were released.
LEMMA Emptying ==
  ASSUME IInv, reentered = NULL, NEW t \in Threads, Working(t), Top(t).name # "set",
         Emptied(t),
         \/ UNCHANGED status
         \/ Top(t).name = "free" /\ status' = [status EXCEPT ![Top(t).on] = "none"]
  PROVE  /\ IInv' /\ Own' = Own
         /\ \A p \in Inside(Top(t).on) : Own[p] = NULL
<1> DEFINE c == Top(t)
           S == Inside(c.on) \cap stale
<1>1. /\ \A p \in Inside(c.on) : at[p] = NULL \/ p \in stale
      /\ at' = [p \in Places |-> IF p \in Inside(c.on) THEN NULL ELSE at[p]]
      /\ stale' = stale \ Inside(c.on)
      /\ Return(t)
      /\ UNCHANGED <<refcnt, pending, floating, leaked, reentered>>
  BY DEF Emptied
<1>2. /\ c \in AllCalls(work) /\ c \in Calls /\ c.on \in Obj /\ work' \in [Threads -> Seq(Calls)]
      /\ c.name = "free" => status[c.on] = "dying"
  BY <1>1, TopCall
<1>3. \A p \in Slots : p \in Inside(c.on) <=> ContainerOf[p] = c.on
  BY DEF Inside
<1>4. Inside(c.on) \subseteq Slots /\ Slots \subseteq Places
  BY DEF Inside, Places
<1>5. /\ at \in [Places -> Obj \cup {NULL}] /\ stale \subseteq Slots
      /\ pending \in [Slots -> Obj \cup {NULL}]
  BY DEF IInv, TypeOK
<1>6. c.name # "set"
  OBVIOUS
<1> HIDE DEF c
\* No dict_setitem is unfinished on it.
<1>7. \A p \in Inside(c.on) : pending[p] = NULL
  <2> SUFFICES ASSUME NEW p \in Slots, ContainerOf[p] = c.on, pending[p] # NULL PROVE FALSE
    BY <1>3, <1>4
  <2>1. SetCall(p) \in AllCalls(work) /\ SetCall(p).on = c.on /\ SetCall(p).name = "set"
    BY DEF IInv, Calling, PendingHasCall, SetCall
  <2> QED BY <1>2, <1>6, <2>1, OneCallOn
<1>8. \A p \in Inside(c.on) : Own[p] = NULL
  BY <1>1, <1>4, <1>7 DEF Own, Owned
<1>9. Own' = Own
  <2>1. ASSUME NEW p \in Places PROVE Own'[p] = Own[p]
    <3>1. CASE p \in Inside(c.on)
      BY <1>1, <1>4, <1>8, <3>1 DEF Own, Owned
    <3>2. CASE p \notin Inside(c.on)
      BY <1>1, <3>2 DEF Own, Owned
    <3> QED BY <3>1, <3>2
  <2> QED BY <2>1 DEF Own
<1>10. Counting' /\ CountTypes'
  <2>1. CASE UNCHANGED status
    BY <1>1, <1>9, <2>1, Resting DEF IInv
  <2>2. CASE c.name = "free" /\ status' = [status EXCEPT ![c.on] = "none"]
    BY <1>1, <1>2, <1>9, <2>2, Freed DEF IInv
  <2> QED BY <2>1, <2>2 DEF c
<1>11. Calling'
  <2>1. \A p \in stale : Releases(c, p) <=> p \in S
    BY <1>3, <1>5, <1>6 DEF Releases
  <2>2. S \in SUBSET Slots /\ stale' = stale \ S
    BY <1>1, <1>4
  <2>3. \A p \in Slots : pending'[p] = IF p \in S THEN NULL ELSE pending[p]
    BY <1>1, <1>7
  <2>4. \A x \in Obj : status'[x] = status[x] \/ x = c.on
    BY Types DEF c, IInv
  <2>5. pending' \in [Slots -> Obj \cup {NULL}] /\ reentered' = NULL
    BY <1>1, <1>5
  <2> HIDE DEF S
  <2> QED BY <1>1, <2>1, <2>2, <2>3, <2>4, <2>5, Finishing DEF c
<1>12. TypeOK'
  <2>1. at' \in [Places -> Obj \cup {NULL}] /\ stale' \subseteq Slots
    BY <1>1, <1>5
  <2> QED BY <1>1, <1>2, <1>5, <1>10, <2>1, HeapAssumption DEF TypeOK, CountTypes
<1> QED BY <1>8, <1>9, <1>10, <1>11, <1>12 DEF IInv, c
-----------------------------------------------------------------------------
LEMMA Starting ==
  ASSUME Init PROVE IInv
<1>1. \A t \in Threads : work[t] = <<>> /\ DOMAIN work[t] = {}
  BY DEF Init
<1>2. AllCalls(work) = {}
  BY <1>1 DEF AllCalls, Unfinished
<1>3. \A p \in Places : Own[p] = NULL
  BY DEF Init, Own, Owned, Places
<1>4. TypeOK
  <2>1. work \in [Threads -> Seq(Calls)]
    BY DEF Init
  <2> QED BY <2>1 DEF Init, TypeOK
<1>5. Counting
  BY <1>3, HeapAssumption DEF Init, Counting, OwnedLive, Counted, Uncounted, NothingForgotten
<1>6. Once(work) /\ FreeOnce(work)
  BY <1>1 DEF Once, FreeOnce
<1>7. Calling
  BY <1>2, <1>6 DEF Init, Calling, PendingHasCall, StaleHasCall, SetCallsAreStale,
                    CallStates, Reentry
<1> QED BY <1>4, <1>5, <1>7 DEF IInv

LEMMA Invariance == Spec => []IInv
<1>1. Init => IInv
  BY Starting
<1>2. IInv /\ [Next]_vars => IInv'
  <2> SUFFICES ASSUME IInv, [Next]_vars PROVE IInv'
    OBVIOUS
  <2>1. CASE UNCHANGED vars
    <3>1. Own' = Own
      BY <2>1, OwnRests DEF vars
    <3>2. Counting'
      BY <2>1, <3>1, Resting DEF vars, IInv
    <3>3. TypeOK'
      BY <2>1 DEF vars, IInv, TypeOK
    <3>4. PendingHasCall' /\ StaleHasCall' /\ SetCallsAreStale'
      BY <2>1 DEF vars, IInv, Calling, PendingHasCall, StaleHasCall, SetCallsAreStale,
                  Releases, SetCall
    <3>5. CallStates' /\ Reentry' /\ FreeOnce(work') /\ (reentered' = NULL => Once(work'))
      BY <2>1 DEF vars, IInv, Calling, CallStates, Reentry
    <3> QED BY <3>2, <3>3, <3>4, <3>5 DEF IInv, Calling
  <2>2. ASSUME reentered = NULL, NEW t \in Threads, Client(t) PROVE IInv'
    <3>1. ASSUME NEW h \in Handles, NEW o \in Obj, New(t, h, o) PROVE IInv'
      BY <2>2, <3>1, Creating
    <3>2. ASSUME NEW h \in Handles, NEW p \in Places, Dy_Retain(t, p, h) PROVE IInv'
      BY <2>2, <3>2, Retaining
    <3>3. ASSUME NEW h \in Handles, ReleaseHandle(t, h) PROVE IInv'
      BY <2>2, <3>3, HandleOwns, Dropping DEF ReleaseHandle, IInv
    <3>4. ASSUME NEW h \in Handles, NEW p \in Slots, SetItem(t, p, h) PROVE IInv'
      BY <2>2, <3>4, SettingItem
    <3>5. ASSUME NEW p \in Slots, RemoveItem(t, p) PROVE IInv'
      BY <2>2, <3>5, NotStale, Dropping DEF RemoveItem, MayUse
    <3>6. ASSUME NEW c \in Obj, Clear(t, c) PROVE IInv'
      BY <2>2, <3>6, Clearing
    <3>7. ASSUME NEW h \in Handles, Dy_Pass(t, h) PROVE IInv'
      BY <2>2, <3>7, Passing
    <3>8. ASSUME NEW p \in Slots, SetItemPassed(t, p) PROVE IInv'
      BY <2>2, <3>8, SettingPassed
    <3>9. CASE SetItemPassedFails(t)
      BY <2>2, <3>9, Leaking
    <3>10. ASSUME NEW c \in Obj, Reenter(t, c) PROVE IInv'
      BY <2>2, <3>10, Reentering
    <3> QED BY <2>2, <3>1, <3>2, <3>3, <3>4, <3>5, <3>6, <3>7, <3>8, <3>9, <3>10 DEF Client
  <2>3. ASSUME reentered = NULL, NEW t \in Threads, GoOn(t) PROVE IInv'
    <3>1. CASE FinishSet(t)
      BY <2>3, <3>1, Writing
    <3>2. ASSUME NEW p \in Slots, ReleaseSlot(t, p) PROVE IInv'
      BY <2>3, <3>2, ReleasingSlot
    <3>3. CASE FreeMemory(t)
      BY <2>3, <3>3, Emptying DEF FreeMemory
    <3>4. CASE FinishClear(t)
      BY <2>3, <3>4, Emptying DEF FinishClear
    <3> QED BY <2>3, <3>1, <3>2, <3>3, <3>4 DEF GoOn
  <2> QED BY <2>1, <2>2, <2>3 DEF Next
<1> QED BY <1>1, <1>2, PTL DEF Spec

\* The heap stays well formed, and counts are never negative, whatever the threads do.
THEOREM TypesAreKept == Spec => []TypeOK
<1>1. IInv => TypeOK
  BY DEF IInv
<1> QED BY <1>1, Invariance, PTL

\* Whatever the threads do, in any number and in any order, no variable refers to an
\* object that is being destroyed or is freed, and a slot of a container only between
\* the release of its object by a dict_setitem, a clear or a destruction of the
\* container and the end of that call.
THEOREM NothingDangles == Spec => []NoDangling
<1>1. IInv => NoDangling
  <2> SUFFICES ASSUME IInv, NEW p \in Places, at[p] # NULL, status[at[p]] # "live"
               PROVE  /\ p \in stale
                      /\ \E t \in Threads : \E call \in Unfinished(work[t]) : Releases(call, p)
    BY DEF NoDangling
  <2>1. p \in stale
    BY DEF IInv, Counting, OwnedLive, Own, Owned
  <2> QED BY <2>1 DEF IInv, Calling, StaleHasCall, AllCalls
<1> QED BY <1>1, Invariance, PTL

\* A container outlives the calls on it, for any number of threads and any graph of
\* containers, unless a destructor gives up the caller's own reference; and a destructor
\* never finds a container that is being destroyed.
THEOREM ContainersOutliveCalls == Spec => []CallsKeepTheirContainer
<1>1. IInv => CallsKeepTheirContainer
  BY DEF IInv, Calling, CallStates, Reentry, AllCalls, CallsKeepTheirContainer
<1> QED BY <1>1, Invariance, PTL

\* The count of an object that exists is the number of places that count it, through
\* retaining, storing, passing and the cascade of destruction.
THEOREM CountsAreExact == Spec => []CountsAgree
<1>1. ASSUME IInv, NEW o \in Obj PROVE Count(Own, o) = Cardinality({p \in Places : Owned(p) = o})
  <2>1. {p \in Places : Own[p] = o} = {p \in Places : Owned(p) = o}
    BY DEF Own
  <2> QED BY <2>1 DEF Count
<1>2. IInv => CountsAgree
  BY <1>1 DEF IInv, Counting, Counted, CountsAgree
<1> QED BY <1>2, Invariance, PTL

\* Releases that race to the last reference start one destruction, which one thread does
\* once: for any number of threads and any graph of containers.
THEOREM ObjectsDieOnce == Spec => []DestroyedOnce
<1>1. IInv => DestroyedOnce
  BY DEF IInv, Calling, CallStates, FreeOnce, AllCalls, Unfinished, DestroyedOnce
<1> QED BY <1>1, Invariance, PTL

\* An object without references is on its way into a container, or a failed store lost it.
THEOREM OnlyFailedStoresForget == Spec => []NothingForgotten
<1>1. IInv => NothingForgotten
  BY DEF IInv, Counting
<1> QED BY <1>1, Invariance, PTL
-----------------------------------------------------------------------------
(* Heap implements Ownership.                                              *)

Allocated == {o \in Obj : status[o] # "none"}

\* A step in which a place comes to count a live object, or nothing, and which
\* at most starts a destruction: what is allocated stays.
LEMMA PointStep ==
  ASSUME IInv, NEW p \in Places, NEW o \in Obj \cup {NULL},
         o # NULL => status[o] = "live", Own' = [Own EXCEPT ![p] = o],
         \/ UNCHANGED status
         \/ \E q \in Obj : status[q] = "live" /\ status' = [status EXCEPT ![q] = "dying"]
  PROVE  O!Next
<1>1. Allocated' = Allocated
  BY Types DEF Allocated, IInv
<1>2. CASE o = NULL
  BY <1>1, <1>2 DEF O!Next, O!Drop, Allocated, Own
<1>3. CASE o # NULL
  <2>1. o \in Obj /\ o \in Allocated
    BY <1>3 DEF Allocated
  <2> QED BY <1>1, <2>1 DEF O!Next, O!Point, Allocated, Own
<1> QED BY <1>2, <1>3

\* What a release does to status, if it is that of the object a place counted.
LEMMA ReleaseStatus ==
  ASSUME IInv, NEW t, NEW counts, NEW w, NEW p \in Places, Own[p] # NULL,
         Dy_Release(t, counts, Own[p], w)
  PROVE  \/ UNCHANGED status
         \/ \E q \in Obj : status[q] = "live" /\ status' = [status EXCEPT ![q] = "dying"]
  BY Referenced DEF Dy_Release, IInv

LEMMA DropStep ==
  ASSUME IInv, NEW t \in Threads, NEW p \in Places, p \notin stale, at[p] # NULL,
         at' = [at EXCEPT ![p] = NULL], Dy_Release(t, refcnt, at[p], work),
         UNCHANGED <<stale, pending>>
  PROVE  O!Next
<1>1. Own[p] = at[p] /\ Own' = [Own EXCEPT ![p] = NULL]
  BY OwnChanges DEF Own, Owned, IInv
<1> QED BY <1>1, ReleaseStatus, PointStep

LEMMA StoreStep ==
  ASSUME IInv, NEW t \in Threads, NEW p \in Slots, NEW o \in Obj,
         status[o] = "live", MayUse(t, ContainerOf[p]), StoreItem(t, p, o)
  PROVE  O!Next
<1>1. /\ p \in Places /\ p \notin stale /\ pending[p] = NULL /\ Own[p] = at[p]
      /\ o \in Obj \cup {NULL}
  BY NotStale DEF MayUse
<1>2. CASE FillSlot(p, o)
  BY <1>1, <1>2, OwnChanges, PointStep DEF FillSlot, IInv
<1>3. CASE list_setitem(t, p, o)
  BY <1>1, <1>3, OwnChanges, ReleaseStatus, PointStep DEF list_setitem, IInv
<1>4. CASE dict_setitem(t, p, o)
  <2>1. pending \in [Slots -> Obj \cup {NULL}]
    BY DEF IInv, TypeOK
  <2>2. \A r \in Places : Own'[r] = IF r = p THEN o ELSE Own[r]
    BY <1>1, <1>4, <2>1 DEF dict_setitem, Own, Owned
  <2>3. Own' = [Own EXCEPT ![p] = o]
    BY <2>2 DEF Own
  <2> QED BY <1>1, <1>4, <2>3, ReleaseStatus, PointStep DEF dict_setitem
<1> QED BY <1>2, <1>3, <1>4 DEF StoreItem

\* Memory is reclaimed only when no place counts it and its own places are
\* empty: the reference counts of dy.c implement ownership.
THEOREM CountsImplementOwnership == Spec => OwnershipSpec
<1>1. Init => O!Init
  BY DEF Init, O!Init, Owned, Places
<1>2. IInv /\ [Next]_vars => [O!Next]_<<Allocated, Own>>
  <2> SUFFICES ASSUME IInv, [Next]_vars PROVE [O!Next]_<<Allocated, Own>>
    OBVIOUS
  <2>1. CASE UNCHANGED vars
    BY <2>1, OwnRests DEF vars, Allocated
  <2>2. ASSUME reentered = NULL, NEW t \in Threads, Client(t)
        PROVE  [O!Next]_<<Allocated, Own>>
    <3>1. ASSUME NEW h \in Handles, NEW o \in Obj, New(t, h, o) PROVE O!Next
      <4>1. Allocated' = Allocated \cup {o} /\ o \notin Allocated
        BY <3>1, Types DEF New, Allocated, IInv
      <4>2. h \in Places /\ Own' = [Own EXCEPT ![h] = o]
        BY <3>1, HandleOwns, OwnChanges DEF New, IInv
      <4> QED BY <4>1, <4>2 DEF Allocated, Own, O!Next, O!Allocate
    <3>2. ASSUME NEW h \in Handles, NEW p \in Places, Dy_Retain(t, p, h) PROVE O!Next
      <4>1. h \in Places /\ Own' = [Own EXCEPT ![h] = at[p]] /\ UNCHANGED status
        BY <3>2, HandleOwns, OwnChanges DEF Dy_Retain, IInv
      <4>2. Own[p] = at[p] /\ at[p] # NULL
        BY <3>2, HandleOwns, NotStale DEF Dy_Retain, MayUse, IInv
      <4>3. at[p] \in Obj /\ status[at[p]] = "live"
        BY <4>2, Referenced DEF IInv
      <4> QED BY <4>1, <4>3, PointStep
    <3>3. ASSUME NEW h \in Handles, ReleaseHandle(t, h) PROVE O!Next
      BY <3>3, HandleOwns, DropStep DEF ReleaseHandle, IInv
    <3>4. ASSUME NEW h \in Handles, NEW p \in Slots, SetItem(t, p, h) PROVE O!Next
      <4>1. at[h] \in Obj /\ status[at[h]] = "live"
        BY <3>4, HandleOwns, Referenced DEF SetItem, IInv
      <4> QED BY <3>4, <4>1, StoreStep DEF SetItem
    <3>5. ASSUME NEW p \in Slots, RemoveItem(t, p) PROVE O!Next
      BY <3>5, NotStale, DropStep DEF RemoveItem, MayUse
    <3>6. ASSUME NEW c \in Obj, Clear(t, c) PROVE UNCHANGED <<Allocated, Own>>
      BY <3>6, OwnRests DEF Clear, Allocated
    <3>7. ASSUME NEW h \in Handles, Dy_Pass(t, h) PROVE O!Next
      <4>1. h \in Places /\ Own' = [Own EXCEPT ![h] = NULL] /\ UNCHANGED status
        BY <3>7, HandleOwns, OwnChanges DEF Dy_Pass, IInv
      <4> QED BY <4>1, PointStep
    <3>8. ASSUME NEW p \in Slots, SetItemPassed(t, p) PROVE O!Next
      <4>1. floating[t] \in Obj /\ status[floating[t]] = "live"
        BY <3>8, Types DEF SetItemPassed, IInv, Counting, Uncounted
      <4> QED BY <3>8, <4>1, StoreStep DEF SetItemPassed
    <3>9. CASE SetItemPassedFails(t)
      BY <3>9, OwnRests DEF SetItemPassedFails, Allocated
    <3>10. ASSUME NEW c \in Obj, Reenter(t, c) PROVE UNCHANGED <<Allocated, Own>>
      BY <3>10, OwnRests DEF Reenter, Allocated
    <3> QED BY <2>2, <3>1, <3>2, <3>3, <3>4, <3>5, <3>6, <3>7, <3>8, <3>9, <3>10 DEF Client
  <2>3. ASSUME reentered = NULL, NEW t \in Threads, GoOn(t)
        PROVE  [O!Next]_<<Allocated, Own>>
    <3>1. CASE FinishSet(t)
      BY <2>3, <3>1, Writing DEF Allocated
    <3>2. ASSUME NEW p \in Slots, ReleaseSlot(t, p) PROVE O!Next
      <4>1. p \in Places /\ Own[p] = at[p] /\ at[p] # NULL
        BY <3>2 DEF ReleaseSlot, Own, Owned, Places
      <4>2. Own' = [Own EXCEPT ![p] = NULL] /\ Dy_Release(t, refcnt, Own[p], work)
        BY <2>3, <3>2, <4>1, ReleasingSlot DEF ReleaseSlot
      <4> QED BY <4>1, <4>2, ReleaseStatus, PointStep
    <3>3. CASE FreeMemory(t)
      <4> DEFINE o == Top(t).on
      <4>1. /\ Working(t) /\ Top(t).name = "free" /\ Emptied(t)
            /\ status' = [status EXCEPT ![o] = "none"]
        BY <3>3 DEF FreeMemory
      <4>2. o \in Obj /\ status[o] = "dying"
        BY <2>3, <4>1, TopCall
      <4>3. Own' = Own /\ \A p \in Inside(o) : Own[p] = NULL
        BY <2>3, <4>1, Emptying
      <4> HIDE DEF o
      <4>4. o \in Allocated /\ Allocated' = Allocated \ {o}
        BY <4>1, <4>2, Types DEF Allocated, IInv
      <4>5. \A p \in Places : Own[p] # o
        BY <4>2, HeapAssumption DEF IInv, Counting, OwnedLive
      <4>6. Inside(o) \subseteq Places
        BY DEF Inside, Places
      <4> QED BY <4>2, <4>3, <4>4, <4>5, <4>6 DEF Allocated, Own, O!Next, O!Reclaim
    <3>4. CASE FinishClear(t)
      BY <2>3, <3>4, Emptying DEF FinishClear, Allocated
    <3> QED BY <2>3, <3>1, <3>2, <3>3, <3>4 DEF GoOn
  <2> QED BY <2>1, <2>2, <2>3 DEF Next
<1>3. Spec => []IInv
  BY Invariance
<1> QED BY <1>1, <1>2, <1>3, PTL DEF Spec, OwnershipSpec, O!Spec, Allocated, Own
=============================================================================
