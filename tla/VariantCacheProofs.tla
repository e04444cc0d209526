------------------------- MODULE VariantCacheProofs -------------------------
(***************************************************************************)
(* Safety of the variant cache, for any variants, any of which may fail to *)
(* build, and any capacity of the grid.                                    *)
(***************************************************************************)
EXTENDS VariantCache, FiniteSetTheorems, TLAPS

Busy == {"build", "good", "bad"}
Calling == {"enter", "again"} \cup Busy

\* What the two threads do where, and about which keys.
Locals ==
    /\ at["worker"] \in {"idle", "woken", "recheck"} \cup Calling
    /\ at["main"] \notin {"woken", "recheck"}
    /\ at["worker"] \in {"recheck"} \cup Calling => key["worker"] \in Variant
    /\ at["main"] \in {"reasons", "join", "wait", "retain", "check", "put"} \cup Calling =>
           key["main"] \in Variant
    /\ at["main"] \in {"look", "held"} /\ kind = "grid" => key["main"] \in Variant
    /\ at["main"] \in {"join", "wait", "refused"} \cup Calling => kind = "policy"

\* What is in _inflight is what the threads build, and they build different variants.
Flight ==
    /\ \A v \in inflight : \E t \in Thread : at[t] \in Busy /\ key[t] = v
    /\ \A t \in Thread : at[t] \in Busy => key[t] \in inflight
    /\ at["main"] \in Busy /\ at["worker"] \in Busy => key["main"] # key["worker"]

\* A model in the main thread's hand is cached, or it slipped.
HandCached == InHand \ {Base} \subseteq cached \cup slipped

\* The threads past their last look at failures: each may fail the key once more.
Committed(t, v) ==
    /\ key[t] = v
    /\ at[t] \in {"enter", "again", "build"} \/ (t = "main" /\ at[t] \in {"join", "wait"})

One(b) == IF b THEN 1 ELSE 0

Chances ==
    \A v \in Variant : fails[v] > 0 =>
        fails[v] + One(Committed("main", v)) + One(Committed("worker", v)) <= 2

\* What is pinned in the course of a swap.
Pinned == (used \cup old) \ (IF at["main"] = "retain" THEN {key["main"]} ELSE {})

PinsInv ==
    /\ at["main"] \notin {"retain", "release"} => old = {}
    /\ used \cap old = {}
    /\ at["main"] \in {"look", "reasons", "join", "wait", "held"} \cup Calling =>
           key["main"] \notin used
    /\ at["main"] = "retain" => key["main"] \notin old
    /\ kind = "grid" => old = {}
    /\ kind # "grid" => /\ at["main"] = "retain" => used = {key["main"]}
                        /\ \E k \in Key : used \subseteq {k}
                        /\ \E k \in Key : old \subseteq {k}
    /\ ~ leaks => /\ at["main"] = "retain" => key["main"] \in used
                  /\ \A v \in Variant : pins[v] = One(v \in Pinned)

IInv ==
    /\ TypeOK /\ Locals /\ Flight /\ TokenPerJob
    /\ PinnedStaysCached /\ HandCached /\ Chances /\ PinsInv

USE VariantCacheAssumption DEF Key, Thread

-----------------------------------------------------------------------------
\* A new cache satisfies the invariant.
LEMMA InitIInv == Init => IInv
<1>. SUFFICES ASSUME Init PROVE IInv
  OBVIOUS
<1>. USE DEF Init
<1>1. TypeOK /\ Locals /\ Flight
  BY DEF TypeOK, Locals, Flight, Busy, Calling
<1>2. TokenPerJob
  BY FS_EmptySet DEF TokenPerJob
<1>3. PinnedStaysCached /\ HandCached /\ Chances
  BY DEF PinnedStaysCached, HandCached, InHand, Chances
<1>4. PinsInv
  BY DEF PinsInv, Pinned, One, Calling, Busy
<1>. QED  BY <1>1, <1>2, <1>3, <1>4 DEF IInv

-----------------------------------------------------------------------------
(* Types and places. *)

LEMMA TypeStep ==
    ASSUME TypeOK, Locals, Next
    PROVE  TypeOK'
<1>. USE DEF TypeOK, Locals, Go, Call, Returns, Busy, Calling
<1>1. CASE \E k \in Key : Ask(k)
  BY <1>1 DEF Ask, calls, use
<1>2. CASE \E v \in Variant : Hint(v) \/ Drop(v)
  BY <1>2 DEF Hint, Drop, Less, calls, use
<1>3. CASE Look \/ NoReason \/ Join \/ Joined
  BY <1>3 DEF Look, NoReason, Join, Joined, calls, use
<1>4. CASE Reason
  BY <1>4 DEF Reason, calls
<1>5. ASSUME NEW t \in Thread, Enter(t) \/ EnterAgain(t) \/ NotBuilt(t) \/ Leave(t)
      PROVE  TypeOK'
  BY <1>5 DEF Enter, EnterAgain, NotBuilt, Leave, calls, use
<1>6. ASSUME NEW t \in Thread, Built(t)
      PROVE  TypeOK'
  BY <1>6 DEF Built, Evictions, Evictable, calls
<1>7. CASE Decline \/ Adopt \/ Retain \/ Release \/ FallBack
  BY <1>7 DEF Decline, Adopt, Retain, Release, Less, FallBack, calls, use
<1>8. CASE Check \/ Put \/ Pay \/ Wake \/ Pop \/ Recheck
  BY <1>8 DEF Check, Put, Pay, Wake, Pop, Recheck, calls, use
<1>. QED
  BY <1>1, <1>2, <1>3, <1>4, <1>5, <1>6, <1>7, <1>8 DEF Next, Main, Worker, Build

LEMMA LocalsStep ==
    ASSUME TypeOK, Locals, Next
    PROVE  Locals'
<1>. USE DEF TypeOK, Locals, Go, Call, Returns, Busy, Calling
<1>1. CASE \E k \in Key : Ask(k)
  BY <1>1 DEF Ask
<1>2. CASE \E v \in Variant : Hint(v) \/ Drop(v)
  BY <1>2 DEF Hint, Drop
<1>3. CASE Look \/ NoReason \/ Join \/ Joined
  BY <1>3 DEF Look, NoReason, Join, Joined
<1>4. CASE Reason
  BY <1>4 DEF Reason
<1>5. ASSUME NEW t \in Thread, Enter(t) \/ EnterAgain(t) \/ NotBuilt(t) \/ Leave(t)
      PROVE  Locals'
  BY <1>5 DEF Enter, EnterAgain, NotBuilt, Leave
<1>6. ASSUME NEW t \in Thread, Built(t)
      PROVE  Locals'
  BY <1>6 DEF Built
<1>7. CASE Decline \/ Adopt \/ Retain \/ Release \/ FallBack
  BY <1>7 DEF Decline, Adopt, Retain, Release, FallBack
<1>8. CASE Check \/ Put \/ Pay \/ Wake \/ Pop \/ Recheck
  BY <1>8 DEF Check, Put, Pay, Wake, Pop, Recheck
<1>. QED
  BY <1>1, <1>2, <1>3, <1>4, <1>5, <1>6, <1>7, <1>8 DEF Next, Main, Worker, Build

-----------------------------------------------------------------------------
(* One builder for a variant. *)

LEMMA FlightStep ==
    ASSUME TypeOK, Locals, Flight, Next
    PROVE  Flight'
<1>. USE DEF TypeOK, Locals, Flight, Go, Call, Returns, Busy, Calling
<1>1. CASE \E k \in Key : Ask(k)
  BY <1>1 DEF Ask
<1>2. CASE \E v \in Variant : Hint(v) \/ Drop(v)
  BY <1>2 DEF Hint, Drop
<1>3. CASE Look \/ NoReason \/ Reason \/ Join \/ Joined
  BY <1>3 DEF Look, NoReason, Reason, Join, Joined
<1>4. ASSUME NEW t \in Thread, Enter(t) \/ EnterAgain(t)
      PROVE  Flight'
  BY <1>4 DEF Enter, EnterAgain
<1>5. ASSUME NEW t \in Thread, Built(t) \/ NotBuilt(t)
      PROVE  Flight'
  BY <1>5 DEF Built, NotBuilt
<1>6. ASSUME NEW t \in Thread, Leave(t)
      PROVE  Flight'
  BY <1>6 DEF Leave
<1>7. CASE Decline \/ Adopt \/ Retain \/ Release \/ FallBack
  BY <1>7 DEF Decline, Adopt, Retain, Release, FallBack
<1>8. CASE Check \/ Put \/ Pay \/ Wake \/ Pop \/ Recheck
  BY <1>8 DEF Check, Put, Pay, Wake, Pop, Recheck
<1>. QED
  BY <1>1, <1>2, <1>3, <1>4, <1>5, <1>6, <1>7, <1>8 DEF Next, Main, Worker, Build

-----------------------------------------------------------------------------
(* Jobs and tokens. *)

LEMMA TokenStep ==
    ASSUME TypeOK, Locals, TokenPerJob, Next
    PROVE  TokenPerJob'
<1>. USE DEF TypeOK, Locals, TokenPerJob, Go, Call, Returns, Busy, Calling
<1>0. IsFiniteSet(pending) /\ Cardinality(pending) \in Nat
  BY FS_Subset, FS_CardinalityType
<1>1. CASE \E k \in Key : Ask(k)
  BY <1>1 DEF Ask, calls
<1>2. CASE \E v \in Variant : Hint(v) \/ Drop(v)
  BY <1>2 DEF Hint, Drop, calls
<1>3. CASE Look \/ NoReason \/ Reason \/ Join \/ Joined
  BY <1>3 DEF Look, NoReason, Reason, Join, Joined, calls
<1>4. ASSUME NEW t \in Thread, Build(t)
      PROVE  TokenPerJob'
  BY <1>4 DEF Build, Enter, EnterAgain, Built, NotBuilt, Leave, calls
<1>5. CASE Decline \/ Adopt \/ Retain \/ Release \/ FallBack
  BY <1>5 DEF Decline, Adopt, Retain, Release, FallBack, calls
<1>6. CASE Check \/ Recheck
  BY <1>6 DEF Check, Recheck, calls
<1>7. CASE Put
  <2>1. Cardinality(pending \cup {key["main"]}) =
            IF key["main"] \in pending THEN Cardinality(pending) ELSE Cardinality(pending) + 1
    BY <1>0, FS_AddElement
  <2>. QED  BY <1>0, <1>7, <2>1 DEF Put
<1>8. CASE Pay \/ Wake
  BY <1>0, <1>8 DEF Pay, Wake
<1>9. CASE Pop
  <2>1. CASE pending = {}
    BY <1>9, <2>1, FS_EmptySet DEF Pop
  <2>2. CASE pending # {}
    <3>1. PICK v \in pending : Call("worker", v, "recheck") /\ pending' = pending \ {v}
      BY <1>9, <2>2 DEF Pop
    <3>2. Cardinality(pending') = Cardinality(pending) - 1
      BY <1>0, <3>1, FS_RemoveElement
    <3>. QED  BY <1>0, <1>9, <3>1, <3>2 DEF Pop
  <2>. QED  BY <2>1, <2>2
<1>. QED
  BY <1>1, <1>2, <1>3, <1>4, <1>5, <1>6, <1>7, <1>8, <1>9 DEF Next, Main, Worker

-----------------------------------------------------------------------------
(* What is pinned or about to be. *)

LEMMA KeptStep ==
    ASSUME TypeOK, Locals, PinnedStaysCached, HandCached, Next
    PROVE  PinnedStaysCached' /\ HandCached'
<1>. USE DEF TypeOK, Locals, PinnedStaysCached, HandCached, InHand, Go, Call, Returns,
             Busy, Calling
<1>1. CASE \E k \in Key : Ask(k)
  BY <1>1 DEF Ask, use
<1>2. CASE \E v \in Variant : Hint(v)
  BY <1>2 DEF Hint, use
<1>3. ASSUME NEW v \in Variant, Drop(v)
      PROVE  PinnedStaysCached' /\ HandCached'
  BY <1>3 DEF Drop, Less
<1>4. CASE Look \/ NoReason \/ Reason \/ Join \/ Joined
  BY <1>4 DEF Look, NoReason, Reason, Join, Joined, use
<1>5. ASSUME NEW t \in Thread, Enter(t) \/ EnterAgain(t) \/ NotBuilt(t) \/ Leave(t)
      PROVE  PinnedStaysCached' /\ HandCached'
  BY <1>5 DEF Enter, EnterAgain, NotBuilt, Leave, use
<1>6. ASSUME NEW t \in Thread, Built(t)
      PROVE  PinnedStaysCached' /\ HandCached'
  <2>1. PICK gone \in Evictions(key[t]) :
            /\ cached' = (cached \cup {key[t]}) \ gone
            /\ slipped' = IF t = "worker"
                          THEN (slipped \cup (gone \cap InHand)) \ {key[t]}
                          ELSE slipped \ {key[t]}
    BY <1>6 DEF Built
  <2>2. \A v \in gone : pins[v] = 0 /\ v # key[t]
    BY <2>1 DEF Evictions, Evictable
  <2>3. pins' = pins /\ key' = key /\ at' = [at EXCEPT ![t] = "good"] /\ key[t] \in Variant
    BY <1>6 DEF Built
  <2>4. PinnedStaysCached'
    BY <2>1, <2>2, <2>3
  <2>5. HandCached'
    BY <2>1, <2>2, <2>3
  <2>. QED  BY <2>4, <2>5
<1>7. CASE Decline \/ Adopt \/ Retain \/ FallBack
  BY <1>7 DEF Decline, Adopt, Retain, FallBack, use
<1>8. CASE Release
  BY <1>8 DEF Release, Less
<1>9. CASE Check \/ Put \/ Pay \/ Wake \/ Pop \/ Recheck
  BY <1>9 DEF Check, Put, Pay, Wake, Pop, Recheck, use
<1>. QED
  BY <1>1, <1>2, <1>3, <1>4, <1>5, <1>6, <1>7, <1>8, <1>9 DEF Next, Main, Worker, Build

-----------------------------------------------------------------------------
(* The failed builds of a variant. *)

LEMMA ChancesStep ==
    ASSUME TypeOK, Locals, Chances, Next
    PROVE  Chances'
<1>. USE DEF TypeOK, Locals, Chances, Committed, One, Failures, Go, Call, Returns,
             Busy, Calling
<1>1. CASE \E k \in Key : Ask(k)
  BY <1>1 DEF Ask
<1>2. CASE \E v \in Variant : Hint(v) \/ Drop(v)
  BY <1>2 DEF Hint, Drop
<1>3. CASE Look \/ NoReason \/ Reason
  BY <1>3 DEF Look, NoReason, Reason
<1>4. CASE Join \/ Joined
  BY <1>4 DEF Join, Joined
<1>5. ASSUME NEW t \in Thread, Enter(t) \/ EnterAgain(t) \/ Leave(t) \/ Built(t)
      PROVE  Chances'
  BY <1>5 DEF Enter, EnterAgain, Leave, Built
<1>6. ASSUME NEW t \in Thread, NotBuilt(t)
      PROVE  Chances'
  BY <1>6 DEF NotBuilt
<1>7. CASE Decline \/ Adopt \/ Retain \/ Release \/ FallBack
  BY <1>7 DEF Decline, Adopt, Retain, Release, FallBack
<1>8. CASE Check \/ Put \/ Pay \/ Wake \/ Pop \/ Recheck
  BY <1>8 DEF Check, Put, Pay, Wake, Pop, Recheck
<1>. QED
  BY <1>1, <1>2, <1>3, <1>4, <1>5, <1>6, <1>7, <1>8 DEF Next, Main, Worker, Build

-----------------------------------------------------------------------------
(* Pins. *)

LEMMA PinsStep ==
    ASSUME TypeOK, Locals, PinsInv, Next
    PROVE  PinsInv'
<1>. USE DEF TypeOK, Locals, PinsInv, Pinned, One, Go, Call, Returns, Busy, Calling
<1>1. CASE \E k \in Key : Ask(k)
  BY <1>1 DEF Ask, use
<1>2. CASE \E v \in Variant : Hint(v)
  BY <1>2 DEF Hint, use
<1>3. ASSUME NEW v \in Variant, Drop(v)
      PROVE  PinsInv'
  BY <1>3 DEF Drop, Less
<1>4. CASE Look \/ NoReason \/ Join \/ Joined
  BY <1>4 DEF Look, NoReason, Join, Joined, use
<1>5. CASE Reason
  BY <1>5 DEF Reason
<1>6. ASSUME NEW t \in Thread, Enter(t) \/ EnterAgain(t) \/ NotBuilt(t) \/ Leave(t)
      PROVE  PinsInv'
  BY <1>6 DEF Enter, EnterAgain, NotBuilt, Leave, use
<1>7. ASSUME NEW t \in Thread, Built(t)
      PROVE  PinsInv'
  <2>1. PICK gone \in Evictions(key[t]) :
            IF kind = "grid"
            THEN /\ used' = used \ gone
                 /\ leaks' = (leaks \/ (at["main"] = "retain" /\ key["main"] \in gone))
            ELSE UNCHANGED <<used, leaks>>
    BY <1>7 DEF Built
  <2>2. \A v \in gone : v \in Variant /\ pins[v] = 0
    BY <2>1 DEF Evictions, Evictable
  <2>3. /\ kind' = kind /\ pins' = pins /\ old' = old /\ key' = key
        /\ at' = [at EXCEPT ![t] = "good"] /\ at[t] = "build"
    BY <1>7 DEF Built
  <2>4. CASE kind # "grid"
    BY <2>1, <2>3, <2>4
  <2>5. CASE kind = "grid"
    <3>1. ~ leaks' => Pinned' = Pinned
      BY <2>1, <2>2, <2>3, <2>5
    <3>. QED  BY <2>1, <2>2, <2>3, <2>5, <3>1
  <2>. QED  BY <2>4, <2>5
<1>8. CASE Decline \/ FallBack
  BY <1>8 DEF Decline, FallBack, use
<1>9. CASE Adopt
  BY <1>9 DEF Adopt
<1>10. CASE Retain
  BY <1>10 DEF Retain
<1>11. CASE Release
  BY <1>11 DEF Release, Less
<1>12. CASE Check \/ Put \/ Pay \/ Wake \/ Pop \/ Recheck
  BY <1>12 DEF Check, Put, Pay, Wake, Pop, Recheck, use
<1>. QED
  BY <1>1, <1>2, <1>3, <1>4, <1>5, <1>6, <1>7, <1>8, <1>9, <1>10, <1>11, <1>12
     DEF Next, Main, Worker, Build

-----------------------------------------------------------------------------
(* What the cache holds. *)

LEMMA AtMostThree ==
    ASSUME NEW S, NEW a, NEW b, NEW c, S \subseteq {a, b, c}
    PROVE  IsFiniteSet(S) /\ Cardinality(S) <= 3
<1>1. /\ IsFiniteSet({}) /\ Cardinality({}) = 0
  BY FS_EmptySet
<1>2. IsFiniteSet({c}) /\ Cardinality({c}) = 1
  BY FS_Singleton
<1>3. IsFiniteSet({c} \cup {b}) /\ Cardinality({c} \cup {b}) \in 1 .. 2
  BY <1>2, FS_AddElement
<1>4. /\ IsFiniteSet(({c} \cup {b}) \cup {a})
      /\ Cardinality(({c} \cup {b}) \cup {a}) \in 1 .. 3
  <2>. DEFINE T == {c} \cup {b}
  <2>1. IsFiniteSet(T) /\ Cardinality(T) \in 1 .. 2
    BY <1>3
  <2>. HIDE DEF T
  <2>2. /\ IsFiniteSet(T \cup {a})
        /\ Cardinality(T \cup {a}) = IF a \in T THEN Cardinality(T) ELSE Cardinality(T) + 1
    BY <2>1, FS_AddElement
  <2>3. IsFiniteSet(T \cup {a}) /\ Cardinality(T \cup {a}) \in 1 .. 3
    BY <2>1, <2>2
  <2>. QED  BY <2>3 DEF T
<1>5. S \subseteq ({c} \cup {b}) \cup {a}
  OBVIOUS
<1>6. IsFiniteSet(S) /\ Cardinality(S) <= Cardinality(({c} \cup {b}) \cup {a})
  BY <1>4, <1>5, FS_Subset
<1>7. Cardinality(S) \in Nat
  BY <1>6, FS_CardinalityType
<1>. QED  BY <1>4, <1>6, <1>7

LEMMA BudgetStep ==
    ASSUME TypeOK, Locals, PinsInv, Budget, Next
    PROVE  Budget'
<1>1. ASSUME NEW t \in Thread, Built(t)
      PROVE  Budget'
  <2>. SUFFICES ASSUME kind # "grid", ~ leaks
                PROVE  Cardinality(cached') <= 3
    BY <1>1 DEF Built, Budget
  <2>. DEFINE k == key[t]
  <2>1. PICK gone \in Evictions(k) : cached' = (cached \cup {k}) \ gone
    BY <1>1 DEF Built
  <2>2. k \in Variant
    BY <1>1 DEF Built, Locals, Calling, Busy
  <2>3. IsFiniteSet(cached \cup {k}) /\ Cardinality(cached \cup {k}) \in Nat
    BY <2>2, FS_Subset, FS_CardinalityType DEF TypeOK
  <2>4. gone \subseteq Evictable(k) /\ gone \subseteq cached \cup {k}
    BY <2>1 DEF Evictions, Evictable
  <2>5. /\ IsFiniteSet(gone) /\ Cardinality(gone) \in Nat
        /\ Cardinality((cached \cup {k}) \ gone)
              = Cardinality(cached \cup {k}) - Cardinality(gone)
    <3>1. IsFiniteSet(gone)
      BY <2>3, <2>4, FS_Subset
    <3>2. (cached \cup {k}) \cap gone = gone
      BY <2>4
    <3>. QED  BY <2>3, <3>1, <3>2, FS_Difference, FS_CardinalityType
  <2>6. Capacity \in {2, 3}
    BY DEF Capacity, TypeOK
  <2>7. CASE Cardinality(gone) = Over(k)
    BY <2>1, <2>3, <2>5, <2>6, <2>7 DEF Over
  <2>8. CASE gone = Evictable(k)
    <3>1. \A v \in cached' \ {k} : v \in used \cup old
      BY <2>1, <2>8 DEF Evictable, TypeOK, PinsInv, Pinned, One
    <3>2. PICK x, y \in Key : used \subseteq {x} /\ old \subseteq {y}
      BY DEF PinsInv
    <3>3. cached' \subseteq {k, x, y}
      BY <3>1, <3>2
    <3>. QED  BY <3>3, AtMostThree
  <2>. QED  BY <2>1, <2>7, <2>8 DEF Evictions
<1>2. CASE cached' = cached /\ kind' = kind /\ (leaks => leaks')
  BY <1>2 DEF Budget
<1>3. CASE \E k \in Key : Ask(k)
  BY <1>2, <1>3 DEF Ask, use
<1>4. CASE \E v \in Variant : Hint(v) \/ Drop(v)
  BY <1>2, <1>4 DEF Hint, Drop, use
<1>5. CASE Look \/ NoReason \/ Reason \/ Join \/ Joined
  BY <1>2, <1>5 DEF Look, NoReason, Reason, Join, Joined, use
<1>6. ASSUME NEW t \in Thread, Enter(t) \/ EnterAgain(t) \/ NotBuilt(t) \/ Leave(t)
      PROVE  Budget'
  BY <1>2, <1>6 DEF Enter, EnterAgain, NotBuilt, Leave, use
<1>7. CASE Decline \/ Adopt \/ Retain \/ Release \/ FallBack
  BY <1>2, <1>7 DEF Decline, Adopt, Retain, Release, FallBack, use
<1>8. CASE Check \/ Put \/ Pay \/ Wake \/ Pop \/ Recheck
  BY <1>2, <1>8 DEF Check, Put, Pay, Wake, Pop, Recheck, use
<1>. QED
  BY <1>1, <1>3, <1>4, <1>5, <1>6, <1>7, <1>8 DEF Next, Main, Worker, Build, Thread

-----------------------------------------------------------------------------
(* The invariant and what follows from it. *)

LEMMA StutterStep ==
    ASSUME IInv, UNCHANGED vars
    PROVE  IInv'
<1>1. TypeOK' /\ Locals' /\ Flight'
  BY DEF IInv, vars, TypeOK, Locals, Flight
<1>2. TokenPerJob' /\ PinnedStaysCached' /\ HandCached'
  BY DEF IInv, vars, TokenPerJob, PinnedStaysCached, HandCached, InHand
<1>3. Chances'
  BY DEF IInv, vars, Chances, Committed
<1>4. PinsInv'
  BY DEF IInv, vars, PinsInv, Pinned
<1>. QED  BY <1>1, <1>2, <1>3, <1>4 DEF IInv

\* The invariant holds of every process and its cache.
THEOREM Invariance == Spec => []IInv
<1>1. IInv /\ [Next]_vars => IInv'
  BY TypeStep, LocalsStep, FlightStep, TokenStep, KeptStep, ChancesStep, PinsStep,
     StutterStep DEF IInv
<1>. QED  BY <1>1, InitIInv, PTL DEF Spec

\* Type correctness, for any variants.
THEOREM TypeCorrect == Spec => []TypeOK
<1>1. IInv => TypeOK
  BY DEF IInv
<1>. QED  BY <1>1, Invariance, PTL

\* A retained model stays cached, unless it was evicted in the hand of the thread that had
\* just got it (cache.py:225-239).
THEOREM RetainedIsKept == Spec => []PinnedStaysCached
<1>1. IInv => PinnedStaysCached
  BY DEF IInv
<1>. QED  BY <1>1, Invariance, PTL

\* Between swaps a process pins what it uses and nothing else, unless a VR runtime took
\* over a key that failed or a slot was evicted before its retain().
THEOREM NoPinLost == Spec => []PinsFollowUse
<1>1. IInv => PinsFollowUse
  BY DEF IInv, TypeOK, PinsInv, Pinned, One, PinsFollowUse
<1>. QED  BY <1>1, Invariance, PTL

\* The two threads never compile one variant at the same time (cache.py:180-188).
THEOREM OneBuilderEach == Spec => []OneBuilder
<1>1. IInv => OneBuilder
  BY DEF IInv, Flight, Busy, OneBuilder
<1>. QED  BY <1>1, Invariance, PTL

\* A thread waits only for a build the other thread is making (cache.py:162-173, 180-188):
\* the two never wait for each other, nor for a build that failed.
THEOREM WaitersAreServed == Spec => []WaitHasBuilder
<1>1. IInv => WaitHasBuilder
  BY DEF IInv, Flight, Busy, WaitHasBuilder
<1>. QED  BY <1>1, Invariance, PTL

\* A descriptor that cannot be built is tried at most twice in the life of a process.
THEOREM FailuresAreFinal == Spec => []FewRetries
<1>1. IInv => FewRetries
  BY DEF IInv, TypeOK, Chances, One, FewRetries
<1>. QED  BY <1>1, Invariance, PTL

\* Every queued build has its wake-up and every wake-up its build (cache.py:135-140).
THEOREM JobsHaveTokens == Spec => []TokenPerJob
<1>1. IInv => TokenPerJob
  BY DEF IInv
<1>. QED  BY <1>1, Invariance, PTL

\* A process that shows one session holds the base and at most three variants, whatever is
\* prefetched, as long as no pin was lost.
THEOREM WithinBudget == Spec => []Budget
<1>1. Init => Budget
  BY FS_EmptySet DEF Init, Budget
<1>2. IInv /\ Budget /\ [Next]_vars => Budget'
  <2>1. CASE Next
    BY <2>1, BudgetStep DEF IInv
  <2>2. CASE UNCHANGED vars
    BY <2>2 DEF vars, Budget
  <2>. QED  BY <2>1, <2>2
<1>. QED  BY <1>1, <1>2, Invariance, PTL DEF Spec
=============================================================================
