---------------------------- MODULE VariantCache ----------------------------
(***************************************************************************)
(* The cache of compiled model variants (model_variants/cache.py) and the  *)
(* three processes that use it: a policy session, which builds the model   *)
(* of an episode at its start (app.py, _swap_model), a VR runtime and the  *)
(* policy grid, which take a model only when it is there and ask for it    *)
(* otherwise (runtime_impl.py, rebuild_for_variant; policy_grid_viewer.py, *)
(* _ensure_slot).                                                          *)
(*                                                                         *)
(* Each process has one cache, its main thread and the cache's worker.     *)
(* Every section under one of the cache's three locks and every semaphore  *)
(* operation is a step; between two of them the other thread runs.         *)
(***************************************************************************)
EXTENDS Integers, FiniteSets

CONSTANTS
    Variant,        \* the keys of the descriptors, without the base model's
    Base,           \* BASE_KEY: always cached, never evicted
    Unsound,        \* the descriptors whose build may fail
    GridCapacity,   \* --variant_cache of the policy grid
    MaxPins         \* how often a key may be retained (a bound)

ASSUME VariantCacheAssumption ==
    /\ IsFiniteSet(Variant)
    /\ Base \notin Variant
    /\ Unsound \subseteq Variant
    /\ GridCapacity \in Nat \ {0}
    /\ MaxPins \in Nat

VARIABLES
    kind,       \* whose cache it is
    cached,     \* _models, without the base
    pins,       \* _retained, without the base
    fails,      \* fails[v]: the failed builds of v; failures holds those above 0
    pending,    \* _pending
    tokens,     \* _work_sem
    inflight,   \* _inflight
    at,         \* at[t]: where thread t is
    key,        \* key[t]: the key its call is about
    used,       \* model_variant_key, active_variant_key or slots, without the base
    old,        \* the variant the main thread swaps away from
    slipped,    \* history: variants evicted when the main thread had just got them
    leaks       \* history: a pin was lost sight of

calls == <<pending, tokens>>
use == <<pins, used, old, leaks>>
vars == <<kind, cached, pins, fails, pending, tokens, inflight, at, key,
          used, old, slipped, leaks>>

Thread == {"main", "worker"}
Key == Variant \cup {Base}
Failures == {v \in Variant : fails[v] > 0}

Capacity ==
    CASE kind = "policy" -> 2
      [] kind = "vr"     -> 3
      [] kind = "grid"   -> GridCapacity

TypeOK ==
    /\ kind \in {"policy", "vr", "grid"}
    /\ cached \subseteq Variant
    /\ pins \in [Variant -> Nat]
    /\ fails \in [Variant -> Nat]
    /\ pending \subseteq Variant
    /\ tokens \in Nat
    /\ inflight \subseteq Variant
    /\ at \in [Thread -> {"idle", "look", "reasons", "join", "wait", "enter", "again",
                          "build", "good", "bad", "held", "refused", "retain", "release",
                          "check", "put", "pay", "woken", "recheck"}]
    /\ key \in [Thread -> Key]
    /\ used \subseteq Variant
    /\ old \subseteq Variant
    /\ slipped \subseteq Variant
    /\ leaks \in BOOLEAN

Init ==
    /\ kind \in {"policy", "vr", "grid"}
    /\ cached = {} /\ pending = {} /\ tokens = 0 /\ inflight = {}
    /\ pins = [v \in Variant |-> 0]
    /\ fails = [v \in Variant |-> 0]
    /\ at = [t \in Thread |-> "idle"]
    /\ key = [t \in Thread |-> Base]
    /\ used = {} /\ old = {} /\ slipped = {} /\ leaks = FALSE

Call(t, k, where) ==
    /\ at' = [at EXCEPT ![t] = where]
    /\ key' = [key EXCEPT ![t] = k]

\* The key is forgotten where nothing reads it any more.
Go(t, where) ==
    Call(t, IF where \in {"idle", "pay", "release"} THEN Base ELSE key[t], where)
-----------------------------------------------------------------------------
(* get() and failure_reason(), as the main thread of each process calls them. *)

\* A scene, a state message or a tile wants a variant that is not the current one.
Ask(k) ==
    /\ at["main"] = "idle"
    /\ k \notin used
    /\ k = Base => kind # "grid" /\ used # {}
    /\ k # Base => pins[k] < MaxPins
    /\ Call("main", k, "look")
    /\ UNCHANGED <<kind, cached, fails, inflight, slipped>>
    /\ UNCHANGED calls /\ UNCHANGED use

Look ==
    /\ at["main"] = "look"
    /\ Go("main", IF key["main"] \in cached \cup {Base} THEN "held" ELSE "reasons")
    /\ UNCHANGED <<kind, cached, fails, inflight, slipped>>
    /\ UNCHANGED calls /\ UNCHANGED use

\* A policy session goes on to build, the other two to prefetch().
NoReason ==
    /\ at["main"] = "reasons" /\ key["main"] \notin Failures
    /\ Go("main", IF kind = "policy" THEN "join" ELSE "check")
    /\ UNCHANGED <<kind, cached, fails, inflight, slipped>>
    /\ UNCHANGED calls /\ UNCHANGED use

\* A policy session falls back, a tile shows the base model, a VR runtime takes over the
\* key and goes on rendering the model it has.
Reason ==
    /\ at["main"] = "reasons" /\ key["main"] \in Failures
    /\ Go("main", IF kind = "policy" THEN "refused" ELSE "idle")
    /\ IF kind = "vr"
       THEN used' = {key["main"]} /\ leaks' = TRUE
       ELSE UNCHANGED <<used, leaks>>
    /\ UNCHANGED <<kind, cached, fails, inflight, pins, old, slipped>>
    /\ UNCHANGED calls
-----------------------------------------------------------------------------
(* get_or_build(): a build in flight is waited for. *)

Join ==
    /\ at["main"] = "join"
    /\ Go("main", IF key["main"] \in inflight THEN "wait" ELSE "enter")
    /\ UNCHANGED <<kind, cached, fails, inflight, slipped>>
    /\ UNCHANGED calls /\ UNCHANGED use

Joined ==
    /\ at["main"] = "wait" /\ key["main"] \notin inflight
    /\ Go("main", IF key["main"] \in cached THEN "held"
                  ELSE IF key["main"] \in Failures THEN "refused" ELSE "enter")
    /\ UNCHANGED <<kind, cached, fails, inflight, slipped>>
    /\ UNCHANGED calls /\ UNCHANGED use
-----------------------------------------------------------------------------
(* _build_now(), by the worker or the main thread of a policy session. *)

Returns(t) == Go(t, IF t = "main" THEN "held" ELSE "idle")

\* Mutated: no look at what is in flight.
EnterAnyway(t) ==
    /\ at[t] = "enter"
    /\ Go(t, "build") /\ inflight' = inflight \cup {key[t]}
    /\ UNCHANGED <<kind, cached, fails, slipped>>
    /\ UNCHANGED calls /\ UNCHANGED use

Enter(t) ==
    /\ at[t] = "enter"
    /\ IF key[t] \in inflight
       THEN Go(t, "again") /\ UNCHANGED inflight
       ELSE Go(t, "build") /\ inflight' = inflight \cup {key[t]}
    /\ UNCHANGED <<kind, cached, fails, slipped>>
    /\ UNCHANGED calls /\ UNCHANGED use

\* The other thread's build has ended; one that failed is tried once more.
EnterAgain(t) ==
    /\ at[t] = "again" /\ key[t] \notin inflight
    /\ IF key[t] \in cached
       THEN Returns(t) /\ UNCHANGED inflight
       ELSE Go(t, "build") /\ inflight' = inflight \cup {key[t]}
    /\ UNCHANGED <<kind, cached, fails, slipped>>
    /\ UNCHANGED calls /\ UNCHANGED use

\* Mutated: the model just built is a candidate.
EvictableOwn(k) == {v \in cached \cup {k} : pins[v] = 0}

Evictable(k) == {v \in cached \ {k} : pins[v] = 0}

Over(k) ==
    LET size == Cardinality(cached \cup {k}) + 1 IN
    IF size > Capacity THEN size - Capacity ELSE 0

\* The evictions that make room for k: as many as it takes, or all there are. Which of the
\* candidates is the least recently used is left open.
Evictions(k) ==
    {gone \in SUBSET Evictable(k) :
        /\ Cardinality(gone) <= Over(k)
        /\ Cardinality(gone) = Over(k) \/ gone = Evictable(k)}

\* What the main thread was given and has not retained.
InHand == IF at["main"] \in {"good", "held", "retain"} THEN {key["main"]} ELSE {}

Built(t) ==
    /\ at[t] = "build"
    /\ Go(t, "good")
    /\ \E gone \in Evictions(key[t]) :
        /\ cached' = (cached \cup {key[t]}) \ gone
        /\ slipped' = IF t = "worker"
                      THEN (slipped \cup (gone \cap InHand)) \ {key[t]}
                      ELSE slipped \ {key[t]}
        /\ IF kind = "grid"     \* _on_variant_evicted()
           THEN /\ used' = used \ gone
                /\ leaks' = (leaks \/ (at["main"] = "retain" /\ key["main"] \in gone))
           ELSE UNCHANGED <<used, leaks>>
    /\ UNCHANGED <<kind, pins, fails, inflight, old>>
    /\ UNCHANGED calls

NotBuilt(t) ==
    /\ at[t] = "build" /\ key[t] \in Unsound
    /\ Go(t, "bad")
    /\ fails' = [fails EXCEPT ![key[t]] = @ + 1]
    /\ UNCHANGED <<kind, cached, inflight, slipped>>
    /\ UNCHANGED calls /\ UNCHANGED use

\* Mutated: only a build that succeeded leaves _inflight.
LeaveIfBuilt(t) ==
    /\ at[t] \in {"good", "bad"}
    /\ inflight' = IF at[t] = "good" THEN inflight \ {key[t]} ELSE inflight
    /\ IF at[t] = "good" THEN Returns(t)
       ELSE Go(t, IF t = "main" THEN "refused" ELSE "idle")
    /\ UNCHANGED <<kind, cached, fails, slipped>>
    /\ UNCHANGED calls /\ UNCHANGED use

\* The finally of _build_now().
Leave(t) ==
    /\ at[t] \in {"good", "bad"}
    /\ inflight' = inflight \ {key[t]}
    /\ IF at[t] = "good" THEN Returns(t)
       ELSE Go(t, IF t = "main" THEN "refused" ELSE "idle")
    /\ UNCHANGED <<kind, cached, fails, slipped>>
    /\ UNCHANGED calls /\ UNCHANGED use
-----------------------------------------------------------------------------
(* What a process does with the model. *)

\* The player, or the grid's render context, refuses the model.
Decline ==
    /\ at["main"] = "held" /\ kind # "vr"
    /\ Go("main", "idle")
    /\ UNCHANGED <<kind, cached, fails, inflight, slipped>>
    /\ UNCHANGED calls /\ UNCHANGED use

\* The swap up to where the new key is in place.
Adopt ==
    /\ at["main"] = "held"
    /\ Go("main", IF key["main"] = Base THEN "release" ELSE "retain")
    /\ IF kind = "grid"
       THEN used' = used \cup {key["main"]} /\ UNCHANGED old
       ELSE used' = {key["main"]} \ {Base} /\ old' = used
    /\ UNCHANGED <<kind, cached, pins, fails, inflight, slipped, leaks>>
    /\ UNCHANGED calls

Retain ==
    /\ at["main"] = "retain"
    /\ Go("main", IF old = {} THEN "idle" ELSE "release")
    /\ pins' = [pins EXCEPT ![key["main"]] = @ + 1]
    /\ UNCHANGED <<kind, cached, fails, inflight, used, old, slipped, leaks>>
    /\ UNCHANGED calls

Less(n) == IF n = 0 THEN 0 ELSE n - 1

\* Mutated: the model before is never given up.
ReleaseNothing ==
    /\ at["main"] = "release"
    /\ Go("main", "idle")
    /\ old' = {}
    /\ UNCHANGED <<kind, cached, pins, fails, inflight, used, slipped, leaks>>
    /\ UNCHANGED calls

Release ==
    /\ at["main"] = "release"
    /\ Go("main", "idle")
    /\ pins' = [v \in Variant |-> IF v \in old THEN Less(pins[v]) ELSE pins[v]]
    /\ old' = {}
    /\ UNCHANGED <<kind, cached, fails, inflight, used, slipped, leaks>>
    /\ UNCHANGED calls

\* A policy session whose model was refused goes back to the base model.
FallBack ==
    /\ at["main"] = "refused"
    /\ IF used = {} THEN Go("main", "idle")
       ELSE Call("main", Base, "look")
    /\ UNCHANGED <<kind, cached, fails, inflight, slipped>>
    /\ UNCHANGED calls /\ UNCHANGED use

\* A slot that no tile shows any more (_release_unused_slots).
Drop(v) ==
    /\ kind = "grid" /\ at["main"] = "idle" /\ v \in used
    /\ used' = used \ {v}
    /\ pins' = [pins EXCEPT ![v] = Less(@)]
    /\ UNCHANGED <<kind, cached, fails, inflight, at, key, old, slipped, leaks>>
    /\ UNCHANGED calls
-----------------------------------------------------------------------------
(* prefetch(). *)

\* The next episode's candidates, or the next_variant of a state message. The grid acts on
\* none.
Hint(v) ==
    /\ at["main"] = "idle" /\ kind # "grid"
    /\ Call("main", v, "check")
    /\ UNCHANGED <<kind, cached, fails, inflight, slipped>>
    /\ UNCHANGED calls /\ UNCHANGED use

Check ==
    /\ at["main"] = "check"
    /\ Go("main", IF key["main"] \in cached \cup Failures THEN "idle" ELSE "put")
    /\ UNCHANGED <<kind, cached, fails, inflight, slipped>>
    /\ UNCHANGED calls /\ UNCHANGED use

\* Mutated: the worker is woken for the first job only.
PutWakesOnce ==
    /\ at["main"] = "put"
    /\ Go("main", IF pending = {} THEN "pay" ELSE "idle")
    /\ pending' = pending \cup {key["main"]}
    /\ UNCHANGED <<kind, cached, fails, inflight, tokens, slipped>>
    /\ UNCHANGED use

Put ==
    /\ at["main"] = "put"
    /\ Go("main", IF key["main"] \in pending THEN "idle" ELSE "pay")
    /\ pending' = pending \cup {key["main"]}
    /\ UNCHANGED <<kind, cached, fails, inflight, tokens, slipped>>
    /\ UNCHANGED use

Pay ==
    /\ at["main"] = "pay"
    /\ Go("main", "idle")
    /\ tokens' = tokens + 1
    /\ UNCHANGED <<kind, cached, fails, inflight, pending, slipped>>
    /\ UNCHANGED use
-----------------------------------------------------------------------------
(* The worker: _run(). *)

Wake ==
    /\ at["worker"] = "idle" /\ tokens > 0
    /\ Go("worker", "woken")
    /\ tokens' = tokens - 1
    /\ UNCHANGED <<kind, cached, fails, inflight, pending, slipped>>
    /\ UNCHANGED use

\* popitem() takes the job put last; here it may be any.
Pop ==
    /\ at["worker"] = "woken"
    /\ IF pending = {}
       THEN Go("worker", "idle") /\ UNCHANGED pending
       ELSE \E v \in pending : Call("worker", v, "recheck") /\ pending' = pending \ {v}
    /\ UNCHANGED <<kind, cached, fails, inflight, tokens, slipped>>
    /\ UNCHANGED use

\* Mutated: a key that failed since is built again.
RecheckCached ==
    /\ at["worker"] = "recheck"
    /\ Go("worker", IF key["worker"] \in cached THEN "idle" ELSE "enter")
    /\ UNCHANGED <<kind, cached, fails, inflight, slipped>>
    /\ UNCHANGED calls /\ UNCHANGED use

Recheck ==
    /\ at["worker"] = "recheck"
    /\ Go("worker", IF key["worker"] \in cached \cup Failures THEN "idle" ELSE "enter")
    /\ UNCHANGED <<kind, cached, fails, inflight, slipped>>
    /\ UNCHANGED calls /\ UNCHANGED use

Build(t) == Enter(t) \/ EnterAgain(t) \/ Built(t) \/ NotBuilt(t) \/ Leave(t)

\* The main thread inside a call of the cache or a swap.
Main ==
    \/ Look \/ NoReason \/ Reason \/ Join \/ Joined \/ Build("main")
    \/ Decline \/ Adopt \/ Retain \/ Release \/ FallBack
    \/ Check \/ Put \/ Pay

Worker == Wake \/ Pop \/ Recheck \/ Build("worker")

Next ==
    \/ \E k \in Key : Ask(k)
    \/ \E v \in Variant : Hint(v) \/ Drop(v)
    \/ Main
    \/ Worker

Spec == Init /\ [][Next]_vars

\* Both threads are scheduled and a build ends. Nobody has to ask for anything.
FairSpec == Spec /\ WF_vars(Main) /\ WF_vars(Worker)
-----------------------------------------------------------------------------
(* Properties. *)

\* A model a process renders from and has retained is in the cache, whatever is built
\* behind its back (cache.py:49-50, 225-239). The exception is one that was evicted between
\* the lookup and the retain(), and was not built again since.
PinnedStaysCached ==
    \A v \in Variant : pins[v] > 0 => v \in cached \cup slipped

\* Between two swaps exactly the models in use are pinned: no model of an earlier episode
\* or slot keeps its 404 MB (app.py:2097-2100, runtime_impl.py:4857-4862,
\* policy_grid_viewer.py:704-705, 725-735). Two events break this for good: a VR runtime
\* takes over the key of a variant that failed, or a grid slot is evicted before its
\* retain().
PinsFollowUse ==
    at["main"] = "idle" /\ ~ leaks =>
        pins = [v \in Variant |-> IF v \in used THEN 1 ELSE 0]

\* The base, the model in use, the one swapped away from and the one just built: with no
\* pin lost a process that shows one session never holds more
\* (cache.py:225-241, app.py:1993-1995, runtime_impl.py:4264-4265).
Budget ==
    kind # "grid" /\ ~ leaks => Cardinality(cached) <= 3

\* Never two compilations of one variant at a time (cache.py:60-61, 180-188).
OneBuilder ==
    at["main"] = "build" /\ at["worker"] = "build" => key["main"] # key["worker"]

\* A broken descriptor fails once for every thread that had passed its check, and is never
\* tried again, however many scenes ask for it (cache.py:53-55, 157-160, 263-265).
FewRetries ==
    \A v \in Variant : fails[v] <= 2

\* The worker's semaphore counts the jobs that nobody has taken: no job is left without a
\* wake-up and none is woken for twice (cache.py:135-140, 255-261).
TokenPerJob ==
    Cardinality(pending) = tokens + (IF at["main"] = "pay" THEN 1 ELSE 0)
                                  + (IF at["worker"] = "woken" THEN 1 ELSE 0)

\* A thread that waits for a build waits for the other thread, which is making it: what is
\* in flight never outlives its build, and the threads never wait for each other
\* (cache.py:162-173, 180-188, 220-223).
WaitHasBuilder ==
    \A t \in Thread : at[t] \in {"wait", "again"} /\ key[t] \in inflight =>
        \E u \in Thread \ {t} : at[u] \in {"build", "good", "bad"} /\ key[u] = key[t]

\* The start of an episode is never stuck in the cache, also when the build it waits for
\* fails or its model is evicted at once (cache.py:162-173, 180-188, 220-223).
CallReturns ==
    at["main"] # "idle" ~> at["main"] = "idle"
=============================================================================
