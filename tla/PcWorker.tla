------------------------------ MODULE PcWorker ------------------------------
(***************************************************************************)
(* The point clouds of a VR runtime: the main loop submits the depth       *)
(* frames of the cameras, worker threads build clouds from them on the     *)
(* GPU, and the main loop drains and publishes what was built              *)
(* (SimPublisher/sii/integration_v1/runtime_impl.py, PCWorkerThread and    *)
(* the closures of main() that drop the backlog and change the model).     *)
(*                                                                         *)
(* The pending jobs are guarded by a lock and counted by a semaphore that  *)
(* is released, acquired and drained outside it: every lock section and    *)
(* every semaphore operation is a step of its own.                         *)
(***************************************************************************)
EXTENDS Naturals, Sequences, FiniteSets

CONSTANTS
    Worker,         \* the threads of --pc_worker_threads
    Camera,
    Model,          \* the variant keys, each naming a compiled model
    Base,           \* BASE_VARIANT_KEY
    Unbuildable,    \* the variants the cache has a failure for
    MaxSeq          \* MaxSeq[c]: the frames of camera c told apart at a time (a bound)

ASSUME PcWorkerAssumption ==
    /\ IsFiniteSet(Worker) /\ Worker # {}
    /\ Base \in Model
    /\ Unbuildable \subseteq Model \ {Base}
    /\ MaxSeq \in [Camera -> Nat]

VARIABLES
    at,         \* where the main loop is inside PCWorkerThread
    queue,      \* _pending, in the order of the dict
    tokens,     \* _work_sem
    left,       \* tokens clear_input() still wants to take back
    clearing,   \* what the backlog is dropped for
    thread,     \* thread[w]: where worker w is
    job,        \* job[w]: what worker w builds
    completed,  \* _completed
    stop,       \* _stop
    model,      \* the model the renderer is bound to
    key,        \* active_variant_key
    published   \* history: the clouds the last step put on the wire

main == <<at, left, clearing, model, key>>
vars == <<at, queue, tokens, left, clearing, thread, job, completed, stop,
          model, key, published>>

Numbers == UNION {1 .. MaxSeq[c] : c \in Camera}

\* The frames of a camera are numbered on from those of its frames that are in work or
\* built: the numbers tell which of two was submitted first, and submitting never ends.
Frame == [cam : Camera, seq : Numbers, key : Model, model : Model]
NoJob == [cam |-> "none"]
Refresh == [keep |-> TRUE, swap |-> FALSE, to |-> Base]
Visit == [keep |-> FALSE, swap |-> FALSE, to |-> Base]
Variant(k) == [keep |-> FALSE, swap |-> TRUE, to |-> k]
Reason == [keep : BOOLEAN, swap : BOOLEAN, to : Model]

Cams(s) == {s[i].cam : i \in DOMAIN s}
Waiting == {queue[i] : i \in DOMAIN queue}
Building == {job[w] : w \in {u \in Worker : thread[u] = "build"}}
Taken(c) == {f \in Building \cup completed : f.cam = c}
Holding == {w \in Worker : thread[w] = "token"}
Owed == IF at = "owe" THEN 1 ELSE 0

TypeOK ==
    /\ at \in {"run", "owe", "take", "empty", "off"}
    /\ queue \in Seq(Frame)
    /\ \A i, j \in DOMAIN queue : queue[i].cam = queue[j].cam => i = j
    /\ tokens \in Nat
    /\ left \in Nat
    /\ clearing \in Reason
    /\ thread \in [Worker -> {"idle", "token", "build", "gone"}]
    /\ job \in [Worker -> Frame \cup {NoJob}]
    /\ \A w \in Worker : thread[w] = "build" => job[w] \in Frame
    /\ completed \subseteq Frame
    /\ \A f, g \in completed : f.cam = g.cam => f = g
    /\ stop \in BOOLEAN
    /\ model \in Model /\ key \in Model
    /\ published \subseteq Frame

Init ==
    /\ at = "run" /\ queue = <<>> /\ tokens = 0 /\ left = 0 /\ clearing = Visit
    /\ thread = [w \in Worker |-> "idle"]
    /\ job = [w \in Worker |-> NoJob]
    /\ completed = {} /\ stop = FALSE
    /\ model = Base /\ key = Base
    /\ published = {}
-----------------------------------------------------------------------------
(* The main loop. *)

\* Mutated: a token for the first pending job only.
PutWakesOnce(f) ==
    IF f.cam \in Cams(queue)
    THEN /\ queue' = [i \in DOMAIN queue |-> IF queue[i].cam = f.cam THEN f ELSE queue[i]]
         /\ UNCHANGED at
    ELSE /\ queue' = Append(queue, f)
         /\ at' = IF queue = <<>> THEN "owe" ELSE at

\* A camera that has a pending job keeps its place in the dict and gets no token.
Put(f) ==
    IF f.cam \in Cams(queue)
    THEN /\ queue' = [i \in DOMAIN queue |-> IF queue[i].cam = f.cam THEN f ELSE queue[i]]
         /\ UNCHANGED at
    ELSE /\ queue' = Append(queue, f)
         /\ at' = "owe"

\* submit(), with what publish_sensor_frames() tells of the frame.
Submit(c) ==
    /\ at = "run"
    /\ \E n \in 1 .. MaxSeq[c] :
        /\ n - 1 \in {0} \cup {f.seq : f \in Taken(c)}
        /\ \A f \in Taken(c) : f.seq < n
        /\ Put([cam |-> c, seq |-> n, key |-> key, model |-> model])
    /\ published' = {}
    /\ UNCHANGED <<tokens, left, clearing, thread, job, completed, stop, model, key>>

\* The semaphore is released after the lock.
Pay ==
    /\ at = "owe"
    /\ at' = "run"
    /\ tokens' = tokens + 1
    /\ published' = {}
    /\ UNCHANGED <<queue, left, clearing, thread, job, completed, stop, model, key>>

\* drop_point_cloud_backlog(): a warm-up keeps what is built, the start and the end of a
\* visit, an idle session and a new model drop that too.
Drop(why) ==
    /\ at = "run"
    /\ at' = "take"
    /\ clearing' = why
    /\ left' = Len(queue)
    /\ queue' = <<>>
    /\ published' = {}
    /\ UNCHANGED <<tokens, thread, job, completed, stop, model, key>>

NewModel(k) ==
    /\ k # key /\ k \notin Unbuildable
    /\ Drop(Variant(k))

\* No cache, or a variant that cannot be had: only the key moves on.
Adopt(k) ==
    /\ at = "run" /\ k # key /\ k \in Unbuildable
    /\ key' = k
    /\ published' = {}
    /\ UNCHANGED <<at, queue, tokens, left, clearing, thread, job, completed, stop, model>>

\* Mutated: the tokens of the dropped jobs are left.
TakeBackNone ==
    /\ at = "take"
    /\ at' = "empty" /\ left' = 0
    /\ published' = {}
    /\ UNCHANGED <<queue, tokens, clearing, thread, job, completed, stop, model, key>>

\* clear_input() takes back as many tokens as it dropped jobs, those that are still there.
TakeBack ==
    /\ at = "take"
    /\ IF left > 0 /\ tokens > 0
       THEN at' = at /\ left' = left - 1 /\ tokens' = tokens - 1
       ELSE at' = "empty" /\ left' = 0 /\ UNCHANGED tokens
    /\ published' = {}
    /\ UNCHANGED <<queue, clearing, thread, job, completed, stop, model, key>>

\* clear_pending(), and the rest of rebuild_for_variant().
Cleared ==
    /\ at = "empty"
    /\ at' = "run"
    /\ completed' = IF clearing.keep THEN completed ELSE {}
    /\ model' = IF clearing.swap THEN clearing.to ELSE model
    /\ key' = IF clearing.swap THEN clearing.to ELSE key
    /\ clearing' = Visit
    /\ published' = {}
    /\ UNCHANGED <<queue, tokens, left, thread, job, stop>>

\* Mutated: what was built before the model changed is published.
CurrentAny(f) == TRUE

Current(f) == f.key = key

\* drain(): of the built clouds some are held back, by the activation gate or the rate cap.
Publish(open) ==
    /\ at = "run"
    /\ published' = {f \in completed : f.cam \in open /\ Current(f)}
    /\ completed' = {}
    /\ UNCHANGED <<queue, tokens, thread, job, stop>> /\ UNCHANGED main

Stop ==
    /\ at = "run"
    /\ at' = "off"
    /\ stop' = TRUE
    /\ tokens' = tokens + Cardinality(Worker)
    /\ published' = {}
    /\ UNCHANGED <<queue, left, clearing, thread, job, completed, model, key>>
-----------------------------------------------------------------------------
(* A worker: _run(). *)

Go(w, where) == thread' = [thread EXCEPT ![w] = where]

Acquire(w) ==
    /\ thread[w] = "idle" /\ tokens > 0
    /\ tokens' = tokens - 1
    /\ Go(w, IF stop THEN "gone" ELSE "token")
    /\ published' = {}
    /\ UNCHANGED <<queue, job, completed, stop>> /\ UNCHANGED main

\* The timeout of acquire() is what lets an idle worker see the stop.
Leave(w) ==
    /\ thread[w] = "idle" /\ stop
    /\ Go(w, "gone")
    /\ published' = {}
    /\ UNCHANGED <<queue, tokens, job, completed, stop>> /\ UNCHANGED main

\* Mutated: the camera that came last is served first.
TakeLast(w) ==
    /\ thread[w] = "token"
    /\ IF queue = <<>>
       THEN Go(w, "idle") /\ UNCHANGED <<queue, job>>
       ELSE /\ Go(w, "build")
            /\ job' = [job EXCEPT ![w] = queue[Len(queue)]]
            /\ queue' = SubSeq(queue, 1, Len(queue) - 1)
    /\ published' = {}
    /\ UNCHANGED <<tokens, completed, stop>> /\ UNCHANGED main

\* The oldest pending camera, or none: the token was a surplus one.
Take(w) ==
    /\ thread[w] = "token"
    /\ IF queue = <<>>
       THEN Go(w, "idle") /\ UNCHANGED <<queue, job>>
       ELSE /\ Go(w, "build")
            /\ job' = [job EXCEPT ![w] = Head(queue)]
            /\ queue' = Tail(queue)
    /\ published' = {}
    /\ UNCHANGED <<tokens, completed, stop>> /\ UNCHANGED main

\* Mutated: a build that raised is tried again.
BuiltOrRequeued(w) ==
    /\ thread[w] = "build"
    /\ Go(w, "idle")
    /\ job' = [job EXCEPT ![w] = NoJob]
    /\ \/ /\ completed' = {f \in completed : f.cam # job[w].cam} \cup {job[w]}
          /\ UNCHANGED <<queue, tokens>>
       \/ /\ job[w].cam \notin Cams(queue)
          /\ queue' = Append(queue, job[w]) /\ tokens' = tokens + 1
          /\ UNCHANGED completed
    /\ published' = {}
    /\ UNCHANGED stop /\ UNCHANGED main

\* A build that raised leaves nothing.
Built(w) ==
    /\ thread[w] = "build"
    /\ Go(w, "idle")
    /\ job' = [job EXCEPT ![w] = NoJob]
    /\ \/ completed' = {f \in completed : f.cam # job[w].cam} \cup {job[w]}
       \/ UNCHANGED completed
    /\ published' = {}
    /\ UNCHANGED <<queue, tokens, stop>> /\ UNCHANGED main

Work(w) == Acquire(w) \/ Leave(w) \/ Take(w) \/ Built(w)

Loop ==
    \/ \E c \in Camera : Submit(c)
    \/ Pay
    \/ Drop(Refresh)
    \/ Drop(Visit)
    \/ \E k \in Model : NewModel(k) \/ Adopt(k)
    \/ TakeBack
    \/ Cleared
    \/ \E open \in SUBSET Camera : Publish(open)
    \/ Stop

Next == Loop \/ \E w \in Worker : Work(w)

Spec == Init /\ [][Next]_vars

\* The threads are scheduled and a build ends; the main loop comes back from the calls it
\* makes, and promises nothing else.
FairSpec ==
    /\ Spec
    /\ \A w \in Worker : WF_vars(Work(w))
    /\ WF_vars(Pay \/ TakeBack \/ Cleared)
-----------------------------------------------------------------------------
(* Properties. *)

\* Every pending job has a token, free or in the hand of a worker that has not looked yet:
\* the tokens clear_input() takes back, outside the lock, are never those of a job that
\* was submitted since, and no camera is stranded (runtime_impl.py:3958-3990).
EveryJobHasToken ==
    ~ stop => Len(queue) <= tokens + Cardinality(Holding) + Owed

\* However often the backlog is dropped under the workers, the tokens without a job never
\* outnumber the workers: the workers do not come to spin on an empty dict
\* (runtime_impl.py:3982-3989).
SurplusBounded ==
    at \in {"run", "owe"} =>
        tokens + Cardinality(Holding) + Owed <= Len(queue) + Cardinality(Worker)

\* A cloud on the wire was built from a frame of the model that is shown, also when its
\* build outlived a change of the model; a variant that could not be built is shown on
\* whatever model came before (runtime_impl.py:4803-4856, 5963-5977).
PublishedOnModel ==
    \A f \in published : f.key \notin Unbuildable => f.model = model

\* Per camera the latest frame waits, one worker takes it, no frame is taken up after a
\* later one of its camera, a cloud is shown once and nothing that was dropped comes back,
\* however the two locks, the semaphore and the workers interleave
\* (runtime_impl.py:3936-3940, 3958-4062).
Flow == INSTANCE FrameFlow WITH
            waiting <- Waiting,
            building <- Building,
            built <- completed,
            shown <- published
ImplementsFrameFlow == Flow!Spec

\* A camera's pending frame is taken up or dropped, however many frames the other cameras
\* submit in the meantime (runtime_impl.py:3958-3990, 4016-4020).
JobIsTaken ==
    \A c \in Camera : c \in Cams(queue) ~> c \notin Cams(queue) \/ stop

\* "Completed builds are latest-per-camera too" (runtime_impl.py:3940): no build replaces
\* that of a later frame of the same camera.
LatestPerCamera ==
    [][\A f \in completed, g \in completed' : f.cam = g.cam => f.seq <= g.seq]_vars
=============================================================================
