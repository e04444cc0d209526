--------------------------- MODULE PcWorkerProofs ---------------------------
(***************************************************************************)
(* The jobs and their tokens for any number of workers and cameras.  The   *)
(* argument: a job and its token are given out and taken back in steps of  *)
(* their own, and between them the count is off by what the main loop owes *)
(* or still wants back.                                                    *)
(***************************************************************************)
EXTENDS PcWorker, FiniteSetTheorems, TLAPS

StopsAtEnd == stop => at = "off"

ClearedQueue == at \in {"take", "empty"} => queue = <<>>

\* What a worker may still find no job for.
SurplusInv ==
    /\ SurplusBounded
    /\ at = "take" => tokens + Cardinality(Holding) <= left + Cardinality(Worker)
    /\ at = "empty" => tokens + Cardinality(Holding) <= Cardinality(Worker)

TokenInv ==
    /\ TypeOK
    /\ StopsAtEnd
    /\ ClearedQueue
    /\ EveryJobHasToken
    /\ SurplusInv

Named(f) == f.key \notin Unbuildable => f.model = f.key

FramesNamed ==
    /\ key \notin Unbuildable => model = key
    /\ at \in {"take", "empty"} /\ clearing.swap => clearing.to \notin Unbuildable
    /\ \A i \in DOMAIN queue : Named(queue[i])
    /\ \A w \in Worker : thread[w] = "build" => Named(job[w])
    /\ \A f \in completed : Named(f)

ModelInv ==
    /\ TypeOK
    /\ FramesNamed
    /\ PublishedOnModel
-----------------------------------------------------------------------------
(* Type correctness                                                        *)

LEMMA InitType == Init => TypeOK
<1> SUFFICES ASSUME Init PROVE TypeOK
  OBVIOUS
<1>1. Visit \in Reason
  BY PcWorkerAssumption DEF Visit, Reason
<1>2. job \in [Worker -> Frame \cup {NoJob}]
  BY DEF Init
<1>3. queue \in Seq(Frame) /\ DOMAIN queue = {}
  BY DEF Init
<1>4. \A i, j \in DOMAIN queue : queue[i].cam = queue[j].cam => i = j
  BY <1>3
<1>5. /\ at = "run" /\ tokens = 0 /\ left = 0 /\ clearing = Visit
      /\ thread = [w \in Worker |-> "idle"]
      /\ completed = {} /\ stop = FALSE
      /\ model \in Model /\ key \in Model /\ published = {}
  BY PcWorkerAssumption DEF Init
<1>6. /\ thread \in [Worker -> {"idle", "token", "build", "gone"}]
      /\ \A w \in Worker : thread[w] # "build"
  BY <1>5
<1>7. /\ completed \subseteq Frame /\ published \subseteq Frame
      /\ \A f, g \in completed : f.cam = g.cam => f = g
  BY <1>5
<1>8. tokens \in Nat /\ left \in Nat
  BY <1>5, PcWorkerAssumption
<1>9. QED
  BY <1>1, <1>2, <1>3, <1>4, <1>5, <1>6, <1>7, <1>8, Zenon DEF TypeOK

\* submit() puts a frame of its camera that is later than those taken up before it.
LEMMA SubmitsAFrame ==
    ASSUME TypeOK, NEW c \in Camera, Submit(c)
    PROVE  \E f \in Frame :
              /\ Put(f)
              /\ f.cam = c /\ f.key = key /\ f.model = model
              /\ \A g \in Taken(c) : g.seq < f.seq
<1>1. PICK n \in 1 .. MaxSeq[c] :
        /\ \A g \in Taken(c) : g.seq < n
        /\ Put([cam |-> c, seq |-> n, key |-> key, model |-> model])
  BY DEF Submit
<1>2. PICK f : f = [cam |-> c, seq |-> n, key |-> key, model |-> model]
  OBVIOUS
<1>3. n \in Numbers
  BY <1>1 DEF Numbers
<1>4. f \in Frame
  BY <1>2, <1>3 DEF Frame, TypeOK
<1>5. QED
  BY <1>1, <1>2, <1>4

LEMMA PutType ==
    ASSUME TypeOK, NEW f \in Frame, Put(f)
    PROVE  /\ queue' \in Seq(Frame)
           /\ \A i, j \in DOMAIN queue' : queue'[i].cam = queue'[j].cam => i = j
           /\ at' \in {at, "owe"}
<1>1. CASE f.cam \in Cams(queue)
  <2>1. queue' = [i \in DOMAIN queue |-> IF queue[i].cam = f.cam THEN f ELSE queue[i]]
    BY <1>1 DEF Put
  <2>2. DOMAIN queue' = DOMAIN queue /\ \A i \in DOMAIN queue : queue'[i].cam = queue[i].cam
    BY <2>1
  <2>3. queue' \in Seq(Frame)
    BY <2>1 DEF TypeOK
  <2>4. QED
    BY <1>1, <2>2, <2>3 DEF Put, TypeOK
<1>2. CASE f.cam \notin Cams(queue)
  <2>1. queue' = Append(queue, f) /\ queue \in Seq(Frame)
    BY <1>2 DEF Put, TypeOK
  <2>2. \A i \in DOMAIN queue : queue[i].cam # f.cam
    BY <1>2 DEF Cams
  <2>3. /\ queue' \in Seq(Frame) /\ Len(queue') = Len(queue) + 1
        /\ queue'[Len(queue) + 1] = f
        /\ \A i \in 1 .. Len(queue) : queue'[i] = queue[i]
    BY <2>1
  <2>4. ASSUME NEW i \in DOMAIN queue', NEW j \in DOMAIN queue', queue'[i].cam = queue'[j].cam
        PROVE  i = j
    <3>1. i \in 1 .. Len(queue) + 1 /\ j \in 1 .. Len(queue) + 1
      BY <2>3
    <3>2. CASE i = Len(queue) + 1 \/ j = Len(queue) + 1
      BY <2>1, <2>2, <2>3, <2>4, <3>1, <3>2
    <3>3. CASE i # Len(queue) + 1 /\ j # Len(queue) + 1
      BY <2>1, <2>3, <2>4, <3>1, <3>3 DEF TypeOK
    <3>4. QED
      BY <3>2, <3>3
  <2>5. QED
    BY <1>2, <2>3, <2>4 DEF Put
<1>3. QED
  BY <1>1, <1>2

LEMMA TakeType ==
    ASSUME TypeOK, queue # <<>>
    PROVE  /\ Head(queue) \in Frame /\ Tail(queue) \in Seq(Frame)
           /\ \A i, j \in DOMAIN Tail(queue) : Tail(queue)[i].cam = Tail(queue)[j].cam => i = j
<1>1. queue \in Seq(Frame) /\ Len(queue) # 0
  BY DEF TypeOK
<1>2. /\ Head(queue) \in Frame /\ Tail(queue) \in Seq(Frame)
      /\ Len(Tail(queue)) = Len(queue) - 1
      /\ \A i \in 1 .. Len(queue) - 1 : Tail(queue)[i] = queue[i + 1]
  BY <1>1
<1>3. ASSUME NEW i \in DOMAIN Tail(queue), NEW j \in DOMAIN Tail(queue),
             Tail(queue)[i].cam = Tail(queue)[j].cam
      PROVE  i = j
  <2>1. i \in 1 .. Len(queue) - 1 /\ j \in 1 .. Len(queue) - 1
    BY <1>2
  <2>2. i + 1 \in DOMAIN queue /\ j + 1 \in DOMAIN queue
    BY <1>1, <2>1
  <2>3. queue[i + 1].cam = queue[j + 1].cam
    BY <1>2, <1>3, <2>1
  <2>4. i + 1 = j + 1
    BY <2>2, <2>3 DEF TypeOK
  <2>5. QED
    BY <2>1, <2>4
<1>4. QED
  BY <1>2, <1>3

LEMMA StepType == TypeOK /\ [Next]_vars => TypeOK'
<1> SUFFICES ASSUME TypeOK, [Next]_vars PROVE TypeOK'
  OBVIOUS
<1>1. ASSUME NEW c \in Camera, Submit(c) PROVE TypeOK'
  <2>0. PICK f : f \in Frame /\ Put(f)
    BY <1>1, SubmitsAFrame
  <2>2. Put(f)
    BY <2>0
  <2>3. /\ queue' \in Seq(Frame)
        /\ \A i, j \in DOMAIN queue' : queue'[i].cam = queue'[j].cam => i = j
        /\ at' \in {at, "owe"}
    BY <2>0, <2>2, PutType
  <2>4. QED
    BY <1>1, <2>3 DEF Submit, TypeOK
<1>2. CASE Pay
  BY <1>2 DEF Pay, TypeOK
<1>3. ASSUME NEW why \in Reason, Drop(why) PROVE TypeOK'
  BY <1>3 DEF Drop, TypeOK
<1>4. ASSUME NEW k \in Model, Adopt(k) PROVE TypeOK'
  BY <1>4 DEF Adopt, TypeOK
<1>5. CASE TakeBack
  BY <1>5 DEF TakeBack, TypeOK
<1>6. CASE Cleared
  BY <1>6, PcWorkerAssumption DEF Cleared, TypeOK, Reason, Visit
<1>7. ASSUME NEW open \in SUBSET Camera, Publish(open) PROVE TypeOK'
  BY <1>7 DEF Publish, TypeOK, main
<1>8. CASE Stop
  <2>1. Cardinality(Worker) \in Nat
    BY PcWorkerAssumption, FS_CardinalityType
  <2>2. QED
    BY <1>8, <2>1 DEF Stop, TypeOK
<1>9. ASSUME NEW w \in Worker, Acquire(w) \/ Leave(w) PROVE TypeOK'
  BY <1>9 DEF Acquire, Leave, Go, TypeOK, main
<1>10. ASSUME NEW w \in Worker, Take(w) PROVE TypeOK'
  <2>1. CASE queue = <<>>
    BY <1>10, <2>1 DEF Take, Go, TypeOK, main
  <2>2. CASE queue # <<>>
    <3>1. /\ queue' = Tail(queue) /\ job' = [job EXCEPT ![w] = Head(queue)]
          /\ thread' = [thread EXCEPT ![w] = "build"]
          /\ published' = {}
          /\ UNCHANGED <<tokens, completed, stop>> /\ UNCHANGED main
      BY <1>10, <2>2 DEF Take, Go
    <3>2. job' \in [Worker -> Frame \cup {NoJob}] /\ job'[w] \in Frame
      BY <2>2, <3>1, TakeType DEF TypeOK
    <3>3. \A v \in Worker : thread'[v] = "build" => job'[v] \in Frame
      BY <3>1, <3>2 DEF TypeOK
    <3>4. /\ queue' \in Seq(Frame)
          /\ \A i, j \in DOMAIN queue' : queue'[i].cam = queue'[j].cam => i = j
      BY <2>2, <3>1, TakeType
    <3>5. thread' \in [Worker -> {"idle", "token", "build", "gone"}]
      BY <3>1 DEF TypeOK
    <3>6. QED
      BY <3>1, <3>2, <3>3, <3>4, <3>5 DEF TypeOK, main
  <2>3. QED
    BY <2>1, <2>2
<1>11. ASSUME NEW w \in Worker, Built(w) PROVE TypeOK'
  BY <1>11 DEF Built, Go, TypeOK, main
<1>12. CASE UNCHANGED vars
  BY <1>12 DEF vars, TypeOK
<1>13. Refresh \in Reason /\ Visit \in Reason /\ \A k \in Model : Variant(k) \in Reason
  BY PcWorkerAssumption DEF Refresh, Visit, Variant, Reason
<1>14. QED
  BY <1>1, <1>2, <1>3, <1>4, <1>5, <1>6, <1>7, <1>8, <1>9, <1>10, <1>11, <1>12, <1>13
  DEF Next, Loop, NewModel, Work

\* The pending jobs, the workers and what they build are what they should be, also with a
\* camera that is overwritten while it waits: submit(), _run() (runtime_impl.py:3958-4062).
THEOREM TypeCorrect == Spec => []TypeOK
BY InitType, StepType, PTL DEF Spec
-----------------------------------------------------------------------------
(* Jobs and tokens                                                         *)

LEMMA HoldingFinite ==
    /\ Cardinality(Worker) \in Nat
    /\ IsFiniteSet(Holding) /\ Cardinality(Holding) \in Nat
    /\ Cardinality(Holding) <= Cardinality(Worker)
<1>1. Holding \subseteq Worker
  BY DEF Holding
<1>2. QED
  BY <1>1, PcWorkerAssumption, FS_CardinalityType, FS_Subset

LEMMA HoldsOneMore ==
    ASSUME TypeOK, NEW w \in Worker, thread[w] # "token",
           thread' = [thread EXCEPT ![w] = "token"]
    PROVE  Cardinality(Holding') = Cardinality(Holding) + 1
<1>1. Holding' = Holding \cup {w} /\ w \notin Holding
  BY DEF Holding, TypeOK
<1>2. QED
  BY <1>1, HoldingFinite, FS_AddElement

LEMMA HoldsOneLess ==
    ASSUME TypeOK, NEW w \in Worker, thread[w] = "token", NEW where,
           where # "token", thread' = [thread EXCEPT ![w] = where]
    PROVE  /\ Cardinality(Holding') = Cardinality(Holding) - 1
           /\ Cardinality(Holding') \in Nat
<1>1. Holding' = Holding \ {w} /\ w \in Holding
  BY DEF Holding, TypeOK
<1>2. IsFiniteSet(Holding')
  BY <1>1, HoldingFinite, FS_Subset
<1>3. QED
  BY <1>1, <1>2, HoldingFinite, FS_RemoveElement, FS_CardinalityType

LEMMA HoldsTheSame ==
    ASSUME TypeOK, NEW w \in Worker, thread[w] # "token", NEW where,
           where # "token", thread' = [thread EXCEPT ![w] = where]
    PROVE  Holding' = Holding
BY DEF Holding, TypeOK

LEMMA InitToken == Init => TokenInv
<1> SUFFICES ASSUME Init PROVE TokenInv
  OBVIOUS
<1>1. Holding = {} /\ Len(queue) = 0
  BY DEF Init, Holding
<1>2. Cardinality(Holding) = 0
  BY <1>1, FS_EmptySet
<1>3. QED
  BY <1>1, <1>2, InitType, HoldingFinite
  DEF Init, TokenInv, StopsAtEnd, ClearedQueue, EveryJobHasToken, SurplusInv,
      SurplusBounded, Owed

LEMMA StepToken == TokenInv /\ [Next]_vars => TokenInv'
<1> SUFFICES ASSUME TokenInv, [Next]_vars PROVE TokenInv'
  OBVIOUS
<1>a. TypeOK /\ TypeOK'
  BY StepType DEF TokenInv
<1>b. tokens \in Nat /\ left \in Nat /\ Len(queue) \in Nat /\ Len(queue') \in Nat
  BY <1>a DEF TypeOK
<1> DEFINE Held == Cardinality(Holding)
<1>c. Held \in Nat /\ Held <= Cardinality(Worker) /\ Cardinality(Worker) \in Nat
  BY HoldingFinite
<1>d. ASSUME UNCHANGED thread PROVE Held' = Held
  BY <1>d DEF Holding
<1> USE <1>a, <1>b, <1>c
    DEF TokenInv, StopsAtEnd, ClearedQueue, EveryJobHasToken, SurplusInv, SurplusBounded, Owed
<1> HIDE DEF Held
<1>1. ASSUME NEW c \in Camera, Submit(c) PROVE TokenInv'
  <2>0. PICK f : Put(f)
    BY <1>1, SubmitsAFrame
  <2>1. /\ at = "run" /\ Put(f) /\ Held' = Held
        /\ UNCHANGED <<tokens, left, stop>>
    BY <1>1, <1>d, <2>0 DEF Submit
  <2>2. CASE f.cam \in Cams(queue)
    <3>1. Len(queue') = Len(queue) /\ at' = at
      BY <2>1, <2>2 DEF Put, TypeOK
    <3>2. QED
      BY <2>1, <3>1 DEF Held
  <2>3. CASE f.cam \notin Cams(queue)
    <3>1. Len(queue') = Len(queue) + 1 /\ at' = "owe"
      BY <2>1, <2>3 DEF Put, TypeOK
    <3>2. QED
      BY <2>1, <3>1 DEF Held
  <2>4. QED
    BY <2>2, <2>3
<1>2. CASE Pay
  BY <1>2, <1>d DEF Pay, Held
<1>3. ASSUME NEW why \in Reason, Drop(why) PROVE TokenInv'
  <2>1. Len(queue') = 0 /\ Held' = Held
    BY <1>3, <1>d DEF Drop
  <2>2. QED
    BY <1>3, <2>1 DEF Drop, Held
<1>4. ASSUME NEW k \in Model, Adopt(k) PROVE TokenInv'
  BY <1>4, <1>d DEF Adopt, Held
<1>5. CASE TakeBack
  <2>1. Len(queue) = 0 /\ Held' = Held /\ UNCHANGED <<queue, stop>>
    BY <1>5, <1>d DEF TakeBack
  <2>2. QED
    BY <1>5, <2>1 DEF TakeBack, Held
<1>6. CASE Cleared
  <2>1. Len(queue) = 0 /\ Held' = Held /\ UNCHANGED <<queue, stop>>
    BY <1>6, <1>d DEF Cleared
  <2>2. QED
    BY <1>6, <2>1 DEF Cleared, Held
<1>7. ASSUME NEW open \in SUBSET Camera, Publish(open) PROVE TokenInv'
  BY <1>7, <1>d DEF Publish, Held, main
<1>8. CASE Stop
  BY <1>8 DEF Stop
<1>9. ASSUME NEW w \in Worker, Acquire(w) PROVE TokenInv'
  <2>1. CASE stop
    BY <1>9, <2>1 DEF Acquire, main
  <2>2. CASE ~ stop
    <3>1. Held' = Held + 1
      BY <1>9, <2>2, HoldsOneMore DEF Acquire, Go, Held
    <3>2. QED
      BY <1>9, <3>1 DEF Acquire, main, Held
  <2>3. QED
    BY <2>1, <2>2
<1>10. ASSUME NEW w \in Worker, Leave(w) PROVE TokenInv'
  BY <1>10 DEF Leave, main
<1>11. ASSUME NEW w \in Worker, Take(w) PROVE TokenInv'
  <2>1. Held' = Held - 1 /\ Held' \in Nat
    <3>1. CASE queue = <<>>
      BY <1>11, <3>1, HoldsOneLess DEF Take, Go, Held
    <3>2. CASE queue # <<>>
      BY <1>11, <3>2, HoldsOneLess DEF Take, Go, Held
    <3>3. QED
      BY <3>1, <3>2
  <2>2. CASE queue = <<>>
    <3>1. Len(queue) = 0 /\ UNCHANGED <<queue, at, left, tokens, stop>>
      BY <1>11, <2>2 DEF Take, main
    <3>2. Len(queue') = 0 /\ (queue = <<>> => queue' = <<>>)
      BY <3>1
    <3>3. QED
      BY <2>1, <3>1, <3>2 DEF Held
  <2>3. CASE queue # <<>>
    <3>1. queue' = Tail(queue) /\ Len(queue') = Len(queue) - 1
      BY <1>11, <2>3 DEF Take, TypeOK
    <3>2. QED
      BY <1>11, <2>1, <2>3, <3>1 DEF Take, main, Held
  <2>4. QED
    BY <2>2, <2>3
<1>12. ASSUME NEW w \in Worker, Built(w) PROVE TokenInv'
  <2>1. Held' = Held
    BY <1>12, HoldsTheSame DEF Built, Go, Held
  <2>2. QED
    BY <1>12, <2>1 DEF Built, main, Held
<1>13. CASE UNCHANGED vars
  BY <1>13, <1>d DEF vars, Held
<1>14. Refresh \in Reason /\ Visit \in Reason /\ \A k \in Model : Variant(k) \in Reason
  BY PcWorkerAssumption DEF Refresh, Visit, Variant, Reason
<1>15. QED
  BY <1>1, <1>2, <1>3, <1>4, <1>5, <1>6, <1>7, <1>8, <1>9, <1>10, <1>11, <1>12, <1>13, <1>14
  DEF Next, Loop, NewModel, Work

LEMMA TokenInvHolds == Spec => []TokenInv
BY InitToken, StepToken, PTL DEF Spec

\* No pending job is ever without a token, whatever clear_input() takes back while the
\* workers look (runtime_impl.py:3976-3990).
THEOREM NoCameraStranded == Spec => []EveryJobHasToken
<1>1. TokenInv => EveryJobHasToken
  BY DEF TokenInv
<1>2. QED
  BY <1>1, TokenInvHolds, PTL

\* The tokens without a job never outnumber the workers (runtime_impl.py:3982-3989).
THEOREM FewSurplusTokens == Spec => []SurplusBounded
<1>1. TokenInv => SurplusBounded
  BY DEF TokenInv, SurplusInv
<1>2. QED
  BY <1>1, TokenInvHolds, PTL
-----------------------------------------------------------------------------
(* The model behind the clouds                                             *)

LEMMA InitModel == Init => ModelInv
<1> SUFFICES ASSUME Init PROVE ModelInv
  OBVIOUS
<1>1. DOMAIN queue = {}
  BY DEF Init
<1>2. QED
  BY <1>1, InitType DEF Init, ModelInv, FramesNamed, PublishedOnModel

LEMMA StepModel == ModelInv /\ [Next]_vars => ModelInv'
<1> SUFFICES ASSUME ModelInv, [Next]_vars PROVE ModelInv'
  OBVIOUS
<1>a. TypeOK /\ TypeOK'
  BY StepType DEF ModelInv
<1> USE <1>a DEF ModelInv, FramesNamed, PublishedOnModel
<1>1. ASSUME NEW c \in Camera, Submit(c) PROVE ModelInv'
  <2>1. PICK f \in Frame : Named(f) /\ Put(f)
    BY <1>1, SubmitsAFrame DEF Named
  <2>2. \A i \in DOMAIN queue' : Named(queue'[i])
    <3>1. CASE f.cam \in Cams(queue)
      BY <2>1, <3>1 DEF Put
    <3>2. CASE f.cam \notin Cams(queue)
      <4>1. queue \in Seq(Frame) /\ queue' = Append(queue, f)
        BY <2>1, <3>2 DEF Put, TypeOK
      <4>2. \A i \in DOMAIN queue' : (i \in DOMAIN queue /\ queue'[i] = queue[i]) \/ queue'[i] = f
        BY <4>1
      <4>3. QED
        BY <2>1, <4>2
    <3>3. QED
      BY <3>1, <3>2
  <2>3. at' \notin {"take", "empty"}
    BY <1>1, <2>1 DEF Submit, Put
  <2>4. QED
    BY <1>1, <2>2, <2>3 DEF Submit
<1>2. CASE Pay
  BY <1>2 DEF Pay
<1>3. ASSUME NEW why \in Reason, Drop(why), why.swap => why.to \notin Unbuildable PROVE ModelInv'
  BY <1>3 DEF Drop
<1>4. ASSUME NEW k \in Model, Adopt(k) PROVE ModelInv'
  BY <1>4 DEF Adopt
<1>5. CASE TakeBack
  BY <1>5 DEF TakeBack
<1>6. CASE Cleared
  BY <1>6 DEF Cleared
<1>7. ASSUME NEW open \in SUBSET Camera, Publish(open) PROVE ModelInv'
  BY <1>7 DEF Publish, main, Current, Named
<1>8. CASE Stop
  BY <1>8 DEF Stop
<1>9. ASSUME NEW w \in Worker, Acquire(w) \/ Leave(w) PROVE ModelInv'
  BY <1>9 DEF Acquire, Leave, Go, main, TypeOK
<1>10. ASSUME NEW w \in Worker, Take(w) PROVE ModelInv'
  <2>1. CASE queue = <<>>
    BY <1>10, <2>1 DEF Take, Go, main, TypeOK
  <2>2. CASE queue # <<>>
    <3>1. /\ queue' = Tail(queue) /\ job' = [job EXCEPT ![w] = Head(queue)]
          /\ thread' = [thread EXCEPT ![w] = "build"]
          /\ published' = {}
          /\ UNCHANGED <<tokens, completed, stop>> /\ UNCHANGED main
      BY <1>10, <2>2 DEF Take, Go
    <3>2. \A i \in DOMAIN queue' : i + 1 \in DOMAIN queue /\ queue'[i] = queue[i + 1]
      BY <2>2, <3>1 DEF TypeOK
    <3>3. Head(queue) = queue[1] /\ 1 \in DOMAIN queue
      BY <2>2 DEF TypeOK
    <3>4. \A v \in Worker : thread'[v] = "build" => Named(job'[v])
      BY <3>1, <3>3 DEF TypeOK
    <3>5. QED
      BY <3>1, <3>2, <3>4 DEF main
  <2>3. QED
    BY <2>1, <2>2
<1>11. ASSUME NEW w \in Worker, Built(w) PROVE ModelInv'
  BY <1>11 DEF Built, Go, main, TypeOK
<1>12. CASE UNCHANGED vars
  BY <1>12 DEF vars
<1>13. /\ Refresh \in Reason /\ Visit \in Reason /\ \A k \in Model : Variant(k) \in Reason
       /\ ~ Refresh.swap /\ ~ Visit.swap /\ \A k \in Model : Variant(k).to = k
  BY PcWorkerAssumption DEF Refresh, Visit, Variant, Reason
<1>14. QED
  BY <1>1, <1>2, <1>3, <1>4, <1>5, <1>6, <1>7, <1>8, <1>9, <1>10, <1>11, <1>12, <1>13
  DEF Next, Loop, NewModel, Work

\* A cloud on the wire is of the model that is shown, whatever builds outlived the swap
\* of rebuild_for_variant() (runtime_impl.py:4803-4856, 5963-5977).
THEOREM CloudsOfTheModel == Spec => []PublishedOnModel
<1>1. ModelInv => PublishedOnModel
  BY DEF ModelInv
<1>2. QED
  BY <1>1, InitModel, StepModel, PTL DEF Spec
-----------------------------------------------------------------------------
(* The way of a frame                                                      *)

\* What a camera has waiting is later than what it has in work or built.
Ordered == \A f \in Waiting, g \in Building \cup completed : f.cam = g.cam => g.seq < f.seq

OneTaker ==
    \A v, w \in Worker : thread[v] = "build" /\ thread[w] = "build" /\ v # w => job[v] # job[w]

FlowInv == TypeOK /\ Ordered /\ OneTaker

LEMMA NumbersAreNaturals == Numbers \subseteq Nat
BY PcWorkerAssumption DEF Numbers

LEMMA FramesTyped ==
    ASSUME TypeOK
    PROVE  /\ Waiting \subseteq Frame /\ Building \subseteq Frame /\ completed \subseteq Frame
           /\ \A f \in Frame : f.seq \in Nat /\ f.cam \in Camera
<1>1. Waiting \subseteq Frame
  <2>1. queue \in Seq(Frame)
    BY DEF TypeOK
  <2>2. QED
    BY <2>1 DEF Waiting
<1>2. Building \subseteq Frame /\ completed \subseteq Frame
  BY DEF TypeOK, Building
<1>3. \A f \in Frame : f.seq \in Numbers /\ f.cam \in Camera
  BY DEF Frame
<1>4. QED
  BY <1>1, <1>2, <1>3, NumbersAreNaturals

LEMMA InitFlow == Init => FlowInv /\ Flow!Init
<1> SUFFICES ASSUME Init PROVE FlowInv /\ Flow!Init
  OBVIOUS
<1>1. Waiting = {} /\ Building = {}
  BY DEF Init, Waiting, Building
<1>2. QED
  BY <1>1, InitType
  DEF Init, FlowInv, Ordered, OneTaker, Flow!Init, Waiting, Building

\* submit(): the frame takes the place of the one its camera had waiting.
LEMMA PutWaits ==
    ASSUME TypeOK, NEW f \in Frame, Put(f)
    PROVE  Waiting' = Flow!Others(Waiting, f) \cup {f}
<1>1. CASE f.cam \in Cams(queue)
  <2>1. queue' = [i \in DOMAIN queue |-> IF queue[i].cam = f.cam THEN f ELSE queue[i]]
    BY <1>1 DEF Put
  <2>2. PICK i \in DOMAIN queue : queue[i].cam = f.cam
    BY <1>1 DEF Cams
  <2>3. QED
    BY <2>1, <2>2 DEF Waiting, Flow!Others
<1>2. CASE f.cam \notin Cams(queue)
  <2>1. queue' = Append(queue, f) /\ queue \in Seq(Frame)
    BY <1>2 DEF Put, TypeOK
  <2>2. Waiting' = Waiting \cup {f}
    <3>1. /\ DOMAIN queue = 1 .. Len(queue) /\ DOMAIN queue' = 1 .. Len(queue) + 1
          /\ Len(queue) \in Nat
          /\ \A i \in 1 .. Len(queue) : queue'[i] = queue[i]
          /\ queue'[Len(queue) + 1] = f
      BY <2>1
    <3>2. QED
      BY <3>1 DEF Waiting
  <2>3. Flow!Others(Waiting, f) = Waiting
    BY <1>2 DEF Cams, Waiting, Flow!Others
  <2>4. QED
    BY <2>2, <2>3
<1>3. QED
  BY <1>1, <1>2

\* _run(): the frame taken waits no more.
LEMMA TakeLeaves ==
    ASSUME TypeOK, queue # <<>>, queue' = Tail(queue)
    PROVE  Head(queue) \in Waiting /\ Waiting' = Waiting \ {Head(queue)}
<1>1. queue \in Seq(Frame) /\ Len(queue) \in Nat \ {0}
  BY DEF TypeOK
<1>2. /\ Head(queue) = queue[1] /\ DOMAIN queue = 1 .. Len(queue)
      /\ DOMAIN queue' = 1 .. Len(queue) - 1
      /\ \A i \in 1 .. Len(queue) - 1 : queue'[i] = queue[i + 1]
  <2>1. queue' \in Seq(Frame) /\ Len(queue') = Len(queue) - 1
    BY <1>1
  <2>2. QED
    BY <1>1, <2>1
<1>3. \A i \in DOMAIN queue : i # 1 => queue[i] # queue[1]
  BY <1>1, <1>2 DEF TypeOK
<1>4. \A i \in 2 .. Len(queue) : i - 1 \in DOMAIN queue' /\ queue'[i - 1] = queue[i]
  BY <1>1, <1>2
<1>5. Waiting' \subseteq Waiting \ {Head(queue)}
  BY <1>1, <1>2, <1>3 DEF Waiting
<1>6. Waiting \ {Head(queue)} \subseteq Waiting'
  <2> SUFFICES ASSUME NEW i \in DOMAIN queue, queue[i] # Head(queue) PROVE queue[i] \in Waiting'
    BY DEF Waiting
  <2>1. i \in 2 .. Len(queue)
    BY <1>1, <1>2
  <2>2. QED
    BY <1>4, <2>1 DEF Waiting
<1>7. 1 \in DOMAIN queue /\ Head(queue) = queue[1]
  BY <1>1, <1>2
<1>8. Head(queue) \in Waiting
  BY <1>7 DEF Waiting
<1>9. QED
  BY <1>5, <1>6, <1>8

LEMMA SubmitFlow ==
    ASSUME FlowInv, TypeOK', NEW c \in Camera, Submit(c)
    PROVE  FlowInv' /\ \E f \in Frame : Flow!Arrive(f)
<1>1. PICK f \in Frame : Put(f) /\ f.cam = c /\ \A g \in Taken(c) : g.seq < f.seq
  BY SubmitsAFrame DEF FlowInv
<1>2. Waiting' = Flow!Others(Waiting, f) \cup {f}
  BY <1>1, PutWaits DEF FlowInv
<1>3. /\ published' = {}
      /\ UNCHANGED <<thread, job, completed>> /\ Building' = Building
  BY DEF Submit, Building
<1>4. \A g \in Building \cup completed : g.cam = f.cam => g.seq < f.seq
  BY <1>1 DEF Taken
<1>5. Ordered'
  BY <1>1, <1>2, <1>3, <1>4 DEF FlowInv, Ordered, Flow!Others
<1>6. Flow!Arrive(f)
  BY <1>2, <1>3, <1>4 DEF Flow!Arrive, Waiting, Building
<1>7. QED
  BY <1>1, <1>3, <1>5, <1>6 DEF FlowInv, OneTaker

LEMMA TakeFlow ==
    ASSUME FlowInv, TypeOK', NEW w \in Worker, Take(w), queue # <<>>
    PROVE  FlowInv' /\ \E f \in Frame : Flow!Begin(f)
<1>0. PICK f : f = Head(queue)
  OBVIOUS
<1>1. /\ queue' = Tail(queue) /\ job' = [job EXCEPT ![w] = f] /\ published' = {}
      /\ thread[w] = "token" /\ thread' = [thread EXCEPT ![w] = "build"]
      /\ UNCHANGED completed
  BY <1>0 DEF Take, Go, main
<1>2. f \in Waiting /\ Waiting' = Waiting \ {f}
  BY <1>0, <1>1, TakeLeaves DEF FlowInv
<1>3. f \in Frame
  BY <1>2, FramesTyped DEF FlowInv
<1>4. Building' = Building \cup {f}
  BY <1>1 DEF Building, FlowInv, TypeOK
<1>5. f \notin Building /\ \A g \in Building \cup completed : g.cam = f.cam => g.seq < f.seq
  BY <1>2, FramesTyped DEF FlowInv, Ordered
<1>6. OneTaker'
  <2>1. \A v \in Worker : thread[v] = "build" => job[v] # f
    BY <1>5 DEF Building
  <2>2. QED
    BY <1>1, <2>1 DEF FlowInv, OneTaker, TypeOK
<1>7. Ordered'
  <2>1. \A g \in Waiting' : g \in Waiting /\ g.cam # f.cam
    <3>1. \A i, j \in DOMAIN queue : queue[i].cam = queue[j].cam => queue[i] = queue[j]
      BY DEF FlowInv, TypeOK
    <3>2. QED
      BY <1>2, <3>1 DEF Waiting
  <2>2. QED
    BY <1>1, <1>4, <2>1 DEF FlowInv, Ordered
<1>8. Flow!Begin(f)
  BY <1>1, <1>2, <1>4, <1>5 DEF Flow!Begin, Waiting, Building
<1>9. QED
  BY <1>3, <1>6, <1>7, <1>8 DEF FlowInv

LEMMA BuiltFlow ==
    ASSUME FlowInv, TypeOK', NEW w \in Worker, Built(w)
    PROVE  FlowInv' /\ \E f \in Frame : Flow!End(f)
<1>0. PICK f : f = job[w]
  OBVIOUS
<1>1. /\ thread[w] = "build" /\ thread' = [thread EXCEPT ![w] = "idle"]
      /\ job' = [job EXCEPT ![w] = NoJob] /\ published' = {}
      /\ completed' \in {completed, Flow!Others(completed, f) \cup {f}}
      /\ UNCHANGED queue /\ Waiting' = Waiting
  BY <1>0 DEF Built, Go, main, Flow!Others, Waiting
<1>2. f \in Building /\ f \in Frame
  BY <1>0, <1>1 DEF Building, FlowInv, TypeOK
<1>3. Building' = Building \ {f}
  BY <1>0, <1>1 DEF Building, FlowInv, TypeOK, OneTaker
<1>4. OneTaker'
  BY <1>1 DEF FlowInv, OneTaker, TypeOK
<1>5. Ordered'
  BY <1>1, <1>2, <1>3 DEF FlowInv, Ordered, Flow!Others
<1>6. Flow!End(f)
  BY <1>1, <1>2, <1>3 DEF Flow!End, Waiting, Building
<1>7. QED
  BY <1>2, <1>4, <1>5, <1>6 DEF FlowInv

\* The steps that take up no frame and end none.
LEMMA RestFlow ==
    ASSUME FlowInv, TypeOK', Waiting' \in {Waiting, {}}, completed' \in {completed, {}},
           Building' = Building, OneTaker'
    PROVE  FlowInv' /\ (published' = {} => Flow!Drop)
<1>1. Ordered'
  BY DEF FlowInv, Ordered
<1>2. published' = {} => Flow!Drop
  BY DEF Flow!Drop, Waiting, Building
<1>3. QED
  BY <1>1, <1>2 DEF FlowInv

\* No worker takes up or ends a build.
LEMMA SameWork ==
    ASSUME FlowInv, UNCHANGED job, \A w \in Worker : thread'[w] = "build" <=> thread[w] = "build"
    PROVE  Building' = Building /\ OneTaker'
BY DEF Building, FlowInv, OneTaker

LEMMA StepFlow ==
    FlowInv /\ [Next]_vars =>
        FlowInv' /\ [Flow!Next]_<<Waiting, Building, completed, published>>
<1> SUFFICES ASSUME FlowInv, [Next]_vars
             PROVE  FlowInv' /\ [Flow!Next]_<<Waiting, Building, completed, published>>
  OBVIOUS
<1>a. TypeOK /\ TypeOK'
  BY StepType DEF FlowInv
<1> USE <1>a DEF Flow!Next
<1>1. ASSUME NEW c \in Camera, Submit(c) PROVE FlowInv' /\ Flow!Next
  BY <1>1, SubmitFlow
<1>2. ASSUME NEW w \in Worker, Take(w), queue # <<>> PROVE FlowInv' /\ Flow!Next
  BY <1>2, TakeFlow
<1>3. ASSUME NEW w \in Worker, Built(w) PROVE FlowInv' /\ Flow!Next
  BY <1>3, BuiltFlow
<1>4. ASSUME NEW w \in Worker, Acquire(w) \/ Leave(w) \/ (Take(w) /\ queue = <<>>)
      PROVE  FlowInv' /\ Flow!Next
  <2>1. UNCHANGED <<job, queue, completed>> /\ published' = {}
    BY <1>4 DEF Acquire, Leave, Take, main
  <2>2. \A v \in Worker : thread'[v] = "build" <=> thread[v] = "build"
    BY <1>4 DEF Acquire, Leave, Take, Go, TypeOK
  <2>3. QED
    BY <2>1, <2>2, SameWork, RestFlow DEF Waiting
<1>5. CASE Pay \/ TakeBack \/ Cleared \/ Stop \/ \E k \in Model : Adopt(k)
  <2>1. /\ UNCHANGED <<job, thread, queue>> /\ published' = {}
        /\ completed' \in {completed, {}}
    BY <1>5 DEF Pay, TakeBack, Cleared, Stop, Adopt
  <2>2. QED
    BY <2>1, SameWork, RestFlow DEF Waiting
<1>6. ASSUME NEW why, Drop(why) PROVE FlowInv' /\ Flow!Next
  <2>1. UNCHANGED <<job, thread, completed>> /\ published' = {} /\ queue' = <<>>
    BY <1>6 DEF Drop
  <2>2. Waiting' = {}
    BY <2>1 DEF Waiting
  <2>3. QED
    BY <2>1, <2>2, SameWork, RestFlow
<1>7. ASSUME NEW open \in SUBSET Camera, Publish(open) PROVE FlowInv' /\ Flow!Next
  <2>1. /\ UNCHANGED <<job, thread, queue>> /\ completed' = {}
        /\ published' \in SUBSET completed
    BY <1>7 DEF Publish, main
  <2>2. FlowInv'
    BY <2>1, SameWork, RestFlow DEF Waiting
  <2>3. Flow!Show(published')
    BY <2>1, SameWork DEF Flow!Show, Waiting, Building
  <2>4. QED
    BY <2>1, <2>2, <2>3
<1>8. CASE UNCHANGED vars
  <2>1. UNCHANGED <<job, thread, queue, completed, published>>
    BY <1>8 DEF vars
  <2>2. QED
    BY <2>1, SameWork, RestFlow DEF Waiting
<1>9. QED
  BY <1>1, <1>2, <1>3, <1>4, <1>5, <1>6, <1>7, <1>8 DEF Next, Loop, NewModel, Work

\* PCWorkerThread and its callers (runtime_impl.py:3936-4062): a frame waits at most once,
\* is built by one worker and shown at most once, a camera's frames are taken up in order,
\* and what was dropped stays dropped, for any number of workers.
THEOREM FramesFlow == Spec => ImplementsFrameFlow
BY InitFlow, StepFlow, PTL
DEF Spec, ImplementsFrameFlow, Flow!Spec, Waiting, Building
-----------------------------------------------------------------------------
(* One worker                                                              *)

\* What is being built is later than what is built.
Upward == \A f \in completed, g \in Building : f.cam = g.cam => f.seq <= g.seq

LEMMA StepUpward ==
    ASSUME FlowInv, Upward, [Next]_vars, NEW w, Worker = {w}
    PROVE  /\ Upward'
           /\ \A f \in completed, g \in completed' : f.cam = g.cam => f.seq <= g.seq
<1>1. [Flow!Next]_<<Waiting, Building, completed, published>>
  BY StepFlow
<1>2. \A f, g \in Building : f = g
  BY DEF Building
<1>3. /\ \A f, g \in completed : f.cam = g.cam => f = g
      /\ \A f \in completed \cup Building \cup Waiting : f.seq \in Nat
  BY FramesTyped DEF FlowInv, TypeOK
<1> USE <1>3 DEF Upward
<1>4. ASSUME NEW f \in Frame, Flow!Begin(f)
      PROVE  Upward' /\ completed' = completed
  BY <1>4 DEF Flow!Begin, Waiting, Building
<1>5. ASSUME NEW f \in Frame, Flow!End(f)
      PROVE  /\ f \in Building /\ Building' = {}
             /\ completed' \in {completed, {g \in completed : g.cam # f.cam} \cup {f}}
  BY <1>2, <1>5 DEF Flow!End, Flow!Others, Waiting, Building
<1>6. ASSUME NEW f \in Frame, Flow!End(f)
      PROVE  /\ Upward'
             /\ \A h \in completed, g \in completed' : h.cam = g.cam => h.seq <= g.seq
  BY <1>5, <1>6
<1>7. CASE UNCHANGED Building /\ completed' \in {completed, {}}
  BY <1>7
<1>8. QED
  BY <1>1, <1>4, <1>6, <1>7
  DEF Flow!Next, Flow!Arrive, Flow!Show, Flow!Drop, Waiting, Building

\* The comment of line 3940 holds with --pc_worker_threads at its default of 1: no cloud is
\* replaced by that of an earlier frame of its camera.
THEOREM OneWorkerKeepsOrder ==
    ASSUME NEW w, Worker = {w}
    PROVE  Spec => LatestPerCamera
<1>1. Init => Upward
  BY DEF Init, Upward
<1>2. FlowInv /\ Upward /\ [Next]_vars => Upward'
  BY StepUpward
<1>3. FlowInv /\ Upward /\ [Next]_vars =>
          [\A f \in completed, g \in completed' : f.cam = g.cam => f.seq <= g.seq]_vars
  BY StepUpward
<1>4. Init => FlowInv
  BY InitFlow
<1>5. FlowInv /\ [Next]_vars => FlowInv'
  BY StepFlow
<1>6. QED
  BY <1>1, <1>2, <1>3, <1>4, <1>5, PTL DEF Spec, LatestPerCamera
=============================================================================
