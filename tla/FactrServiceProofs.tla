------------------------- MODULE FactrServiceProofs -------------------------
(***************************************************************************)
(* What the service guarantees for any number of clients and return        *)
(* threads, whoever gives up or is killed.  The argument: a client that    *)
(* never gave up has exactly the request under way that it waits for, so   *)
(* nobody else can move the owner or the state it relies on; and the       *)
(* request that holds the lock finds the state it left.                    *)
(***************************************************************************)
EXTENDS FactrService, TLAPS

Waiting(op) ==
    CASE op = "claim" -> "claiming"
      [] op = "align" -> "aligning"
      [] op = "begin_takeover" -> "beginning"
      [] OTHER -> "releasing"

\* The client of a live request waits for it, the client of a dead one gave up or died.
Matched(r) ==
    IF r.live THEN client[r.from] = Waiting(r.op)
    ELSE r.from \in late \/ client[r.from] = "gone"

RequestsMatched == \A r \in inbox : Matched(r)

BusyMatched ==
    busy.op # "close" =>
        /\ busy.from \in Client /\ Matched(busy)
        /\ busy.live => \A r \in inbox : r.from = busy.from => ~ r.live

\* What the request under way found is still so.
BusyState ==
    /\ busy.op = "claim" => state = "RETURNING_INIT"
    /\ busy.op = "align" => state = "ALIGNING" /\ owner = busy.from
    /\ busy.op = "begin_takeover" => state = "ALIGNED" /\ owner = busy.from
    /\ busy.op # "release"
    /\ state = "STOPPING" => busy.op = "close" /\ owner = NoClient
    /\ busy = Closing => state = "STOPPING"
    /\ state = "STOPPED" => owner = NoClient /\ busy.op = "close"

\* A client that is not in a takeover, and knows it, does not own the arm.
NotYetOwner ==
    \A c \in Client \ late : client[c] \in {"off", "claiming"} => owner # c

IInv ==
    /\ TypeOK
    /\ RequestsMatched
    /\ BusyMatched
    /\ BusyState
    /\ NotYetOwner
    /\ BeliefIsTrue
    /\ TakeoverIsOwned
-----------------------------------------------------------------------------
(* Type correctness                                                        *)

LEMMA ConstantFacts ==
    /\ NoClient \notin Client
    /\ Free.op = "close" /\ Closing.op = "close" /\ Free # Closing
    /\ Free.from = NoClient
    /\ NoEvent \notin Event
BY FactrServiceAssumption DEF Free, Closing, NoEvent, Event

LEMMA InitType == Init => TypeOK
BY ConstantFacts DEF Init, TypeOK, States, ReturnAt, ClientAt

LEMMA ArmType == ASSUME TypeOK, CanArm PROVE Arm \in Event
<1>1. CASE published # NoEvent
  BY <1>1 DEF Arm, TypeOK
<1>2. CASE published = NoEvent
  <2>1. (CHOOSE e \in Event : Unused(e)) \in Event
    BY DEF CanArm
  <2>2. QED
    BY <1>2, <2>1 DEF Arm
<1>3. QED
  BY <1>1, <1>2

LEMMA GotoType ==
    ASSUME TypeOK, NEW t \in Slot, NEW where \in ReturnAt, NEW e \in Event \cup {NoEvent},
           Goto(t, where, e)
    PROVE  /\ ret' \in [Slot -> ReturnAt]
           /\ event' \in [Slot -> Event \cup {NoEvent}]
           /\ cancelled' \subseteq Event
BY DEF Goto, Collect, TypeOK

LEMMA StepType == TypeOK /\ [Next]_vars => TypeOK'
<1> SUFFICES ASSUME TypeOK, [Next]_vars PROVE TypeOK'
  OBVIOUS
<1> USE ConstantFacts
<1>1. ASSUME NEW c \in Client, Connect(c) \/ Align(c) \/ BeginTakeover(c) \/ Close(c)
      PROVE  TypeOK'
  <2>1. PICK op \in Op, where \in ClientAt : Send(c, op, where)
    BY <1>1 DEF Connect, Align, BeginTakeover, Close, Op, ClientAt
  <2>2. QED
    <3>1. [from |-> c, op |-> op, live |-> TRUE] \in Request
      BY DEF Request
    <3>2. QED
      BY <2>1, <3>1 DEF Send, TypeOK, service, returns
<1>2. ASSUME NEW c \in Client, Abandon(c)
      PROVE  /\ inbox' \subseteq Request
             /\ busy' \in Request \cup {Free, Closing}
  <2>1. \A r \in Request : [r EXCEPT !.live = FALSE] \in Request
    BY DEF Request
  <2>2. busy.from = c => busy \in Request
    BY DEF TypeOK, Free, Closing
  <2>3. QED
    BY <1>2, <2>1, <2>2 DEF Abandon, TypeOK
<1>3. ASSUME NEW c \in Client, GiveUp(c) PROVE TypeOK'
  <2>1. AfterError(client[c]) \in ClientAt
    BY DEF AfterError, ClientAt
  <2>2. QED
    BY <1>2, <1>3, <2>1 DEF GiveUp, TypeOK, service, returns
<1>4. ASSUME NEW c \in Client, Die(c) PROVE TypeOK'
  BY <1>2, <1>4 DEF Die, TypeOK, service, returns, ClientAt
<1>5. ASSUME NEW c \in Client, GetState(c) PROVE TypeOK'
  BY <1>5 DEF GetState, TypeOK, service, returns, ClientAt
<1>6. ASSUME NEW r, r.from \in Client, NEW where \in ClientAt, Answer(r, where)
      PROVE  client' \in [Client -> ClientAt]
  BY <1>6 DEF Answer, TypeOK
<1>7. ASSUME NEW r, r.from \in Client, Refuse(r) PROVE client' \in [Client -> ClientAt]
  <2>1. AfterError(client[r.from]) \in ClientAt
    BY DEF AfterError, ClientAt
  <2>2. QED
    BY <1>6, <1>7, <2>1 DEF Refuse
<1>8. ASSUME NEW r, r.from \in Client, Grant(r)
      PROVE  client' \in [Client -> ClientAt] /\ owner' \in Client \cup {NoClient}
  <2>1. CASE owner' = r.from /\ Answer(r, "on")
    BY <1>6, <1>8, <2>1 DEF ClientAt
  <2>2. CASE Refuse(r) /\ UNCHANGED owner
    BY <1>7, <1>8, <2>2 DEF TypeOK
  <2>3. QED
    BY <1>8, <2>1, <2>2 DEF Grant
<1>9. \A r \in inbox : r.from \in Client /\ r \in Request
  BY DEF TypeOK, Request
<1>10. ASSUME NEW r \in inbox, HandleClaim(r) PROVE TypeOK'
  BY <1>7, <1>8, <1>9, <1>10 DEF HandleClaim, Take, TypeOK, returns
<1>11. ASSUME NEW r \in inbox, InterruptReturn(r) PROVE TypeOK'
  BY <1>9, <1>11 DEF InterruptReturn, Take, CancelPublished, TypeOK, service
<1>12. ASSUME NEW r \in inbox, HandleRelease(r) PROVE TypeOK'
  <2>1. client' \in [Client -> ClientAt]
    BY <1>6, <1>9, <1>12 DEF HandleRelease, ClientAt
  <2>2. ASSUME StartReturn
        PROVE  ret' \in [Slot -> ReturnAt] /\ published' \in Event /\ overlap' \in BOOLEAN
    BY <2>2, ArmType DEF StartReturn, TypeOK, ReturnAt
  <2>3. QED
    BY <1>12, <2>1, <2>2 DEF HandleRelease, Take, Disown, TypeOK, service, States
<1>13. ASSUME NEW r \in inbox, HandleAlign(r) PROVE TypeOK'
  BY <1>7, <1>9, <1>13 DEF HandleAlign, Take, TypeOK, returns, States
<1>14. ASSUME NEW r \in inbox, HandleBegin(r) PROVE TypeOK'
  BY <1>7, <1>9, <1>14 DEF HandleBegin, Take, TypeOK, service, returns
<1>15. busy.op # "close" => busy \in Request /\ busy.from \in Client
  BY DEF TypeOK, Request
<1>16. CASE FinishInterrupt
  BY <1>7, <1>8, <1>15, <1>16 DEF FinishInterrupt, TypeOK, States
<1>17. CASE FinishAlign
  <2>1. client' \in [Client -> ClientAt]
    BY <1>6, <1>7, <1>15, <1>17 DEF FinishAlign, ClientAt
  <2>2. QED
    BY <1>17, <2>1 DEF FinishAlign, SafeRelease, Disown, TypeOK, States, returns
<1>18. CASE FinishBegin
  <2>1. client' \in [Client -> ClientAt]
    BY <1>6, <1>7, <1>15, <1>18 DEF FinishBegin, ClientAt
  <2>2. QED
    BY <1>18, <2>1 DEF FinishBegin, SafeRelease, Disown, TypeOK, States, returns
<1>19. CASE Stop
  BY <1>19 DEF Stop, Disown, TypeOK, States, returns
<1>20. CASE Stopped
  BY <1>20 DEF Stopped, TypeOK, States, ReturnAt
<1>21. ASSUME NEW t \in Slot, BeginReturn(t) PROVE TypeOK'
  BY <1>21, ArmType, GotoType DEF BeginReturn, TypeOK, service, ReturnAt
<1>22. ASSUME NEW t \in Slot, BeginMove(t) PROVE TypeOK'
  <2>1. event[t] \in Event \cup {NoEvent}
    BY DEF TypeOK
  <2>2. QED
    BY <1>22, <2>1, GotoType DEF BeginMove, TypeOK, service, ReturnAt
<1>23. ASSUME NEW t \in Slot, EndMove(t) PROVE TypeOK'
  BY <1>23, GotoType DEF EndMove, TypeOK, service, ReturnAt
<1>24. ASSUME NEW t \in Slot, EndReturn(t) PROVE TypeOK'
  BY <1>24, GotoType DEF EndReturn, TypeOK, StateAfterReturn, States, ReturnAt
<1>25. CASE UNCHANGED vars
  BY <1>25 DEF vars, TypeOK
<1>26. QED
  BY <1>1, <1>3, <1>4, <1>5, <1>10, <1>11, <1>12, <1>13, <1>14, <1>16, <1>17, <1>18,
     <1>19, <1>20, <1>21, <1>22, <1>23, <1>24, <1>25
  DEF Next, Act, Handle, Work, Return

\* The service, its requests, return threads and events stay what they should be.
THEOREM TypeCorrect == Spec => []TypeOK
BY InitType, StepType, PTL DEF Spec
-----------------------------------------------------------------------------
(* The service is a mutex                                                  *)

LEMMA GrantTakes ==
    ASSUME TypeOK, NEW r \in Request, Grant(r)
    PROVE  [Leader!Next]_({owner} \ {NoClient})
<1>1. r.from \in Client
  BY DEF Request
<1>2. CASE Claimable(r.from) /\ owner' = r.from
  <2>1. CASE owner = r.from
    BY <1>2, <2>1
  <2>2. CASE owner = NoClient
    BY <1>1, <1>2, <2>2, ConstantFacts DEF Leader!Next, Leader!Take
  <2>3. QED
    BY <1>2, <2>1, <2>2 DEF Claimable
<1>3. CASE UNCHANGED owner
  BY <1>3
<1>4. QED
  BY <1>2, <1>3 DEF Grant

LEMMA DisownDrops ==
    ASSUME TypeOK, Disown
    PROVE  [Leader!Next]_({owner} \ {NoClient})
<1>1. CASE owner = NoClient
  BY <1>1 DEF Disown
<1>2. CASE owner # NoClient
  BY <1>2, ConstantFacts DEF Disown, TypeOK, Leader!Next, Leader!Drop
<1>3. QED
  BY <1>1, <1>2

LEMMA StepLeader ==
    ASSUME TypeOK, [Next]_vars
    PROVE  [Leader!Next]_({owner} \ {NoClient})
<1>1. busy.op # "close" => busy \in Request
  BY ConstantFacts DEF TypeOK
<1>2. ASSUME NEW r \in inbox, Handle(r) PROVE [Leader!Next]_({owner} \ {NoClient})
  <2>1. r \in Request
    BY DEF TypeOK
  <2>2. Grant(r) \/ Disown \/ UNCHANGED owner
    BY <1>2 DEF Handle, HandleClaim, InterruptReturn, HandleRelease, HandleAlign,
                HandleBegin, service
  <2>3. QED
    BY <2>1, <2>2, GrantTakes, DisownDrops
<1>3. CASE Work
  <2>1. (busy \in Request /\ Grant(busy)) \/ Disown \/ UNCHANGED owner
    BY <1>1, <1>3 DEF Work, FinishInterrupt, FinishAlign, FinishBegin, SafeRelease
  <2>2. QED
    BY <2>1, GrantTakes, DisownDrops
<1>4. CASE Stop
  BY <1>4, DisownDrops DEF Stop
<1>5. CASE \/ Stopped
           \/ \E c \in Client : Act(c)
           \/ \E t \in Slot : Return(t)
           \/ UNCHANGED vars
  <2>1. UNCHANGED owner
    BY <1>5 DEF Stopped, Act, Connect, Align, BeginTakeover, Close, GiveUp, Die, GetState,
                Send, Return, BeginReturn, BeginMove, EndMove, EndReturn, service, vars
  <2>2. QED
    BY <2>1
<1>6. QED
  BY <1>2, <1>3, <1>4, <1>5 DEF Next

\* The owner field arbitrates the leader arm (app.py:3518-3520): a client gets it only
\* when nobody has it, and loses it only by its own release, error or the end of the
\* service.
THEOREM ServiceImplementsArm == Spec => ImplementsArmMutex
<1>1. Init => Leader!Init
  BY DEF Init, Leader!Init
<1>2. TypeOK /\ [Next]_vars => [Leader!Next]_({owner} \ {NoClient})
  BY StepLeader
<1>3. QED
  BY <1>1, <1>2, TypeCorrect, PTL DEF Spec, ImplementsArmMutex, Leader!Spec
-----------------------------------------------------------------------------
(* What the clients believe                                                *)

LEMMA InitInv == Init => IInv
BY InitType, ConstantFacts
DEF Init, IInv, RequestsMatched, BusyMatched, BusyState, NotYetOwner, BeliefIsTrue,
    TakeoverIsOwned, Closing, Free

\* Requests of one client that are both alive are one request.
LEMMA OneLiveRequest ==
    ASSUME NEW q \in Request, NEW r \in Request, Matched(q), Matched(r),
           q.live, r.live, q.from = r.from
    PROVE  q = r
<1>1. q.op = r.op
  BY DEF Matched, Waiting, Request, Op
<1>2. q = [from |-> q.from, op |-> q.op, live |-> q.live]
  BY DEF Request
<1>3. r = [from |-> r.from, op |-> r.op, live |-> r.live]
  BY DEF Request
<1>4. QED
  BY <1>1, <1>2, <1>3 DEF Request

LEMMA InvSend ==
    ASSUME IInv, TypeOK', NEW c \in Client, state # "STOPPED",
           Connect(c) \/ Align(c) \/ BeginTakeover(c) \/ Close(c)
    PROVE  IInv'
<1>1. PICK op \in Op : /\ Send(c, op, Waiting(op))
                       /\ op = "claim" <=> client[c] = "off"
                       /\ op = "align" => client[c] = "on"
                       /\ op = "begin_takeover" => client[c] = "aligned"
                       /\ client[c] \in {"off", "on", "aligned", "leading", "failing"}
  BY DEF Connect, Align, BeginTakeover, Close, Op, Waiting
<1> DEFINE new == [from |-> c, op |-> op, live |-> TRUE]
<1>2. /\ inbox' = inbox \cup {new} /\ client' = [client EXCEPT ![c] = Waiting(op)]
      /\ UNCHANGED <<state, owner, anchored, busy, late>>
  BY <1>1 DEF Send, service
<1>3. Waiting(op) \in ClientAt /\ Waiting(op) \notin {"gone", "off", "on", "aligned", "leading"}
  BY DEF Waiting, ClientAt
<1>4. \A r \in Request : r.live /\ Matched(r) => r.from # c
  BY <1>1 DEF Matched, Waiting
<1>5. \A r \in Request : Matched(r) => Matched(r)'
  BY <1>1, <1>2, <1>4 DEF Matched, TypeOK, Request
<1>6. RequestsMatched'
  <2>1. Matched(new)'
    BY <1>2 DEF Matched, TypeOK
  <2>2. QED
    BY <1>2, <1>5, <2>1 DEF IInv, RequestsMatched, TypeOK
<1>7. BusyMatched'
  <2>1. busy.op # "close" => busy \in Request
    BY ConstantFacts DEF IInv, TypeOK
  <2>2. QED
    BY <1>2, <1>4, <1>5, <2>1 DEF IInv, BusyMatched
<1>8. BusyState' /\ TakeoverIsOwned'
  BY <1>2 DEF IInv, BusyState, TakeoverIsOwned
<1>9. NotYetOwner'
  BY <1>1, <1>2 DEF IInv, NotYetOwner, TypeOK, Waiting, Op
<1>10. BeliefIsTrue'
  BY <1>1, <1>2 DEF IInv, BeliefIsTrue, TypeOK, Waiting, Op, Running
<1>11. QED
  BY <1>6, <1>7, <1>8, <1>9, <1>10 DEF IInv

\* A client that gives up or is killed: its requests are dead from now on.
LEMMA InvAbandon ==
    ASSUME IInv, TypeOK', NEW c \in Client, GiveUp(c) \/ Die(c)
    PROVE  IInv'
<1>1. /\ Abandon(c) /\ UNCHANGED <<state, owner, anchored>>
      /\ late \subseteq late'
      /\ c \in late' \/ client'[c] = "gone"
      /\ \A d \in Client \ {c} : client'[d] = client[d] /\ (d \in late' => d \in late)
  BY DEF GiveUp, Die, service, IInv, TypeOK
<1>2. ASSUME NEW r \in Request, Matched(r), r.from # c PROVE Matched(r)'
  BY <1>1, <1>2 DEF Matched, Request
<1>3. ASSUME NEW r \in Request, r.from = c PROVE Matched([r EXCEPT !.live = FALSE])'
  BY <1>1, <1>3 DEF Matched, Request
<1>4. RequestsMatched'
  <2> SUFFICES ASSUME NEW q \in inbox' PROVE Matched(q)'
    BY DEF RequestsMatched
  <2>1. PICK r \in inbox : q = IF r.from = c THEN [r EXCEPT !.live = FALSE] ELSE r
    BY <1>1 DEF Abandon
  <2>2. r \in Request /\ Matched(r)
    BY DEF IInv, RequestsMatched, TypeOK
  <2>3. QED
    BY <1>2, <1>3, <2>1, <2>2
<1>5. /\ busy'.from = busy.from /\ busy'.op = busy.op
      /\ busy.from # c => busy' = busy
      /\ busy.from = c => busy' = [busy EXCEPT !.live = FALSE] /\ ~ busy'.live
  BY <1>1 DEF Abandon, IInv, TypeOK, Request, Free, Closing
<1>6. BusyMatched'
  <2> SUFFICES ASSUME busy'.op # "close"
               PROVE  /\ busy'.from \in Client /\ Matched(busy)'
                      /\ busy'.live => \A q \in inbox' : q.from = busy'.from => ~ q.live
    BY DEF BusyMatched
  <2>1. busy \in Request /\ busy.from \in Client /\ Matched(busy)
        /\ (busy.live => \A r \in inbox : r.from = busy.from => ~ r.live)
    BY <1>5, ConstantFacts DEF IInv, BusyMatched, TypeOK
  <2>2. Matched(busy)'
    BY <1>2, <1>3, <1>5, <2>1 DEF Matched
  <2>3. ASSUME busy'.live, NEW q \in inbox', q.from = busy'.from PROVE ~ q.live
    <3>1. PICK r \in inbox : q = IF r.from = c THEN [r EXCEPT !.live = FALSE] ELSE r
      BY <1>1 DEF Abandon
    <3>2. r \in Request
      BY DEF IInv, TypeOK
    <3>3. busy.from # c /\ busy.live
      BY <1>5, <2>3
    <3>4. QED
      BY <1>5, <2>1, <2>3, <3>1, <3>2, <3>3 DEF Request
  <2>4. QED
    BY <1>5, <2>1, <2>2, <2>3
<1>7. busy' = Closing => busy = Closing
  BY <1>5, ConstantFacts DEF Closing, IInv, TypeOK
<1>8. BusyState' /\ TakeoverIsOwned'
  BY <1>1, <1>5, <1>7 DEF IInv, BusyState, TakeoverIsOwned
<1>9. NotYetOwner' /\ BeliefIsTrue'
  BY <1>1 DEF IInv, NotYetOwner, BeliefIsTrue, Running
<1>10. QED
  BY <1>4, <1>6, <1>8, <1>9 DEF IInv

\* A request leaves the inbox: the others stay matched, its client being free to move on.
LEMMA OthersMatched ==
    ASSUME IInv, NEW r \in inbox, inbox' = inbox \ {r}, UNCHANGED late,
           \A d \in Client : d # r.from \/ ~ r.live => client'[d] = client[d]
    PROVE  /\ RequestsMatched'
           /\ r \in Request /\ r.from \in Client /\ Matched(r)
           /\ ~ r.live => Matched(r)'
           /\ r.live => \A q \in inbox' : q.from = r.from => ~ q.live
<1>1. \A q \in inbox : q \in Request /\ q.from \in Client /\ Matched(q)
  BY DEF IInv, TypeOK, RequestsMatched, Request
<1>2. ASSUME NEW q \in inbox', q.from = r.from, r.live PROVE ~ q.live
  BY <1>1, <1>2, OneLiveRequest
<1>3. ASSUME NEW q \in inbox' PROVE Matched(q)'
  <2>1. CASE q.from # r.from \/ ~ r.live
    BY <1>1, <2>1 DEF Matched
  <2>2. CASE q.from = r.from /\ r.live
    <3>1. ~ q.live /\ client[r.from] # "gone"
      BY <1>1, <1>2, <2>2 DEF Matched, Waiting
    <3>2. q.from \in late
      BY <1>1, <2>2, <3>1 DEF Matched
    <3>3. QED
      BY <3>1, <3>2 DEF Matched
  <2>3. QED
    BY <2>1, <2>2
<1>4. QED
  BY <1>1, <1>2, <1>3 DEF RequestsMatched, Matched

LEMMA AnswerFacts ==
    ASSUME TypeOK, NEW r \in Request, NEW where, Answer(r, where)
    PROVE  /\ \A d \in Client : d # r.from \/ ~ r.live => client'[d] = client[d]
           /\ r.live => client'[r.from] = where
BY DEF Answer, TypeOK, Request

\* A claim is granted or refused, now or after it has interrupted a return.
LEMMA GrantKeeps ==
    ASSUME IInv, TypeOK', NEW r \in Request, r.op = "claim", Matched(r), Grant(r),
           UNCHANGED <<anchored, late>>,
           \/ state' = state
           \/ state = "RETURNING_INIT" /\ state' = "WAITING"
    PROVE  NotYetOwner' /\ BeliefIsTrue' /\ TakeoverIsOwned'
<1>1. r.from \in Client
  BY DEF Request
<1>2. r.live => client[r.from] = "claiming"
  BY DEF Matched, Waiting
<1>3. ~ r.live => r.from \in late \/ client[r.from] = "gone"
  BY DEF Matched
<1>4. CASE Claimable(r.from) /\ owner' = r.from /\ Answer(r, "on")
  <2>1. /\ \A d \in Client : d # r.from \/ ~ r.live => client'[d] = client[d]
        /\ r.live => client'[r.from] = "on"
    BY <1>4, AnswerFacts DEF IInv
  <2>2. owner = NoClient \/ owner = r.from
    BY <1>4 DEF Claimable
  <2>3. NotYetOwner'
    BY <1>1, <1>3, <1>4, <2>1 DEF NotYetOwner
  <2>4. BeliefIsTrue'
    BY <1>1, <1>3, <1>4, <2>1, <2>2, ConstantFacts DEF IInv, BeliefIsTrue, Running
  <2>5. TakeoverIsOwned'
    BY <1>1, <1>4, ConstantFacts DEF IInv, TakeoverIsOwned
  <2>6. QED
    BY <2>3, <2>4, <2>5
<1>5. CASE ~ Claimable(r.from) /\ Refuse(r) /\ UNCHANGED owner
  <2>1. /\ \A d \in Client : d # r.from \/ ~ r.live => client'[d] = client[d]
        /\ r.live => client'[r.from] = "off"
    BY <1>2, <1>5, AnswerFacts DEF IInv, Refuse, AfterError
  <2>2. NotYetOwner'
    BY <1>1, <1>5, <2>1 DEF IInv, NotYetOwner, Claimable
  <2>3. BeliefIsTrue'
    BY <1>1, <1>5, <2>1 DEF IInv, BeliefIsTrue, Running
  <2>4. TakeoverIsOwned'
    BY <1>5 DEF IInv, TakeoverIsOwned
  <2>5. QED
    BY <2>2, <2>3, <2>4
<1>6. QED
  BY <1>4, <1>5 DEF Grant

LEMMA RefuseFacts ==
    ASSUME TypeOK, NEW r \in Request, Matched(r), Refuse(r)
    PROVE  /\ \A d \in Client : d # r.from \/ ~ r.live => client'[d] = client[d]
           /\ r.live => client'[r.from] = IF r.op \in {"claim", "release"} THEN "off" ELSE "failing"
<1>1. /\ \A d \in Client : d # r.from \/ ~ r.live => client'[d] = client[d]
      /\ r.live => client'[r.from] = AfterError(client[r.from])
  BY AnswerFacts DEF Refuse
<1>2. r.live => client[r.from] = Waiting(r.op)
  BY DEF Matched
<1>3. AfterError(Waiting(r.op)) = IF r.op \in {"claim", "release"} THEN "off" ELSE "failing"
  BY DEF AfterError, Waiting, Request, Op
<1>4. QED
  BY <1>1, <1>2, <1>3

LEMMA GrantAnswers ==
    ASSUME TypeOK, NEW r \in Request, Grant(r)
    PROVE  \A d \in Client : d # r.from \/ ~ r.live => client'[d] = client[d]
BY AnswerFacts DEF Grant, Refuse

LEMMA InvClaim ==
    ASSUME IInv, TypeOK', NEW r \in inbox, HandleClaim(r)
    PROVE  IInv'
<1>1. /\ inbox' = inbox \ {r} /\ busy = Free /\ r.op = "claim"
      /\ state \notin {"STOPPING", "STOPPED"} \/ UNCHANGED owner
      /\ UNCHANGED <<state, anchored, busy, late>>
      /\ Grant(r) \/ (Refuse(r) /\ UNCHANGED owner)
  BY DEF HandleClaim, Take, LockFree, returns, Ready
<1>2. r \in Request /\ r.from \in Client /\ Matched(r)
  BY DEF IInv, TypeOK, RequestsMatched, Request
<1>3. \A d \in Client : d # r.from \/ ~ r.live => client'[d] = client[d]
  BY <1>1, <1>2, GrantAnswers, RefuseFacts DEF IInv
<1>4. RequestsMatched'
  BY <1>1, <1>3, OthersMatched
<1>5. BusyMatched' /\ BusyState'
  BY <1>1, ConstantFacts DEF IInv, BusyMatched, BusyState, Free
<1>6. CASE Grant(r)
  <2>1. NotYetOwner' /\ BeliefIsTrue' /\ TakeoverIsOwned'
    BY <1>1, <1>2, <1>6, GrantKeeps
  <2>2. QED
    BY <1>4, <1>5, <2>1 DEF IInv
<1>7. CASE Refuse(r) /\ UNCHANGED owner
  <2>1. r.live => client'[r.from] = "off"
    BY <1>1, <1>2, <1>7, RefuseFacts DEF IInv
  <2>2. r.live => client[r.from] = "claiming"
    BY <1>1, <1>2 DEF Matched, Waiting
  <2>3. NotYetOwner' /\ BeliefIsTrue' /\ TakeoverIsOwned'
    BY <1>1, <1>2, <1>3, <1>7, <2>1, <2>2
    DEF IInv, NotYetOwner, BeliefIsTrue, TakeoverIsOwned, Running
  <2>4. QED
    BY <1>4, <1>5, <2>3 DEF IInv
<1>8. QED
  BY <1>1, <1>6, <1>7

LEMMA InvInterrupt ==
    ASSUME IInv, TypeOK', NEW r \in inbox, InterruptReturn(r)
    PROVE  IInv'
<1>1. /\ inbox' = inbox \ {r} /\ r.op = "claim" /\ state = "RETURNING_INIT" /\ busy' = r
      /\ UNCHANGED <<state, owner, anchored, client, late>>
  BY DEF InterruptReturn, Take, service
<1>2. /\ RequestsMatched' /\ r.from \in Client /\ Matched(r)
      /\ r.live => \A q \in inbox' : q.from = r.from => ~ q.live
  BY <1>1, OthersMatched
<1>3. BusyMatched'
  BY <1>1, <1>2 DEF BusyMatched, Matched
<1>4. BusyState'
  BY <1>1 DEF BusyState, Closing
<1>5. NotYetOwner' /\ BeliefIsTrue' /\ TakeoverIsOwned'
  BY <1>1 DEF IInv, NotYetOwner, BeliefIsTrue, TakeoverIsOwned, Running
<1>6. QED
  BY <1>2, <1>3, <1>4, <1>5 DEF IInv

LEMMA InvRelease ==
    ASSUME IInv, TypeOK', NEW r \in inbox, HandleRelease(r)
    PROVE  IInv'
<1>1. /\ inbox' = inbox \ {r} /\ busy = Free /\ state # "STOPPED" /\ Answer(r, "off")
      /\ UNCHANGED <<busy, late>>
  BY DEF HandleRelease, Take, LockFree
<1>2. r \in Request /\ r.from \in Client /\ Matched(r)
  BY DEF IInv, TypeOK, RequestsMatched, Request
<1>3. /\ \A d \in Client : d # r.from \/ ~ r.live => client'[d] = client[d]
      /\ r.live => client'[r.from] = "off"
  BY <1>1, <1>2, AnswerFacts DEF IInv
<1>4. RequestsMatched'
  BY <1>1, <1>3, OthersMatched
<1>5. ~ r.live => r.from \in late \/ client[r.from] = "gone"
  BY <1>2 DEF Matched
<1>6. CASE owner = r.from /\ Disown /\ state' = "RETURNING_INIT"
  <2>1. Running
    BY <1>1, <1>2, <1>6, ConstantFacts DEF IInv, BusyState, Running
  <2>2. BusyMatched' /\ BusyState' /\ NotYetOwner' /\ TakeoverIsOwned'
    BY <1>1, <1>6, ConstantFacts
    DEF BusyMatched, BusyState, NotYetOwner, TakeoverIsOwned, Disown
  <2>3. BeliefIsTrue'
    BY <1>1, <1>2, <1>3, <1>5, <1>6, <2>1 DEF IInv, BeliefIsTrue
  <2>4. QED
    BY <1>4, <2>2, <2>3 DEF IInv
<1>7. CASE owner # r.from /\ UNCHANGED <<state, owner, anchored>>
  <2>1. BusyMatched' /\ BusyState' /\ TakeoverIsOwned'
    BY <1>1, <1>7, ConstantFacts DEF IInv, BusyMatched, BusyState, TakeoverIsOwned, Free
  <2>2. NotYetOwner' /\ BeliefIsTrue'
    BY <1>1, <1>2, <1>3, <1>7 DEF IInv, NotYetOwner, BeliefIsTrue, Running
  <2>3. QED
    BY <1>4, <2>1, <2>2 DEF IInv
<1>8. QED
  BY <1>6, <1>7 DEF HandleRelease, RequireOwner, service

LEMMA InvAlign ==
    ASSUME IInv, TypeOK', NEW r \in inbox, HandleAlign(r)
    PROVE  IInv'
<1>1. /\ inbox' = inbox \ {r} /\ busy = Free /\ r.op = "align" /\ state # "STOPPED"
      /\ UNCHANGED <<owner, anchored, late>>
  BY DEF HandleAlign, Take, LockFree
<1>2. r \in Request /\ r.from \in Client /\ Matched(r)
  BY DEF IInv, TypeOK, RequestsMatched, Request
<1>3. CASE owner = r.from /\ state' = "ALIGNING" /\ busy' = r /\ UNCHANGED client
  <2>1. /\ RequestsMatched'
        /\ r.live => \A q \in inbox' : q.from = r.from => ~ q.live
    BY <1>1, <1>3, OthersMatched
  <2>2. BusyMatched'
    BY <1>1, <1>2, <1>3, <2>1 DEF BusyMatched, Matched
  <2>3. BusyState' /\ NotYetOwner' /\ TakeoverIsOwned'
    BY <1>1, <1>3 DEF IInv, BusyState, NotYetOwner, TakeoverIsOwned, Closing
  <2>4. Running
    BY <1>1, <1>2, <1>3, ConstantFacts DEF IInv, BusyState, Running
  <2>5. r.from \in late \/ client[r.from] \in {"aligning", "gone"}
    BY <1>1, <1>2 DEF Matched, Waiting
  <2>6. BeliefIsTrue'
    BY <1>1, <1>2, <1>3, <2>4, <2>5 DEF IInv, BeliefIsTrue
  <2>7. QED
    BY <2>1, <2>2, <2>3, <2>6 DEF IInv
<1>4. CASE owner # r.from /\ Refuse(r) /\ UNCHANGED <<state, busy>>
  <2>1. /\ \A d \in Client : d # r.from \/ ~ r.live => client'[d] = client[d]
        /\ r.live => client'[r.from] = "failing"
    BY <1>1, <1>2, <1>4, RefuseFacts DEF IInv
  <2>2. RequestsMatched'
    BY <1>1, <2>1, OthersMatched
  <2>3. BusyMatched' /\ BusyState' /\ TakeoverIsOwned'
    BY <1>1, <1>4, ConstantFacts DEF IInv, BusyMatched, BusyState, TakeoverIsOwned, Free
  <2>4. NotYetOwner' /\ BeliefIsTrue'
    BY <1>1, <1>2, <1>4, <2>1 DEF IInv, NotYetOwner, BeliefIsTrue, Running
  <2>5. QED
    BY <2>2, <2>3, <2>4 DEF IInv
<1>5. QED
  BY <1>3, <1>4 DEF HandleAlign, RequireOwner

LEMMA InvBegin ==
    ASSUME IInv, TypeOK', NEW r \in inbox, HandleBegin(r)
    PROVE  IInv'
<1>1. /\ inbox' = inbox \ {r} /\ busy = Free /\ r.op = "begin_takeover"
      /\ UNCHANGED <<state, owner, anchored, late>>
  BY DEF HandleBegin, Take, LockFree, service
<1>2. r \in Request /\ r.from \in Client /\ Matched(r)
  BY DEF IInv, TypeOK, RequestsMatched, Request
<1>3. CASE owner = r.from /\ state = "ALIGNED" /\ busy' = r /\ UNCHANGED client
  <2>1. /\ RequestsMatched'
        /\ r.live => \A q \in inbox' : q.from = r.from => ~ q.live
    BY <1>1, <1>3, OthersMatched
  <2>2. BusyMatched'
    BY <1>1, <1>2, <1>3, <2>1 DEF BusyMatched, Matched
  <2>3. BusyState' /\ NotYetOwner' /\ TakeoverIsOwned' /\ BeliefIsTrue'
    BY <1>1, <1>3
    DEF IInv, BusyState, NotYetOwner, TakeoverIsOwned, BeliefIsTrue, Running, Closing
  <2>4. QED
    BY <2>1, <2>2, <2>3 DEF IInv
<1>4. CASE Refuse(r) /\ UNCHANGED busy
  <2>1. /\ \A d \in Client : d # r.from \/ ~ r.live => client'[d] = client[d]
        /\ r.live => client'[r.from] = "failing"
    BY <1>1, <1>2, <1>4, RefuseFacts DEF IInv
  <2>2. RequestsMatched'
    BY <1>1, <2>1, OthersMatched
  <2>3. BusyMatched' /\ BusyState' /\ TakeoverIsOwned'
    BY <1>1, <1>4, ConstantFacts DEF IInv, BusyMatched, BusyState, TakeoverIsOwned, Free
  <2>4. NotYetOwner' /\ BeliefIsTrue'
    BY <1>1, <1>2, <2>1 DEF IInv, NotYetOwner, BeliefIsTrue, Running
  <2>5. QED
    BY <2>2, <2>3, <2>4 DEF IInv
<1>5. QED
  BY <1>3, <1>4 DEF HandleBegin, RequireOwner, TakeoverAllowed

\* The request that held the lock is answered.
LEMMA BusyAnswered ==
    ASSUME IInv, busy.op # "close", UNCHANGED <<inbox, late>>,
           \A d \in Client : d # busy.from \/ ~ busy.live => client'[d] = client[d]
    PROVE  RequestsMatched'
<1> SUFFICES ASSUME NEW q \in inbox PROVE Matched(q)'
  BY DEF RequestsMatched
<1>1. /\ q.from \in Client /\ Matched(q)
      /\ busy.from \in Client /\ Matched(busy)
      /\ busy.live /\ q.from = busy.from => ~ q.live
  BY DEF IInv, TypeOK, RequestsMatched, Request, BusyMatched
<1>2. CASE q.from # busy.from \/ ~ busy.live
  BY <1>1, <1>2 DEF Matched
<1>3. CASE q.from = busy.from /\ busy.live
  <2>1. client[busy.from] # "gone" /\ ~ q.live
    BY <1>1, <1>3 DEF Matched, Waiting
  <2>2. QED
    BY <1>1, <1>3, <2>1 DEF Matched
<1>4. QED
  BY <1>2, <1>3

LEMMA InvFinishInterrupt ==
    ASSUME IInv, TypeOK', FinishInterrupt
    PROVE  IInv'
<1>1. /\ busy.op = "claim" /\ busy' = Free /\ UNCHANGED <<anchored, inbox, late>>
  BY DEF FinishInterrupt
<1>2. /\ busy \in Request /\ busy.from \in Client /\ Matched(busy)
      /\ state = "RETURNING_INIT"
  BY <1>1, ConstantFacts DEF IInv, TypeOK, BusyMatched, BusyState
<1>3. \A d \in Client : d # busy.from \/ ~ busy.live => client'[d] = client[d]
  BY <1>2, GrantAnswers, RefuseFacts DEF FinishInterrupt, IInv
<1>4. RequestsMatched'
  BY <1>1, <1>3, BusyAnswered
<1>5. CASE state' = "WAITING" /\ Grant(busy)
  <2>1. NotYetOwner' /\ BeliefIsTrue' /\ TakeoverIsOwned'
    BY <1>1, <1>2, <1>5, GrantKeeps
  <2>2. BusyMatched' /\ BusyState'
    BY <1>1, <1>5, ConstantFacts DEF BusyMatched, BusyState
  <2>3. QED
    BY <1>4, <2>1, <2>2 DEF IInv
<1>6. CASE Refuse(busy) /\ UNCHANGED <<state, owner>>
  <2>1. /\ busy.live => client'[busy.from] = "off"
        /\ busy.live => client[busy.from] = "claiming"
    BY <1>1, <1>2, <1>6, RefuseFacts DEF IInv, Matched, Waiting
  <2>2. NotYetOwner' /\ BeliefIsTrue' /\ TakeoverIsOwned'
    BY <1>1, <1>2, <1>3, <1>6, <2>1
    DEF IInv, NotYetOwner, BeliefIsTrue, TakeoverIsOwned, Running
  <2>3. BusyMatched' /\ BusyState'
    BY <1>1, <1>2, <1>6, ConstantFacts DEF BusyMatched, BusyState
  <2>4. QED
    BY <1>4, <2>2, <2>3 DEF IInv
<1>7. QED
  BY <1>5, <1>6 DEF FinishInterrupt

\* An align or begin_takeover ends: the state is reached, or the arm given back.
LEMMA InvFinishMove ==
    ASSUME IInv, TypeOK', FinishAlign \/ FinishBegin
    PROVE  IInv'
<1>1. /\ busy.op \in {"align", "begin_takeover"} /\ busy' = Free
      /\ UNCHANGED <<inbox, late>>
  BY DEF FinishAlign, FinishBegin
<1>2. /\ busy \in Request /\ busy.from \in Client /\ Matched(busy)
      /\ state \in {"ALIGNING", "ALIGNED"} /\ owner = busy.from
      /\ busy.op = "begin_takeover" => anchored
  BY <1>1, ConstantFacts
  DEF IInv, TypeOK, BusyMatched, BusyState, TakeoverIsOwned
<1>3. ~ busy.live => busy.from \in late \/ client[busy.from] = "gone"
  BY <1>2 DEF Matched
<1>4. CASE SafeRelease /\ Refuse(busy)
  <2>1. /\ \A d \in Client : d # busy.from \/ ~ busy.live => client'[d] = client[d]
        /\ busy.live => client'[busy.from] = "failing"
    BY <1>1, <1>2, <1>4, RefuseFacts DEF IInv
  <2>2. RequestsMatched'
    BY <1>1, <2>1, BusyAnswered
  <2>3. BusyMatched' /\ BusyState' /\ NotYetOwner' /\ TakeoverIsOwned'
    BY <1>1, <1>4, ConstantFacts
    DEF BusyMatched, BusyState, NotYetOwner, TakeoverIsOwned, SafeRelease, Disown
  <2>4. BeliefIsTrue'
    BY <1>1, <1>2, <1>3, <1>4, <2>1
    DEF IInv, BeliefIsTrue, SafeRelease, Disown, Running
  <2>5. QED
    BY <2>2, <2>3, <2>4 DEF IInv
<1>5. ASSUME NEW at, Answer(busy, at),
             \/ at = "aligned" /\ state' = "ALIGNED"
             \/ at = "leading" /\ state' = "TAKEOVER",
             anchored', UNCHANGED owner
      PROVE  IInv'
  <2>1. /\ \A d \in Client : d # busy.from \/ ~ busy.live => client'[d] = client[d]
        /\ busy.live => client'[busy.from] = at
    BY <1>2, <1>5, AnswerFacts DEF IInv
  <2>2. RequestsMatched'
    BY <1>1, <2>1, BusyAnswered
  <2>3. BusyMatched' /\ BusyState' /\ TakeoverIsOwned'
    BY <1>1, <1>2, <1>5, ConstantFacts DEF BusyMatched, BusyState, TakeoverIsOwned
  <2>4. NotYetOwner'
    BY <1>1, <1>2, <1>3, <1>5, <2>1 DEF IInv, NotYetOwner
  <2>5. BeliefIsTrue'
    BY <1>1, <1>2, <1>3, <1>5, <2>1 DEF IInv, BeliefIsTrue, Running
  <2>6. QED
    BY <2>2, <2>3, <2>4, <2>5 DEF IInv
<1>6. QED
  BY <1>2, <1>4, <1>5 DEF FinishAlign, FinishBegin

LEMMA InvGetState ==
    ASSUME IInv, TypeOK', NEW c \in Client, GetState(c)
    PROVE  IInv'
<1>1. /\ client[c] = "leading" /\ client' = [client EXCEPT ![c] = "failing"]
      /\ UNCHANGED <<state, owner, anchored, inbox, busy, late>>
  BY DEF GetState, service
<1>2. ASSUME NEW r, r.from \in Client, Matched(r) PROVE Matched(r)'
  BY <1>1, <1>2 DEF Matched, Waiting, IInv, TypeOK
<1>3. RequestsMatched' /\ BusyMatched'
  BY <1>1, <1>2 DEF IInv, RequestsMatched, BusyMatched, TypeOK, Request
<1>4. BusyState' /\ NotYetOwner' /\ BeliefIsTrue' /\ TakeoverIsOwned'
  BY <1>1
  DEF IInv, BusyState, NotYetOwner, BeliefIsTrue, TakeoverIsOwned, Running, TypeOK
<1>5. QED
  BY <1>3, <1>4 DEF IInv

LEMMA InvStop ==
    ASSUME IInv, TypeOK', Stop \/ Stopped
    PROVE  IInv'
<1>1. /\ state' \in {"STOPPING", "STOPPED"} /\ owner' = NoClient
      /\ busy'.op = "close" /\ (busy' = Closing => state' = "STOPPING")
      /\ inbox' \subseteq inbox /\ UNCHANGED <<client, late>>
  BY ConstantFacts DEF Stop, Stopped, Disown, IInv, BusyState
<1>2. QED
  BY <1>1, ConstantFacts
  DEF IInv, RequestsMatched, BusyMatched, BusyState, NotYetOwner, BeliefIsTrue,
      TakeoverIsOwned, Running, Matched

LEMMA InvReturn ==
    ASSUME IInv, TypeOK', NEW t \in Slot, Return(t)
    PROVE  IInv'
<1>1. UNCHANGED <<owner, anchored, inbox, busy, client, late>>
  BY DEF Return, BeginReturn, BeginMove, EndMove, EndReturn, service
<1>2. RequestsMatched' /\ BusyMatched' /\ NotYetOwner'
  BY <1>1 DEF IInv, RequestsMatched, BusyMatched, NotYetOwner, Matched
<1>3. CASE UNCHANGED state
  BY <1>1, <1>2, <1>3 DEF IInv, BusyState, BeliefIsTrue, TakeoverIsOwned, Running
<1>4. CASE busy = Free /\ state = "RETURNING_INIT" /\ state' = "WAITING"
  BY <1>1, <1>2, <1>4, ConstantFacts
  DEF IInv, BusyState, BeliefIsTrue, TakeoverIsOwned, Running
<1>5. \/ UNCHANGED state
      \/ busy = Free /\ state = "RETURNING_INIT" /\ state' = "WAITING"
  BY DEF Return, BeginReturn, BeginMove, EndMove, EndReturn, service, StateAfterReturn,
         LockFree
<1>6. QED
  BY <1>3, <1>4, <1>5

LEMMA StepInv == IInv /\ [Next]_vars => IInv'
<1> SUFFICES ASSUME IInv, [Next]_vars PROVE IInv'
  OBVIOUS
<1>1. TypeOK'
  BY StepType DEF IInv
<1>2. ASSUME NEW c \in Client, Act(c), state # "STOPPED" PROVE IInv'
  BY <1>1, <1>2, InvSend, InvAbandon, InvGetState DEF Act
<1>3. ASSUME NEW r \in inbox, Handle(r) PROVE IInv'
  BY <1>1, <1>3, InvClaim, InvInterrupt, InvRelease, InvAlign, InvBegin DEF Handle
<1>4. CASE Work
  BY <1>1, <1>4, InvFinishInterrupt, InvFinishMove DEF Work
<1>5. CASE Stop \/ Stopped
  BY <1>1, <1>5, InvStop
<1>6. ASSUME NEW t \in Slot, Return(t) PROVE IInv'
  BY <1>1, <1>6, InvReturn
<1>7. CASE UNCHANGED vars
  BY <1>1, <1>7
  DEF vars, IInv, RequestsMatched, BusyMatched, BusyState, NotYetOwner, BeliefIsTrue,
      TakeoverIsOwned, Running, Matched
<1>8. QED
  BY <1>2, <1>3, <1>4, <1>5, <1>6, <1>7 DEF Next

LEMMA AlwaysInv == Spec => []IInv
BY InitInv, StepInv, PTL DEF Spec

\* A client none of whose requests timed out owns the arm for as long as it believes it
\* does, and leads only an arm the service has in takeover (claim, align and
\* begin_takeover against live_replan_session.py).
THEOREM BeliefHolds == Spec => []BeliefIsTrue
<1>1. IInv => BeliefIsTrue
  BY DEF IInv
<1>2. QED
  BY <1>1, AlwaysInv, PTL

\* get_state never finds an aligned or led arm without its anchors and its owner.
THEOREM TakeoverOwned == Spec => []TakeoverIsOwned
<1>1. IInv => TakeoverIsOwned
  BY DEF IInv
<1>2. QED
  BY <1>1, AlwaysInv, PTL

\* Only a timeout or a kill leaves the arm with a client that does not know it: every
\* refusal, error and release path of the service gives it back.
THEOREM OnlyLateOrphans == Spec => []NoOrphan
<1>1. IInv => NoOrphan
  BY DEF IInv, NotYetOwner, NoOrphan
<1>2. QED
  BY <1>1, AlwaysInv, PTL
-----------------------------------------------------------------------------
(* One mover                                                               *)

\* A return thread that moves the arm or is about to.
Active(t) == ret[t] \in {"start", "setup", "moving"}

\* The published event is the one an active return listens to, and it is set once the
\* service has left the return for anything but its own end.
Stoppable(t) ==
    /\ published # NoEvent
    /\ ret[t] # "start" => event[t] = published
    /\ \/ published \in cancelled
       \/ state = "RETURNING_INIT" /\ busy.op # "claim"
       \/ state = "STOPPING"

OneReturn ==
    ~overlap =>
        /\ \A t, u \in Slot : ret[t] # "none" /\ ret[u] # "none" => t = u
        /\ \A t \in Slot : Active(t) => Stoppable(t)

ReturnDisowned == state = "RETURNING_INIT" => owner = NoClient

\* The state says that the arm returns only while there is a thread that will end it.
ReturnHasThread == state = "RETURNING_INIT" => \E t \in Slot : ret[t] # "none"

MoverInv == OneReturn /\ ReturnDisowned /\ ReturnHasThread

LEMMA InitMover == Init => MoverInv
BY DEF Init, MoverInv, OneReturn, ReturnDisowned, ReturnHasThread, Active

\* Steps that leave the return threads and the state alone, and begin no interrupt.
LEMMA MoverKept ==
    ASSUME MoverInv, UNCHANGED <<state, ret, event, published, cancelled, overlap>>,
           busy'.op = "claim" => busy.op = "claim",
           state = "RETURNING_INIT" => owner' = owner
    PROVE  MoverInv'
BY DEF MoverInv, OneReturn, ReturnDisowned, ReturnHasThread, Active, Stoppable

LEMMA MoverAct ==
    ASSUME IInv, MoverInv, NEW c \in Client, Act(c)
    PROVE  MoverInv'
<1>1. UNCHANGED <<state, owner, ret, event, published, cancelled, overlap>>
  BY DEF Act, Connect, Align, BeginTakeover, Close, Send, GiveUp, Die, GetState, service,
         returns
<1>2. busy'.op = busy.op
  BY DEF Act, Connect, Align, BeginTakeover, Close, Send, GiveUp, Die, GetState, Abandon,
         IInv, TypeOK, Request, Free, Closing
<1>3. QED
  BY <1>1, <1>2, MoverKept

\* A claim interrupts whoever returns the arm.
LEMMA MoverClaim ==
    ASSUME IInv, MoverInv, NEW r \in inbox, HandleClaim(r) \/ InterruptReturn(r)
    PROVE  MoverInv'
<1>1. CASE HandleClaim(r)
  BY <1>1, MoverKept DEF HandleClaim, returns
<1>2. CASE InterruptReturn(r)
  <2>1. /\ UNCHANGED <<state, owner, ret, event, published, overlap>>
        /\ cancelled' = cancelled \cup ({published} \ {NoEvent})
    BY <1>2 DEF InterruptReturn, CancelPublished, service
  <2>2. QED
    BY <2>1 DEF MoverInv, OneReturn, ReturnDisowned, ReturnHasThread, Active, Stoppable
<1>3. QED
  BY <1>1, <1>2

\* A release starts the one return there is, or the history says that it overlaps.
LEMMA MoverRelease ==
    ASSUME IInv, MoverInv, NEW r \in inbox, HandleRelease(r)
    PROVE  MoverInv'
<1>1. busy = Free /\ UNCHANGED <<busy, event, cancelled>>
  BY DEF HandleRelease, Take, LockFree
<1>2. CASE UNCHANGED <<service, ret, published, overlap>>
  BY <1>1, <1>2, MoverKept DEF service
<1>3. CASE Disown /\ state' = "RETURNING_INIT" /\ StartReturn
  <2>1. PICK t \in Slot : ret[t] = "none" /\ ret' = [ret EXCEPT ![t] = "start"]
    BY <1>3 DEF StartReturn
  <2>2. ret'[t] = "start" /\ \A u \in Slot \ {t} : ret'[u] = ret[u]
    BY <2>1 DEF IInv, TypeOK
  <2>3. published' # NoEvent
    BY <1>3, ArmType, ConstantFacts DEF StartReturn, IInv
  <2>4. ASSUME ~overlap' PROVE \A u \in Slot : ret[u] = "none"
    BY <1>3, <2>4 DEF StartReturn
  <2>5. OneReturn'
    <3>1. ASSUME ~overlap', NEW u \in Slot, ret'[u] # "none" PROVE u = t
      BY <2>2, <2>4, <3>1
    <3>2. Stoppable(t)'
      BY <1>1, <1>3, <2>2, <2>3, ConstantFacts DEF Stoppable
    <3>3. QED
      BY <3>1, <3>2 DEF OneReturn, Active
  <2>6. QED
    BY <1>3, <2>2, <2>5 DEF MoverInv, ReturnDisowned, ReturnHasThread, Disown
<1>4. QED
  BY <1>2, <1>3 DEF HandleRelease

\* An owner has interrupted the return that was under way when it claimed.
LEMMA MoverAlign ==
    ASSUME IInv, MoverInv, NEW r \in inbox, HandleAlign(r) \/ HandleBegin(r)
    PROVE  MoverInv'
<1>1. r.from \in Client /\ busy = Free /\ UNCHANGED <<owner, returns>>
  BY DEF IInv, TypeOK, Request, HandleAlign, HandleBegin, Take, LockFree, service
<1>2. CASE owner = r.from /\ state' = "ALIGNING" /\ busy' = r
  <2>1. state # "RETURNING_INIT" /\ state # "STOPPING"
    BY <1>1, <1>2, ConstantFacts DEF MoverInv, ReturnDisowned, IInv, BusyState
  <2>2. OneReturn'
    BY <1>1, <2>1 DEF MoverInv, OneReturn, Active, Stoppable, returns
  <2>3. QED
    BY <1>2, <2>2 DEF MoverInv, ReturnDisowned, ReturnHasThread
<1>3. CASE UNCHANGED state /\ busy'.op # "claim"
  BY <1>1, <1>3, MoverKept DEF returns
<1>4. QED
  BY <1>1, <1>2, <1>3, ConstantFacts DEF HandleAlign, HandleBegin, RequireOwner, service

LEMMA MoverWork ==
    ASSUME IInv, MoverInv, Work
    PROVE  MoverInv'
<1>1. busy' = Free /\ UNCHANGED <<ret, event, published, cancelled, overlap>>
  BY DEF Work, FinishInterrupt, FinishAlign, FinishBegin, returns
<1>2. CASE FinishInterrupt
  <2>1. busy.op = "claim" /\ state = "RETURNING_INIT"
    BY <1>2 DEF FinishInterrupt, IInv, BusyState
  <2>2. OneReturn'
    BY <1>1, <2>1 DEF MoverInv, OneReturn, Active, Stoppable
  <2>3. QED
    BY <1>1, <1>2, <2>1, <2>2
    DEF FinishInterrupt, MoverInv, ReturnDisowned, ReturnHasThread
<1>3. CASE FinishAlign \/ FinishBegin
  <2>1. state \in {"ALIGNING", "ALIGNED"} /\ state' \in {"ALIGNED", "TAKEOVER", "WAITING"}
    BY <1>3 DEF FinishAlign, FinishBegin, SafeRelease, IInv, BusyState
  <2>2. QED
    BY <1>1, <2>1
    DEF MoverInv, OneReturn, Active, Stoppable, ReturnDisowned, ReturnHasThread
<1>4. QED
  BY <1>2, <1>3 DEF Work

LEMMA MoverStop ==
    ASSUME IInv, MoverInv, Stop \/ Stopped
    PROVE  MoverInv'
<1>1. CASE Stop
  BY <1>1
  DEF Stop, returns, MoverInv, OneReturn, Active, Stoppable, ReturnDisowned, ReturnHasThread
<1>2. CASE Stopped
  BY <1>2 DEF Stopped, MoverInv, OneReturn, Active, ReturnDisowned, ReturnHasThread
<1>3. QED
  BY <1>1, <1>2

\* While nothing overlaps, the thread that takes a step is the only one.
LEMMA MoverReturn ==
    ASSUME IInv, MoverInv, NEW t \in Slot, Return(t)
    PROVE  MoverInv'
<1>1. UNCHANGED <<owner, busy, overlap>> /\ ret[t] # "none"
  BY DEF Return, BeginReturn, BeginMove, EndMove, EndReturn, service
<1>2. PICK at \in ReturnAt, e \in Event \cup {NoEvent} : Goto(t, at, e)
  <2>1. event[t] \in Event \cup {NoEvent}
    BY DEF IInv, TypeOK
  <2>2. CanArm => Arm \in Event
    BY ArmType DEF IInv
  <2>3. QED
    BY <2>1, <2>2 DEF Return, BeginReturn, BeginMove, EndMove, EndReturn, ReturnAt
<1>3. /\ ret'[t] = at /\ \A u \in Slot \ {t} : ret'[u] = ret[u]
      /\ event'[t] = e /\ \A u \in Slot \ {t} : event'[u] = event[u]
      /\ cancelled' = cancelled \cap ({published'} \cup {event'[u] : u \in Slot})
  BY <1>2 DEF Goto, Collect, IInv, TypeOK
<1>4. ASSUME ~overlap, NEW u \in Slot \ {t} PROVE ret[u] = "none"
  BY <1>1, <1>4 DEF MoverInv, OneReturn
<1>5. ASSUME ~overlap, Active(t)' PROVE Stoppable(t)'
  <2>1. UNCHANGED <<state, published>> /\ Active(t) /\ (at # "start" => e = published)
    <3>1. CASE BeginReturn(t)
      BY <1>3, <1>5, <3>1 DEF BeginReturn, Goto, Active, IInv, TypeOK, MoverInv, OneReturn,
                              Stoppable, Arm, service
    <3>2. CASE BeginMove(t)
      BY <1>3, <1>5, <3>2 DEF BeginMove, Goto, Active, IInv, TypeOK, MoverInv, OneReturn,
                              Stoppable, service
    <3>3. CASE EndMove(t) \/ EndReturn(t)
      BY <1>5, <3>3 DEF EndMove, EndReturn, Goto, Active, IInv, TypeOK
    <3>4. QED
      BY <3>1, <3>2, <3>3 DEF Return
  <2>2. Stoppable(t)
    BY <1>5, <2>1 DEF MoverInv, OneReturn
  <2>3. QED
    BY <1>1, <1>3, <2>1, <2>2 DEF Stoppable
<1>6. OneReturn'
  BY <1>1, <1>3, <1>4, <1>5 DEF OneReturn, Active
<1>7. ReturnDisowned' /\ ReturnHasThread'
  <2>1. CASE EndReturn(t)
    BY <2>1 DEF EndReturn, StateAfterReturn, ReturnDisowned, ReturnHasThread
  <2>2. CASE BeginReturn(t) \/ BeginMove(t) \/ EndMove(t)
    <3>1. UNCHANGED state /\ ret'[t] # "none"
      BY <2>2 DEF BeginReturn, BeginMove, EndMove, Goto, service, IInv, TypeOK
    <3>2. QED
      BY <1>1, <3>1 DEF MoverInv, ReturnDisowned, ReturnHasThread
  <2>3. QED
    BY <2>1, <2>2 DEF Return
<1>8. QED
  BY <1>6, <1>7 DEF MoverInv

LEMMA StepMover == IInv /\ MoverInv /\ [Next]_vars => MoverInv'
<1> SUFFICES ASSUME IInv, MoverInv, [Next]_vars PROVE MoverInv'
  OBVIOUS
<1>1. CASE UNCHANGED vars
  BY <1>1, MoverKept DEF vars
<1>2. QED
  BY <1>1, MoverAct, MoverClaim, MoverRelease, MoverAlign, MoverWork, MoverStop, MoverReturn
  DEF Next, Handle

LEMMA AlwaysMover == Spec => []MoverInv
BY AlwaysInv, InitMover, StepMover, PTL DEF Spec

\* "Two movers on one leader arm" (factr_rpc.py:432-437): while the service aligns the arm, a
\* return thread still moves it only if it has been told to stop, unless a release had
\* come before the thread of an earlier return had ended.
THEOREM OneMover == Spec => []OneMoverUnlessOverlap
<1>1. IInv /\ MoverInv => OneMoverUnlessOverlap
  BY DEF IInv, BusyState, MoverInv, OneReturn, Active, Stoppable, OneMoverUnlessOverlap
<1>2. QED
  BY <1>1, AlwaysInv, AlwaysMover, PTL

\* The state is RETURNING_INIT only while a return thread lives, which will end it, or a
\* claim: no release, refusal or failed interrupt leaves it behind (factr_rpc.py:432-464).
THEOREM ReturnNotStranded == Spec => []ReturnHasThread
<1>1. MoverInv => ReturnHasThread
  BY DEF MoverInv
<1>2. QED
  BY <1>1, AlwaysMover, PTL

\* factr_control_adapter.py:618-627: a return thread may start its move after a claim was
\* granted (NoMoveUnderClaim is violated), but a thread that is past its look at the cancel
\* event listens to the one the claim has set: once the arm has an owner, a move that goes
\* on or begins has been told to stop, unless a release had overlapped an earlier return.
ReturnsToldToStop ==
    owner # NoClient /\ ~overlap =>
        \A t \in Slot : ret[t] \in {"setup", "moving"} => event[t] \in cancelled

THEOREM LateMovesAreCancelled == Spec => []ReturnsToldToStop
<1>1. IInv /\ MoverInv => ReturnsToldToStop
  <2> SUFFICES ASSUME IInv, MoverInv, owner # NoClient, ~overlap, NEW t \in Slot,
                      ret[t] \in {"setup", "moving"}
               PROVE  event[t] \in cancelled
    BY DEF ReturnsToldToStop
  <2>1. Stoppable(t) /\ event[t] = published
    BY DEF MoverInv, OneReturn, Active, Stoppable
  <2>2. state # "RETURNING_INIT" /\ state # "STOPPING"
    BY DEF MoverInv, ReturnDisowned, IInv, BusyState
  <2>3. QED
    BY <2>1, <2>2 DEF Stoppable
<1>2. QED
  BY <1>1, AlwaysInv, AlwaysMover, PTL
=============================================================================
