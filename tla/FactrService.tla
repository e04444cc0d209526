---------------------------- MODULE FactrService ----------------------------
(***************************************************************************)
(* The service that owns the one FACTR leader arm, and its clients, the    *)
(* policy processes: intervene_base/robot/factr_rpc.py, with the motions   *)
(* of factr_control_adapter.py.                                            *)
(*                                                                         *)
(* Every request has a handler thread of its own and is dispatched under   *)
(* one lock, in no particular order.  A release starts a thread that moves *)
(* the arm back to its initial pose; the next claim interrupts it.  A      *)
(* client gives a request up after a timeout, the service does not.        *)
(***************************************************************************)
EXTENDS Naturals, FiniteSets

CONSTANTS
    Client,     \* policy processes
    NoClient,   \* None
    Impatient,  \* clients that may give up a request (a bound on timeouts)
    MayDie,     \* clients that may be killed (a bound on crashes)
    Slots       \* return threads alive at a time (a bound)

ASSUME FactrServiceAssumption ==
    /\ NoClient \notin Client
    /\ Impatient \subseteq Client
    /\ MayDie \subseteq Client
    /\ Slots \in Nat \ {0}

Slot == 1 .. Slots
Event == 1 .. Slots + 1     \* cancel events; one is reused once nobody holds it
NoEvent == 0

Op == {"claim", "align", "begin_takeover", "release"}
Request == [from : Client, op : Op, live : BOOLEAN]
Free == [from |-> NoClient, op |-> "close", live |-> FALSE]
Closing == [from |-> NoClient, op |-> "close", live |-> TRUE]

VARIABLES
    state,      \* FactrRpcService.state
    owner,      \* FactrRpcService.owner
    anchored,   \* both anchors are set
    inbox,      \* requests whose handler threads wait for the lock
    busy,       \* the request that holds the lock while the arm works, or Free
    ret,        \* where each return thread is
    event,      \* the cancel event each return thread works with
    published,  \* FactrControlAdapter._move_cancel_event
    cancelled,  \* the events that are set
    client,     \* where each client is in its takeover
    late,       \* history: clients that gave up a request
    overlap     \* history: a release came before an earlier return thread had ended

service == <<state, owner, anchored>>
returns == <<ret, event, published, cancelled, overlap>>
vars == <<state, owner, anchored, inbox, busy, ret, event, published,
          cancelled, client, late, overlap>>

States == {"WAITING", "ALIGNING", "ALIGNED", "TAKEOVER", "RETURNING_INIT",
           "STOPPING", "STOPPED"}
ReturnAt == {"none", "start", "setup", "moving", "fin"}
ClientAt == {"off", "claiming", "on", "aligning", "aligned", "beginning",
             "leading", "failing", "releasing", "gone"}

TypeOK ==
    /\ state \in States
    /\ owner \in Client \cup {NoClient}
    /\ anchored \in BOOLEAN
    /\ inbox \subseteq Request
    /\ busy \in Request \cup {Free, Closing}
    /\ ret \in [Slot -> ReturnAt]
    /\ event \in [Slot -> Event \cup {NoEvent}]
    /\ published \in Event \cup {NoEvent}
    /\ cancelled \subseteq Event
    /\ client \in [Client -> ClientAt]
    /\ late \subseteq Client
    /\ overlap \in BOOLEAN

Init ==
    /\ state = "WAITING"
    /\ owner = NoClient
    /\ anchored = FALSE
    /\ inbox = {}
    /\ busy = Free
    /\ ret = [t \in Slot |-> "none"]
    /\ event = [t \in Slot |-> NoEvent]
    /\ published = NoEvent
    /\ cancelled = {}
    /\ client = [c \in Client |-> "off"]
    /\ late = {}
    /\ overlap = FALSE

LockFree == busy = Free /\ state # "STOPPED"

-----------------------------------------------------------------------------
(* The client: claim, align, begin_takeover, follow, release.              *)

Send(c, op, pc) ==
    /\ inbox' = inbox \cup {[from |-> c, op |-> op, live |-> TRUE]}
    /\ client' = [client EXCEPT ![c] = pc]
    /\ UNCHANGED <<service, busy, returns, late>>

Connect(c) == client[c] = "off" /\ Send(c, "claim", "claiming")
Align(c) == client[c] = "on" /\ Send(c, "align", "aligning")
BeginTakeover(c) == client[c] = "aligned" /\ Send(c, "begin_takeover", "beginning")

\* After a takeover, or after anything in it failed.
Close(c) == /\ client[c] \in {"on", "aligned", "leading", "failing"}
            /\ Send(c, "release", "releasing")

\* What a client does with a refusal, and with no answer at all: a failed claim
\* leaves it unconnected, close() disconnects it whatever the answer.
AfterError(pc) == IF pc \in {"claiming", "releasing"} THEN "off" ELSE "failing"

\* The handler thread of an abandoned request is still there.  At most one of a
\* client's waits for the lock at a time (a bound).
Abandon(c) ==
    /\ inbox' = {IF r.from = c THEN [r EXCEPT !.live = FALSE] ELSE r : r \in inbox}
    /\ busy' = IF busy.from = c THEN [busy EXCEPT !.live = FALSE] ELSE busy

GiveUp(c) ==
    /\ c \in Impatient
    /\ client[c] \in {"claiming", "aligning", "beginning", "releasing"}
    /\ \A r \in inbox : r.from = c => r.live
    /\ Abandon(c)
    /\ client' = [client EXCEPT ![c] = AfterError(@)]
    /\ late' = late \cup {c}
    /\ UNCHANGED <<service, returns>>

Die(c) ==
    /\ c \in MayDie
    /\ client[c] # "gone"
    /\ Abandon(c)
    /\ client' = [client EXCEPT ![c] = "gone"]
    /\ UNCHANGED <<service, returns, late>>

-----------------------------------------------------------------------------
(* dispatch(), under the lock.  Only a client that still waits sees the    *)
(* answer.                                                                 *)

Take(r) == LockFree /\ r \in inbox /\ inbox' = inbox \ {r}

Answer(r, pc) == client' = IF r.live THEN [client EXCEPT ![r.from] = pc] ELSE client

Refuse(r) == Answer(r, AfterError(client[r.from]))

\* Mutated: _require_owner() is not asked.
RequireAnyOwner(c) == owner # NoClient

RequireOwner(c) == owner = c

\* Mutated: a claim is refused only while the arm is in takeover.
ClaimableUnlessLeading(c) == owner \in {NoClient, c} \/ state # "TAKEOVER"

Claimable(c) == owner \in {NoClient, c}

Ready == {"WAITING", "TAKEOVER", "ALIGNING"}

Grant(r) ==
    \/ /\ Claimable(r.from)
       /\ owner' = r.from
       /\ Answer(r, "on")
    \/ /\ ~Claimable(r.from)
       /\ Refuse(r)
       /\ UNCHANGED owner

HandleClaim(r) ==
    /\ Take(r)
    /\ r.op = "claim"
    /\ state # "RETURNING_INIT"
    /\ \/ state \in Ready /\ Grant(r)
       \/ state \notin Ready /\ Refuse(r) /\ UNCHANGED owner
    /\ UNCHANGED <<state, anchored, busy, returns, late>>

CancelPublished == cancelled \cup ({published} \ {NoEvent})

\* interrupt_return_to_initial() sets the event and waits for the motion lock.
InterruptReturn(r) ==
    /\ Take(r)
    /\ r.op = "claim"
    /\ state = "RETURNING_INIT"
    /\ cancelled' = CancelPublished
    /\ busy' = r
    /\ UNCHANGED <<service, ret, event, published, client, late, overlap>>

MotionLockFree == \A t \in Slot : ret[t] # "moving"

\* The join after it only waits: the thread needs the lock this claim holds.
FinishInterrupt ==
    /\ busy.op = "claim"
    /\ MotionLockFree
    /\ busy' = Free
    /\ \/ /\ state' = "WAITING"
          /\ Grant(busy)
       \/ /\ Refuse(busy)       \* the arm could not be read
          /\ UNCHANGED <<state, owner>>
    /\ UNCHANGED <<anchored, inbox, ret, event, published, cancelled, late, overlap>>

Unused(e) == e # published /\ \A t \in Slot : event[t] # e

\* arm_move_cancel_event(): the published event, or a new one.
Arm == IF published # NoEvent THEN published ELSE CHOOSE e \in Event : Unused(e)

\* One event more than there are threads: never a limit.
CanArm == \E e \in Event : Unused(e)

\* Mutated: the cancel event is left for the thread to publish.
StartReturnUnarmed ==
    /\ \E t \in Slot : ret[t] = "none" /\ ret' = [ret EXCEPT ![t] = "start"]
    /\ overlap' = (overlap \/ \E t \in Slot : ret[t] # "none")
    /\ UNCHANGED published

StartReturn ==
    /\ \E t \in Slot : ret[t] = "none" /\ ret' = [ret EXCEPT ![t] = "start"]
    /\ overlap' = (overlap \/ \E t \in Slot : ret[t] # "none")
    /\ CanArm
    /\ published' = Arm

Disown == owner' = NoClient /\ anchored' = FALSE

\* Mutated: when end_takeover() fails, the owner keeps the arm.
HandleReleaseNotFinally(r) ==
    /\ Take(r)
    /\ r.op = "release"
    /\ Answer(r, "off")
    /\ \/ /\ RequireOwner(r.from)
          /\ Disown
          /\ state' = "RETURNING_INIT"
          /\ StartReturn
       \/ UNCHANGED <<service, ret, published, overlap>>
    /\ UNCHANGED <<busy, event, cancelled, late>>

\* Whether or not end_takeover() failed; close() ignores the answer.
HandleRelease(r) ==
    /\ Take(r)
    /\ r.op = "release"
    /\ Answer(r, "off")
    /\ \/ /\ RequireOwner(r.from)
          /\ Disown
          /\ state' = "RETURNING_INIT"
          /\ StartReturn
       \/ /\ ~RequireOwner(r.from)
          /\ UNCHANGED <<service, ret, published, overlap>>
    /\ UNCHANGED <<busy, event, cancelled, late>>

HandleAlign(r) ==
    /\ Take(r)
    /\ r.op = "align"
    /\ \/ /\ RequireOwner(r.from)
          /\ state' = "ALIGNING"
          /\ busy' = r
          /\ UNCHANGED client
       \/ /\ ~RequireOwner(r.from)
          /\ Refuse(r)
          /\ UNCHANGED <<state, busy>>
    /\ UNCHANGED <<owner, anchored, returns, late>>

\* Mutated: the state stays what the failed step found.
SafeReleaseKeepsState == Disown /\ UNCHANGED state

\* _safe_release_after_error()
SafeRelease == Disown /\ state' = "WAITING"

FinishAlign ==
    /\ busy.op = "align"
    /\ busy' = Free
    /\ \/ state' = "ALIGNED" /\ anchored' = TRUE /\ Answer(busy, "aligned")
          /\ UNCHANGED owner
       \/ SafeRelease /\ Refuse(busy)
    /\ UNCHANGED <<inbox, returns, late>>

TakeoverAllowed == state = "ALIGNED"

\* Waits for the operator to touch the arm.
HandleBegin(r) ==
    /\ Take(r)
    /\ r.op = "begin_takeover"
    /\ \/ /\ RequireOwner(r.from) /\ TakeoverAllowed
          /\ busy' = r
          /\ UNCHANGED client
       \/ /\ ~(RequireOwner(r.from) /\ TakeoverAllowed)
          /\ Refuse(r)
          /\ UNCHANGED busy
    /\ UNCHANGED <<service, returns, late>>

FinishBegin ==
    /\ busy.op = "begin_takeover"
    /\ busy' = Free
    /\ \/ state' = "TAKEOVER" /\ Answer(busy, "leading") /\ UNCHANGED <<owner, anchored>>
       \/ SafeRelease /\ Refuse(busy)
    /\ UNCHANGED <<inbox, returns, late>>

\* get_state, polled by the follower; an error ends the takeover.
GetState(c) ==
    /\ LockFree
    /\ client[c] = "leading"
    /\ ~(RequireOwner(c) /\ state = "TAKEOVER" /\ anchored)
    /\ client' = [client EXCEPT ![c] = "failing"]
    /\ UNCHANGED <<service, inbox, busy, returns, late>>

\* close() at the end of the service: the arm moves to its rest pose.
Stop ==
    /\ LockFree
    /\ state' = "STOPPING"
    /\ Disown
    /\ busy' = Closing
    /\ UNCHANGED <<inbox, returns, client, late>>

\* The process ends and its threads with it; what the clients do then is not modelled.
Stopped ==
    /\ state = "STOPPING"
    /\ state' = "STOPPED"
    /\ busy' = Free
    /\ inbox' = {}
    /\ ret' = [t \in Slot |-> "none"]
    /\ event' = [t \in Slot |-> NoEvent]
    /\ published' = NoEvent
    /\ cancelled' = {}
    /\ UNCHANGED <<owner, anchored, client, late, overlap>>

-----------------------------------------------------------------------------
(* A return thread.                                                        *)

\* An event nobody refers to is gone, and with it whether it was set.
Collect == cancelled' = cancelled \cap ({published'} \cup {event'[t] : t \in Slot})

Goto(t, at, e) ==
    /\ ret' = [ret EXCEPT ![t] = at]
    /\ event' = [event EXCEPT ![t] = e]
    /\ Collect

\* The event its release armed may be gone by now, honoured by another return's
\* thread; arm_move_cancel_event() then makes one that nobody cancels.
BeginReturn(t) ==
    /\ ret[t] = "start"
    /\ CanArm
    /\ \/ /\ Arm \in cancelled
          /\ published' = NoEvent
          /\ Goto(t, "fin", NoEvent)
       \/ /\ Arm \notin cancelled
          /\ published' = Arm
          /\ Goto(t, "setup", Arm)
    /\ UNCHANGED <<service, inbox, busy, client, late, overlap>>

\* The pose file is read, then the motion lock taken; the event is not looked at.
BeginMove(t) ==
    /\ ret[t] = "setup"
    /\ UNCHANGED published
    /\ \/ MotionLockFree /\ Goto(t, "moving", event[t])
       \/ Goto(t, "fin", NoEvent)
    /\ UNCHANGED <<service, inbox, busy, client, late, overlap>>

\* At the pose, cancelled, or failed.
EndMove(t) ==
    /\ ret[t] = "moving"
    /\ published' = IF published = event[t] THEN NoEvent ELSE published
    /\ Goto(t, "fin", NoEvent)
    /\ UNCHANGED <<service, inbox, busy, client, late, overlap>>

\* Mutated: the thread leaves the state to the next claim.
StateAfterReturnKept == state

StateAfterReturn == IF state = "RETURNING_INIT" THEN "WAITING" ELSE state

\* Whoever's return it is that the state speaks of.
EndReturn(t) ==
    /\ LockFree
    /\ ret[t] = "fin"
    /\ state' = StateAfterReturn
    /\ UNCHANGED published
    /\ Goto(t, "none", NoEvent)
    /\ UNCHANGED <<owner, anchored, inbox, busy, client, late, overlap>>

-----------------------------------------------------------------------------
Handle(r) == HandleClaim(r) \/ InterruptReturn(r) \/ HandleRelease(r)
             \/ HandleAlign(r) \/ HandleBegin(r)
Work == FinishInterrupt \/ FinishAlign \/ FinishBegin
Act(c) == Connect(c) \/ Align(c) \/ BeginTakeover(c) \/ Close(c) \/ GiveUp(c)
          \/ Die(c) \/ GetState(c)
Return(t) == BeginReturn(t) \/ BeginMove(t) \/ EndMove(t) \/ EndReturn(t)

Next == \/ state # "STOPPED" /\ \E c \in Client : Act(c)
        \/ \E r \in inbox : Handle(r)
        \/ Work
        \/ \E t \in Slot : Return(t)
        \/ Stop
        \/ Stopped

Spec == Init /\ [][Next]_vars

\* The arm's own moves are bounded in time, a handler thread runs, and a thread
\* that waits for a lock that comes free again and again gets it.  Nobody makes the
\* operator touch the arm, and no client has to ask for anything.
FairSpec ==
    /\ Spec
    /\ WF_vars(FinishInterrupt \/ FinishAlign)
    /\ SF_vars(\E t \in Slot : Return(t))

-----------------------------------------------------------------------------
(* Properties                                                              *)

Running == state \notin {"STOPPING", "STOPPED"}

\* app.py:3518-3520: the service's owner field arbitrates the leader among the
\* policy processes.  The service is a mutex: a client gets the arm only when nobody
\* has it, and a late or repeated release by one never takes it from another.
Leader == INSTANCE ArmMutex WITH Proc <- Client, owners <- {owner} \ {NoClient}
ImplementsArmMutex == Leader!Spec

\* claim / align / begin_takeover against the client that runs them: a client none
\* of whose requests timed out holds the arm for as long as it believes it does, and
\* leads only an arm that was aligned for it.
BeliefIsTrue ==
    \A c \in Client \ late :
        Running =>
            /\ client[c] \in {"on", "aligning", "aligned", "beginning", "leading"}
                   => owner = c
            /\ client[c] \in {"aligned", "beginning"} => state = "ALIGNED"
            /\ client[c] = "leading" => state = "TAKEOVER"

\* get_state never meets a missing anchor, and no state of a takeover outlives the
\* owner it was reached by, through errors, releases and claims.
TakeoverIsOwned ==
    state \in {"ALIGNED", "TAKEOVER"} => anchored /\ owner # NoClient

\* The arm is left to a client that no longer knows of it only by a timeout or a
\* kill: every refusal, error and release path gives it back.
NoOrphan ==
    \A c \in Client :
        owner = c /\ client[c] \in {"off", "gone"} => c \in late \/ client[c] = "gone"

\* "two movers on one leader arm" (lines 432-437): while the service aligns the arm,
\* a return move goes on only if it has been told to stop, as long as no release has
\* come before the thread of an earlier return had ended.
OneMoverUnlessOverlap ==
    \A t \in Slot :
        busy.op = "align" /\ ret[t] = "moving" => event[t] \in cancelled \/ overlap

\* A return to the initial pose comes to an end, by itself or by a claim, however
\* many claims arrive and fail meanwhile.
ReturnEnds == state = "RETURNING_INIT" ~> state # "RETURNING_INIT"

\* "A claim arriving during the return's own SETUP must still cancel it"
\* (utils/validate_factr_intervention.py:474): once a client has been given the arm,
\* no return to the initial pose starts to move it.
NoMoveUnderClaim ==
    [][\A t \in Slot : ret[t] = "setup" /\ owner # NoClient => ret'[t] # "moving"]_vars
=============================================================================
