-------------------------- MODULE ArmSessionProofs --------------------------
(***************************************************************************)
(* What the sessions guarantee for any number of windows and VR runtimes,  *)
(* whatever the operators press and whoever exits.  The argument: only a   *)
(* session itself takes its name off the lock, at the end of a return-home *)
(* or of a failed start; and the phases of a session exclude each other,   *)
(* so that end finds no takeover under way.  A session whose lock call     *)
(* raised never has its name on the lock, so it lets nothing go.           *)
(***************************************************************************)
EXTENDS ArmSession, TLAPS

\* Starting, taking over and returning home exclude each other in one session.
Phases ==
    \A s \in Session :
        /\ mode[s] = "replan" /\ pc[s] # "transport" =>
              worker[s] = "none" /\ pc[s] \in {"input", "poll", "tick", "closing"}
        /\ pc[s] \in {"transport", "closing"} => mode[s] = "replan"
        /\ pc[s] = "transport" => worker[s] # "none" /\ ~queued[s]
        /\ pc[s] \in Trigger \cup {"closeHome"} => mode[s] = "replay" /\ worker[s] = "none"

\* From the acquire_with_yield() that let it go on to the collection of the return-home.
Using(s) == mode[s] = "replan" \/ worker[s] # "none" \/ pc[s] \in {"connect", "align"}

UsersOwn == \A s \in alive : Using(s) => owner = s \/ lockless[s]

LocklessDoNot == \A s \in Session : lockless[s] => owner # s /\ Using(s)

IInv ==
    /\ TypeOK
    /\ Phases
    /\ UsersOwn
    /\ LocklessDoNot
    /\ NoArmLeak
    /\ NoAbandonedRequest
    /\ QueuedBehindReturn

-----------------------------------------------------------------------------
LEMMA Pids ==
    /\ Nobody \notin Proc
    /\ Session \subseteq Proc /\ Vr \subseteq Proc /\ Session \cap Vr = {}
    /\ NoRequest \in [by : Session \cup {Nobody}, to : Proc \cup {Nobody}, fresh : BOOLEAN]
    /\ NoRequest.by = Nobody
BY ArmSessionAssumption DEF Proc, NoRequest

LEMMA InitIInv == Init => IInv
BY Pids DEF Init, IInv, TypeOK, Phases, Using, UsersOwn, LocklessDoNot, NoArmLeak,
            NoAbandonedRequest, QueuedBehindReturn, Locations, Loop, Trigger, Closing

\* What the end of a takeover sets, in either outcome.
TypeOfEnd ==
    /\ owner \in Proc \cup {Nobody}
    /\ pc \in [Session -> Locations]
    /\ mode \in [Session -> {"replay", "replan"}]
    /\ worker \in [Session -> {"none", "moving", "attached", "done"}]
    /\ finished \in [Session -> BOOLEAN]
    /\ stop \in [Session -> BOOLEAN] /\ reattach \in [Session -> BOOLEAN]
    /\ lockless \in [Session -> BOOLEAN]

LEMMA TypeSettle ==
    ASSUME TypeOK, NEW s \in Session, Settle(s)
    PROVE  TypeOfEnd'
BY Pids DEF TypeOK, TypeOfEnd, Settle, ReleaseLock, Set, Goto, Locations, Loop

\* finish_replan() and cancel_replan(), whoever calls them.
LEMMA TypeEndTakeover ==
    ASSUME TypeOK, NEW s \in Session, EndTakeover(s)
    PROVE  TypeOfEnd' /\ UNCHANGED forgotten
<1>1. CASE StartReturnHome(s)
  BY <1>1 DEF TypeOK, TypeOfEnd, StartReturnHome, Set, Goto, Locations, faults
<1>2. CASE SettleFailure(s)
  BY <1>2, TypeSettle DEF SettleFailure
<1>3. QED
  BY <1>1, <1>2 DEF EndTakeover

\* Every step of every handler keeps the types.
LEMMA StepType == TypeOK /\ [Next]_vars => TypeOK'
<1> SUFFICES ASSUME TypeOK, [Next]_vars PROVE TypeOK'
  OBVIOUS
<1> USE Pids
<1>1. ASSUME NEW s \in Session, QueueIntervene(s) PROVE TypeOK'
  BY <1>1 DEF TypeOK, QueueIntervene, At, Set, lock, faults
<1>2. ASSUME NEW s \in Session, BeginIntervene(s) PROVE TypeOK'
  BY <1>2 DEF TypeOK, BeginIntervene, At, Goto, Set, lock, takeover, faults, Locations,
     Loop, Trigger
<1>3. ASSUME NEW s \in Session, TryAcquire(s) PROVE TypeOK'
  BY <1>3 DEF TypeOK, TryAcquire, At, Goto, takeover, faults, Locations, Loop, Trigger
<1>4. ASSUME NEW s \in Session, ReadHolder(s) PROVE TypeOK'
  BY <1>4 DEF TypeOK, ReadHolder, At, Goto, Set, takeover, faults, Locations, Loop,
     Trigger
<1>5. ASSUME NEW s \in Session, AskToYield(s) PROVE TypeOK'
  BY <1>5 DEF TypeOK, AskToYield, At, Goto, Set, takeover, faults, Locations, Loop,
     Trigger
<1>6. ASSUME NEW s \in Session, GiveUp(s) PROVE TypeOK'
  BY <1>6 DEF TypeOK, GiveUp, At, Goto, lock, takeover, faults, Locations, Loop, Trigger
<1>7. ASSUME NEW s \in Session, LockUnavailable(s) PROVE TypeOK'
  BY <1>7 DEF TypeOK, LockUnavailable, At, Goto, Set, lock, takeover, Locations, Loop,
     Trigger
<1>8. ASSUME NEW s \in Session, ClearRead(s) PROVE TypeOK'
  BY <1>8 DEF TypeOK, ClearRead, At, Goto, AfterClear, lock, takeover, faults,
     Locations, Loop, Trigger
<1>9. ASSUME NEW s \in Session, ClearUnlink(s) PROVE TypeOK'
  BY <1>9 DEF TypeOK, ClearUnlink, At, Goto, AfterClear, takeover, faults, Locations,
     Loop, Trigger
<1>10. ASSUME NEW s \in Session, FailStart(s) PROVE TypeOK'
  BY <1>10 DEF TypeOK, FailStart, At, Set, Return, Goto, ReleaseLock, Locations, Loop,
     Trigger
<1>11. ASSUME NEW s \in Session, Connect(s) PROVE TypeOK'
  BY <1>11 DEF TypeOK, Connect, At, Goto, Set, lock, faults, Locations, Loop, Trigger
<1>12. ASSUME NEW s \in Session, HandOver(s) PROVE TypeOK'
  BY <1>12 DEF TypeOK, HandOver, At, Set, Return, Goto, lock, faults, Locations, Loop,
     Trigger
<1>13. ASSUME NEW s \in Session, EndTransport(s) PROVE TypeOK'
  BY <1>13 DEF TypeOK, EndTransport, At, Goto, Set, lock, faults, Locations, Loop,
     Trigger
<1>14. ASSUME NEW s \in Session, StopReturnHome(s) PROVE TypeOK'
  BY <1>14 DEF TypeOK, StopReturnHome, At, Set, lock, faults
<1>15. ASSUME NEW s \in Session, MarkOutcome(s) PROVE TypeOK'
  BY <1>15 DEF TypeOK, MarkOutcome, At, SceneChanges, Set, lock, takeover, faults
<1>16. ASSUME NEW s \in Session, MirrorEnabled(s) PROVE TypeOK'
  BY <1>16 DEF TypeOK, MirrorEnabled, At, Goto, Set, lock, takeover, faults, Locations,
     Loop, Trigger
<1>17. ASSUME NEW s \in Session, EndInput(s) PROVE TypeOK'
  BY <1>17 DEF TypeOK, EndInput, At, Goto, lock, takeover, faults, Locations, Loop,
     Trigger
<1>18. ASSUME NEW s \in Session, PollIdle(s) PROVE TypeOK'
  BY <1>18 DEF TypeOK, PollIdle, At, Goto, lock, takeover, faults, Locations, Loop,
     Trigger
<1>19. ASSUME NEW s \in Session, PollClear(s) PROVE TypeOK'
  BY <1>19 DEF TypeOK, PollClear, At, Goto, takeover, faults, Locations, Loop, Trigger
<1>20. ASSUME NEW s \in Session, PolicyTick(s) PROVE TypeOK'
  BY <1>20 DEF TypeOK, PolicyTick, At, Goto, SceneChanges, Set, lock, takeover, faults,
     Locations, Loop, Trigger
<1>21. ASSUME NEW s \in Session, WorkerAttach(s) PROVE TypeOK'
  BY <1>21 DEF TypeOK, WorkerAttach, Set, lock, faults
<1>22. ASSUME NEW s \in Session, WorkerEnd(s) PROVE TypeOK'
  BY <1>22 DEF TypeOK, WorkerEnd, Set, lock, faults
<1>23. ASSUME NEW s \in Session, ForgottenEnd(s) PROVE TypeOK'
  BY <1>23 DEF TypeOK, ForgottenEnd, Set, lock
<1>24. ASSUME NEW s \in Session, Killed(s) PROVE TypeOK'
  BY <1>24 DEF TypeOK, Killed, Vanish, Goto, Set, Locations, Loop, Trigger
<1>25. ASSUME NEW s \in Session, CloseRelease(s) PROVE TypeOK'
  BY <1>25 DEF TypeOK, CloseRelease, At, Goto, Set, ReleaseLock, Locations, Closing
<1>26. ASSUME NEW s \in Session, CloseExit(s) PROVE TypeOK'
  BY <1>26 DEF TypeOK, CloseExit, At, Vanish, Goto, Set, Locations, Loop, Trigger
<1>27. ASSUME NEW s \in Session, EndByOperator(s) PROVE TypeOK'
  BY <1>27, TypeEndTakeover DEF TypeOK, TypeOfEnd, EndByOperator
<1>28. ASSUME NEW s \in Session, Restart(s) PROVE TypeOK'
  <2>1. queuedOld' \in [Session -> BOOLEAN]
    BY <1>28 DEF TypeOK, Restart, SceneChanges, Set
  <2>2. CASE EndTakeover(s) /\ Set(queued, s, FALSE)
    BY <1>28, <2>1, <2>2, TypeEndTakeover DEF TypeOK, TypeOfEnd, Restart, Set
  <2>3. CASE UNCHANGED <<owner, pc, takeover, faults>>
    BY <1>28, <2>1, <2>3 DEF TypeOK, Restart, takeover, faults
  <2>4. QED
    BY <1>28, <2>2, <2>3 DEF Restart
<1>29. ASSUME NEW s \in Session, SettleBesideWorker(s) PROVE TypeOK'
  <2>1. forgotten' \in [Session -> {"none", "plain", "mirror"}]
    BY <1>29 DEF TypeOK, SettleBesideWorker, Set, Unknown
  <2>2. QED
    BY <1>29, <2>1, TypeSettle DEF TypeOK, TypeOfEnd, SettleBesideWorker
<1>30. ASSUME NEW s \in Session, ToggleMirror(s) PROVE TypeOK'
  <2>1. mirror' \in [Session -> BOOLEAN]
    BY <1>30 DEF TypeOK, ToggleMirror, Set
  <2>2. pc' \in [Session -> Locations]
    BY <1>30 DEF TypeOK, ToggleMirror, Goto, Locations
  <2>3. QED
    BY <1>30, <2>1, <2>2 DEF TypeOK, ToggleMirror, lock, takeover, faults
<1>31. ASSUME NEW s \in Session, PollMoving(s) PROVE TypeOK'
  <2>1. stop' \in [Session -> BOOLEAN]
    BY <1>31 DEF TypeOK, PollMoving, Set
  <2>2. pc' \in [Session -> Locations]
    BY <1>31 DEF TypeOK, PollMoving, Goto, Locations, Loop
  <2>3. QED
    BY <1>31, <2>1, <2>2 DEF TypeOK, PollMoving, lock, faults
<1>32. ASSUME NEW s \in Session, PollDone(s) PROVE TypeOK'
  <2>1. forgotten' \in [Session -> {"none", "plain", "mirror"}]
    BY <1>32 DEF TypeOK, PollDone, Set, Unknown
  <2>2. pc' \in [Session -> Locations] /\ resume' \in [Session -> {"input", "tick"}]
    BY <1>32 DEF TypeOK, PollDone, Goto, Set, Locations, Loop, Trigger
  <2>3. QED
    BY <1>32, <2>1, <2>2 DEF TypeOK, PollDone, At, Set, ReleaseLock
<1>33. ASSUME NEW s \in Session, TakeoverTick(s) PROVE TypeOK'
  <2>1. CASE EndTakeover(s)
    BY <1>33, <2>1, TypeEndTakeover DEF TypeOK, TypeOfEnd, TakeoverTick
  <2>2. CASE Goto(s, "input") /\ UNCHANGED <<owner, mode, worker, finished, stop, reattach, faults>>
    BY <1>33, <2>2 DEF TypeOK, TakeoverTick, Goto, Locations, Loop, faults
  <2>3. QED
    BY <1>33, <2>1, <2>2 DEF TakeoverTick
<1>34. ASSUME NEW s \in Session, Close(s) PROVE TypeOK'
  <2>1. CASE Vanish(s)
    BY <1>34, <2>1 DEF TypeOK, Close, Vanish, Goto, Set, Locations, Loop
  <2>2. CASE Goto(s, "closing") /\ UNCHANGED <<lock, resume, takeover, mirror, queuedOld, faults>>
    BY <2>2 DEF TypeOK, Goto, Locations, Closing, lock, takeover, faults
  <2>3. QED
    BY <1>34, <2>1, <2>2 DEF Close
<1>35. CASE Expire
  BY <1>35 DEF TypeOK, Expire, takeover, faults
<1>36. ASSUME NEW v \in Vr, VrTake(v) \/ VrDrop(v) PROVE TypeOK'
  BY <1>36 DEF TypeOK, VrTake, VrDrop, takeover, faults
<1>37. CASE UNCHANGED vars
  BY <1>37 DEF TypeOK, vars
<1>38. QED
  BY <1>1, <1>2, <1>3, <1>4, <1>5, <1>6, <1>7, <1>8, <1>9, <1>10, <1>11, <1>12, <1>13,
     <1>14, <1>15, <1>16, <1>17, <1>18, <1>19, <1>20, <1>21, <1>22, <1>23, <1>24, <1>25,
     <1>26, <1>27, <1>28, <1>29, <1>30, <1>31, <1>32, <1>33, <1>34, <1>35, <1>36, <1>37
     DEF Next, Operator, Starting, Looping, Worker

\* Every step of every handler keeps the inductive invariant.
LEMMA StepIInv == IInv /\ [Next]_vars => IInv'
<1> SUFFICES ASSUME IInv, [Next]_vars PROVE IInv'
  OBVIOUS
<1>0. TypeOK'
  BY StepType DEF IInv
<1> USE Pids, <1>0 DEF IInv, TypeOK, Phases, Using, UsersOwn, LocklessDoNot, NoArmLeak,
                       NoAbandonedRequest, QueuedBehindReturn, Trigger
<1>1. ASSUME NEW s \in Session, QueueIntervene(s) PROVE IInv'
  BY <1>1 DEF QueueIntervene, At, Set, lock, faults
<1>2. ASSUME NEW s \in Session, BeginIntervene(s) PROVE IInv'
  BY <1>2 DEF BeginIntervene, At, Goto, Set, lock, takeover, faults
<1>3. ASSUME NEW s \in Session, TryAcquire(s) PROVE IInv'
  BY <1>3 DEF TryAcquire, At, Goto, takeover, faults, Free
<1>4. ASSUME NEW s \in Session, ReadHolder(s) PROVE IInv'
  BY <1>4 DEF ReadHolder, At, Goto, Set, takeover, faults
<1>5. ASSUME NEW s \in Session, AskToYield(s) PROVE IInv'
  BY <1>5 DEF AskToYield, At, Goto, Set, takeover, faults
<1>6. ASSUME NEW s \in Session, GiveUp(s) PROVE IInv'
  BY <1>6 DEF GiveUp, At, Goto, lock, takeover, faults
<1>7. ASSUME NEW s \in Session, LockUnavailable(s) PROVE IInv'
  BY <1>7 DEF LockUnavailable, At, Goto, Set, lock, takeover
<1>8. ASSUME NEW s \in Session, ClearRead(s) PROVE IInv'
  BY <1>8 DEF ClearRead, At, Goto, AfterClear, lock, takeover, faults
<1>9. ASSUME NEW s \in Session, ClearUnlink(s) PROVE IInv'
  BY <1>9 DEF ClearUnlink, At, Goto, AfterClear, takeover, faults
<1>10. ASSUME NEW s \in Session, FailStart(s) PROVE IInv'
  BY <1>10 DEF FailStart, At, Set, Return, Goto, ReleaseLock
<1>11. ASSUME NEW s \in Session, Connect(s) PROVE IInv'
  BY <1>11 DEF Connect, At, Goto, Set, lock, faults
<1>12. ASSUME NEW s \in Session, HandOver(s) PROVE IInv'
  BY <1>12 DEF HandOver, At, Set, Return, Goto, lock, faults
<1>13. ASSUME NEW s \in Session, EndTransport(s) PROVE IInv'
  BY <1>13 DEF EndTransport, At, Goto, Set, lock, faults
<1>14. ASSUME NEW s \in Session, StopReturnHome(s) PROVE IInv'
  BY <1>14 DEF StopReturnHome, At, Set, lock, faults
<1>15. ASSUME NEW s \in Session, MarkOutcome(s) PROVE IInv'
  BY <1>15 DEF MarkOutcome, At, SceneChanges, Set, lock, takeover, faults
<1>16. ASSUME NEW s \in Session, MirrorEnabled(s) PROVE IInv'
  BY <1>16 DEF MirrorEnabled, At, Goto, Set, lock, takeover, faults
<1>17. ASSUME NEW s \in Session, EndInput(s) PROVE IInv'
  BY <1>17 DEF EndInput, At, Goto, lock, takeover, faults
<1>18. ASSUME NEW s \in Session, PollIdle(s) PROVE IInv'
  BY <1>18 DEF PollIdle, At, Goto, lock, takeover, faults
<1>19. ASSUME NEW s \in Session, PollClear(s) PROVE IInv'
  BY <1>19 DEF PollClear, At, Goto, takeover, faults
<1>20. ASSUME NEW s \in Session, PolicyTick(s) PROVE IInv'
  BY <1>20 DEF PolicyTick, At, Goto, SceneChanges, Set, lock, takeover, faults
<1>21. ASSUME NEW s \in Session, WorkerAttach(s) PROVE IInv'
  BY <1>21 DEF WorkerAttach, Set, lock, faults
<1>22. ASSUME NEW s \in Session, WorkerEnd(s) PROVE IInv'
  BY <1>22 DEF WorkerEnd, Set, lock, faults
<1>23. ASSUME NEW s \in Session, ForgottenEnd(s) PROVE IInv'
  BY <1>23 DEF ForgottenEnd, Set, lock
<1>24. ASSUME NEW s \in Session, Killed(s) PROVE IInv'
  BY <1>24 DEF Killed, Vanish, Goto, Set
<1>25. ASSUME NEW s \in Session, CloseRelease(s) PROVE IInv'
  BY <1>25 DEF CloseRelease, At, Goto, Set, ReleaseLock
<1>26. ASSUME NEW s \in Session, CloseExit(s) PROVE IInv'
  BY <1>26 DEF CloseExit, At, Vanish, Goto, Set
<1>27. ASSUME NEW s \in Session, EndByOperator(s) PROVE IInv'
  BY <1>27 DEF EndByOperator, At, Goto, Set, EndTakeover, StartReturnHome,
     SettleFailure, Settle, ReleaseLock, faults
<1>28. ASSUME NEW s \in Session, Restart(s) PROVE IInv'
  BY <1>28 DEF Restart, At, Goto, Set, SceneChanges, takeover, EndTakeover,
     StartReturnHome, SettleFailure, Settle, ReleaseLock, faults
<1>29. ASSUME NEW s \in Session, SettleBesideWorker(s) PROVE IInv'
  BY <1>29 DEF SettleBesideWorker, At, Goto, Set, Settle, ReleaseLock
<1>30. ASSUME NEW s \in Session, ToggleMirror(s) PROVE IInv'
  BY <1>30 DEF ToggleMirror, At, Goto, Set, lock, takeover, faults
<1>31. ASSUME NEW s \in Session, PollMoving(s) PROVE IInv'
  BY <1>31 DEF PollMoving, At, Goto, Set, ReturnDone, lock, faults
<1>32. ASSUME NEW s \in Session, PollDone(s) PROVE IInv'
  BY <1>32 DEF PollDone, At, Goto, Set, ReleaseLock, ReturnDone
<1>33. ASSUME NEW s \in Session, TakeoverTick(s) PROVE IInv'
  BY <1>33 DEF TakeoverTick, At, Goto, Set, EndTakeover, StartReturnHome, SettleFailure,
     Settle, ReleaseLock, faults
<1>34. ASSUME NEW s \in Session, Close(s) PROVE IInv'
  BY <1>34 DEF Close, At, Vanish, Goto, Set, Loop, lock, takeover, faults
<1>35. CASE Expire
  BY <1>35 DEF Expire, takeover, faults
<1>36. ASSUME NEW v \in Vr, VrTake(v) \/ VrDrop(v) PROVE IInv'
  BY <1>36 DEF VrTake, VrDrop, Free, takeover, faults
<1>37. CASE UNCHANGED vars
  BY <1>37 DEF vars
<1>38. QED
  BY <1>1, <1>2, <1>3, <1>4, <1>5, <1>6, <1>7, <1>8, <1>9, <1>10, <1>11, <1>12, <1>13,
     <1>14, <1>15, <1>16, <1>17, <1>18, <1>19, <1>20, <1>21, <1>22, <1>23, <1>24, <1>25,
     <1>26, <1>27, <1>28, <1>29, <1>30, <1>31, <1>32, <1>33, <1>34, <1>35, <1>36, <1>37
     DEF Next, Operator, Starting, Looping, Worker

\* The inductive invariant holds in every state a session can reach.
THEOREM IInvHolds == Spec => []IInv
BY InitIInv, StepIInv, PTL DEF Spec

\* Type correctness of the lock, the sidecar and every session's flags.
THEOREM TypeCorrect == Spec => []TypeOK
<1>1. IInv => TypeOK
  BY DEF IInv
<1>2. QED
  BY <1>1, IInvHolds, PTL

-----------------------------------------------------------------------------
\* _acquire_robot_ownership(): takeovers and return-homes of all sessions run under the
\* lock, but those whose lock call raised (app.py:3294-3296); a worker forgotten after a
\* failed publication and the last adapter of close() run without it and are not claimed.
THEOREM ArmUnderLock == Spec => []TakeoverOwnsArm
<1>1. IInv => TakeoverOwnsArm
  BY DEF IInv, TypeOK, UsersOwn, Using, TakeoverOwnsArm, TakingOver, Returning
<1>2. QED
  BY <1>1, IInvHolds, PTL

\* _fail_replan_start(), _settle_replan_terminal_failure(), _poll_return_home(): a live
\* session that still owns the arm is using it or about to.
THEOREM ArmGivenBack == Spec => []NoArmLeak
<1>1. IInv => NoArmLeak
  BY DEF IInv
<1>2. QED
  BY <1>1, IInvHolds, PTL

\* acquire_with_yield() and clear_yield_request(): a request in the sidecar is waited
\* for, whatever the other sessions write over it and unlink.
THEOREM RequestsWaitedFor == Spec => []NoAbandonedRequest
<1>1. IInv => NoAbandonedRequest
  BY DEF IInv
<1>2. QED
  BY <1>1, IInvHolds, PTL

\* trigger_replan(): a takeover is queued only while a return-home will collect it.
THEOREM QueueHasReturn == Spec => []QueuedBehindReturn
<1>1. IInv => QueuedBehindReturn
  BY DEF IInv
<1>2. QED
  BY <1>1, IInvHolds, PTL
-----------------------------------------------------------------------------
(* The turns on the arm                                                    *)

Commanding == [s \in Session |-> Doing(s)]

\* Between them the phases of a session leave at most one thing that commands the arm.
LEMMA DoingIs ==
    ASSUME NEW s \in Session
    PROVE  /\ ~TakingOver(s) /\ ~Returning(s) => Doing(s) = {}
           /\ lockless[s] => Doing(s) = {}
           /\ TakingOver(s) /\ ~Returning(s) /\ ~lockless[s] => Doing(s) = {"takeover"}
           /\ ~TakingOver(s) /\ Returning(s) /\ ~lockless[s] => Doing(s) = {"home"}
           /\ (~TakingOver(s) /\ ~Returning(s))' => Doing(s)' = {}
           /\ lockless'[s] => Doing(s)' = {}
           /\ (TakingOver(s) /\ ~Returning(s) /\ ~lockless[s])' => Doing(s)' = {"takeover"}
           /\ (~TakingOver(s) /\ Returning(s) /\ ~lockless[s])' => Doing(s)' = {"home"}
BY DEF Doing

\* A session that does not own the arm drives it, if at all, without the lock.
LEMMA OnlyOwnersDo ==
    ASSUME IInv, NEW s \in alive, owner # s
    PROVE  Doing(s) = {}
<1>1. s \in Session
  BY DEF IInv, TypeOK
<1>2. lockless[s] \/ ~Using(s)
  BY <1>1 DEF IInv, UsersOwn
<1>3. QED
  BY <1>1, <1>2, DoingIs DEF Using, TakingOver, Returning

LEMMA OwnersAre ==
    ASSUME TypeOK, TypeOK'
    PROVE  /\ Owners = IF Free THEN {} ELSE {owner}
           /\ Owners' = IF Free' THEN {} ELSE {owner'}
BY Pids DEF Owners, Free, TypeOK

\* What a session does is a matter of its own state.
Same(s) ==
    /\ s \in alive' <=> s \in alive
    /\ pc'[s] = pc[s] /\ mode'[s] = mode[s] /\ worker'[s] = worker[s]
    /\ lockless'[s] = lockless[s]

LEMMA SameDoing ==
    ASSUME NEW s \in Session, Same(s)
    PROVE  Doing(s)' = Doing(s)
BY DEF Doing, TakingOver, Returning, Same

\* A session turns to something else, and the others go on with what they do.
LEMMA OneTurns ==
    ASSUME NEW s \in Session, \A t \in Session \ {s} : Same(t)
    PROVE  Commanding' = [Commanding EXCEPT ![s] = Doing(s)']
BY SameDoing DEF Commanding

LEMMA Turns ==
    ASSUME NEW s \in Session, NEW from, NEW to, UNCHANGED Owners,
           \A t \in Session \ {s} : Same(t), Doing(s) = from, Doing(s)' = to
    PROVE  Schedule!Turn(s, from, to)
BY OneTurns DEF Schedule!Turn, Commanding

LEMMA LetsGo ==
    ASSUME TypeOK, TypeOK', NEW p \in Proc, owner = p, ~Free, Free',
           \A t \in Session \ {p} : Same(t), p \in Session => Doing(p)' = {}
    PROVE  Schedule!LetGo(p)
BY OwnersAre, SameDoing, Pids DEF Schedule!LetGo, Commanding

\* Who owns the arm and what commands it stay as they are.
Unchanging == UNCHANGED <<Owners, Commanding>>

LEMMA StaysSame ==
    ASSUME TypeOK, TypeOK', UNCHANGED <<owner, alive>>, NEW s \in Session,
           \A t \in Session \ {s} : Same(t), Doing(s)' = Doing(s)
    PROVE  Unchanging
BY OwnersAre, SameDoing DEF Unchanging, Commanding, Free

\* A session that is done with the arm gives it back, if it had it.
LEMMA Releases ==
    ASSUME IInv, TypeOK', NEW s \in alive, UNCHANGED alive, ReleaseLock(s),
           \A t \in Session \ {s} : Same(t), Doing(s)' = {}
    PROVE  Schedule!LetGo(s) \/ Unchanging
<1> USE DEF IInv, TypeOK
<1>1. s \in Session /\ s \in Proc /\ s # Nobody
  BY Pids
<1>2. CASE owner = s
  <2>1. ~Free /\ Free'
    BY <1>1, <1>2 DEF Free, ReleaseLock
  <2>2. QED
    BY <1>1, <1>2, <2>1, LetsGo
<1>3. CASE owner # s
  <2>1. owner' = owner /\ Doing(s) = {}
    BY <1>3, OnlyOwnersDo DEF ReleaseLock
  <2>2. QED
    BY <1>1, <2>1, StaysSame
<1>4. QED
  BY <1>2, <1>3

\* _settle_replan_terminal_failure(), with or without a worker left behind.
LEMMA SettleTurns ==
    ASSUME IInv, TypeOK', NEW s \in alive, UNCHANGED alive, Settle(s)
    PROVE  Schedule!LetGo(s) \/ Unchanging
<1> USE DEF IInv, TypeOK, Settle, Set, Goto
<1>1. s \in Session
  OBVIOUS
<1>2. \A t \in Session \ {s} : Same(t)
  BY DEF Same
<1>3. Doing(s)' = {}
  BY <1>1, DoingIs DEF TakingOver, Returning
<1>4. QED
  BY <1>2, <1>3, Releases

\* finish_replan() and cancel_replan() send the arm home or give it back.
LEMMA EndTakeoverTurns ==
    ASSUME IInv, TypeOK', NEW s \in alive, pc[s] \in {"input", "tick"}, EndTakeover(s),
           UNCHANGED alive
    PROVE  Schedule!GoHome(s) \/ Schedule!LetGo(s) \/ Unchanging
<1> USE DEF IInv, TypeOK
<1>1. CASE StartReturnHome(s)
  <2> USE <1>1 DEF StartReturnHome, Set, Goto, faults
  <2>1. s \in Session /\ mode[s] = "replan" /\ worker[s] = "none"
    BY DEF EndTakeover, Phases
  <2>2. \A t \in Session \ {s} : Same(t)
    BY DEF Same
  <2>3. TakingOver(s) /\ ~Returning(s) /\ ~TakingOver(s)' /\ Returning(s)'
    BY <2>1 DEF TakingOver, Returning
  <2>4. CASE lockless[s]
    <3>1. UNCHANGED Doing(s)
      BY <2>1, <2>4, DoingIs
    <3>2. QED
      BY <2>1, <2>2, <3>1, StaysSame
  <2>5. CASE ~lockless[s]
    <3>1. Doing(s) = {"takeover"} /\ Doing(s)' = {"home"}
      BY <2>1, <2>3, <2>5, DoingIs
    <3>2. UNCHANGED Owners
      BY OwnersAre DEF Free
    <3>3. QED
      BY <2>1, <2>2, <3>1, <3>2, Turns DEF Schedule!GoHome
  <2>6. QED
    BY <2>4, <2>5
<1>2. CASE SettleFailure(s)
  BY <1>2, SettleTurns DEF SettleFailure
<1>3. QED
  BY <1>1, <1>2 DEF EndTakeover

LEMMA ExitTurns ==
    ASSUME IInv, TypeOK', NEW s \in alive, Vanish(s), UNCHANGED owner
    PROVE  Schedule!LetGo(s) \/ Unchanging
<1> USE DEF IInv, TypeOK
<1>1. s \in Session /\ s \in Proc /\ s # Nobody
  BY Pids
<1>2. \A t \in Session \ {s} : Same(t)
  BY <1>1 DEF Vanish, Goto, Set, Same
<1>3. Doing(s)' = {}
  BY <1>1, DoingIs DEF Vanish, TakingOver, Returning
<1>4. CASE owner = s
  <2>1. ~Free /\ Free'
    BY <1>1, <1>4 DEF Free, Vanish
  <2>2. QED
    BY <1>1, <1>2, <1>3, <1>4, <2>1, LetsGo
<1>5. CASE owner # s
  <2>1. Doing(s) = {}
    BY <1>5, OnlyOwnersDo
  <2>2. Commanding' = Commanding
    BY <1>2, <1>3, <2>1, SameDoing DEF Commanding
  <2>3. Free' <=> Free
    BY <1>1, <1>5 DEF Free, Vanish
  <2>4. QED
    BY <2>2, <2>3, OwnersAre DEF Unchanging
<1>6. QED
  BY <1>4, <1>5

\* The steps that touch neither the owner nor what the arm is told to do.
LEMMA QuietSteps ==
    ASSUME IInv, TypeOK', NEW s \in Session,
           \/ QueueIntervene(s) \/ BeginIntervene(s) \/ ReadHolder(s) \/ AskToYield(s)
           \/ GiveUp(s) \/ LockUnavailable(s) \/ ClearRead(s) \/ ClearUnlink(s)
           \/ HandOver(s) \/ EndTransport(s) \/ StopReturnHome(s) \/ MarkOutcome(s)
           \/ ToggleMirror(s) \/ MirrorEnabled(s) \/ EndInput(s) \/ PollIdle(s)
           \/ PollMoving(s) \/ PollClear(s) \/ PolicyTick(s) \/ WorkerAttach(s)
           \/ ForgottenEnd(s)
    PROVE  Unchanging
<1> USE DEF IInv, TypeOK, At, Goto, Set, lock, takeover, faults, Same
<1>1. SUFFICES /\ UNCHANGED <<owner, alive>> /\ \A t \in Session \ {s} : Same(t)
               /\ TakingOver(s)' = TakingOver(s) /\ Returning(s)' = Returning(s)
               /\ lockless'[s] = lockless[s] \/ ~(TakingOver(s) \/ Returning(s))
  BY StaysSame DEF Doing
<1> USE DEF TakingOver, Returning
<1>2. CASE QueueIntervene(s) \/ BeginIntervene(s) \/ ReadHolder(s) \/ AskToYield(s)
  BY <1>2 DEF QueueIntervene, BeginIntervene, ReadHolder, AskToYield
<1>3. CASE GiveUp(s) \/ ClearRead(s) \/ ClearUnlink(s)
  BY <1>3 DEF GiveUp, ClearRead, ClearUnlink, AfterClear
<1>4. CASE LockUnavailable(s)
  <2>1. s \in alive /\ pc[s] = "acquire" /\ mode[s] = "replay" /\ worker[s] = "none"
    BY <1>4 DEF LockUnavailable, Phases, Trigger
  <2>2. ~TakingOver(s) /\ ~Returning(s) /\ ~TakingOver(s)' /\ ~Returning(s)'
    BY <1>4, <2>1 DEF LockUnavailable
  <2>3. UNCHANGED <<owner, alive>> /\ \A t \in Session \ {s} : Same(t)
    BY <1>4 DEF LockUnavailable
  <2>4. QED
    BY <2>2, <2>3
<1>5. CASE HandOver(s) \/ EndTransport(s)
  BY <1>5 DEF HandOver, EndTransport, Return, Phases
<1>6. CASE StopReturnHome(s) \/ MarkOutcome(s) \/ ToggleMirror(s) \/ MirrorEnabled(s)
  BY <1>6 DEF StopReturnHome, MarkOutcome, ToggleMirror, MirrorEnabled
<1>7. CASE EndInput(s) \/ PollIdle(s) \/ PollMoving(s) \/ PollClear(s)
  BY <1>7 DEF EndInput, PollIdle, PollMoving, PollClear
<1>8. CASE PolicyTick(s) \/ WorkerAttach(s) \/ ForgottenEnd(s)
  BY <1>8 DEF PolicyTick, WorkerAttach, ForgottenEnd
<1>9. QED
  BY <1>2, <1>3, <1>4, <1>5, <1>6, <1>7, <1>8

LEMMA TryAcquireTurns ==
    ASSUME IInv, TypeOK', NEW s \in Session, TryAcquire(s)
    PROVE  Schedule!Take(s) \/ Unchanging
<1> USE DEF IInv, TypeOK, At, Goto, takeover, faults
<1>1. UNCHANGED alive /\ s \in alive /\ \A t \in Session \ {s} : Same(t)
  BY DEF TryAcquire, Same
<1>2. Doing(s)' = Doing(s)
  BY DEF TryAcquire, Doing, TakingOver, Returning
<1>3. CASE Free /\ owner' = s
  <2>1. ~Free'
    BY <1>1, <1>3, Pids DEF Free
  <2>2. Owners = {} /\ Owners' = {s}
    BY <1>3, <2>1, OwnersAre
  <2>3. Commanding' = Commanding
    BY <1>1, <1>2, SameDoing DEF Commanding
  <2>4. QED
    BY <2>2, <2>3 DEF Schedule!Take, Commanding
<1>4. CASE UNCHANGED owner
  BY <1>1, <1>2, <1>4, StaysSame
<1>5. QED
  BY <1>3, <1>4 DEF TryAcquire

\* The ends of a failed start, of a return-home and of close()'s first homing.
LEMMA ReleasingSteps ==
    ASSUME IInv, TypeOK', NEW s \in Session, FailStart(s) \/ PollDone(s) \/ CloseRelease(s)
    PROVE  Schedule!LetGo(s) \/ Unchanging
<1> USE DEF IInv, TypeOK, At, Goto, Set
<1>1. /\ s \in alive /\ UNCHANGED alive /\ ReleaseLock(s)
      /\ \A t \in Session \ {s} : Same(t)
  BY DEF FailStart, Return, PollDone, CloseRelease, Same
<1>2. ~TakingOver(s)' /\ ~Returning(s)'
  <2>1. CASE FailStart(s)
    BY <2>1 DEF FailStart, Return, Phases, Trigger, TakingOver, Returning
  <2>2. CASE PollDone(s)
    BY <2>2 DEF PollDone, Phases, TakingOver, Returning
  <2>3. CASE CloseRelease(s)
    BY <2>3 DEF CloseRelease, Phases, TakingOver, Returning
  <2>4. QED
    BY <2>1, <2>2, <2>3
<1>3. Doing(s)' = {}
  BY <1>2, DoingIs
<1>4. QED
  BY <1>1, <1>3, Releases

LEMMA ConnectTurns ==
    ASSUME IInv, TypeOK', NEW s \in Session, Connect(s)
    PROVE  Schedule!Begin(s) \/ Unchanging
<1> USE DEF IInv, TypeOK, At, Goto, Set, lock, faults
<1>1. /\ s \in alive /\ (owner = s \/ lockless[s]) /\ pc[s] = "connect"
      /\ mode[s] = "replay" /\ worker[s] = "none"
      /\ UNCHANGED <<owner, alive, mode, worker, lockless>>
      /\ pc' = [pc EXCEPT ![s] = "align"]
  BY DEF Connect, Phases, Trigger, UsersOwn, Using
<1>2. \A t \in Session \ {s} : Same(t)
  BY <1>1 DEF Same
<1>3. CASE lockless[s]
  <2>1. UNCHANGED Doing(s) /\ UNCHANGED <<owner, alive>>
    BY <1>1, <1>3, DoingIs
  <2>2. QED
    BY <1>2, <2>1, StaysSame
<1>4. CASE ~lockless[s]
  <2>1. Doing(s) = {} /\ Doing(s)' = {"takeover"}
    BY <1>1, <1>4, DoingIs DEF TakingOver, Returning
  <2>2. ~Free /\ ~Free'
    BY <1>1, <1>4, Pids DEF Free
  <2>3. UNCHANGED Owners /\ s \in Owners
    BY <1>1, <1>4, <2>2, OwnersAre
  <2>4. QED
    BY <1>2, <2>1, <2>3, Turns DEF Schedule!Begin
<1>5. QED
  BY <1>3, <1>4

LEMMA WorkerEndTurns ==
    ASSUME IInv, TypeOK', NEW s \in Session, WorkerEnd(s)
    PROVE  Schedule!Arrive(s) \/ Unchanging
<1> USE DEF IInv, TypeOK, Set, lock, faults
<1>1. /\ s \in alive /\ Returning(s) /\ ~TakingOver(s)
      /\ UNCHANGED <<owner, alive, mode, pc, lockless>>
      /\ worker' = [worker EXCEPT ![s] = "done"]
  BY DEF WorkerEnd, Phases, Trigger, TakingOver, Returning
<1>2. \A t \in Session \ {s} : Same(t)
  BY <1>1 DEF Same
<1>3. Doing(s)' = {}
  BY <1>1, DoingIs DEF TakingOver, Returning
<1>4. CASE lockless[s]
  BY <1>1, <1>2, <1>3, <1>4, DoingIs, StaysSame
<1>5. CASE ~lockless[s]
  <2>1. Doing(s) = {"home"}
    BY <1>1, <1>5, DoingIs
  <2>2. UNCHANGED Owners
    BY <1>1, OwnersAre DEF Free
  <2>3. QED
    BY <1>2, <1>3, <2>1, <2>2, Turns DEF Schedule!Arrive
<1>6. QED
  BY <1>4, <1>5

LEMMA VrTurns ==
    ASSUME IInv, TypeOK', NEW v \in Vr, VrTake(v) \/ VrDrop(v)
    PROVE  Schedule!Take(v) \/ Schedule!LetGo(v)
<1>1. /\ \A t \in Session : Same(t)
      /\ UNCHANGED alive /\ v \in Proc /\ v \notin Session /\ v # Nobody
  BY Pids DEF VrTake, VrDrop, takeover, faults, Same
<1>2. Commanding' = Commanding
  BY <1>1, SameDoing DEF Commanding
<1>3. CASE VrTake(v)
  BY <1>1, <1>2, <1>3, OwnersAre DEF IInv, VrTake, Free, Schedule!Take, Commanding
<1>4. CASE VrDrop(v)
  BY <1>1, <1>2, <1>4, LetsGo DEF IInv, TypeOK, VrDrop, Free
<1>5. QED
  BY <1>3, <1>4

LEMMA StepTurns == IInv /\ TypeOK' /\ [Next]_vars => Schedule!Next \/ Unchanging
<1> SUFFICES ASSUME IInv, TypeOK', [Next]_vars PROVE Schedule!Next \/ Unchanging
  OBVIOUS
<1> USE DEF Schedule!Next
<1>1. ASSUME NEW s \in Session,
             \/ QueueIntervene(s) \/ BeginIntervene(s) \/ ReadHolder(s) \/ AskToYield(s)
             \/ GiveUp(s) \/ LockUnavailable(s) \/ ClearRead(s) \/ ClearUnlink(s)
             \/ HandOver(s) \/ EndTransport(s) \/ StopReturnHome(s) \/ MarkOutcome(s)
             \/ ToggleMirror(s) \/ MirrorEnabled(s) \/ EndInput(s) \/ PollIdle(s)
             \/ PollMoving(s) \/ PollClear(s) \/ PolicyTick(s) \/ WorkerAttach(s)
             \/ ForgottenEnd(s)
      PROVE  Unchanging
  BY <1>1, QuietSteps
<1>2. ASSUME NEW s \in Session, \/ TryAcquire(s) \/ FailStart(s) \/ Connect(s) \/ WorkerEnd(s)
                               \/ PollDone(s) \/ CloseRelease(s)
      PROVE  Schedule!Next \/ Unchanging
  BY <1>2, Pids, TryAcquireTurns, ReleasingSteps, ConnectTurns, WorkerEndTurns
<1>3. ASSUME NEW s \in Session, EndByOperator(s) \/ Restart(s) \/ TakeoverTick(s)
      PROVE  Schedule!Next \/ Unchanging
  <2>1. s \in alive /\ UNCHANGED alive /\ pc[s] \in {"input", "tick"}
    BY <1>3 DEF EndByOperator, Restart, TakeoverTick, At
  <2>2. CASE EndTakeover(s)
    BY <2>1, <2>2, EndTakeoverTurns, Pids
  <2>3. CASE /\ UNCHANGED <<owner, mode, worker, faults>>
             /\ UNCHANGED pc \/ Goto(s, "input")
    <3>1. \A t \in Session \ {s} : Same(t)
      BY <2>1, <2>3 DEF Goto, faults, Same, IInv, TypeOK
    <3>2. Doing(s)' = Doing(s)
      BY <2>1, <2>3 DEF Goto, faults, Doing, TakingOver, Returning, IInv, TypeOK
    <3>3. QED
      BY <2>1, <2>3, <3>1, <3>2, StaysSame DEF IInv
  <2>4. QED
    BY <1>3, <2>2, <2>3 DEF EndByOperator, Restart, TakeoverTick, takeover
<1>4. ASSUME NEW s \in Session, SettleBesideWorker(s)
      PROVE  Schedule!Next \/ Unchanging
  BY <1>4, SettleTurns, Pids DEF SettleBesideWorker, At
<1>5. ASSUME NEW s \in Session, Killed(s) \/ Close(s) \/ CloseExit(s)
      PROVE  Schedule!Next \/ Unchanging
  <2>1. s \in alive
    BY <1>5 DEF Killed, Close, CloseExit, At
  <2>2. CASE Vanish(s) /\ UNCHANGED owner
    BY <2>1, <2>2, ExitTurns, Pids
  <2>3. CASE /\ pc[s] \in Loop /\ Goto(s, "closing")
             /\ UNCHANGED <<lock, takeover, faults>>
    <3>1. \A t \in Session \ {s} : Same(t)
      BY <2>3 DEF Goto, lock, takeover, faults, Same, IInv, TypeOK
    <3>2. Doing(s)' = Doing(s)
      BY <2>3 DEF Goto, lock, takeover, faults, Doing, TakingOver, Returning, Loop, IInv, TypeOK
    <3>3. QED
      BY <2>3, <3>1, <3>2, StaysSame DEF IInv, lock
  <2>4. QED
    BY <1>5, <2>2, <2>3 DEF Killed, Close, CloseExit
<1>6. ASSUME NEW v \in Vr, VrTake(v) \/ VrDrop(v) PROVE Schedule!Next
  BY <1>6, VrTurns, Pids
<1>7. CASE Expire \/ UNCHANGED vars
  <2>1. UNCHANGED <<owner, alive, pc, mode, worker, lockless>>
    BY <1>7 DEF Expire, vars, takeover, faults
  <2>2. UNCHANGED Commanding
    BY <2>1, SameDoing DEF Same, Commanding
  <2>3. QED
    BY <2>1, <2>2, OwnersAre DEF Unchanging, Free, IInv
<1>8. QED
  BY <1>1, <1>2, <1>3, <1>4, <1>5, <1>6, <1>7 DEF Next, Operator, Starting, Looping, Worker

\* trigger_replan(), finish_replan(), cancel_replan(), _poll_return_home(): each process
\* takes the arm, drives it through one takeover and one return-home and lets it go, in
\* that order, whatever is queued, refused, cancelled, killed or asked to yield.  Takeovers
\* whose lock call raised are outside the schedule, and so is what drives the arm after its
\* session has let it go (app.py:3997, 4641).
THEOREM ArmInTurns == Spec => ImplementsArmSchedule
<1>1. Init => Schedule!Init
  BY Pids DEF Init, Schedule!Init, Owners, Doing, TakingOver, Returning
<1>2. IInv /\ IInv' /\ [Next]_vars => [Schedule!Next]_<<Owners, Commanding>>
  BY StepTurns DEF IInv, Unchanging
<1>3. QED
  BY <1>1, <1>2, IInvHolds, PTL
  DEF Spec, ImplementsArmSchedule, Schedule!Spec, Commanding

Mutex == INSTANCE ArmMutex WITH owners <- Owners

\* RobotLock's acquire() and release() behave as ArmMutex; the single steps that stand for
\* them here do not ask for more.
THEOREM LockAsMutex == Spec => Mutex!Spec
<1>1. Schedule!Init => Mutex!Init
  BY DEF Schedule!Init, Mutex!Init
<1>2. [Schedule!Next]_<<Owners, Commanding>> => [Mutex!Next]_Owners
  BY Pids
  DEF Schedule!Next, Schedule!Take, Schedule!LetGo, Schedule!Begin, Schedule!GoHome,
      Schedule!Arrive, Schedule!Turn, Mutex!Next, Mutex!Take, Mutex!Drop
<1>3. QED
  BY <1>1, <1>2, ArmInTurns, PTL
  DEF ImplementsArmSchedule, Schedule!Spec, Mutex!Spec, Commanding
=============================================================================
