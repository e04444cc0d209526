------------------------------ MODULE ArmSession ------------------------------
(***************************************************************************)
(* The policy processes (intervene_base/app.py) sharing one real arm: each *)
(* runs a single-threaded main loop (operator input, _poll_return_home,    *)
(* then a takeover tick or a policy tick) beside a return-home worker      *)
(* thread, and takes turns on the arm through RobotOwnershipLock and its   *)
(* yield sidecar file.                                                     *)
(*                                                                         *)
(* acquire() and release() are single steps here: RobotLock models their   *)
(* file-system calls and shows that they behave as ArmMutex.  The backends *)
(* that skip the lock (sim_mc, FACTR) are left to FactrService.            *)
(***************************************************************************)
EXTENDS FiniteSets

CONSTANTS
    Session,    \* the policy processes
    Vr,         \* VR runtime processes: same lock file, no yield protocol
    Nobody,     \* no owner, no requester
    MayDie,     \* sessions that may exit or be killed (a bound)
    MayMirror,  \* sessions whose operator uses the M key (a bound)
    MayBreak    \* sessions whose lock call or state publication may raise (a bound)

ASSUME ArmSessionAssumption ==
    /\ Session \cap Vr = {}
    /\ Nobody \notin Session \cup Vr
    /\ MayDie \subseteq Session
    /\ MayMirror \subseteq Session
    /\ MayBreak \subseteq Session

Proc == Session \cup Vr

VARIABLES
    owner,      \* the process named by the lock file
    request,    \* the yield sidecar: who asks whom, and whether it is within its TTL
    alive,      \* the sessions that have not exited
    pc,         \* where each main loop is
    resume,     \* where the main loop goes on after a trigger_replan()
    addressee,  \* the owner pid trigger_replan() read before asking it to yield
    mode,       \* App.mode
    worker,     \* _return_home_thread: "none", "moving", "attached" (mirror reattached)
                \* or "done" (ended, not yet collected)
    finished,   \* _return_home_done: one event for all the workers of a session
    stop,       \* _return_home_cancel
    queued,     \* _pending_reintervene
    reattach,   \* should_resume_mirror of the takeover, then of its return-home
    mirror,     \* mirror_controller.enabled
    queuedOld,  \* history: the scene has changed since the takeover was queued
    lockless,   \* history: this takeover and its return-home go without the lock
    forgotten   \* a worker that runs on though no thread is known: "none", "plain", or
                \* "mirror" if it will give its adapter to the mirror

vars == <<owner, request, alive, pc, resume, addressee, mode, worker, finished, stop,
          queued, reattach, mirror, queuedOld, lockless, forgotten>>

lock == <<owner, request, alive, addressee>>
takeover == <<mode, worker, finished, stop, queued, reattach>>
faults == <<lockless, forgotten>>

NoRequest == [by |-> Nobody, to |-> Nobody, fresh |-> FALSE]

Loop == {"input", "poll", "pollClear", "tick"}
Trigger == {"acquire", "readOwner", "ask", "wait", "clearRead", "clearUnlink",
            "refused", "connect", "align"}
Closing == {"closing", "closeHome"}
Locations == Loop \cup Trigger \cup Closing \cup {"mirrorMove", "transport"}

TypeOK ==
    /\ owner \in Proc \cup {Nobody}
    /\ request \in [by : Session \cup {Nobody}, to : Proc \cup {Nobody}, fresh : BOOLEAN]
    /\ alive \subseteq Session
    /\ pc \in [Session -> Locations]
    /\ resume \in [Session -> {"input", "tick"}]
    /\ addressee \in [Session -> Proc \cup {Nobody}]
    /\ mode \in [Session -> {"replay", "replan"}]
    /\ worker \in [Session -> {"none", "moving", "attached", "done"}]
    /\ finished \in [Session -> BOOLEAN]
    /\ stop \in [Session -> BOOLEAN] /\ queued \in [Session -> BOOLEAN]
    /\ reattach \in [Session -> BOOLEAN] /\ mirror \in [Session -> BOOLEAN]
    /\ queuedOld \in [Session -> BOOLEAN] /\ lockless \in [Session -> BOOLEAN]
    /\ forgotten \in [Session -> {"none", "plain", "mirror"}]

Init ==
    /\ owner = Nobody
    /\ request = NoRequest
    /\ alive = Session
    /\ pc = [s \in Session |-> "input"]
    /\ resume = [s \in Session |-> "input"]
    /\ addressee = [s \in Session |-> Nobody]
    /\ mode = [s \in Session |-> "replay"]
    /\ worker = [s \in Session |-> "none"]
    /\ finished = [s \in Session |-> FALSE]
    /\ stop = [s \in Session |-> FALSE]
    /\ queued = [s \in Session |-> FALSE]
    /\ reattach = [s \in Session |-> FALSE]
    /\ mirror = [s \in Session |-> FALSE]
    /\ queuedOld = [s \in Session |-> FALSE]
    /\ lockless = [s \in Session |-> FALSE]
    /\ forgotten = [s \in Session |-> "none"]

-----------------------------------------------------------------------------
At(s, loc) == s \in alive /\ pc[s] = loc
Goto(s, loc) == pc' = [pc EXCEPT ![s] = loc]
Set(f, s, v) == f' = [f EXCEPT ![s] = v]

\* trigger_replan() returns to its caller.
Return(s) == Goto(s, resume[s]) /\ Set(resume, s, "input")

\* A process that exits keeps nothing but its files.
Vanish(s) ==
    /\ alive' = alive \ {s}
    /\ Goto(s, "input") /\ Set(resume, s, "input") /\ Set(addressee, s, Nobody)
    /\ Set(mode, s, "replay") /\ Set(worker, s, "none") /\ Set(finished, s, FALSE)
    /\ Set(stop, s, FALSE) /\ Set(queued, s, FALSE) /\ Set(reattach, s, FALSE)
    /\ Set(mirror, s, FALSE) /\ Set(queuedOld, s, FALSE)
    /\ Set(lockless, s, FALSE) /\ Set(forgotten, s, "none")

\* A lock file whose owner has exited is removed by the next acquire().
Free == owner = Nobody \/ owner \in Session \ alive

\* release() does nothing for a process that does not hold the lock.
ReleaseLock(s) == owner' = IF owner = s THEN Nobody ELSE owner

\* The scene is replaced: _start_new_randomized_scene, _restart_current_scene.
SceneChanges(s) == Set(queuedOld, s, queued[s])

-----------------------------------------------------------------------------
(* trigger_replan()                                                        *)

\* A return-home still running is stopped, and the takeover waits for its end.
QueueIntervene(s) ==
    /\ At(s, "input")
    /\ mode[s] = "replay" /\ worker[s] # "none"
    /\ Set(queued, s, TRUE)
    /\ Set(stop, s, TRUE)
    /\ Set(queuedOld, s, FALSE)
    /\ UNCHANGED <<lock, pc, resume, mode, worker, finished, reattach, mirror, faults>>

BeginIntervene(s) ==
    /\ At(s, "input")
    /\ mode[s] = "replay" /\ worker[s] = "none"
    /\ Goto(s, "acquire")
    /\ Set(resume, s, "input")
    /\ UNCHANGED <<lock, takeover, mirror, queuedOld, faults>>

\* acquire_with_yield(): one try before asking, then one every poll_s.
TryAcquire(s) ==
    /\ At(s, "acquire") \/ At(s, "wait")
    /\ \/ /\ Free
          /\ owner' = s
          /\ Goto(s, "clearRead")
       \/ /\ ~Free
          /\ pc[s] = "acquire"
          /\ Goto(s, "readOwner")
          /\ UNCHANGED owner
    /\ UNCHANGED <<request, alive, addressee, resume, takeover, mirror, queuedOld, faults>>

ReadHolder(s) ==
    /\ At(s, "readOwner")
    /\ Set(addressee, s, owner)
    /\ Goto(s, "ask")
    /\ UNCHANGED <<owner, request, alive, resume, takeover, mirror, queuedOld, faults>>

\* os.replace: the last requester's file is the only one.
AskToYield(s) ==
    /\ At(s, "ask")
    /\ request' = [by |-> s, to |-> addressee[s], fresh |-> TRUE]
    /\ Set(addressee, s, Nobody)
    /\ Goto(s, "wait")
    /\ UNCHANGED <<owner, alive, resume, takeover, mirror, queuedOld, faults>>

\* Mutated: a wait that ends empty-handed leaves its request behind.
GiveUpWithoutClear(s) ==
    /\ At(s, "wait")
    /\ Goto(s, "refused")
    /\ UNCHANGED <<lock, resume, takeover, mirror, queuedOld, faults>>

GiveUp(s) ==
    /\ At(s, "wait")
    /\ Goto(s, "clearRead")
    /\ UNCHANGED <<lock, resume, takeover, mirror, queuedOld, faults>>

\* Mutated: the answer of acquire_with_yield() is ignored.
AfterClearRegardless(s) == "connect"

\* _acquire_robot_ownership() goes on without the lock when its first try raised.
LockUnavailable(s) ==
    /\ s \in MayBreak
    /\ At(s, "acquire")
    /\ Set(lockless, s, TRUE)
    /\ Goto(s, "connect")
    /\ UNCHANGED <<lock, resume, takeover, mirror, queuedOld, forgotten>>

\* clear_yield_request(only_mine=True) reads the file, then unlinks the path, also when
\* there was no file to read.
AfterClear(s) == IF owner = s THEN "connect" ELSE "refused"

ClearRead(s) ==
    /\ At(s, "clearRead")
    /\ Goto(s, IF request.by \in {s, Nobody} THEN "clearUnlink" ELSE AfterClear(s))
    /\ UNCHANGED <<lock, resume, takeover, mirror, queuedOld, faults>>

ClearUnlink(s) ==
    /\ At(s, "clearUnlink")
    /\ request' = NoRequest
    /\ Goto(s, AfterClear(s))
    /\ UNCHANGED <<owner, alive, addressee, resume, takeover, mirror, queuedOld, faults>>

\* Mutated: a failed start keeps the arm.
FailStartKeepsArm(s) ==
    /\ At(s, "refused") \/ At(s, "connect") \/ At(s, "align")
    /\ Set(reattach, s, FALSE)
    /\ Set(lockless, s, FALSE)
    /\ Return(s)
    /\ UNCHANGED <<lock, mode, worker, finished, stop, queued, mirror, queuedOld, forgotten>>

\* _fail_replan_start(): robot_busy, robot_unreachable, or an alignment that raised.
FailStart(s) ==
    /\ At(s, "refused") \/ At(s, "connect") \/ At(s, "align")
    /\ ReleaseLock(s)
    /\ Set(reattach, s, FALSE)
    /\ Set(lockless, s, FALSE)
    /\ Return(s)
    /\ UNCHANGED <<request, alive, addressee, mode, worker, finished, stop, queued, mirror,
                   queuedOld, forgotten>>

\* The adapter is connected, or taken over from the mirror.
Connect(s) ==
    /\ At(s, "connect")
    /\ Set(reattach, s, mirror[s])
    /\ Set(mirror, s, FALSE)
    /\ Goto(s, "align")
    /\ UNCHANGED <<lock, resume, mode, worker, finished, stop, queued, queuedOld, faults>>

\* LiveReplanSession.start() has aligned the arm and handed it to the human.
HandOver(s) ==
    /\ At(s, "align")
    /\ Set(mode, s, "replan")
    /\ Return(s)
    /\ UNCHANGED <<lock, worker, finished, stop, queued, reattach, mirror, queuedOld, faults>>

-----------------------------------------------------------------------------
(* finish_replan() and cancel_replan(): the arm goes home on the worker      *)
(* thread, then the transport goes back to the policy.                      *)

\* _begin_return_home(): the worker moves while mode is still "replan".
StartReturnHome(s) ==
    /\ Set(worker, s, "moving")
    /\ Set(finished, s, FALSE)
    /\ Set(stop, s, FALSE)
    /\ Goto(s, "transport")
    /\ UNCHANGED <<owner, mode, reattach, faults>>

\* _settle_replan_terminal_failure() knows of no worker.
Settle(s) ==
    /\ Set(worker, s, "none")
    /\ Set(finished, s, FALSE)
    /\ Set(stop, s, FALSE)
    /\ Set(mode, s, "replay")
    /\ Set(reattach, s, FALSE)
    /\ Set(lockless, s, FALSE)
    /\ ReleaseLock(s)
    /\ Goto(s, "input")

\* _begin_return_home() raised before it started the worker.
SettleFailure(s) == Settle(s) /\ UNCHANGED forgotten

EndTakeover(s) == mode[s] = "replan" /\ (StartReturnHome(s) \/ SettleFailure(s))

\* Mutated: the arm is on its way home while the session still takes over.
EndTransportKeepsMode(s) ==
    /\ At(s, "transport")
    /\ Goto(s, "input")
    /\ UNCHANGED <<lock, resume, takeover, mirror, queuedOld, faults>>

\* _end_intervention_transport()
EndTransport(s) ==
    /\ At(s, "transport")
    /\ Set(mode, s, "replay")
    /\ Goto(s, "input")
    /\ UNCHANGED <<lock, resume, worker, finished, stop, queued, reattach, mirror, queuedOld,
                   faults>>

\* What a worker that nobody knows of will still do.
Unknown(s) ==
    CASE worker[s] = "moving" /\ reattach[s] -> "mirror"
      [] worker[s] = "moving" /\ ~reattach[s] -> "plain"
      [] worker[s] = "attached" -> "plain"
      [] OTHER -> forgotten[s]

\* The publication after the start raised: everything settles, the worker runs on.  A bound:
\* one such worker of a session at a time.
SettleBesideWorker(s) ==
    /\ s \in MayBreak
    /\ At(s, "transport")
    /\ forgotten[s] = "none"
    /\ Settle(s)
    /\ Set(forgotten, s, Unknown(s))
    /\ UNCHANGED <<request, alive, addressee, resume, queued, mirror, queuedOld>>

\* ENTER or INTERVENE while the human has the arm; CANCEL; leaving the cell.
EndByOperator(s) ==
    /\ At(s, "input")
    /\ EndTakeover(s)
    /\ UNCHANGED <<request, alive, addressee, resume, queued, mirror, queuedOld>>

\* CANCEL while the arm is going home stops it where it is.
StopReturnHome(s) ==
    /\ At(s, "input")
    /\ worker[s] # "none"
    /\ Set(stop, s, TRUE)
    /\ UNCHANGED <<lock, pc, resume, mode, worker, finished, queued, reattach, mirror,
                   queuedOld, faults>>

\* RESET: _restart_current_scene() cancels a live takeover and forgets a queued one;
\* without a live takeover _end_intervention_for_scene_change() returns early.
Restart(s) ==
    /\ At(s, "input")
    /\ \/ EndTakeover(s) /\ Set(queued, s, FALSE)
       \/ mode[s] = "replay" /\ UNCHANGED <<owner, pc, takeover, faults>>
    /\ SceneChanges(s)
    /\ UNCHANGED <<request, alive, addressee, resume, mirror>>

\* mark_task_success() / mark_task_failure() by the operator: never during a takeover.
MarkOutcome(s) ==
    /\ At(s, "input")
    /\ mode[s] = "replay"
    /\ SceneChanges(s)
    /\ UNCHANGED <<lock, pc, resume, takeover, mirror, faults>>

\* The M key: toggle_mirror() asks neither the lock nor the worker thread.
ToggleMirror(s) ==
    /\ s \in MayMirror
    /\ At(s, "input")
    /\ mode[s] = "replay"
    /\ \/ mirror[s] /\ Set(mirror, s, FALSE) /\ UNCHANGED pc
       \/ ~mirror[s] /\ Goto(s, "mirrorMove") /\ UNCHANGED mirror
    /\ UNCHANGED <<lock, resume, takeover, queuedOld, faults>>

\* MirrorController.enable() has moved the arm to the MuJoCo pose.
MirrorEnabled(s) ==
    /\ At(s, "mirrorMove")
    /\ Set(mirror, s, TRUE)
    /\ Goto(s, "input")
    /\ UNCHANGED <<lock, resume, takeover, queuedOld, faults>>

EndInput(s) ==
    /\ At(s, "input")
    /\ Goto(s, "poll")
    /\ UNCHANGED <<lock, resume, takeover, mirror, queuedOld, faults>>

-----------------------------------------------------------------------------
(* _poll_return_home()                                                     *)

\* Mutated: a return-home that was stopped is never collected.
ReturnDoneUnlessStopped(s) == finished[s] /\ ~stop[s]

ReturnDone(s) == finished[s]

\* yield_requested_of_me(): addressed to me, within its TTL, from a live requester.
YieldRequestedOf(s) == request.to = s /\ request.fresh /\ request.by \in alive

PollIdle(s) ==
    /\ At(s, "poll")
    /\ worker[s] = "none"
    /\ Goto(s, "tick")
    /\ UNCHANGED <<lock, resume, takeover, mirror, queuedOld, faults>>

\* A return-home under way stops for another session's request or at its time limit.
PollMoving(s) ==
    /\ At(s, "poll")
    /\ worker[s] # "none" /\ ~ReturnDone(s)
    /\ \/ /\ ~stop[s] /\ YieldRequestedOf(s)
          /\ Set(stop, s, TRUE)
          /\ Goto(s, "pollClear")
       \/ /\ stop[s] \/ ~YieldRequestedOf(s)
          /\ \E late \in BOOLEAN : Set(stop, s, stop[s] \/ late)
          /\ Goto(s, "tick")
    /\ UNCHANGED <<lock, resume, mode, worker, finished, queued, reattach, mirror, queuedOld,
                   faults>>

\* clear_yield_request(only_mine=False)
PollClear(s) ==
    /\ At(s, "pollClear")
    /\ request' = NoRequest
    /\ Goto(s, "tick")
    /\ UNCHANGED <<owner, alive, addressee, resume, takeover, mirror, queuedOld, faults>>

\* Mutated: the queued takeover is started but not taken off the queue.
PollDoneKeepsQueued(s) ==
    /\ At(s, "poll")
    /\ worker[s] # "none" /\ ReturnDone(s)
    /\ Set(worker, s, "none") /\ Set(finished, s, FALSE) /\ Set(stop, s, FALSE)
    /\ Set(reattach, s, FALSE)
    /\ ReleaseLock(s) /\ Set(lockless, s, FALSE)
    /\ \/ queued[s] /\ Goto(s, "acquire") /\ Set(resume, s, "tick")
       \/ ~queued[s] /\ Goto(s, "tick") /\ UNCHANGED resume
    /\ Set(forgotten, s, Unknown(s))
    /\ UNCHANGED <<request, alive, addressee, mode, queued, mirror, queuedOld>>

\* The worker is collected, the arm given back, and a queued takeover started.  A worker
\* that still moves is forgotten: the event was set by one forgotten before it.
PollDone(s) ==
    /\ At(s, "poll")
    /\ worker[s] # "none" /\ ReturnDone(s)
    /\ Set(worker, s, "none") /\ Set(finished, s, FALSE) /\ Set(stop, s, FALSE)
    /\ Set(reattach, s, FALSE)
    /\ ReleaseLock(s) /\ Set(lockless, s, FALSE)
    /\ Set(queued, s, FALSE) /\ Set(queuedOld, s, FALSE)
    /\ \/ queued[s] /\ Goto(s, "acquire") /\ Set(resume, s, "tick")
       \/ ~queued[s] /\ Goto(s, "tick") /\ UNCHANGED resume
    /\ Set(forgotten, s, Unknown(s))
    /\ UNCHANGED <<request, alive, addressee, mode, mirror>>

-----------------------------------------------------------------------------
(* The rest of the tick                                                    *)

\* LiveReplanSession.update(); a runtime error cancels the takeover.
TakeoverTick(s) ==
    /\ At(s, "tick")
    /\ mode[s] = "replan"
    /\ \/ EndTakeover(s)
       \/ /\ Goto(s, "input")
          /\ UNCHANGED <<owner, mode, worker, finished, stop, reattach, faults>>
    /\ UNCHANGED <<request, alive, addressee, resume, queued, mirror, queuedOld>>

\* _run_post_release_check(), then the policy step and _maybe_auto_finish_task():
\* either may decide the episode, which replaces the scene.
PolicyTick(s) ==
    /\ At(s, "tick")
    /\ mode[s] = "replay"
    /\ SceneChanges(s) \/ UNCHANGED queuedOld
    /\ Goto(s, "input")
    /\ UNCHANGED <<lock, resume, takeover, mirror, faults>>

-----------------------------------------------------------------------------
(* The return-home worker thread                                           *)

\* Home reached: the adapter goes back to the mirror it came from.
WorkerAttach(s) ==
    /\ s \in alive
    /\ worker[s] = "moving" /\ reattach[s]
    /\ Set(worker, s, "attached")
    /\ Set(mirror, s, TRUE)
    /\ UNCHANGED <<lock, pc, resume, mode, finished, stop, queued, reattach, queuedOld,
                   faults>>

\* Home reached without a mirror, stopped, or failed.
WorkerEnd(s) ==
    /\ s \in alive
    /\ worker[s] \in {"moving", "attached"}
    /\ Set(worker, s, "done")
    /\ Set(finished, s, TRUE)
    /\ UNCHANGED <<lock, pc, resume, mode, stop, queued, reattach, mirror, queuedOld,
                   faults>>

\* A forgotten worker sets the event of whoever comes after it; the next start clears it.
ForgottenEnd(s) ==
    /\ s \in alive
    /\ forgotten[s] # "none"
    /\ \E home \in BOOLEAN : Set(mirror, s, mirror[s] \/ (home /\ forgotten[s] = "mirror"))
    /\ Set(forgotten, s, "none")
    /\ Set(finished, s, worker[s] # "none")
    /\ UNCHANGED <<lock, pc, resume, mode, worker, stop, queued, reattach, queuedOld,
                   lockless>>

-----------------------------------------------------------------------------
(* Around the sessions                                                     *)

\* A kill: the threads die, the files stay.
Killed(s) ==
    /\ s \in alive \cap MayDie
    /\ Vanish(s)
    /\ UNCHANGED <<owner, request>>

\* The window is closed, or the main loop raised.  Of a live takeover close() drives the arm
\* home first; a return-home under way dies with the process, lock file and all.
Close(s) ==
    /\ s \in alive \cap MayDie
    /\ pc[s] \in Loop
    /\ \/ /\ mode[s] = "replan"
          /\ Goto(s, "closing")
          /\ UNCHANGED <<lock, resume, takeover, mirror, queuedOld, faults>>
       \/ /\ mode[s] = "replay"
          /\ Vanish(s)
          /\ UNCHANGED <<owner, request>>

\* Home, or not: the arm is given back.
CloseRelease(s) ==
    /\ At(s, "closing")
    /\ ReleaseLock(s)
    /\ Set(lockless, s, FALSE)
    /\ Set(mode, s, "replay")
    /\ Goto(s, "closeHome")
    /\ UNCHANGED <<request, alive, addressee, resume, worker, finished, stop, queued, reattach,
                   mirror, queuedOld, forgotten>>

\* After files and logs close() closes the session's adapter, which drives the arm to the
\* controller's default home, and the process exits.
CloseExit(s) ==
    /\ At(s, "closeHome")
    /\ Vanish(s)
    /\ UNCHANGED <<owner, request>>

\* The TTL (10 s) outlasts the wait of a live requester (2.5 s).
Expire ==
    /\ request.fresh
    /\ request.by \notin alive
    /\ request' = [request EXCEPT !.fresh = FALSE]
    /\ UNCHANGED <<owner, alive, addressee, pc, resume, takeover, mirror, queuedOld, faults>>

VrTake(v) ==
    /\ Free
    /\ owner' = v
    /\ UNCHANGED <<request, alive, addressee, pc, resume, takeover, mirror, queuedOld, faults>>

VrDrop(v) ==
    /\ owner = v
    /\ owner' = Nobody
    /\ UNCHANGED <<request, alive, addressee, pc, resume, takeover, mirror, queuedOld, faults>>

-----------------------------------------------------------------------------
Operator(s) == QueueIntervene(s) \/ BeginIntervene(s) \/ EndByOperator(s)
               \/ StopReturnHome(s) \/ Restart(s) \/ MarkOutcome(s) \/ ToggleMirror(s)
Starting(s) == TryAcquire(s) \/ LockUnavailable(s) \/ ReadHolder(s) \/ AskToYield(s)
               \/ GiveUp(s) \/ ClearRead(s) \/ ClearUnlink(s) \/ FailStart(s) \/ Connect(s)
               \/ HandOver(s) \/ MirrorEnabled(s)
Looping(s) == EndInput(s) \/ PollIdle(s) \/ PollMoving(s) \/ PollClear(s)
              \/ PollDone(s) \/ TakeoverTick(s) \/ PolicyTick(s) \/ EndTransport(s)
              \/ SettleBesideWorker(s) \/ CloseRelease(s) \/ CloseExit(s)
Worker(s) == WorkerAttach(s) \/ WorkerEnd(s)

Next ==
    \/ \E s \in Session : Operator(s) \/ Starting(s) \/ Looping(s) \/ Worker(s)
                        \/ ForgottenEnd(s) \/ Killed(s) \/ Close(s)
    \/ \E v \in Vr : VrTake(v) \/ VrDrop(v)
    \/ Expire

Spec == Init /\ [][Next]_vars

\* The main loop and the worker thread keep running, and glfw.poll_events() and the
\* command drain come to an end whatever the operator presses.  Operators, the VR
\* runtime and crashes owe nothing.
FairSpec ==
    /\ Spec
    /\ \A s \in Session :
          /\ WF_vars(Starting(s) \/ Looping(s))
          /\ SF_vars(EndInput(s))
          /\ WF_vars(Worker(s))

-----------------------------------------------------------------------------
(* Properties                                                              *)

\* What commands the arm for a takeover: the main loop, from the alignment to the hand-back
\* or through close()'s first homing, and the worker.  In "transport" the main loop only
\* cleans up.
TakingOver(s) ==
    s \in alive /\ (pc[s] = "align" \/ (mode[s] = "replan" /\ pc[s] # "transport"))
Returning(s) == s \in alive /\ worker[s] \in {"moving", "attached"}

\* _acquire_robot_ownership(), app.py 3279-3283: "a multi-window run cannot have two
\* processes driving one arm" but by its own way out, a lock call that raised.  Takeovers
\* and return-homes run under the lock, across yields, queued takeovers, failures, kills
\* and exits, and beside sessions whose lock call raised.  Not claimed of what drives the
\* arm when its session has given the lock back: a worker forgotten after a failed
\* publication (3997), the adapter that close() closes last (4641), and the mirror.
TakeoverOwnsArm ==
    \A s \in Session : TakingOver(s) \/ Returning(s) => owner = s \/ lockless[s]

\* The sessions together drive the arm in turns: a takeover begins with the arm owned and
\* at rest, hands over to the worker before the main loop acts again, and ends before the
\* arm is anybody else's, through queued takeovers, failures, yields and exits
\* (trigger_replan(), _begin_return_home(), _poll_return_home()).  Of takeovers with the
\* lock: one whose lock call raised is not in turn with anybody.
Owners == {p \in Proc : owner = p /\ p \notin Session \ alive}
Doing(s) == {m \in {"takeover", "home"} :
                /\ ~lockless[s]
                /\ \/ m = "takeover" /\ TakingOver(s)
                   \/ m = "home" /\ Returning(s)}
Schedule == INSTANCE ArmSchedule
                WITH owners <- Owners, doing <- [s \in Session |-> Doing(s)]
ImplementsArmSchedule == Schedule!Spec

\* Every way out of a takeover, of a failed start and of a return-home gives the arm
\* back: a live session that owns it is starting, in or ending a takeover.
NoArmLeak ==
    \A s \in alive : owner = s =>
        \/ mode[s] = "replan" \/ worker[s] # "none"
        \/ pc[s] \in {"clearRead", "clearUnlink", "connect", "align"}

\* acquire_with_yield(), lines 270-271: a request never outlives the wait of the
\* session that made it, whatever others write to and unlink from the sidecar.
NoAbandonedRequest ==
    \A s \in alive :
        request.by = s => pc[s] \in {"wait", "clearRead", "clearUnlink"}

\* trigger_replan() queues only behind a return-home, so nothing can start a takeover
\* that no operator is waiting for.
QueuedBehindReturn == \A s \in alive : queued[s] => worker[s] # "none"

\* _end_intervention_for_scene_change(), line 3388: "A re-intervention queued against
\* the OLD episode must not fire on a new scene."
QueuedForThisScene == \A s \in alive : queued[s] => ~queuedOld[s]

\* A return-home always ends in giving the arm back, stopped or not, and however many
\* requests and commands arrive meanwhile.
ReturnHomeReleases ==
    \A s \in Session : worker[s] # "none" ~> (owner # s \/ s \notin alive)

\* A queued takeover is attempted (or forgotten by a RESET).
QueuedIsAttempted ==
    \A s \in Session : queued[s] ~> (pc[s] = "acquire" \/ s \notin alive)
=============================================================================
