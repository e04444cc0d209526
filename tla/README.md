# Formal models of Supervise-Intervene-Improve

TLA+ modules for the parts of the intervention system whose correctness depends on the order
in which processes, threads, files, requests and operators act. TLC checks small instances;
TLAPS proves the theorems in the `*Proofs` modules for every value of the constants.

File names below are relative to the repository root; `app.py` is `intervene_base/app.py`,
`runtime_impl.py` is `SimPublisher/sii/integration_v1/runtime_impl.py`.

## 1. Inventory

Several *policy processes* (`app.py`, one per window) play a policy on MuJoCo scenes.
An operator can take over in any window: the real arm is aligned to the paused simulation and
the human drives it, through Polymetis, a FACTR leader arm or a simulated backend. There is one
physical arm and one leader arm. The processes share no memory; they meet on files in a
temporary directory, on ZMQ/UDP sockets, and at the robot servers. Each has a VR runtime that
mirrors it to a headset; a grid viewer shows them all.

| Component | State | Operations | Hard behaviour | Correct when | Module |
|---|---|---|---|---|---|
| Ownership lock (`robot/robot_ownership_lock.py`, copied in `runtime_impl.py`) | lock file with the owner's pid, yield sidecar | `acquire`, `release`, `acquire_with_yield` and the sidecar calls | crash between calls, zombies, stale files, lost sidecar updates | one owner; a crash does not lock the arm; a request does not outlive its requester's wait | `RobotLock`, `ArmSession` |
| Arm session (`app.py`, `robot/mirror_controller.py`) | `mode`, return-home thread, `_pending_reintervene`, mirror | `trigger_replan`, `finish_replan`, `cancel_replan`, `_poll_return_home`, `_return_home_worker`, mirror key, `close` | thread next to the main loop, queued takeover, yield, failures in mid-start | the arm is driven under the lock by one thread; every way out gives it back | `ArmSession` |
| Episodes (`app.py`, `data_io/study_logger.py`) | label, scene, model, attempt, recorder, log row, intervention ids | new scene, restart, model swap, verdicts, takeover bookkeeping, post-release check | fallbacks part-way, an episode that ends in a takeover, cancelled takeovers | scene and model agree; files hold what the log says; retries end | `EpisodeSession` |
| OOD ledger (`robot/ood_state_ledger.py`) | JSON ledger, lock file, `current_scene_ood` | `register_initial`, `decide_for_new_episode` | lock budget, dead owners, failed reads and writes, start-up order | the number of OOD sessions stays in the band; labels and file agree | `OodBand` |
| FACTR service (`robot/factr_rpc.py`, `robot/factr_control_adapter.py`) | state, owner, anchors, return thread, cancel event | claim, align, begin_takeover, follow, release, close | timed-out and killed clients, a return thread against a new claim | one client owns the leader and it knows; one mover on the arm | `FactrService` |
| Point-cloud workers (`runtime_impl.py`) | pending jobs, semaphore, built clouds, model | submit, drain, drop, swap the model, stop | token and lock apart, builds that outlive a swap | no camera stranded; no cloud of an old model | `PcWorker` |
| Model cache (`model_variants/cache.py` and its three users) | models, pins, failures, jobs, builds in flight | `get`, `get_or_build`, `prefetch`, `retain`, `release`, eviction | two builders, eviction under a user's hand, failed builds | pinned models stay, pins follow use, one builder, few retries | `VariantCache` |
| Live replan session (`robot/live_replan_session.py`, adapters, `sim_mc_driver.py`) | alignment, gripper, targets | start, update, stop | errors during alignment | starts aligned, stops once | outcomes only |
| Policy commands and state (`app.py`, `zmq_server.py`) | sockets, pending commands | drain, publish | lost, repeated, late commands | commands act once | operator choices |
| VR runtime, rest (`SimPublisher/sii/integration_v1`) | sensors, mirror, robot thread | activate, publish, control | many threads | one active session | lock and workers only |
| Launchers, playback and scorers, viewers, questionnaire, SimPublisher core, GPU streaming, Unity app, recording, drivers, offline tools | see `PROJECT.json` | | mostly I/O, rendering, numerics | | none |

The hazards of this code, each at its line with the properties that watch it, are in
`PROJECT.json` under `hazards`.

## 2. Modules

Each `X` has an `MCX`, which its configurations run, and an `XProofs`.

| Module | What it is |
|---|---|
| `ArmMutex` | the abstract promise of a lock: one owner at a time |
| `ArmSchedule` | the abstract promise of the sessions: each takes the arm, drives it through one takeover and one return-home, and lets it go at rest |
| `OodQuota` | the abstract promise of the ledger: sessions decide one at a time on what all others show |
| `FrameFlow` | the abstract promise of the point-cloud pipeline: the latest frame of a camera waits, is built once and shown once |
| `RobotLock` | `acquire()` and `release()`, one action per file-system call, kills between any two; implements `ArmMutex` up to the first stray unlink |
| `ArmSession` | the sessions on top of the lock: takeover, return-home worker, yield sidecar, mirror; implements `ArmSchedule` |
| `EpisodeSession` | the episodes of one session: scene, label, model, retries, recorder, study log, post-release check |
| `OodBand` | the OOD ledger and its lock file, one action per file-system call; implements `OodQuota` while no two sessions share its critical section and no read fails |
| `FactrService` | the leader-arm service, its clients and return threads; implements `ArmMutex` |
| `PcWorker` | the point-cloud queue, its semaphore and its worker threads; implements `FrameFlow` |
| `VariantCache` | the cache of compiled models, its worker, and its three users |

How they fit: `ArmSession` uses the lock as `ArmMutex` (its `TryAcquire` and `ReleaseLock` are
atomic; theorem `LockAsMutex`), which `RobotLock` implements as far as it goes (6.1).
`EpisodeSession` lets a takeover find the arm busy, which is `ArmSession`'s affair, and the ledger
answer as it likes, which is `OodBand`'s. It lets a model be built or not; `VariantCache` is that
call. `PcWorker` takes a set of unbuildable variants from the same cache.

### RobotLock

A process is one pid. `file` is the directory entry: its creator and whether the pid line has
been written. `pc` is the next file-system call, `seen` the pid that was read, `fd` whether the
object holds the lock (`held`). `CreateFile` is `os.open(O_CREAT|O_EXCL)`; `ReadOwner`,
`JudgeOwner`, `UnlinkStale` are the reclaim; `WritePayload` may fail, as the code ignores an
`OSError` there; `CloseFd`, `ReadBeforeRelease`, `UnlinkOwn` are `release()`. Either unlink may
fail (`UnlinkFails`): `acquire()` then refuses, and `release()` leaves its file behind, which
`failed` (a history variable) remembers. `Killed` leaves a
zombie that `Reaped` removes: policy processes recognise a zombie (`_pid_is_zombie`), the VR
runtime's copy of the class does not. Descriptors close with the process; files stay.
`strayUnlink` is a history variable: some unlink hit a file other than the one its caller had
judged (the path is unlinked, not the inode). `ImplementsArmMutex` maps `owners` to the processes
that hold a descriptor.

### ArmSession

The main loop of a session is input → `_poll_return_home` → tick; `pc` says where it is, and
`resume` where it goes on after a `trigger_replan()`, which runs inside either the input
handlers or the poll. One action per handler: `QueueIntervene`/`BeginIntervene` are the two
halves of `trigger_replan`, `TryAcquire` … `ClearUnlink` are `acquire_with_yield` with every
access to the sidecar a step of its own, `FailStart`, `Connect`, `HandOver` the rest of the
start. `LockUnavailable` is a lock call that raised, after which the takeover goes on without the
lock (`lockless`). `EndTakeover` is the common part of finish and cancel: it starts the worker
while `mode` is still `replan` (`StartReturnHome`) and ends the transport in a later step
(`EndTransport`), or starting the worker raises and everything settles (`SettleFailure`). The
worker's motion is a choice: home reached (with `WorkerAttach` when the mirror gets its adapter
back), stopped, or failed. `PollMoving` honours a yield request or the time limit; `PollDone`
collects the worker, releases the lock and starts a queued takeover. If the publication after the
worker's start raises, everything settles beside a worker that goes on (`SettleBesideWorker`);
it is `forgotten`, and ends by setting `finished`, the one event all workers of a process share.
`Close` drives a live takeover's arm home (`closing`), gives it back (`CloseRelease`), and ends
with the adapter's own homing, without the lock (`closeHome`, `CloseExit`). Scene changes, the M
key, kills and `Close` may come wherever the code lets them.
`ImplementsArmSchedule` maps `owners` to the process in the lock file while it lives, and
`doing[s]` to what commands the arm in `s`: the takeover session, the return-home worker; it leaves
out takeovers without the lock, and what drives the arm after its session has let go.

### EpisodeSession

`at` is the place in the main loop: `drain` (commands and keys), `poll` (the return-home
worker), `loop` (takeover tick or post-release check), `judge` (the policy tick and its task
check). A frame is the scene it shows, the `intervention_id` it is tagged with and the log row
open when it was recorded; policy frames have tag 0. `ids` are the process's three counters,
`study` is the log's episode, open row, next row and closed rows: the two number takeovers
independently, which is what `TagsTellTakeoversApart` and `FramesFollowRows` are about.
`Takeover`, `NotBegun`, `FailedStart` are the ways `trigger_replan()` can end, `Finish`, `Cancel`
those of a takeover, also as part of a reset (`ResetTakeover`), a verdict or `Close`.
`_intervention_reached_human_control` is read as "a takeover is live". `NewScene` is the
ledger's answer, the randomizer's draw (`Draw`, which may fall back), the swap (`Swap`, which may
be refused or fail part-way) and the restart of recording, in the code's order. `filed` is a
history of the last episode closed, `tries` counts the runs of a scene, `unjudged` says how the
releases since the last check ended: handed back with a check armed, or settled without one.

### OodBand

`lock` and `entries` are the two files. A session registers (`boundary = "register"`), decides
for its first episode (`"first"`, `App.init`) and for each further one (`"next"`); all three go
through `Create` … `Unlock`. `TimeOut` is the lock budget running out, after which the session
goes on without the lock, as the code does. `Read` drops entries of dead sessions and, as a
fault, expired ones; `ReadFails` is an unreadable ledger (taken for an empty one) or one of the
wrong shape (reported as ID); `Publish`/`PublishFails` are the whole-file replacement. `Die` may
happen anywhere. A session's index and its pid are one value, as each process starts once.
`ImplementsOodQuota` maps what the abstract sessions show to the file and their labels to
`current_scene_ood`: the read, the decision and the write of a boundary are one abstract step,
taken at the write. It is claimed of every step until two sessions meet in the critical section,
a read fails or an entry expires (`Undisturbed`).

### FactrService

`state`, `owner` and `anchored` are the service's fields; `inbox` the requests whose handler
threads wait for the service lock, in any order; `busy` the request that holds it while the arm
aligns or a return is interrupted; `ret[t]`, `event[t]` a return thread and the cancel event it
took, `published` the event the adapter would set, `cancelled` the events that are set. The
motion lock is the fact that a thread is `moving`. A request that its client gave up on
(`GiveUp`) or whose client died stays in `inbox` and is handled. `Handle…` is the part of a
request before the arm moves, `Finish…` the part after. `HandleFollow` may fail and so give the
arm back. `overlap` is a history: a release started a return thread while an earlier one lived.

### PcWorker

`queue` is `_pending` in the order of the dict, `tokens` the semaphore. The main loop's `at`
separates what is under the lock from the semaphore operation that follows (`owe`, `take`,
`empty`). `Drop` is `drop_point_cloud_backlog()` with its reason; a new model goes through it
(`NewModel`, `TakeBack`, `Cleared`), a variant that cannot be built only moves the key (`Adopt`).
`Publish(open)` drains, holds back what the activation gate or the rate cap holds back, and
publishes the rest. A build ends in a cloud or in nothing. A frame's `seq` is one more than the
latest of its camera's frames in work or built: it tells which of two live frames is later, and
leaves the cameras free to submit for ever. `ImplementsFrameFlow` maps `waiting`
to the frames in `queue`, `building` to those in the workers' hands and `built` to `completed`;
keys, models and tokens have no counterpart.

### VariantCache

One process with its cache, `kind` saying which: a policy session (capacity 2, builds in its
main thread when it must), a VR runtime (capacity 3) or the grid (capacity from the command
line), which never build themselves. `at[t]` is where thread `t` is, `key[t]` the key its call is
about; each section under `_lock`, `_pending_lock` or `_built` and each semaphore operation is
a step. `Ask`, `Look`, `NoReason`/`Reason` are the lookup each user does; `Join` … `Leave` are
`get_or_build()` and `_build_now()`, the latter also the worker's; `Adopt`, `Retain`, `Release`
are the swap, with the new key in place before the pin is taken, as in all three users; `Hint`,
`Check`, `Put`, `Pay` are `prefetch()`; `Wake`, `Pop`, `Recheck` the worker. `used` are the variants
the user goes on to release: `model_variant_key`, `active_variant_key` or the keys of `slots`.
The base model is always there and is not counted in the sets. Which candidate is evicted
and which job is popped is left open (the code takes the oldest and the newest). `slipped` and
`leaks` are histories of the cases of 6.12 and 6.13.

## 3. Runs

All runs finish within three minutes with two workers.

| Run | Instance | Question and answer |
|---|---|---|
| `RobotLock_owner` | 2 policy processes, one mortal, 1 VR runtime, 2 requests each, unlinks that may fail, fair; 83 thousand states | A living process that let go leaves no file but one it could not unlink; one request reclaims the lock of a dead, even unreaped, owner, or is refused because the unlink failed; up to the first stray unlink the lock is `ArmMutex`, so that two owners take a stray unlink. Holds. |
| `RobotLock_mutex` | the same, 1 request each | `MutualExclusion` is **violated**: 6.1. |
| `ArmSession_takeovers` | 2 mortal sessions, one with a mirror, one whose lock call or publication may raise, 1 VR runtime, fair; 72 thousand | The sessions implement `ArmSchedule`: takeovers that got the lock, and their return-homes, run under it, in this order and never both; no exit path keeps the arm; no yield request is abandoned; a takeover is queued only behind a return-home and is attempted or forgotten; every return-home gives the arm back. Holds. |
| `ArmSession_queued` | 2 sessions | `QueuedForThisScene` is **violated**: 6.3. |
| `OodBand_ledger` | 2 mortal sessions, band 1..1, all faults, fair; 116 thousand | Ceiling, floor, exclusive section; the ledger implements `OodQuota`; every boundary comes to an end. Holds. |
| `FactrService_claims` | 2 clients, one that times out and may be killed, 2 return threads; 437 thousand | A patient client owns the arm it believes it owns; the arm is orphaned only by a timeout or a kill; one mover until two returns overlap; the service is `ArmMutex`; every return ends. Holds. |
| `FactrService_interrupt` | 2 patient clients | `NoMoveUnderClaim` is **violated**: 6.7. |
| `EpisodeSession_files` | 3 episodes, 2 takeovers each, 2 variants, 2 attempts, fair; 181 thousand | An OOD scene runs on its model; a file holds one scene, and the human frames its log rows call completed; ids tell takeovers apart; the log follows the takeover; retries end; after a release that hands back the policy waits for the check, and the check comes. Holds. |
| `EpisodeSession_label` | the same | `LabelIsTrue` is **violated**: 6.8. |
| `PcWorker_jobs` | 2 workers, 2 cameras, 3 models (one unbuildable), any number of frames, fair; 198 thousand | Every pending job has a token; surplus tokens stay within the workers; no cloud of an old model; the pipeline implements `FrameFlow`; every job is taken or dropped, however long the other camera goes on submitting. Holds. |
| `PcWorker_order` | the same | `LatestPerCamera` is **violated**: 6.10. |
| `VariantCache_models` | each of the three users, 3 variants (one may fail), grid capacity 2, fair; 549 thousand | A pinned model stays; pins follow use; one builder for a variant; at most two failed builds; a token for each job; who waits for a build has a builder at work; a call of the cache returns. Holds. |

**Bounds.** The sizes of the sets; `Rounds` (requests of a process); `MayDie`, `MayMirror`,
`MayBreak`, `Faults`, `Impatient` (who crashes, who uses the M key, whose calls raise, what fails,
who times out; the mirror and the failing calls are given to different sessions, the proofs cover
both in one); one forgotten worker of a session at a time; `Slots` (return threads alive at a time;
the interrupt waits half a second, so two is what can happen); `MaxEpisodes`, `MaxTakeovers`,
`MaxSeq` (frames of a camera told apart at a time: two of one camera, one of the other; a camera at
its bound waits until its clouds are drained); `MaxPins` (a pin that was lost is not taken again).
Two requesters and an owner that died are what the reclaim needs; two takeovers are what a reused id
needs, three episodes a failed one between two others; two workers and two cameras are what a lost
token or an overtaken build needs; three variants are the one in use, the one swapped to and one the
worker builds. No run uses a state constraint or symmetry.

**Deadlock** is not checked: every process may have exited or used up its rounds, the service or
the runtime may have stopped, the window may be closed, and (a bound) a grid that lost every
pin asks for nothing.

**Fairness.** `RobotLock`: a live process finishes a call it has started; nothing obliges it to
ask, release, die or be reaped. `ArmSession`: main loop and worker run on; leaving the input
phase is strongly fair, since `glfw.poll_events()` and the command drain return whatever the
operator presses. A worker ends because its motion is bounded by its own time limit and checks
the cancel event. `OodBand`: a call runs on and its budget passes (strong fairness on `TimeOut`,
enabled at every retry). `FactrService`: the arm's own moves end (weak, `FinishInterrupt`,
`FinishAlign`), and a return thread that waits for a lock that comes free again and again gets it
(strong); the operator need not touch the arm and no client need ask. `EpisodeSession`: the main
loop ticks. `PcWorker`: each worker is scheduled and a build ends; the main loop returns from
`submit` and from a drop. `VariantCache`: both threads are scheduled and a build ends.

**Mutants.** Next to the definition it changes, an operator whose comment starts with "Mutated:"
is a plausible mistake in that piece of code; each property is violated by at least one of them, as
listed in `PROJECT.json`.

## 4. Proofs

Assumptions are the named `ASSUME`s of the modules: sets of pids or clients are disjoint from
the "nobody" values, sets of variants and sessions are finite, the band is `1 <= Min <= Max`, the
launcher assigns no more sessions than `Min`, bounds are positive. What follows holds for any
number of processes, variants, workers, cameras, episodes and rounds. Every invariant, every
action property and every refinement of a passing run is a theorem.
Some theorems are about properties no run checks any more, because a checked refinement implies
them or the proof says all there is to say: the type invariant `TypeOK` of each module
(`TypeCorrect`), `ExclusiveUnlessStray`, `TakeoverOwnsArm`, `OodIsPublished`.

- **`RobotLockProofs`.** `ExclusiveOwnership`, `NothingLeaked`, `LockImplementsArm`. The invariant:
  a process about to unlink judged a dead pid; a live creator of the file has not let go of it, or
  could not unlink it; and, as long as no unlink strayed, whoever is past its create is the file's
  creator. A file has one creator, so there is one owner. The refinement stops at the first stray
  unlink. `StrayTakesThree` says what such an unlink needs: an unlinker, a dead process it judged,
  and a third whose file it hits. Hence `ExclusiveAmongTheLiving` (one owner while no process has
  died) and `ExclusiveForTwo` (one owner, always, where two processes share the arm):
  `MutualExclusion`, which `RobotLock_mutex` refutes, fails only with three processes and a death.
- **`ArmSessionProofs`.** `ArmInTurns` (the refinement of `ArmSchedule`), `LockAsMutex`,
  `ArmUnderLock`, `ArmGivenBack`, `RequestsWaitedFor`, `QueueHasReturn`. The invariant adds `Phases`
  (starting, taking over and returning home exclude each other in a session, but for the moment in
  which the worker has started and the transport is not ended), `UsersOwn` (from a successful
  `acquire_with_yield()` to the collection of the return-home the lock names the session, or the
  session goes `lockless`) and `LocklessDoNot` (a session without the lock does not hold it). A
  forgotten worker and `closeHome` are outside: nothing is claimed of them (6.16-6.17).
  `TakeoverOwnsArm` is not inductive by itself: it says nothing of a session whose worker is done
  and whose lock the next poll releases; `Phases` is why that release finds no takeover.
  `ArmInTurns` goes action by action: a takeover begins from rest (`Phases`) and under the lock
  (`UsersOwn`), a start that fails leaves `doing` alone, the start of the worker is `GoHome`, and a
  settlement, with a worker or without, is `LetGo`, since the same step releases; what a lockless
  session does leaves the schedule as it is.
- **`OodBandProofs`.** `DecisionsAreAtomic` (the refinement of `OodQuota`), `Ceiling`,
  `PublishedOod`, `SectionIsExclusive`, `Floor`. While nobody shared the section, what a session
  read is still what the file shows of the others when it publishes; a label that says OOD is in the
  file; so those who decided for OOD, counted over the file, are at most `Max`, and the file never
  shows fewer than `Min` once it has shown as many. `DecisionsAreAtomic` is the first of these at
  work: the view a session decided on shows of the others what the file shows when it writes, up to
  sessions that have exited (`DecideAtOnce`). On the way, `ClampUnreachable`: the clamp after the
  decision never changes it (6.5).
- **`FactrServiceProofs`.** `ServiceImplementsArm`, `BeliefHolds`, `TakeoverOwned`,
  `OnlyLateOrphans`, `OneMover`, `ReturnNotStranded`, `LateMovesAreCancelled`. The invariant matches
  requests and clients: a live request in the inbox is the one its client waits for
  (`RequestsMatched`), so is the one that holds the lock (`BusyMatched`, `BusyState`), and a client
  that still claims is not the owner (`NotYetOwner`). Without the match a late release could not be
  told from a timely one. `MoverInv` adds the return threads: while no two overlap, the thread that
  moves the arm or is about to listens to the published event (`Stoppable`), which is set as soon as
  a claim has ended the return. So the move that `FactrService_interrupt` finds beginning under a
  claim has already been told to stop (`LateMovesAreCancelled`).
- **`EpisodeSessionProofs`.** One theorem per safety property. The invariant ties the place in the
  loop to the takeover and the return (`LoopInv`), the scene to label, model and attempts (`RunInv`),
  the recorder's segments to the rows and ids of the episode (`RecordInv`): each human frame's
  tag and row belong to one takeover, those before `mark` to closed rows, those after it to
  the open one. `FiledInv` is what `File` makes of that. `OnlyTheDrawMislabels` is the other half of
  6.8: the OOD label is wrong only for an in-distribution draw on the base model.
- **`PcWorkerProofs`.** `NoCameraStranded`, `FewSurplusTokens`, `CloudsOfTheModel`, `FramesFlow`
  (the refinement of `FrameFlow`), `OneWorkerKeepsOrder`. The first two count: jobs against tokens,
  tokens in hand and the one still owed, with what `clear_input()` has left to take back; the third
  follows frames from the model they were taken of through queue, job and completed. For
  `FramesFlow` a frame is in one place at a time, and what a camera has waiting is later than what
  it has in work or built; with one worker, the default of `--pc_worker_threads`
  (`runtime_impl.py:2596`), `LatestPerCamera` follows: 6.10 takes the three workers that
  `run_multi_window_robot.sh:183-185` asks for with fewer than four windows.
- **`VariantCacheProofs`.** `RetainedIsKept`, `NoPinLost`, `OneBuilderEach`, `FailuresAreFinal`,
  `JobsHaveTokens`, `WaitersAreServed`, `WithinBudget`. The invariant names what is pinned in the
  middle of a swap (`PinsInv`), says that the model in the main thread's hand is cached or slipped
  (`HandCached`), that two threads past `_inflight` build different keys and that whoever waits for
  a key waits for the other thread, which is at it (`Flight`), and counts the threads that may still
  fail a key that has failed (`Chances`). `WithinBudget` (the base and at most three models) needs
  four variants to say anything; no run checks it.

Model-checked only: liveness (`StaleLockReclaimed`, `ReturnHomeReleases`, `QueuedIsAttempted`,
`BoundaryReturns`, `ReturnEnds`, `ReleaseIsJudged`, `JobIsTaken`, `CallReturns`), which depends on
fairness and `ENABLED` and is out of TLAPS's reach here. Of some the safety half is proved: a return
has a thread that ends it (`ReturnNotStranded`), a pending job has a token (`NoCameraStranded`), a
waiting thread has a builder (`WaitersAreServed`), a queued takeover a return-home
(`QueueHasReturn`).

## 5. Not modelled

Most of the repository's 79 thousand lines is rendering, inference and scoring, sensor and
point-cloud numerics, drivers, data conversion, layout and vendored code: there is no protocol in
it that a state machine could say something about. The modules cover the parts where several
threads, processes or faults meet. Within those:

- `RobotLock`: errors of `os.open` other than `EEXIST` (a refusal), the payload beyond the pid (a
  partial one reads as none), poll intervals (any number of retries).
- `ArmSession`: adapters' motions (an outcome each), pause and resume, the mirror's following. The
  `robot_adapter.close()` in a failed start, a settlement or a collection homes under the lock inside
  that step. An exception that leaves the main loop elsewhere counts as a kill or a `Close`. The
  lock call raises in its first try only; a raise later in the wait would leave its request behind.
- `EpisodeSession`: what a scene looks like and the task's criteria; rollback of the simulated
  pose on cancel; a failed save; the experiment block; the multi-session app; branches that
  `mode` rules out.
- `OodBand`: `release()` (no caller); times-to-live except as "fresh" or "expired".
- `FactrService`: `health` and `set_gripper_width`, hardware errors inside a motion, the hold
  after a move that was not cancelled, the control loop.
- `PcWorker`: the GPU build (a cloud or none), the rate cap and gate (any subset held back).
- `VariantCache`: `close()` (no caller), a session started without the worker, the VR runtime's
  last fingerprint check (the builder refuses such a model before), compilation itself.

Not modelled at all, with the reason in `PROJECT.json`: the live replan session's inside,
transports, the rest of the VR runtime, launchers, playback, viewers, questionnaire, SimPublisher
core, GPU streaming, the Unity app, recording scripts, drivers and offline tools.

## 6. Where code and comments disagree

Items marked * have a run that shows them; the others are read off the code, and are the reason
why a property of section 3 carries a condition.

1. * `acquire()` unlinks the path and not the file it judged (`robot_ownership_lock.py:143`): two
   processes that judged the same dead owner unlink in turn, the second one the new lock.
2. A kill between create and write (`:135`, `:164`) leaves a file without a pid; it is never stale
   (`:141`), although `:138-140` wants no crash to lock the arm out.
3. * `_end_intervention_for_scene_change` returns early (`app.py:3380-3381`) when no takeover is
   open, so a takeover queued behind a return-home survives a change of scene (`:3388`).
4. The M key during a return-home starts a second writer (`app.py:3219`, against `:4532-4535`).
5. Racing decisions exceed `MAX` (`ood_state_ledger.py:259`): the clamp repeats a condition
   `decide()` has already tested on the same, stale, view (theorem `ClampUnreachable`).
6. `App.init` decides for the first episode in launch order (`app.py:1955`) and undoes the
   launcher's assignment (`ood_state_ledger.py:221-223`).
7. * The return to the initial pose looks at its cancel event once (`factr_control_adapter.py:618`),
   so a claim during its setup does not cancel it (`utils/validate_factr_intervention.py:474`).
8. * The OOD label stays when the randomizer falls back to an in-distribution draw (`app.py:2215`,
   against `:605` and `:627`).
9. The process numbers takeovers by those it completed (`app.py:3656`, `:4135`), the log by those it
   opened: after a cancelled or failed one the events after a release name another intervention
   than the log's (`:4133-4134`). A reset in a takeover has the check judge the restarted scene
   (`:4515-4517`).
10. * Of two builds of one camera the one that ends last wins (`runtime_impl.py:4052`), also when
    its frame is older (`:3940`, `:3970`).
11. A policy session compiles two candidates ahead (`app.py:2105-2151`) into a cache with room for
    one next to the model in use (`:2006`): the second build evicts the first, and the boundary is
    not "free" (`:2106`).
12. A model that was looked up can be evicted before it is retained (`cache.py:107`, `app.py:2098`,
    `runtime_impl.py:4860`): it is then rendered and pinned without being in the cache, and its
    next use compiles it again. A grid slot in that gap is freed by the worker
    (`policy_grid_viewer.py:650-660`, `:704-705`).
13. A VR runtime that takes over the key of a variant that failed (`runtime_impl.py:4782`) later
    releases that key (`:4862`) and not the model it went on rendering, which stays pinned for good,
    against "release the old one" (`:4858`). The cache is then bounded by the number of variants
    only.
14. `get_or_build()` looks for the model before it looks at the builds in flight (`cache.py:154`,
    `:162`) and not again if there is none: a variant the worker has just finished is compiled a
    second time (`:60-61`).
15. When a lock call raises, `_acquire_robot_ownership()` "proceeds without it"
    (`app.py:3294-3296`), although "a multi-window run cannot have two processes driving one arm"
    (`:3279-3281`): such a takeover drives beside whoever has the lock.
16. `close()` gives the arm back (`app.py:4615`) and then closes its adapter (`:4641`), which by
    `:4069-4071` drives the arm to its default home: another session may have taken it by then.
17. If the publication after the worker's start raises (`app.py:3996-3997`), the session settles and
    gives the arm back (`:3432-3442`) while the worker drives it home. Its end sets the event of the
    next return-home (`:3961-3962`, `:4002`), which is then collected while it moves
    (`:4043-4052`).
18. When the unlink of a release fails (`robot_ownership_lock.py:291-292`), the file goes on naming a
    live pid, and nobody can acquire until that process exits, the process itself included. A failed
    unlink of a stale file is a refusal (`:147-148`).
19. A release that settles (`app.py:3432-3459`) resumes the policy (`:3446-3448`) without arming the
    post-release check, so its outcome is never judged, against `:4515-4517`;
    `_intervention_reached_human_control` stays true.
20. The ledger's lock is unlinked by path as well (`ood_state_ledger.py:183-185`): two sessions that
    read the same dead holder can both enter the critical section. `SoleWriter` is claimed while
    no session has exited.
21. Two releases whose return threads overlap share one cancel event
    (`factr_control_adapter.py:600-603`), and the first to honour it takes it away (`:622`): the
    other may then begin with a new one that no claim has set, against `factr_rpc.py:432-437`.
    `OneMoverUnlessOverlap` is claimed up to the overlap.

## 7. Plan

Done: the seven components above with their proofs. What would come next, in this order:

1. Theorems on when the remaining violated claim, `QueuedForThisScene`, holds, and on `RetryBudget`
   across restarts; an abstract episode (scene, label, verdict) that `EpisodeSession` implements,
   and an abstract cache that `VariantCache` implements.
2. `VrRuntime`: sensor activation and the robot thread against the session's lock.
3. `LiveReplan`: alignment, gripper handover and stop of one takeover.
4. `PolicyCommands`: the receiver's queue with the scene each command was meant for.
