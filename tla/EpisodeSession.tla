--------------------------- MODULE EpisodeSession ---------------------------
(***************************************************************************)
(* The episodes of one policy process: the scene and the compiled model    *)
(* each one runs on, the takeovers in it, the frames it records and the    *)
(* row it leaves in the study log (intervene_base/app.py, with             *)
(* data_io/study_logger.py).                                               *)
(*                                                                         *)
(* The main loop is one thread: it drains the commands and keys, polls the *)
(* return-home worker, then ticks the takeover or the policy.  The worker  *)
(* is the only other thread that matters here.  Who holds the arm is       *)
(* ArmSession, how the sessions agree on the OOD label is OodBand: here a  *)
(* takeover may find the arm busy and the ledger answers as it likes.      *)
(***************************************************************************)
EXTENDS Naturals

CONSTANTS
    Variant,        \* the models the corpus scenes of this task ask for
    Base,           \* BASE_VARIANT_KEY
    MaxAttempts,    \* ood_max_scene_attempts
    MaxEpisodes,    \* episodes in a session (a bound)
    MaxTakeovers    \* takeovers in an episode (a bound)

ASSUME EpisodeSessionAssumption ==
    /\ Base \notin Variant
    /\ MaxAttempts \in Nat \ {0}
    /\ MaxEpisodes \in Nat \ {0}
    /\ MaxTakeovers \in Nat \ {0}

VARIABLES
    at,         \* where the main loop is
    mode,       \* "replay", or "replan" while a takeover is live
    homing,     \* _return_home_thread is not None
    queued,     \* _pending_reintervene
    pending,    \* _post_release_check_pending
    ids,        \* next_, active_ and last_finished_intervention_id
    number,     \* episode_number
    scene,      \* scene_id, and what was drawn for it
    label,      \* current_scene_ood
    model,      \* model_variant_key
    attempt,    \* scene_attempt
    frames,     \* the recorder: which segments it holds frames of
    mark,       \* replan_recorder_start_len: what it held when the takeover began
    study,      \* StudySession: the open episode, the open intervention, the rows
    keep,       \* STUDY_KEEP_FAILURES, fixed for the session
    filed,      \* history: the episode the last step closed, if it did
    tries,      \* history: how often the scene has been run
    unjudged    \* history: how the releases since the last check ended: "handed" over to
                \* the policy with a check armed, or "settled" without one

takeover == <<mode, homing, queued, pending, ids>>
stage == <<number, scene, label, model, attempt, tries>>
record == <<frames, mark, study>>
vars == <<at, mode, homing, queued, pending, ids, number, scene, label, model,
          attempt, frames, mark, study, keep, filed, tries, unjudged>>

Model == Variant \cup {Base}
SceneId == Nat
Scene == [id : SceneId, drawn : {"id", "ood"}, variant : Model]
RowId == 1 .. MaxTakeovers
Frame == [scene : SceneId, tag : 0 .. MaxTakeovers, row : 0 .. MaxTakeovers]
Row == [id : RowId, outcome : {"completed", "cancelled", "aborted"}, seen : BOOLEAN]
Episodes == 1 .. MaxEpisodes

NoRow == 0
NoEpisode == 0
NoFile == [outcome |-> "none", scene |-> 1, saved |-> FALSE, frames |-> {}, rows |-> {}]

ByPolicy == [scene |-> scene.id, tag |-> 0, row |-> NoRow]
ByHuman == [scene |-> scene.id, tag |-> ids.active, row |-> study.row]

TypeOK ==
    /\ at \in {"boot", "drain", "poll", "loop", "judge", "off"}
    /\ mode \in {"replay", "replan"}
    /\ homing \in BOOLEAN /\ queued \in BOOLEAN /\ pending \in BOOLEAN
    /\ ids \in [next : 1 .. MaxTakeovers + 1, active : 0 .. MaxTakeovers, last : 0 .. MaxTakeovers]
    /\ number \in Episodes
    /\ scene \in Scene
    /\ label \in BOOLEAN
    /\ model \in Model
    /\ attempt \in Nat \ {0}
    /\ frames \subseteq Frame /\ mark \subseteq Frame
    /\ study \in [episode : Episodes \cup {NoEpisode}, row : 0 .. MaxTakeovers,
                  next : 1 .. MaxTakeovers + 1, rows : SUBSET Row]
    /\ keep \in BOOLEAN
    /\ filed \in [outcome : {"none", "success", "failure", "incomplete"}, scene : SceneId,
                  saved : BOOLEAN, frames : SUBSET Frame, rows : SUBSET Row]
    /\ tries \in 1 .. MaxAttempts + 1
    /\ unjudged \subseteq {"handed", "settled"}

Init ==
    /\ at = "boot" /\ mode = "replay"
    /\ homing = FALSE /\ queued = FALSE /\ pending = FALSE
    /\ ids = [next |-> 1, active |-> 0, last |-> 0]
    /\ number = 1
    /\ scene = [id |-> 1, drawn |-> "id", variant |-> Base]
    /\ label \in BOOLEAN                \* register_initial()
    /\ model = Base /\ attempt = 1
    /\ frames = {} /\ mark = {}
    /\ study = [episode |-> NoEpisode, row |-> NoRow, next |-> 1, rows |-> {}]
    /\ keep \in BOOLEAN
    /\ filed = NoFile /\ tries = 1 /\ unjudged = {}
-----------------------------------------------------------------------------
(* The study log. *)

Seen(row) == \E f \in frames : f.row = row

CloseRow(outcome) ==
    IF study.row = NoRow THEN study
    ELSE [study EXCEPT !.row = NoRow,
            !.rows = @ \cup {[id |-> study.row, outcome |-> outcome, seen |-> Seen(study.row)]}]

OpenRow == [study EXCEPT !.row = study.next, !.next = @ + 1]

\* A row that is opened and closed by the same failed start.
FailedRow == [study EXCEPT !.next = @ + 1,
                !.rows = @ \cup {[id |-> study.next, outcome |-> "aborted", seen |-> FALSE]}]

StartEpisode(n) == [episode |-> n, row |-> NoRow, next |-> 1, rows |-> {}]

\* end_episode() closes what is still open, and _finalize_episode() saves the frames
\* and moves them to the folder of the outcome.
File(outcome, saved) ==
    filed' = [outcome |-> outcome, scene |-> scene.id, saved |-> saved,
              frames |-> IF saved THEN frames ELSE {},
              rows |-> CloseRow("aborted").rows]

NothingFiled == filed' = NoFile
-----------------------------------------------------------------------------
(* A new scene. *)

\* apply(): a corpus scene, or an in-distribution one when none was asked for or none
\* could be had: no corpus, an unreadable file, no body of this model in it, no variant.
Draw(ood) ==
    {[drawn |-> "id", variant |-> Base]} \cup
    (IF ood THEN [drawn : {"ood"}, variant : Variant] ELSE {})

\* What _swap_model() makes of the label and the model, and whether it swapped.
Unbuilt == {[ok |-> FALSE, model |-> Base, label |-> FALSE],
            [ok |-> FALSE, model |-> model, label |-> FALSE]}
Refused == [ok |-> FALSE, model |-> model, label |-> FALSE]
Swapped(wanted, ood) == [ok |-> TRUE, model |-> wanted, label |-> ood]

\* Mutated: one variant is taken for another.
SwapByKind(wanted, ood) ==
    IF wanted = model \/ Base \notin {wanted, model} THEN {Swapped(model, ood)}
    ELSE {Swapped(wanted, ood), Refused} \cup (IF wanted = Base THEN {} ELSE Unbuilt)

Swap(wanted, ood) ==
    IF wanted = model THEN {Swapped(wanted, ood)}
    ELSE {Swapped(wanted, ood), Refused} \cup (IF wanted = Base THEN {} ELSE Unbuilt)

Redraw(wanted, swap) == ~ swap.ok /\ wanted # Base

Stage(draw, swap) ==
    /\ label' = swap.label
    /\ model' = swap.model
    /\ scene' = IF Redraw(draw.variant, swap)
                THEN [id |-> scene.id + 1, drawn |-> "id", variant |-> Base]
                ELSE [id |-> scene.id + 1, drawn |-> draw.drawn, variant |-> draw.variant]
    /\ attempt' = 1
    /\ tries' = 1

NewScene ==
    \E ood \in BOOLEAN :                        \* decide_for_new_episode()
        \E draw \in Draw(ood) : \E swap \in Swap(draw.variant, ood) : Stage(draw, swap)

\* Mutated: the recorder of the last episode is kept.
RecordOnTop(n) ==
    /\ frames' = frames \cup {[scene |-> scene'.id, tag |-> 0, row |-> NoRow]}
    /\ mark' = {}
    /\ study' = StartEpisode(n)
    /\ ids' = [ids EXCEPT !.next = 1, !.active = 0]

\* _ensure_episode_recorder() and the frame that is recorded at once.
Record(n) ==
    /\ frames' = {[scene |-> scene'.id, tag |-> 0, row |-> NoRow]}
    /\ mark' = {}
    /\ study' = StartEpisode(n)
    /\ ids' = [ids EXCEPT !.next = 1, !.active = 0]

Boot ==
    /\ at = "boot"
    /\ at' = "drain"
    /\ NewScene
    /\ Record(number)
    /\ NothingFiled
    /\ UNCHANGED <<mode, homing, queued, pending, number, keep, unjudged>>

\* No candidate was a valid scene: the exception leaves the loop and close() finds the
\* episode closed and no recorder.
NoScene(n) ==
    /\ at' = "off"
    /\ number' = n
    /\ study' = [study EXCEPT !.episode = NoEpisode, !.row = NoRow, !.rows = {}]
    /\ frames' = {} /\ mark' = {}
    /\ ids' = [ids EXCEPT !.next = 1, !.active = 0]
    /\ label' \in BOOLEAN
    /\ UNCHANGED <<scene, model, attempt, tries>>

NextScene(n) ==
    \/ NewScene /\ Record(n) /\ number' = n /\ at' = "drain"
    \/ NoScene(n)

\* _restart_current_scene(), which goes on recording.
RestartScene == UNCHANGED <<scene, label, model>>
-----------------------------------------------------------------------------
(* The end of an episode.  Everything that calls it does so while no       *)
(* takeover is live.                                                       *)

Succeed ==
    /\ number < MaxEpisodes
    /\ File("success", TRUE)
    /\ NextScene(number + 1)

\* Mutated: the retry that reaches the limit is allowed.
ExhaustedLate == label /\ attempt > MaxAttempts

Exhausted == label /\ attempt >= MaxAttempts

Again(n) ==
    /\ attempt' = IF label THEN attempt + 1 ELSE attempt
    /\ tries' = IF tries > MaxAttempts THEN tries ELSE tries + 1
    /\ RestartScene
    /\ Record(n)
    /\ number' = n
    /\ at' = "drain"

Fail ==
    /\ number < MaxEpisodes
    /\ File("failure", keep)
    /\ \/ Exhausted /\ NextScene(number + 1)
       \/ ~Exhausted /\ Again(IF keep THEN number + 1 ELSE number)

Verdict == Succeed \/ Fail
-----------------------------------------------------------------------------
(* A takeover: trigger_replan(), finish_replan(), cancel_replan().         *)

\* The arm is held elsewhere, or has no driver: nothing was begun.
NotBegun == UNCHANGED <<mode, ids, mark, study>>

\* Mutated: the row of a takeover that could not start is left open.
FailedStartLeavesRow ==
    /\ study.next <= MaxTakeovers
    /\ study' = OpenRow
    /\ ids' = [ids EXCEPT !.active = 0]
    /\ mark' = {}
    /\ UNCHANGED mode

\* _fail_replan_start(), after the operator's request was logged.
FailedStart ==
    /\ study.next <= MaxTakeovers
    /\ study' = FailedRow
    /\ ids' = [ids EXCEPT !.active = 0]
    /\ mark' = {}
    /\ UNCHANGED mode

Started ==
    /\ study.next <= MaxTakeovers
    /\ study' = OpenRow
    /\ ids' = [ids EXCEPT !.active = ids.next]
    /\ mark' = frames
    /\ mode' = "replan"

Takeover == NotBegun \/ FailedStart \/ Started

\* Mutated: the check is not armed.
HandBackUnjudged == homing' = TRUE /\ UNCHANGED pending

\* _end_intervention_transport(): the policy is resumed at once, the arm goes home in
\* the background and the release is to be judged.
HandBack ==
    /\ homing' = TRUE
    /\ pending' = TRUE

\* _settle_replan_terminal_failure(): no worker, or none that is known.  The policy is
\* resumed here too, but nobody arms the check.
Settle ==
    /\ homing' = FALSE
    /\ UNCHANGED pending

\* Mutated: a finished takeover's id is used again too.
NextIdSame(outcome) == ids.next

NextId(outcome) ==
    IF outcome = "completed" /\ ids.next <= ids.active THEN ids.active + 1 ELSE ids.next

Release(outcome) ==
    /\ mode' = "replay"
    /\ mark' = {}
    /\ study' = CloseRow(outcome)
    /\ \/ /\ HandBack
          /\ unjudged' = unjudged \cup {"handed"}
          /\ ids' = [next |-> NextId(outcome), active |-> 0, last |-> ids.active]
       \/ /\ Settle
          /\ unjudged' = unjudged \cup {"settled"}
          /\ ids' = [ids EXCEPT !.next = NextId(outcome), !.active = 0]

Finish == Release("completed") /\ UNCHANGED frames
\* Mutated: the frames are not rolled back.
CancelKeepsFrames == Release("cancelled") /\ UNCHANGED frames

Cancel == Release("cancelled") /\ frames' = mark
-----------------------------------------------------------------------------
(* What the operator may ask for while the commands are drained: a command *)
(* over ZMQ or a key, in any number and order.                             *)

\* Behind a return-home the takeover is queued.
Intervene ==
    /\ at = "drain" /\ mode = "replay"
    /\ \/ /\ homing
          /\ queued' = TRUE
          /\ UNCHANGED <<mode, ids, mark, study>>
       \/ /\ ~homing
          /\ Takeover
          /\ UNCHANGED queued
    /\ NothingFiled
    /\ UNCHANGED <<at, homing, pending, stage, frames, keep, unjudged>>

FinishTakeover ==
    /\ at = "drain" /\ mode = "replan"
    /\ Finish
    /\ NothingFiled
    /\ UNCHANGED <<at, queued, stage, keep>>

\* CANCEL, and DESELECTED: the operator has left the cell.
CancelTakeover ==
    /\ at = "drain" /\ mode = "replan"
    /\ Cancel
    /\ NothingFiled
    /\ UNCHANGED <<at, queued, stage, keep>>

\* RESET cancels a takeover, and drops one that was queued with it.
Reset ==
    /\ at = "drain" /\ mode = "replay"
    /\ frames' = frames \cup {ByPolicy}
    /\ RestartScene
    /\ NothingFiled
    /\ UNCHANGED <<at, takeover, number, attempt, tries, mark, study, keep, unjudged>>

ResetTakeover ==
    /\ at = "drain" /\ mode = "replan"
    /\ Release("cancelled")
    /\ frames' = mark \cup {ByPolicy}
   
    /\ queued' = FALSE
    /\ RestartScene
    /\ NothingFiled
    /\ UNCHANGED <<at, number, attempt, tries, keep>>

\* TASK_SUCCESS and TASK_FAIL are dropped while a human holds the arm.
Mark ==
    /\ at = "drain" /\ mode = "replay"
    /\ Verdict
    /\ UNCHANGED <<mode, homing, queued, pending, keep, unjudged>>

\* The window is closed: a live takeover ends with its episode.
Close ==
    /\ at = "drain"
    /\ at' = "off"
    /\ mode' = "replay"
    /\ File("incomplete", TRUE)
    /\ study' = [study EXCEPT !.episode = NoEpisode, !.row = NoRow, !.rows = {}]
    /\ frames' = {} /\ mark' = {}
    /\ UNCHANGED <<homing, queued, pending, ids, stage, keep, unjudged>>

Drained ==
    /\ at = "drain"
    /\ at' = "poll"
    /\ NothingFiled
    /\ UNCHANGED <<takeover, stage, record, keep, unjudged>>
-----------------------------------------------------------------------------
(* The rest of the tick.                                                   *)

NotHome ==
    /\ at = "poll"
    /\ at' = "loop"
    /\ NothingFiled
    /\ UNCHANGED <<takeover, stage, record, keep, unjudged>>

\* The worker has ended, however it did, and what was queued behind it begins.
Home ==
    /\ at = "poll" /\ homing
    /\ at' = "loop"
    /\ homing' = FALSE
    /\ queued' = FALSE
    /\ \/ queued /\ Takeover
       \/ ~queued /\ NotBegun
    /\ NothingFiled
    /\ UNCHANGED <<pending, stage, frames, keep, unjudged>>

TickTakeover ==
    /\ at = "loop" /\ mode = "replan"
    /\ at' = "drain"
    /\ frames' \in {frames, frames \cup {ByHuman}}
    /\ NothingFiled
    /\ UNCHANGED <<takeover, stage, mark, study, keep, unjudged>>

\* The session raised.
TakeoverError ==
    /\ at = "loop" /\ mode = "replan"
    /\ at' = "drain"
    /\ Cancel
    /\ NothingFiled
    /\ UNCHANGED <<queued, stage, keep>>

\* Mutated: the release is judged once the arm is home.
JudgeReleaseAtHome ==
    /\ at = "loop" /\ mode = "replay" /\ pending
    /\ \/ /\ ~homing
          /\ pending' = FALSE
          /\ unjudged' = {}
          /\ \/ Verdict
             \/ UNCHANGED <<at, ids, stage, record>> /\ NothingFiled
       \/ /\ homing
          /\ at' = "drain"
          /\ NothingFiled
          /\ UNCHANGED <<pending, unjudged, ids, stage, record>>
    /\ UNCHANGED <<mode, homing, queued, keep>>

\* _run_post_release_check(), before the policy acts again.
JudgeRelease ==
    /\ at = "loop" /\ mode = "replay" /\ pending
    /\ pending' = FALSE
    /\ unjudged' = {}
    /\ \/ Verdict
       \/ UNCHANGED <<at, ids, stage, record>> /\ NothingFiled
    /\ UNCHANGED <<mode, homing, queued, keep>>

PolicyStep ==
    /\ at = "loop" /\ mode = "replay" /\ ~pending
    /\ at' = "judge"
    /\ frames' \in {frames, frames \cup {ByPolicy}}
    /\ NothingFiled
    /\ UNCHANGED <<takeover, stage, mark, study, keep, unjudged>>

AutoFinish ==
    /\ at = "judge"
    /\ \/ Verdict
       \/ at' = "drain" /\ UNCHANGED <<ids, stage, record>> /\ NothingFiled
    /\ UNCHANGED <<mode, homing, queued, pending, keep, unjudged>>

Operator == Intervene \/ FinishTakeover \/ CancelTakeover \/ Reset \/ ResetTakeover \/ Mark \/ Close
Tick == Drained \/ NotHome \/ Home \/ TickTakeover \/ TakeoverError \/ JudgeRelease \/ PolicyStep \/ AutoFinish
Next == Boot \/ Operator \/ Tick

Spec == Init /\ [][Next]_vars

\* The main loop keeps running; the operator and the worker promise nothing.
FairSpec == Spec /\ WF_vars(Boot \/ Tick)
-----------------------------------------------------------------------------
(* Properties. *)

\* An episode labelled OOD whose scene comes from the corpus runs on the model that scene
\* asks for: a variant that cannot be had costs the episode its label and its scene
\* (app.py:2232-2237).
OodRunsItsVariant ==
    at \notin {"boot", "off"} /\ label /\ scene.drawn = "ood" => model = scene.variant

\* A saved episode holds the frames of one scene, the one its metadata names, however
\* the episode ended and whatever came after it (app.py:2515-2529, 2809-2875).
OneSceneToAFile == \A f \in filed.frames : f.scene = filed.scene

\* A saved episode holds the human frames of each takeover its row calls completed, and
\* none of a takeover that was cancelled (app.py:3365-3389, 4213-4261, 4290-4299).
FramesFollowRows ==
    /\ \A f \in filed.frames : f.row # NoRow =>
          \E r \in filed.rows : r.id = f.row /\ r.outcome # "cancelled"
    /\ filed.saved => \A r \in filed.rows : r.outcome = "completed" /\ r.seen =>
          \E f \in filed.frames : f.row = r.id

\* In a saved episode the frames' intervention_id tells the takeovers apart, although a
\* cancelled takeover's id is used again (app.py:3656, 4234-4236).
TagsTellTakeoversApart ==
    \A f, g \in filed.frames : f.tag = g.tag <=> f.row = g.row

\* The log has an open intervention exactly while a takeover is live, and the episode it
\* is in is the one the process is in: no path out of a takeover forgets the row
\* (app.py:3396-3412, 4213-4219, study_logger.py:459-460).
RowFollowsTakeover ==
    at \notin {"boot", "off"} =>
        /\ study.row # NoRow <=> mode = "replan"
        /\ study.episode = number

\* A failed OOD scene is run at most MaxAttempts times (app.py:2846-2870).
RetryBudget == at # "off" /\ label => tries <= MaxAttempts

\* The policy does not act on a world that a release has handed back to it before that world
\* was judged, whatever is queued, started, cancelled or settled after the release
\* (app.py:4165-4172, 4515-4522).  A release that settles arms no check and is not covered
\* (3446-3448).
PolicyWaitsForCheck == [][at' = "judge" => unjudged \subseteq {"settled"}]_vars

\* An armed check is made unless the operator takes over again or leaves; it does not wait
\* for the arm to be home (app.py:4515-4522).
ReleaseIsJudged ==
    pending /\ mode = "replay" ~> ~pending \/ mode = "replan" \/ at = "off"

\* "Do not silently label an ID scene as OOD" (app.py:605): an OOD label means a scene
\* of the corpus.
LabelIsTrue ==
    at \notin {"boot", "off"} /\ label => scene.drawn = "ood"
=============================================================================
