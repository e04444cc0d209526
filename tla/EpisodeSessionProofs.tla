------------------------ MODULE EpisodeSessionProofs ------------------------
(***************************************************************************)
(* What holds of the episodes of a session for any corpus, any number of   *)
(* attempts, episodes and takeovers.  The argument about the files: what   *)
(* the recorder held when the takeover began is in order and stays as it   *)
(* was; everything after it is of the one live takeover.                   *)
(***************************************************************************)
EXTENDS EpisodeSession, TLAPS

USE EpisodeSessionAssumption

Ids == [next : 1 .. MaxTakeovers + 1, active : 0 .. MaxTakeovers, last : 0 .. MaxTakeovers]
Study == [episode : Episodes \cup {NoEpisode}, row : 0 .. MaxTakeovers,
          next : 1 .. MaxTakeovers + 1, rows : SUBSET Row]
Filed == [outcome : {"none", "success", "failure", "incomplete"}, scene : SceneId,
          saved : BOOLEAN, frames : SUBSET Frame, rows : SUBSET Row]

StageOK ==
    /\ number \in Episodes /\ scene \in Scene /\ label \in BOOLEAN /\ model \in Model
    /\ attempt \in Nat \ {0} /\ tries \in 1 .. MaxAttempts + 1

\* The process's ids run behind the log's: cancelled takeovers do not count.
RecordOK ==
    /\ ids \in Ids /\ study \in Study
    /\ frames \subseteq Frame /\ mark \subseteq Frame
    /\ ids.next <= study.next /\ ids.active < study.next
    /\ study.row < study.next

LoopOK ==
    /\ at \in {"boot", "drain", "poll", "loop", "judge", "off"}
    /\ mode \in {"replay", "replan"}
    /\ homing \in BOOLEAN /\ queued \in BOOLEAN /\ pending \in BOOLEAN
    /\ keep \in BOOLEAN /\ unjudged \subseteq {"handed", "settled"}

TypeInv == StageOK /\ RecordOK /\ LoopOK /\ filed \in Filed

LEMMA TypeParts == TypeInv => TypeOK
BY DEF TypeInv, StageOK, RecordOK, LoopOK, TypeOK, Ids, Study, Filed
-----------------------------------------------------------------------------
(* Type correctness                                                        *)

LEMMA Bounds ==
    /\ 1 \in Episodes /\ 0 \in 0 .. MaxTakeovers /\ 1 \in 1 .. MaxTakeovers + 1
    /\ 1 \in 1 .. MaxAttempts + 1 /\ 1 \in SceneId
BY DEF Episodes, SceneId

LEMMA CloseRowFacts ==
    ASSUME study \in Study, NEW outcome \in {"completed", "cancelled", "aborted"}
    PROVE  /\ CloseRow(outcome) \in Study
           /\ CloseRow(outcome).row = NoRow
           /\ CloseRow(outcome).next = study.next
           /\ CloseRow(outcome).episode = study.episode
           /\ CloseRow(outcome).rows =
                IF study.row = NoRow THEN study.rows
                ELSE study.rows \cup
                     {[id |-> study.row, outcome |-> outcome, seen |-> Seen(study.row)]}
<1>1. CASE study.row = NoRow
  BY <1>1 DEF CloseRow
<1>2. CASE study.row # NoRow
  <2> DEFINE new == [id |-> study.row, outcome |-> outcome, seen |-> Seen(study.row)]
  <2>1. Seen(study.row) \in BOOLEAN
    BY DEF Seen
  <2>2. study.row \in RowId
    BY <1>2 DEF Study, RowId, NoRow
  <2>3. new \in Row
    BY <2>1, <2>2 DEF Row
  <2>4. CloseRow(outcome) = [study EXCEPT !.row = NoRow, !.rows = @ \cup {new}]
    BY <1>2 DEF CloseRow
  <2> HIDE DEF new
  <2>5. CloseRow(outcome) \in Study
    BY <2>3, <2>4, Bounds DEF Study, NoRow
  <2>6. QED
    BY <1>2, <2>4, <2>5 DEF Study, new
<1>3. QED
  BY <1>1, <1>2

LEMMA FileType ==
    ASSUME TypeInv, NEW outcome \in {"success", "failure", "incomplete"}, NEW saved \in BOOLEAN,
           File(outcome, saved)
    PROVE  filed' \in Filed
<1>1. CloseRow("aborted").rows \subseteq Row
  BY CloseRowFacts DEF TypeInv, RecordOK, Study
<1>2. scene.id \in SceneId
  BY DEF TypeInv, StageOK, Scene
<1>3. (IF saved THEN frames ELSE {}) \subseteq Frame
  BY DEF TypeInv, RecordOK
<1>4. QED
  BY <1>1, <1>2, <1>3 DEF File, Filed

LEMMA NoFileType == NoFile \in Filed
BY Bounds DEF NoFile, Filed

LEMMA InitType == Init => TypeInv
<1> SUFFICES ASSUME Init PROVE TypeInv
  OBVIOUS
<1>1. StageOK
  BY Bounds DEF Init, StageOK, Scene, Model
<1>2. ids \in Ids /\ ids.next = 1 /\ ids.active = 0
  BY Bounds DEF Init, Ids
<1>3. study \in Study /\ study.next = 1 /\ study.row = 0
  BY Bounds DEF Init, Study, NoRow
<1>4. RecordOK
  BY <1>2, <1>3 DEF Init, RecordOK
<1>5. LoopOK
  BY DEF Init, LoopOK
<1>6. filed \in Filed
  BY NoFileType DEF Init
<1>7. QED
  BY <1>1, <1>4, <1>5, <1>6 DEF TypeInv

\* What a new scene runs on.
LEMMA NewSceneFacts ==
    ASSUME TypeInv, NewScene
    PROVE  /\ scene' \in Scene /\ label' \in BOOLEAN /\ model' \in Model
           /\ attempt' = 1 /\ tries' = 1
           /\ label' /\ scene'.drawn = "ood" => model' = scene'.variant
<1>1. PICK ood \in BOOLEAN :
           \E draw \in Draw(ood) : \E swap \in Swap(draw.variant, ood) : Stage(draw, swap)
  BY DEF NewScene
<1>2. PICK draw \in Draw(ood) : \E swap \in Swap(draw.variant, ood) : Stage(draw, swap)
  BY <1>1
<1>3. PICK swap \in Swap(draw.variant, ood) : Stage(draw, swap)
  BY <1>2
<1>4. draw.drawn \in {"id", "ood"} /\ draw.variant \in Model
  BY DEF Draw, Model
<1>5. /\ swap.label \in BOOLEAN /\ swap.model \in Model
      /\ swap.label => swap.ok /\ swap.model = draw.variant
  <2>1. ood \in BOOLEAN /\ model \in Model /\ Base \in Model
    BY DEF TypeInv, StageOK, Model
  <2>2. \/ swap = Swapped(draw.variant, ood)
        \/ swap = Refused
        \/ swap \in Unbuilt
    BY DEF Swap
  <2>3. CASE swap \in Unbuilt \/ swap = Refused
    <3>1. PICK m \in Model : swap = [ok |-> FALSE, model |-> m, label |-> FALSE]
      BY <2>1, <2>3 DEF Refused, Unbuilt
    <3>2. QED
      BY <3>1
  <2>4. CASE swap = Swapped(draw.variant, ood)
    BY <1>4, <2>1, <2>4 DEF Swapped
  <2>5. QED
    BY <2>2, <2>3, <2>4
<1>6. scene.id + 1 \in SceneId
  BY DEF TypeInv, StageOK, Scene, SceneId
<1>7. CASE Redraw(draw.variant, swap)
  BY <1>3, <1>5, <1>6, <1>7 DEF Stage, Redraw, Scene, Model
<1>8. CASE ~ Redraw(draw.variant, swap)
  BY <1>3, <1>4, <1>5, <1>6, <1>8 DEF Stage, Scene
<1>9. QED
  BY <1>7, <1>8

LEMMA RecordType ==
    ASSUME TypeInv, scene' \in Scene, NEW n \in Episodes, Record(n)
    PROVE  RecordOK'
<1>1. [scene |-> scene'.id, tag |-> 0, row |-> NoRow] \in Frame
  BY Bounds DEF Frame, Scene, NoRow
<1>2. ids' \in Ids /\ ids'.next = 1 /\ ids'.active = 0
  BY Bounds DEF Record, TypeInv, RecordOK, Ids
<1>3. study' \in Study /\ study'.next = 1 /\ study'.row = 0
  BY Bounds DEF Record, StartEpisode, Study, NoRow
<1>4. QED
  BY <1>1, <1>2, <1>3 DEF Record, RecordOK

LEMMA VerdictType ==
    ASSUME TypeInv, Verdict
    PROVE  /\ StageOK' /\ RecordOK' /\ filed' \in Filed
           /\ at' \in {"drain", "off"}
<1>1. filed' \in Filed
  BY FileType DEF Verdict, Succeed, Fail, TypeInv, LoopOK
<1>2. /\ number \in Nat /\ number < MaxEpisodes /\ number + 1 \in Episodes /\ number \in Episodes
  <2>1. number \in Episodes /\ number < MaxEpisodes
    BY DEF Verdict, Succeed, Fail, TypeInv, StageOK
  <2>2. QED
    BY <2>1 DEF Episodes
<1>3. ASSUME NEW n \in Episodes, NextScene(n)
      PROVE  StageOK' /\ RecordOK' /\ at' \in {"drain", "off"}
  <2>1. CASE NewScene /\ Record(n) /\ number' = n /\ at' = "drain"
    BY <2>1, NewSceneFacts, RecordType, Bounds DEF StageOK
  <2>2. CASE NoScene(n)
    <3>1. StageOK' /\ at' = "off" /\ frames' = {} /\ mark' = {}
      BY <2>2 DEF NoScene, TypeInv, StageOK
    <3>2. ids' \in Ids /\ ids'.next = 1 /\ ids'.active = 0
      BY <2>2, Bounds DEF NoScene, TypeInv, RecordOK, Ids
    <3>3. study' \in Study /\ study'.row = 0
      BY <2>2, Bounds DEF NoScene, TypeInv, RecordOK, Study, NoRow
    <3>4. study'.next \in Nat /\ 1 <= study'.next
      BY <3>3 DEF Study
    <3>5. QED
      BY <3>1, <3>2, <3>3, <3>4 DEF RecordOK
  <2>3. QED
    BY <1>3, <2>1, <2>2 DEF NextScene
<1>4. ASSUME NEW n \in Episodes, Again(n)
      PROVE  StageOK' /\ RecordOK' /\ at' \in {"drain", "off"}
  <2>1. scene' \in Scene /\ StageOK'
    BY <1>4 DEF Again, RestartScene, TypeInv, StageOK
  <2>2. QED
    BY <1>4, <2>1, RecordType DEF Again
<1>5. QED
  BY <1>1, <1>2, <1>3, <1>4 DEF Verdict, Succeed, Fail

LEMMA TakeoverType ==
    ASSUME TypeInv, Takeover, UNCHANGED frames
    PROVE  RecordOK' /\ mode' \in {"replay", "replan"}
<1>1. CASE NotBegun
  BY <1>1 DEF NotBegun, TypeInv, RecordOK, LoopOK
<1>2. CASE FailedStart
  <2> DEFINE new == [id |-> study.next, outcome |-> "aborted", seen |-> FALSE]
  <2>1. new \in Row
    BY <1>2 DEF FailedStart, Row, RowId, TypeInv, RecordOK, Study
  <2>2. study' = [study EXCEPT !.next = @ + 1, !.rows = @ \cup {new}]
    BY <1>2 DEF FailedStart, FailedRow
  <2> HIDE DEF new
  <2>3. study' \in Study /\ study'.next = study.next + 1 /\ study'.row = study.row
    <3>1. study \in Study /\ study.next + 1 \in 1 .. MaxTakeovers + 1
      BY <1>2 DEF FailedStart, TypeInv, RecordOK, Study
    <3>2. QED
      BY <2>1, <2>2, <3>1 DEF Study
  <2>4. ids' \in Ids /\ ids'.next = ids.next /\ ids'.active = 0
    BY <1>2 DEF FailedStart, TypeInv, RecordOK, Ids
  <2>5. QED
    BY <1>2, <2>3, <2>4 DEF FailedStart, TypeInv, RecordOK, LoopOK, Study, Ids
<1>3. CASE Started
  <2>1. study' \in Study /\ study'.next = study.next + 1 /\ study'.row = study.next
    <3>1. /\ study \in Study /\ study.next + 1 \in 1 .. MaxTakeovers + 1
          /\ study.next \in 0 .. MaxTakeovers
      BY <1>3 DEF Started, TypeInv, RecordOK, Study
    <3>2. QED
      BY <1>3, <3>1 DEF Started, OpenRow, Study
  <2>2. ids' \in Ids /\ ids'.next = ids.next /\ ids'.active = ids.next
    <3>1. ids \in Ids /\ ids.next \in 0 .. MaxTakeovers
      BY <1>3 DEF Started, TypeInv, RecordOK, Ids, Study
    <3>2. QED
      BY <1>3, <3>1 DEF Started, Ids
  <2>3. QED
    BY <1>3, <2>1, <2>2 DEF Started, TypeInv, RecordOK, Study, Ids
<1>4. QED
  BY <1>1, <1>2, <1>3 DEF Takeover

LEMMA ReleaseType ==
    ASSUME TypeInv, NEW outcome \in {"completed", "cancelled"}, Release(outcome),
           frames' \subseteq Frame
    PROVE  /\ RecordOK' /\ mode' = "replay"
           /\ homing' \in BOOLEAN /\ pending' \in BOOLEAN
<1>1. study' \in Study /\ study'.next = study.next /\ study'.row = 0
  BY CloseRowFacts DEF Release, TypeInv, RecordOK, NoRow
<1>2. NextId(outcome) \in 1 .. MaxTakeovers + 1 /\ NextId(outcome) <= study.next
  BY DEF NextId, TypeInv, RecordOK, Ids, Study
<1>3. /\ ids' \in Ids /\ ids'.next = NextId(outcome) /\ ids'.active = 0
      /\ homing' \in BOOLEAN /\ pending' \in BOOLEAN
  <2>1. CASE HandBack /\ ids' = [next |-> NextId(outcome), active |-> 0, last |-> ids.active]
    BY <1>2, <2>1, Bounds DEF HandBack, TypeInv, RecordOK, Ids
  <2>2. CASE Settle /\ ids' = [ids EXCEPT !.next = NextId(outcome), !.active = 0]
    BY <1>2, <2>2, Bounds DEF Settle, TypeInv, RecordOK, LoopOK, Ids
  <2>3. QED
    BY <2>1, <2>2 DEF Release
<1>4. QED
  BY <1>1, <1>2, <1>3 DEF Release, RecordOK, Study

LEMMA FrameTypes ==
    ASSUME TypeInv
    PROVE  ByPolicy \in Frame /\ ByHuman \in Frame
BY Bounds
DEF TypeInv, StageOK, RecordOK, Scene, Ids, Study, Frame, ByPolicy, ByHuman, NoRow

\* An action that leaves the stage alone and files nothing.
LEMMA QuietType ==
    ASSUME TypeInv, UNCHANGED stage, RecordOK', LoopOK', NothingFiled
    PROVE  TypeInv'
BY NoFileType DEF TypeInv, stage, StageOK, NothingFiled

LEMMA OperatorType == TypeInv /\ Operator => TypeInv'
<1> SUFFICES ASSUME TypeInv, Operator PROVE TypeInv'
  OBVIOUS
<1>1. CASE Intervene
  <2>1. RecordOK' /\ mode' \in {"replay", "replan"}
    <3>1. CASE UNCHANGED <<mode, ids, mark, study>>
      BY <1>1, <3>1 DEF Intervene, TypeInv, RecordOK, LoopOK
    <3>2. CASE Takeover
      BY <1>1, <3>2, TakeoverType DEF Intervene
    <3>3. QED
      BY <1>1, <3>1, <3>2 DEF Intervene
  <2>2. LoopOK'
    BY <1>1, <2>1 DEF Intervene, TypeInv, LoopOK
  <2>3. QED
    BY <1>1, <2>1, <2>2, QuietType DEF Intervene
<1>2. CASE FinishTakeover \/ CancelTakeover
  <2>1. frames' \subseteq Frame
    BY <1>2 DEF FinishTakeover, CancelTakeover, Finish, Cancel, TypeInv, RecordOK
  <2>2. RecordOK' /\ mode' = "replay" /\ homing' \in BOOLEAN /\ pending' \in BOOLEAN
    BY <1>2, <2>1, ReleaseType DEF FinishTakeover, CancelTakeover, Finish, Cancel
  <2>3. unjudged' \subseteq {"handed", "settled"}
    BY <1>2, <2>2
    DEF FinishTakeover, CancelTakeover, Finish, Cancel, Release, TypeInv, LoopOK
  <2>4. LoopOK'
    BY <1>2, <2>2, <2>3 DEF FinishTakeover, CancelTakeover, TypeInv, LoopOK
  <2>5. QED
    BY <1>2, <2>2, <2>4, QuietType DEF FinishTakeover, CancelTakeover
<1>3. CASE Reset
  <2>1. RecordOK'
    BY <1>3, FrameTypes DEF Reset, takeover, TypeInv, RecordOK
  <2>2. LoopOK' /\ UNCHANGED stage
    BY <1>3 DEF Reset, takeover, stage, RestartScene, TypeInv, LoopOK
  <2>3. QED
    BY <1>3, <2>1, <2>2, QuietType DEF Reset
<1>4. CASE ResetTakeover
  <2>1. frames' \subseteq Frame
    BY <1>4, FrameTypes DEF ResetTakeover, TypeInv, RecordOK
  <2>2. RecordOK' /\ mode' = "replay" /\ homing' \in BOOLEAN /\ pending' \in BOOLEAN
    BY <1>4, <2>1, ReleaseType DEF ResetTakeover
  <2>3. unjudged' \subseteq {"handed", "settled"}
    BY <1>4, <2>2 DEF ResetTakeover, Release, TypeInv, LoopOK
  <2>4. LoopOK' /\ UNCHANGED stage
    BY <1>4, <2>2, <2>3 DEF ResetTakeover, stage, RestartScene, TypeInv, LoopOK
  <2>5. QED
    BY <1>4, <2>2, <2>4, QuietType DEF ResetTakeover
<1>5. CASE Mark
  BY <1>5, VerdictType DEF Mark, TypeInv, LoopOK
<1>6. CASE Close
  <2>1. filed' \in Filed
    BY <1>6, FileType DEF Close
  <2>2. study' \in Study /\ study'.next = study.next /\ study'.row = 0
    BY <1>6, Bounds DEF Close, TypeInv, RecordOK, Study, NoRow
  <2>3. RecordOK'
    BY <1>6, <2>2 DEF Close, stage, TypeInv, RecordOK, Ids, Study
  <2>4. QED
    BY <1>6, <2>1, <2>3 DEF Close, TypeInv, LoopOK, stage, StageOK
<1>7. QED
  BY <1>1, <1>2, <1>3, <1>4, <1>5, <1>6 DEF Operator

LEMMA TickType == TypeInv /\ Tick => TypeInv'
<1> SUFFICES ASSUME TypeInv, Tick PROVE TypeInv'
  OBVIOUS
<1>1. CASE Drained \/ NotHome
  <2>1. RecordOK' /\ LoopOK'
    BY <1>1 DEF Drained, NotHome, takeover, record, TypeInv, RecordOK, LoopOK
  <2>2. QED
    BY <1>1, <2>1, QuietType DEF Drained, NotHome
<1>2. CASE Home
  <2>1. RecordOK' /\ mode' \in {"replay", "replan"}
    BY <1>2, TakeoverType DEF Home, Takeover
  <2>2. LoopOK'
    BY <1>2, <2>1 DEF Home, TypeInv, LoopOK
  <2>3. QED
    BY <1>2, <2>1, <2>2, QuietType DEF Home
<1>3. CASE TickTakeover \/ PolicyStep
  <2>1. RecordOK' /\ LoopOK'
    BY <1>3, FrameTypes
    DEF TickTakeover, PolicyStep, takeover, TypeInv, RecordOK, LoopOK
  <2>2. QED
    BY <1>3, <2>1, QuietType DEF TickTakeover, PolicyStep
<1>4. CASE TakeoverError
  <2>1. frames' \subseteq Frame
    BY <1>4 DEF TakeoverError, Cancel, TypeInv, RecordOK
  <2>2. RecordOK' /\ mode' = "replay" /\ homing' \in BOOLEAN /\ pending' \in BOOLEAN
    BY <1>4, <2>1, ReleaseType DEF TakeoverError, Cancel
  <2>3. unjudged' \subseteq {"handed", "settled"}
    BY <1>4, <2>2 DEF TakeoverError, Cancel, Release, TypeInv, LoopOK
  <2>4. LoopOK'
    BY <1>4, <2>2, <2>3 DEF TakeoverError, TypeInv, LoopOK
  <2>5. QED
    BY <1>4, <2>2, <2>4, QuietType DEF TakeoverError
<1>5. CASE JudgeRelease \/ AutoFinish
  <2>1. /\ mode' = mode /\ homing' = homing /\ queued' = queued /\ keep' = keep
        /\ pending' \in BOOLEAN /\ unjudged' \subseteq {"handed", "settled"}
    BY <1>5 DEF JudgeRelease, AutoFinish, TypeInv, LoopOK
  <2>2. CASE Verdict
    BY <2>1, <2>2, VerdictType DEF TypeInv, LoopOK
  <2>3. CASE ~ Verdict
    <3>1. UNCHANGED <<ids, stage, record>> /\ NothingFiled /\ at' \in {at, "drain"}
      BY <1>5, <2>3 DEF JudgeRelease, AutoFinish
    <3>2. RecordOK' /\ LoopOK'
      BY <2>1, <3>1 DEF record, TypeInv, RecordOK, LoopOK
    <3>3. QED
      BY <3>1, <3>2, QuietType
  <2>4. QED
    BY <2>2, <2>3
<1>6. QED
  BY <1>1, <1>2, <1>3, <1>4, <1>5 DEF Tick

LEMMA StepType == TypeInv /\ [Next]_vars => TypeInv'
<1> SUFFICES ASSUME TypeInv, [Next]_vars PROVE TypeInv'
  OBVIOUS
<1>1. CASE Boot
  <2>1. StageOK' /\ scene' \in Scene /\ number \in Episodes
    BY <1>1, NewSceneFacts, Bounds DEF Boot, TypeInv, StageOK
  <2>2. RecordOK'
    BY <1>1, <2>1, RecordType DEF Boot
  <2>3. QED
    BY <1>1, <2>1, <2>2, NoFileType DEF Boot, NothingFiled, TypeInv, LoopOK
<1>2. CASE UNCHANGED vars
  BY <1>2 DEF vars, TypeInv, StageOK, RecordOK, LoopOK
<1>3. QED
  BY <1>1, <1>2, OperatorType, TickType DEF Next

\* The episode's state, its record and its files stay what they should be.
THEOREM TypeCorrect == Spec => []TypeOK
<1>1. Spec => []TypeInv
  BY InitType, StepType, PTL DEF Spec
<1>2. QED
  BY <1>1, TypeParts, PTL
-----------------------------------------------------------------------------
(* The invariant                                                           *)

\* Frames no takeover adds to any more: each is the policy's or of a row that ended, was
\* not cancelled and is below "row"; the ids tell the rows apart and are below "tag".
Settled(F, tag, row, rows) ==
    /\ \A f \in F : f.row # NoRow =>
          \E r \in rows : r.id = f.row /\ r.outcome # "cancelled"
    /\ \A r \in rows : r.outcome = "completed" /\ r.seen => \E f \in F : f.row = r.id
    /\ \A f, g \in F : f.tag = g.tag <=> f.row = g.row
    /\ \A f \in F : f.tag = 0 <=> f.row = NoRow
    /\ \A f \in F : f.tag < tag /\ f.row < row

InAnEpisode == at \notin {"boot", "off"}

RecordInv ==
    InAnEpisode =>
        /\ \A f \in frames \cup mark : f.scene = scene.id
        /\ mode = "replay" => Settled(frames, ids.next, study.next, study.rows)
        /\ mode = "replan" =>
              /\ Settled(mark, ids.active, study.row, study.rows)
              /\ ids.active = ids.next
              /\ mark \subseteq frames
              /\ \A f \in frames \ mark : f.tag = ids.active /\ f.row = study.row

LoopInv ==
    /\ at \in {"boot", "judge"} \/ homing => mode = "replay"
    /\ "handed" \in unjudged => pending

RunInv ==
    /\ OodRunsItsVariant
    /\ at # "off" /\ label => attempt = tries /\ attempt <= MaxAttempts

FiledInv == OneSceneToAFile /\ FramesFollowRows /\ TagsTellTakeoversApart

IInv ==
    /\ TypeInv
    /\ LoopInv
    /\ RunInv
    /\ RowFollowsTakeover
    /\ RecordInv
    /\ FiledInv

LEMMA NoFileInv == ASSUME NothingFiled PROVE FiledInv'
BY DEF NothingFiled, NoFile, FiledInv, OneSceneToAFile, FramesFollowRows,
       TagsTellTakeoversApart

LEMMA InitInv == Init => IInv
<1> SUFFICES ASSUME Init PROVE IInv
  OBVIOUS
<1>1. LoopInv /\ RowFollowsTakeover /\ RecordInv
  BY DEF Init, LoopInv, RowFollowsTakeover, RecordInv, InAnEpisode
<1>2. RunInv
  BY DEF Init, RunInv, OodRunsItsVariant
<1>3. FiledInv
  BY DEF Init, NoFile, FiledInv, OneSceneToAFile, FramesFollowRows, TagsTellTakeoversApart
<1>4. QED
  BY <1>1, <1>2, <1>3, InitType DEF IInv

\* The episode that is closed: what the file holds is in order, with a takeover that was
\* live to the end as an aborted row.
LEMMA Filing ==
    ASSUME IInv, InAnEpisode, NEW outcome, NEW saved \in BOOLEAN, File(outcome, saved)
    PROVE  FiledInv'
<1> DEFINE rows == CloseRow("aborted").rows
<1>1. /\ filed'.scene = scene.id /\ filed'.saved = saved /\ filed'.rows = rows
      /\ filed'.frames = IF saved THEN frames ELSE {}
  BY DEF File
<1>2. study \in Study /\ mode \in {"replay", "replan"} /\ frames \subseteq Frame
  BY DEF IInv, TypeInv, RecordOK, LoopOK
<1>3. study.row # NoRow <=> mode = "replan"
  BY DEF IInv, RowFollowsTakeover, InAnEpisode
<1>4. \A f \in frames : f.scene = scene.id
  BY DEF IInv, RecordInv
<1>5. /\ \A f \in frames : f.row # NoRow =>
            \E r \in rows : r.id = f.row /\ r.outcome # "cancelled"
      /\ \A r \in rows : r.outcome = "completed" /\ r.seen => \E f \in frames : f.row = r.id
      /\ \A f, g \in frames : f.tag = g.tag <=> f.row = g.row
  <2>1. CASE mode = "replay"
    <3>1. rows = study.rows
      BY <1>2, <1>3, <2>1, CloseRowFacts
    <3>2. Settled(frames, ids.next, study.next, study.rows)
      BY <2>1 DEF IInv, RecordInv
    <3>3. QED
      BY <3>1, <3>2 DEF Settled
  <2>2. CASE mode = "replan"
    <3> DEFINE new == [id |-> study.row, outcome |-> "aborted", seen |-> Seen(study.row)]
    <3>1. rows = study.rows \cup {new}
      BY <1>2, <1>3, <2>2, CloseRowFacts
    <3>2. /\ Settled(mark, ids.active, study.row, study.rows)
          /\ mark \subseteq frames
          /\ \A f \in frames \ mark : f.tag = ids.active /\ f.row = study.row
      BY <2>2 DEF IInv, RecordInv
    <3>3. \A f \in mark : f.tag # ids.active /\ f.row # study.row
      <4>1. \A f \in mark : f.tag < ids.active /\ f.row < study.row
        BY <3>2 DEF Settled
      <4>2. \A f \in mark : f \in Frame
        BY <1>2, <3>2
      <4>3. ids.active \in Nat /\ study.row \in Nat
        BY <1>2 DEF IInv, TypeInv, RecordOK, Ids, Study
      <4>4. QED
        BY <4>1, <4>2, <4>3 DEF Frame
    <3>4. new \in rows /\ study.rows \subseteq rows /\ new.id = study.row
          /\ new.outcome = "aborted"
      BY <3>1
    <3>5. \A r \in rows : r.outcome = "completed" => r \in study.rows
      BY <3>1
    <3> HIDE DEF rows, new
    <3>6. QED
      BY <3>2, <3>3, <3>4, <3>5 DEF Settled
  <2>3. QED
    BY <1>2, <2>1, <2>2
<1> HIDE DEF rows
<1>6. CASE saved
  BY <1>1, <1>4, <1>5, <1>6
  DEF FiledInv, OneSceneToAFile, FramesFollowRows, TagsTellTakeoversApart
<1>7. CASE ~ saved
  BY <1>1, <1>7
  DEF FiledInv, OneSceneToAFile, FramesFollowRows, TagsTellTakeoversApart
<1>8. QED
  BY <1>6, <1>7

\* A recorder starts with a frame of the policy.
LEMMA FreshRecord ==
    ASSUME ids \in Ids, mode' = "replay", NEW n, Record(n), number' = n
    PROVE  RowFollowsTakeover' /\ RecordInv'
<1> DEFINE first == [scene |-> scene'.id, tag |-> 0, row |-> NoRow]
<1>1. /\ frames' = {first} /\ mark' = {}
      /\ study'.rows = {} /\ study'.next = 1 /\ study'.row = NoRow /\ study'.episode = n
  BY DEF Record, StartEpisode
<1>2. RowFollowsTakeover'
  BY <1>1 DEF RowFollowsTakeover
<1>3. Settled(frames', 1, 1, study'.rows)
  BY <1>1 DEF Settled, NoRow
<1>4. ids'.next = 1
  BY DEF Record, Ids
<1>5. QED
  BY <1>1, <1>2, <1>3, <1>4 DEF RecordInv

\* A success or a failure while no takeover is live.
LEMMA InvVerdict ==
    ASSUME IInv, InAnEpisode, mode = "replay", UNCHANGED mode, Verdict
    PROVE  RunInv' /\ RowFollowsTakeover' /\ RecordInv' /\ FiledInv'
<1>1. FiledInv'
  BY Filing DEF Verdict, Succeed, Fail, IInv, TypeInv, LoopOK
<1>2. ids \in Ids /\ label \in BOOLEAN /\ attempt \in Nat /\ MaxAttempts \in Nat \ {0}
  BY DEF IInv, TypeInv, RecordOK, StageOK
<1>3. ASSUME NEW n, NextScene(n)
      PROVE  RunInv' /\ RowFollowsTakeover' /\ RecordInv'
  <2>1. CASE NewScene /\ Record(n) /\ number' = n /\ at' = "drain"
    <3>1. RunInv'
      BY <1>2, <2>1, NewSceneFacts DEF IInv, RunInv, OodRunsItsVariant
    <3>2. QED
      BY <1>2, <2>1, <3>1, FreshRecord
  <2>2. CASE NoScene(n)
    BY <2>2
    DEF NoScene, RunInv, OodRunsItsVariant, RowFollowsTakeover, RecordInv, InAnEpisode
  <2>3. QED
    BY <1>3, <2>1, <2>2 DEF NextScene
<1>4. ASSUME NEW n, Again(n), ~ Exhausted
      PROVE  RunInv' /\ RowFollowsTakeover' /\ RecordInv'
  <2>1. OodRunsItsVariant'
    BY <1>4
    DEF Again, RestartScene, IInv, RunInv, OodRunsItsVariant, InAnEpisode
  <2>2. label => attempt = tries /\ attempt <= MaxAttempts
    BY DEF IInv, RunInv, InAnEpisode
  <2>3. ASSUME label' PROVE attempt' = tries' /\ attempt' <= MaxAttempts
    BY <1>2, <1>4, <2>2, <2>3 DEF Again, RestartScene, Exhausted
  <2>4. RunInv'
    BY <2>1, <2>3 DEF RunInv
  <2>5. QED
    BY <1>2, <1>4, <2>4, FreshRecord DEF Again
<1>5. QED
  BY <1>1, <1>3, <1>4 DEF Verdict, Succeed, Fail

\* A takeover begins, or fails to.
LEMMA InvTakeover ==
    ASSUME IInv, TypeInv', InAnEpisode, mode = "replay", Takeover, InAnEpisode',
           UNCHANGED <<frames, number, scene>>
    PROVE  RowFollowsTakeover' /\ RecordInv'
<1>1. /\ study \in Study /\ ids \in Ids /\ frames \subseteq Frame
      /\ study.row = NoRow /\ study.episode = number
      /\ Settled(frames, ids.next, study.next, study.rows)
      /\ \A f \in frames \cup mark : f.scene = scene.id
  BY DEF IInv, TypeInv, RecordOK, RowFollowsTakeover, RecordInv, InAnEpisode
<1>2. CASE NotBegun
  BY <1>1, <1>2 DEF NotBegun, RowFollowsTakeover, RecordInv
<1>3. CASE FailedStart
  <2> DEFINE new == [id |-> study.next, outcome |-> "aborted", seen |-> FALSE]
  <2>1. /\ study'.row = NoRow /\ study'.episode = number /\ study'.next = study.next + 1
        /\ study'.rows = study.rows \cup {new}
        /\ ids'.next = ids.next /\ mode' = "replay" /\ mark' = {}
    BY <1>1, <1>3 DEF FailedStart, FailedRow, Study, Ids
  <2>2. RowFollowsTakeover'
    BY <2>1 DEF RowFollowsTakeover
  <2>3. \A f \in frames : f.row < study.next + 1
    BY <1>1 DEF Settled, Frame, Study
  <2>4. Settled(frames, ids.next, study.next + 1, study.rows \cup {new})
    BY <1>1, <2>3 DEF Settled
  <2> HIDE DEF new
  <2>5. QED
    BY <1>1, <2>1, <2>2, <2>4 DEF RecordInv
<1>4. CASE Started
  <2>1. /\ study'.row = study.next /\ study'.episode = number /\ study'.rows = study.rows
        /\ ids'.next = ids.next /\ ids'.active = ids.next /\ mode' = "replan"
        /\ mark' = frames
    BY <1>1, <1>4 DEF Started, OpenRow, Study, Ids
  <2>2. study.next # NoRow
    BY <1>1 DEF Study, NoRow
  <2>3. RowFollowsTakeover'
    BY <2>1, <2>2 DEF RowFollowsTakeover
  <2>4. QED
    BY <1>1, <2>1, <2>3 DEF RecordInv
<1>5. QED
  BY <1>2, <1>3, <1>4 DEF Takeover

\* One more frame of the policy.
LEMMA PolicyFrame ==
    ASSUME NEW F, NEW tag \in Nat \ {0}, NEW row \in Nat \ {0}, NEW rows,
           Settled(F, tag, row, rows)
    PROVE  Settled(F \cup {ByPolicy}, tag, row, rows)
<1>1. ByPolicy.tag = 0 /\ ByPolicy.row = NoRow
  BY DEF ByPolicy
<1>2. \A f \in F : f.tag = 0 <=> f.row = NoRow
  BY DEF Settled
<1>3. 0 < tag /\ NoRow < row
  BY DEF NoRow
<1> HIDE DEF ByPolicy
<1>4. QED
  BY <1>1, <1>2, <1>3 DEF Settled

\* A takeover ends: what the recorder keeps of it is in order.
LEMMA InvRelease ==
    ASSUME IInv, TypeInv', InAnEpisode, mode = "replan",
           NEW outcome \in {"completed", "cancelled"}, Release(outcome),
           UNCHANGED <<number, scene>>,
           \/ outcome = "completed" /\ frames' = frames
           \/ outcome = "cancelled" /\ frames' \in {mark, mark \cup {ByPolicy}}
    PROVE  RowFollowsTakeover' /\ RecordInv'
<1> DEFINE new == [id |-> study.row, outcome |-> outcome, seen |-> Seen(study.row)]
<1>1. /\ study \in Study /\ ids \in Ids /\ frames \subseteq Frame
      /\ study.row # NoRow /\ study.episode = number
      /\ Settled(mark, ids.active, study.row, study.rows)
      /\ ids.active = ids.next /\ mark \subseteq frames
      /\ \A f \in frames \ mark : f.tag = ids.active /\ f.row = study.row
      /\ \A f \in frames \cup mark : f.scene = scene.id
  BY DEF IInv, TypeInv, RecordOK, RowFollowsTakeover, RecordInv, InAnEpisode
<1>2. /\ study'.row = NoRow /\ study'.episode = number /\ study'.next = study.next
      /\ study'.rows = study.rows \cup {new}
      /\ mode' = "replay" /\ mark' = {}
  BY <1>1, CloseRowFacts DEF Release
<1>3. ids'.next = NextId(outcome)
  <2>1. CASE ids' = [next |-> NextId(outcome), active |-> 0, last |-> ids.active]
    BY <2>1
  <2>2. CASE ids' = [ids EXCEPT !.next = NextId(outcome), !.active = 0]
    BY <1>1, <2>2 DEF Ids
  <2>3. QED
    BY <2>1, <2>2 DEF Release
<1>4. RowFollowsTakeover'
  BY <1>2 DEF RowFollowsTakeover
<1>5. \A f \in frames' : f.scene = scene.id
  BY <1>1 DEF ByPolicy
<1>6. /\ study.row \in Nat \ {0} /\ study.next \in Nat \ {0} /\ study.row < study.next
      /\ ids.active \in Nat \ {0}
  <2>1. study.row < study.next
    BY DEF IInv, TypeInv, RecordOK
  <2>2. QED
    BY <1>1, <2>1 DEF Study, Ids, NoRow
<1>7. \A f \in frames : f \in Frame /\ f.tag \in Nat /\ f.row \in Nat
  BY <1>1 DEF Frame
<1>8. CASE outcome = "cancelled"
  <2>1. ids'.next = ids.active
    BY <1>1, <1>3, <1>8 DEF NextId
  <2>2. \A f \in mark : f.row < study.next
    BY <1>1, <1>6, <1>7 DEF Settled
  <2>3. new.outcome = "cancelled"
    BY <1>8
  <2> HIDE DEF new
  <2>4. Settled(mark, ids.active, study.next, study.rows \cup {new})
    BY <1>1, <2>2, <2>3 DEF Settled
  <2>5. Settled(mark \cup {ByPolicy}, ids.active, study.next, study.rows \cup {new})
    BY <1>6, <2>4, PolicyFrame
  <2>6. frames' \in {mark, mark \cup {ByPolicy}}
    BY <1>8
  <2>7. Settled(frames', ids'.next, study'.next, study'.rows)
    BY <1>2, <2>1, <2>4, <2>5, <2>6
  <2>8. QED
    BY <1>2, <1>4, <1>5, <2>7 DEF RecordInv
<1>9. CASE outcome = "completed" /\ frames' = frames
  <2>1. ids'.next = ids.active + 1
    BY <1>1, <1>3, <1>6, <1>9 DEF NextId
  <2>2. \A f \in mark : f.tag < ids.active /\ f.row < study.row /\ f \in frames
    BY <1>1 DEF Settled
  <2>3. \A f \in frames : f.tag < ids.active + 1 /\ f.row < study.next
    <3> SUFFICES ASSUME NEW f \in frames PROVE f.tag < ids.active + 1 /\ f.row < study.next
      OBVIOUS
    <3>1. \/ f.tag < ids.active /\ f.row < study.row
          \/ f.tag = ids.active /\ f.row = study.row
      BY <1>1, <2>2
    <3>2. QED
      BY <1>6, <1>7, <3>1
  <2>4. \A f \in mark : f.tag # ids.active /\ f.row # study.row
    BY <1>6, <1>7, <2>2
  <2>5. /\ new.id = study.row /\ new.outcome = "completed"
        /\ new.seen => \E f \in frames : f.row = study.row
    BY <1>9 DEF Seen
  <2> HIDE DEF new
  <2>6. /\ \A f \in frames : f.row # NoRow =>
              \E r \in study.rows \cup {new} : r.id = f.row /\ r.outcome # "cancelled"
        /\ \A r \in study.rows \cup {new} : r.outcome = "completed" /\ r.seen =>
              \E f \in frames : f.row = r.id
    BY <1>1, <2>5 DEF Settled
  <2>7. /\ \A f, g \in frames : f.tag = g.tag <=> f.row = g.row
        /\ \A f \in frames : f.tag = 0 <=> f.row = NoRow
    BY <1>1, <1>6, <2>4 DEF Settled, NoRow
  <2>8. Settled(frames', ids'.next, study'.next, study'.rows)
    BY <1>2, <1>9, <2>1, <2>3, <2>6, <2>7 DEF Settled
  <2>9. QED
    BY <1>2, <1>4, <1>5, <2>8 DEF RecordInv
<1>10. QED
  BY <1>8, <1>9

LEMMA RunStays ==
    ASSUME IInv, InAnEpisode, UNCHANGED <<scene, label, model, attempt, tries>>
    PROVE  RunInv'
BY DEF IInv, RunInv, OodRunsItsVariant, InAnEpisode

\* The worker that is launched, and the check that is armed, by every release.
LEMMA LoopAfterRelease ==
    ASSUME IInv, NEW outcome, Release(outcome)
    PROVE  LoopInv'
BY DEF IInv, LoopInv, Release, HandBack, Settle

\* A frame of the policy, or none.
LEMMA InvPolicyFrame ==
    ASSUME IInv, InAnEpisode, mode = "replay",
           UNCHANGED <<mode, ids, number, scene, mark, study>>,
           frames' \in {frames, frames \cup {ByPolicy}}
    PROVE  RowFollowsTakeover' /\ RecordInv'
<1>1. /\ Settled(frames, ids.next, study.next, study.rows)
      /\ \A f \in frames \cup mark : f.scene = scene.id
  BY DEF IInv, RecordInv
<1>2. ids.next \in Nat \ {0} /\ study.next \in Nat \ {0}
  BY DEF IInv, TypeInv, RecordOK, Ids, Study
<1>3. Settled(frames', ids.next, study.next, study.rows)
  BY <1>1, <1>2, PolicyFrame
<1>4. \A f \in frames' \cup mark : f.scene = scene.id
  BY <1>1 DEF ByPolicy
<1>5. RowFollowsTakeover'
  BY DEF IInv, RowFollowsTakeover, InAnEpisode
<1>6. QED
  BY <1>3, <1>4, <1>5 DEF RecordInv

LEMMA InvOperator == IInv /\ TypeInv' /\ Operator => IInv'
<1> SUFFICES ASSUME IInv, TypeInv', Operator PROVE IInv'
  OBVIOUS
<1>1. CASE Intervene
  <2>1. /\ at = "drain" /\ at' = "drain" /\ mode = "replay" /\ InAnEpisode /\ InAnEpisode'
        /\ UNCHANGED <<homing, pending, unjudged, number, scene, label, model, attempt, tries,
                       frames>>
    BY <1>1 DEF Intervene, InAnEpisode, stage
  <2>2. RunInv' /\ FiledInv'
    BY <1>1, <2>1, RunStays, NoFileInv DEF Intervene
  <2>3. LoopInv'
    BY <1>1, <2>1 DEF Intervene, IInv, LoopInv
  <2>4. CASE homing
    <3>1. UNCHANGED <<mode, ids, mark, study>>
      BY <1>1, <2>4 DEF Intervene
    <3>2. QED
      BY <2>1, <2>2, <2>3, <3>1, InvPolicyFrame DEF IInv
  <2>5. CASE ~ homing
    <3>1. RowFollowsTakeover' /\ RecordInv'
      BY <1>1, <2>1, <2>5, InvTakeover DEF Intervene
    <3>2. QED
      BY <2>2, <2>3, <3>1 DEF IInv
  <2>6. QED
    BY <2>4, <2>5
<1>2. CASE FinishTakeover \/ CancelTakeover \/ ResetTakeover
  <2>1. /\ InAnEpisode /\ mode = "replan"
        /\ UNCHANGED <<number, scene, label, model, attempt, tries>>
    BY <1>2
    DEF FinishTakeover, CancelTakeover, ResetTakeover, Finish, Cancel, RestartScene, stage,
        InAnEpisode
  <2>2. PICK outcome \in {"completed", "cancelled"} :
             /\ Release(outcome)
             /\ \/ outcome = "completed" /\ frames' = frames
                \/ outcome = "cancelled" /\ frames' \in {mark, mark \cup {ByPolicy}}
    BY <1>2 DEF FinishTakeover, CancelTakeover, ResetTakeover, Finish, Cancel
  <2>3. RowFollowsTakeover' /\ RecordInv'
    BY <2>1, <2>2, InvRelease
  <2>4. RunInv' /\ LoopInv'
    BY <2>1, <2>2, RunStays, LoopAfterRelease
  <2>5. FiledInv'
    BY <1>2, NoFileInv DEF FinishTakeover, CancelTakeover, ResetTakeover
  <2>6. QED
    BY <2>3, <2>4, <2>5 DEF IInv
<1>3. CASE Reset
  <2>1. /\ InAnEpisode /\ mode = "replay" /\ frames' = frames \cup {ByPolicy}
        /\ UNCHANGED <<at, mode, homing, pending, ids, number, scene, label, model, attempt,
                       tries, mark, study, unjudged>>
    BY <1>3 DEF Reset, RestartScene, takeover, InAnEpisode
  <2>2. RowFollowsTakeover' /\ RecordInv'
    BY <2>1, InvPolicyFrame
  <2>3. RunInv' /\ LoopInv' /\ FiledInv'
    BY <1>3, <2>1, RunStays, NoFileInv DEF Reset, IInv, LoopInv
  <2>4. QED
    BY <2>2, <2>3 DEF IInv
<1>4. CASE Mark
  <2>1. /\ InAnEpisode /\ mode = "replay" /\ at' \in {"drain", "off"}
        /\ UNCHANGED <<mode, homing, pending, unjudged>>
    BY <1>4, VerdictType DEF Mark, InAnEpisode, IInv
  <2>2. LoopInv'
    BY <2>1 DEF IInv, LoopInv
  <2>3. QED
    BY <1>4, <2>1, <2>2, InvVerdict DEF Mark, IInv
<1>5. CASE Close
  <2>1. /\ InAnEpisode /\ at' = "off" /\ mode' = "replay" /\ UNCHANGED <<pending, unjudged>>
    BY <1>5 DEF Close, InAnEpisode
  <2>2. FiledInv'
    BY <1>5, <2>1, Filing DEF Close
  <2>3. QED
    BY <2>1, <2>2
    DEF IInv, LoopInv, RunInv, OodRunsItsVariant, RowFollowsTakeover, RecordInv, InAnEpisode
<1>6. QED
  BY <1>1, <1>2, <1>3, <1>4, <1>5 DEF Operator

LEMMA InvTick == IInv /\ TypeInv' /\ Tick => IInv'
<1> SUFFICES ASSUME IInv, TypeInv', Tick PROVE IInv'
  OBVIOUS
<1>1. CASE Drained \/ NotHome
  <2>1. /\ InAnEpisode /\ InAnEpisode' /\ at' \in {"poll", "loop"} /\ NothingFiled
        /\ UNCHANGED <<mode, homing, pending, ids, number, scene, label, model, attempt,
                       tries, frames, mark, study, unjudged>>
    BY <1>1 DEF Drained, NotHome, takeover, stage, record, InAnEpisode
  <2>2. LoopInv' /\ RowFollowsTakeover' /\ RecordInv'
    BY <2>1 DEF IInv, LoopInv, RowFollowsTakeover, RecordInv, InAnEpisode
  <2>3. QED
    BY <2>1, <2>2, RunStays, NoFileInv DEF IInv
<1>2. CASE Home
  <2>1. /\ InAnEpisode /\ InAnEpisode' /\ at' = "loop" /\ NothingFiled /\ mode = "replay"
        /\ ~ homing' /\ Takeover
        /\ UNCHANGED <<pending, number, scene, label, model, attempt, tries, frames, unjudged>>
    BY <1>2 DEF Home, stage, InAnEpisode, IInv, LoopInv, Takeover
  <2>2. LoopInv'
    BY <2>1 DEF IInv, LoopInv
  <2>3. QED
    BY <2>1, <2>2, InvTakeover, RunStays, NoFileInv DEF IInv
<1>3. CASE TickTakeover
  <2>1. /\ InAnEpisode /\ at' = "drain" /\ NothingFiled /\ mode = "replan"
        /\ frames' \in {frames, frames \cup {ByHuman}}
        /\ UNCHANGED <<mode, homing, pending, ids, number, scene, label, model, attempt,
                       tries, mark, study, unjudged>>
    BY <1>3 DEF TickTakeover, takeover, stage, InAnEpisode
  <2>2. LoopInv' /\ RowFollowsTakeover'
    BY <2>1 DEF IInv, LoopInv, RowFollowsTakeover, InAnEpisode
  <2>3. ByHuman.tag = ids.active /\ ByHuman.row = study.row /\ ByHuman.scene = scene.id
    BY DEF ByHuman
  <2> HIDE DEF ByHuman
  <2>4. RecordInv'
    BY <2>1, <2>3 DEF IInv, RecordInv
  <2>5. QED
    BY <2>1, <2>2, <2>4, RunStays, NoFileInv DEF IInv
<1>4. CASE TakeoverError
  <2>1. /\ InAnEpisode /\ mode = "replan" /\ NothingFiled
        /\ Release("cancelled") /\ frames' = mark
        /\ UNCHANGED <<number, scene, label, model, attempt, tries>>
    BY <1>4 DEF TakeoverError, Cancel, stage, InAnEpisode
  <2>2. RowFollowsTakeover' /\ RecordInv'
    BY <2>1, InvRelease
  <2>3. QED
    BY <2>1, <2>2, RunStays, LoopAfterRelease, NoFileInv DEF IInv
<1>5. CASE PolicyStep
  <2>1. /\ InAnEpisode /\ at' = "judge" /\ NothingFiled /\ mode = "replay"
        /\ frames' \in {frames, frames \cup {ByPolicy}}
        /\ UNCHANGED <<mode, homing, pending, ids, number, scene, label, model, attempt,
                       tries, mark, study, unjudged>>
    BY <1>5 DEF PolicyStep, takeover, stage, InAnEpisode
  <2>2. LoopInv'
    BY <2>1 DEF IInv, LoopInv
  <2>3. QED
    BY <2>1, <2>2, InvPolicyFrame, RunStays, NoFileInv DEF IInv
<1>6. CASE JudgeRelease \/ AutoFinish
  <2>1. /\ InAnEpisode /\ mode = "replay" /\ UNCHANGED <<mode, homing>>
        /\ unjudged' = {} \/ UNCHANGED <<unjudged, pending>>
    BY <1>6 DEF JudgeRelease, AutoFinish, InAnEpisode, IInv, LoopInv
  <2>2. LoopInv'
    BY <2>1 DEF IInv, LoopInv
  <2>3. CASE Verdict
    BY <2>1, <2>2, <2>3, InvVerdict DEF IInv
  <2>4. CASE ~ Verdict
    <3>1. /\ NothingFiled /\ frames' = frames
          /\ UNCHANGED <<ids, number, scene, label, model, attempt, tries, mark, study>>
      BY <1>6, <2>4 DEF JudgeRelease, AutoFinish, stage, record
    <3>2. QED
      BY <2>1, <2>2, <3>1, InvPolicyFrame, RunStays, NoFileInv DEF IInv
  <2>5. QED
    BY <2>3, <2>4
<1>7. QED
  BY <1>1, <1>2, <1>3, <1>4, <1>5, <1>6 DEF Tick

LEMMA StepInv == IInv /\ [Next]_vars => IInv'
<1> SUFFICES ASSUME IInv, [Next]_vars PROVE IInv'
  OBVIOUS
<1>1. TypeInv'
  BY StepType DEF IInv
<1>2. CASE Boot
  <2>1. /\ mode = "replay" /\ at' = "drain" /\ NewScene /\ Record(number) /\ NothingFiled
        /\ UNCHANGED <<mode, homing, pending, number, unjudged>>
    BY <1>2 DEF Boot, IInv, LoopInv
  <2>2. LoopInv'
    BY <2>1 DEF IInv, LoopInv
  <2>3. RunInv'
    BY <2>1, NewSceneFacts DEF IInv, RunInv, OodRunsItsVariant
  <2>4. RowFollowsTakeover' /\ RecordInv'
    BY <2>1, FreshRecord DEF IInv, TypeInv, RecordOK
  <2>5. QED
    BY <1>1, <2>1, <2>2, <2>3, <2>4, NoFileInv DEF IInv
<1>3. CASE UNCHANGED vars
  BY <1>1, <1>3
  DEF vars, IInv, LoopInv, RunInv, OodRunsItsVariant, RowFollowsTakeover, RecordInv,
      InAnEpisode, Settled, FiledInv, OneSceneToAFile, FramesFollowRows,
      TagsTellTakeoversApart
<1>4. QED
  BY <1>1, <1>2, <1>3, InvOperator, InvTick DEF Next

LEMMA AlwaysInv == Spec => []IInv
BY InitInv, StepInv, PTL DEF Spec

\* No corpus scene labelled OOD runs on another model than the one it asks for, whatever
\* the build or the allocation of a variant does (app.py:2232-2237).
THEOREM OodSceneHasItsModel == Spec => []OodRunsItsVariant
<1>1. IInv => OodRunsItsVariant
  BY DEF IInv, RunInv
<1>2. QED
  BY <1>1, AlwaysInv, PTL

\* What a labelled episode shows, drawn from the corpus or not.
LabelledScene ==
    InAnEpisode /\ label =>
        /\ model = scene.variant
        /\ scene.drawn # "ood" => scene.variant = Base

LEMMA NewSceneLabelled ==
    ASSUME NewScene, label'
    PROVE  /\ model' = scene'.variant
           /\ scene'.drawn # "ood" => scene'.variant = Base
<1>1. PICK ood \in BOOLEAN :
           \E draw \in Draw(ood) : \E swap \in Swap(draw.variant, ood) : Stage(draw, swap)
  BY DEF NewScene
<1>2. PICK draw \in Draw(ood) : \E swap \in Swap(draw.variant, ood) : Stage(draw, swap)
  BY <1>1
<1>3. PICK swap \in Swap(draw.variant, ood) : Stage(draw, swap)
  BY <1>2
<1>4. draw.drawn # "ood" => draw.variant = Base
  BY DEF Draw
<1>5. swap.label
  BY <1>3 DEF Stage
<1>6. swap = Swapped(draw.variant, ood)
  BY <1>5 DEF Swap, Refused, Unbuilt
<1>7. ~ Redraw(draw.variant, swap)
  BY <1>6 DEF Redraw, Swapped
<1>8. QED
  BY <1>3, <1>4, <1>6, <1>7 DEF Stage, Swapped

\* A scene is staged anew, kept, or the session is over.
LEMMA StagedOrKept ==
    ASSUME [Next]_vars
    PROVE  \/ NewScene
           \/ UNCHANGED <<scene, label, model>> /\ (InAnEpisode' => InAnEpisode)
           \/ ~InAnEpisode'
<1>1. CASE Verdict /\ InAnEpisode
  BY <1>1 DEF Verdict, Succeed, Fail, NextScene, NoScene, Again, RestartScene, InAnEpisode
<1>2. CASE Boot
  BY <1>2 DEF Boot
<1>3. CASE Operator
  BY <1>1, <1>3
  DEF Operator, Intervene, FinishTakeover, CancelTakeover, Reset, ResetTakeover, Mark, Close,
      RestartScene, stage, InAnEpisode
<1>4. CASE Tick
  BY <1>1, <1>4
  DEF Tick, Drained, NotHome, Home, TickTakeover, TakeoverError, JudgeRelease, PolicyStep,
      AutoFinish, stage, InAnEpisode
<1>5. CASE UNCHANGED vars
  BY <1>5 DEF vars, InAnEpisode
<1>6. QED
  BY <1>2, <1>3, <1>4, <1>5 DEF Next

\* LabelIsTrue is violated, but by the draw alone (app.py:660-668): an OOD label is wrong
\* only for an in-distribution scene on the base model.  No refused, failed or reused
\* variant leaves the label on a scene that runs on another model than its own.
THEOREM OnlyTheDrawMislabels == Spec => []LabelledScene
<1>1. Init => LabelledScene
  BY DEF Init, LabelledScene, InAnEpisode
<1>2. LabelledScene /\ [Next]_vars => LabelledScene'
  <2> SUFFICES ASSUME LabelledScene, [Next]_vars PROVE LabelledScene'
    OBVIOUS
  <2>1. CASE NewScene
    BY <2>1, NewSceneLabelled DEF LabelledScene
  <2>2. CASE UNCHANGED <<scene, label, model>> /\ (InAnEpisode' => InAnEpisode)
    BY <2>2 DEF LabelledScene
  <2>3. CASE ~InAnEpisode'
    BY <2>3 DEF LabelledScene
  <2>4. QED
    BY <2>1, <2>2, <2>3, StagedOrKept
<1>3. QED
  BY <1>1, <1>2, PTL DEF Spec

\* No saved episode mixes the frames of two scenes (app.py:2515-2529).
THEOREM EpisodesHaveOneScene == Spec => []OneSceneToAFile
<1>1. IInv => OneSceneToAFile
  BY DEF IInv, FiledInv
<1>2. QED
  BY <1>1, AlwaysInv, PTL

\* The frames of a saved episode are those its takeover rows account for
\* (app.py:4213-4261, 4290-4299).
THEOREM FilesMatchTheLog == Spec => []FramesFollowRows
<1>1. IInv => FramesFollowRows
  BY DEF IInv, FiledInv
<1>2. QED
  BY <1>1, AlwaysInv, PTL

\* The reused ids never make two takeovers of one file look like one
\* (app.py:3656, 4234-4236).
THEOREM TagsAreDistinct == Spec => []TagsTellTakeoversApart
<1>1. IInv => TagsTellTakeoversApart
  BY DEF IInv, FiledInv
<1>2. QED
  BY <1>1, AlwaysInv, PTL

\* No path into or out of a takeover leaves a row open or without one
\* (app.py:3396-3412, 4213-4219).
THEOREM RowsFollowTakeovers == Spec => []RowFollowsTakeover
<1>1. IInv => RowFollowsTakeover
  BY DEF IInv
<1>2. QED
  BY <1>1, AlwaysInv, PTL

\* A failed OOD scene is not run more often than its budget (app.py:2846-2870).
THEOREM BoundedRetries == Spec => []RetryBudget
<1>1. IInv => RetryBudget
  BY DEF IInv, RunInv, RetryBudget
<1>2. QED
  BY <1>1, AlwaysInv, PTL

\* The policy does not act on what a release handed back to it while the check of it is
\* outstanding, whatever happens in between (app.py:4515-4522).
THEOREM CheckComesFirst == Spec => PolicyWaitsForCheck
<1>1. ASSUME IInv, [Next]_vars, at' = "judge", vars' # vars PROVE unjudged \subseteq {"settled"}
  <2>1. PolicyStep
    <3>1. ~ Verdict
      BY <1>1, VerdictType DEF IInv
    <3>2. QED
      BY <1>1, <3>1
      DEF Next, Operator, Tick, Boot, Intervene, FinishTakeover, CancelTakeover, Reset,
          ResetTakeover, Mark, Close, Drained, NotHome, Home, TickTakeover, TakeoverError,
          JudgeRelease, PolicyStep, AutoFinish, takeover
  <2>2. QED
    BY <1>1, <2>1 DEF PolicyStep, IInv, TypeInv, LoopOK, LoopInv
<1>2. IInv /\ [Next]_vars => [at' = "judge" => unjudged \subseteq {"settled"}]_vars
  BY <1>1
<1>3. QED
  BY <1>2, AlwaysInv, PTL DEF Spec, PolicyWaitsForCheck
=============================================================================
