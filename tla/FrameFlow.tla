------------------------------ MODULE FrameFlow ------------------------------
(***************************************************************************)
(* What the point-cloud pipeline promises: per camera the latest frame     *)
(* waits, a frame is built by one worker and its cloud shown once, and no  *)
(* frame is taken up after a later one of its camera.  Which of two builds *)
(* under way ends first is left open.                                      *)
(***************************************************************************)
EXTENDS Naturals

CONSTANT Frame      \* records with a camera and a sequence number

VARIABLES
    waiting,    \* the frames to build
    building,   \* the frames being built
    built,      \* the clouds to show
    shown       \* the clouds of the last showing

Init == waiting = {} /\ building = {} /\ built = {} /\ shown = {}

Others(frames, f) == {g \in frames : g.cam # f.cam}

Arrive(f) ==
    /\ \A g \in building \cup built : g.cam = f.cam => g.seq < f.seq
    /\ waiting' = Others(waiting, f) \cup {f}
    /\ shown' = {}
    /\ UNCHANGED <<building, built>>

Begin(f) ==
    /\ f \in waiting
    /\ \A g \in building \cup built : g.cam = f.cam => g.seq < f.seq
    /\ waiting' = waiting \ {f}
    /\ building' = building \cup {f}
    /\ shown' = {}
    /\ UNCHANGED <<built>>

\* A build may come to nothing.
End(f) ==
    /\ f \in building
    /\ building' = building \ {f}
    /\ built' \in {built, Others(built, f) \cup {f}}
    /\ shown' = {}
    /\ UNCHANGED <<waiting>>

Show(frames) ==
    /\ frames \subseteq built
    /\ shown' = frames
    /\ built' = {}
    /\ UNCHANGED <<waiting, building>>

\* Nothing that was dropped comes back.
Drop ==
    /\ waiting' \in {waiting, {}}
    /\ built' \in {built, {}}
    /\ shown' = {}
    /\ UNCHANGED <<building>>

Next ==
    \/ \E f \in Frame : Arrive(f) \/ Begin(f) \/ End(f)
    \/ \E frames \in SUBSET built : Show(frames)
    \/ Drop

Spec == Init /\ [][Next]_<<waiting, building, built, shown>>
=============================================================================
