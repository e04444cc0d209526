------------------------------- MODULE OodQuota -------------------------------
(***************************************************************************)
(* What the OOD ledger promises: the sessions of a launch decide one at a  *)
(* time, each on what all the others show at that moment, and a session    *)
(* that is labelled OOD shows it.  The rule is fill-to-MAX.                *)
(***************************************************************************)
EXTENDS Integers, FiniteSets

CONSTANTS Session, Initial, Min, Max

VARIABLES
    live,       \* the sessions that have not exited
    shown,      \* what each session shows: "none", "id" or "ood"
    label       \* what each session runs

Init ==
    /\ live = Session
    /\ shown = [s \in Session |-> "none"]
    /\ label = [s \in Session |-> FALSE]

Set(f, s, v) == f' = [f EXCEPT ![s] = v]

\* s shows and runs what it has decided; sessions that have exited may be forgotten.
Show(s, ood, forgotten) ==
    /\ shown' = [t \in Session |-> IF t = s THEN (IF ood THEN "ood" ELSE "id")
                                   ELSE IF t \in forgotten THEN "none" ELSE shown[t]]
    /\ Set(label, s, ood)
    /\ UNCHANGED live

\* The launcher's assignment, before s has shown anything.
Register(s) ==
    /\ s \in live /\ shown[s] = "none" /\ ~label[s]
    /\ \E forgotten \in SUBSET (Session \ live) : Show(s, s \in Initial, forgotten)

\* An OOD session leaves only while the floor stays covered, an ID session enters while
\* there is room.  One that has exited meanwhile may still be counted.
Decide(s) ==
    /\ s \in live
    /\ \E forgotten \in SUBSET (Session \ live) :
          LET others == Cardinality({t \in Session \ (forgotten \cup {s}) : shown[t] = "ood"})
          IN  Show(s, others < (IF label[s] THEN Min ELSE Max), forgotten)

\* A decision that could not be shown is ID.
StayId(s) ==
    /\ s \in live
    /\ Set(label, s, FALSE)
    /\ UNCHANGED <<live, shown>>

Exit(s) ==
    /\ live' = live \ {s}
    /\ Set(label, s, FALSE)
    /\ UNCHANGED shown

Next == \E s \in Session : Register(s) \/ Decide(s) \/ StayId(s) \/ Exit(s)

Spec == Init /\ [][Next]_<<live, shown, label>>
=============================================================================
