----------------------------- MODULE ArmSchedule -----------------------------
(***************************************************************************)
(* What the policy processes promise about the one arm they share: each    *)
(* takes it, drives it through one takeover and one return-home, in that   *)
(* order and never both, and lets it go only at rest or by exiting.        *)
(***************************************************************************)
CONSTANTS
    Session,    \* the processes that drive the arm in this order
    Proc        \* those, and the others that may own it

VARIABLES
    owners,     \* the processes that own the arm
    doing       \* what commands the arm: "takeover", "home"

Init ==
    /\ owners = {}
    /\ doing = [s \in Session |-> {}]

Turn(s, from, to) ==
    /\ doing[s] = from
    /\ doing' = [doing EXCEPT ![s] = to]
    /\ UNCHANGED owners

Take(p) ==
    /\ owners = {}
    /\ owners' = {p}
    /\ UNCHANGED doing

Begin(s) == s \in owners /\ Turn(s, {}, {"takeover"})

GoHome(s) == Turn(s, {"takeover"}, {"home"})

Arrive(s) == Turn(s, {"home"}, {})

\* Given back, or lost with the process: what it was doing ends with it.
LetGo(p) ==
    /\ p \in owners
    /\ owners' = owners \ {p}
    /\ doing' = [s \in Session |-> IF s = p THEN {} ELSE doing[s]]

Next ==
    \/ \E p \in Proc : Take(p) \/ LetGo(p)
    \/ \E s \in Session : Begin(s) \/ GoHome(s) \/ Arrive(s)

Spec == Init /\ [][Next]_<<owners, doing>>
=============================================================================
