------------------------------- MODULE ArmMutex -------------------------------
(***************************************************************************)
(* What RobotOwnershipLock promises its callers: the arm has one owner at  *)
(* a time, a process takes it only when nobody has it, and it loses it     *)
(* only by giving it back or by dying.                                     *)
(***************************************************************************)
EXTENDS Naturals

CONSTANT Proc

VARIABLE owners     \* the processes that hold the arm

Init == owners = {}

Take(p) == owners = {} /\ owners' = {p}

Drop(p) == p \in owners /\ owners' = owners \ {p}

Next == \E p \in Proc : Take(p) \/ Drop(p)

Spec == Init /\ [][Next]_owners
=============================================================================
