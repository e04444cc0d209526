----------------------------- MODULE MCRobotLock -----------------------------
(* RobotLock on the instances of the configurations. *)
EXTENDS RobotLock

=============================================================================
