---------------------------- MODULE MCArmSession ----------------------------
(* ArmSession on the instances of the configurations. *)
EXTENDS ArmSession

=============================================================================
