------------------------------ MODULE MCOodBand ------------------------------
(* OodBand on the instances of the configurations. *)
EXTENDS OodBand

=============================================================================
