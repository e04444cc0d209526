--------------------------- MODULE MCFactrService ---------------------------
(* FactrService on the instances of the configurations. *)
EXTENDS FactrService

=============================================================================
