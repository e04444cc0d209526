--------------------------- MODULE MCVariantCache ---------------------------
(* VariantCache with three variants, one of which may not compile. *)
EXTENDS VariantCache

=============================================================================
