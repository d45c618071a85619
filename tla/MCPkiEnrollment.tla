--------------------------- MODULE MCPkiEnrollment ---------------------------
(* Model-checking instance of PkiEnrollment: the constants come from the cfg. *)
EXTENDS PkiEnrollment, TLC
=============================================================================
