--------------------------- MODULE MCLocalManifest ---------------------------
(* Model-checking instance of LocalManifest: the constants come from the cfg. *)
EXTENDS LocalManifest, TLC
=============================================================================
