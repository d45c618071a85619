----------------------------- MODULE MCPGHandler -----------------------------
(* PGHandler instantiated for TLC: callers, stoppers and signals as model  *)
(* values and strings given in the .cfg files.                             *)
EXTENDS PGHandler, TLC
=============================================================================
