-------------------------- MODULE MCInvitedTransport --------------------------
(* InvitedTransport instantiated for TLC: tasks and the closing task as    *)
(* model values given in the .cfg files.                                   *)
EXTENDS InvitedTransport, TLC
=============================================================================
