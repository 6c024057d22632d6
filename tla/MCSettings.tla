----------------------------- MODULE MCSettings -----------------------------
(***************************************************************************)
(* The settings window with two faults, a write that fails after another   *)
(* was interrupted, and a queue in which a Show and a Hide can meet.  The  *)
(* configurations choose the kinds of mutex.                               *)
(***************************************************************************)
EXTENDS Settings
=============================================================================
