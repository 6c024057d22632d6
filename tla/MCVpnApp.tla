------------------------------ MODULE MCVpnApp ------------------------------
(***************************************************************************)
(* The wired program on a small instance: two handler goroutines, so that  *)
(* a second click overtakes or follows the first, and two sessions.        *)
(***************************************************************************)
EXTENDS VpnApp
=============================================================================
