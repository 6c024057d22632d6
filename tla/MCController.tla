---------------------------- MODULE MCController ----------------------------
(***************************************************************************)
(* The controller on a small instance: two callers, so that calls overlap, *)
(* two worker slots (one more than ever runs: handleError and the cleanup  *)
(* it starts), and two sessions, so that something of the first can reach  *)
(* into the second.                                                        *)
(***************************************************************************)
EXTENDS Controller
=============================================================================
