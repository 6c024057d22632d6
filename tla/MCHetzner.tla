------------------------------ MODULE MCHetzner ------------------------------
(***************************************************************************)
(* The Hetzner provider with two sessions, so that one meets what another  *)
(* left in memory, on disk or in the cloud, and three faults, so that the  *)
(* handling of one fault can fail by the second.                           *)
(***************************************************************************)
EXTENDS Hetzner
=============================================================================
