-------------------------------- MODULE MCAWS --------------------------------
(***************************************************************************)
(* The AWS provider with two sessions, so that one meets what another left *)
(* in memory, on disk or in the cloud, and two faults, so that the         *)
(* handling of one can fail by the second.                                 *)
(***************************************************************************)
EXTENDS AWS
=============================================================================
