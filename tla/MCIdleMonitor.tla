---------------------------- MODULE MCIdleMonitor ----------------------------
(***************************************************************************)
(* The monitor with a timeout of two ticks, a warning one tick before it,  *)
(* two readings of the traffic counters and three Starts, so that loops of *)
(* a stopped and of a timed-out run meet a third one.                      *)
(***************************************************************************)
EXTENDS IdleMonitor
=============================================================================
