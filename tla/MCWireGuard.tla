---------------------------- MODULE MCWireGuard ----------------------------
(***************************************************************************)
(* Two sessions, to tell a tunnel from the one an earlier session left,    *)
(* and four faults: a crash, a command that fails and the next ones that   *)
(* meet what they left.                                                    *)
(***************************************************************************)
EXTENDS WireGuard, TLC

CONSTANTS s1, s2

SessionSymmetry == Permutations({s1, s2})
=============================================================================
