--------------------------- MODULE MCCredentials ---------------------------
(***************************************************************************)
(* Two clients and two failures: one client, or two of them, can fail or   *)
(* end in the middle of a call of the other.                               *)
(***************************************************************************)
EXTENDS Credentials, TLC

CONSTANTS c1, c2

ClientSymmetry == Permutations({c1, c2})
=============================================================================
