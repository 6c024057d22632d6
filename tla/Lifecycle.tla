------------------------------ MODULE Lifecycle ------------------------------
(***************************************************************************)
(* What the controller promises about one VPN session after another,       *)
(* without locks, goroutines or contexts: a session that is being raised   *)
(* comes up or, if it was asked to stop, fails; a session that fails or    *)
(* is lowered is cleaned up; the next begins only when nothing is left.    *)
(***************************************************************************)
EXTENDS Naturals

CONSTANT MaxSessions

VARIABLES
    phase,     \* where the current session is
    session,   \* sessions begun so far
    stopped    \* the sessions that were asked to stop

vars == <<phase, session, stopped>>

Phase == {"down", "raising", "up", "lowering", "failed"}

Init == phase = "down" /\ session = 0 /\ stopped = {}

Move(from, to) == phase = from /\ phase' = to /\ UNCHANGED <<session, stopped>>

Raise ==
    /\ phase = "down"
    /\ session < MaxSessions
    /\ phase' = "raising"
    /\ session' = session + 1
    /\ UNCHANGED stopped

Stop(k) ==
    /\ k \in 1..session \ stopped
    /\ stopped' = stopped \cup {k}
    /\ UNCHANGED <<phase, session>>

Succeed == Move("raising", "up")
Fail    == session \in stopped /\ Move("raising", "failed")
Lower   == Move("up", "lowering")
Clean   == Move("lowering", "down") \/ Move("failed", "down")

Next ==
    \/ Raise \/ Succeed \/ Fail \/ Lower \/ Clean
    \/ \E k \in 1..MaxSessions : Stop(k)

SafeSpec == Init /\ [][Next]_vars

\* Raising and cleaning come to an end; lowering is the user's choice.
Spec == SafeSpec /\ WF_vars(Succeed \/ Fail) /\ WF_vars(Clean)

=============================================================================
