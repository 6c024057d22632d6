----------------------------- MODULE IdleMonitor -----------------------------
(***************************************************************************)
(* The idle monitor, src/internal/app/idle.go.  Start, Stop and the        *)
(* activity reports come from any goroutine and take the lock once.  Every *)
(* accepted Start makes a channel and a monitorLoop goroutine; both are    *)
(* numbered by the Start, and the channel 0 is nil.  A loop that decides   *)
(* on a callback runs it after it has released the lock.                   *)
(*                                                                         *)
(* Time passes in units of the loops' 30 second ticker.                    *)
(***************************************************************************)
EXTENDS Naturals

CONSTANTS
    Timeout, WarningPeriod,   \* in ticks
    Traffic,                  \* readings of the traffic counters
    MaxStarts                 \* bound on the number of accepted Starts

ASSUME IdleAssumption ==
    /\ Timeout \in Nat \ {0}
    /\ WarningPeriod \in Nat
    /\ MaxStarts \in Nat

VARIABLES
    enabled, warningShown, lastBytes,
    idle,        \* ticks since lastActivity, counted up to Timeout
    stopCh,      \* the current channel, 0 for nil
    closed,      \* channels that are closed
    starts,      \* Starts accepted so far
    loop,        \* where each monitorLoop is
    ticked,      \* loops in whose ticker a tick is waiting
    (* history, for the properties only *)
    timeouts,    \* timeouts decided so far
    warnings,    \* warnings decided since the last activity
    stopped      \* Starts that a Stop has ended

monitor == <<enabled, warningShown, lastBytes, stopCh, closed, starts>>
history == <<timeouts, warnings, stopped>>
vars    == <<monitor, idle, loop, ticked, history>>

Loop   == 1..MaxStarts
LoopPC == {"none", "select", "onWarning", "onTimeout", "ended"}
Alive  == {l \in Loop : loop[l] \notin {"none", "ended"}}

Init ==
    /\ enabled = FALSE /\ warningShown = FALSE
    /\ lastBytes \in Traffic
    /\ idle = 0
    /\ stopCh = 0 /\ closed = {} /\ starts = 0
    /\ loop = [l \in Loop |-> "none"]
    /\ ticked = {}
    /\ timeouts = 0 /\ warnings = 0 /\ stopped = {}

-----------------------------------------------------------------------------
\* Mutant: a channel that is there already is used again.
Start_KeepsChannel ==
    /\ ~enabled
    /\ starts < MaxStarts
    /\ enabled' = TRUE /\ warningShown' = FALSE /\ idle' = 0 /\ warnings' = 0
    /\ starts' = starts + 1
    /\ stopCh' = IF stopCh = 0 THEN starts + 1 ELSE stopCh
    /\ loop' = [loop EXCEPT ![starts + 1] = "select"]
    /\ UNCHANGED <<lastBytes, closed, ticked, timeouts, stopped>>

\* Starting an enabled monitor changes nothing.
Start ==
    /\ ~enabled
    /\ starts < MaxStarts
    /\ enabled' = TRUE
    /\ warningShown' = FALSE
    /\ idle' = 0
    /\ starts' = starts + 1
    /\ stopCh' = starts + 1
    /\ loop' = [loop EXCEPT ![starts + 1] = "select"]
    /\ warnings' = 0
    /\ UNCHANGED <<lastBytes, closed, ticked, timeouts, stopped>>

\* Mutant: Stop closes the channel of a monitor that is not enabled.
Stop_Unchecked ==
    /\ enabled' = FALSE
    /\ closed' = closed \cup {stopCh}
    /\ stopCh' = 0
    /\ stopped' = IF enabled THEN stopped \cup {starts} ELSE stopped
    /\ UNCHANGED <<warningShown, lastBytes, starts, idle, loop, ticked, timeouts, warnings>>

\* Mutant: Stop forgets to close the channel.
Stop_NoClose ==
    /\ enabled
    /\ enabled' = FALSE
    /\ stopCh' = 0
    /\ stopped' = stopped \cup {starts}
    /\ UNCHANGED <<warningShown, lastBytes, starts, closed, idle, loop, ticked, timeouts,
                   warnings>>

\* Stopping a monitor that is not enabled changes nothing.
Stop ==
    /\ enabled
    /\ enabled' = FALSE
    /\ closed' = closed \cup ({stopCh} \ {0})
    /\ stopCh' = 0
    /\ stopped' = stopped \cup {starts}
    /\ UNCHANGED <<warningShown, lastBytes, starts, idle, loop, ticked, timeouts, warnings>>

\* Mutant: new traffic does not allow a new warning.
UpdateActivity_KeepsWarning(b) ==
    /\ b # lastBytes
    /\ lastBytes' = b
    /\ idle' = 0
    /\ warnings' = 0
    /\ UNCHANGED <<enabled, warningShown, stopCh, closed, starts, loop, ticked, timeouts, stopped>>

UpdateActivity(b) ==
    /\ b # lastBytes
    /\ lastBytes' = b
    /\ idle' = 0
    /\ warningShown' = FALSE
    /\ warnings' = 0
    /\ UNCHANGED <<enabled, stopCh, closed, starts, loop, ticked, timeouts, stopped>>

ResetActivity ==
    /\ idle' = 0
    /\ warningShown' = FALSE
    /\ warnings' = 0
    /\ UNCHANGED <<enabled, lastBytes, stopCh, closed, starts, loop, ticked,
                   timeouts, stopped>>

\* A tick that its loop has not taken yet is not doubled: the ticker's
\* channel holds one.
TimePasses ==
    /\ idle' = IF idle < Timeout THEN idle + 1 ELSE idle
    /\ ticked' = Alive
    /\ UNCHANGED <<monitor, loop, history>>

\* idleTime >= timeout - warningPeriod, which may be negative.
WarningDue == idle + WarningPeriod >= Timeout

\* Mutant: a timeout leaves the monitor enabled.
checkIdle_StaysEnabled(l) ==
    /\ enabled /\ idle >= Timeout
    /\ loop' = [loop EXCEPT ![l] = "onTimeout"]
    /\ timeouts' = timeouts + 1
    /\ UNCHANGED <<monitor, warnings, stopped>>

\* Mutant: the warning is due again and again and comes before the timeout.
checkIdle_WarningFirst(l) ==
    /\ enabled /\ WarningDue
    /\ warningShown' = TRUE
    /\ loop' = [loop EXCEPT ![l] = "onWarning"]
    /\ warnings' = 1
    /\ UNCHANGED <<enabled, lastBytes, stopCh, closed, starts, timeouts, stopped>>

\* checkIdle, up to its unlock.
checkIdle(l) ==
    \/ /\ ~enabled
       /\ UNCHANGED <<monitor, loop, history>>
    \/ /\ enabled /\ idle >= Timeout
       /\ enabled' = FALSE
       /\ loop' = [loop EXCEPT ![l] = "onTimeout"]
       /\ timeouts' = timeouts + 1
       /\ UNCHANGED <<warningShown, lastBytes, stopCh, closed, starts, warnings, stopped>>
    \/ /\ enabled /\ idle < Timeout
       /\ WarningDue /\ ~warningShown
       /\ warningShown' = TRUE
       /\ loop' = [loop EXCEPT ![l] = "onWarning"]
       /\ warnings' = warnings + 1
       /\ UNCHANGED <<enabled, lastBytes, stopCh, closed, starts, timeouts, stopped>>
    \/ /\ enabled /\ idle < Timeout
       /\ ~WarningDue \/ warningShown
       /\ UNCHANGED <<monitor, loop, history>>

\* The two branches of monitorLoop's select.
LoopTick(l) ==
    /\ loop[l] = "select"
    /\ l \in ticked
    /\ ticked' = ticked \ {l}
    /\ checkIdle(l)
    /\ UNCHANGED idle

LoopStops(l) ==
    /\ loop[l] = "select"
    /\ l \in closed
    /\ loop' = [loop EXCEPT ![l] = "ended"]
    /\ ticked' = ticked \ {l}
    /\ UNCHANGED <<monitor, idle, history>>

\* onWarning or onTimeout returns, and the loop goes back to its select.
CallbackReturns(l) ==
    /\ loop[l] \in {"onWarning", "onTimeout"}
    /\ loop' = [loop EXCEPT ![l] = "select"]
    /\ UNCHANGED <<monitor, idle, ticked, history>>

Next ==
    \/ Start \/ Stop \/ ResetActivity
    \/ \E b \in Traffic : UpdateActivity(b)
    \/ TimePasses
    \/ \E l \in Loop : LoopTick(l) \/ LoopStops(l) \/ CallbackReturns(l)

Spec == Init /\ [][Next]_vars

\* Time passes, callbacks return, and a select whose branches are ready again
\* and again takes each of them some time: the runtime chooses at random.
FairSpec ==
    /\ Spec
    /\ WF_vars(TimePasses)
    /\ \A l \in Loop : /\ SF_vars(LoopTick(l))
                       /\ SF_vars(LoopStops(l))
                       /\ WF_vars(CallbackReturns(l))

-----------------------------------------------------------------------------
TypeOK ==
    /\ enabled \in BOOLEAN /\ warningShown \in BOOLEAN
    /\ lastBytes \in Traffic
    /\ idle \in 0..Timeout
    /\ stopCh \in 0..MaxStarts /\ closed \subseteq Loop
    /\ starts \in 0..MaxStarts
    /\ loop \in [Loop -> LoopPC] /\ ticked \subseteq Loop
    /\ timeouts \in Nat /\ warnings \in Nat /\ stopped \subseteq Loop

\* An enabled monitor is watched: the channel Stop would close is that of the
\* latest Start, it is open, and its loop is alive.  Stops and Starts in quick
\* succession, and loops of earlier Starts that have not ended yet, never
\* leave an enabled monitor without the loop that would time it out.
EnabledIsWatched ==
    enabled => /\ stopCh = starts
               /\ stopCh \in Alive \ closed

\* A Start is spent by at most one timeout, and while the monitor is enabled
\* the latest Start is not spent yet, although several loops may check it.
OneTimeoutPerStart == timeouts + (IF enabled THEN 1 ELSE 0) <= starts

\* The user is warned once per idle period, whichever loops check it.
WarnedOncePerIdlePeriod == warnings = IF warningShown THEN 1 ELSE 0

\* A monitor that stays idle is ended, unless it is stopped or sees activity.
IdleIsEnded == enabled /\ idle = Timeout ~> ~enabled \/ idle < Timeout

\* A loop whose monitor was stopped ends, also if it is running a callback or
\* the monitor has been started again.
StoppedLoopsEnd == \A l \in Loop : l \in stopped ~> loop[l] = "ended"

\* When a later Start has made a loop of its own, earlier loops come to an
\* end: "Starting twice should not create multiple goroutines".
EarlierLoopsEnd == \A l \in Loop : l < starts ~> loop[l] = "ended"

=============================================================================
