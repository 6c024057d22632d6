------------------------- MODULE IdleMonitor_proofs -------------------------
(***************************************************************************)
(* The safety invariants of the idle monitor, for every timeout, warning   *)
(* period, set of counter readings and number of Starts.                   *)
(***************************************************************************)
EXTENDS IdleMonitor, TLAPS

\* Only channels of Starts that have happened are closed.
ClosedWereMade == closed \subseteq 1..starts

\* What makes the invariants inductive: a Start gets a channel that nobody
\* has closed, and a loop that ends is never the one that watches.
IInv ==
    /\ TypeOK
    /\ ClosedWereMade
    /\ EnabledIsWatched
    /\ OneTimeoutPerStart
    /\ WarnedOncePerIdlePeriod

LEMMA InitIInv == Init => IInv
<1> SUFFICES ASSUME Init PROVE IInv
  OBVIOUS
<1> USE IdleAssumption DEF IdleAssumption, Init
<1>1. TypeOK
  <2>1. loop \in [Loop -> LoopPC]
    BY DEF LoopPC
  <2>2. ticked \subseteq Loop
    OBVIOUS
  <2>3. enabled \in BOOLEAN /\ warningShown \in BOOLEAN
    BY Zenon
  <2>4. /\ idle \in 0..Timeout /\ stopCh \in 0..MaxStarts /\ starts \in 0..MaxStarts
        /\ closed \subseteq Loop /\ stopped \subseteq Loop
        /\ timeouts \in Nat /\ warnings \in Nat
    OBVIOUS
  <2> QED
    BY <2>1, <2>2, <2>3, <2>4, Zenon DEF TypeOK
<1>2. ClosedWereMade /\ EnabledIsWatched
  BY DEF ClosedWereMade, EnabledIsWatched
<1>3. OneTimeoutPerStart /\ WarnedOncePerIdlePeriod
  BY DEF OneTimeoutPerStart, WarnedOncePerIdlePeriod
<1> QED
  BY <1>1, <1>2, <1>3 DEF IInv

\* An accepted Start makes a new channel and a new loop.
LEMMA StartStep ==
    ASSUME IInv, Start
    PROVE  IInv'
<1> USE IdleAssumption DEF IdleAssumption, IInv
<1>1. /\ starts \in Nat /\ starts + 1 \in Loop
      /\ starts' = starts + 1 /\ stopCh' = starts + 1 /\ closed' = closed
      /\ loop' = [loop EXCEPT ![starts + 1] = "select"]
      /\ loop \in [Loop -> LoopPC]
  BY DEF Start, TypeOK, Loop
<1>2. TypeOK'
  <2>1. loop' \in [Loop -> LoopPC]
    BY <1>1 DEF LoopPC
  <2>2. UNCHANGED <<lastBytes, closed, ticked, timeouts, stopped>>
    BY DEF Start
  <2>3. enabled' \in BOOLEAN /\ warningShown' \in BOOLEAN
    BY Zenon DEF Start
  <2>4. /\ idle' \in 0..Timeout /\ warnings' \in Nat
        /\ starts' \in 0..MaxStarts /\ stopCh' \in 0..MaxStarts
    BY <1>1 DEF Start, Loop
  <2> QED
    BY <2>1, <2>2, <2>3, <2>4, Zenon DEF TypeOK
<1>3. ClosedWereMade'
  BY <1>1 DEF ClosedWereMade
<1>4. EnabledIsWatched'
  <2>1. starts + 1 \notin closed
    BY <1>1 DEF ClosedWereMade
  <2>2. loop'[starts + 1] = "select"
    BY <1>1
  <2> QED
    BY <1>1, <2>1, <2>2 DEF EnabledIsWatched, Alive
<1>5. OneTimeoutPerStart'
  BY DEF Start, OneTimeoutPerStart, TypeOK
<1>6. WarnedOncePerIdlePeriod'
  BY DEF Start, WarnedOncePerIdlePeriod
<1> QED
  BY <1>2, <1>3, <1>4, <1>5, <1>6

\* Stop closes the channel of the latest Start.
LEMMA StopStep ==
    ASSUME IInv, Stop
    PROVE  IInv'
<1> USE IdleAssumption DEF IdleAssumption, IInv
<1>1. /\ starts \in Loop /\ stopCh = starts
      /\ closed' = closed \cup {starts} /\ starts' = starts
      /\ ~enabled'
  BY DEF Stop, EnabledIsWatched, Alive, TypeOK, Loop
<1>2. TypeOK'
  <2>1. /\ stopCh' \in 0..MaxStarts
        /\ closed' \subseteq Loop /\ stopped' \subseteq Loop
    BY <1>1 DEF Stop, TypeOK
  <2>3. enabled' \in BOOLEAN
    BY Zenon DEF Stop
  <2>2. UNCHANGED <<warningShown, lastBytes, idle, starts, loop, ticked, timeouts,
                    warnings>>
    BY DEF Stop
  <2> QED
    BY <2>1, <2>2, <2>3, Zenon DEF TypeOK
<1>3. ClosedWereMade'
  BY <1>1 DEF ClosedWereMade, Loop
<1>4. EnabledIsWatched'
  BY <1>1 DEF EnabledIsWatched
<1>5. OneTimeoutPerStart'
  BY DEF Stop, OneTimeoutPerStart, TypeOK
<1>6. WarnedOncePerIdlePeriod'
  BY DEF Stop, WarnedOncePerIdlePeriod
<1> QED
  BY <1>2, <1>3, <1>4, <1>5, <1>6

\* Activity and time change no channel and no loop.
LEMMA ClockStep ==
    ASSUME IInv, ResetActivity \/ TimePasses \/ \E b \in Traffic : UpdateActivity(b)
    PROVE  IInv'
<1> USE IdleAssumption DEF IdleAssumption, IInv
<1>1. UNCHANGED <<enabled, stopCh, closed, starts, loop, timeouts, stopped>>
  BY DEF ResetActivity, TimePasses, UpdateActivity, monitor, history
<1>2. \/ warningShown' = FALSE /\ warnings' = 0
      \/ UNCHANGED <<warningShown, warnings>>
  BY DEF ResetActivity, TimePasses, UpdateActivity, monitor, history
<1>3. idle' \in 0..Timeout
  BY DEF ResetActivity, TimePasses, UpdateActivity, TypeOK
<1>4. lastBytes' \in Traffic
  BY DEF ResetActivity, TimePasses, UpdateActivity, monitor, TypeOK
<1>5. ticked' \subseteq Loop
  BY DEF ResetActivity, TimePasses, UpdateActivity, TypeOK, Alive
<1>6. TypeOK'
  <2>1. warningShown' \in BOOLEAN
    BY <1>2, Zenon DEF TypeOK
  <2>2. warnings' \in Nat
    BY <1>2 DEF TypeOK
  <2> QED
    BY <1>1, <1>3, <1>4, <1>5, <2>1, <2>2, Zenon DEF TypeOK
<1>7. ClosedWereMade' /\ EnabledIsWatched' /\ OneTimeoutPerStart'
  BY <1>1 DEF ClosedWereMade, EnabledIsWatched, Alive, OneTimeoutPerStart
<1>8. WarnedOncePerIdlePeriod'
  BY <1>2 DEF WarnedOncePerIdlePeriod
<1> QED
  BY <1>6, <1>7, <1>8

\* A tick: of the loops that may check the monitor, one spends the Start.
LEMMA TickStep ==
    ASSUME IInv, NEW l \in Loop, LoopTick(l)
    PROVE  IInv'
<1> USE IdleAssumption DEF IdleAssumption, IInv
<1>1. /\ UNCHANGED <<lastBytes, idle, stopCh, closed, starts, stopped>>
      /\ ticked' = ticked \ {l}
      /\ loop[l] = "select"
  BY DEF LoopTick, checkIdle, monitor, history
<1>2. \/ UNCHANGED <<enabled, warningShown, loop, timeouts, warnings>>
      \/ /\ enabled /\ ~enabled'
         /\ loop' = [loop EXCEPT ![l] = "onTimeout"]
         /\ timeouts' = timeouts + 1
         /\ UNCHANGED <<warningShown, warnings>>
      \/ /\ ~warningShown /\ warningShown'
         /\ loop' = [loop EXCEPT ![l] = "onWarning"]
         /\ warnings' = warnings + 1
         /\ UNCHANGED <<enabled, timeouts>>
  BY DEF LoopTick, checkIdle, monitor, history
<1>3. enabled' \in BOOLEAN /\ warningShown' \in BOOLEAN
  BY <1>2 DEF LoopTick, checkIdle, monitor, TypeOK
<1>4. TypeOK'
  BY <1>1, <1>2, <1>3 DEF TypeOK, LoopPC
<1>5. ClosedWereMade'
  BY <1>1 DEF ClosedWereMade
<1>6. EnabledIsWatched'
  BY <1>1, <1>2 DEF EnabledIsWatched, Alive, TypeOK
<1>7. OneTimeoutPerStart'
  BY <1>1, <1>2 DEF OneTimeoutPerStart, TypeOK
<1>8. WarnedOncePerIdlePeriod'
  BY <1>2 DEF WarnedOncePerIdlePeriod, TypeOK
<1> QED
  BY <1>4, <1>5, <1>6, <1>7, <1>8

\* A loop ends only when its own channel is closed.
LEMMA LoopStep ==
    ASSUME IInv, NEW l \in Loop, LoopStops(l) \/ CallbackReturns(l)
    PROVE  IInv'
<1> USE IdleAssumption DEF IdleAssumption, IInv
<1>1. UNCHANGED <<enabled, warningShown, lastBytes, idle, stopCh, closed, starts,
                  timeouts, warnings, stopped>>
  BY DEF LoopStops, CallbackReturns, monitor, history
<1>2. \/ loop' = [loop EXCEPT ![l] = "ended"] /\ l \in closed
      \/ loop' = [loop EXCEPT ![l] = "select"]
  BY DEF LoopStops, CallbackReturns
<1>3. ticked' \subseteq Loop
  BY DEF LoopStops, CallbackReturns, TypeOK
<1>4. TypeOK'
  BY <1>1, <1>2, <1>3 DEF TypeOK, LoopPC
<1>5. ClosedWereMade' /\ OneTimeoutPerStart' /\ WarnedOncePerIdlePeriod'
  BY <1>1 DEF ClosedWereMade, OneTimeoutPerStart, WarnedOncePerIdlePeriod
<1>6. EnabledIsWatched'
  BY <1>1, <1>2 DEF EnabledIsWatched, Alive, TypeOK
<1> QED
  BY <1>4, <1>5, <1>6

LEMMA NextIInv == IInv /\ [Next]_vars => IInv'
<1> SUFFICES ASSUME IInv, [Next]_vars PROVE IInv'
  OBVIOUS
<1>1. CASE Start
  BY <1>1, StartStep
<1>2. CASE Stop
  BY <1>2, StopStep
<1>3. CASE ResetActivity \/ TimePasses \/ \E b \in Traffic : UpdateActivity(b)
  BY <1>3, ClockStep
<1>4. CASE \E l \in Loop : LoopTick(l)
  BY <1>4, TickStep
<1>5. CASE \E l \in Loop : LoopStops(l) \/ CallbackReturns(l)
  BY <1>5, LoopStep
<1>6. CASE UNCHANGED vars
  BY <1>6 DEF vars, monitor, history, IInv, TypeOK, ClosedWereMade, EnabledIsWatched,
              Alive, OneTimeoutPerStart, WarnedOncePerIdlePeriod
<1> QED
  BY <1>1, <1>2, <1>3, <1>4, <1>5, <1>6 DEF Next

LEMMA AlwaysIInv == Spec => []IInv
  BY InitIInv, NextIInv, PTL DEF Spec

-----------------------------------------------------------------------------
\* Every variable of the idle monitor keeps its type.
THEOREM TypeCorrect == Spec => []TypeOK
<1>1. IInv => TypeOK
  BY DEF IInv
<1> QED
  BY <1>1, AlwaysIInv, PTL

\* An enabled monitor always has the live loop and the open channel of the
\* latest Start, in whatever order Start, Stop and the loops of earlier
\* Starts (idle.go, Start and Stop) take the lock.
THEOREM AlwaysWatched == Spec => []EnabledIsWatched
<1>1. IInv => EnabledIsWatched
  BY DEF IInv
<1> QED
  BY <1>1, AlwaysIInv, PTL

\* checkIdle decides on at most one timeout for each accepted Start, however
\* many loops run it.
THEOREM TimeoutOnce == Spec => []OneTimeoutPerStart
<1>1. IInv => OneTimeoutPerStart
  BY DEF IInv
<1> QED
  BY <1>1, AlwaysIInv, PTL

\* checkIdle decides on at most one warning between two activities, however
\* many loops run it.
THEOREM WarnedOnce == Spec => []WarnedOncePerIdlePeriod
<1>1. IInv => WarnedOncePerIdlePeriod
  BY DEF IInv
<1> QED
  BY <1>1, AlwaysIInv, PTL

=============================================================================
