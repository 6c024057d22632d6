-------------------------- MODULE Controller_proofs --------------------------
(***************************************************************************)
(* Proofs about the controller for any callers, any worker slots and any   *)
(* number of sessions.                                                     *)
(***************************************************************************)
EXTENDS Controller, TLAPS

\* The inductive invariant.  OneDriver says which worker step may come next
\* and that its transition is allowed; ContextsCurrent ties the worker and
\* the cancelled contexts to the session, for the other conjuncts.
IInv ==
    /\ TypeOK
    /\ OneDriver
    /\ ContextsCurrent
    /\ CancelReachesSession
    /\ ClockAndErrorCurrent
    /\ FailsOnlyIfCancelled

\* What the transition table allows, for the steps the code takes.
LEMMA Allowed ==
    /\ canTransition("Disconnected", "Provisioning")
    /\ canTransition("Provisioning", "Connecting")
    /\ canTransition("Provisioning", "Error")
    /\ canTransition("Connecting", "Connected")
    /\ canTransition("Connecting", "Error")
    /\ canTransition("Connected", "Disconnecting")
    /\ canTransition("Disconnecting", "Deprovisioning")
    /\ canTransition("Deprovisioning", "Disconnected")
    /\ canTransition("Error", "Disconnected")
BY DEF canTransition, validTransitions, State

\* The state machine starts in the invariant.
LEMMA InitIInv == Init => IInv
<1> SUFFICES ASSUME Init PROVE IInv
  OBVIOUS
<1> USE MaxSessionsAssumption DEF Init
<1>1. TypeOK
  BY DEF TypeOK, State, Message, CallPC, WorkerPC
<1>2. OneDriver
  BY DEF OneDriver, Running, Launching, Resting
<1>3. ContextsCurrent
  BY DEF ContextsCurrent, Raising
<1>4. CancelReachesSession /\ ClockAndErrorCurrent /\ FailsOnlyIfCancelled
  BY DEF CancelReachesSession, ClockAndErrorCurrent, FailsOnlyIfCancelled
<1> QED
  BY <1>1, <1>2, <1>3, <1>4 DEF IInv

\* A refused call only moves its caller.
LEMMA RefusedStep ==
    ASSUME IInv, NEW c \in Caller,
           \/ ConnectRefused(c) \/ DisconnectRefused(c)
           \/ ReadForMessage(c) \/ ReturnError(c)
    PROVE  IInv'
<1> USE DEF IInv
<1>1. PICK p \in CallPC \ {"go doConnect", "go doDisconnect"} :
          /\ call[c] \notin {"go doConnect", "go doDisconnect"}
          /\ call' = [call EXCEPT ![c] = p]
  BY DEF ConnectRefused, DisconnectRefused, ReadForMessage, ReturnError, CallPC
<1>2. /\ UNCHANGED <<state, sessionStart, errorMsg, cancelFunc, session, ctxDone,
                     arg, pc, ctx>>
      /\ seen' \in [Caller -> State]
  BY DEF TypeOK, State, ConnectRefused, DisconnectRefused, ReadForMessage,
         ReturnError, fields, workers
<1>3. TypeOK'
  BY <1>1, <1>2 DEF TypeOK
<1>4. OneDriver'
  BY <1>1, <1>2 DEF TypeOK, OneDriver, Running, Launching, Resting
<1>5. ContextsCurrent'
  BY <1>1, <1>2 DEF TypeOK, ContextsCurrent
<1>6. (CancelReachesSession /\ ClockAndErrorCurrent /\ FailsOnlyIfCancelled)'
  BY <1>2 DEF CancelReachesSession, ClockAndErrorCurrent, FailsOnlyIfCancelled
<1> QED
  BY <1>3, <1>4, <1>5, <1>6

\* An accepted Connect begins a session that its caller alone drives.
LEMMA ConnectStep ==
    ASSUME IInv, NEW c \in Caller, ConnectAccepted(c)
    PROVE  IInv'
<1> USE MaxSessionsAssumption DEF IInv
<1>1. /\ call[c] = "idle" /\ state = "Disconnected" /\ session < MaxSessions
      /\ session' = session + 1 /\ arg' = [arg EXCEPT ![c] = session + 1]
      /\ state' = "Provisioning" /\ sessionStart' = sessionStart
      /\ errorMsg' = errorMsg /\ cancelFunc' = session + 1
      /\ call' = [call EXCEPT ![c] = "go doConnect"]
      /\ ctxDone' = ctxDone /\ seen' = seen /\ pc' = pc /\ ctx' = ctx
  BY Allowed DEF ConnectAccepted, setState, sessionStartAfter, errorMsgAfter,
                 cancelFuncAfter, workers
<1>a. session \in Nat /\ session + 1 \in 0..MaxSessions /\ session' = session + 1
  <2>1. session \in 0..MaxSessions
    BY DEF TypeOK
  <2>2. session < MaxSessions /\ session' = session + 1
    BY <1>1
  <2> QED
    BY <2>1, <2>2
<1>2. /\ \A d \in Caller : ~Launching(d)
      /\ \A w \in Worker : ~Running(w)
  BY <1>1 DEF TypeOK, OneDriver, Launching, Running, Expects, CallPC, WorkerPC
<1>3. TypeOK'
  <2>1. session + 1 \in 0..MaxSessions
    BY <1>1, <1>a
  <2>2. arg' \in [Caller -> 0..MaxSessions] /\ call' \in [Caller -> CallPC]
    BY <1>1, <2>1 DEF TypeOK, CallPC
  <2> QED
    BY <1>1, <2>1, <2>2 DEF TypeOK, State
<1>4. OneDriver'
  BY <1>1, <1>2 DEF TypeOK, OneDriver, Running, Launching, Resting, Expects
<1>5. ContextsCurrent'
  <2>1. ctxDone' \subseteq 1..session'
    <3>1. 1..session \subseteq 1..session'
      BY <1>a
    <3> QED
      BY <3>1, <1>1 DEF ContextsCurrent
  <2>2. \A d \in Caller : call'[d] = "go doConnect" => arg'[d] = session'
    BY <1>1, <1>2 DEF TypeOK, Launching
  <2>3. \A w \in Worker : pc'[w] = "idle"
    BY <1>1, <1>2 DEF Running
  <2> QED
    BY <2>1, <2>2, <2>3 DEF ContextsCurrent, Raising
<1>6. (CancelReachesSession /\ ClockAndErrorCurrent /\ FailsOnlyIfCancelled)'
  BY <1>1 DEF TypeOK, CancelReachesSession, ClockAndErrorCurrent, FailsOnlyIfCancelled
<1> QED
  BY <1>3, <1>4, <1>5, <1>6

\* An accepted Disconnect lowers a session that its caller alone drives.
LEMMA DisconnectStep ==
    ASSUME IInv, NEW c \in Caller, DisconnectAccepted(c)
    PROVE  IInv'
<1> USE MaxSessionsAssumption DEF IInv
<1>1. /\ call[c] = "idle" /\ state = "Connected"
      /\ state' = "Disconnecting" /\ sessionStart' = sessionStart
      /\ errorMsg' = errorMsg /\ cancelFunc' = cancelFunc
      /\ call' = [call EXCEPT ![c] = "go doDisconnect"]
      /\ UNCHANGED <<session, ctxDone, arg, seen, pc, ctx>>
  BY Allowed DEF DisconnectAccepted, setState, sessionStartAfter, errorMsgAfter,
                 cancelFuncAfter, workers
<1>2. /\ \A d \in Caller : ~Launching(d)
      /\ \A w \in Worker : ~Running(w)
  BY <1>1 DEF TypeOK, OneDriver, Launching, Running, Expects, CallPC, WorkerPC
<1>3. TypeOK'
  BY <1>1 DEF TypeOK, CallPC, State
<1>4. OneDriver'
  BY <1>1, <1>2 DEF TypeOK, OneDriver, Running, Launching, Resting, Expects
<1>5. ContextsCurrent'
  BY <1>1, <1>2 DEF TypeOK, ContextsCurrent, Running, Launching, Raising
<1>6. (CancelReachesSession /\ ClockAndErrorCurrent /\ FailsOnlyIfCancelled)'
  BY <1>1 DEF TypeOK, CancelReachesSession, ClockAndErrorCurrent, FailsOnlyIfCancelled
<1> QED
  BY <1>3, <1>4, <1>5, <1>6

\* The go statement hands the session from the caller to a worker.
LEMMA LaunchStep ==
    ASSUME IInv, NEW c \in Caller, NEW w \in Worker, Launch(c, w)
    PROVE  IInv'
<1> USE DEF IInv
<1>1. /\ Launching(c) /\ pc[w] = "idle"
      /\ call' = [call EXCEPT ![c] = "idle"] /\ arg' = [arg EXCEPT ![c] = 0]
      /\ UNCHANGED <<state, sessionStart, errorMsg, cancelFunc, session, ctxDone, seen>>
  BY DEF Launch, Launching, fields
<1>2. \/ /\ call[c] = "go doConnect"
         /\ pc' = [pc EXCEPT ![w] = "provisioning"]
         /\ ctx' = [ctx EXCEPT ![w] = arg[c]]
      \/ /\ call[c] = "go doDisconnect"
         /\ pc' = [pc EXCEPT ![w] = "disconnecting"]
         /\ ctx' = ctx
  BY DEF Launch
<1>3. /\ \A d \in Caller : d # c => ~Launching(d)
      /\ \A v \in Worker : ~Running(v)
  BY <1>1 DEF OneDriver
<1>4. TypeOK'
  <2>1. call' \in [Caller -> CallPC] /\ pc' \in [Worker -> WorkerPC]
    BY <1>1, <1>2 DEF TypeOK, CallPC, WorkerPC
  <2>2. arg' \in [Caller -> 0..MaxSessions]
    BY <1>1, MaxSessionsAssumption DEF TypeOK
  <2>3. ctx' \in [Worker -> 0..MaxSessions]
    BY <1>2 DEF TypeOK
  <2> QED
    BY <1>1, <2>1, <2>2, <2>3 DEF TypeOK
<1>5. OneDriver'
  <2>1. /\ \A d \in Caller : ~Launching(d)'
        /\ \A v \in Worker : Running(v)' <=> v = w
    BY <1>1, <1>2, <1>3 DEF TypeOK, Running, Launching
  <2>2. Expects(call[c]) = state
    BY <1>1 DEF OneDriver
  <2>3. Expects(pc'[w]) = state
    BY <1>2, <2>2 DEF TypeOK, Expects
  <2> QED
    BY <1>1, <2>1, <2>3 DEF OneDriver, Resting
<1>6. ContextsCurrent'
  BY <1>1, <1>2, <1>3 DEF TypeOK, ContextsCurrent, Raising, Running, Launching
<1>7. (CancelReachesSession /\ ClockAndErrorCurrent /\ FailsOnlyIfCancelled)'
  BY <1>1 DEF CancelReachesSession, ClockAndErrorCurrent, FailsOnlyIfCancelled
<1> QED
  BY <1>4, <1>5, <1>6, <1>7

\* Cancel and a parent's cancellation only add to the contexts that are done.
LEMMA CancelStep ==
    ASSUME IInv, Cancel \/ \E k \in 1..MaxSessions : ParentCancelled(k)
    PROVE  IInv'
<1> USE DEF IInv
<1>1. PICK k \in 1..session :
          /\ ctxDone' = ctxDone \cup {k}
          /\ cancelFunc' = cancelFunc \/ (cancelFunc' = 0 /\ k = session)
  <2>1. CASE Cancel
    <3>1. cancelFunc # 0 /\ cancelFunc = session
      BY <2>1 DEF Cancel, CancelReachesSession
    <3>2. session \in 0..MaxSessions
      BY DEF TypeOK
    <3>3. session \in 1..session
      BY <3>1, <3>2
    <3> QED
      BY <2>1, <3>1, <3>3 DEF Cancel
  <2>2. CASE \E k \in 1..MaxSessions : ParentCancelled(k)
    <3>1. PICK k \in 1..MaxSessions : ParentCancelled(k)
      BY <2>2
    <3>2. k \in 1..session /\ ctxDone' = ctxDone \cup {k}
      BY <3>1 DEF ParentCancelled
    <3>3. cancelFunc' = cancelFunc
      BY <3>1 DEF ParentCancelled, fields
    <3> QED
      BY <3>2, <3>3
  <2> QED
    BY <2>1, <2>2
<1>2. UNCHANGED <<state, sessionStart, errorMsg, session, call, arg, seen, pc, ctx>>
  BY DEF Cancel, ParentCancelled, fields, callers, workers
<1>3. 1..session \subseteq 1..MaxSessions
  BY MaxSessionsAssumption DEF TypeOK
<1>4. TypeOK'
  BY <1>1, <1>2, <1>3, MaxSessionsAssumption DEF TypeOK
<1>5. OneDriver'
  BY <1>2 DEF OneDriver, Running, Launching, Resting
<1>6. ContextsCurrent'
  BY <1>1, <1>2 DEF ContextsCurrent
<1>7. (CancelReachesSession /\ ClockAndErrorCurrent /\ FailsOnlyIfCancelled)'
  BY <1>1, <1>2 DEF CancelReachesSession, ClockAndErrorCurrent, FailsOnlyIfCancelled
<1> QED
  BY <1>4, <1>5, <1>6, <1>7

\* A select chooses between its timer and the session's own context.
LEMMA SelectStep ==
    ASSUME IInv, NEW w \in Worker, TimerFires(w) \/ ContextDone(w)
    PROVE  IInv'
<1> USE DEF IInv
<1>1. /\ UNCHANGED <<state, sessionStart, errorMsg, cancelFunc, session, ctxDone,
                     call, arg, seen, ctx>>
      /\ pc[w] \in {"provisioning", "connecting"}
  BY DEF TimerFires, ContextDone, fields, callers
<1>2. PICK p \in WorkerPC :
          /\ pc' = [pc EXCEPT ![w] = p]
          /\ p \in IF pc[w] = "provisioning"
                   THEN {"provisioned", "provision cancelled"}
                   ELSE {"established", "connection cancelled"}
          /\ p \in {"provision cancelled", "connection cancelled"}
                => ctx[w] \in ctxDone
  BY DEF TimerFires, ContextDone, WorkerPC
<1>3. TypeOK'
  BY <1>1, <1>2 DEF TypeOK
<1>4. OneDriver'
  BY <1>1, <1>2 DEF TypeOK, OneDriver, Running, Launching, Resting, Expects
<1>5. ContextsCurrent'
  BY <1>1, <1>2 DEF TypeOK, ContextsCurrent, Raising
<1>6. (CancelReachesSession /\ ClockAndErrorCurrent /\ FailsOnlyIfCancelled)'
  BY <1>1 DEF CancelReachesSession, ClockAndErrorCurrent, FailsOnlyIfCancelled
<1> QED
  BY <1>3, <1>4, <1>5, <1>6

\* A worker that takes the lock finds the state it expects, so that its
\* transition is allowed.
LEMMA AdvanceStep ==
    ASSUME IInv, NEW w \in Worker,
           \/ EnterConnecting(w) \/ EnterConnected(w)
           \/ EnterDeprovisioning(w) \/ EnterDisconnected(w) \/ cleanup(w)
    PROVE  IInv' /\ state' # state
<1> USE DEF IInv
<1>1. PICK at, new, next :
          /\ Advance(w, at, new, next)
          /\ \/ at = "provisioned" /\ new = "Connecting" /\ next = "connecting"
             \/ at = "established" /\ new = "Connected" /\ next = "idle"
             \/ at = "disconnecting" /\ new = "Deprovisioning" /\ next = "deprovisioning"
             \/ at = "deprovisioning" /\ new = "Disconnected" /\ next = "idle"
             \/ at = "cleaning" /\ new = "Disconnected" /\ next = "idle"
  BY DEF EnterConnecting, EnterConnected, EnterDeprovisioning, EnterDisconnected, cleanup
<1>2. Running(w) /\ pc[w] = at /\ state = Expects(at)
  BY <1>1 DEF Advance, Running, OneDriver
<1>3. canTransition(state, new) /\ new # state
  BY <1>1, <1>2, Allowed DEF Expects
<1>4. /\ state' = new
      /\ sessionStart' = IF new = "Connected" THEN session
                         ELSE IF new = "Disconnected" THEN 0 ELSE sessionStart
      /\ errorMsg' = IF new = "Disconnected" THEN "none" ELSE errorMsg
      /\ cancelFunc' = IF new = "Disconnected" THEN 0 ELSE cancelFunc
      /\ pc' = [pc EXCEPT ![w] = next]
      /\ ctx' = [ctx EXCEPT ![w] = IF next = "idle" THEN 0 ELSE @]
      /\ UNCHANGED <<session, ctxDone, call, arg, seen>>
  BY <1>1, <1>3 DEF Advance, setState, sessionStartAfter, errorMsgAfter, cancelFuncAfter,
         callers
<1>5. /\ \A d \in Caller : ~Launching(d)
      /\ \A v \in Worker : v # w => ~Running(v)
  BY <1>2 DEF OneDriver
<1>6. TypeOK'
  <2>1. new \in State /\ next \in WorkerPC
    BY <1>1 DEF State, WorkerPC
  <2>2. pc' \in [Worker -> WorkerPC]
    BY <1>4, <2>1 DEF TypeOK
  <2>3. ctx' \in [Worker -> 0..MaxSessions]
    BY <1>4, MaxSessionsAssumption DEF TypeOK
  <2>4. /\ sessionStart' \in 0..MaxSessions /\ cancelFunc' \in 0..MaxSessions
        /\ errorMsg' \in Message
    BY <1>4, MaxSessionsAssumption DEF TypeOK, Message
  <2> QED
    BY <1>4, <2>1, <2>2, <2>3, <2>4 DEF TypeOK
<1>7. OneDriver'
  <2>1. /\ \A d \in Caller : ~Launching(d)'
        /\ \A v \in Worker : v # w => ~Running(v)'
        /\ pc'[w] = next
    BY <1>4, <1>5 DEF TypeOK, Launching, Running
  <2>2. next # "idle" => Expects(next) = new
    BY <1>1 DEF Expects
  <2>3. next = "idle" => new \in {"Disconnected", "Connected"}
    BY <1>1
  <2> QED
    BY <1>4, <2>1, <2>2, <2>3 DEF OneDriver, Resting, Running
<1>8. ContextsCurrent'
  <2>1. next # "idle" /\ next \in Raising => at \in Raising
    BY <1>1 DEF Raising
  <2>2. next \notin {"provision cancelled", "connection cancelled"} /\ "idle" \notin Raising
    BY <1>1 DEF Raising
  <2>3. \A v \in Worker : v # w => pc'[v] = "idle"
    BY <1>4, <1>5 DEF TypeOK, Running
  <2> QED
    BY <1>2, <1>4, <2>1, <2>2, <2>3 DEF TypeOK, ContextsCurrent
<1>9. (CancelReachesSession /\ ClockAndErrorCurrent /\ FailsOnlyIfCancelled)'
  <2>1. state \in {"Provisioning", "Connecting", "Disconnecting", "Deprovisioning", "Error"}
    BY <1>1, <1>2 DEF Expects
  <2>2. CancelReachesSession'
    BY <1>1, <1>2, <1>4 DEF CancelReachesSession, Expects
  <2>3. ClockAndErrorCurrent'
    BY <1>1, <1>2, <1>4 DEF ClockAndErrorCurrent, Expects
  <2>4. FailsOnlyIfCancelled'
    BY <1>1, <1>4 DEF FailsOnlyIfCancelled
  <2> QED
    BY <2>2, <2>3, <2>4
<1> QED
  BY <1>3, <1>4, <1>6, <1>7, <1>8, <1>9

\* handleError enters Error and hands the session to a cleanup goroutine.
LEMMA HandleErrorStep ==
    ASSUME IInv, NEW w \in Worker, NEW v \in Worker, handleError(w, v)
    PROVE  IInv' /\ state' # state /\ session \in ctxDone
<1> USE DEF IInv
<1>1. pc[v] = "idle" /\ pc[w] \in {"provision cancelled", "connection cancelled"} /\ v # w
  BY DEF handleError
<1>2. /\ state \in {"Provisioning", "Connecting"}
      /\ session \in ctxDone
  BY <1>1 DEF OneDriver, Running, Expects, ContextsCurrent
<1>3. canTransition(state, "Error")
  BY <1>2, Allowed
<1>4. /\ state' = "Error" /\ sessionStart' = sessionStart
      /\ errorMsg' \in {"provisioning", "connection"} /\ cancelFunc' = cancelFunc
      /\ pc' = [pc EXCEPT ![w] = "idle", ![v] = "cleaning"]
      /\ ctx' = [ctx EXCEPT ![w] = 0]
      /\ UNCHANGED <<session, ctxDone, call, arg, seen>>
  BY <1>3 DEF handleError, setState, sessionStartAfter, errorMsgAfter,
                     cancelFuncAfter, callers
<1>5. /\ \A d \in Caller : ~Launching(d)
      /\ \A u \in Worker : u # w => ~Running(u)
  BY <1>1 DEF OneDriver, Running
<1>6. /\ \A d \in Caller : ~Launching(d)'
      /\ \A u \in Worker : u # v => pc'[u] = "idle"
      /\ pc'[v] = "cleaning"
  BY <1>1, <1>4, <1>5 DEF TypeOK, Launching, Running
<1>7. TypeOK'
  <2>1. pc' \in [Worker -> WorkerPC] /\ errorMsg' \in Message /\ state' \in State
    BY <1>4 DEF TypeOK, WorkerPC, Message, State
  <2>2. ctx' \in [Worker -> 0..MaxSessions]
    BY <1>4, MaxSessionsAssumption DEF TypeOK
  <2> QED
    BY <1>4, <2>1, <2>2 DEF TypeOK
<1>8. OneDriver'
  BY <1>4, <1>6 DEF OneDriver, Running, Resting, Expects
<1>9. ContextsCurrent'
  BY <1>4, <1>6, <1>5 DEF ContextsCurrent, Raising
<1>10. (CancelReachesSession /\ ClockAndErrorCurrent /\ FailsOnlyIfCancelled)'
  BY <1>2, <1>4 DEF CancelReachesSession, ClockAndErrorCurrent, FailsOnlyIfCancelled
<1> QED
  BY <1>2, <1>4, <1>7, <1>8, <1>9, <1>10

LEMMA NextIInv == IInv /\ [Next]_vars => IInv'
<1> SUFFICES ASSUME IInv, [Next]_vars PROVE IInv'
  OBVIOUS
<1>1. ASSUME NEW c \in Caller,
             \/ ConnectRefused(c) \/ DisconnectRefused(c)
             \/ ReadForMessage(c) \/ ReturnError(c)
      PROVE  IInv'
  BY <1>1, RefusedStep
<1>2. ASSUME NEW c \in Caller, ConnectAccepted(c) PROVE IInv'
  BY <1>2, ConnectStep
<1>3. ASSUME NEW c \in Caller, DisconnectAccepted(c) PROVE IInv'
  BY <1>3, DisconnectStep
<1>4. ASSUME NEW c \in Caller, NEW w \in Worker, Launch(c, w) PROVE IInv'
  BY <1>4, LaunchStep
<1>5. CASE Cancel \/ \E k \in 1..MaxSessions : ParentCancelled(k)
  BY <1>5, CancelStep
<1>6. ASSUME NEW w \in Worker, TimerFires(w) \/ ContextDone(w) PROVE IInv'
  BY <1>6, SelectStep
<1>7. ASSUME NEW w \in Worker,
             \/ EnterConnecting(w) \/ EnterConnected(w)
             \/ EnterDeprovisioning(w) \/ EnterDisconnected(w) \/ cleanup(w)
      PROVE  IInv'
  BY <1>7, AdvanceStep
<1>8. ASSUME NEW w \in Worker, NEW v \in Worker, handleError(w, v) PROVE IInv'
  BY <1>8, HandleErrorStep
<1>9. CASE UNCHANGED vars
  <2>1. UNCHANGED <<state, sessionStart, errorMsg, cancelFunc, session, ctxDone,
                    call, arg, seen, pc, ctx>>
    BY <1>9 DEF vars, fields, callers, workers
  <2> QED
    BY <2>1 DEF IInv, TypeOK, OneDriver, ContextsCurrent, CancelReachesSession,
                ClockAndErrorCurrent, FailsOnlyIfCancelled, Running, Launching, Resting
<1> QED
  BY <1>1, <1>2, <1>3, <1>4, <1>5, <1>6, <1>7, <1>8, <1>9
     DEF Next, CallerStep, WorkerStep

LEMMA AlwaysIInv == Spec => []IInv
BY InitIInv, NextIInv, PTL DEF Spec

-----------------------------------------------------------------------------
\* Every variable keeps its type, for any number of callers and sessions.
THEOREM TypeCorrect == Spec => []TypeOK
<1>1. IInv => TypeOK
  BY DEF IInv
<1> QED
  BY <1>1, AlwaysIInv, PTL

\* Never two goroutines drive a session, and none is stuck without one.
THEOREM SingleDriver == Spec => []OneDriver
<1>1. IInv => OneDriver
  BY DEF IInv
<1> QED
  BY <1>1, AlwaysIInv, PTL

\* The stored cancel function is that of the current session, and is there as
\* long as the session is being raised and not cancelled.
THEOREM CancelIsCurrent == Spec => []CancelReachesSession
<1>1. IInv => CancelReachesSession
  BY DEF IInv
<1> QED
  BY <1>1, AlwaysIInv, PTL

\* The session clock and the error message are those of the current session.
THEOREM ClockIsCurrent == Spec => []ClockAndErrorCurrent
<1>1. IInv => ClockAndErrorCurrent
  BY DEF IInv
<1> QED
  BY <1>1, AlwaysIInv, PTL

\* A session fails only if its own context was cancelled.
THEOREM FailureHasCause == Spec => []FailsOnlyIfCancelled
<1>1. IInv => FailsOnlyIfCancelled
  BY DEF IInv
<1> QED
  BY <1>1, AlwaysIInv, PTL

\* No worker ever has a transition refused: the branches that return silently
\* after setState are dead code.
THEOREM NothingRefused == Spec => NoTransitionRefused
<1>1. IInv /\ [Next]_vars => [\A w \in Worker : LeavesStep(w) => state' # state]_vars
  <2> SUFFICES ASSUME IInv, Next, NEW u \in Worker, LeavesStep(u)
               PROVE  state' # state
    BY DEF vars
  <2>1. ASSUME NEW c \in Caller,
               \/ ConnectRefused(c) \/ DisconnectRefused(c) \/ ConnectAccepted(c)
               \/ DisconnectAccepted(c) \/ ReadForMessage(c) \/ ReturnError(c)
        PROVE  pc' = pc
    BY <2>1 DEF ConnectRefused, DisconnectRefused, ConnectAccepted, DisconnectAccepted,
                ReadForMessage, ReturnError, workers
  <2>2. Cancel \/ (\E k \in 1..MaxSessions : ParentCancelled(k)) => pc' = pc
    BY DEF Cancel, ParentCancelled, workers
  <2>3. ASSUME NEW c \in Caller, NEW w \in Worker, Launch(c, w)
        PROVE  \A v \in Worker : pc[v] # "idle" => pc'[v] = pc[v]
    BY <2>3 DEF Launch, IInv, TypeOK
  <2>4. ASSUME NEW w \in Worker, TimerFires(w) \/ ContextDone(w)
        PROVE  \A v \in Worker : pc[v] \notin {"provisioning", "connecting"} => pc'[v] = pc[v]
    BY <2>4 DEF TimerFires, ContextDone, IInv, TypeOK
  <2>5. ASSUME NEW w \in Worker,
               \/ EnterConnecting(w) \/ EnterConnected(w)
               \/ EnterDeprovisioning(w) \/ EnterDisconnected(w) \/ cleanup(w)
        PROVE  state' # state
    BY <2>5, AdvanceStep
  <2>6. ASSUME NEW w \in Worker, NEW v \in Worker, handleError(w, v)
        PROVE  state' # state
    BY <2>6, HandleErrorStep
  <2> QED
    BY <2>1, <2>2, <2>3, <2>4, <2>5, <2>6 DEF Next, CallerStep, WorkerStep, LeavesStep
<1> QED
  BY <1>1, AlwaysIInv, PTL DEF Spec, NoTransitionRefused

-----------------------------------------------------------------------------
(* The controller implements the lifecycle. *)

LEMMA InitRefines == Init => Abstract!Init
BY DEF Init, Abstract!Init, phase

\* A step that keeps state, session and ctxDone is a stutter of Lifecycle.
LEMMA Stutter ==
    ASSUME UNCHANGED <<state, session, ctxDone>>
    PROVE  UNCHANGED Abstract!vars
BY DEF Abstract!vars, phase

LEMMA NextRefines == IInv /\ [Next]_vars => [Abstract!Next]_(Abstract!vars)
<1> SUFFICES ASSUME IInv, [Next]_vars PROVE [Abstract!Next]_(Abstract!vars)
  OBVIOUS
<1>1. ASSUME NEW c \in Caller,
             \/ ConnectRefused(c) \/ DisconnectRefused(c)
             \/ ReadForMessage(c) \/ ReturnError(c)
      PROVE  UNCHANGED Abstract!vars
  BY <1>1, Stutter
     DEF ConnectRefused, DisconnectRefused, ReadForMessage, ReturnError, fields
<1>2. ASSUME NEW c \in Caller, ConnectAccepted(c) PROVE Abstract!Raise
  <2>1. /\ state = "Disconnected" /\ state' = "Provisioning"
        /\ session < MaxSessions /\ session' = session + 1 /\ ctxDone' = ctxDone
    BY <1>2, Allowed DEF ConnectAccepted, setState
  <2> QED
    BY <2>1 DEF Abstract!Raise, phase
<1>3. ASSUME NEW c \in Caller, DisconnectAccepted(c) PROVE Abstract!Lower
  <2>1. /\ state = "Connected" /\ state' = "Disconnecting"
        /\ UNCHANGED <<session, ctxDone>>
    BY <1>3, Allowed DEF DisconnectAccepted, setState
  <2> QED
    BY <2>1 DEF Abstract!Lower, Abstract!Move, phase
<1>4. ASSUME NEW c \in Caller, NEW w \in Worker, Launch(c, w)
      PROVE  UNCHANGED Abstract!vars
  BY <1>4, Stutter DEF Launch, fields
<1>5. CASE Cancel
  <2>1. cancelFunc = session /\ cancelFunc # 0 /\ session \in 0..MaxSessions
    BY <1>5 DEF Cancel, IInv, CancelReachesSession, TypeOK
  <2>2. session \in 1..session /\ session \in 1..MaxSessions
    BY <2>1, MaxSessionsAssumption
  <2>3. UNCHANGED <<state, session>> /\ ctxDone' = ctxDone \cup {session}
    BY <1>5, <2>1 DEF Cancel
  <2>4. CASE session \in ctxDone
    BY <2>3, <2>4, Stutter
  <2>5. CASE session \notin ctxDone
    <3>1. Abstract!Stop(session)
      BY <2>2, <2>3, <2>5 DEF Abstract!Stop, phase
    <3> QED
      BY <3>1, <2>2 DEF Abstract!Next
  <2> QED
    BY <2>4, <2>5
<1>6. ASSUME NEW k \in 1..MaxSessions, ParentCancelled(k) PROVE Abstract!Stop(k)
  <2>1. UNCHANGED <<state, session>>
    BY <1>6 DEF ParentCancelled, fields
  <2> QED
    BY <1>6, <2>1 DEF ParentCancelled, Abstract!Stop, phase
<1>7. ASSUME NEW w \in Worker, TimerFires(w) \/ ContextDone(w)
      PROVE  UNCHANGED Abstract!vars
  BY <1>7, Stutter DEF TimerFires, ContextDone, fields
<1>8. ASSUME NEW w \in Worker, EnterConnecting(w) PROVE UNCHANGED Abstract!vars
  <2>1. state = "Provisioning" /\ state' = "Connecting" /\ UNCHANGED <<session, ctxDone>>
    BY <1>8, Allowed DEF EnterConnecting, Advance, setState, IInv, OneDriver, Running, Expects
  <2> QED
    BY <2>1 DEF Abstract!vars, phase
<1>9. ASSUME NEW w \in Worker, EnterConnected(w) PROVE Abstract!Succeed
  <2>1. state = "Connecting" /\ state' = "Connected" /\ UNCHANGED <<session, ctxDone>>
    BY <1>9, Allowed DEF EnterConnected, Advance, setState, IInv, OneDriver, Running, Expects
  <2> QED
    BY <2>1 DEF Abstract!Succeed, Abstract!Move, phase
<1>10. ASSUME NEW w \in Worker, EnterDeprovisioning(w) PROVE UNCHANGED Abstract!vars
  <2>1. state = "Disconnecting" /\ state' = "Deprovisioning" /\ UNCHANGED <<session, ctxDone>>
    BY <1>10, Allowed DEF EnterDeprovisioning, Advance, setState, IInv, OneDriver, Running,
                          Expects
  <2> QED
    BY <2>1 DEF Abstract!vars, phase
<1>11. ASSUME NEW w \in Worker, EnterDisconnected(w) \/ cleanup(w) PROVE Abstract!Clean
  <2>1. /\ state \in {"Deprovisioning", "Error"} /\ state' = "Disconnected"
        /\ UNCHANGED <<session, ctxDone>>
    BY <1>11, Allowed DEF EnterDisconnected, cleanup, Advance, setState, IInv, OneDriver,
                          Running, Expects
  <2> QED
    BY <2>1 DEF Abstract!Clean, Abstract!Move, phase
<1>12. ASSUME NEW w \in Worker, NEW v \in Worker, handleError(w, v) PROVE Abstract!Fail
  <2>1. session \in ctxDone
    BY <1>12, HandleErrorStep
  <2>2. /\ state \in {"Provisioning", "Connecting"} /\ state' = "Error"
        /\ UNCHANGED <<session, ctxDone>>
    BY <1>12, Allowed DEF handleError, setState, IInv, OneDriver, Running, Expects
  <2> QED
    BY <2>1, <2>2 DEF Abstract!Fail, Abstract!Move, phase
<1>13. CASE UNCHANGED vars
  BY <1>13, Stutter DEF vars, fields
<1> QED
  BY <1>1, <1>2, <1>3, <1>4, <1>5, <1>6, <1>7, <1>8, <1>9, <1>10, <1>11, <1>12, <1>13
     DEF Next, CallerStep, WorkerStep, Abstract!Next

\* Every step of the controller is a step of the lifecycle or leaves it as it
\* is: sessions do not overlap, a session fails only when it was asked to
\* stop, and none begins before the one before it is cleaned up.
THEOREM RefinesLifecycle == Spec => Abstract!SafeSpec
BY InitRefines, NextRefines, AlwaysIInv, PTL DEF Spec, Abstract!SafeSpec

=============================================================================
