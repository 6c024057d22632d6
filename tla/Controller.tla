----------------------------- MODULE Controller -----------------------------
(***************************************************************************)
(* The VPN lifecycle controller, src/internal/app/controller.go.           *)
(*                                                                         *)
(* Callers (UI goroutines) run Connect, Disconnect and Cancel.  A caller   *)
(* takes the lock once and goes on after it has released it: to read the   *)
(* state again for an error message, or to start the goroutine that does   *)
(* the work.  Workers are those goroutines (doConnect, doDisconnect,       *)
(* cleanup); each step of theirs that takes the lock is one action.        *)
(*                                                                         *)
(* Every accepted Connect makes a context; contexts are numbered, so that  *)
(* the k-th session's context is k and 0 is Go's nil (or the zero time).   *)
(***************************************************************************)
EXTENDS Naturals

CONSTANTS
    Caller,       \* goroutines that call the controller's methods
    Worker,       \* slots for the goroutines the controller starts
    MaxSessions   \* bound on the number of accepted Connects

ASSUME MaxSessionsAssumption == MaxSessions \in Nat

VARIABLES
    (* fields of the Controller struct *)
    state,
    sessionStart,   \* the session whose clock runs, 0 for the zero time
    errorMsg,       \* the step that was cancelled, "none" for the empty string
    cancelFunc,     \* the context it cancels, 0 for nil
    (* contexts *)
    session,        \* contexts made so far
    ctxDone,        \* contexts that are cancelled
    (* goroutines *)
    call,           \* where each caller is
    arg,            \* the context a caller has made
    seen,           \* the state a caller read for its error message
    pc, ctx         \* where each worker is, and the context it was given

fields  == <<state, sessionStart, errorMsg, cancelFunc>>
callers == <<call, arg, seen>>
workers == <<pc, ctx>>
vars    == <<fields, session, ctxDone, callers, workers>>

State == {"Disconnected", "Provisioning", "Connecting", "Connected",
          "Disconnecting", "Deprovisioning", "Error"}

Message == {"none", "provisioning", "connection"}

CallPC == {"idle", "connect refused", "connect failed", "go doConnect",
           "disconnect refused", "disconnect failed", "go doDisconnect"}

WorkerPC == {"idle", "provisioning", "provisioned", "provision cancelled",
             "connecting", "established", "connection cancelled",
             "disconnecting", "deprovisioning", "cleaning"}

-----------------------------------------------------------------------------
(* The state machine *)

validTransitions ==
    {<<"Disconnected", "Provisioning">>,
     <<"Provisioning", "Connecting">>, <<"Provisioning", "Error">>,
     <<"Connecting", "Connected">>, <<"Connecting", "Error">>,
     <<"Connected", "Disconnecting">>,
     <<"Disconnecting", "Deprovisioning">>,
     <<"Deprovisioning", "Disconnected">>,
     <<"Error", "Disconnected">>}

\* Mutant: the table misses Connecting -> Error.
canTransition_NoConnectingError(from, to) ==
    <<from, to>> \in validTransitions \ {<<"Connecting", "Error">>}

\* Mutant: the table misses Error -> Disconnected.
canTransition_NoWayOutOfError(from, to) ==
    <<from, to>> \in validTransitions \ {<<"Error", "Disconnected">>}

canTransition(from, to) == <<from, to>> \in validTransitions

\* Mutant: entering Disconnected keeps the session clock.
sessionStartAfter_Kept(new, clk) == IF new = "Connected" THEN clk ELSE sessionStart

\* sessionStart once new is entered, clk being the session that time.Now() times.
sessionStartAfter(new, clk) ==
    IF new = "Connected" THEN clk ELSE IF new = "Disconnected" THEN 0 ELSE sessionStart

errorMsgAfter(new, msg) ==
    IF new = "Disconnected" THEN "none"
    ELSE IF new = "Error" /\ msg # "none" THEN msg ELSE errorMsg

\* Mutant: entering Disconnected keeps the cancel function.
cancelFuncAfter_Kept(new, cf) == cf

cancelFuncAfter(new, cf) == IF new = "Disconnected" THEN 0 ELSE cf

\* setState(new, msg), called when cancelFunc holds cf.  The callback goroutine
\* that it starts with every change of state is in VpnApp.
setState(new, msg, cf, clk) ==
    IF canTransition(state, new)
    THEN /\ state' = new
         /\ sessionStart' = sessionStartAfter(new, clk)
         /\ errorMsg' = errorMsgAfter(new, msg)
         /\ cancelFunc' = cancelFuncAfter(new, cf)
    ELSE /\ cancelFunc' = cf
         /\ UNCHANGED <<state, sessionStart, errorMsg>>

Init ==
    /\ state = "Disconnected"
    /\ sessionStart = 0
    /\ errorMsg = "none"
    /\ cancelFunc = 0
    /\ session = 0
    /\ ctxDone = {}
    /\ call = [c \in Caller |-> "idle"]
    /\ arg = [c \in Caller |-> 0]
    /\ seen = [c \in Caller |-> "Disconnected"]
    /\ pc = [w \in Worker |-> "idle"]
    /\ ctx = [w \in Worker |-> 0]

-----------------------------------------------------------------------------
(* Callers *)

\* Connect finds the controller busy and unlocks; the message is made next.
ConnectRefused(c) ==
    /\ call[c] = "idle"
    /\ state # "Disconnected"
    /\ call' = [call EXCEPT ![c] = "connect refused"]
    /\ UNCHANGED <<fields, session, ctxDone, arg, seen, workers>>

\* Connect makes a context, stores its cancel function and enters
\* Provisioning; doConnect is started only after the unlock.
ConnectAccepted(c) ==
    /\ call[c] = "idle"
    /\ state = "Disconnected"
    /\ session < MaxSessions
    /\ session' = session + 1
    /\ arg' = [arg EXCEPT ![c] = session + 1]
    /\ setState("Provisioning", "none", session + 1, session)
    /\ call' = [call EXCEPT ![c] = IF canTransition(state, "Provisioning")
                                   THEN "go doConnect" ELSE "idle"]
    /\ UNCHANGED <<ctxDone, seen, workers>>

DisconnectRefused(c) ==
    /\ call[c] = "idle"
    /\ state # "Connected"
    /\ call' = [call EXCEPT ![c] = "disconnect refused"]
    /\ UNCHANGED <<fields, session, ctxDone, arg, seen, workers>>

DisconnectAccepted(c) ==
    /\ call[c] = "idle"
    /\ state = "Connected"
    /\ setState("Disconnecting", "none", cancelFunc, session)
    /\ call' = [call EXCEPT ![c] = IF canTransition(state, "Disconnecting")
                                   THEN "go doDisconnect" ELSE "idle"]
    /\ UNCHANGED <<session, ctxDone, arg, seen, workers>>

\* The refused caller reads c.state for its message, without the lock.
ReadForMessage(c) ==
    /\ \/ /\ call[c] = "connect refused"
          /\ call' = [call EXCEPT ![c] = "connect failed"]
       \/ /\ call[c] = "disconnect refused"
          /\ call' = [call EXCEPT ![c] = "disconnect failed"]
    /\ seen' = [seen EXCEPT ![c] = state]
    /\ UNCHANGED <<fields, session, ctxDone, arg, workers>>

\* The error is returned to the caller, which is then done with it.
ReturnError(c) ==
    /\ call[c] \in {"connect failed", "disconnect failed"}
    /\ call' = [call EXCEPT ![c] = "idle"]
    /\ seen' = [seen EXCEPT ![c] = "Disconnected"]
    /\ UNCHANGED <<fields, session, ctxDone, arg, workers>>

\* go c.doConnect(ctx) and go c.doDisconnect(ctx), then return nil.  The
\* context of a Disconnect changes nothing in doDisconnect and is left out.
Launch(c, w) ==
    /\ pc[w] = "idle"
    /\ \/ /\ call[c] = "go doConnect"
          /\ pc' = [pc EXCEPT ![w] = "provisioning"]
          /\ ctx' = [ctx EXCEPT ![w] = arg[c]]
       \/ /\ call[c] = "go doDisconnect"
          /\ pc' = [pc EXCEPT ![w] = "disconnecting"]
          /\ ctx' = ctx
    /\ call' = [call EXCEPT ![c] = "idle"]
    /\ arg' = [arg EXCEPT ![c] = 0]
    /\ UNCHANGED <<fields, session, ctxDone, seen>>

\* Mutant: Cancel calls a nil cancelFunc.
Cancel_NoNilCheck ==
    /\ ctxDone' = ctxDone \cup {cancelFunc}
    /\ cancelFunc' = 0
    /\ UNCHANGED <<state, sessionStart, errorMsg, session, callers, workers>>

\* With cancelFunc = nil, Cancel does nothing.
Cancel ==
    /\ cancelFunc # 0
    /\ ctxDone' = ctxDone \cup {cancelFunc}
    /\ cancelFunc' = 0
    /\ UNCHANGED <<state, sessionStart, errorMsg, session, callers, workers>>

\* The context a caller passed to Connect is cancelled by its owner, at any
\* time, whether or not its session is still running.
ParentCancelled(k) ==
    /\ k \in 1..session
    /\ k \notin ctxDone
    /\ ctxDone' = ctxDone \cup {k}
    /\ UNCHANGED <<fields, session, callers, workers>>

-----------------------------------------------------------------------------
(* Workers *)

\* select: the timer fires, or the context is done, or the runtime chooses.
TimerFires(w) ==
    /\ \/ /\ pc[w] = "provisioning"
          /\ pc' = [pc EXCEPT ![w] = "provisioned"]
       \/ /\ pc[w] = "connecting"
          /\ pc' = [pc EXCEPT ![w] = "established"]
    /\ UNCHANGED <<fields, session, ctxDone, callers, ctx>>

\* Mutant: a worker looks at the contexts of earlier sessions too.
ContextDone_AnyContext(w) ==
    /\ ctxDone # {}
    /\ \/ /\ pc[w] = "provisioning"
          /\ pc' = [pc EXCEPT ![w] = "provision cancelled"]
       \/ /\ pc[w] = "connecting"
          /\ pc' = [pc EXCEPT ![w] = "connection cancelled"]
    /\ UNCHANGED <<fields, session, ctxDone, callers, ctx>>

ContextDone(w) ==
    /\ ctx[w] \in ctxDone
    /\ \/ /\ pc[w] = "provisioning"
          /\ pc' = [pc EXCEPT ![w] = "provision cancelled"]
       \/ /\ pc[w] = "connecting"
          /\ pc' = [pc EXCEPT ![w] = "connection cancelled"]
    /\ UNCHANGED <<fields, session, ctxDone, callers, ctx>>

\* A worker takes the lock and enters state new; if that is refused it
\* returns, else it goes on at next ("idle" when it is at its end).
Advance(w, at, new, next) ==
    /\ pc[w] = at
    /\ setState(new, "none", cancelFunc, session)
    /\ LET pcNext == IF canTransition(state, new) THEN next ELSE "idle"
       IN  /\ pc' = [pc EXCEPT ![w] = pcNext]
           /\ ctx' = [ctx EXCEPT ![w] = IF pcNext = "idle" THEN 0 ELSE @]
    /\ UNCHANGED <<session, ctxDone, callers>>

\* Mutant: doConnect returns as soon as it has entered Connecting.
EnterConnecting_Returns(w) == Advance(w, "provisioned", "Connecting", "idle")

EnterConnecting(w) == Advance(w, "provisioned", "Connecting", "connecting")
EnterConnected(w)  == Advance(w, "established", "Connected", "idle")

\* The waits of doDisconnect end by the timer or by the context, and it goes
\* on either way.
EnterDeprovisioning(w) ==
    Advance(w, "disconnecting", "Deprovisioning", "deprovisioning")
EnterDisconnected(w) ==
    Advance(w, "deprovisioning", "Disconnected", "idle")

cleanup(w) == Advance(w, "cleaning", "Disconnected", "idle")

\* doConnect calls handleError and returns; handleError starts cleanup in a
\* goroutine of its own, v, unless the transition is refused.
handleError(w, v) ==
    /\ pc[v] = "idle"
    /\ pc[w] \in {"provision cancelled", "connection cancelled"}
    /\ setState("Error", IF pc[w] = "provision cancelled"
                         THEN "provisioning" ELSE "connection",
                cancelFunc, session)
    /\ pc' = [pc EXCEPT ![w] = "idle",
                        ![v] = IF canTransition(state, "Error")
                               THEN "cleaning" ELSE "idle"]
    /\ ctx' = [ctx EXCEPT ![w] = 0]
    /\ UNCHANGED <<session, ctxDone, callers>>

-----------------------------------------------------------------------------
CallerStep(c) ==
    \/ ReadForMessage(c)
    \/ ReturnError(c)
    \/ \E w \in Worker : Launch(c, w)

WorkerStep(w) ==
    \/ TimerFires(w) \/ ContextDone(w)
    \/ EnterConnecting(w) \/ EnterConnected(w)
    \/ EnterDeprovisioning(w) \/ EnterDisconnected(w)
    \/ cleanup(w)
    \/ \E v \in Worker : handleError(w, v)

Next ==
    \/ \E c \in Caller :
          \/ ConnectRefused(c) \/ ConnectAccepted(c)
          \/ DisconnectRefused(c) \/ DisconnectAccepted(c)
          \/ CallerStep(c)
    \/ Cancel
    \/ \E k \in 1..MaxSessions : ParentCancelled(k)
    \/ \E w \in Worker : WorkerStep(w)

Spec == Init /\ [][Next]_vars

\* Every goroutine that can run does: callers that have started a call
\* finish it and workers go on.
Fairness ==
    /\ \A c \in Caller : WF_vars(CallerStep(c))
    /\ \A w \in Worker : WF_vars(WorkerStep(w))

FairSpec == Spec /\ Fairness

-----------------------------------------------------------------------------
(* Properties *)

TypeOK ==
    /\ state \in State
    /\ sessionStart \in 0..MaxSessions
    /\ errorMsg \in Message
    /\ cancelFunc \in 0..MaxSessions
    /\ session \in 0..MaxSessions
    /\ ctxDone \subseteq 1..MaxSessions
    /\ call \in [Caller -> CallPC]
    /\ arg \in [Caller -> 0..MaxSessions]
    /\ seen \in [Caller -> State]
    /\ pc \in [Worker -> WorkerPC]
    /\ ctx \in [Worker -> 0..MaxSessions]

\* The goroutines an accepted call still owes the session: the caller between
\* its unlock and its go statement, and the workers.
Launching(c) == call[c] \in {"go doConnect", "go doDisconnect"}
Running(w)   == pc[w] # "idle"

\* The state in which a goroutine expects to find the controller.
Expects(at) ==
    CASE at \in {"go doConnect", "provisioning", "provisioned",
                 "provision cancelled"} -> "Provisioning"
      [] at \in {"connecting", "established",
                 "connection cancelled"} -> "Connecting"
      [] at \in {"go doDisconnect", "disconnecting"} -> "Disconnecting"
      [] at = "deprovisioning" -> "Deprovisioning"
      [] at = "cleaning" -> "Error"

Resting == state \in {"Disconnected", "Connected"}

\* At every moment at most one goroutine drives the session, it is at the
\* step that the state names, and there is one whenever the state is not a
\* resting one: no call that slips in between an unlock and a go statement,
\* and no cleanup left over from an earlier session, starts a second one or
\* leaves the controller stuck in a passing state.
OneDriver ==
    /\ \A w \in Worker : Running(w) => Expects(pc[w]) = state
    /\ \A c \in Caller : Launching(c) => Expects(call[c]) = state
    /\ \A w1, w2 \in Worker : Running(w1) /\ Running(w2) => w1 = w2
    /\ \A c1, c2 \in Caller : Launching(c1) /\ Launching(c2) => c1 = c2
    /\ \A c \in Caller, w \in Worker : ~(Launching(c) /\ Running(w))
    /\ \/ Resting
       \/ \E c \in Caller : Launching(c)
       \/ \E w \in Worker : Running(w)

\* A worker that raises a session was given that session's context, and so
\* was the caller that is about to start it; it only gives up when that
\* context is done.
Raising == {"provisioning", "provisioned", "provision cancelled",
            "connecting", "established", "connection cancelled"}

ContextsCurrent ==
    /\ ctxDone \subseteq 1..session
    /\ \A c \in Caller : call[c] = "go doConnect" => arg[c] = session
    /\ \A w \in Worker :
          /\ pc[w] \in Raising => ctx[w] = session
          /\ pc[w] \in {"provision cancelled", "connection cancelled"}
                => session \in ctxDone

\* Cancel reaches the session it was meant for: the stored cancel function is
\* never that of an earlier session, and a session still being raised whose
\* context is alive can be cancelled, also before doConnect has started and
\* although an earlier Cancel may have emptied the field.
CancelReachesSession ==
    /\ cancelFunc \in {0, session}
    /\ state = "Disconnected" => cancelFunc = 0
    /\ state \in {"Provisioning", "Connecting"} /\ session \notin ctxDone
          => cancelFunc = session

\* The session clock and the error message belong to the current session and
\* to the states that show them: SessionDuration counts from the start of
\* this session, never from an earlier one or in a session that failed, and an
\* error is explained exactly as long as the controller is in Error.
ClockAndErrorCurrent ==
    /\ sessionStart = IF state \in {"Connected", "Disconnecting", "Deprovisioning"}
                      THEN session ELSE 0
    /\ errorMsg # "none" <=> state = "Error"

\* A session that failed was asked to stop: no worker enters Error on the
\* context of another session.
FailsOnlyIfCancelled == state = "Error" => session \in ctxDone

\* The rejected-transition branches after setState are never taken: whenever
\* a worker gives up a step of its own under the lock, the state moves on.
\* (Were one refused, its worker would return silently and nobody would drive
\* the session any more.)
LeavesStep(w) == pc[w] \notin {"idle", "provisioning", "connecting"} /\ pc'[w] # pc[w]

NoTransitionRefused ==
    [][\A w \in Worker : LeavesStep(w) => state' # state]_vars

\* A session being raised or torn down comes to rest, whatever is cancelled
\* when, and one that failed or is being torn down ends in Disconnected.
ComesToRest ==
    /\ (state \in {"Provisioning", "Connecting"}) ~> Resting
    /\ (state \in {"Disconnecting", "Deprovisioning", "Error"})
          ~> (state = "Disconnected")

-----------------------------------------------------------------------------
(* The controller implements the lifecycle. *)

phase ==
    CASE state = "Disconnected" -> "down"
      [] state \in {"Provisioning", "Connecting"} -> "raising"
      [] state = "Connected" -> "up"
      [] state \in {"Disconnecting", "Deprovisioning"} -> "lowering"
      [] state = "Error" -> "failed"

Abstract == INSTANCE Lifecycle WITH stopped <- ctxDone

\* Every behaviour of the controller is a behaviour of Lifecycle, with its
\* fairness: sessions follow one another without overlapping, fail only when
\* asked to stop, and come to rest.
ImplementsLifecycle == Abstract!Spec

=============================================================================
