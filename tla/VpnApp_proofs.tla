---------------------------- MODULE VpnApp_proofs ----------------------------
(***************************************************************************)
(* The wired program, for any number of handlers, workers, sessions and    *)
(* late callbacks.  Its steps are steps of the controller, or leave it     *)
(* alone, so that the invariant of Controller_proofs holds in it; that of  *)
(* the tray is built on top.                                               *)
(***************************************************************************)
EXTENDS VpnApp, Controller_proofs, SequenceTheorems

AppTypes ==
    /\ clicked \in [Caller -> {"none", "connect", "disconnect"}]
    /\ pending \in Seq(State)

\* The items follow the status line: the menus that the tray's methods make.
Menus ==
    {<<"Disconnected", TRUE, FALSE>>, <<"Connecting", FALSE, FALSE>>,
     <<"Connected", FALSE, TRUE>>, <<"Disconnecting", FALSE, FALSE>>,
     <<"Error", TRUE, FALSE>>}

MenuFits == trayVars \in Menus

\* A caller is inside a call of the controller only for the click that its
\* handler was started for.
HandlersOnly == \A c \in Caller : call[c] # "idle" => clicked[c] # "none"

\* The last transition was told to the tray or is about to be.
Told ==
    inOrder /\ ~errorShown =>
        Shows(state) = IF pending = <<>> THEN tray ELSE Shows(pending[Len(pending)])

AppInv == IInv /\ AppTypes /\ MenuFits /\ HandlersOnly /\ Told

-----------------------------------------------------------------------------
\* What the tray's methods leave behind.
LEMMA MenuMethods ==
    ASSUME NEW s \in State, onControllerStateChange(s)
    PROVE  tray' = Shows(s) /\ MenuFits'
<1>. USE DEF onControllerStateChange, Shows, Menu, MenuFits, Menus, trayVars
<1>1. CASE s = "Disconnected"
  BY <1>1 DEF UpdateStatus
<1>2. CASE s = "Connected"
  BY <1>2 DEF UpdateStatus
<1>3. CASE s = "Provisioning"
  BY <1>3 DEF SetConnecting
<1>4. CASE s = "Connecting"
  BY <1>4 DEF SetConnecting
<1>5. CASE s = "Disconnecting"
  BY <1>5 DEF SetDisconnecting
<1>6. CASE s = "Deprovisioning"
  BY <1>6 DEF SetDisconnecting
<1>7. CASE s = "Error"
  BY <1>7 DEF SetError
<1>. QED BY <1>1, <1>2, <1>3, <1>4, <1>5, <1>6, <1>7 DEF State

LEMMA ErrorMenu == ASSUME SetError PROVE MenuFits'
BY DEF SetError, Menu, MenuFits, Menus, trayVars

\* A callback goroutine is started for every transition, and is the youngest.
LEMMA Spawned ==
    ASSUME AppTypes, IInv', Told, SpawnCallback, UNCHANGED <<trayVars, inOrder, errorShown>>
    PROVE  pending' \in Seq(State) /\ Told'
<1>1. state' \in State
  BY DEF IInv, TypeOK
<1>2. CASE state' = state /\ pending' = pending
  BY <1>2 DEF AppTypes, Told, trayVars, Shows
<1>3. CASE pending' = Append(pending, state')
  <2>1. /\ pending' \in Seq(State) /\ pending' # <<>>
        /\ Len(pending') = Len(pending) + 1
        /\ pending'[Len(pending) + 1] = state'
    BY <1>1, <1>3, AppendProperties DEF AppTypes
  <2>. QED BY <2>1 DEF Told, Shows
<1>. QED BY <1>2, <1>3 DEF SpawnCallback

\* The oldest callback leaves the youngest, unless it is the youngest.
LEMMA Removed ==
    ASSUME NEW S, NEW q \in Seq(S), NEW i \in 1..Len(q),
           NEW r, r = SubSeq(q, 1, i - 1) \o SubSeq(q, i + 1, Len(q))
    PROVE  /\ r \in Seq(S)
           /\ i = 1 => IF Len(q) = 1 THEN r = <<>>
                       ELSE r # <<>> /\ r[Len(r)] = q[Len(q)]
<1>. DEFINE n == Len(q)
            a == SubSeq(q, 1, i - 1)
            b == SubSeq(q, i + 1, n)
<1>1. n \in Nat /\ i \in 1..n /\ \A j \in 1..n : q[j] \in S
  BY LenProperties, ElementOfSeq
<1>2. r = a \o b
  OBVIOUS
<1>. HIDE DEF n
<1>3. a \in Seq(S) /\ (i = 1 => a = <<>>)
  <2>1. 1 \in Int /\ i - 1 \in Int /\ \A j \in 1..(i - 1) : q[j] \in S
    BY <1>1
  <2>. QED BY <2>1, <1>1, SubSeqProperties, SubSeqEmpty
<1>4. /\ b \in Seq(S)
      /\ Len(b) = IF i + 1 <= n THEN n - i ELSE 0
      /\ \A j \in 1..(n - i) : b[j] = q[i + j]
  <2>1. i + 1 \in Int /\ n \in Int /\ \A j \in (i + 1)..n : q[j] \in S
    BY <1>1
  <2>2. /\ b \in Seq(S)
        /\ Len(b) = IF i + 1 <= n THEN n - (i + 1) + 1 ELSE 0
        /\ \A j \in 1..(n - (i + 1) + 1) : b[j] = q[i + 1 + j - 1]
    BY <2>1, SubSeqProperties
  <2>. QED BY <2>2, <1>1
<1>. HIDE DEF a, b
<1>5. r \in Seq(S) /\ (i = 1 => r = b)
  <2>1. \A s, t \in Seq(S) : s \o t \in Seq(S) /\ <<>> \o t = t
    BY ConcatProperties, ConcatEmptySeq
  <2>. QED BY <1>2, <1>3, <1>4, <2>1
<1>6. ASSUME i = 1, n = 1 PROVE r = <<>>
  <2>1. Len(b) = 0
    BY <1>4, <1>6
  <2>. QED BY <1>4, <1>5, <1>6, <2>1, EmptySeq
<1>7. ASSUME i = 1, n # 1 PROVE r # <<>> /\ r[Len(r)] = q[n]
  <2>1. n - 1 \in 1..(n - 1) /\ 1 + 1 <= n /\ n - 1 # 0
    BY <1>1, <1>7
  <2>2. Len(b) = n - 1 /\ b[n - 1] = q[n]
    BY <1>1, <1>4, <1>7, <2>1
  <2>. QED BY <1>5, <1>7, <2>1, <2>2, EmptySeq
<1>. QED BY <1>5, <1>6, <1>7 DEF n

-----------------------------------------------------------------------------
LEMMA AppInitInv == AppInit => AppInv
<1>. SUFFICES ASSUME AppInit PROVE AppInv
  OBVIOUS
<1>1. IInv
  BY InitIInv DEF AppInit
<1>2. AppTypes /\ MenuFits /\ HandlersOnly /\ Told
  BY EmptySeq DEF AppInit, Init, AppTypes, MenuFits, Menus, trayVars,
                    HandlersOnly, Told, Shows
<1>. QED BY <1>1, <1>2 DEF AppInv

\* Every step of the program is one of the controller, or leaves it alone.
LEMMA AppStepIsControllers == [AppNext]_appVars => [Next]_vars
<1>. SUFFICES ASSUME [AppNext]_appVars PROVE [Next]_vars
  OBVIOUS
<1>1. ASSUME NEW c \in Caller, OnConnect(c) \/ OnDisconnect(c) PROVE Next
  BY <1>1 DEF OnConnect, OnDisconnect, Next
<1>2. ASSUME NEW c \in Caller, ReadState(c) \/ ShowRefusal(c) \/ StartWorker(c) PROVE Next
  BY <1>2 DEF ReadState, ShowRefusal, StartWorker, Next, CallerStep
<1>3. ASSUME NEW w \in Worker, WorkerRuns(w) PROVE Next
  BY <1>3 DEF WorkerRuns, Next
<1>4. ASSUME NEW c \in Caller, ClickConnect(c) \/ ClickDisconnect(c) PROVE UNCHANGED vars
  BY <1>4 DEF ClickConnect, ClickDisconnect
<1>5. ASSUME (\E i \in DOMAIN pending : RunCallback(i)) \/ SettingsSaveFails
      PROVE UNCHANGED vars
  BY <1>5 DEF RunCallback, SettingsSaveFails
<1>6. CASE UNCHANGED appVars
  BY <1>6 DEF appVars
<1>. QED BY <1>1, <1>2, <1>3, <1>4, <1>5, <1>6 DEF AppNext, Handler

\* The user clicks.
LEMMA ClickKeeps ==
    ASSUME AppInv, IInv', NEW c \in Caller, ClickConnect(c) \/ ClickDisconnect(c)
    PROVE  AppInv'
<1>1. /\ clicked' \in [Caller -> {"none", "connect", "disconnect"}]
      /\ \A d \in Caller : clicked[d] # "none" => clicked'[d] # "none"
  BY DEF AppInv, AppTypes, ClickConnect, ClickDisconnect
<1>2. UNCHANGED <<vars, pending, trayVars, inOrder, errorShown>>
  BY DEF ClickConnect, ClickDisconnect
<1>. QED BY <1>1, <1>2 DEF AppInv, AppTypes, MenuFits, HandlersOnly, Told, Shows,
                           vars, fields, callers, trayVars

\* A handler calls the controller, and ends when it has been refused or has
\* started its worker.
LEMMA HandlerKeeps ==
    ASSUME AppInv, IInv', NEW c \in Caller, Handler(c)
    PROVE  AppInv'
<1>. USE DEF AppInv
<1>1. CASE OnConnect(c) \/ OnDisconnect(c)
  <2>1. /\ clicked[c] # "none" /\ SpawnCallback
        /\ UNCHANGED <<clicked, trayVars, inOrder, errorShown>>
    BY <1>1 DEF OnConnect, OnDisconnect
  <2>2. \A d \in Caller : d # c => call'[d] = call[d]
    BY <1>1 DEF IInv, TypeOK, OnConnect, OnDisconnect, ConnectAccepted, ConnectRefused,
                DisconnectAccepted, DisconnectRefused
  <2>3. pending' \in Seq(State) /\ Told'
    BY <2>1, Spawned
  <2>. QED BY <2>1, <2>2, <2>3 DEF AppTypes, MenuFits, HandlersOnly, trayVars
<1>2. CASE ReadState(c)
  <2>1. /\ UNCHANGED <<state, clicked, pending, trayVars, inOrder, errorShown>>
        /\ call[c] # "idle"
        /\ \A d \in Caller : d # c => call'[d] = call[d]
    BY <1>2 DEF ReadState, ReadForMessage, fields, IInv, TypeOK
  <2>. QED BY <2>1 DEF AppTypes, MenuFits, HandlersOnly, Told, Shows, trayVars
<1>3. CASE ShowRefusal(c)
  <2>1. /\ SetError /\ errorShown' = TRUE /\ pending' = pending
        /\ clicked' = [clicked EXCEPT ![c] = "none"]
        /\ call' = [call EXCEPT ![c] = "idle"]
    BY <1>3 DEF ShowRefusal, ReturnError
  <2>. QED BY <2>1, ErrorMenu DEF AppTypes, HandlersOnly, Told, IInv, TypeOK
<1>4. CASE StartWorker(c)
  <2>1. /\ UNCHANGED <<state, pending, trayVars, inOrder, errorShown>>
        /\ clicked' = [clicked EXCEPT ![c] = "none"]
        /\ call' = [call EXCEPT ![c] = "idle"]
    BY <1>4 DEF StartWorker, Launch, fields
  <2>. QED BY <2>1 DEF AppTypes, MenuFits, HandlersOnly, Told, Shows, trayVars,
                       IInv, TypeOK
<1>. QED BY <1>1, <1>2, <1>3, <1>4 DEF Handler

\* A worker takes a step.
LEMMA WorkerKeeps ==
    ASSUME AppInv, IInv', NEW w \in Worker, WorkerRuns(w)
    PROVE  AppInv'
<1>. USE DEF AppInv
<1>1. call' = call
  BY DEF WorkerRuns, WorkerStep, TimerFires, ContextDone, EnterConnecting, EnterConnected,
         EnterDeprovisioning, EnterDisconnected, cleanup, Advance, handleError, callers
<1>2. SpawnCallback /\ UNCHANGED <<clicked, trayVars, inOrder, errorShown>>
  BY DEF WorkerRuns
<1>3. pending' \in Seq(State) /\ Told'
  BY <1>2, Spawned
<1>. QED BY <1>1, <1>2, <1>3 DEF AppTypes, MenuFits, HandlersOnly, trayVars

\* A callback tells the tray.
LEMMA CallbackKeeps ==
    ASSUME AppInv, IInv', NEW i \in DOMAIN pending, RunCallback(i)
    PROVE  AppInv'
<1>. USE DEF AppInv
<1>1. /\ UNCHANGED <<vars, clicked, errorShown>>
      /\ onControllerStateChange(pending[i]) /\ inOrder' = (inOrder /\ i = 1)
      /\ pending' = SubSeq(pending, 1, i - 1) \o SubSeq(pending, i + 1, Len(pending))
  BY DEF RunCallback
<1>2. /\ Len(pending) \in Nat /\ i \in 1..Len(pending) /\ pending[i] \in State
  BY LenProperties, ElementOfSeq DEF AppTypes
<1>3. tray' = Shows(pending[i]) /\ MenuFits'
  BY <1>1, <1>2, MenuMethods
<1>4. /\ pending' \in Seq(State)
      /\ i = 1 => IF Len(pending) = 1 THEN pending' = <<>>
                  ELSE pending' # <<>> /\ pending'[Len(pending')] = pending[Len(pending)]
  <2>1. pending \in Seq(State)
    BY DEF AppTypes
  <2>. HIDE DEF AppInv
  <2>2. pending' \in Seq(State)
    BY <1>1, <1>2, <2>1, Removed
  <2>3. ASSUME i = 1, Len(pending) = 1 PROVE pending' = <<>>
    BY <1>1, <1>2, <2>1, <2>3, Removed
  <2>4. ASSUME i = 1, Len(pending) # 1
        PROVE  pending' # <<>> /\ pending'[Len(pending')] = pending[Len(pending)]
    BY <1>1, <1>2, <2>1, <2>4, Removed
  <2>. QED BY <2>2, <2>3, <2>4
<1>5. Told'
  <2>. SUFFICES ASSUME inOrder', ~errorShown'
                PROVE  Shows(state') = IF pending' = <<>> THEN tray'
                                       ELSE Shows(pending'[Len(pending')])
    BY DEF Told, Shows
  <2>1. i = 1 /\ inOrder /\ ~errorShown /\ state' = state
    BY <1>1 DEF vars, fields
  <2>2. pending # <<>>
    BY <1>2, EmptySeq
  <2>3. Shows(state) = Shows(pending[Len(pending)])
    BY <2>1, <2>2 DEF Told
  <2>4. CASE Len(pending) = 1
    BY <1>3, <1>4, <2>1, <2>3, <2>4
  <2>5. CASE Len(pending) # 1
    BY <1>4, <2>1, <2>3, <2>5
  <2>. QED BY <2>4, <2>5
<1>. QED BY <1>1, <1>3, <1>4, <1>5 DEF AppTypes, HandlersOnly, vars, callers

LEMMA AppNextInv == AppInv /\ [AppNext]_appVars => AppInv'
<1>. SUFFICES ASSUME AppInv, [AppNext]_appVars PROVE AppInv'
  OBVIOUS
<1>1. IInv'
  BY AppStepIsControllers, NextIInv DEF AppInv
<1>2. CASE SettingsSaveFails
  <2>1. /\ SetError /\ errorShown' = TRUE
        /\ UNCHANGED <<vars, clicked, pending, inOrder>>
    BY <1>2 DEF SettingsSaveFails
  <2>. QED BY <1>1, <2>1, ErrorMenu DEF AppInv, AppTypes, HandlersOnly, Told, vars, callers
<1>3. CASE UNCHANGED appVars
  BY <1>1, <1>3 DEF AppInv, AppTypes, MenuFits, HandlersOnly, Told, Shows, appVars, vars,
                    fields, callers, trayVars
<1>. QED BY <1>1, <1>2, <1>3, ClickKeeps, HandlerKeeps, WorkerKeeps, CallbackKeeps DEF AppNext

LEMMA AlwaysAppInv == AppSpec => []AppInv
BY AppInitInv, AppNextInv, PTL DEF AppSpec

-----------------------------------------------------------------------------
\* The two history variables are Boolean whatever the rest of the state is.
LEMMA Booleans ==
    /\ AppInit => {inOrder, errorShown} \subseteq BOOLEAN
    /\ {inOrder, errorShown} \subseteq BOOLEAN /\ [AppNext]_appVars
          => ({inOrder, errorShown} \subseteq BOOLEAN)'
<1>1. AppInit => {inOrder, errorShown} \subseteq BOOLEAN
  BY DEF AppInit
<1>2. ASSUME {inOrder, errorShown} \subseteq BOOLEAN, [AppNext]_appVars
      PROVE  inOrder' \in BOOLEAN /\ errorShown' \in BOOLEAN
  <2>1. inOrder' \in BOOLEAN
    BY <1>2, Zenon DEF appVars, AppNext, ClickConnect, ClickDisconnect, Handler, OnConnect,
                       OnDisconnect, ReadState, ShowRefusal, StartWorker, WorkerRuns,
                       RunCallback, SettingsSaveFails
  <2>2. errorShown' \in BOOLEAN
    BY <1>2, Zenon DEF appVars, AppNext, ClickConnect, ClickDisconnect, Handler, OnConnect,
                       OnDisconnect, ReadState, ShowRefusal, StartWorker, WorkerRuns,
                       RunCallback, SettingsSaveFails
  <2>. QED BY <2>1, <2>2
<1>. QED BY <1>1, <1>2

\* Every variable of the wired program keeps its type; the status line and the
\* two menu items only show the menus that the tray's methods make.
THEOREM AppTypeCorrect == AppSpec => []AppTypeOK
<1>1. AppSpec => []({inOrder, errorShown} \subseteq BOOLEAN)
  BY Booleans, PTL DEF AppSpec
<1>2. AppInv /\ {inOrder, errorShown} \subseteq BOOLEAN => AppTypeOK
  <2>. SUFFICES ASSUME AppInv, {inOrder, errorShown} \subseteq BOOLEAN PROVE AppTypeOK
    OBVIOUS
  <2>1. tray \in TrayStatus /\ connectEnabled \in BOOLEAN /\ disconnectEnabled \in BOOLEAN
    BY DEF AppInv, MenuFits, Menus, trayVars, TrayStatus
  <2>. QED BY <2>1 DEF AppInv, IInv, AppTypes, AppTypeOK
<1>. QED BY <1>1, <1>2, AlwaysAppInv, PTL

\* The program uses the controller only as its specification says, so that all
\* that is proved of the controller holds in the program (main.go).
THEOREM AppRefinesController == AppSpec => Spec
<1>1. AppInit => Init
  BY DEF AppInit
<1>. QED BY <1>1, AppStepIsControllers, PTL DEF AppSpec, Spec

\* If callbacks have run in order and no error was shown, the tray is behind the
\* controller by the callbacks still to run and by nothing else, and at rest the
\* next step is enabled, for any clicks, workers and delays (main.go,
\* systray.go, setState).
THEOREM TrayIsTold == AppSpec => []TrayFollows
<1>1. AppInv => TrayFollows
  <2>. SUFFICES ASSUME AppInv, inOrder, ~errorShown, Quiet
                PROVE  /\ connectEnabled <=> state = "Disconnected"
                       /\ disconnectEnabled <=> state = "Connected"
    BY DEF TrayFollows, AppInv, Told
  <2>1. \A c \in Caller : ~Launching(c)
    BY DEF AppInv, HandlersOnly, Quiet, Launching
  <2>2. state \in {"Disconnected", "Connected"}
    BY <2>1 DEF AppInv, IInv, OneDriver, Quiet, Resting
  <2>3. tray = state
    BY <2>2 DEF AppInv, Told, Quiet, Shows
  <2>. QED BY <2>2, <2>3 DEF AppInv, MenuFits, Menus, trayVars
<1>. QED BY <1>1, AlwaysAppInv, PTL

-----------------------------------------------------------------------------
\* No session fails in the wired program, and no callback tells of an error;
\* the tray shows one only for a call that was refused or a save that failed.
ErrorHasCause ==
    /\ state # "Error"
    /\ \A i \in DOMAIN pending : pending[i] # "Error"
    /\ tray = "Error" => errorShown

Fine == State \ {"Error"}

\* main.go hands every session the background context and never calls Cancel.
EInv == ctxDone = {} /\ pending \in Seq(Fine) /\ (tray = "Error" => errorShown)

LEMMA NotFailed == ASSUME IInv, ctxDone = {} PROVE state \in Fine
BY DEF IInv, TypeOK, FailsOnlyIfCancelled, Fine

LEMMA AppInitEInv == AppInit => EInv
BY EmptySeq DEF AppInit, Init, EInv

\* No step of the wired program cancels a context.
LEMMA NothingCancelled == ASSUME [AppNext]_appVars PROVE UNCHANGED ctxDone
<1>1. ASSUME NEW c \in Caller, Handler(c) PROVE UNCHANGED ctxDone
  BY <1>1 DEF Handler, OnConnect, OnDisconnect, ReadState, ShowRefusal, StartWorker,
              ConnectAccepted, ConnectRefused, DisconnectAccepted, DisconnectRefused,
              ReadForMessage, ReturnError, Launch
<1>2. ASSUME NEW w \in Worker, WorkerRuns(w) PROVE UNCHANGED ctxDone
  BY <1>2 DEF WorkerRuns, WorkerStep, TimerFires, ContextDone, EnterConnecting,
              EnterConnected, EnterDeprovisioning, EnterDisconnected, cleanup, Advance,
              handleError
<1>3. UNCHANGED vars => UNCHANGED ctxDone
  BY DEF vars
<1>. QED BY <1>1, <1>2, <1>3 DEF AppNext, ClickConnect, ClickDisconnect, RunCallback,
                                 SettingsSaveFails, appVars

\* Only a refused call and a failed save show an error, and they are noted.
LEMMA AppNextEInv == AppInv /\ EInv /\ [AppNext]_appVars => EInv'
<1>. SUFFICES ASSUME AppInv, EInv, [AppNext]_appVars PROVE EInv'
  OBVIOUS
<1>. USE DEF EInv
<1>1. ctxDone' = {}
  BY NothingCancelled
<1>2. state' \in Fine
  <2>1. IInv'
    BY AppStepIsControllers, NextIInv DEF AppInv
  <2>. QED BY <1>1, <2>1 DEF IInv, TypeOK, FailsOnlyIfCancelled, Fine
<1>3. ASSUME SpawnCallback, UNCHANGED <<trayVars, errorShown>> PROVE EInv'
  <2>1. pending' \in Seq(Fine)
    BY <1>2, <1>3, AppendProperties DEF SpawnCallback
  <2>. QED BY <1>1, <1>3, <2>1 DEF trayVars
<1>4. ASSUME UNCHANGED <<pending, trayVars, errorShown>> PROVE EInv'
  BY <1>1, <1>4 DEF trayVars
<1>5. ASSUME errorShown' = TRUE, UNCHANGED pending PROVE EInv'
  BY <1>1, <1>5
<1>6. ASSUME NEW c \in Caller, ClickConnect(c) \/ ClickDisconnect(c) PROVE EInv'
  BY <1>4, <1>6 DEF ClickConnect, ClickDisconnect
<1>7. ASSUME NEW c \in Caller, Handler(c) PROVE EInv'
  <2>1. CASE OnConnect(c) \/ OnDisconnect(c)
    BY <1>3, <2>1 DEF OnConnect, OnDisconnect
  <2>2. CASE ReadState(c) \/ StartWorker(c)
    BY <1>4, <2>2 DEF ReadState, StartWorker
  <2>3. CASE ShowRefusal(c)
    BY <1>5, <2>3 DEF ShowRefusal
  <2>. QED BY <1>7, <2>1, <2>2, <2>3 DEF Handler
<1>8. ASSUME NEW w \in Worker, WorkerRuns(w) PROVE EInv'
  BY <1>3, <1>8 DEF WorkerRuns
<1>9. ASSUME NEW i \in DOMAIN pending, RunCallback(i) PROVE EInv'
  <2>1. /\ onControllerStateChange(pending[i]) /\ errorShown' = errorShown
        /\ pending' = SubSeq(pending, 1, i - 1) \o SubSeq(pending, i + 1, Len(pending))
    BY <1>9 DEF RunCallback
  <2>2. i \in 1..Len(pending) /\ pending[i] \in Fine
    BY LenProperties, ElementOfSeq
  <2>3. tray' = Shows(pending[i])
    BY <2>1, <2>2, MenuMethods DEF Fine
  <2>4. pending' \in Seq(Fine)
    BY <2>1, <2>2, Removed
  <2>5. tray' # "Error"
    BY <2>2, <2>3 DEF Fine, State, Shows
  <2>. QED BY <1>1, <2>4, <2>5
<1>10. CASE SettingsSaveFails
  BY <1>5, <1>10 DEF SettingsSaveFails
<1>11. CASE UNCHANGED appVars
  BY <1>4, <1>11 DEF appVars
<1>. QED BY <1>6, <1>7, <1>8, <1>9, <1>10, <1>11 DEF AppNext

\* The user is shown an error only when a call was refused or a save failed:
\* as main.go calls the controller, no session fails and no callback says so,
\* for any clicks, workers and delays.
THEOREM ErrorIsRefusal == AppSpec => []ErrorHasCause
<1>1. ASSUME AppInv, EInv PROVE ErrorHasCause
  <2>1. state # "Error"
    BY <1>1, NotFailed DEF AppInv, EInv, Fine
  <2>2. ASSUME NEW i \in DOMAIN pending PROVE pending[i] # "Error"
    BY <1>1, LenProperties, ElementOfSeq DEF EInv, Fine
  <2>. QED BY <1>1, <2>1, <2>2 DEF EInv, ErrorHasCause
<1>. QED BY <1>1, AppInitEInv, AppNextEInv, AlwaysAppInv, PTL DEF AppSpec

\* The wired program is a lifecycle: its sessions follow one another without
\* overlapping and each is cleaned up before the next begins.
THEOREM AppIsLifecycle == AppSpec => Abstract!SafeSpec
BY AppRefinesController, RefinesLifecycle
=============================================================================
