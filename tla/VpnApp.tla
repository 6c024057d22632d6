------------------------------- MODULE VpnApp -------------------------------
(***************************************************************************)
(* The program as src/cmd/my-own-vpn/main.go wires it: the tray menu of    *)
(* src/internal/ui/systray.go, the controller, the goroutine of each click *)
(* and the goroutine that setState starts to tell the tray of a new state. *)
(* Clicks use context.Background() and nothing calls Cancel, so no session *)
(* fails; the tray shows an error only when the controller refuses a call, *)
(* or when the settings could not be saved.                                *)
(***************************************************************************)
EXTENDS Controller, Sequences, FiniteSets

CONSTANT MaxPending   \* bound on the callback goroutines alive at once

ASSUME MaxPendingAssumption == MaxPending \in Nat \ {0}

VARIABLES
    clicked,            \* the menu item each caller goroutine was started for
    pending,            \* states whose callback goroutine has not run yet,
                        \* in the order of the transitions
    tray,               \* the status line and TrayApp.state
    connectEnabled,     \* ~mConnect.Disabled
    disconnectEnabled,  \* ~mDisconnect.Disabled
    (* history, for the properties only *)
    inOrder,            \* callbacks have run in the order of their transitions
    errorShown          \* the tray has shown an error of a call or of a save

trayVars == <<tray, connectEnabled, disconnectEnabled>>
appVars  == <<vars, clicked, pending, trayVars, inOrder, errorShown>>

TrayStatus == {"Disconnected", "Connecting", "Connected", "Disconnecting", "Error"}

-----------------------------------------------------------------------------
(* The tray's methods, each under its own lock *)

\* Status line, Connect item, Disconnect item.
Menu(status, connect, disconnect) ==
    /\ tray' = status
    /\ connectEnabled' = connect
    /\ disconnectEnabled' = disconnect

\* Mutant: the Disconnect item is never enabled.
UpdateStatus_NoDisconnect(connected) ==
    Menu(IF connected THEN "Connected" ELSE "Disconnected", ~connected, FALSE)

UpdateStatus(connected) ==
    Menu(IF connected THEN "Connected" ELSE "Disconnected", ~connected, connected)
SetConnecting    == Menu("Connecting", FALSE, FALSE)
SetDisconnecting == Menu("Disconnecting", FALSE, FALSE)
SetError         == Menu("Error", TRUE, FALSE)

\* Mutant: the passing states are shown under the controller's own names.
onControllerStateChange_RawNames(s) ==
    CASE s = "Disconnected" -> UpdateStatus(FALSE)
      [] s = "Connected"    -> UpdateStatus(TRUE)
      [] OTHER              -> Menu(s, FALSE, FALSE)

onControllerStateChange(s) ==
    CASE s = "Disconnected"                     -> UpdateStatus(FALSE)
      [] s \in {"Provisioning", "Connecting"}      -> SetConnecting
      [] s = "Connected"                        -> UpdateStatus(TRUE)
      [] s \in {"Disconnecting", "Deprovisioning"} -> SetDisconnecting
      [] s = "Error"                            -> SetError

-----------------------------------------------------------------------------
(* Setup and main *)
AppInit ==
    /\ Init
    /\ clicked = [c \in Caller |-> "none"]
    /\ pending = <<>>
    /\ tray = "Disconnected"
    /\ connectEnabled = TRUE
    /\ disconnectEnabled = FALSE
    /\ inOrder = TRUE
    /\ errorShown = FALSE

\* setState starts the callback goroutine with each transition.  The bound
\* says how many transitions the oldest callback may be late.
SpawnCallback ==
    \/ state' = state /\ pending' = pending
    \/ /\ state' # state
       /\ Len(pending) < MaxPending
       /\ pending' = Append(pending, state')

\* The user clicks an enabled item; its handler is a goroutine.  Clicks on
\* Connect are bounded so that each can still be served by a session.
ClickConnect(c) ==
    /\ connectEnabled
    /\ clicked[c] = "none"
    /\ session + Cardinality({d \in Caller : clicked[d] = "connect"}) < MaxSessions
    /\ clicked' = [clicked EXCEPT ![c] = "connect"]
    /\ UNCHANGED <<vars, pending, trayVars, inOrder, errorShown>>

ClickDisconnect(c) ==
    /\ disconnectEnabled
    /\ clicked[c] = "none"
    /\ clicked' = [clicked EXCEPT ![c] = "disconnect"]
    /\ UNCHANGED <<vars, pending, trayVars, inOrder, errorShown>>

\* The handler calls the controller; it is done when the call succeeds.
OnConnect(c) ==
    /\ clicked[c] = "connect"
    /\ ConnectAccepted(c) \/ ConnectRefused(c)
    /\ SpawnCallback
    /\ UNCHANGED <<clicked, trayVars, inOrder, errorShown>>

OnDisconnect(c) ==
    /\ clicked[c] = "disconnect"
    /\ DisconnectAccepted(c) \/ DisconnectRefused(c)
    /\ SpawnCallback
    /\ UNCHANGED <<clicked, trayVars, inOrder, errorShown>>

ReadState(c) ==
    /\ ReadForMessage(c)
    /\ UNCHANGED <<clicked, pending, trayVars, inOrder, errorShown>>

\* Mutant: the handler drops the error.
ShowRefusal_Silent(c) ==
    /\ ReturnError(c)
    /\ clicked' = [clicked EXCEPT ![c] = "none"]
    /\ errorShown' = TRUE
    /\ UNCHANGED <<pending, trayVars, inOrder>>

\* The handler passes the error to the tray and ends.
ShowRefusal(c) ==
    /\ ReturnError(c)
    /\ SetError
    /\ clicked' = [clicked EXCEPT ![c] = "none"]
    /\ errorShown' = TRUE
    /\ UNCHANGED <<pending, inOrder>>

StartWorker(c) ==
    /\ \E w \in Worker : Launch(c, w)
    /\ clicked' = [clicked EXCEPT ![c] = "none"]
    /\ UNCHANGED <<pending, trayVars, inOrder, errorShown>>

WorkerRuns(w) ==
    /\ WorkerStep(w)
    /\ SpawnCallback
    /\ UNCHANGED <<clicked, trayVars, inOrder, errorShown>>

\* One of the callback goroutines runs, not always the oldest.
RunCallback(i) ==
    /\ i \in DOMAIN pending
    /\ onControllerStateChange(pending[i])
    /\ pending' = SubSeq(pending, 1, i - 1) \o SubSeq(pending, i + 1, Len(pending))
    /\ inOrder' = (inOrder /\ i = 1)
    /\ UNCHANGED <<vars, clicked, errorShown>>

\* onSettingsSaved tells of a save that failed in the same place, whatever the
\* controller is doing.
SettingsSaveFails ==
    /\ SetError
    /\ errorShown' = TRUE
    /\ UNCHANGED <<vars, clicked, pending, inOrder>>

Handler(c) ==
    OnConnect(c) \/ OnDisconnect(c) \/ ReadState(c) \/ ShowRefusal(c) \/ StartWorker(c)

AppNext ==
    \/ \E c \in Caller : ClickConnect(c) \/ ClickDisconnect(c) \/ Handler(c)
    \/ \E w \in Worker : WorkerRuns(w)
    \/ \E i \in DOMAIN pending : RunCallback(i)
    \/ SettingsSaveFails

AppSpec == AppInit /\ [][AppNext]_appVars

\* Goroutines that have been started run: handlers, workers, callbacks.  The
\* user need not click.
AppFairness ==
    /\ \A c \in Caller : WF_appVars(Handler(c))
    /\ \A w \in Worker : WF_appVars(WorkerRuns(w))
    /\ WF_appVars(RunCallback(1))

FairAppSpec == AppSpec /\ AppFairness

-----------------------------------------------------------------------------
(* Properties *)

AppTypeOK ==
    /\ TypeOK
    /\ clicked \in [Caller -> {"none", "connect", "disconnect"}]
    /\ pending \in Seq(State)
    /\ tray \in TrayStatus
    /\ connectEnabled \in BOOLEAN /\ disconnectEnabled \in BOOLEAN
    /\ inOrder \in BOOLEAN /\ errorShown \in BOOLEAN

\* Nothing is under way: every handler, worker and callback has ended.
Quiet ==
    /\ \A c \in Caller : clicked[c] = "none"
    /\ \A w \in Worker : ~Running(w)
    /\ pending = <<>>

\* The status that belongs to a state of the controller.
Shows(s) ==
    CASE s \in {"Provisioning", "Connecting"}        -> "Connecting"
      [] s \in {"Disconnecting", "Deprovisioning"}   -> "Disconnecting"
      [] OTHER                                       -> s

\* If callbacks have run in order and no error was shown, the tray lags
\* behind the controller by the callbacks still to run and by nothing else:
\* no transition goes untold and none is told twice, and at rest the item for
\* the next step, Connect or Disconnect, is enabled.
TrayFollows ==
    inOrder /\ ~errorShown =>
        /\ Shows(state) = IF pending = <<>> THEN tray
                          ELSE Shows(pending[Len(pending)])
        /\ Quiet => /\ connectEnabled <=> state = "Disconnected"
                    /\ disconnectEnabled <=> state = "Connected"

\* Every click is answered: the tray comes to show progress or an error,
\* however clicks, workers and callbacks interleave.
EveryClickAnswered ==
    \A c \in Caller :
        /\ clicked[c] = "connect"    ~> tray \in {"Connecting", "Error"}
        /\ clicked[c] = "disconnect" ~> tray \in {"Disconnecting", "Error"}

\* When everything has come to rest over a VPN that is up, the tray says so
\* and lets the user disconnect: "UpdateStatus updates the UI to reflect
\* connection status".
RestingTrayIsRight ==
    Quiet /\ state = "Connected" => tray = "Connected" /\ disconnectEnabled

=============================================================================
