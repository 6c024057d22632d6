----------------------------- MODULE WireGuard -----------------------------
(***************************************************************************)
(* The WireGuard client, src/internal/wireguard/client_darwin.go and       *)
(* client_windows.go, with the tunnel that wg-quick or wireguard.exe       *)
(* brings up and takes down for it.  Every call runs under the client's    *)
(* mutex, so that there is one call at a time.                             *)
(*                                                                         *)
(* A session stands for a server and a client key: the configuration file, *)
(* the tunnel and the client name the session they are of.                 *)
(***************************************************************************)
EXTENDS Naturals

CONSTANTS
    Session,
    MaxFaults    \* bound on failing commands and writes and on crashes

ASSUME WireGuardAssumption == MaxFaults \in Nat

Platform == {"darwin", "windows"}

VARIABLES
    (* the process *)
    connected,
    session,    \* keyPair and serverIP: none or one
    call,       \* the call in progress and the command it has reached
    (* outside the process *)
    platform,
    file,       \* the configuration file: none, whole, or cut short
    tunnel,     \* the tunnel: none or one
    (* history and bounds *)
    orphaned,   \* a tunnel was left to nobody
    halfDown,   \* the tunnel went down in a command that reported an error
    littered,   \* a configuration file was left behind
    faults

client  == <<connected, session>>
history == <<orphaned, halfDown, littered>>
vars    == <<client, call, platform, file, tunnel, history, faults>>

Idle  == [step |-> "idle", of |-> {}]
Torn  == {"torn"}
Files == {{}, Torn} \cup {{s} : s \in Session}

Init ==
    /\ connected = FALSE /\ session = {} /\ call = Idle
    /\ platform \in Platform /\ file = {} /\ tunnel = {}
    /\ orphaned = FALSE /\ halfDown = FALSE /\ littered = FALSE
    /\ faults = 0

Fault ==
    /\ faults < MaxFaults
    /\ faults' = faults + 1

\* os.Remove of the configuration file; its error is ignored.
Remove ==
    \/ file' = {} /\ UNCHANGED littered
    \/ littered' = TRUE /\ UNCHANGED file

-----------------------------------------------------------------------------
(* Connect *)

\* A client that is connected refuses.
Connect(s) ==
    /\ call = Idle /\ ~connected
    /\ call' = [step |-> "write", of |-> {s}]
    /\ UNCHANGED <<client, platform, file, tunnel, history, faults>>

WriteToFile ==
    /\ call.step = "write"
    /\ file' = call.of /\ littered' = FALSE
    /\ call' = [call EXCEPT !.step = "up"]
    /\ UNCHANGED <<client, platform, tunnel, orphaned, halfDown, faults>>

\* Mutant: the error is ignored.
WriteFails_Ignored ==
    /\ call.step = "write"
    /\ Fault
    /\ file' \in {file, Torn}
    /\ littered' = TRUE
    /\ call' = [call EXCEPT !.step = "up"]
    /\ UNCHANGED <<client, platform, tunnel, orphaned, halfDown>>

\* The directory or the file cannot be made, or the write is cut short.
WriteFails ==
    /\ call.step = "write"
    /\ Fault
    /\ file' \in {file, Torn}
    /\ littered' = (file' # {})
    /\ call' = Idle
    /\ UNCHANGED <<client, platform, tunnel, orphaned, halfDown>>

\* The command refuses a tunnel that is up already.
Up ==
    /\ call.step = "up" /\ tunnel = {}
    /\ tunnel' = file
    /\ connected' = TRUE /\ session' = call.of
    /\ halfDown' = FALSE
    /\ call' = Idle
    /\ UNCHANGED <<platform, file, orphaned, littered, faults>>

\* Mutant: the file stays.
UpFails_KeepsFile ==
    /\ call.step = "up"
    /\ IF tunnel # {} THEN UNCHANGED <<tunnel, orphaned, faults>>
       ELSE Fault /\ UNCHANGED <<tunnel, orphaned>>
    /\ call' = Idle
    /\ UNCHANGED <<client, platform, file, halfDown, littered>>

\* A command that reports an error, or that is killed because its context has
\* ended, may have brought the tunnel up all the same.
UpFails ==
    /\ call.step = "up"
    /\ IF tunnel # {} THEN UNCHANGED <<tunnel, orphaned, faults>>
       ELSE /\ Fault
            /\ \/ UNCHANGED <<tunnel, orphaned>>
               \/ tunnel' = file /\ orphaned' = TRUE
    /\ Remove
    /\ call' = Idle
    /\ UNCHANGED <<client, platform, halfDown>>

-----------------------------------------------------------------------------
(* Disconnect *)

\* A client that is not connected has nothing to do.
Disconnect ==
    /\ call = Idle /\ connected
    /\ call' = [step |-> "down", of |-> session]
    /\ UNCHANGED <<client, platform, file, tunnel, history, faults>>

\* wg-quick finds what to take down in the file; wireguard.exe knows the name.
CanDown == tunnel # {} /\ (platform = "darwin" => file = tunnel)

Down ==
    /\ call.step = "down" /\ CanDown
    /\ tunnel' = {}
    /\ Remove
    /\ connected' = FALSE
    /\ call' = Idle
    /\ UNCHANGED <<session, platform, orphaned, halfDown, faults>>

\* Mutant: the client is disconnected although the command failed.
DownFails_Disconnects ==
    /\ call.step = "down"
    /\ IF CanDown THEN Fault ELSE UNCHANGED faults
    /\ connected' = FALSE
    /\ call' = Idle
    /\ UNCHANGED <<session, platform, file, tunnel, history>>

\* The client stays connected; the tunnel may be gone all the same.
DownFails ==
    /\ call.step = "down"
    /\ IF ~CanDown THEN UNCHANGED <<tunnel, halfDown, faults>>
       ELSE /\ Fault
            /\ \/ UNCHANGED <<tunnel, halfDown>>
               \/ tunnel' = {} /\ halfDown' = TRUE
    /\ call' = Idle
    /\ UNCHANGED <<client, platform, file, orphaned, littered>>

-----------------------------------------------------------------------------
\* The process ends, at any moment: what it knew of the tunnel is lost.  A
\* command that was running may end its work; a restart of the machine takes
\* the tunnel of wg-quick down, and wireguard.exe's service starts again.
Crash ==
    /\ Fault
    /\ connected' = FALSE /\ session' = {} /\ call' = Idle
    /\ \/ UNCHANGED tunnel
       \/ call.step = "up" /\ tunnel = {} /\ tunnel' = file
       \/ tunnel # {} /\ tunnel' = {} /\ (platform = "darwin" \/ call.step = "down")
    /\ orphaned' = (tunnel' # {})
    /\ littered' = (file # {})
    /\ halfDown' = FALSE
    /\ UNCHANGED <<platform, file>>

Next ==
    \/ \E s \in Session : Connect(s)
    \/ WriteToFile \/ WriteFails \/ Up \/ UpFails
    \/ Disconnect \/ Down \/ DownFails
    \/ Crash

Spec == Init /\ [][Next]_vars

-----------------------------------------------------------------------------
Sessions == {{}} \cup {{s} : s \in Session}

TypeOK ==
    /\ connected \in BOOLEAN /\ session \in Sessions
    /\ call \in [step : {"idle", "write", "up", "down"}, of : Sessions]
    /\ call.step # "idle" => call.of # {}
    /\ platform \in Platform /\ file \in Files /\ tunnel \in Sessions
    /\ orphaned \in BOOLEAN /\ halfDown \in BOOLEAN /\ littered \in BOOLEAN
    /\ faults \in 0..MaxFaults

\* Between calls the tunnel is what the client says, also after calls that
\* failed.  A client that is connected has its own tunnel, and never one that a
\* crash or a killed command left; or it has none, after a Disconnect that took
\* it down and reported an error.  A client that is not has left none: only a
\* crash, or an "up" that reported an error and did its work, leaves one, which
\* no call takes down.
TunnelFollows ==
    call = Idle =>
        /\ connected => tunnel = IF halfDown THEN {} ELSE session
        /\ ~connected /\ ~orphaned => tunnel = {}

\* The file holds the private key and is what wg-quick takes the tunnel down
\* by: it is there, of the right session, as long as the client is connected,
\* and is gone once it is not, but for a file left by a crash, by a write that
\* failed or by a removal that did.
FileFollows ==
    call = Idle =>
        /\ connected => file = session
        /\ ~connected /\ ~littered => file = {}

=============================================================================
