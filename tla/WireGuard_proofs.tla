-------------------------- MODULE WireGuard_proofs --------------------------
(***************************************************************************)
(* The invariants of WireGuard, for any set of sessions and any number of  *)
(* faults.                                                                 *)
(***************************************************************************)
EXTENDS WireGuard, TLAPS

\* What a call in progress knows: the client is as the call found it, and the
\* command "up" finds the file that this call wrote.  A client that is connected
\* has a session to disconnect.
InCall ==
    /\ connected => session # {}
    /\ call.step \in {"write", "up"} => ~connected
    /\ call.step = "up" => file = call.of
    /\ call.step = "down" => connected /\ call.of = session

\* The invariants without "between calls", as far as they hold during one.
TunnelOfSession == connected => tunnel = IF halfDown THEN {} ELSE session

NoTunnelLeft == ~connected /\ ~orphaned => tunnel = {}

FileOfSession ==
    /\ connected => file = session
    /\ ~connected /\ ~littered /\ call.step # "up" => file = {}

IInv == TypeOK /\ InCall /\ TunnelOfSession /\ NoTunnelLeft /\ FileOfSession

-----------------------------------------------------------------------------
LEMMA InitIInv == Init => IInv
<1>. SUFFICES ASSUME Init PROVE IInv
  OBVIOUS
<1>. USE DEF Init, Idle
<1>1. TypeOK
  <2>1. call \in [step : {"idle", "write", "up", "down"}, of : Sessions]
    BY DEF Sessions
  <2>2. faults \in 0..MaxFaults
    BY WireGuardAssumption
  <2>3. file \in Files /\ {session, tunnel} \subseteq Sessions
    BY DEF Files, Sessions
  <2>. QED BY <2>1, <2>2, <2>3 DEF TypeOK
<1>2. InCall
  BY DEF InCall
<1>3. TunnelOfSession /\ NoTunnelLeft /\ FileOfSession
  BY DEF TunnelOfSession, NoTunnelLeft, FileOfSession
<1>. QED BY <1>1, <1>2, <1>3 DEF IInv

\* A file that is of the session of a call is of a session.
LEMMA UpFileIsOfSession == ASSUME IInv, call.step = "up" PROVE file \in Sessions
BY DEF IInv, TypeOK, InCall

LEMMA FaultCounts ==
    ASSUME TypeOK, Fault PROVE faults' \in 0..MaxFaults
BY WireGuardAssumption DEF TypeOK, Fault

LEMMA ConnectKeeps ==
    ASSUME IInv, \/ \E s \in Session : Connect(s)
                 \/ WriteToFile \/ WriteFails \/ Up \/ UpFails
    PROVE  IInv'
<1>. USE DEF IInv
<1>1. ASSUME NEW s \in Session, Connect(s) PROVE IInv'
  <2>. USE <1>1 DEF Connect, client, history, Idle
  <2>1. TypeOK'
    BY DEF TypeOK, Sessions
  <2>2. InCall'
    BY DEF InCall, TypeOK
  <2>3. (TunnelOfSession /\ NoTunnelLeft /\ FileOfSession)'
    BY DEF TunnelOfSession, NoTunnelLeft, FileOfSession
  <2>. QED BY <2>1, <2>2, <2>3
<1>2. CASE WriteToFile
  <2>. USE <1>2 DEF WriteToFile, client
  <2>1. TypeOK'
    BY DEF TypeOK, Files, Sessions
  <2>2. InCall'
    BY DEF InCall, TypeOK
  <2>3. (TunnelOfSession /\ NoTunnelLeft /\ FileOfSession)'
    BY DEF TunnelOfSession, NoTunnelLeft, FileOfSession, InCall, TypeOK
  <2>. QED BY <2>1, <2>2, <2>3
<1>3. CASE WriteFails
  <2>. USE <1>3 DEF WriteFails, client
  <2>1. TypeOK'
    BY FaultCounts DEF TypeOK, Files, Sessions, Idle
  <2>2. InCall'
    BY DEF InCall, Idle
  <2>3. (TunnelOfSession /\ NoTunnelLeft /\ FileOfSession)'
    BY DEF TunnelOfSession, NoTunnelLeft, FileOfSession, InCall
  <2>. QED BY <2>1, <2>2, <2>3
<1>4. CASE Up
  <2>. USE <1>4 DEF Up
  <2>1. TypeOK'
    BY UpFileIsOfSession DEF TypeOK, Idle, Sessions
  <2>2. InCall'
    BY DEF InCall, Idle, TypeOK
  <2>3. (TunnelOfSession /\ NoTunnelLeft /\ FileOfSession)'
    BY DEF TunnelOfSession, NoTunnelLeft, FileOfSession, InCall
  <2>. QED BY <2>1, <2>2, <2>3
<1>5. CASE UpFails
  <2>. USE <1>5 DEF UpFails, client
  <2>1. TypeOK'
    <3>1. file' \in Files /\ littered' \in BOOLEAN
      BY DEF Remove, TypeOK, Files
    <3>2. tunnel' \in Sessions /\ orphaned' \in BOOLEAN
      BY UpFileIsOfSession DEF TypeOK
    <3>3. faults' \in 0..MaxFaults
      BY FaultCounts DEF TypeOK
    <3>. QED BY <3>1, <3>2, <3>3 DEF TypeOK, Idle, Sessions
  <2>2. InCall'
    BY DEF InCall, Idle
  <2>3. TunnelOfSession' /\ NoTunnelLeft'
    BY DEF TunnelOfSession, NoTunnelLeft, InCall
  <2>4. FileOfSession'
    BY DEF FileOfSession, InCall, Remove
  <2>. QED BY <2>1, <2>2, <2>3, <2>4
<1>. QED BY <1>1, <1>2, <1>3, <1>4, <1>5

LEMMA DisconnectKeeps ==
    ASSUME IInv, Disconnect \/ Down \/ DownFails PROVE IInv'
<1>. USE DEF IInv
<1>1. CASE Disconnect
  <2>. USE <1>1 DEF Disconnect, client, history, Idle
  <2>1. TypeOK'
    BY DEF TypeOK, InCall
  <2>2. InCall'
    BY DEF InCall, TypeOK
  <2>3. (TunnelOfSession /\ NoTunnelLeft /\ FileOfSession)'
    BY DEF TunnelOfSession, NoTunnelLeft, FileOfSession
  <2>. QED BY <2>1, <2>2, <2>3
<1>2. CASE Down
  <2>. USE <1>2 DEF Down
  <2>1. TypeOK'
    BY DEF TypeOK, Remove, Files, Sessions, Idle
  <2>2. InCall'
    BY DEF InCall, Idle
  <2>3. (TunnelOfSession /\ NoTunnelLeft)'
    BY DEF TunnelOfSession, NoTunnelLeft
  <2>4. FileOfSession'
    BY DEF FileOfSession, Remove
  <2>. QED BY <2>1, <2>2, <2>3, <2>4
<1>3. CASE DownFails
  <2>. USE <1>3 DEF DownFails, client
  <2>1. TypeOK'
    BY FaultCounts DEF TypeOK, Sessions, Idle
  <2>2. InCall'
    BY DEF InCall, Idle
  <2>3. (TunnelOfSession /\ NoTunnelLeft /\ FileOfSession)'
    BY DEF TunnelOfSession, NoTunnelLeft, FileOfSession, InCall
  <2>. QED BY <2>1, <2>2, <2>3
<1>. QED BY <1>1, <1>2, <1>3

LEMMA CrashKeeps == ASSUME IInv, Crash PROVE IInv'
<1>. USE DEF IInv, Crash
<1>1. TypeOK'
  <2>1. tunnel' \in Sessions
    BY UpFileIsOfSession DEF TypeOK, Sessions
  <2>. QED BY <2>1, FaultCounts DEF TypeOK, Sessions, Idle
<1>2. InCall'
  BY DEF InCall, Idle
<1>3. (TunnelOfSession /\ NoTunnelLeft /\ FileOfSession)'
  BY DEF TunnelOfSession, NoTunnelLeft, FileOfSession
<1>. QED BY <1>1, <1>2, <1>3

LEMMA NextKeeps == IInv /\ [Next]_vars => IInv'
<1>. SUFFICES ASSUME IInv, [Next]_vars PROVE IInv'
  OBVIOUS
<1>1. CASE Next
  BY <1>1, ConnectKeeps, DisconnectKeeps, CrashKeeps DEF Next
<1>2. CASE UNCHANGED vars
  BY <1>2 DEF vars, client, history, IInv, TypeOK, InCall, TunnelOfSession,
              NoTunnelLeft, FileOfSession
<1>. QED BY <1>1, <1>2

LEMMA AlwaysIInv == Spec => []IInv
BY InitIInv, NextKeeps, PTL DEF Spec

-----------------------------------------------------------------------------
\* The types, for any sessions and faults.
THEOREM TypeCorrect == Spec => []TypeOK
<1>1. IInv => TypeOK BY DEF IInv
<1>. QED BY <1>1, AlwaysIInv, PTL

\* Between calls the tunnel is what the client says, for any sequence of calls,
\* failures and crashes (client_darwin.go, client_windows.go).
THEOREM TunnelIsKept == Spec => []TunnelFollows
<1>1. IInv => TunnelFollows
  BY DEF IInv, TunnelOfSession, NoTunnelLeft, TunnelFollows
<1>. QED BY <1>1, AlwaysIInv, PTL

\* The configuration file with the private key is there exactly while the client
\* is connected, but for files that a fault has left.
THEOREM FileIsKept == Spec => []FileFollows
<1>1. IInv => FileFollows BY DEF IInv, FileOfSession, FileFollows, Idle
<1>. QED BY <1>1, AlwaysIInv, PTL
=============================================================================
