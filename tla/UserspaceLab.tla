---------------------------- MODULE UserspaceLab ----------------------------
(***************************************************************************)
(* The userspace and virtual-machine laboratories of the application         *)
(* (cmd/networking_userspace_lab.rs, vm_network_lab_socket.rs,               *)
(* vm_utun_lab_socket.rs).  One mutex covers a whole command, so commands do *)
(* not interleave with each other, but the sidecar may refuse a request, die *)
(* or stop answering between any two of them.  The sidecar's executable is   *)
(* the same on every call.                                                   *)
(***************************************************************************)
EXTENDS Naturals, Sequences

CONSTANT MaxFaults

VARIABLES
    build,           \* the profile the application was built with
    session,         \* the session being set up or kept: [kept, tunnel, active, checks, routes], or NoSession
    lastError,
    child,           \* the sidecar: "none", "running", "dead" and not yet reaped, "stuck" (its handle held,
                     \* its streams closed) or "leaked" (its handle dropped)
    remote,          \* the sidecar's own tunnel and carrier
    at,              \* where the command that holds the mutex is
    command,         \* which command that is
    shown,           \* the last snapshot answered: [sidecar, state, active, routes]
    faults

lab == <<build, session, lastError, child, remote, at, command, shown, faults>>

LabConnectSequence == <<"quic", "wss", "tcp">>
Builds == {"userspace", "vm_utun", "vm_network"}
NoSession == [kept |-> FALSE, tunnel |-> FALSE, active |-> "none", checks |-> <<>>, routes |-> FALSE]
NoRemote == [tunnel |-> FALSE, active |-> "none"]
ErrorAnswer == [sidecar |-> "none", state |-> "none", active |-> "none", routes |-> FALSE]

Init ==
    /\ build \in Builds
    /\ session = NoSession /\ lastError = FALSE
    /\ child = "none" /\ remote = NoRemote
    /\ at = "idle" /\ command = "none" /\ shown = ErrorAnswer /\ faults = 0

Transport == LabConnectSequence[Len(session.checks) + 1]

SnapshotDisconnected(failed) ==
    [sidecar |-> "Stopped", state |-> IF failed THEN "Error" ELSE "Disconnected", active |-> "none", routes |-> FALSE]

\* snapshot_from_sidecar: the state is the sidecar's answer, the carrier and the routes are the session's.
SnapshotFromSidecar ==
    [sidecar |-> "Running", active |-> session.active, routes |-> session.routes,
     state |-> CASE remote.active = "none" -> "PreparingTunnel"
                 [] remote.active = "quic" -> "ConnectedPrimary"
                 [] OTHER -> "DegradedFallback"]

Answer(s) == shown' = s /\ at' = "idle" /\ command' = "none"
Fault == faults < MaxFaults /\ faults' = faults + 1
-----------------------------------------------------------------------------
(* Requests.  An answer leaves the sidecar as the request says; a refusal    *)
(* leaves it as it was; a request that gets no answer ends the sidecar,      *)
(* whose handle is then gone or, when it cannot be reaped, still held.       *)

Answered(r) == child = "running" /\ remote' = r /\ UNCHANGED <<child, faults>>
Refused == child = "running" /\ Fault /\ UNCHANGED <<child, remote>>
Unanswered ==
    /\ child' \in {"none"} \cup (IF child \in {"running", "stuck"} THEN {"stuck"} ELSE {})
    /\ IF child = "running" THEN Fault ELSE UNCHANGED faults
    /\ remote' = NoRemote

\* valid_lab_interface, and an answer of another kind, end the connect like a refusal.
RequestFails == (Refused \/ Unanswered) /\ at' = "abort" /\ UNCHANGED <<build, session, lastError, command, shown>>

\* VmNetworkLabSocketControl, VmUtunLabSocketControl: the end of the stream is the end of the sidecar.
ChildDies ==
    /\ child = "running" /\ Fault /\ child' = "dead" /\ remote' = NoRemote
    /\ UNCHANGED <<build, session, lastError, at, command, shown>>
-----------------------------------------------------------------------------
(* UserspaceLabSession::stop: the carrier and the tunnel are taken down in   *)
(* the session whatever the sidecar answers, then the runtime is stopped.    *)
(* The runtime's own drop repeats the stop, so only a sidecar that twice     *)
(* cannot be reaped is left behind.                                          *)

Stop(ok) ==
    /\ session' = NoSession /\ remote' = NoRemote
    /\ IF ok THEN child' = "none" /\ UNCHANGED faults
             ELSE child \in {"running", "stuck"} /\ Fault /\ child' \in {"none", "leaked"}

\* status, and the first step of a connect that finds a session.
BeginStatus(c) ==
    /\ at = "idle" /\ command' = c /\ at' = "poll"
    /\ UNCHANGED <<build, session, lastError, child, remote, shown, faults>>

\* poll_liveness: the session of a dead sidecar is dropped and the death reported.
PollLiveness ==
    /\ at = "poll"
    /\ CASE ~session.kept ->
               /\ IF command = "connect" THEN at' = "launch" /\ UNCHANGED <<command, shown>>
                                         ELSE Answer(SnapshotDisconnected(lastError))
               /\ UNCHANGED <<session, lastError, child, remote, faults>>
         [] session.kept /\ child \in {"running", "stuck"} ->
               at' = "status" /\ UNCHANGED <<session, lastError, child, remote, command, shown, faults>>
         [] OTHER ->
               /\ Stop(TRUE) /\ lastError' = TRUE
               /\ IF command = "connect" THEN at' = "launch" /\ UNCHANGED <<command, shown>>
                                         ELSE Answer(SnapshotDisconnected(TRUE))
    /\ UNCHANGED build

\* A status request that fails answers an error and keeps the session.
GetStatus ==
    /\ at = "status"
    /\ \/ Answered(remote) /\ Answer(SnapshotFromSidecar)
       \/ (Refused \/ Unanswered) /\ Answer(ErrorAnswer)
    /\ UNCHANGED <<build, session, lastError>>

\* The socket launchers refuse a socket that is not the user's own, or whose peer is not the fixture's user.
LaunchNetworkSocket == build = "vm_network" /\ Fault
LaunchUtunSocket == build = "vm_utun" /\ Fault

\* connect: a fresh sidecar, whose handshake must be the one this build expects.
StartLab ==
    /\ at = "launch" /\ lastError' = FALSE
    /\ \/ child' = "running" /\ at' = "profile" /\ UNCHANGED <<command, shown, faults>>
       \/ (LaunchNetworkSocket \/ LaunchUtunSocket) /\ child' = "none" /\ Answer(ErrorAnswer)
       \/ Fault /\ child' \in {"none", "leaked"} /\ Answer(ErrorAnswer)
    /\ remote' = NoRemote
    /\ UNCHANGED <<build, session>>

ApplyProfile ==
    /\ at = "profile"
    /\ \/ Answered(remote) /\ at' = "prepare" /\ UNCHANGED <<build, session, lastError, command, shown>>
       \/ RequestFails

PrepareTunnel ==
    /\ at = "prepare"
    /\ \/ /\ Answered([remote EXCEPT !.tunnel = TRUE])
          /\ session' = [session EXCEPT !.tunnel = TRUE]
          /\ at' = "connect"
          /\ UNCHANGED <<build, lastError, command, shown>>
       \/ RequestFails

ConnectTransport ==
    /\ at = "connect"
    /\ \/ /\ Answered([remote EXCEPT !.active = Transport])
          /\ at' = "health"
          /\ UNCHANGED <<build, session, lastError, command, shown>>
       \/ RequestFails

\* A carrier that is not reachable fails the connect like a refusal.
SampleHealth ==
    /\ at = "health"
    /\ \/ /\ Answered(remote)
          /\ at' = IF build = "vm_network" THEN "probe" ELSE "checked"
          /\ UNCHANGED <<build, session, lastError, command, shown>>
       \/ RequestFails

\* The routes are believed only after the private echo went through them.
SamplePrivateReachability ==
    /\ at = "probe"
    /\ \/ /\ Answered(remote) /\ at' = "checked"
          /\ session' = [session EXCEPT !.routes = TRUE]
          /\ UNCHANGED <<build, lastError, command, shown>>
       \/ RequestFails

\* The carrier just checked is taken down again unless it is the last.
AfterCheck(s) == IF Len(s.checks) # Len(LabConnectSequence) THEN "disconnect" ELSE "keep"

PushCheck ==
    /\ at = "checked"
    /\ session' = [session EXCEPT !.checks = Append(@, Transport), !.active = Transport]
    /\ at' = AfterCheck(session')
    /\ UNCHANGED <<build, lastError, child, remote, command, shown, faults>>

\* disconnect_active: the session forgets the carrier before it asks.
DisconnectActive ==
    /\ at = "disconnect"
    /\ \/ /\ Answered([remote EXCEPT !.active = "none"])
          /\ session' = [session EXCEPT !.active = "none"]
          /\ at' = IF Len(session.checks) = Len(LabConnectSequence) THEN "keep" ELSE "connect"
          /\ UNCHANGED <<build, lastError, command, shown>>
       \/ RequestFails

\* The finished session is kept, and its status answers the connect.
KeepSession ==
    /\ at = "keep"
    /\ session' = [session EXCEPT !.kept = TRUE]
    /\ at' = "poll" /\ command' = "status"
    /\ UNCHANGED <<build, lastError, child, remote, shown, faults>>

AbortConnect ==
    /\ at = "abort" /\ \E ok \in BOOLEAN : Stop(ok)
    /\ lastError' = TRUE /\ Answer(ErrorAnswer)
    /\ UNCHANGED build

Disconnect ==
    /\ at = "idle"
    /\ \/ /\ session.kept
          /\ \E ok \in BOOLEAN :
                /\ Stop(ok) /\ lastError' = ~ok
                /\ Answer(IF ok THEN SnapshotDisconnected(FALSE) ELSE ErrorAnswer)
       \/ /\ ~session.kept
          /\ lastError' = FALSE /\ Answer(SnapshotDisconnected(FALSE))
          /\ UNCHANGED <<session, child, remote, faults>>
    /\ UNCHANGED build

Next ==
    \/ BeginStatus("status") \/ BeginStatus("connect") \/ PollLiveness \/ GetStatus
    \/ StartLab \/ ApplyProfile \/ PrepareTunnel \/ ConnectTransport \/ SampleHealth
    \/ SamplePrivateReachability \/ PushCheck \/ DisconnectActive \/ KeepSession \/ AbortConnect
    \/ Disconnect \/ ChildDies

Spec == Init /\ [][Next]_lab
-----------------------------------------------------------------------------
(* A session that is kept has had all three carriers checked, and while its  *)
(* sidecar lives the carrier the status shows is the one the sidecar has up, *)
(* over a tunnel both know of (connect, snapshot_from_sidecar); routes are   *)
(* shown only by the build that probes them.                                 *)
KeptSessionIsConnected ==
    session.kept =>
      /\ session.checks = LabConnectSequence
      /\ session.routes => build = "vm_network"
      /\ child = "running" => /\ session.active = remote.active /\ remote.active # "none"
                              /\ session.tunnel = remote.tunnel
=============================================================================
