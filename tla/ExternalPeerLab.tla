--------------------------- MODULE ExternalPeerLab ---------------------------
(***************************************************************************)
(* The external-peer laboratory of the application                          *)
(* (cmd/networking_external_peer_lab.rs): one worker thread drives the       *)
(* laboratory's supervisor over a socket (vm_external_peer_lab_socket.rs)    *)
(* through three carriers to a steady state, while the user's commands ask   *)
(* it to stop.  A worker that still waits for the supervisor's handshake is  *)
(* stopped by shutting the socket, which is an exit that is not clean.       *)
(***************************************************************************)
EXTENDS Naturals, Sequences

CONSTANT PollLimit       \* IMPAIRMENT_HEALTH_POLL_LIMIT

\* TRANSPORT_ORDER, and TransportKind's phases.
TransportOrder == <<"quic", "wss", "tcp">>
ConnectingPhase == [quic |-> "ConnectingQuic", wss |-> "SwitchingToWss", tcp |-> "SwitchingToTcp"]
ConnectedPhase == [quic |-> "ConnectedQuic", wss |-> "ConnectedWss", tcp |-> "ConnectedTcp"]

VARIABLES
    phase,           \* ExternalPeerLabPhase
    generation,      \* 1 once the one run of this process has begun
    operation,       \* ExternalPeerState.operation is set
    facts,           \* [interface, active, routes, checks]: what the status reports of the run
    lastError,
    requested,       \* WorkerStopSignal.requested
    cancel,          \* the operation's cancellation flag
    gate,            \* the handshake gate
    abort,           \* AbortState: [stream, cancelled, hard]
    commands,        \* the stop commands that have yet to shut the socket
    worker,          \* where the worker is: [at, index, polls]
    session          \* the supervisor's session: "none", "open", "stopped" in order, "cut"
                     \* by a local shutdown of the socket, "lost" by its peer

lab == <<phase, generation, operation, facts, lastError, requested, cancel, gate, abort, commands, worker, session>>

NoFacts == [interface |-> FALSE, active |-> "none", routes |-> FALSE, checks |-> <<>>]

Init ==
    /\ phase = "Disconnected" /\ generation = 0 /\ operation = FALSE
    /\ facts = NoFacts /\ lastError = FALSE
    /\ requested = "none" /\ cancel = FALSE /\ gate = "pending"
    /\ abort = [stream |-> FALSE, cancelled |-> FALSE, hard |-> FALSE]
    /\ commands = 0 /\ worker = [at |-> "none", index |-> 1, polls |-> 0]
    /\ session = "none"

Transport == TransportOrder[worker.index]
Goto(l) == worker' = [worker EXCEPT !.at = l]

\* Mutant: the worker reports whatever it has reached.
UpdateOperation_Always(p, f) == phase' = p /\ facts' = f

\* update_operation: a worker that was told to stop reports nothing more.
UpdateOperation(p, f) ==
    IF operation /\ ~cancel THEN phase' = p /\ facts' = f ELSE UNCHANGED <<phase, facts>>
-----------------------------------------------------------------------------
(* The commands.                                                             *)

\* connect: the socket serves one run, so a process connects once.
Connect ==
    /\ ~operation /\ generation = 0 /\ phase = "Disconnected"
    /\ generation' = 1
    /\ facts' = NoFacts
    /\ \/ /\ operation' = TRUE /\ phase' = "WaitingForValidatedPeer" /\ lastError' = FALSE
          /\ Goto("launch")
       \/ /\ operation' = FALSE /\ phase' = "Failed" /\ lastError' = TRUE  \* the thread cannot be started
          /\ UNCHANGED worker
    /\ UNCHANGED <<requested, cancel, gate, abort, commands, session>>

(* request_worker_stop: the first request decides which stop it is; the one  *)
(* that closes the handshake gate shuts the socket too.                      *)
RequestWorkerStop(stop) ==
    /\ requested' = IF requested = "none" THEN stop ELSE requested
    /\ cancel' = TRUE
    /\ IF gate = "pending" THEN gate' = "aborting" /\ commands' = commands + 1
       ELSE UNCHANGED <<gate, commands>>

StopCommand(stop) ==
    /\ operation
    /\ RequestWorkerStop(stop)
    /\ phase' = "Disconnecting"
    /\ UNCHANGED <<generation, operation, facts, lastError, abort, worker, session>>

Cancel == StopCommand("cancel")
Disconnect == StopCommand("disconnect")

\* VmExternalPeerLabSocketAbort.cancel, after the state's lock is given back.
AbortSocket ==
    /\ commands > 0 /\ commands' = commands - 1
    /\ abort' = [abort EXCEPT !.cancelled = TRUE, !.hard = @ \/ abort.stream]
    /\ session' = IF abort.stream /\ session = "open" THEN "cut" ELSE session
    /\ UNCHANGED <<phase, generation, operation, facts, lastError, requested, cancel, gate, worker>>
-----------------------------------------------------------------------------
(* The worker.  Its errors lead to "failing", a stop it noticed to "stopping".*)

WorkerUnchanged == UNCHANGED <<generation, operation, lastError, requested, cancel, commands>>

(* What a launch finds out about the socket and the process behind it, each  *)
(* as it should be or not.                                                   *)
Peers == [socket: BOOLEAN, replaced: BOOLEAN, uid: BOOLEAN, pid: BOOLEAN, path: BOOLEAN, file: BOOLEAN]
ValidateSocketMetadata(p) == p.socket
ValidateSupervisor(p) == p.uid /\ p.pid /\ p.path /\ p.file

(* register: the stream is kept for an abort, unless the abort came first,   *)
(* which then shuts it at once.                                              *)
RegisterStream ==
    IF abort.cancelled
    THEN abort' = [abort EXCEPT !.hard = TRUE] /\ Goto("failing") /\ UNCHANGED session
    ELSE abort' = [abort EXCEPT !.stream = TRUE] /\ session' = "open" /\ Goto("handshake")

(* launch: nothing is tried after an abort; the socket is looked at before   *)
(* and after the connection, and then the process at its other end.          *)
Launch ==
    /\ worker.at = "launch"
    /\ \/ \E p \in Peers :
             /\ ValidateSocketMetadata(p) /\ ~p.replaced /\ ValidateSupervisor(p)
             /\ RegisterStream
       \/ Goto("failing") /\ UNCHANGED <<abort, session>>
    /\ UNCHANGED <<phase, facts, gate>>
    /\ WorkerUnchanged

(* terminate_child: a session that has ended is dropped with its control,    *)
(* which gives the abort's stream back; one that is open is killed through   *)
(* the abort, which counts as a hard one; without a child the abort is only  *)
(* marked.  The control lives as long as the abort's stream.                 *)
TerminateChild ==
    /\ abort' = [abort EXCEPT !.stream = FALSE,
                              !.cancelled = @ \/ session = "open" \/ ~abort.stream,
                              !.hard = @ \/ (abort.stream /\ session = "open")]
    /\ session' = IF session = "open" THEN "cut" ELSE session

(* A request fails: refused as cancelled or answered with an error, which    *)
(* leaves the session; or not answered, late or garbled, which ends it.      *)
RequestFails ==
    /\ \/ (cancel \/ session = "open") /\ UNCHANGED <<abort, session>>
       \/ TerminateChild
    /\ Goto("failing")
    /\ UNCHANGED <<phase, facts>>

\* A request that is answered as it should be.
RequestDone == ~cancel /\ session = "open" /\ UNCHANGED <<abort, session>>

(* The handshake must be of this instance and of this laboratory; then the   *)
(* gate decides between the worker and a stop.                               *)
Handshake ==
    /\ worker.at = "handshake"
    /\ \/ RequestFails /\ UNCHANGED gate
       \/ /\ session = "open"
          /\ IF gate = "pending"
             THEN gate' = "active" /\ UpdateOperation("Ready", facts) /\ Goto("prepare")
             ELSE Goto("stopping") /\ UNCHANGED <<gate, phase, facts>>
          /\ UNCHANGED <<abort, session>>
    /\ WorkerUnchanged

Prepare ==
    /\ worker.at = "prepare"
    /\ \/ RequestFails
       \/ /\ RequestDone
          /\ UpdateOperation("PreparingUtun", [facts EXCEPT !.interface = TRUE])
          /\ Goto("connect")
    /\ UNCHANGED gate
    /\ WorkerUnchanged

\* The carrier is connected: nothing is reported as active before it is verified.
ConnectTransport ==
    /\ worker.at = "connect"
    /\ UpdateOperation(ConnectingPhase[Transport], [facts EXCEPT !.active = "none"])
    /\ Goto("connecting")
    /\ UNCHANGED <<gate, abort, session>>
    /\ WorkerUnchanged

\* validate_external_probe, and apply_verified_transport_state.
VerifyTransport ==
    /\ worker.at = "connecting"
    /\ \/ RequestFails
       \/ /\ RequestDone
          /\ UpdateOperation(ConnectedPhase[Transport],
                [facts EXCEPT !.active = Transport, !.routes = TRUE])
          /\ worker' = [worker EXCEPT !.at = IF worker.index < Len(TransportOrder) THEN "impair" ELSE "check",
                                      !.polls = 0]
    /\ UNCHANGED gate
    /\ WorkerUnchanged

TransportCheck == UpdateOperation(phase, [facts EXCEPT !.checks = Append(@, Transport)])

(* observe_fixed_impairment: the laboratory impairs the carrier; the worker  *)
(* waits to see it unhealthy.                                                *)
ObserveFixedImpairment ==
    /\ worker.at = "impair"
    /\ \/ RequestFails
       \/ RequestDone /\ TransportCheck /\ Goto("disconnect")
       \/ /\ RequestDone /\ worker.polls + 1 < PollLimit
          /\ worker' = [worker EXCEPT !.polls = @ + 1]
          /\ UNCHANGED <<phase, facts>>
    /\ UNCHANGED gate
    /\ WorkerUnchanged

DisconnectTransport ==
    /\ worker.at = "disconnect"
    /\ \/ RequestFails
       \/ /\ RequestDone
          /\ UpdateOperation(phase, [facts EXCEPT !.active = "none"])
          /\ worker' = [worker EXCEPT !.at = "connect", !.index = @ + 1]
    /\ UNCHANGED gate
    /\ WorkerUnchanged

LastCheck ==
    /\ worker.at = "check"
    /\ TransportCheck /\ Goto("steady")
    /\ UNCHANGED <<gate, abort, session>>
    /\ WorkerUnchanged

\* The steady state: a stop wakes the worker, otherwise it samples and reports again.
SampleSteadyState ==
    /\ worker.at = "steady"
    /\ \/ requested # "none" /\ Goto("stopping") /\ UNCHANGED <<phase, facts, abort, session>>
       \/ RequestDone /\ UpdateOperation("ConnectedTcp", facts) /\ UNCHANGED worker
       \/ RequestFails
    /\ UNCHANGED gate
    /\ WorkerUnchanged

\* An error with no stop asked for is a lost peer, reported before the clean-up.
WorkerFails ==
    /\ worker.at = "failing"
    /\ IF requested # "none" THEN Goto("stopping") /\ UNCHANGED <<phase, facts>>
       ELSE Goto("lost") /\ UpdateOperation("PeerLostCleaningUp", facts)
    /\ UNCHANGED <<gate, abort, session>>
    /\ WorkerUnchanged

(* runtime.stop: the session answers the Disconnect and closes, or it is     *)
(* terminated; a kill that is not confirmed in time is an error, after which *)
(* the control is dropped all the same.                                      *)
RuntimeStop(then) ==
    \/ /\ session = "open" /\ session' = "stopped"
       /\ abort' = [abort EXCEPT !.stream = FALSE]
       /\ Goto(then)
    \/ TerminateChild /\ Goto(then)
    \/ session = "open" /\ TerminateChild /\ Goto("exitFailed")

CleanUp ==
    /\ worker.at \in {"stopping", "lost"}
    /\ RuntimeStop(IF worker.at = "lost" THEN "exitFailed" ELSE "stopped")
    /\ UNCHANGED <<phase, facts, gate>>
    /\ WorkerUnchanged

\* requested_stop_exit, which looks at the abort after the stop.
RequestedStopExit ==
    /\ worker.at = "stopped"
    /\ Goto(IF abort.hard THEN "exitFailed" ELSE "exitDisconnected")
    /\ UNCHANGED <<phase, facts, gate, abort, session>>
    /\ WorkerUnchanged

FinishWorker ==
    /\ worker.at \in {"exitFailed", "exitDisconnected"}
    /\ operation' = FALSE /\ facts' = NoFacts /\ lastError' = TRUE
    /\ phase' = IF worker.at = "exitDisconnected" THEN "Disconnected" ELSE "Failed"
    /\ Goto("done")
    /\ UNCHANGED <<generation, requested, cancel, gate, abort, commands, session>>
-----------------------------------------------------------------------------
Worker ==
    \/ Launch \/ Handshake \/ Prepare \/ ConnectTransport \/ VerifyTransport \/ ObserveFixedImpairment
    \/ DisconnectTransport \/ LastCheck \/ SampleSteadyState \/ WorkerFails \/ CleanUp
    \/ RequestedStopExit \/ FinishWorker

\* The peer, or the supervisor, goes away by itself.
PeerLost ==
    /\ session = "open" /\ session' = "lost"
    /\ UNCHANGED <<phase, generation, operation, facts, lastError, requested, cancel, gate, abort, commands, worker>>

Next == Connect \/ Cancel \/ Disconnect \/ AbortSocket \/ Worker \/ PeerLost

Spec == Init /\ [][Next]_lab
-----------------------------------------------------------------------------
(* A stop the user asked for is what the status shows until the worker is    *)
(* gone, whatever the worker finishes meanwhile.                             *)
StopIsShown == operation /\ requested # "none" => phase = "Disconnecting"

(* After the run, "Disconnected" is shown only for a session that was never  *)
(* opened, was closed in order, or had been ended by its peer: one that this *)
(* side shut, for a stop or for a request that was not answered, ends as     *)
(* failed however late the stop was asked for (requested_stop_exit).         *)
CleanExitIsClean ==
    phase = "Disconnected" /\ generation = 1 => session \in {"none", "stopped", "lost"} /\ ~abort.hard
=============================================================================
