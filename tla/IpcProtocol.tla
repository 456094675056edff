----------------------------- MODULE IpcProtocol -----------------------------
(***************************************************************************)
(* What the sidecar answers and what the application accepts: the session   *)
(* of the Go sidecar (network-sidecar/internal/ipc) on one side, the        *)
(* response rules of networking/ipc.rs on the other.  One request is        *)
(* outstanding at a time; the backend may fail, and an answer that was left *)
(* in the stream by an earlier request may arrive in place of the new one.  *)
(***************************************************************************)
EXTENDS Naturals, Sequences

CONSTANTS
    MaxRequests   \* requests made of one sidecar

None == "none"
Transports == {"quic", "wss", "tcp"}

Requests ==
    [type : {"get_status", "apply_profile", "prepare_tunnel", "stop_tunnel", "disconnect_transport",
             "sample_health", "sample_private_reachability", "connect", "disconnect"}, arg : {None}]
    \cup [type : {"connect_transport"}, arg : Transports]
    \cup [type : {"cancel"}, arg : {"earlier request"}]

VARIABLES
    session,   \* the Go session: profile, tunnelPrepared, activeTransport, lastError, over
    backend,   \* what the backend really has: its tunnel and its carrier
    request,   \* the request outstanding, with its id
    earlier,   \* an answer that is still in the stream, or None
    answer,    \* the answer the application reads
    verdict    \* "none", "accepted" or "refused"

ipc == <<session, backend, request, earlier, answer, verdict>>

NoStatus == [state |-> None, profile |-> FALSE, transport |-> None, lastError |-> FALSE]
NoAnswer == [id |-> 0, type |-> None, data |-> NoStatus]
NoRequest == [type |-> None, arg |-> None, id |-> 0]

Init ==
    /\ session = [profile |-> FALSE, tunnel |-> FALSE, active |-> None, lastError |-> FALSE, over |-> FALSE]
    /\ backend = [tunnel |-> FALSE, carrier |-> None]
    /\ request = NoRequest
    /\ earlier = NoAnswer
    /\ answer = NoAnswer
    /\ verdict = None
-----------------------------------------------------------------------------
\* session.status().
StatusOf(s) ==
    [state |-> IF s.active = "quic" THEN "connected_primary"
               ELSE IF s.active # None THEN "degraded_fallback"
               ELSE IF s.tunnel THEN "preparing_tunnel" ELSE "disconnected",
     profile |-> s.profile, transport |-> s.active, lastError |-> s.lastError]

Ok(s, type, data) == [session |-> s, type |-> type, data |-> data, backend |-> backend]
StatusAnswer(s, b) == [session |-> s, type |-> "status", data |-> StatusOf(s), backend |-> b]
Failure == Ok(session, "error", NoStatus)

\* backendFailure remembers the error, whatever part of the work was done.
BackendFailure(b) ==
    [session |-> [session EXCEPT !.lastError = TRUE], type |-> "error", data |-> NoStatus, backend |-> b]

(* handleWithContext: the outcomes of one request, by what the backend does. *)
(* A disconnect that fails half way keeps the session's own record of the    *)
(* carrier although the backend has already dropped it.                      *)
Handle(r) ==
    LET s == session
        clean == [s EXCEPT !.lastError = FALSE]
    IN  CASE r.type = "get_status" -> {StatusAnswer(s, backend)}
          [] r.type = "apply_profile" ->
                 IF s.tunnel \/ s.active # None THEN {Failure}
                 ELSE {Ok([clean EXCEPT !.profile = TRUE], "acknowledged", NoStatus), Failure}
          [] r.type = "prepare_tunnel" ->
                 IF ~s.profile \/ s.tunnel THEN {Failure}
                 ELSE {[Ok([clean EXCEPT !.tunnel = TRUE], "tunnel_prepared", NoStatus)
                           EXCEPT !.backend.tunnel = TRUE],
                       BackendFailure(backend)}
          [] r.type = "connect_transport" ->
                 IF ~s.profile \/ ~s.tunnel \/ s.active # None THEN {Failure}
                 ELSE {StatusAnswer([clean EXCEPT !.active = r.arg], [backend EXCEPT !.carrier = r.arg]),
                       BackendFailure(backend), Failure}
          [] r.type = "disconnect_transport" ->
                 IF s.active = None THEN {Failure}
                 ELSE {StatusAnswer([clean EXCEPT !.active = None], [backend EXCEPT !.carrier = None]),
                       BackendFailure(backend)}
          [] r.type = "stop_tunnel" ->
                 IF ~s.tunnel \/ s.active # None THEN {Failure}
                 ELSE {StatusAnswer([clean EXCEPT !.tunnel = FALSE], [backend EXCEPT !.tunnel = FALSE]),
                       BackendFailure(backend)}
          [] r.type = "sample_health" ->
                 IF s.active = None THEN {Failure}
                 ELSE {Ok(s, "health", NoStatus), BackendFailure(backend)}
          [] r.type = "sample_private_reachability" ->
                 IF s.active = None THEN {Failure}
                 ELSE {Ok(s, "private_reachability", NoStatus), Failure, BackendFailure(backend)}
          [] r.type = "disconnect" ->
                 {[Ok([clean EXCEPT !.profile = FALSE, !.tunnel = FALSE, !.active = None, !.over = TRUE],
                      "acknowledged", NoStatus)
                      EXCEPT !.backend = [tunnel |-> FALSE, carrier |-> None]],
                  BackendFailure(backend),
                  BackendFailure([backend EXCEPT !.carrier = None]),
                  BackendFailure([tunnel |-> FALSE, carrier |-> None])}
          [] OTHER -> {Failure}   \* connect is disabled; a cancel comes too late

Ask(r) ==
    /\ request.id < MaxRequests /\ ~session.over
    /\ request.type = None \/ verdict # None
    /\ request' = [type |-> r.type, arg |-> r.arg, id |-> request.id + 1]
    /\ verdict' = None
    /\ earlier' = answer
    /\ answer' = NoAnswer
    /\ UNCHANGED <<session, backend>>

Reply ==
    /\ request.type # None /\ verdict = None /\ answer = NoAnswer /\ ~session.over
    /\ \E outcome \in Handle(request) :
           /\ session' = outcome.session
           /\ backend' = outcome.backend
           /\ answer' = [id |-> request.id, type |-> outcome.type, data |-> outcome.data]
    /\ UNCHANGED <<request, earlier, verdict>>
-----------------------------------------------------------------------------
\* validate_network_status: only the states a session can settle in.
ValidateNetworkStatus(d) ==
    \/ d.state = "disconnected" /\ d.transport = None
    \/ d.state = "preparing_tunnel" /\ d.profile /\ d.transport = None
    \/ d.state = "connected_primary" /\ d.profile /\ d.transport = "quic"
    \/ d.state = "degraded_fallback" /\ d.profile /\ d.transport \in {"wss", "tcp"}

RequireStatus(d, state, transport) ==
    d.state = state /\ d.transport = transport /\ ~d.lastError

ExpectedState(transport) == IF transport = "quic" THEN "connected_primary" ELSE "degraded_fallback"

\* validate_response_payload: the one shape of success each request has.
ValidateResponsePayload(r, a) ==
    \/ r.type = "get_status" /\ a.type = "status" /\ ValidateNetworkStatus(a.data)
    \/ /\ r.type = "connect" /\ a.type = "status" /\ ValidateNetworkStatus(a.data)
       /\ RequireStatus(a.data, "connected_primary", "quic")
    \/ /\ r.type = "stop_tunnel" /\ a.type = "status" /\ ValidateNetworkStatus(a.data)
       /\ RequireStatus(a.data, "disconnected", None)
    \/ /\ r.type = "connect_transport" /\ a.type = "status" /\ ValidateNetworkStatus(a.data)
       /\ RequireStatus(a.data, ExpectedState(r.arg), r.arg)
    \/ /\ r.type = "disconnect_transport" /\ a.type = "status" /\ ValidateNetworkStatus(a.data)
       /\ RequireStatus(a.data, "preparing_tunnel", None)
    \/ r.type \in {"apply_profile", "disconnect"} /\ a.type = "acknowledged"
    \/ r.type = "prepare_tunnel" /\ a.type = "tunnel_prepared"
    \/ r.type = "sample_health" /\ a.type = "health"
    \/ r.type = "sample_private_reachability" /\ a.type = "private_reachability"

\* IpcResponse::validate_protocol.
ValidateProtocol(r, a) ==
    /\ a.id = r.id
    /\ a.type = "error" \/ ValidateResponsePayload(r, a)

\* The application reads the new answer, or one an earlier request left behind.
Read ==
    /\ verdict = None /\ request.type # None
    /\ \/ answer # NoAnswer /\ UNCHANGED answer
       \/ earlier # NoAnswer /\ answer' = earlier
    /\ verdict' = IF ValidateProtocol(request, answer') THEN "accepted" ELSE "refused"
    /\ UNCHANGED <<session, backend, request, earlier>>

Next == (\E r \in Requests : Ask(r)) \/ Reply \/ Read

Spec == Init /\ [][Next]_ipc
-----------------------------------------------------------------------------
(* The two programs agree: no answer of the sidecar to the request the       *)
(* application is waiting on is refused, in whatever state earlier failures  *)
(* have left the session.                                                    *)
SidecarIsUnderstood ==
    verdict # None /\ answer.id = request.id => verdict = "accepted"

(* A success the application accepts is true of the backend at that moment:  *)
(* the carrier it asked for is the one that is up, a carrier or tunnel it    *)
(* took down is down, and a sidecar that acknowledged the end holds nothing. *)
AcceptedIsTrue ==
    verdict = "accepted" /\ answer.type # "error" =>
        /\ request.type = "connect_transport" => backend.carrier = request.arg
        /\ request.type = "disconnect_transport" => backend.carrier = None
        /\ request.type = "prepare_tunnel" => backend.tunnel
        /\ request.type \in {"stop_tunnel", "disconnect"} => backend = [tunnel |-> FALSE, carrier |-> None]
=============================================================================
