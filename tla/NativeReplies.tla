---------------------------- MODULE NativeReplies ----------------------------
(***************************************************************************)
(* What the application makes of a native reply: the v3 route-helper client *)
(* (networking/route_helper_v3_client.rs) with the checks its boundary adds *)
(* (networking/broker_bound_route_v3.rs) and the tunnel-broker client      *)
(* (networking/tunnel_broker_client.rs).  A reply is what the C surface    *)
(* hands over, field by field; it may be late, of another session, of an   *)
(* older helper or damaged.  Every reply is judged once.                   *)
(***************************************************************************)
EXTENDS Integers, FiniteSets

CONSTANTS MaxGeneration    \* stands for i64::MAX, the last broker generation

HelperV3 == 3
BrokerV1 == 1
Texts == {"none", "bad", "mine", "other"}    \* bad: unterminated, not UTF-8 or no identifier

States == [i \in 0..7 |-> <<"Idle", "HoldPending", "Held", "Applied", "RetirementPending",
                            "Released", "RecoveryOnly", "FailedClosed">>[i + 1]]
BrokerStates == [i \in 0..2 |-> <<"Idle", "Running", "RouteHeld">>[i + 1]]
HelperErrors == 0..12      \* 0: none
BrokerErrors == 0..8
StaleGeneration == 5

VARIABLES
    call,       \* what was asked
    tunnel,     \* whose tunnel facts the owner holds
    reply,
    verdict     \* none, then what the call returned

replies == <<call, tunnel, reply, verdict>>

HelperCalls == {"discover", "begin", "apply", "heartbeat", "rollback"}
BrokerCalls == {"start", "status", "stop"}

NativeReplyV3(transport, version, state, error, transition, generation, sidecar, lease, operation) ==
    [transport |-> transport, version |-> version, state |-> state, error |-> error, transition |-> transition,
     generation |-> generation, sidecar |-> sidecar, lease |-> lease, operation |-> operation]

NativeReply(transport, version, state, error, generation, input, output, sidecar) ==
    [transport |-> transport, version |-> version, state |-> state, error |-> error,
     generation |-> generation, input |-> input, output |-> output, sidecar |-> sidecar]

-----------------------------------------------------------------------------
(* The contract: bindings and references (networking/route_helper_v3.rs) *)

Reference(generation, sidecar, lease, operation) ==
    [generation |-> generation, sidecar |-> sidecar, lease |-> lease, operation |-> operation]
NoReference == Reference(0, "none", "none", "none")
Mine == Reference(1, "mine", "mine", "mine")

ValidText(t) == t \in {"mine", "other"}
ValidSession(generation, sidecar) == generation \in 1..MaxGeneration /\ ValidText(sidecar)
ValidBinding(r) == ValidSession(r.generation, r.sidecar) /\ ValidText(r.lease) /\ ValidText(r.operation)

\* An owner's tunnel is its sidecar's.
ValidOwner == ValidBinding(Mine) /\ tunnel = Mine.sidecar

\* validate_authority: before a call is made.
ValidateAuthority == ValidOwner

-----------------------------------------------------------------------------
(* decode_native_reply *)

BoundedText(t) == t # "bad"

TransportOk(r) == r.transport = 0 /\ r.version = HelperV3
CodesKnown(r) == r.state \in DOMAIN States /\ r.error \in HelperErrors
TextsReadable(r) == BoundedText(r.sidecar) /\ BoundedText(r.lease) /\ BoundedText(r.operation)

HasAnyIdentity(r) == r.generation # 0 \/ ~({r.sidecar, r.lease, r.operation} \subseteq {"none"})

\* Part of an identity is no identity.
Echoed(r) == Reference(r.generation, r.sidecar, r.lease, r.operation)
EchoOk(r) == HasAnyIdentity(r) => ValidBinding(Echoed(r)) /\ r.transition # 0

ExpectedOk(r, expected, allowIdle) ==
    IF expected = NoReference
    THEN /\ ~HasAnyIdentity(r) /\ r.transition = 0
         /\ States[r.state] \in {"Idle", "RecoveryOnly", "FailedClosed"}
    ELSE \/ HasAnyIdentity(r) /\ Echoed(r) = expected
         \/ allowIdle /\ ~HasAnyIdentity(r) /\ States[r.state] = "Idle" /\ r.error = 0

\* allow_idle_without_reference is for a rollback alone.
DecodeNativeReply(r) ==
    /\ TransportOk(r) /\ CodesKnown(r) /\ TextsReadable(r) /\ EchoOk(r)
    /\ ExpectedOk(r, IF call = "discover" THEN NoReference ELSE Mine, call = "rollback")

-----------------------------------------------------------------------------
(* The boundary's checks *)

ActiveStatus(r, state, transition) ==
    r.error = 0 /\ States[r.state] = state /\ Echoed(r) = Mine /\ r.transition = transition

DiscoverStatus(r) ==
    r.error = 0 /\ States[r.state] = "Idle" /\ ~HasAnyIdentity(r) /\ r.transition = 0

\* Mutant: what was released is not compared with what is active.
RollbackStatus_Any(r) ==
    r.error = 0 /\ States[r.state] \in {"Released", "Idle"}

RollbackStatus(r) ==
    /\ r.error = 0
    /\ \/ States[r.state] = "Released" /\ Echoed(r) = Mine /\ r.transition > 0
       \/ States[r.state] = "Idle" /\ ~HasAnyIdentity(r) /\ r.transition = 0

ValidateStatus(r) ==
    CASE call = "discover" -> DiscoverStatus(r)
      [] call = "begin" -> ActiveStatus(r, "Held", 2)
      [] call \in {"apply", "heartbeat"} -> ActiveStatus(r, "Applied", 3)
      [] OTHER -> RollbackStatus(r)

-----------------------------------------------------------------------------
(* The tunnel broker's replies *)

DecodeStatusReply(r) ==
    r.transport = 0 /\ r.version = BrokerV1 /\ r.state \in DOMAIN BrokerStates /\ r.error \in BrokerErrors

\* A start hands over both ends of the pipe and names a session.
DecodeStartReply(r) ==
    /\ DecodeStatusReply(r) /\ BrokerStates[r.state] = "Running" /\ r.error = 0
    /\ r.input /\ r.output /\ BoundedText(r.sidecar) /\ ValidSession(r.generation, r.sidecar)

\* kill_owned and try_wait_status: what cannot be read, or says the generation is
\* stale, proves nothing about the child.
RecoveryOnly(r) == ~DecodeStatusReply(r) \/ r.error = StaleGeneration

KillOwned(r) ==
    IF RecoveryOnly(r) THEN "recovery"
    ELSE IF BrokerStates[r.state] = "Idle" /\ r.error = 0 THEN "accepted" ELSE "failed"

TryWaitStatus(r) ==
    IF RecoveryOnly(r) THEN "recovery"
    ELSE IF BrokerStates[r.state] \in {"Running", "RouteHeld"} /\ r.error = 0 THEN "accepted" ELSE "failed"

-----------------------------------------------------------------------------

\* At most one of transport, version and error is off; all else is combined.
Outcomes == {<<0, HelperV3, 0>>, <<1, HelperV3, 0>>, <<0, 2, 0>>, <<0, HelperV3, 8>>, <<0, HelperV3, 13>>}

HelperReplies ==
    {NativeReplyV3(h[1], h[2], s, h[3], n, g, a, b, c) :
        h \in Outcomes, s \in {0, 2, 3, 5, 6, 8}, n \in {0, 2, 3}, g \in {0, 1, MaxGeneration + 1},
        a \in Texts, b \in Texts \ {"bad"}, c \in Texts \ {"bad"}}

BrokerReplies ==
    {NativeReply(t, v, s, e, g, i, o, a) :
        t \in {0, 1}, v \in {0, 1}, s \in 0..3, e \in {0, StaleGeneration, 6, 9}, g \in {0, 1, MaxGeneration + 1},
        i \in BOOLEAN, o \in BOOLEAN, a \in Texts}

Init ==
    /\ tunnel \in {"mine", "other"} /\ verdict = "none"
    /\ \/ call \in HelperCalls /\ reply \in HelperReplies /\ (tunnel = "other" => TransportOk(reply) /\ reply.error = 0)
       \/ call \in BrokerCalls /\ reply \in BrokerReplies /\ tunnel = "mine"

Judge(v) == verdict = "none" /\ verdict' = v /\ UNCHANGED <<call, tunnel, reply>>

\* A call of the boundary: refused, frozen or accepted.
HelperCall ==
    /\ call \in HelperCalls
    /\ Judge(IF ~ValidateAuthority THEN "refused"
             ELSE IF DecodeNativeReply(reply) /\ ValidateStatus(reply) THEN "accepted" ELSE "frozen")

Start == call = "start" /\ Judge(IF DecodeStartReply(reply) THEN "accepted" ELSE "failed")
Stop == call = "stop" /\ Judge(KillOwned(reply))
Status == call = "status" /\ Judge(TryWaitStatus(reply))

Next == HelperCall \/ Start \/ Stop \/ Status

Spec == Init /\ [][Next]_replies

-----------------------------------------------------------------------------
(* Properties *)

\* The reply a v3 helper sends to each call when it has done it for this lease.
Answer(state, transition, r) ==
    NativeReplyV3(0, HelperV3, CHOOSE i \in DOMAIN States : States[i] = state, 0, transition,
                  r.generation, r.sidecar, r.lease, r.operation)

IsExact(r) ==
    CASE call = "discover" -> r = Answer("Idle", 0, NoReference)
      [] call = "begin" -> r = Answer("Held", 2, Mine)
      [] call \in {"apply", "heartbeat"} -> r = Answer("Applied", 3, Mine)
      [] call = "rollback" ->
             \/ r = Answer("Idle", 0, NoReference)
             \/ r.transition # 0 /\ r = Answer("Released", r.transition, Mine)
      [] call = "start" -> \E g \in 1..MaxGeneration, t \in {"mine", "other"} :
                               r = NativeReply(0, BrokerV1, 1, 0, g, TRUE, TRUE, t)
      [] OTHER -> /\ r.transport = 0 /\ r.version = BrokerV1 /\ r.error = 0
                  /\ r.state \in IF call = "stop" THEN {0} ELSE {1, 2}

\* The decoder and the checks behind it accept exactly the replies that say the
\* call was done for this very lease: no late, foreign, older, partial or damaged
\* reply passes for one, and none that is right is refused
\* (decode_native_reply, validate_*_status, decode_start_reply, kill_owned).
AcceptedIsExact == verdict = "accepted" <=> verdict # "none" /\ tunnel = "mine" /\ IsExact(reply)
=============================================================================
