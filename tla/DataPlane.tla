------------------------------ MODULE DataPlane ------------------------------
(***************************************************************************)
(* DataPlaneController (networking/data_plane.rs) over the state machine of  *)
(* networking/state.rs.  Every public call runs to its end under &mut self,  *)
(* so a call is one action; each adapter it uses may fail, and a failed      *)
(* teardown leaves what it was to remove.  A call is written as the set of   *)
(* outcomes [d, ok], d being the controller with what its adapters hold.     *)
(***************************************************************************)
EXTENDS Naturals

CONSTANTS
    Fallbacks,   \* the fallback carriers, at least one
    Threshold,   \* policy.fallback_threshold
    None

Primary == "quic"
Carriers == {Primary} \cup Fallbacks

VARIABLE d   \* the controller and the things its adapters hold

\* DataPlaneController::new; tunnel, routes and up are the adapters' side. History:
\* refused and forgotten, the carriers whose disconnect failed, and those whose record
\* cleanup_after_failure cleared without one, since they were last connected; and hurt,
\* that a disconnect has failed since the last connect that began with nothing up.
Init ==
    d = [state |-> "Disconnected", active |-> None, unhealthy |-> 0,
         tunnel |-> FALSE, routes |-> FALSE, up |-> {}, refused |-> {}, forgotten |-> {}, hurt |-> FALSE]

CanTransitionTo(from, to) ==
    \/ from = "Disconnected" /\ to = "Authenticating"
    \/ from = "Authenticating" /\ to \in {"FetchingConfig", "Disconnecting", "Error"}
    \/ from = "FetchingConfig" /\ to \in {"PreparingTunnel", "Disconnecting", "Error"}
    \/ from = "PreparingTunnel" /\ to \in {"ConnectingPrimary", "Disconnecting", "Error"}
    \/ from \in {"ConnectingPrimary", "Reconnecting"}
       /\ to \in {"ConnectedPrimary", "DegradedFallback", "Disconnecting", "Error"}
    \/ from = "ConnectedPrimary" /\ to \in {"DegradedFallback", "Reconnecting", "Disconnecting", "Error"}
    \/ from = "DegradedFallback" /\ to \in {"Reconnecting", "Disconnecting", "Error"}
    \/ from \in {"Disconnecting", "Error"} /\ to = "Disconnected"

Ok(x) == [d |-> x, ok |-> TRUE]
Err(x) == [d |-> x, ok |-> FALSE]

\* The rest of a call after `?': it goes on from each success, and returns each error.
Then(outcomes, K(_)) ==
    {o \in outcomes : ~o.ok} \cup UNION {K(o.d) : o \in {p \in outcomes : p.ok}}

\* What is done with an error instead of returning it.
OrElse(outcomes, K(_)) ==
    {o \in outcomes : o.ok} \cup UNION {K(o.d) : o \in {p \in outcomes : ~p.ok}}

TransitionTo(x, to) ==
    IF CanTransitionTo(x.state, to) THEN {Ok([x EXCEPT !.state = to])} ELSE {Err(x)}
-----------------------------------------------------------------------------
\* A profile without an endpoint for the carrier fails like the adapter does.
ConnectKind(x, kind) ==
    {Ok([x EXCEPT !.active = kind, !.up = @ \cup {kind}, !.refused = @ \ {kind}, !.forgotten = @ \ {kind}]), Err(x)}

\* The probe's answer does not change the controller: unhealthy or unanswered is an error.
ConnectKindHealthy(x, kind) ==
    Then(ConnectKind(x, kind), LAMBDA y : {Ok(y), Err(y)})

\* An error does not say whether the carrier is down; the record keeps it.
DisconnectActive(x, kind) ==
    {Ok([x EXCEPT !.active = None, !.up = @ \ {kind}, !.refused = @ \ {kind}])}
    \cup {Err([x EXCEPT !.up = u, !.refused = @ \cup {kind}, !.hurt = TRUE]) : u \in {x.up, x.up \ {kind}}}

\* connect_first_fallback, in the profile's order: here any order of the set.
RECURSIVE FirstFallback(_, _)
FirstFallback(x, left) ==
    IF left = {} THEN {Err(x)}
    ELSE UNION {OrElse(ConnectKindHealthy(x, kind),
                       LAMBDA y : IF y.active # None
                                  THEN Then(DisconnectActive(y, kind), LAMBDA z : FirstFallback(z, left \ {kind}))
                                  ELSE FirstFallback(y, left \ {kind})) : kind \in left}

\* Mutant: an unhealthy fallback is not disconnected before the next is tried.
RECURSIVE FirstFallback_Beside(_, _)
FirstFallback_Beside(x, left) ==
    IF left = {} THEN {Err(x)}
    ELSE UNION {OrElse(ConnectKindHealthy(x, kind), LAMBDA y : FirstFallback_Beside(y, left \ {kind})) :
                kind \in left}
ConnectFirstFallback_Beside(x) == FirstFallback_Beside(x, Fallbacks)

ConnectFirstFallback(x) == FirstFallback(x, Fallbacks)

\* Rollback and stop are both tried; each may leave its thing in place.
Teardown(x) ==
    {[x EXCEPT !.routes = @ /\ r, !.tunnel = @ /\ t] : r \in BOOLEAN, t \in BOOLEAN}

(* cleanup_after_failure forgets the carrier without disconnecting it; its   *)
(* own error, if any, takes the place of the caller's.                       *)
CleanupAfterFailure(x) ==
    {Err([y EXCEPT !.state = IF CanTransitionTo(x.state, "Error") THEN "Disconnected" ELSE @]) :
        y \in Teardown([x EXCEPT !.active = None, !.forgotten = @ \cup ({x.active} \ {None})])}

FailToDisconnected(x) == {Err([x EXCEPT !.state = "Disconnected"])}

ApplyRoutes(x, to) ==
    Then(OrElse({Ok([x EXCEPT !.routes = TRUE]), Err(x)}, CleanupAfterFailure), LAMBDA y : TransitionTo(y, to))

Connect ==
    /\ CanTransitionTo(d.state, "Authenticating")
    /\ LET clean == d.up = {} /\ d.active = None
           preparing == [d EXCEPT !.state = "PreparingTunnel", !.hurt = @ /\ ~clean]
           started == [preparing EXCEPT !.tunnel = TRUE, !.state = "ConnectingPrimary"]
           fallback(x) == Then(OrElse(ConnectFirstFallback(x), CleanupAfterFailure),
                               LAMBDA y : ApplyRoutes(y, "DegradedFallback"))
           primary == UNION {IF o.ok THEN ApplyRoutes(o.d, "ConnectedPrimary")
                             ELSE IF o.d.active # None THEN Then(DisconnectActive(o.d, Primary), fallback)
                             ELSE fallback(o.d) : o \in ConnectKindHealthy(started, Primary)}
       IN  \E o \in FailToDisconnected(preparing) \cup primary : d' = o.d

SwitchAfterFailure(x, failed) ==
    LET fallback(y) == Then(OrElse(ConnectFirstFallback(y), CleanupAfterFailure),
                            LAMBDA z : TransitionTo(z, "DegradedFallback"))
    IN  Then(DisconnectActive(x, failed),
             LAMBDA y : IF failed = Primary THEN fallback(y)
                        ELSE Then(TransitionTo(y, "Reconnecting"),
                                  LAMBDA z : UNION {IF o.ok THEN TransitionTo(o.d, "ConnectedPrimary")
                                                    ELSE fallback(o.d) : o \in ConnectKind(z, Primary)}))

SampleHealth ==
    /\ d.active # None
    /\ \/ d' = [d EXCEPT !.unhealthy = 0]
       \/ d.unhealthy + 1 < Threshold /\ d' = [d EXCEPT !.unhealthy = @ + 1]
       \/ /\ d.unhealthy + 1 >= Threshold
          /\ \E o \in SwitchAfterFailure([d EXCEPT !.unhealthy = 0], d.active) : d' = o.d

\* The primary is taken as it connects: this path samples no health.
ReconnectAfterNetworkChange ==
    /\ d.active # None /\ CanTransitionTo(d.state, "Reconnecting")
    /\ \E o \in Then(DisconnectActive([d EXCEPT !.state = "Reconnecting"], d.active),
                     LAMBDA y : UNION {IF p.ok THEN TransitionTo(p.d, "ConnectedPrimary")
                                       ELSE Then(ConnectFirstFallback(p.d),
                                                 LAMBDA z : TransitionTo(z, "DegradedFallback")) :
                                       p \in ConnectKind(y, Primary)}) :
           d' = o.d

\* disconnect goes through all three teardowns whatever each of them says.
Disconnect ==
    /\ d.state # "Disconnected" /\ CanTransitionTo(d.state, "Disconnecting")
    /\ \E x \in {o.d : o \in IF d.active = None THEN {Ok(d)} ELSE DisconnectActive(d, d.active)} :
       \E y \in Teardown(x) :
           d' = [y EXCEPT !.state = "Disconnected"]

Next == Connect \/ SampleHealth \/ ReconnectAfterNetworkChange \/ Disconnect

Spec == Init /\ [][Next]_d
-----------------------------------------------------------------------------
(* However the adapters fail, a controller that says it is connected names   *)
(* the carrier of its state, which is up unless its disconnect has failed,   *)
(* on a tunnel that runs.  (Routes are not part of it: a connect that could  *)
(* not drop its primary stops in ConnectingPrimary, from where a health      *)
(* switch reaches DegradedFallback without routes.apply.)                    *)
ConnectedHasCarrier ==
    /\ d.state = "ConnectedPrimary" => d.active = Primary
    /\ d.state = "DegradedFallback" => d.active \in Fallbacks
    /\ d.state \in {"ConnectedPrimary", "DegradedFallback"} => d.active \in d.up \cup d.refused /\ d.tunnel

(* Every switch breaks before it makes: until a disconnect has failed, a     *)
(* carrier that is up beside the active one is there because the clean-up of *)
(* a failed connect cleared its record without disconnecting it; no other    *)
(* path of the controller leaves one behind.  (After a failed disconnect one *)
(* may: sample_health then connects a fallback in the state Disconnected,    *)
(* and the next connect clears its record by disconnecting the primary.)     *)
BreaksBeforeMaking == ~d.hurt => d.up \subseteq {d.active} \cup d.forgotten
=============================================================================
