-------------------------- MODULE ProductionService --------------------------
(***************************************************************************)
(* One generation of ProductionNetworkingService (networking/              *)
(* production_service.rs) and the commands that drive it                   *)
(* (cmd/networking_production.rs).                                         *)
(*                                                                         *)
(* Four processes share the service: "front", the command that holds the   *)
(* materialize mutex (reserve, cancel, disconnect, retire); "conn", the    *)
(* spawned connect task; and "health" and "lease", the two loops of the    *)
(* monitor task a successful connect leaves behind.  A step ends where the *)
(* code awaits, or drops a lock and takes it again.                        *)
(*                                                                         *)
(* The controller and the route boundary are boundaries here.  A request   *)
(* answers, is cancelled, or fails; what it did remotely is known only     *)
(* when it succeeds.                                                       *)
(***************************************************************************)
EXTENDS Integers, FiniteSets

CONSTANTS
    MaxOps,      \* connects of this generation (operation_epoch)
    Carriers,    \* the length of the transport list; carrier 1 is the primary
    Threshold    \* policy.fallback_threshold

ASSUME OpsAssumption == MaxOps \in Nat \ {0}
ASSUME CarriersAssumption == Carriers \in Nat \ {0}
ASSUME ThresholdAssumption == Threshold \in Nat \ {0}

VARIABLES
    gate,          \* ProductionServiceGateState
    reserved,      \* an unconsumed connect reservation exists
    receipt,       \* the gate holds the route retirement receipt
    pc,            \* where each process is
    lock,          \* who holds the lifecycle mutex, "free" if nobody
    fail,          \* per process: the failure its cleanup is about
    epoch,         \* operation_epoch: the latest operation
    active,        \* active_operation, 0 if None
    stopping,      \* operations asked to cancel or disconnect
    pinned,        \* the operation the disconnect command took hold of
    state,         \* status.state
    sop,           \* status.operation_id, 0 if None
    transport,     \* status.active_transport is Some
    side,          \* status.sidecar_state
    slot,          \* route_heartbeat is Some
    mcancel,       \* its cancelled flag
    carrier,       \* the carrier a loop is on (conn, then the monitor)
    bad,           \* consecutive_health_failures
    routesActive,
    bound,         \* ProductionControllerStartMode::BrokerBound?
    consumed,      \* controller_start_consumed
    routes,        \* outside: "none", "held", "unknown" or the boundary "retired"
    child,         \* outside: a sidecar process exists
    carriers       \* outside: carriers the sidecar has up

admission == <<gate, reserved, receipt>>
operation == <<epoch, active, stopping>>
status == <<state, sop, transport, side>>
monitor == <<slot, mcancel, carrier, bad>>
start == <<bound, consumed>>
outside == <<routes, child, carriers>>

vars == <<admission, pc, lock, fail, operation, pinned, status, monitor, routesActive, start,
          outside>>
-----------------------------------------------------------------------------
Procs == {"front", "conn", "health", "lease"}
Connected == {"ConnectedPrimary", "DegradedFallback"}

\* The classes of errors the code tells apart (fatal_sidecar_error).
Errors == {"cancelled", "fatal", "other"}

Init ==
    /\ gate = "Open" /\ reserved = FALSE /\ receipt = FALSE
    /\ pc = [p \in Procs |-> "idle"]
    /\ lock = "free"
    /\ fail = [p \in Procs |-> "none"]
    /\ epoch = 0 /\ active = 0 /\ stopping = {} /\ pinned = 0
    /\ state = "Disconnected" /\ sop = 0 /\ transport = FALSE /\ side = "Stopped"
    /\ slot = FALSE /\ mcancel = FALSE /\ carrier = 1 /\ bad = 0
    /\ routesActive = FALSE
    /\ bound \in BOOLEAN /\ consumed = FALSE
    /\ routes = "none" /\ child = bound /\ carriers = {}

Goto(p, label) == pc' = [pc EXCEPT ![p] = label]
-----------------------------------------------------------------------------
(* The mutation gate.  A connect or disconnect in progress holds a lease of  *)
(* it, and a route call holds a ticket until its blocking task is joined.    *)
InFlight == pc["conn"] \notin {"idle", "spawned"} \/ pc["front"] \in {"join", "lock", "undo", "granular", "shutdown"}
RouteTask == \E p \in {"health", "lease"} : pc[p] \in {"beat", "mundo"}

\* Mutant: an issued reservation does not keep the generation.
CanRetire_ignoresReservation == ~InFlight /\ ~RouteTask

CanRetire == ~reserved /\ ~InFlight /\ ~RouteTask
AdmitsMutation == gate = "Open" /\ ~reserved
IssueReservation == gate = "Open" /\ ~reserved /\ reserved' = TRUE
ConsumeReservation == gate = "Open" /\ reserved' = FALSE
AdmitsRouteTask == gate = "Open" /\ ~reserved

\* ProductionRouteBoundary::disposition, as the boundary's own state gives it.
RouteDisposition ==
    CASE routes = "none" -> "Reusable"
      [] routes = "held" -> "Busy"
      [] routes = "unknown" -> "RecoveryOnly"
      [] routes = "retired" -> "Retired"

\* A status that claims nothing; only an Error in the slot can differ in state.
StatusIsEmpty == sop = 0 /\ ~transport /\ side = "Stopped"

\* ensure_operation_active and ensure_monitor_operation_active.
EnsureActive == epoch \notin stopping /\ active = epoch /\ sop = epoch /\ state # "Disconnecting"
EnsureMonitor == ~mcancel /\ EnsureActive

\* A cancellation nobody asked for is a dead session.
Authoritative(e) == IF e = "cancelled" /\ epoch \notin stopping THEN "fatal" ELSE e
-----------------------------------------------------------------------------
(* The outside world.  A fatal failure makes the controller stop the child.  *)
ChildAfter(e) == IF e = "fatal" THEN {child, FALSE} ELSE {child}

\* A request succeeds only while the child lives.
RequestFails(e) ==
    /\ child' \in ChildAfter(e)
    /\ carriers' = IF child' THEN carriers ELSE {}
    /\ UNCHANGED routes

\* A failed ConnectTransport may have come up after its deadline.
ConnectFails(e) ==
    /\ child' \in ChildAfter(e)
    /\ carriers' \in IF child' THEN {carriers, carriers \cup {carrier}} ELSE {{}}
    /\ UNCHANGED routes

ShutdownOk == child' = FALSE /\ carriers' = {} /\ UNCHANGED routes
ShutdownFails ==
    /\ child' \in {child, FALSE}
    /\ carriers' = IF child' THEN carriers ELSE {}
    /\ UNCHANGED routes

ChildDies ==
    /\ child
    /\ child' = FALSE /\ carriers' = {}
    /\ UNCHANGED <<admission, pc, lock, fail, operation, pinned, status, monitor, routesActive,
                   start, routes>>
-----------------------------------------------------------------------------
(* cleanup, shared by a failed connect and by disconnect: routes first, then *)
(* the granular stops while the controller is usable, then the shutdown that *)
(* settles it.  The heartbeat slot is empty whenever it is called.           *)
CleanupLabel == IF routesActive THEN "undo" ELSE "granular"
OpOf(p) == IF p = "conn" THEN epoch ELSE pinned

CleanupFailed(p) ==
    /\ state' = "Error" /\ sop' = OpOf(p) /\ transport' = FALSE
    /\ lock' = "free"
    /\ Goto(p, "idle")

CleanupDone(p) ==
    /\ state' = "Disconnected" /\ sop' = 0 /\ transport' = FALSE
    /\ active' = IF active = OpOf(p) THEN 0 ELSE active
    /\ lock' = "free"
    /\ Goto(p, "idle")

\* rollback_routes; a panicking call leaves the gate in RecoveryOnly.
CleanupUndo(p) ==
    /\ pc[p] = "undo"
    /\ \/ /\ AdmitsRouteTask
          /\ routes' = "none"
          /\ routesActive' = FALSE
          /\ Goto(p, "granular")
          /\ UNCHANGED <<gate, status, lock>>
       \/ /\ AdmitsRouteTask
          /\ routes' \in {routes, "unknown"}
          /\ gate' \in {gate, "RecoveryOnly"}
          /\ CleanupFailed(p)
          /\ UNCHANGED <<side, routesActive>>
       \/ /\ ~AdmitsRouteTask
          /\ CleanupFailed(p)
          /\ UNCHANGED <<gate, routes, side, routesActive>>
    /\ UNCHANGED <<reserved, receipt, fail, operation, pinned, monitor, start, child, carriers>>

\* disconnect_carrier and stop_tunnel, whose results cleanup ignores.
CleanupGranular(p) ==
    /\ pc[p] = "granular"
    /\ carriers' \in IF fail[p] = "fatal" THEN {carriers} ELSE {carriers, {}}
    /\ Goto(p, "shutdown")
    /\ UNCHANGED <<admission, lock, fail, operation, pinned, status, monitor, routesActive, start,
                   routes, child>>

\* Mutant: the result of the shutdown is ignored.
CleanupShutdown_ignoresFailure(p) ==
    /\ pc[p] = "shutdown"
    /\ \/ /\ ShutdownOk
          /\ side' = "Stopped"
          /\ CleanupDone(p)
       \/ /\ ShutdownFails
          /\ side' = "CrashLoop"
          /\ CleanupDone(p)
    /\ UNCHANGED <<admission, fail, epoch, stopping, pinned, monitor, routesActive, start>>

CleanupShutdown(p) ==
    /\ pc[p] = "shutdown"
    /\ \/ /\ ShutdownOk
          /\ side' = "Stopped"
          /\ CleanupDone(p)
       \/ /\ ShutdownFails
          /\ side' = "CrashLoop"
          /\ CleanupFailed(p)
          /\ UNCHANGED active
    /\ UNCHANGED <<admission, fail, epoch, stopping, pinned, monitor, routesActive, start>>
-----------------------------------------------------------------------------
(* The connect task.                                                         *)

\* service_for_connect and reserve_connect, then the task is spawned.
Reserve ==
    /\ pc["front"] = "idle" /\ pc["conn"] = "idle"
    /\ epoch < MaxOps
    /\ ~(bound /\ consumed)
    /\ IssueReservation /\ CanRetire
    /\ active = 0 /\ ~slot /\ ~routesActive
    /\ state = "Disconnected" /\ StatusIsEmpty
    /\ lock = "free"
    /\ RouteDisposition = "Reusable"
    /\ Goto("conn", "spawned")
    /\ UNCHANGED <<gate, receipt, lock, fail, operation, pinned, status, monitor, routesActive,
                   start, outside>>

\* consume_reservation, or the task is dropped before it runs.
ConnBegin ==
    /\ pc["conn"] = "spawned"
    /\ \/ ConsumeReservation /\ Goto("conn", "lock")
       \/ reserved' = FALSE /\ Goto("conn", "idle")
    /\ UNCHANGED <<gate, receipt, lock, fail, operation, pinned, status, monitor, routesActive,
                   start, outside>>

\* The lifecycle mutex, a new operation and its first status.  The status is
\* still the Disconnected that reserve_connect saw.
ConnLock ==
    /\ pc["conn"] = "lock"
    /\ lock = "free" /\ state = "Disconnected"
    /\ lock' = "conn"
    /\ epoch' = epoch + 1 /\ active' = epoch' /\ sop' = epoch'
    /\ state' = "Authenticating" /\ transport' = FALSE
    /\ consumed' = bound
    /\ carrier' = 1
    /\ Goto("conn", "start")
    /\ UNCHANGED <<admission, fail, stopping, pinned, side, slot, mcancel, bad, routesActive, bound,
                   outside>>

ConnFails(e) ==
    /\ fail' = [fail EXCEPT !["conn"] = Authoritative(e)]
    /\ Goto("conn", CleanupLabel)

\* The answer is used only if the operation is still wanted.
ConnContinues(label) ==
    IF EnsureActive THEN Goto("conn", label) /\ UNCHANGED fail ELSE ConnFails("cancelled")

\* start, or start_broker_bound of the child the broker prepared.
ConnStart ==
    /\ pc["conn"] = "start"
    /\ \/ /\ bound => child
          /\ child' = TRUE
          /\ ConnContinues("profile")
          /\ side' = IF EnsureActive THEN "Running" ELSE side
       \/ /\ child' \in IF bound THEN {child, FALSE} ELSE BOOLEAN
          /\ \E e \in {"fatal", "other"} : ConnFails(e)
          /\ UNCHANGED side
    /\ UNCHANGED <<admission, lock, operation, pinned, state, sop, transport, monitor, routesActive,
                   start, routes, carriers>>

\* A request of connect_inner: ApplyProfile, then PrepareTunnel.
ConnRequest(label, next) ==
    /\ pc["conn"] = label
    /\ \/ child /\ ConnContinues(next) /\ UNCHANGED outside
       \/ \E e \in Errors : ConnFails(e) /\ RequestFails(e)
    /\ UNCHANGED <<admission, lock, operation, pinned, status, monitor, routesActive, start>>

ConnProfile == ConnRequest("profile", "setPreparing")
ConnPrepare == ConnRequest("prepare", "setConnecting")

\* set_status after the check, in a step of its own: it does not check again.
ConnSetStatus ==
    /\ \/ pc["conn"] = "setPreparing" /\ state' = "PreparingTunnel" /\ Goto("conn", "prepare")
       \/ pc["conn"] = "setConnecting" /\ state' = "ConnectingPrimary" /\ Goto("conn", "carrier")
    /\ sop' = epoch /\ transport' = FALSE
    /\ UNCHANGED <<admission, lock, fail, operation, pinned, side, monitor, routesActive, start,
                   outside>>

\* connect_and_gate: ConnectTransport and the health gate.
ConnCarrier ==
    /\ pc["conn"] = "carrier"
    /\ \/ /\ child
          /\ carriers' = carriers \cup {carrier}
          /\ ConnContinues("snapshot")
          /\ UNCHANGED <<routes, child>>
       \/ \E e \in {"cancelled", "fatal"} : ConnFails(e) /\ ConnectFails(e)
       \/ ConnectFails("other") /\ Goto("conn", "drop") /\ UNCHANGED fail
    /\ UNCHANGED <<admission, lock, operation, pinned, status, monitor, routesActive, start>>

\* Mutant: the loop tries the same carrier again.
ConnDrop_sameCarrier ==
    /\ pc["conn"] = "drop"
    /\ \/ /\ child
          /\ carriers' = {}
          /\ IF EnsureActive /\ carrier < Carriers
             THEN UNCHANGED carrier /\ Goto("conn", "carrier") /\ UNCHANGED fail
             ELSE ConnFails(IF EnsureActive THEN "other" ELSE "cancelled") /\ UNCHANGED carrier
          /\ UNCHANGED <<routes, child>>
       \/ \E e \in Errors : ConnFails(e) /\ RequestFails(e) /\ UNCHANGED carrier
    /\ UNCHANGED <<admission, lock, operation, pinned, status, slot, mcancel, bad, routesActive, start>>

\* Break before make: the next carrier only after this one is seen down.
ConnDrop ==
    /\ pc["conn"] = "drop"
    /\ \/ /\ child
          /\ carriers' = {}
          /\ IF EnsureActive /\ carrier < Carriers
             THEN carrier' = carrier + 1 /\ Goto("conn", "carrier") /\ UNCHANGED fail
             ELSE ConnFails(IF EnsureActive THEN "other" ELSE "cancelled") /\ UNCHANGED carrier
          /\ UNCHANGED <<routes, child>>
       \/ \E e \in Errors : ConnFails(e) /\ RequestFails(e) /\ UNCHANGED carrier
    /\ UNCHANGED <<admission, lock, operation, pinned, status, slot, mcancel, bad, routesActive, start>>

\* Mutant: routes_active is left for after the call.
ConnSnapshot_late ==
    /\ pc["conn"] = "snapshot"
    /\ \/ /\ EnsureActive
          /\ UNCHANGED routesActive
          /\ IF AdmitsRouteTask
             THEN Goto("conn", "apply") /\ UNCHANGED fail
             ELSE Goto("conn", "undo") /\ fail' = [fail EXCEPT !["conn"] = "other"]
       \/ /\ ~EnsureActive
          /\ ConnFails("cancelled")
          /\ UNCHANGED routesActive
       \/ /\ \E e \in {"fatal", "other"} : ConnFails(e)
          /\ UNCHANGED routesActive
    /\ UNCHANGED <<admission, lock, operation, pinned, status, monitor, start, outside>>

\* The Mihomo snapshot; routes_active is set before the first route call.
ConnSnapshot ==
    /\ pc["conn"] = "snapshot"
    /\ \/ /\ EnsureActive
          /\ routesActive' = TRUE
          /\ IF AdmitsRouteTask
             THEN Goto("conn", "apply") /\ UNCHANGED fail
             ELSE Goto("conn", "undo") /\ fail' = [fail EXCEPT !["conn"] = "other"]
       \/ /\ ~EnsureActive
          /\ ConnFails("cancelled")
          /\ UNCHANGED routesActive
       \/ /\ \E e \in {"fatal", "other"} : ConnFails(e)
          /\ UNCHANGED routesActive
    /\ UNCHANGED <<admission, lock, operation, pinned, status, monitor, start, outside>>

\* A route call whose blocking task panicked freezes the gate.
GateAfterCall(e) == IF e = "fatal" THEN {gate, "RecoveryOnly"} ELSE {gate}

\* apply_routes; a failure is ambiguous.
ConnApply ==
    /\ pc["conn"] = "apply"
    /\ \/ routes' = "held" /\ ConnContinues("commit") /\ UNCHANGED gate
       \/ /\ routes' \in {"none", "unknown"}
          /\ \E e \in {"fatal", "other"} : ConnFails(e) /\ gate' \in GateAfterCall(e)
    /\ UNCHANGED <<reserved, receipt, lock, operation, pinned, status, monitor, routesActive, start,
                   child, carriers>>

\* start_route_heartbeat: an empty slot gets the monitor task.
StartHeartbeat == ~slot /\ slot' = TRUE /\ mcancel' = FALSE /\ bad' = 0

\* commit_connected, under the locks that cancel and disconnect take.
ConnCommit ==
    /\ pc["conn"] = "commit"
    /\ \/ /\ EnsureActive /\ state = "ConnectingPrimary"
          /\ StartHeartbeat
          /\ state' = IF carrier = 1 THEN "ConnectedPrimary" ELSE "DegradedFallback"
          /\ transport' = TRUE
          /\ lock' = "free"
          /\ pc' = [pc EXCEPT !["conn"] = "idle", !["health"] = "sleep", !["lease"] = "sleep"]
          /\ UNCHANGED fail
       \/ /\ ~EnsureActive \/ state # "ConnectingPrimary" \/ slot
          /\ ConnFails("cancelled")
          /\ UNCHANGED <<slot, mcancel, bad, state, transport, lock>>
    /\ UNCHANGED <<admission, operation, pinned, sop, side, carrier, routesActive, start, outside>>

Conn ==
    \/ ConnBegin \/ ConnLock \/ ConnStart \/ ConnProfile \/ ConnPrepare \/ ConnSetStatus
    \/ ConnCarrier \/ ConnDrop \/ ConnSnapshot \/ ConnApply \/ ConnCommit
    \/ CleanupUndo("conn") \/ CleanupGranular("conn") \/ CleanupShutdown("conn")
-----------------------------------------------------------------------------
(* cancel and disconnect.  Both leave their mark under the locks of          *)
(* commit_connected and wake the monitor.                                    *)
Cancel ==
    /\ pc["front"] = "idle"
    /\ AdmitsMutation
    /\ active # 0 /\ sop = active
    /\ state \in {"Authenticating", "PreparingTunnel", "ConnectingPrimary", "Reconnecting"}
    /\ stopping' = stopping \cup {active}
    /\ state' = "Disconnecting"
    /\ mcancel' = (mcancel \/ slot)
    /\ UNCHANGED <<admission, pc, lock, fail, epoch, active, pinned, sop, transport, side, slot,
                   carrier, bad, routesActive, start, outside>>

DisconnectBegin ==
    /\ pc["front"] = "idle"
    /\ AdmitsMutation
    /\ pinned' = active
    /\ IF active = 0
       THEN Goto("front", "lock") /\ UNCHANGED <<stopping, state, mcancel>>
       ELSE /\ stopping' = stopping \cup {active}
            /\ state' = IF sop = active /\ state # "Disconnected" THEN "Disconnecting" ELSE state
            /\ mcancel' = (mcancel \/ slot)
            /\ Goto("front", "join")
    /\ UNCHANGED <<admission, lock, fail, epoch, active, sop, transport, side, slot, carrier, bad,
                   routesActive, start, outside>>

MonitorEnded == pc["health"] = "idle" /\ pc["lease"] = "idle"

\* stop_route_heartbeat: joined, or a timeout that fails the disconnect.
DisconnectJoin ==
    /\ pc["front"] = "join"
    /\ \/ MonitorEnded /\ slot' = FALSE /\ Goto("front", "lock")
       \/ ~MonitorEnded /\ Goto("front", "idle") /\ UNCHANGED slot
    /\ UNCHANGED <<admission, lock, fail, operation, pinned, status, mcancel, carrier, bad,
                   routesActive, start, outside>>

DisconnectLock ==
    /\ pc["front"] = "lock"
    /\ lock = "free"
    /\ \/ /\ state = "Disconnected"
          /\ active' = IF active = pinned THEN 0 ELSE active
          /\ Goto("front", "idle")
          /\ UNCHANGED <<lock, fail, state, sop, transport>>
       \/ /\ state # "Disconnected" /\ pinned = 0
          /\ Goto("front", "idle")
          /\ UNCHANGED <<active, lock, fail, state, sop, transport>>
       \/ /\ state # "Disconnected" /\ pinned # 0
          /\ lock' = "front"
          /\ state' = "Disconnecting" /\ sop' = pinned /\ transport' = FALSE
          /\ fail' = [fail EXCEPT !["front"] = IF side = "Running" THEN "none" ELSE "fatal"]
          /\ Goto("front", CleanupLabel)
          /\ UNCHANGED active
    /\ UNCHANGED <<admission, epoch, stopping, pinned, side, monitor, routesActive, start, outside>>
-----------------------------------------------------------------------------
(* Retirement, for another policy variant (select_policy_variant checks the  *)
(* status, then awaits the catalog) or of a consumed broker-bound service.   *)
SelectBegin ==
    /\ pc["front"] = "idle"
    /\ state = "Disconnected"
    /\ Goto("front", "retire")
    /\ UNCHANGED <<admission, lock, fail, operation, pinned, status, monitor, routesActive, start,
                   outside>>

\* try_retire, up to the release of the gate's lock.
RetireBegin ==
    /\ pc["front"] = "retire"
    /\ \/ gate = "Open" /\ CanRetire /\ gate' = "Retiring" /\ Goto("front", "preflight")
       \/ gate = "Open" /\ ~CanRetire /\ UNCHANGED gate /\ Goto("front", "idle")
       \/ gate = "RecoveryOnly" /\ receipt /\ gate' = "Retiring" /\ Goto("front", "controller")
       \/ gate \in {"RecoveryOnly", "Retired"} /\ ~receipt /\ UNCHANGED gate /\ Goto("front", "idle")
    /\ UNCHANGED <<reserved, receipt, lock, fail, operation, pinned, status, monitor, routesActive,
                   start, outside>>

\* service_retirement_preflight.  An Error with an empty status is terminal.
Preflight ==
    IF active # 0 \/ slot \/ routesActive \/ lock # "free" THEN "Busy"
    ELSE IF state = "Error" /\ ~StatusIsEmpty THEN "RecoveryOnly"
    ELSE IF state \notin {"Disconnected", "Error"} \/ sop # 0 \/ transport THEN "Busy"
    ELSE IF side # "Stopped" THEN "RecoveryOnly"
    ELSE CASE RouteDisposition = "Reusable" -> "Ready"
           [] RouteDisposition = "Busy" -> "Busy"
           [] OTHER -> "RecoveryOnly"

\* The preflight and the route boundary's try_retire, whose receipt the gate keeps.
RetirePreflight ==
    /\ pc["front"] = "preflight"
    /\ \/ /\ Preflight = "Busy"
          /\ gate' = "Open" /\ Goto("front", "idle")
          /\ UNCHANGED <<receipt, routes>>
       \/ /\ Preflight = "RecoveryOnly"
          /\ gate' = "RecoveryOnly" /\ Goto("front", "idle")
          /\ UNCHANGED <<receipt, routes>>
       \/ /\ Preflight = "Ready"
          /\ routes' = "retired" /\ receipt' = TRUE
          /\ Goto("front", "controller")
          /\ UNCHANGED gate
    /\ UNCHANGED <<reserved, lock, fail, operation, pinned, status, monitor, routesActive, start,
                   child, carriers>>

\* The controller answers with a receipt only once its child is gone.
RetireController ==
    /\ pc["front"] = "controller"
    /\ \/ /\ child => bound /\ ~consumed
          /\ child' = FALSE /\ carriers' = {}
          /\ IF gate = "Retiring" /\ CanRetire /\ receipt
             THEN gate' = "Retired" /\ receipt' = FALSE
             ELSE gate' = "RecoveryOnly" /\ UNCHANGED receipt
       \/ /\ gate' = "RecoveryOnly"
          /\ UNCHANGED <<receipt, child, carriers>>
    /\ Goto("front", "idle")
    /\ UNCHANGED <<reserved, lock, fail, operation, pinned, status, monitor, routesActive, start,
                   routes>>

Front ==
    \/ DisconnectJoin \/ DisconnectLock
    \/ CleanupUndo("front") \/ CleanupGranular("front") \/ CleanupShutdown("front")
    \/ RetireBegin \/ RetirePreflight \/ RetireController
-----------------------------------------------------------------------------
(* The monitor.  Its loops are the branches of one join!: each runs          *)
(* undisturbed by the other until it awaits, which it does at every label    *)
(* but those of Running.  When the health loop ends, it ends the lease loop. *)
Running == {"fbMark", "fbPublish", "mark"}
At(p, label) == pc[p] = label /\ \A q \in {"health", "lease"} \ {p} : pc[q] \notin Running

Exit(p) ==
    /\ Goto(p, "idle")
    /\ mcancel' = (mcancel \/ p = "health")

MonitorFails(p, e) ==
    /\ fail' = [fail EXCEPT ![p] = Authoritative(e)]
    /\ Goto(p, "mark")

HealthWake ==
    /\ At("health", "sleep")
    /\ \/ EnsureMonitor /\ Goto("health", "poll") /\ UNCHANGED mcancel
       \/ ~EnsureMonitor /\ Exit("health")
    /\ UNCHANGED <<admission, lock, fail, operation, pinned, status, slot, carrier, bad,
                   routesActive, start, outside>>

\* controller.poll: an error, a child that is not running, or Running.
HealthPoll ==
    /\ At("health", "poll")
    /\ \/ /\ ~EnsureMonitor
          /\ Exit("health")
          /\ UNCHANGED <<fail, side, outside>>
       \/ /\ EnsureMonitor
          /\ \E e \in {"fatal", "other"} : MonitorFails("health", e) /\ RequestFails(e)
          /\ UNCHANGED <<mcancel, side>>
       \/ /\ EnsureMonitor /\ ~child
          /\ MonitorFails("health", "fatal")
          /\ side' = "Backoff"
          /\ UNCHANGED <<mcancel, outside>>
       \/ /\ EnsureMonitor /\ child
          /\ side' = "Running"
          /\ Goto("health", "sample")
          /\ UNCHANGED <<fail, mcancel, outside>>
    /\ UNCHANGED <<admission, lock, operation, pinned, state, sop, transport, slot, carrier, bad,
                   routesActive, start>>

\* monitor_carrier_health: healthy, unhealthy (counted), or an error.
HealthSample ==
    /\ At("health", "sample")
    /\ \/ /\ ~EnsureMonitor
          /\ Exit("health")
          /\ UNCHANGED <<fail, bad, outside>>
       \/ /\ EnsureMonitor /\ child
          /\ bad' = 0
          /\ Goto("health", "sleep")
          /\ UNCHANGED <<fail, mcancel, outside>>
       \/ /\ EnsureMonitor /\ child
          /\ bad' = bad + 1
          /\ Goto("health", IF bad + 1 >= Threshold THEN "fbLock" ELSE "sleep")
          /\ UNCHANGED <<fail, mcancel, outside>>
       \/ /\ EnsureMonitor
          /\ \E e \in Errors : MonitorFails("health", e) /\ RequestFails(e)
          /\ UNCHANGED <<mcancel, bad>>
    /\ UNCHANGED <<admission, lock, operation, pinned, status, slot, carrier, routesActive, start>>

(* monitor_fallback_after_health_failure, under the lifecycle mutex.         *)
FallbackFails(e) ==
    /\ lock' = "free"
    /\ IF e = "cancelled" /\ mcancel THEN Exit("health") /\ UNCHANGED fail
                                     ELSE MonitorFails("health", e) /\ UNCHANGED mcancel

FallbackLock ==
    /\ At("health", "fbLock")
    /\ lock = "free"
    /\ \/ /\ EnsureMonitor
          /\ lock' = "health" /\ Goto("health", "fbMark")
          /\ UNCHANGED <<fail, mcancel>>
       \/ ~EnsureMonitor /\ FallbackFails("cancelled")
    /\ UNCHANGED <<admission, operation, pinned, status, slot, carrier, bad, routesActive, start,
                   outside>>

FallbackMark ==
    /\ At("health", "fbMark")
    /\ state' = "Reconnecting"
    /\ Goto("health", "fbDrop")
    /\ UNCHANGED <<admission, lock, fail, operation, pinned, sop, transport, side, monitor,
                   routesActive, start, outside>>

\* monitor_disconnect_carrier succeeded: the sidecar has no carrier up.
CarrierDown == child /\ carriers' = {}

\* monitor_disconnect_carrier, then the next carrier of the list if the operation is still active.
FallbackDrop ==
    /\ At("health", "fbDrop")
    /\ \/ /\ CarrierDown /\ transport' = FALSE
          /\ \/ /\ carrier < Carriers /\ EnsureMonitor
                /\ carrier' = carrier + 1 /\ Goto("health", "fbConnect")
                /\ UNCHANGED <<fail, lock, mcancel>>
             \/ carrier < Carriers /\ ~EnsureMonitor /\ FallbackFails("cancelled") /\ UNCHANGED carrier
             \/ carrier >= Carriers /\ FallbackFails("other") /\ UNCHANGED carrier
          /\ UNCHANGED <<routes, child>>
       \/ /\ \E e \in Errors : FallbackFails(e) /\ RequestFails(e)
          /\ UNCHANGED <<transport, carrier>>
    /\ UNCHANGED <<admission, operation, pinned, state, sop, side, slot, bad, routesActive, start>>

\* ConnectTransport, whose operation may be cancelled while it is under way.
FallbackConnect ==
    /\ At("health", "fbConnect")
    /\ \/ /\ ~EnsureMonitor
          /\ FallbackFails("cancelled")
          /\ UNCHANGED outside
       \/ /\ child
          /\ carriers' = carriers \cup {carrier}
          /\ Goto("health", "fbGate")
          /\ UNCHANGED <<fail, lock, mcancel, routes, child>>
       \/ \E e \in {"cancelled", "fatal"} : FallbackFails(e) /\ ConnectFails(e)
       \/ /\ ConnectFails("other") /\ Goto("health", "fbDrop")
          /\ UNCHANGED <<fail, lock, mcancel>>
    /\ UNCHANGED <<admission, operation, pinned, status, slot, carrier, bad, routesActive, start>>

\* monitor_carrier_health, between two looks at the operation.
FallbackGate ==
    /\ At("health", "fbGate")
    /\ \/ /\ ~EnsureMonitor
          /\ FallbackFails("cancelled")
          /\ UNCHANGED outside
       \/ /\ EnsureMonitor /\ child
          /\ lock' = "free" /\ Goto("health", "fbPublish")
          /\ UNCHANGED <<fail, mcancel, outside>>
       \/ \E e \in {"cancelled", "fatal"} : FallbackFails(e) /\ RequestFails(e)
       \/ /\ Goto("health", "fbDrop")
          /\ UNCHANGED <<fail, lock, mcancel, outside>>
    /\ UNCHANGED <<admission, operation, pinned, status, slot, carrier, bad, routesActive, start>>

\* The caller's last check is before this step: only the operation id is
\* compared again under the status lock.
FallbackPublish ==
    /\ At("health", "fbPublish")
    /\ IF sop = epoch
       THEN /\ state' = "DegradedFallback" /\ transport' = TRUE
            /\ bad' = 0
            /\ Goto("health", "sleep")
            /\ UNCHANGED mcancel
       ELSE Exit("health") /\ UNCHANGED <<state, transport, bad>>
    /\ UNCHANGED <<admission, lock, fail, operation, pinned, sop, side, slot, carrier, routesActive,
                   start, outside>>

Health ==
    \/ HealthWake \/ HealthPoll \/ HealthSample
    \/ FallbackLock \/ FallbackMark \/ FallbackDrop \/ FallbackConnect \/ FallbackGate
    \/ FallbackPublish
-----------------------------------------------------------------------------
(* The lease loop keeps the route lease alive.                               *)
\* Mutant: the lease is not renewed while the monitor reconnects.
LeaseWake_onlyConnected ==
    /\ At("lease", "sleep")
    /\ \/ /\ ~EnsureMonitor \/ state \notin Connected
          /\ Exit("lease")
          /\ UNCHANGED fail
       \/ /\ EnsureMonitor /\ state \in Connected
          /\ IF AdmitsRouteTask
             THEN Goto("lease", "beat") /\ UNCHANGED <<fail, mcancel>>
             ELSE MonitorFails("lease", "other") /\ mcancel' = TRUE
    /\ UNCHANGED <<admission, lock, operation, pinned, status, slot, carrier, bad, routesActive,
                   start, outside>>

LeaseStateActive == state \in Connected \cup {"ConnectingPrimary", "Reconnecting"}

LeaseWake ==
    /\ At("lease", "sleep")
    /\ \/ /\ ~EnsureMonitor \/ ~LeaseStateActive
          /\ Exit("lease")
          /\ UNCHANGED fail
       \/ /\ EnsureMonitor /\ LeaseStateActive
          /\ IF AdmitsRouteTask
             THEN Goto("lease", "beat") /\ UNCHANGED <<fail, mcancel>>
             ELSE MonitorFails("lease", "other") /\ mcancel' = TRUE
    /\ UNCHANGED <<admission, lock, operation, pinned, status, slot, carrier, bad, routesActive,
                   start, outside>>

\* A heartbeat that failed may have lost the lease; the boundary's own mutex
\* puts it before or after a rollback.
LeaseAfterFailure == IF routes = "held" THEN {"held", "unknown"} ELSE {routes}

LeaseBeat ==
    /\ At("lease", "beat")
    /\ \/ /\ ~EnsureMonitor
          /\ gate' \in {gate, "RecoveryOnly"}
          /\ routes' \in LeaseAfterFailure
          /\ Exit("lease")
          /\ UNCHANGED fail
       \/ /\ EnsureMonitor
          /\ Goto("lease", "sleep")
          /\ UNCHANGED <<gate, routes, fail, mcancel>>
       \/ /\ EnsureMonitor
          /\ \E e \in {"fatal", "other"} : MonitorFails("lease", e) /\ gate' \in GateAfterCall(e)
          /\ routes' \in LeaseAfterFailure
          /\ mcancel' = TRUE
    /\ UNCHANGED <<reserved, receipt, lock, operation, pinned, status, slot, carrier, bad,
                   routesActive, start, child, carriers>>

(* monitor_failure_cleanup, by whichever loop saw the failure.               *)
MonitorMark(p) ==
    /\ At(p, "mark")
    /\ \/ /\ epoch \in stopping \/ sop # epoch \/ state \in {"Disconnected", "Disconnecting"}
          /\ Exit(p)
          /\ UNCHANGED <<state, side>>
       \/ /\ epoch \notin stopping /\ sop = epoch /\ state \notin {"Disconnected", "Disconnecting"}
          /\ state' = "Error"
          /\ side' = IF fail[p] = "fatal" THEN "CrashLoop" ELSE side
          /\ Goto(p, "mlock")
          /\ UNCHANGED mcancel
    /\ UNCHANGED <<admission, lock, fail, operation, pinned, sop, transport, slot, carrier, bad,
                   routesActive, start, outside>>

MonitorLock(p) ==
    /\ At(p, "mlock")
    /\ lock = "free"
    /\ IF epoch \in stopping \/ ~routesActive \/ sop # epoch
       THEN Exit(p) /\ UNCHANGED <<lock, state>>
       ELSE IF AdmitsRouteTask
            THEN lock' = p /\ Goto(p, "mundo") /\ UNCHANGED <<state, mcancel>>
            ELSE state' = "Error" /\ Exit(p) /\ UNCHANGED lock
    /\ UNCHANGED <<admission, fail, operation, pinned, sop, transport, side, slot, carrier, bad,
                   routesActive, start, outside>>

MonitorUndo(p) ==
    /\ At(p, "mundo")
    /\ \/ /\ routes' = "none" /\ routesActive' = FALSE
          /\ Goto(p, "mgranular")
          /\ UNCHANGED <<gate, lock, state, mcancel>>
       \/ /\ routes' \in {routes, "unknown"}
          /\ gate' \in {gate, "RecoveryOnly"}
          /\ state' = "Error" /\ lock' = "free"
          /\ Exit(p)
          /\ UNCHANGED routesActive
    /\ UNCHANGED <<reserved, receipt, fail, operation, pinned, sop, transport, side, slot, carrier,
                   bad, start, child, carriers>>

MonitorGranular(p) ==
    /\ At(p, "mgranular")
    /\ carriers' \in IF fail[p] = "fatal" THEN {carriers} ELSE {carriers, {}}
    /\ Goto(p, "mshutdown")
    /\ UNCHANGED <<admission, lock, fail, operation, pinned, status, monitor, routesActive, start,
                   routes, child>>

\* The status stays Error: only a disconnect, which joins this task, clears it.
MonitorShutdown(p) ==
    /\ At(p, "mshutdown")
    /\ state' = "Error"
    /\ \/ ShutdownOk /\ transport' = FALSE /\ side' = "Stopped"
       \/ ShutdownFails /\ UNCHANGED <<transport, side>>
    /\ lock' = "free"
    /\ Exit(p)
    /\ UNCHANGED <<admission, fail, operation, pinned, sop, slot, carrier, bad, routesActive, start>>

Cleaner(p) ==
    MonitorMark(p) \/ MonitorLock(p) \/ MonitorUndo(p) \/ MonitorGranular(p) \/ MonitorShutdown(p)

Lease == LeaseWake \/ LeaseBeat

Next ==
    \/ Reserve \/ Cancel \/ DisconnectBegin \/ SelectBegin
    \/ Front \/ Conn \/ Health \/ Lease
    \/ Cleaner("health") \/ Cleaner("lease")
    \/ ChildDies

(* Every task the runtime can run is run, and every wait ends: requests,     *)
(* polls, stops, snapshots and joins have timeouts, and the route calls are  *)
(* bounded by the helper client.  Nobody has to send a command.              *)
Spec == Init /\ [][Next]_vars

FairSpec ==
    /\ Spec
    /\ WF_vars(Front) /\ WF_vars(Conn)
    /\ WF_vars(Health \/ Cleaner("health")) /\ WF_vars(Lease \/ Cleaner("lease"))
-----------------------------------------------------------------------------
(* Properties.                                                               *)

Labels == {"idle", "spawned", "lock", "start", "profile", "setPreparing", "prepare",
           "setConnecting", "carrier", "drop", "snapshot", "apply", "commit", "undo", "granular",
           "shutdown", "join", "retire", "preflight", "controller", "sleep", "poll", "sample",
           "fbLock", "fbMark", "fbDrop", "fbConnect", "fbGate", "fbPublish", "beat", "mark",
           "mlock", "mundo", "mgranular", "mshutdown"}
States == Connected \cup {"Disconnected", "Authenticating", "PreparingTunnel",
                          "ConnectingPrimary", "Reconnecting", "Disconnecting", "Error"}

\* Every variable of the service has its type, and the counter of consecutive
\* unhealthy samples never passes the fallback threshold.
TypeOK ==
    /\ gate \in {"Open", "Retiring", "RecoveryOnly", "Retired"}
    /\ reserved \in BOOLEAN /\ receipt \in BOOLEAN
    /\ pc \in [Procs -> Labels]
    /\ lock \in Procs \cup {"free"}
    /\ fail \in [Procs -> Errors \cup {"none"}]
    /\ epoch \in 0..MaxOps /\ active \in {0, epoch} /\ pinned \in 0..MaxOps
    /\ stopping \subseteq 1..epoch
    /\ state \in States /\ sop \in {0, epoch} /\ transport \in BOOLEAN
    /\ side \in {"Stopped", "Running", "Backoff", "CrashLoop"}
    /\ slot \in BOOLEAN /\ mcancel \in BOOLEAN
    /\ carrier \in 1..Carriers /\ bad \in 0..Threshold
    /\ routesActive \in BOOLEAN /\ bound \in BOOLEAN /\ consumed \in BOOLEAN
    /\ routes \in {"none", "held", "unknown", "retired"}
    /\ child \in BOOLEAN /\ carriers \subseteq 1..Carriers

\* A published Disconnected is the absence of everything: no route, no
\* carrier, no monitor, and no child but the one the broker has prepared for
\* a start that has not been tried.
DisconnectedIsClean ==
    state = "Disconnected" =>
        /\ routes \in {"none", "retired"} /\ ~routesActive
        /\ carriers = {} /\ ~slot
        /\ child => bound /\ ~consumed

\* Routes are the outermost resource: whoever stops the carrier, the tunnel
\* or the sidecar has first proved the routes absent.
RoutesOutermost ==
    \A p \in Procs :
        pc[p] \in {"granular", "shutdown", "mgranular", "mshutdown"} => routes = "none"

\* Break before make: two carriers are never up together, whatever a request
\* that missed its deadline did remotely.
BreakBeforeMake == Cardinality(carriers) <= 1

\* A published connection has a lease keeper, or somebody is told to stop it:
\* no route is left to a lease nobody renews.
LeaseIsKept ==
    state \in Connected /\ epoch \notin stopping =>
        /\ pc["lease"] # "idle"
        /\ routes = "held" \/ pc["lease"] # "sleep"

\* A retired generation holds nothing and is doing nothing.
RetiredIsEmpty ==
    gate = "Retired" =>
        /\ routes = "retired" /\ ~child
        /\ ~InFlight /\ ~RouteTask /\ ~reserved /\ ~slot /\ active = 0

\* The heartbeat is joined without the lifecycle mutex that its own cleanup
\* takes: connect and disconnect never hold it over a running monitor.
JoinNeverWaits == lock \in {"conn", "front"} => ~slot /\ MonitorEnded

\* A connect ends: connected, or cleaned up, or in an Error.
ConnectSettles == pc["conn"] # "idle" ~> pc["conn"] = "idle"

\* A disconnect returns, although it waits for the monitor and for the mutex.
DisconnectReturns == pc["front"] = "join" ~> pc["front"] = "idle"

\* When the sidecar dies under a published connection, the monitor fails the
\* connection or somebody has asked for its end.
DeathIsNoticed == state \in Connected /\ ~child ~> state = "Error" \/ epoch \in stopping

\* An accepted cancellation and a publication exclude each other: once the
\* operation is asked to stop, no step publishes it as connected.
CancelIsFinal == [][state' # state /\ active \in stopping => state' \notin Connected]_vars

\* Nothing is owned twice and nothing is waited for in a circle: one carrier at
\* most is up, a retired generation holds nothing, and the monitor is joined
\* without the mutex its own cleanup takes (connect_carrier, try_retire,
\* disconnect_and_join).
NothingIsShared == TypeOK /\ BreakBeforeMake /\ RetiredIsEmpty /\ JoinNeverWaits

\* A connect ends, connected or cleaned up; a disconnect returns, although it
\* waits for the monitor and for the mutex; and a sidecar that dies under a
\* connection is noticed (connect_task, disconnect, the health loop).
CommandsSettle == ConnectSettles /\ DisconnectReturns /\ DeathIsNoticed
=============================================================================
