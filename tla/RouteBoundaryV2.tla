--------------------------- MODULE RouteBoundaryV2 ---------------------------
(***************************************************************************)
(* The v2 route boundary (networking/route_helper_client.rs) and the       *)
(* helper's v2 coordinator (macos/route-helper/main.swift).  A call that   *)
(* times out or breaks ends the native connection it was made on; what it  *)
(* asked for may still be carried out, until the helper has noticed that   *)
(* the connection is gone.  The boundary then freezes the owner and asks,  *)
(* on a fresh connection, until the helper says it is idle.                *)
(***************************************************************************)
EXTENDS Integers, FiniteSets

CONSTANTS
    Operations,       \* operation ids, which name leases too
    MaxGenerations,   \* bound on the native connections
    MaxFaults         \* bound on failing calls, steps and crashes


None == 0
Old == -1             \* a lease an earlier process has left

VARIABLES
    client,           \* the live connection, None when there is none
    generation,       \* native_generation
    active,           \* active and active_owner
    recovery,         \* recovery_required
    blocked,          \* mutations_blocked
    failed,           \* reconciliation_error is set
    retired,
    at,               \* the helper call the boundary is in, idle between operations
    then,             \* the operation that recovers first
    lease,            \* the coordinator's journal
    holder,           \* activeConnectionID
    routes,           \* the lease's routes are in the table
    done,             \* lastCompletedConnectionID and lastCompletedReference
    registered,       \* registeredConnectionIDs
    late,             \* requests whose caller has given up
    faults

boundary == <<client, generation, active, recovery, blocked, failed, retired>>
helper == <<lease, holder, routes, done>>
vars == <<boundary, at, then, helper, registered, late, faults>>

Done(g, o) == [by |-> g, what |-> o]
NotDone == Done(None, None)

\* connect_with_factory: the first connection discovers before anything else.
Init ==
    /\ client = 1 /\ generation = 1 /\ active = None
    /\ recovery = FALSE /\ blocked = FALSE /\ failed = FALSE /\ retired = FALSE
    /\ at = "connect" /\ then = "none"
    /\ lease \in {None, Old} /\ holder = None /\ routes = (lease = Old) /\ done = NotDone
    /\ registered = {1} /\ late = {} /\ faults = 0

Fault == faults < MaxFaults /\ faults' = faults + 1
Fine == UNCHANGED faults

-----------------------------------------------------------------------------
(* The coordinator: each request with its reply r *)

\* rollbackLocked, cleaned or not.
RollbackLocked(cleaned) ==
    IF cleaned
    THEN lease' = None /\ holder' = None /\ routes' = FALSE /\ done' = Done(holder, lease)
    ELSE routes' \in {routes, FALSE} /\ UNCHANGED <<lease, holder, done>>

OwnsConnection(g, o) == holder = g /\ lease = o

HelperDiscover(g, r) ==
    /\ Fine /\ UNCHANGED helper
    /\ r = IF Cardinality(registered) # 1 THEN "not_ready"
           ELSE IF lease # None \/ holder # None THEN "error" ELSE "idle"

HelperBegin(g, o, r) ==
    \/ /\ holder = None /\ lease = None /\ Fine
       /\ lease' = o /\ holder' = g /\ done' = NotDone /\ r = "prepared" /\ UNCHANGED routes
    \/ /\ (holder # None \/ lease # None) /\ Fine /\ r = "error" /\ UNCHANGED helper
    \/ /\ Fault /\ r = "error" /\ UNCHANGED helper

HelperApply(g, o, r) ==
    \/ OwnsConnection(g, o) /\ Fine /\ routes' = TRUE /\ r = "applied" /\ UNCHANGED <<lease, holder, done>>
    \/ OwnsConnection(g, o) /\ Fault /\ r = "error" /\ \E cleaned \in BOOLEAN : RollbackLocked(cleaned)
    \/ ~OwnsConnection(g, o) /\ Fine /\ r = "error" /\ UNCHANGED helper

HelperRollback(g, o, r) ==
    \/ lease = None /\ done = Done(g, o) /\ Fine /\ r = "idle" /\ UNCHANGED helper
    \/ OwnsConnection(g, o) /\ Fine /\ r = "idle" /\ RollbackLocked(TRUE)
    \/ OwnsConnection(g, o) /\ Fault /\ r = "error" /\ RollbackLocked(FALSE)
    \/ ~OwnsConnection(g, o) /\ done # Done(g, o) /\ Fine /\ r = "error" /\ UNCHANGED helper

\* recover and heartbeat answer with the status; neither changes a lease.
HelperStatus(g, o, r) ==
    /\ UNCHANGED helper
    /\ \/ Fine /\ r = IF ~OwnsConnection(g, o) THEN "error" ELSE IF routes THEN "applied" ELSE "prepared"
       \/ Fault /\ r = "error"

HelperDoes(call, g, o, r) ==
    CASE call \in {"connect", "discover"} -> HelperDiscover(g, r)
      [] call = "begin" -> HelperBegin(g, o, r)
      [] call = "apply" -> HelperApply(g, o, r)
      [] call \in {"rollback", "undo"} -> HelperRollback(g, o, r)
      [] OTHER -> HelperStatus(g, o, r)

\* What was given up is carried out late, while its connection is registered.
HelperCatchesUp ==
    /\ \E q \in late :
          /\ q.by \in registered /\ late' = late \ {q}
          /\ \E r \in {"idle", "prepared", "applied", "error", "not_ready"} : HelperDoes(q.call, q.by, q.what, r)
    /\ UNCHANGED <<boundary, at, then, registered>>

\* unregister: a connection that is gone gives its lease back, if that works.
Unregister ==
    /\ \E g \in registered \ {client} :
          /\ registered' = registered \ {g} /\ late' = {q \in late : q.by # g}
          /\ \/ holder = g /\ Fine /\ RollbackLocked(TRUE)
             \/ holder = g /\ Fault /\ RollbackLocked(FALSE)
             \/ holder # g /\ Fine /\ UNCHANGED helper
    /\ UNCHANGED <<boundary, at, then>>

\* expireLease: no heartbeat for fifteen seconds.
ExpireLease ==
    /\ lease # None
    /\ \/ Fine /\ RollbackLocked(TRUE)
       \/ Fault /\ RollbackLocked(FALSE)
    /\ UNCHANGED <<boundary, at, then, registered, late>>

\* The helper is started again; it rolls back what its journal names.
HelperRestarts ==
    /\ Fault /\ registered' = {} /\ late' = {} /\ holder' = None /\ done' = NotDone
    /\ \/ lease' = None /\ routes' = FALSE
       \/ UNCHANGED lease /\ routes' \in {routes, FALSE}
    /\ UNCHANGED <<boundary, at, then>>

-----------------------------------------------------------------------------
(* The boundary *)

Disposition ==
    IF retired THEN "Retired"
    ELSE IF at # "idle" THEN "Busy"
    ELSE IF recovery \/ blocked \/ failed \/ client = None THEN "RecoveryOnly"
    ELSE IF active = None THEN "Reusable" ELSE "Busy"

LiveClient == at = "idle" /\ ~retired /\ ~blocked /\ client # None

Settle(label) == at' = label /\ then' = "none"

ClearFrozenOwner(label) ==
    /\ active' = None /\ recovery' = FALSE /\ blocked' = FALSE /\ failed' = FALSE
    /\ Settle(label) /\ UNCHANGED <<client, generation, retired, registered>>

\* reconcile_terminal_generation: drop the connection, make a new one and discover.
ReconcileTerminalGeneration ==
    /\ recovery' = TRUE /\ blocked' = TRUE /\ failed' = TRUE
    /\ \/ /\ generation < MaxGenerations /\ generation' = generation + 1 /\ client' = generation'
          /\ registered' = registered \cup {generation'} /\ Settle("discover")
       \/ client' = None /\ Settle("idle") /\ UNCHANGED <<generation, registered>>
    /\ UNCHANGED <<active, retired>>

Keep(label, mustRecover, hasFailed) ==
    /\ recovery' = mustRecover /\ failed' = hasFailed /\ Settle(label)
    /\ UNCHANGED <<client, generation, active, blocked, retired, registered>>

Return == Keep("idle", recovery, failed)

\* What each call makes of the reply it got.
BeginReplied(r) == IF r = "prepared" THEN Keep("apply", recovery, failed) ELSE Keep("undo", recovery, failed)
ApplyReplied(r) == IF r = "applied" THEN Return ELSE Keep("undo", recovery, failed)
RollbackAfterHelperError(r) == IF r = "idle" THEN ClearFrozenOwner("idle") ELSE Keep("idle", TRUE, TRUE)
HeartbeatReplied(r) == IF r = "applied" THEN Return ELSE Keep("idle", TRUE, failed)

RollbackReplied(r) ==
    IF r = "idle"
    THEN /\ active' = None /\ recovery' = FALSE /\ Settle("idle")
         /\ UNCHANGED <<client, generation, blocked, failed, retired, registered>>
    ELSE Keep("idle", TRUE, failed)

\* recover_active, and how the operation it was for goes on.
RecoverReplied(r) ==
    CASE r \notin {"prepared", "applied"} -> Return
      [] then = "rollback" /\ r \in {"prepared", "applied"} -> Keep("rollback", FALSE, failed)
      [] then = "heartbeat" /\ r = "applied" -> Keep("heartbeat", FALSE, failed)
      [] then = "apply" /\ r = "prepared" -> Keep("apply", FALSE, failed)
      [] OTHER -> Keep("idle", FALSE, failed)

\* discover_authoritative_idle polls while the helper is not ready.
DiscoverReplied(r) ==
    CASE r = "not_ready" -> UNCHANGED <<boundary, at, then, registered>>
      [] r = "idle" -> ClearFrozenOwner("idle")
      [] OTHER -> Return

\* A boundary that finds the helper busy at its start does not come to be.
ConnectReplied(r) ==
    IF r = "not_ready" THEN UNCHANGED <<boundary, at, then, registered>>
    ELSE /\ Settle(IF r = "idle" THEN "idle" ELSE "gone") /\ client' = (IF r = "idle" THEN client ELSE None)
         /\ UNCHANGED <<generation, active, recovery, blocked, failed, retired, registered>>

Replied(r) ==
    CASE at = "connect" -> ConnectReplied(r)
      [] at = "discover" -> DiscoverReplied(r)
      [] at = "begin" -> BeginReplied(r)
      [] at = "apply" -> ApplyReplied(r)
      [] at = "undo" -> RollbackAfterHelperError(r)
      [] at = "heartbeat" -> HeartbeatReplied(r)
      [] at = "rollback" -> RollbackReplied(r)
      [] OTHER -> RecoverReplied(r)

InCall == at \notin {"idle", "gone"}

\* A call that is made and answered.
Called ==
    /\ InCall /\ client \in registered
    /\ \E r \in {"idle", "prepared", "applied", "error", "not_ready"} :
          HelperDoes(at, client, active, r) /\ Replied(r)
    /\ UNCHANGED late

\* The connection goes with a call that ends the generation.
TerminalError ==
    CASE at = "connect" -> Settle("gone") /\ client' = None
                           /\ UNCHANGED <<generation, active, recovery, blocked, failed, retired, registered>>
      [] at = "discover" -> Settle("idle") /\ client' = None
                           /\ UNCHANGED <<generation, active, recovery, blocked, failed, retired, registered>>
      [] OTHER -> ReconcileTerminalGeneration

\* It times out, or its connection is interrupted; the request may be on its way.
CallLost ==
    /\ InCall
    /\ IF client \in registered THEN Fault ELSE Fine
    /\ late' \in {late, IF client \in registered THEN late \cup {[by |-> client, call |-> at, what |-> active]} ELSE late}
    /\ TerminalError /\ UNCHANGED helper

\* A call the client refuses to send: a begin then has no owner, and nothing else comes of it.
CallRefused ==
    /\ at \in {"begin", "apply", "undo", "heartbeat", "rollback", "recover"} /\ Fault
    /\ active' = (IF at = "begin" THEN None ELSE active) /\ Settle("idle")
    /\ UNCHANGED <<client, generation, recovery, blocked, failed, retired, helper, registered, late>>

DiscoveryDeadline ==
    /\ at \in {"discover", "connect"} /\ Cardinality(registered) # 1
    /\ Settle(IF at = "connect" THEN "gone" ELSE "idle")
    /\ UNCHANGED <<boundary, helper, registered, late, faults>>

Operation == UNCHANGED <<client, generation, recovery, blocked, failed, retired, helper, registered, late, faults>>

Recover(operation) == at' = "recover" /\ then' = operation /\ UNCHANGED active

Apply(o) ==
    /\ LiveClient /\ Operation
    /\ \/ recovery /\ active = o /\ Recover("apply")
       \/ ~recovery /\ active = None /\ active' = o /\ Settle("begin")

Heartbeat ==
    /\ LiveClient /\ active # None /\ Operation
    /\ IF recovery THEN Recover("heartbeat") ELSE Settle("heartbeat") /\ UNCHANGED active

Rollback ==
    /\ LiveClient /\ active # None /\ Operation
    /\ IF recovery THEN Recover("rollback") ELSE Settle("rollback") /\ UNCHANGED active

TryRetire ==
    /\ Disposition = "Reusable"
    /\ retired' = TRUE /\ client' = None
    /\ UNCHANGED <<generation, active, recovery, blocked, failed, at, then, helper, registered, late, faults>>

\* Drop: a rollback nobody waits for, then the connection goes.
Drop ==
    /\ at = "idle" /\ at' = "gone" /\ client' = None
    /\ late' = IF ~blocked /\ ~retired /\ client # None /\ active # None
               THEN late \cup {[by |-> client, call |-> "rollback", what |-> active]} ELSE late
    /\ UNCHANGED <<generation, active, recovery, blocked, failed, retired, then, helper, registered, faults>>

Next ==
    \/ HelperCatchesUp \/ Unregister \/ ExpireLease \/ HelperRestarts
    \/ Called \/ CallLost \/ CallRefused \/ DiscoveryDeadline
    \/ \E o \in Operations : Apply(o)
    \/ Heartbeat \/ Rollback \/ TryRetire \/ Drop

Spec == Init /\ [][Next]_vars

-----------------------------------------------------------------------------
(* Properties *)

\* Whatever is lost, late or repeated, the boundary knows the lease the helper
\* holds for it until that is given back: one that calls itself reusable, or is
\* retired, has left neither lease nor routes, and no request of an earlier
\* connection makes one afterwards (clear_frozen_owner, try_retire).
OwnerIsKept == lease \in Operations /\ at # "gone" => active = lease
=============================================================================
