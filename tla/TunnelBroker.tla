---------------------------- MODULE TunnelBroker ----------------------------
(***************************************************************************)
(* The root broker of macos/tunnel-broker/main.swift: one sidecar session  *)
(* at a time, the hold a route lease has on it, and the one tombstone that *)
(* answers a repeated release.                                             *)
(*                                                                         *)
(* A session is its generation; its sidecar, its app connection and the    *)
(* one lease that may bind to it carry the same number.  The coordinator   *)
(* drops its lock while it stops a child, so a stop, the loss of the app   *)
(* and a release may be reaping the same child at the same time, and a     *)
(* hold may be taken meanwhile.                                            *)
(***************************************************************************)
EXTENDS Integers, FiniteSets

CONSTANTS
    Sessions,    \* the last generation the broker hands out (Int64.max)
    Faults,      \* the kinds of fault that may happen
    MaxFaults    \* how many of them a behaviour has

ASSUME SessionsAssumption == Sessions \in Nat \ {0}
ASSUME FaultsAssumption == MaxFaults \in Nat

VARIABLES
    sess,        \* generation of the active session, 0 if none
    appHere,     \* lease.appConnected
    held,        \* lease.routeBindingV3 is set
    released,    \* lease.releasedRouteBindingV3 is set
    recovery,    \* lease.routeRecoveryRequired
    tombstone,   \* retiredRouteBindingV3, 0 if none
    nextGen,     \* nextGeneration
    child,       \* sidecars that are running
    exitDue,     \* sidecars that ended, termination handler still to run
    lossDue,     \* sessions whose app connection ended, handler still to run
    reaping,     \* children being stopped, and for whom
    late,        \* calls of the helper that timed out and may still arrive
    executed,    \* history: leases the broker has released
    faults       \* faults so far

session == <<sess, appHere, held, released, recovery>>
broker == <<session, tombstone, nextGen, child, exitDue, lossDue, reaping, late, executed>>

Gens == 1..Sessions
Reasons == {"stop", "loss", "release"}

Fault(kind) ==
    /\ kind \in Faults
    /\ faults < MaxFaults
    /\ faults' = faults + 1

NoFault == faults' = faults
-----------------------------------------------------------------------------
BrokerInit ==
    /\ sess = 0
    /\ appHere = FALSE
    /\ held = FALSE
    /\ released = FALSE
    /\ recovery = FALSE
    /\ tombstone = 0
    /\ nextGen = 1
    /\ child = {}
    /\ exitDue = {}
    /\ lossDue = {}
    /\ reaping = {}
    /\ late = {}
    /\ executed = {}
    /\ faults = 0

NoSession ==
    /\ sess' = 0
    /\ appHere' = FALSE
    /\ held' = FALSE
    /\ released' = FALSE
    /\ recovery' = FALSE

\* active = nil; a lease that was released leaves the tombstone.
ClearSession ==
    /\ NoSession
    /\ tombstone' = IF released THEN sess ELSE tombstone

KeepSession == UNCHANGED <<session, tombstone>>

\* A failed launch has consumed its generation.
Start ==
    /\ sess = 0
    /\ nextGen <= Sessions
    /\ nextGen' = nextGen + 1
    /\ \/ /\ sess' = nextGen
          /\ appHere' = TRUE
          /\ child' = child \cup {nextGen}
          /\ NoFault
       \/ /\ Fault("child")
          /\ UNCHANGED <<sess, appHere, child>>
    /\ UNCHANGED <<held, released, recovery, tombstone, exitDue, lossDue, reaping, late, executed>>

\* stop(): refused while a route holds the session.
MayStop(g) == sess = g /\ ~held /\ <<"stop", g>> \notin reaping

Stop(g) ==
    /\ MayStop(g)
    /\ reaping' = reaping \cup {<<"stop", g>>}
    /\ UNCHANGED <<session, tombstone, nextGen, child, exitDue, lossDue, late, executed, faults>>

\* Mutant: an app that is gone leaves a session without a hold running.
AppInvalidated_marksOnly(g) ==
    /\ g \in lossDue
    /\ <<"stop", g>> \notin reaping
    /\ lossDue' = lossDue \ {g}
    /\ appHere' = (appHere /\ sess # g)
    /\ UNCHANGED <<sess, held, released, recovery, tombstone, nextGen, child, exitDue, reaping, late, executed, faults>>

\* appInvalidated(): runs on the connection's queue, after a stop it is serving.
AppInvalidated(g) ==
    /\ g \in lossDue
    /\ <<"stop", g>> \notin reaping
    /\ lossDue' = lossDue \ {g}
    /\ appHere' = (appHere /\ sess # g)
    /\ reaping' = IF sess = g /\ ~held THEN reaping \cup {<<"loss", g>>} ELSE reaping
    /\ UNCHANGED <<sess, held, released, recovery, tombstone, nextGen, child, exitDue, late, executed, faults>>

\* The sidecar ends: it is being stopped, or of itself.
ChildDies(g) ==
    /\ g \in child
    /\ IF \E w \in Reasons : <<w, g>> \in reaping THEN NoFault ELSE Fault("child")
    /\ child' = child \ {g}
    /\ exitDue' = exitDue \cup {g}
    /\ UNCHANGED <<session, tombstone, nextGen, lossDue, reaping, late, executed>>

\* childExited(): a held session stays, and needs recovery.
ChildExited(g) ==
    /\ g \in exitDue
    /\ exitDue' = exitDue \ {g}
    /\ IF sess # g THEN KeepSession
       ELSE IF ~held THEN ClearSession
       ELSE /\ recovery' = TRUE
            /\ UNCHANGED <<sess, appHere, held, released, tombstone>>
    /\ UNCHANGED <<nextGen, child, lossDue, reaping, late, executed, faults>>

\* stopAndReap() has seen the child end: the session goes, unless it was
\* taken meanwhile.
Reaped(w, g) ==
    /\ <<w, g>> \in reaping
    /\ g \notin child
    /\ reaping' = reaping \ {<<w, g>>}
    /\ IF sess = g /\ ~held /\ (w = "stop" \/ ~appHere) THEN ClearSession ELSE KeepSession
    /\ UNCHANGED <<nextGen, child, exitDue, lossDue, late, executed, faults>>

\* stopAndReap() gave up on a child that is still running.
ReapFails(w, g) ==
    /\ <<w, g>> \in reaping
    /\ g \in child
    /\ Fault("reap")
    /\ reaping' = reaping \ {<<w, g>>}
    /\ UNCHANGED <<session, tombstone, nextGen, child, exitDue, lossDue, late, executed>>

\* The broker's heartbeat watchdog: the hold stays, the helper must recover.
HoldExpires ==
    /\ held
    /\ ~recovery
    /\ recovery' = TRUE
    /\ UNCHANGED <<sess, appHere, held, released, tombstone, nextGen, child, exitDue, lossDue,
                   reaping, late, executed, faults>>
-----------------------------------------------------------------------------
(* The calls of the route helper.                                           *)

MayHold(l) == sess = l /\ ~held /\ ~released

HoldReply(l) ==
    IF MayHold(l) \/ (sess = l /\ held /\ ~recovery) THEN "held"
    ELSE IF sess = l /\ held THEN "ambiguous"
    ELSE "rejected"

HoldV3(l) ==
    /\ held' = (held \/ MayHold(l))
    /\ recovery' = (recovery /\ ~MayHold(l))
    /\ UNCHANGED <<sess, appHere, released, tombstone, nextGen, child, exitDue, lossDue, reaping, executed>>

\* With the app gone the answer waits for the child to be reaped.
ReleaseReply(l) ==
    IF tombstone = l \/ (sess = l /\ appHere) THEN "released"
    ELSE IF sess = l THEN "reaping"
    ELSE "refused"

ReleaseV3(l) ==
    /\ IF tombstone # l /\ sess = l
         THEN /\ held' = FALSE
              /\ released' = TRUE
              /\ recovery' = FALSE
              /\ reaping' = IF appHere THEN reaping ELSE reaping \cup {<<"release", l>>}
              /\ executed' = executed \cup {l}
         ELSE UNCHANGED <<held, released, recovery, reaping, executed>>
    /\ UNCHANGED <<sess, appHere, tombstone, nextGen, child, exitDue, lossDue>>

StatusHeld(l) == sess = l /\ held /\ ~recovery

\* A call whose caller has given up is executed, or lost.
LateArrives(call) ==
    /\ call \in late
    /\ late' = late \ {call}
    /\ \/ call[1] = "hold" /\ HoldV3(call[2])
       \/ call[1] = "release" /\ ReleaseV3(call[2])
       \/ UNCHANGED <<session, tombstone, nextGen, child, exitDue, lossDue, reaping, executed>>
    /\ NoFault
=============================================================================
