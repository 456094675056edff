----------------------------- MODULE RouteLease -----------------------------
(***************************************************************************)
(* The route lease from end to end: the app's boundary                     *)
(* (networking/broker_bound_route_v3.rs over macos/route-helper/           *)
(* client-v3.m), the helper and the broker.                                *)
(*                                                                         *)
(* The app starts a session at the broker, asks the helper to discover,    *)
(* begin and apply, renews the lease, and undoes it before it stops the    *)
(* session.  Every failure freezes its boundary; from there it can only    *)
(* roll back.  A reply that does not name the lease ends its XPC client.   *)
(***************************************************************************)
EXTENDS RouteHelper

VARIABLES
    apc,         \* where the app is
    lease,       \* its session and lease, 0 if none
    term         \* its XPC client is terminal

app == <<apc, lease, term>>
vars == <<broker, faults, helper, link, app>>

Init ==
    /\ BrokerInit
    /\ HelperInit
    /\ apc = "off"
    /\ lease = 0
    /\ term = FALSE

Waiting == {"discover", "begin", "apply", "beat", "undo"}
-----------------------------------------------------------------------------
(* The boundary's calls.                                                    *)
Send(op) ==
    /\ inbox' = inbox \cup {Call(op, conn, lease)}
    /\ reply' = "none"
    /\ apc' = op

\* freeze(): a reply without the lease's reference also ends the client.
Freeze ==
    /\ apc' = "frozen"
    /\ term' = (reply = "bare")
    /\ reply' = "none"

AppStarts ==
    /\ apc = "off"
    /\ apc' = "idle"
    /\ UNCHANGED <<lease, term, helper, link, broker, faults>>

StartSession ==
    /\ apc = "idle"
    /\ Start
    /\ IF sess' # 0
         THEN apc' = "ready" /\ lease' = sess'
         ELSE UNCHANGED <<apc, lease>>
    /\ UNCHANGED <<term, helper, link>>

\* apply_broker_bound.
Connect ==
    /\ apc = "ready"
    /\ Send("discover")
    /\ UNCHANGED <<lease, term, helper, conn, broker, faults>>

\* Each answer leads to the next call.
Advance(op, next) ==
    /\ apc = op
    /\ reply # "none"
    /\ \/ reply = "ok" /\ Send(next) /\ UNCHANGED term
       \/ reply # "ok" /\ Freeze /\ UNCHANGED inbox
    /\ UNCHANGED <<lease, helper, conn, broker, faults>>

Discovered == Advance("discover", "begin")
Begun == Advance("begin", "apply")

\* The last answer of a connect and the answer of a heartbeat.
Settle ==
    /\ apc \in {"apply", "beat"}
    /\ reply # "none"
    /\ \/ reply = "ok" /\ apc' = "up" /\ reply' = "none" /\ UNCHANGED term
       \/ reply # "ok" /\ Freeze
    /\ UNCHANGED <<lease, helper, inbox, conn, broker, faults>>

Heartbeat ==
    /\ apc = "up"
    /\ Send("beat")
    /\ UNCHANGED <<lease, term, helper, conn, broker, faults>>

\* rollback: a terminal client fails without sending.
Rollback ==
    /\ apc \in {"up", "frozen"}
    /\ ~term
    /\ Send("undo")
    /\ UNCHANGED <<lease, term, helper, conn, broker, faults>>

\* Success drops the session's client and with it the connection.
Undone ==
    /\ apc = "undo"
    /\ reply # "none"
    /\ \/ /\ reply = "ok"
          /\ apc' = "clear"
          /\ reply' = "none"
          /\ conn' = conn + 1
          /\ UNCHANGED term
       \/ reply # "ok" /\ Freeze /\ UNCHANGED conn
    /\ UNCHANGED <<lease, helper, inbox, broker, faults>>

\* rollback of a session that never applied has nothing to do.
Abandon ==
    /\ apc = "ready"
    /\ apc' = "clear"
    /\ UNCHANGED <<lease, term, helper, link, broker, faults>>

\* The controller stops its session, or finds it gone.
StopSession ==
    /\ apc \in {"up", "beat", "undo", "frozen", "clear"}
    /\ Stop(lease)
    /\ UNCHANGED <<app, helper, link>>

SessionEnds ==
    /\ apc = "clear"
    /\ sess # lease
    /\ <<"stop", lease>> \notin reaping
    /\ apc' = "idle"
    /\ lease' = 0
    /\ UNCHANGED <<term, helper, link, broker, faults>>

\* The client gives up on a call and invalidates its connection.
CallTimesOut ==
    /\ apc \in Waiting
    /\ reply = "none"
    /\ Fault("timeout")
    /\ reply' = "lost"
    /\ conn' = conn + 1
    /\ UNCHANGED <<app, helper, inbox, broker>>

AppCrashes ==
    /\ apc # "off"
    /\ Fault("app")
    /\ apc' = "off"
    /\ lease' = 0
    /\ term' = FALSE
    /\ conn' = conn + 1
    /\ reply' = "none"
    /\ lossDue' = IF lease = 0 THEN lossDue ELSE lossDue \cup {lease}
    /\ UNCHANGED <<helper, inbox, session, tombstone, nextGen, child, exitDue, reaping, late, executed>>
-----------------------------------------------------------------------------
BrokerStep ==
    /\ \/ \E g \in Gens : AppInvalidated(g) \/ ChildDies(g) \/ ChildExited(g)
       \/ \E w \in Reasons, g \in Gens : ~AwaitsReap(w, g) /\ (Reaped(w, g) \/ ReapFails(w, g))
       \/ HoldExpires
       \/ \E call \in late : LateArrives(call)
    /\ UNCHANGED <<helper, link, app>>

HelperNext ==
    /\ \/ HelperStep
       \/ \E m \in inbox : Serve(m) \/ Refuse(m) \/ Forget(m)
       \/ Close \/ LeaseExpires \/ HelperStarts \/ HelperCrashes
    /\ UNCHANGED app

AppNext ==
    \/ AppStarts \/ StartSession \/ Connect \/ Discovered \/ Begun \/ Settle \/ Heartbeat
    \/ Rollback \/ Undone \/ Abandon \/ StopSession \/ SessionEnds \/ CallTimesOut \/ AppCrashes

Next == BrokerStep \/ HelperNext \/ AppNext

Spec == Init /\ [][Next]_vars
-----------------------------------------------------------------------------
HelperLabels == {"down", "idle", "pend", "hold", "keep", "drop", "mark", "add", "save", "seal",
                 "query", "unmark", "del", "unsave", "retire", "release", "reaped", "done", "unlink"}

Records == {NoRecord} \cup [lease : Gens, state : RecordStates, applied : 0..N, pending : 0..N]

Conns == 1..(1 + Sessions + MaxFaults)

\* Every variable has its type; a session, a hold and a lease carry a
\* generation the broker has handed out.
TypeOK ==
    /\ nextGen \in 1..(Sessions + 1)
    /\ sess \in 0..(nextGen - 1) /\ lease \in 0..(nextGen - 1) /\ tombstone \in 0..(nextGen - 1)
    /\ {appHere, held, released, recovery, ronly, term} \subseteq BOOLEAN
    /\ child \subseteq Gens /\ exitDue \subseteq Gens /\ lossDue \subseteq Gens /\ executed \subseteq Gens
    /\ reaping \subseteq (Reasons \X Gens)
    /\ late \subseteq ({"hold", "release"} \X Gens)
    /\ faults \in 0..MaxFaults
    /\ disk \in Records /\ mem \in Records
    /\ table \in [Cidrs -> 0..Sessions]
    /\ conn \in Conns /\ reg \in 0..conn /\ act \in 0..conn
    /\ hpc \in HelperLabels
    /\ reply \in Answers \cup {"none", "lost"}
    /\ apc \in Waiting \cup {"off", "idle", "ready", "up", "frozen", "clear"}

\* A route in the kernel belongs to the broker's session, which is held: no
\* stop, loss of the app or new session can pass it by.
RoutesAreHeld ==
    \A c \in Cidrs : table[c] # 0 => sess = table[c] /\ held

\* A route in the kernel is named by the journal on disk, as applied or in
\* flight: a restarted helper finds it.
RoutesAreJournaled ==
    \A c \in Cidrs : table[c] # 0 =>
        disk.lease = table[c] /\ (c <= disk.applied \/ c = disk.pending)

\* A hold is backed by a journal record of that lease: a hold nobody would
\* ever release cannot exist, whatever call arrives late.
HoldIsJournaled == held => disk.lease = sess

\* When the app's rollback has succeeded, nothing of its lease is left.
RollbackOkIsClean ==
    apc = "clear" => /\ \A c \in Cidrs : table[c] # lease
                     /\ ~(held /\ sess = lease)

\* The broker stops no child while a route leads to its tunnel.
NoReapUnderRoutes ==
    \A w \in Reasons, g \in Gens : <<w, g>> \in reaping => \A c \in Cidrs : table[c] # g

\* A lease the broker has released and the helper has not yet forgotten can
\* be released again: the one tombstone is never another lease's.
ReleaseIsRemembered ==
    \A l \in executed : disk.lease = l => tombstone = l \/ sess = l
-----------------------------------------------------------------------------
(* Liveness.  The broker and the helper run under launchd and each of their  *)
(* steps is bounded by a timeout; a child that is being stopped gets         *)
(* SIGKILL.  Nothing is assumed of the app, of faults or of late calls.      *)
Fairness ==
    /\ WF_vars(HelperStep /\ UNCHANGED app)
    /\ WF_vars(Close /\ UNCHANGED app)
    /\ WF_vars(HelperStarts /\ UNCHANGED app)
    /\ \A g \in Gens :
          /\ WF_vars(AppInvalidated(g) /\ UNCHANGED <<helper, link, app>>)
          /\ WF_vars(ChildExited(g) /\ UNCHANGED <<helper, link, app>>)
          /\ WF_vars(ChildDies(g) /\ faults' = faults /\ UNCHANGED <<helper, link, app>>)
          /\ \A w \in Reasons :
                WF_vars(Reaped(w, g) /\ ~AwaitsReap(w, g) /\ UNCHANGED <<helper, link, app>>)

FairSpec == Spec /\ Fairness

\* When the app is gone, the routes and the sidecar of its session go too.
AppLossIsCleaned ==
    \A g \in Gens :
        (sess = g /\ lease # g) ~> (sess # g /\ g \notin child /\ \A c \in Cidrs : table[c] # g)

\* Routes live inside the lease: the session that holds them is not stopped and
\* not replaced under them, and a rollback that succeeded has left none
\* (stopSession, holdRoute, rollback).
RoutesAreUnderLease == RoutesAreHeld /\ NoReapUnderRoutes /\ RollbackOkIsClean

\* The journal on disk accounts for everything a restarted helper has to undo:
\* each route, the hold, and a release the broker has carried out already
\* (persist, retire, releaseRoute).
LeaseIsRecorded == TypeOK /\ RoutesAreJournaled /\ HoldIsJournaled /\ ReleaseIsRemembered
=============================================================================
