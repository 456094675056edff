------------------------------- MODULE MCParts -------------------------------
(***************************************************************************)
(* The parts that stay with the model checker, each on a small instance: of *)
(* the private network the rules of a profile (PolicyRules, with addresses  *)
(* of 4 and 6 bits in octets of 2), the data plane and the supervisor; of   *)
(* the desktop the update timer of the profiles.  A behaviour is one of the *)
(* part named by `which', whose variables are the first of v1, v2, ...      *)
(***************************************************************************)
EXTENDS PolicyRules

VARIABLES
    which, v1, v2, v3, v4, v5, v6, v7, v8, v9, v10

\* Two private IPv4 blocks of different widths, one IPv6 block, and the multicast
\* blocks that end each space.
MCMulticast == {Cidr(4, 12, 2), Cidr(6, 48, 2)}
MCPrivateBlocks == {Cidr(4, 8, 2), Cidr(4, 6, 3), Cidr(6, 32, 2)}

\* The variables behind the first n.
after7 == <<v8, v9, v10>>
after1 == <<v2, v3, v4, v5, v6, v7, after7>>
parts == <<which, rules, v1, after1>>

Carriers == INSTANCE DataPlane WITH
    Fallbacks <- {"wss", "tcp"}, Threshold <- 2, None <- "none", d <- v1

\* Two restarts in a window of seven ticks, which has room for four starts with the
\* backoffs 1, 2 and 2 between them; time enough for a second window.
Child == INSTANCE Supervisor WITH
    MaxRestarts <- 2, Window <- 7, InitialBackoff <- 1, MaxBackoff <- 2, MaxTime <- 15, None <- -1,
    state <- v1, crashes <- v2, failures <- v3, retryAt <- v4, child <- v5, now <- v6, starts <- v7

\* One profile is enough: the scheduler keeps one task and one key for each.
Timer == INSTANCE ProfileTimer WITH
    Uids <- {"u1"}, Intervals <- {1, 2}, MaxEdits <- 4,
    intervals <- v1, cache <- v2, stale <- v3, initialized <- v4, commands <- v5, tasks <- v6,
    queue <- v7, updates <- v8, edits <- v9, untold <- v10

NoProfile == profile = 0 /\ held = 0 /\ table = 0
Idle7 == v8 = 0 /\ v9 = 0 /\ v10 = 0
Idle1 == v2 = 0 /\ v3 = 0 /\ v4 = 0 /\ v5 = 0 /\ v6 = 0 /\ v7 = 0 /\ Idle7

PartsInit ==
    \/ which = "rules" /\ Init /\ v1 = 0 /\ Idle1
    \/ /\ NoProfile
       /\ \/ which = "carriers" /\ Carriers!Init /\ Idle1
          \/ which = "child" /\ Child!Init /\ Idle7
          \/ which = "timer" /\ Timer!Init

PartsNext ==
    \/ which = "rules" /\ Next /\ UNCHANGED <<which, v1, after1>>
    \/ which = "carriers" /\ Carriers!Next /\ UNCHANGED <<which, rules, after1>>
    \/ which = "child" /\ Child!Next /\ UNCHANGED <<which, rules, after7>>
    \/ which = "timer" /\ Timer!Next /\ UNCHANGED <<which, rules>>

\* The caller of an edit refreshes, the scheduler's loop runs, an update is cut
\* off after 40 s and an entry expires after its interval; nothing is assumed of
\* the other parts.
TimerRest == UNCHANGED <<which, rules>>
Fairness ==
    /\ WF_parts(which = "timer" /\ Timer!TimerInit /\ TimerRest)
    /\ WF_parts(which = "timer" /\ Timer!Refresh /\ TimerRest)
    /\ WF_parts(which = "timer" /\ Timer!RunScheduler /\ TimerRest)
    /\ WF_parts(which = "timer" /\ Timer!AsyncTask("u1") /\ TimerRest)
    /\ WF_parts(which = "timer" /\ Timer!ExpiredTask /\ TimerRest)

PartsSpec == PartsInit /\ [][PartsNext]_parts /\ Fairness

\* A data plane that says it is connected has the carrier it names on a tunnel that
\* runs, and until a disconnect fails one that is up beside it was forgotten by the
\* clean-up of a failed connect, however the adapters fail (connect,
\* switch_after_failure, connect_first_fallback, disconnect_active,
\* cleanup_after_failure); and polling never starts more than max_restarts + 1 children
\* within one window, however fast they crash and wherever in the window
\* (SidecarController::poll, record_crash, prune_restart_window).
ChildAndCarriersAreAccountedFor ==
    /\ which = "carriers" => Carriers!ConnectedHasCarrier /\ Carriers!BreaksBeforeMaking
    /\ which = "child" => Child!RestartsAreRationed

\* The networks of a profile that the production rule accepts pass the helper's rule
\* and the transaction's too, are private and clear of the tunnel's own address; those
\* of an owner tuple the helper accepts for the application's own profile share no
\* address; the overlap tests on the way decide whether two networks share one; and
\* the table these are tested against is read back as netstat printed it, or refused
\* whole (ProductionNetworkProfileV2::validate, NetworkProfile::validate,
\* RouteLeaseOwner::validate, validate_plan, list_routes).
RulesAreSound ==
    which = "rules" =>
        /\ ProductionNetworksAreRoutable /\ AcceptedOwnerIsAPlan
        /\ OverlapIsIntersection /\ AllowedIsDisjointOrCovering /\ NetstatIsRead

\* A profile that has an update interval and keeps it is updated again and again, if the
\* timer was told of the interval or of anything since, through every edit, refresh,
\* immediate run and update still under way, by a scheduler that never holds a key its
\* delay queue has given up (Timer::refresh, the scheduler's loop, async_task).
UpdatesKeepComing ==
    /\ [](which = "timer" => Timer!KeysAreLive)
    /\ <>[](which = "timer" /\ Timer!HasInterval("u1")) => []<>(which = "timer" /\ Timer!IsUpdating("u1"))
=============================================================================
