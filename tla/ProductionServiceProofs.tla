---------------------- MODULE ProductionServiceProofs ----------------------
(***************************************************************************)
(* Proofs about one generation of the production service, for every number *)
(* of connects, every length of the transport list and every fallback      *)
(* threshold.                                                              *)
(*                                                                         *)
(* The invariant says, for each process, what its position implies about   *)
(* the lifecycle mutex, the monitor, the routes and the carriers.  Three   *)
(* arguments meet in it: who holds the mutex is alone with the routes and  *)
(* the carriers; a connect and a disconnect that hold it have no monitor   *)
(* beside them; and as long as nobody asked for the end of an operation,   *)
(* the lease loop runs or the connection is no longer shown as connected.  *)
(***************************************************************************)
EXTENDS ProductionService, FiniteSetTheorems, TLAPS

Working == {"start", "profile", "setPreparing", "prepare", "setConnecting", "carrier", "drop",
            "snapshot", "apply", "commit"}
Cleaning == {"undo", "granular", "shutdown"}
Failing == {"mundo", "mgranular", "mshutdown"}
Stopping == {"granular", "shutdown", "mgranular", "mshutdown"}
Sampling == {"sleep", "poll", "sample"}
Falling == {"fbMark", "fbDrop", "fbConnect", "fbGate"}

LabelsOf ==
    [p \in Procs |->
        CASE p = "conn" -> {"idle", "spawned", "lock"} \cup Working \cup Cleaning
          [] p = "front" -> {"idle", "join", "lock", "retire", "preflight", "controller"} \cup Cleaning
          [] p = "health" -> {"idle", "fbLock", "fbPublish", "mark", "mlock"} \cup Sampling \cup Falling
                             \cup Failing
          [] p = "lease" -> {"idle", "sleep", "beat", "mark", "mlock"} \cup Failing]

Positions == pc \in [Procs -> Labels] /\ \A p \in Procs : pc[p] \in LabelsOf[p]

Types ==
    /\ gate \in {"Open", "Retiring", "RecoveryOnly", "Retired"}
    /\ reserved \in BOOLEAN /\ receipt \in BOOLEAN
    /\ lock \in Procs \cup {"free"}
    /\ fail \in [Procs -> Errors \cup {"none"}]
    /\ state \in States /\ transport \in BOOLEAN
    /\ side \in {"Stopped", "Running", "Backoff", "CrashLoop"}
    /\ slot \in BOOLEAN /\ mcancel \in BOOLEAN
    /\ routesActive \in BOOLEAN /\ bound \in BOOLEAN /\ consumed \in BOOLEAN
    /\ routes \in {"none", "held", "unknown", "retired"}
    /\ child \in BOOLEAN

\* The lifecycle mutex is held by the process whose position says so.
Holds(p) == pc[p] \in Working \cup Cleaning \cup Falling \cup Failing
Mutex == \A p \in Procs : Holds(p) <=> lock = p

\* The numbers of operations.
Operations ==
    /\ epoch \in 0..MaxOps /\ active \in {0, epoch} /\ sop \in {0, epoch}
    /\ pinned \in 0..MaxOps /\ stopping \subseteq 1..epoch
    /\ pc["conn"] \in {"spawned", "lock"} => epoch < MaxOps /\ active = 0
    /\ reserved = (pc["conn"] = "spawned")

\* A disconnect that waits or cleans up is about the latest operation, which
\* it has asked to stop.
Disconnecting ==
    /\ pc["front"] = "join" \/ pc["front"] \in Cleaning => pinned # 0
    /\ pinned # 0 /\ pc["front"] \in {"join", "lock"} \cup Cleaning =>
          /\ pinned = epoch /\ epoch \in stopping
          /\ pc["conn"] \notin {"spawned", "lock"}
          /\ pc["front"] # "join" => ~slot

\* The monitor exists from the commit until it is joined, and neither connect
\* nor disconnect holds the mutex beside it.
Monitoring ==
    /\ ~slot => MonitorEnded
    /\ slot => epoch # 0
    /\ lock \in {"conn", "front"} => ~slot /\ state # "Disconnected" /\ epoch # 0

\* Who is at a route call or past one knows what the routes are.
Routing ==
    /\ ~routesActive => routes \in {"none", "retired"}
    /\ pc["conn"] \in {"apply", "commit"} => routesActive
    /\ pc["conn"] = "commit" => routes = "held"
    /\ \A p \in Procs : /\ pc[p] \in {"undo", "mundo"} => routesActive
                        /\ pc[p] \in Stopping => ~routesActive /\ routes = "none"

\* A generation whose routes are retired is past its last operation.
Retirement ==
    /\ pc["front"] \in {"preflight", "controller"} =>
          gate = "Retiring" /\ pc["conn"] = "idle" /\ ~RouteTask
    /\ receipt \/ pc["front"] = "controller" => routes = "retired"
    /\ routes = "retired" =>
          /\ gate # "Open" /\ pc["conn"] = "idle" /\ pc["front"] \in {"idle", "retire", "controller"}
          /\ ~slot /\ active = 0
    /\ gate = "Retired" => routes = "retired" /\ ~child

\* The carrier of the loop is the only one that can be up.
Carrying ==
    /\ carrier \in 1..Carriers /\ bad \in 0..Threshold
    /\ pc["health"] \in Sampling => bad < Threshold
    /\ carriers \subseteq {carrier}

Failed == {"mlock"} \cup Failing

\* While nobody asked for its end, an operation with a monitor is watched, or
\* shown as failed.
Keeping ==
    /\ state \in Connected /\ epoch \notin stopping => slot
    /\ pc["lease"] \in {"mark"} \cup Failed => mcancel
    /\ epoch \in stopping \/
          /\ pc["health"] \in Failed \/ pc["lease"] \in Failed => state = "Error"
          /\ pc["health"] \in {"fbMark", "fbPublish"} => ~mcancel
    /\ slot /\ epoch \notin stopping =>
          /\ active = epoch /\ sop = epoch
          /\ state \in Connected \cup {"Reconnecting", "Error"}
          /\ mcancel => pc["lease"] = "mark" \/ state = "Error"
          /\ ~mcancel => /\ pc["health"] # "idle"
                         /\ pc["health"] \notin Failed =>
                              /\ pc["lease"] \in {"sleep", "beat"} /\ routes = "held"
                              /\ state \in Connected \cup {"Reconnecting"}

IInv == /\ Types /\ Positions /\ Mutex /\ Operations /\ Disconnecting /\ Monitoring
        /\ Routing /\ Retirement /\ Carrying /\ Keeping /\ DisconnectedIsClean
-----------------------------------------------------------------------------
\* A process moves to a label of its own.
LEMMA Moved ==
    ASSUME Positions, NEW p \in Procs, NEW l \in LabelsOf[p], Goto(p, l)
    PROVE  /\ Positions' /\ pc'[p] = l
           /\ \A q \in Procs \ {p} : pc'[q] = pc[q]
<1>1. l \in Labels
    BY DEF LabelsOf, Labels, Procs, Working, Cleaning, Failing, Sampling, Falling
<1> QED BY <1>1 DEF Positions, Goto

LEMMA ExitFacts ==
    ASSUME Types, NEW p \in {"health", "lease"}, Exit(p)
    PROVE  /\ Goto(p, "idle") /\ mcancel' \in BOOLEAN
           /\ p = "health" => mcancel'
           /\ p = "lease" => mcancel' = mcancel
BY DEF Exit, Types

LEMMA FailureType ==
    ASSUME Types, NEW p \in Procs, NEW e \in Errors, fail' = [fail EXCEPT ![p] = Authoritative(e)]
    PROVE  fail' \in [Procs -> Errors \cup {"none"}]
<1>1. Authoritative(e) \in Errors
    BY DEF Authoritative, Errors
<1> QED BY <1>1 DEF Types

LEMMA RequestFacts ==
    ASSUME Types, NEW e, RequestFails(e)
    PROVE  child' \in BOOLEAN /\ routes' = routes /\ carriers' \in {carriers, {}}
BY DEF RequestFails, ChildAfter, Types

LEMMA ConnectFacts ==
    ASSUME Types, NEW e, ConnectFails(e)
    PROVE  child' \in BOOLEAN /\ routes' = routes /\ carriers' \subseteq carriers \cup {carrier}
BY DEF ConnectFails, ChildAfter, Types

LEMMA ShutdownFacts ==
    ASSUME Types, ShutdownOk \/ ShutdownFails
    PROVE  child' \in BOOLEAN /\ routes' = routes /\ carriers' \in {carriers, {}}
BY DEF ShutdownOk, ShutdownFails, Types
-----------------------------------------------------------------------------
\* While a loop of the monitor runs, the slot is taken and no connect or
\* disconnect holds the mutex.
LEMMA MonitorRuns ==
    ASSUME IInv, NEW p \in {"health", "lease"}, pc[p] # "idle"
    PROVE  /\ slot /\ epoch # 0 /\ lock \notin {"conn", "front"} /\ state # "Disconnected"
           /\ routes # "retired" /\ ~receipt /\ pc["front"] # "controller" /\ gate # "Retired"
<1>1. slot
    BY DEF IInv, Monitoring, MonitorEnded
<1>2. epoch # 0 /\ lock \notin {"conn", "front"} /\ state # "Disconnected"
    BY <1>1 DEF IInv, Monitoring, DisconnectedIsClean
<1>3. routes # "retired"
    BY <1>1 DEF IInv, Retirement
<1> QED BY <1>1, <1>2, <1>3 DEF IInv, Retirement

\* A step of a monitor loop.  What remains to be shown of it is what it does
\* to the routes and the carriers, and that the operation stays watched.
LEMMA MonitorStep ==
    ASSUME IInv, NEW p \in {"health", "lease"}, pc[p] # "idle",
           NEW to \in LabelsOf[p], Goto(p, to),
           UNCHANGED <<reserved, receipt, epoch, active, stopping, pinned, sop, slot>>,
           Types',
           \/ to \in Falling \cup Failing /\ lock' = p /\ lock \in {p, "free"}
           \/ to \notin Falling \cup Failing /\ lock' = lock /\ pc[p] \notin Falling \cup Failing
           \/ to \notin Falling \cup Failing /\ lock' = "free" /\ pc[p] \in Falling \cup Failing,
           state' \in {state, "Error", "Reconnecting", "DegradedFallback"},
           gate' = gate \/ (gate' = "RecoveryOnly" /\ pc[p] \in {"beat", "mundo"}),
           to \in {"beat", "mundo"} => gate' = "Open",
           routes' # "retired", Routing', Carrying', Keeping'
    PROVE  IInv'
<1>0. /\ Types /\ Positions /\ Mutex /\ Operations /\ Disconnecting /\ Monitoring
      /\ Routing /\ Retirement /\ Carrying /\ Keeping
    BY DEF IInv
<1>1. /\ slot /\ epoch # 0 /\ lock \notin {"conn", "front"} /\ state # "Disconnected"
      /\ routes # "retired" /\ ~receipt /\ pc["front"] # "controller" /\ gate # "Retired"
    BY MonitorRuns
<1>2. Positions' /\ pc'[p] = to /\ \A q \in Procs \ {p} : pc'[q] = pc[q]
    BY <1>0, Moved DEF Procs
<1>3. pc'["conn"] = pc["conn"] /\ pc'["front"] = pc["front"]
    BY <1>2 DEF Procs
<1>4. to \notin Working \cup Cleaning
    BY DEF LabelsOf, Procs, Working, Cleaning, Sampling, Falling, Failing
<1>5. Mutex'
    <2>1. p \in Procs /\ \A q \in Procs \ {p} : Holds(q)' <=> Holds(q)
        BY <1>2 DEF Holds, Procs
    <2>2. Holds(p)' <=> to \in Falling \cup Failing
        BY <1>2, <1>4 DEF Holds
    <2>3. Holds(p) <=> lock = p
        BY <1>0, <2>1 DEF Mutex
    <2>4. "free" \notin Procs
        BY DEF Procs
    <2>5. CASE to \in Falling \cup Failing /\ lock' = p /\ lock \in {p, "free"}
        BY <1>0, <2>1, <2>2, <2>4, <2>5 DEF Mutex
    <2>6. CASE to \notin Falling \cup Failing /\ lock' = lock /\ pc[p] \notin Falling \cup Failing
        <3>1. ~Holds(p)
            BY <1>0, <2>6 DEF Holds, Positions, LabelsOf, Procs, Working, Cleaning, Sampling, Falling, Failing
        <3> QED BY <1>0, <2>1, <2>2, <2>4, <2>6, <3>1 DEF Mutex
    <2>7. CASE to \notin Falling \cup Failing /\ lock' = "free" /\ pc[p] \in Falling \cup Failing
        <3>1. Holds(p)
            BY <2>7 DEF Holds
        <3> QED BY <1>0, <2>1, <2>2, <2>4, <2>7, <3>1 DEF Mutex
    <2> QED BY <2>5, <2>6, <2>7
<1>6. Operations'
    BY <1>0, <1>3 DEF Operations
<1>7. Disconnecting'
    BY <1>0, <1>3 DEF Disconnecting
<1>8. Monitoring'
    BY <1>1 DEF Monitoring
<1>9. DisconnectedIsClean'
    BY <1>1 DEF DisconnectedIsClean
<1>10. Retirement'
    <2>1. ASSUME pc["front"] = "preflight" PROVE gate' = "Retiring" /\ pc["conn"] = "idle" /\ ~RouteTask'
        <3>1. gate = "Retiring" /\ pc["conn"] = "idle" /\ ~RouteTask
            BY <1>0, <2>1 DEF Retirement
        <3>2. pc[p] \notin {"beat", "mundo"} /\ gate' = gate
            BY <3>1 DEF RouteTask
        <3> QED BY <1>2, <3>1, <3>2 DEF RouteTask, Procs
    <2>2. gate' # "Retired"
        BY <1>1
    <2> QED BY <1>1, <1>3, <2>1, <2>2 DEF Retirement
<1> QED BY <1>2, <1>5, <1>6, <1>7, <1>8, <1>9, <1>10 DEF IInv

LEMMA RoutingStep ==
    ASSUME Positions, Routing, NEW p \in Procs, NEW to \in LabelsOf[p], Goto(p, to),
           UNCHANGED <<routes, routesActive>>,
           to \in {"apply", "commit", "undo", "mundo"} => routesActive,
           to = "commit" => routes = "held",
           to \in Stopping => ~routesActive /\ routes = "none"
    PROVE  Routing'
<1>1. pc'[p] = to /\ \A q \in Procs \ {p} : pc'[q] = pc[q]
    BY Moved
<1>2. "conn" \in Procs
    BY DEF Procs
<1> QED BY <1>1, <1>2 DEF Routing

\* A step that changes the routes: it is alone with them.
LEMMA RoutingChanges ==
    ASSUME Positions, Routing, NEW p \in Procs, NEW to \in LabelsOf[p], Goto(p, to),
           to \notin {"apply", "commit", "undo", "mundo"},
           \A q \in Procs \ {p} : pc[q] \notin {"apply", "commit", "undo", "mundo"} \cup Stopping,
           ~routesActive' => routes' = "none",
           to \in Stopping => ~routesActive' /\ routes' = "none"
    PROVE  Routing'
<1>1. pc'[p] = to /\ \A q \in Procs \ {p} : pc'[q] = pc[q]
    BY Moved
<1>2. "conn" \in Procs
    BY DEF Procs
<1> QED BY <1>1, <1>2 DEF Routing

LEMMA CarryingStep ==
    ASSUME Positions, Carrying, NEW p \in Procs, NEW to \in LabelsOf[p], Goto(p, to),
           carrier' = carrier, bad' = bad, carriers' \subseteq carriers \cup {carrier},
           p = "health" /\ to \in Sampling => pc[p] \in Sampling
    PROVE  Carrying'
<1>1. pc'[p] = to /\ \A q \in Procs \ {p} : pc'[q] = pc[q]
    BY Moved
<1>2. "health" \in Procs
    BY DEF Procs
<1> QED BY <1>1, <1>2 DEF Carrying

\* Without a request to stop, only the monitor's own flag can end a loop.
LEMMA Unstopped ==
    ASSUME IInv, slot, epoch \notin stopping
    PROVE  /\ active = epoch /\ sop = epoch /\ state \in Connected \cup {"Reconnecting", "Error"}
           /\ EnsureMonitor <=> ~mcancel
<1>1. active = epoch /\ sop = epoch /\ state \in Connected \cup {"Reconnecting", "Error"}
    BY DEF IInv, Keeping
<1>2. state # "Disconnecting"
    BY <1>1 DEF Connected
<1> QED BY <1>1, <1>2 DEF EnsureMonitor, EnsureActive

LEMMA HealthKeeps ==
    ASSUME IInv, pc["health"] # "idle", NEW to \in LabelsOf["health"], Goto("health", to),
           UNCHANGED <<epoch, active, stopping, sop, slot>>, mcancel => mcancel',
           epoch \notin stopping =>
             \/ to = "idle" /\ mcancel' /\ state' = "Error"
             \/ to \in Failed /\ state' = "Error" /\ mcancel' = mcancel
             \/ /\ to \notin Failed \cup {"idle"} /\ pc["health"] \notin Failed
                /\ ~mcancel /\ mcancel' = mcancel /\ routes' = routes
                /\ state' \in Connected \cup {"Reconnecting"}
             \/ /\ to \notin Failed \cup {"idle", "fbMark", "fbPublish"}
                /\ mcancel /\ state' = state
    PROVE  Keeping'
<1>0. Positions /\ Keeping
    BY DEF IInv
<1>1. pc'["health"] = to /\ pc'["lease"] = pc["lease"] /\ slot
    BY <1>0, Moved, MonitorRuns DEF Procs
<1>2. CASE epoch \in stopping
    BY <1>0, <1>1, <1>2 DEF Keeping
<1>3. CASE epoch \notin stopping
    <2>1. CASE to = "idle" /\ mcancel' /\ state' = "Error"
        BY <1>0, <1>1, <1>3, <2>1 DEF Keeping, Failed, Failing, Connected
    <2>2. CASE to \in Failed /\ state' = "Error" /\ mcancel' = mcancel
        BY <1>0, <1>1, <1>3, <2>2 DEF Keeping, Failed, Failing, Connected
    <2>3. CASE /\ to \notin Failed \cup {"idle"} /\ pc["health"] \notin Failed
               /\ ~mcancel /\ mcancel' = mcancel /\ routes' = routes
               /\ state' \in Connected \cup {"Reconnecting"}
        BY <1>0, <1>1, <1>3, <2>3 DEF Keeping, Failed, Failing
    <2>4. CASE /\ to \notin Failed \cup {"idle", "fbMark", "fbPublish"}
               /\ mcancel /\ state' = state
        BY <1>0, <1>1, <1>3, <2>4 DEF Keeping, Failed, Failing
    <2> QED BY <1>3, <2>1, <2>2, <2>3, <2>4
<1> QED BY <1>2, <1>3

LEMMA LeaseKeeps ==
    ASSUME IInv, pc["lease"] # "idle", NEW to \in LabelsOf["lease"], Goto("lease", to),
           UNCHANGED <<epoch, active, stopping, sop, slot>>, mcancel => mcancel',
           pc["health"] \notin Running, to \in {"mark"} \cup Failed => mcancel',
           epoch \notin stopping =>
             \/ to \in {"sleep", "beat"} /\ ~mcancel /\ mcancel' = mcancel /\ UNCHANGED <<routes, state>>
             \/ to = "mark" /\ state' = state
             \/ to \in Failed \cup {"idle"} /\ state' = "Error" /\ (mcancel' \/ state = "Error")
    PROVE  Keeping'
<1>0. Positions /\ Keeping
    BY DEF IInv
<1>1. pc'["lease"] = to /\ pc'["health"] = pc["health"] /\ slot
    BY <1>0, Moved, MonitorRuns DEF Procs
<1>2. CASE epoch \in stopping
    BY <1>0, <1>1, <1>2 DEF Keeping
<1>3. CASE epoch \notin stopping
    <2>1. CASE to \in {"sleep", "beat"} /\ ~mcancel /\ mcancel' = mcancel /\ UNCHANGED <<routes, state>>
        BY <1>0, <1>1, <1>3, <2>1 DEF Keeping, Failed, Failing
    <2>2. CASE to = "mark" /\ state' = state
        BY <1>0, <1>1, <1>3, <2>2 DEF Keeping, Failed, Failing, Running
    <2>3. CASE to \in Failed \cup {"idle"} /\ state' = "Error" /\ (mcancel' \/ state = "Error")
        BY <1>0, <1>1, <1>3, <2>3 DEF Keeping, Failed, Failing, Running, Connected
    <2> QED BY <1>3, <2>1, <2>2, <2>3
<1> QED BY <1>2, <1>3
-----------------------------------------------------------------------------
(* The health loop *)

\* The loop goes on, or sees a failure.
LEMMA HealthMoves ==
    ASSUME IInv, pc["health"] \notin Failed \cup {"idle"},
           NEW to \in LabelsOf["health"], to \notin Failed \cup {"idle"}, Goto("health", to),
           UNCHANGED <<reserved, receipt, epoch, active, stopping, pinned, sop, slot, gate, routes,
                       routesActive, bound, consumed, mcancel>>,
           \/ UNCHANGED state
           \/ /\ state' \in {"Reconnecting", "DegradedFallback"}
              /\ pc["health"] \in {"fbMark", "fbPublish"},
           fail' \in [Procs -> Errors \cup {"none"}], transport' \in BOOLEAN, child' \in BOOLEAN,
           side' \in {"Stopped", "Running", "Backoff", "CrashLoop"}, Carrying',
           \/ to \in Falling /\ lock' = "health" /\ lock \in {"health", "free"}
           \/ to \notin Falling /\ lock' = lock /\ pc["health"] \notin Falling
           \/ to \notin Falling /\ lock' = "free" /\ pc["health"] \in Falling,
           to \in {"fbMark", "fbPublish"} => EnsureMonitor
    PROVE  IInv'
<1>0. Types /\ Positions /\ Routing /\ Keeping /\ slot /\ routes # "retired"
    BY MonitorRuns DEF IInv, Failed
<1>1. lock' \in Procs \cup {"free"} /\ state' \in States
    BY <1>0 DEF Types, Procs, States, Connected
<1>2. Types'
    BY <1>0, <1>1 DEF Types
<1>3. to \notin Failing \cup Stopping \cup {"apply", "commit", "undo", "mundo", "beat"}
    BY DEF Failed, Failing, LabelsOf, Procs, Sampling, Falling, Stopping
<1>4. Routing'
    BY <1>0, <1>3, RoutingStep DEF Procs
<1>5. Keeping'
    <2>1. ASSUME epoch \notin stopping, ~mcancel
          PROVE  state' \in Connected \cup {"Reconnecting"}
        BY <1>0, <2>1 DEF Keeping, Connected
    <2>2. ASSUME epoch \notin stopping, mcancel
          PROVE  to \notin {"fbMark", "fbPublish"} /\ state' = state
        BY <1>0, <2>2, Unstopped DEF Keeping
    <2>3. pc["health"] # "idle" /\ pc["health"] \notin Failed /\ to # "idle" /\ to \notin Failed
        OBVIOUS
    <2>4. mcancel => mcancel'
        BY <1>0
    <2>5. epoch \notin stopping =>
             \/ /\ to \notin Failed \cup {"idle"} /\ pc["health"] \notin Failed
                /\ ~mcancel /\ mcancel' = mcancel /\ routes' = routes
                /\ state' \in Connected \cup {"Reconnecting"}
             \/ /\ to \notin Failed \cup {"idle", "fbMark", "fbPublish"}
                /\ mcancel /\ state' = state
        BY <2>1, <2>2
    <2> QED BY <2>3, <2>4, <2>5, HealthKeeps
<1>6. pc["health"] # "idle" /\ pc["health"] \notin Failing
    BY DEF Failed
<1>7. state' \in {state, "Error", "Reconnecting", "DegradedFallback"}
    OBVIOUS
<1> QED BY <1>0, <1>2, <1>3, <1>4, <1>5, <1>6, <1>7, MonitorStep

\* The loop ends: it was told to, or the operation is shown as failed.
LEMMA HealthLeaves ==
    ASSUME IInv, pc["health"] # "idle", pc["lease"] \notin Running, Exit("health"),
           UNCHANGED <<reserved, receipt, epoch, active, stopping, pinned, sop, slot, bound,
                       consumed, bad, carrier>>,
           fail' \in [Procs -> Errors \cup {"none"}], transport' \in BOOLEAN, child' \in BOOLEAN,
           side' \in {"Stopped", "Running", "Backoff", "CrashLoop"},
           gate' = gate \/ (gate' = "RecoveryOnly" /\ pc["health"] \in {"beat", "mundo"}),
           routes' \in {"none", "held", "unknown"}, routesActive' \in BOOLEAN, Routing',
           carriers' \subseteq carriers \cup {carrier},
           \/ lock' = lock /\ pc["health"] \notin Falling \cup Failing
           \/ lock' = "free" /\ pc["health"] \in Falling \cup Failing,
           \/ state' = "Error"
           \/ state' = state /\ (epoch \in stopping \/ mcancel \/ state = "Error")
    PROVE  IInv'
<1>0. /\ Types /\ Positions /\ Routing /\ Carrying /\ Keeping /\ slot
    BY MonitorRuns DEF IInv
<1>1. Goto("health", "idle") /\ mcancel' \in BOOLEAN /\ mcancel'
    BY <1>0, ExitFacts
<1>2. /\ "idle" \in LabelsOf["health"]
      /\ "idle" \notin Falling \cup Failing \cup Failed \cup Sampling \cup {"beat", "mundo"}
    BY DEF LabelsOf, Procs, Falling, Failing, Failed, Sampling
<1>3. lock' \in Procs \cup {"free"} /\ state' \in States /\ gate' \in {"Open", "Retiring", "RecoveryOnly", "Retired"}
    BY <1>0 DEF Types, Procs, States, Connected
<1>4. Types'
    BY <1>0, <1>1, <1>3 DEF Types
<1>5. Carrying'
    BY <1>0, <1>1, <1>2, CarryingStep DEF Procs
<1>6. Keeping'
    <2>1. ASSUME epoch \notin stopping PROVE state' = "Error"
        BY <1>0, <2>1 DEF Keeping, Running
    <2>2. mcancel => mcancel'
        BY <1>1
    <2> QED BY <1>1, <1>2, <2>1, <2>2, HealthKeeps
<1>7. routes' # "retired" /\ state' \in {state, "Error", "Reconnecting", "DegradedFallback"}
    OBVIOUS
<1> QED BY <1>1, <1>2, <1>4, <1>5, <1>6, <1>7, MonitorStep

\* The labels of the health loop.
LEMMA HealthLabels ==
    /\ {"sleep", "poll", "sample", "fbLock", "fbMark", "fbDrop", "fbConnect", "fbGate", "fbPublish",
        "mark", "mlock", "mundo", "mgranular", "mshutdown", "idle"} = LabelsOf["health"]
    /\ Failed = {"mlock", "mundo", "mgranular", "mshutdown"}
    /\ Failing = {"mundo", "mgranular", "mshutdown"}
    /\ Falling = {"fbMark", "fbDrop", "fbConnect", "fbGate"}
    /\ Sampling = {"sleep", "poll", "sample"}
BY DEF Failed, Failing, Falling, Sampling, LabelsOf, Procs

\* A step of the health loop that keeps the carrier and the counter.
LEMMA HealthCarries ==
    ASSUME IInv, NEW to \in LabelsOf["health"], Goto("health", to), UNCHANGED <<carrier, bad>>,
           carriers' \subseteq carriers \cup {carrier}, to \in Sampling => pc["health"] \in Sampling
    PROVE  Carrying'
BY CarryingStep DEF IInv, Procs

\* What a loop that is told to end knows.
LEMMA ToldToEnd ==
    ASSUME IInv, NEW p \in {"health", "lease"}, pc[p] # "idle", ~EnsureMonitor
    PROVE  epoch \in stopping \/ mcancel
BY MonitorRuns, Unstopped

LEMMA HealthFailure ==
    ASSUME IInv, NEW e \in Errors, MonitorFails("health", e)
    PROVE  /\ Goto("health", "mark") /\ fail' \in [Procs -> Errors \cup {"none"}]
BY FailureType DEF IInv, MonitorFails, Procs

LEMMA HealthExitRoutes ==
    ASSUME IInv, pc["health"] # "idle", Exit("health"), UNCHANGED <<routes, routesActive>>
    PROVE  /\ Routing' /\ routes' \in {"none", "held", "unknown"} /\ routesActive' \in BOOLEAN
<1>1. Types /\ Positions /\ Routing /\ routes # "retired"
    BY MonitorRuns DEF IInv
<1>2. Goto("health", "idle") /\ "idle" \in LabelsOf["health"] /\ "idle" \notin Stopping
    BY <1>1, ExitFacts, HealthLabels DEF Stopping
<1> QED BY <1>1, <1>2, RoutingStep DEF Types, Procs

LEMMA HealthWakeKeeps == ASSUME IInv, HealthWake PROVE IInv'
<1>0. /\ pc["health"] = "sleep" /\ pc["lease"] \notin Running
      /\ UNCHANGED <<admission, lock, fail, operation, pinned, status, slot, carrier, bad,
                     routesActive, start, outside>>
      /\ Types
    BY DEF HealthWake, At, IInv
<1>1. CASE EnsureMonitor /\ Goto("health", "poll") /\ UNCHANGED mcancel
    <2>1. Carrying'
        BY <1>0, <1>1, HealthLabels, HealthCarries DEF outside
    <2> QED BY <1>0, <1>1, <2>1, HealthLabels, HealthMoves
            DEF Types, admission, operation, status, start, outside
<1>2. CASE ~EnsureMonitor /\ Exit("health")
    BY <1>0, <1>2, ToldToEnd, HealthLabels, HealthExitRoutes, HealthLeaves
       DEF Types, admission, operation, status, start, outside
<1> QED BY <1>0, <1>1, <1>2 DEF HealthWake

LEMMA HealthPollKeeps == ASSUME IInv, HealthPoll PROVE IInv'
<1>0. /\ pc["health"] = "poll" /\ pc["lease"] \notin Running
      /\ UNCHANGED <<admission, lock, operation, pinned, state, sop, transport, slot, carrier, bad,
                     routesActive, start>>
      /\ Types
    BY DEF HealthPoll, At, IInv
<1>1. ASSUME Goto("health", "mark") \/ Goto("health", "sample"), UNCHANGED mcancel,
             fail' \in [Procs -> Errors \cup {"none"}],
             side' \in {"Stopped", "Running", "Backoff", "CrashLoop"},
             child' \in BOOLEAN, routes' = routes, carriers' \in {carriers, {}}
      PROVE  IInv'
    <2>1. Carrying'
        BY <1>0, <1>1, HealthLabels, HealthCarries
    <2> QED BY <1>0, <1>1, <2>1, HealthLabels, HealthMoves
            DEF Types, admission, operation, start
<1>2. CASE ~EnsureMonitor /\ Exit("health") /\ UNCHANGED <<fail, side, outside>>
    BY <1>0, <1>2, ToldToEnd, HealthLabels, HealthExitRoutes, HealthLeaves
       DEF Types, admission, operation, start, outside
<1>3. ASSUME NEW e \in Errors, MonitorFails("health", e), RequestFails(e), UNCHANGED <<mcancel, side>>
      PROVE  IInv'
    BY <1>0, <1>1, <1>3, HealthFailure, RequestFacts DEF Types
<1>4. CASE MonitorFails("health", "fatal") /\ side' = "Backoff" /\ UNCHANGED <<mcancel, outside>>
    BY <1>0, <1>1, <1>4, HealthFailure DEF Types, outside, Errors
<1>5. CASE side' = "Running" /\ Goto("health", "sample") /\ UNCHANGED <<fail, mcancel, outside>>
    BY <1>0, <1>1, <1>5 DEF Types, outside
<1> HIDE DEF IInv
<1> QED BY <1>2, <1>3, <1>4, <1>5 DEF HealthPoll, Errors

LEMMA HealthSampleKeeps == ASSUME IInv, HealthSample PROVE IInv'
<1>0. /\ pc["health"] = "sample" /\ pc["lease"] \notin Running
      /\ UNCHANGED <<admission, lock, operation, pinned, status, slot, carrier, routesActive, start>>
      /\ Types /\ Positions /\ Carrying
    BY DEF HealthSample, At, IInv
<1>1. ASSUME NEW to \in {"mark", "sleep", "fbLock"}, Goto("health", to), UNCHANGED mcancel, Carrying',
             fail' \in [Procs -> Errors \cup {"none"}], child' \in BOOLEAN, routes' = routes
      PROVE  IInv'
    BY <1>0, <1>1, HealthLabels, HealthMoves DEF Types, admission, operation, status, start
<1>2. CASE ~EnsureMonitor /\ Exit("health") /\ UNCHANGED <<fail, bad, outside>>
    BY <1>0, <1>2, ToldToEnd, HealthLabels, HealthExitRoutes, HealthLeaves
       DEF Types, admission, operation, status, start, outside
<1>3. CASE bad' = 0 /\ Goto("health", "sleep") /\ UNCHANGED <<fail, mcancel, outside>>
    <2>1. Carrying'
        BY <1>0, <1>3, ThresholdAssumption DEF Carrying, outside
    <2> QED BY <1>0, <1>1, <1>3, <2>1 DEF Types, outside
<1>4. CASE /\ bad' = bad + 1
           /\ Goto("health", IF bad + 1 >= Threshold THEN "fbLock" ELSE "sleep")
           /\ UNCHANGED <<fail, mcancel, outside>>
    <2> DEFINE to == IF bad + 1 >= Threshold THEN "fbLock" ELSE "sleep"
    <2>1. to \in LabelsOf["health"] /\ to \in {"mark", "sleep", "fbLock"}
        BY HealthLabels
    <2>2. pc'["health"] = to
        BY <1>0, <1>4, <2>1, Moved DEF Procs
    <2>3. bad \in Nat /\ bad < Threshold /\ carrier \in 1..Carriers /\ carriers \subseteq {carrier}
        BY <1>0 DEF Carrying, Sampling
    <2>4. bad' \in 0..Threshold
        BY <1>4, <2>3, ThresholdAssumption
    <2>5. to \in Sampling => bad' < Threshold
        BY <1>4, <2>3, ThresholdAssumption DEF Sampling
    <2>6. Carrying'
        BY <1>0, <1>4, <2>2, <2>3, <2>4, <2>5 DEF Carrying, outside
    <2> HIDE DEF to
    <2> QED BY <1>0, <1>1, <1>4, <2>1, <2>6 DEF Types, outside, to
<1>5. ASSUME NEW e \in Errors, MonitorFails("health", e), RequestFails(e), UNCHANGED <<mcancel, bad>>
      PROVE  IInv'
    <2>1. /\ Goto("health", "mark") /\ fail' \in [Procs -> Errors \cup {"none"}]
          /\ child' \in BOOLEAN /\ routes' = routes /\ carriers' \in {carriers, {}}
        BY <1>0, <1>5, HealthFailure, RequestFacts
    <2>2. Carrying'
        BY <1>0, <1>5, <2>1, HealthLabels, HealthCarries
    <2> QED BY <1>1, <1>5, <2>1, <2>2
<1> HIDE DEF IInv
<1> QED BY <1>2, <1>3, <1>4, <1>5 DEF HealthSample

\* The fallback gives up and releases the mutex.
LEMMA FallbackFailsKeeps ==
    ASSUME IInv, pc["health"] \in Falling \/ (pc["health"] = "fbLock" /\ lock = "free"),
           pc["lease"] \notin Running, NEW e \in Errors, FallbackFails(e),
           UNCHANGED <<admission, operation, pinned, state, sop, side, slot, carrier, bad,
                       routesActive, start>>,
           transport' \in BOOLEAN, child' \in BOOLEAN, routes' = routes,
           carriers' \subseteq carriers \cup {carrier}
    PROVE  IInv'
<1>0. Types /\ pc["health"] \notin Failed \cup {"idle"} /\ lock' = "free"
    BY HealthLabels DEF IInv, FallbackFails
<1>1. CASE mcancel /\ Exit("health") /\ UNCHANGED fail
    <2>1. Routing' /\ routes' \in {"none", "held", "unknown"} /\ routesActive' \in BOOLEAN
        BY <1>0, <1>1, HealthExitRoutes
    <2>2. \/ lock' = lock /\ pc["health"] \notin Falling \cup Failing
          \/ lock' = "free" /\ pc["health"] \in Falling \cup Failing
        BY <1>0, HealthLabels
    <2> QED BY <1>0, <1>1, <2>1, <2>2, HealthLeaves DEF Types, admission, operation, start
<1>2. CASE MonitorFails("health", e) /\ UNCHANGED mcancel
    <2>1. Goto("health", "mark") /\ fail' \in [Procs -> Errors \cup {"none"}]
        BY <1>2, HealthFailure
    <2>2. Carrying'
        BY <2>1, HealthLabels, HealthCarries
    <2>3. \/ "mark" \notin Falling /\ lock' = lock /\ pc["health"] \notin Falling
          \/ "mark" \notin Falling /\ lock' = "free" /\ pc["health"] \in Falling
        BY <1>0, HealthLabels
    <2> QED BY <1>0, <1>2, <2>1, <2>2, <2>3, HealthLabels, HealthMoves
            DEF Types, admission, operation, start
<1> QED BY <1>1, <1>2 DEF FallbackFails

LEMMA FallbackLockKeeps == ASSUME IInv, FallbackLock PROVE IInv'
<1>0. /\ pc["health"] = "fbLock" /\ pc["lease"] \notin Running /\ lock = "free"
      /\ UNCHANGED <<admission, operation, pinned, status, slot, carrier, bad, routesActive, start,
                     outside>>
      /\ Types
    BY DEF FallbackLock, At, IInv
<1>1. CASE EnsureMonitor /\ lock' = "health" /\ Goto("health", "fbMark") /\ UNCHANGED <<fail, mcancel>>
    <2>1. Carrying'
        BY <1>0, <1>1, HealthLabels, HealthCarries DEF outside
    <2> QED BY <1>0, <1>1, <2>1, HealthLabels, HealthMoves
            DEF Types, admission, operation, status, start, outside
<1>2. CASE FallbackFails("cancelled")
    BY <1>0, <1>2, FallbackFailsKeeps DEF Types, status, outside, Errors
<1> QED BY <1>1, <1>2 DEF FallbackLock

LEMMA FallbackMarkKeeps == ASSUME IInv, FallbackMark PROVE IInv'
<1>0. /\ pc["health"] = "fbMark" /\ Goto("health", "fbDrop") /\ state' = "Reconnecting"
      /\ UNCHANGED <<admission, lock, fail, operation, pinned, sop, transport, side, monitor,
                     routesActive, start, outside>>
      /\ Types /\ Mutex
    BY DEF FallbackMark, At, IInv
<1>1. Carrying'
    BY <1>0, HealthLabels, HealthCarries DEF outside, monitor
<1>2. lock = "health"
    BY <1>0 DEF Mutex, Holds, Falling, Procs
<1> QED BY <1>0, <1>1, <1>2, HealthLabels, HealthMoves
        DEF Types, admission, operation, monitor, start, outside

LEMMA FallbackDropKeeps == ASSUME IInv, FallbackDrop PROVE IInv'
<1>0. /\ pc["health"] = "fbDrop" /\ pc["lease"] \notin Running
      /\ UNCHANGED <<admission, operation, pinned, state, sop, side, slot, bad, routesActive, start>>
      /\ Types /\ Mutex /\ Positions /\ Carrying
    BY DEF FallbackDrop, At, IInv
<1>1. ASSUME carriers' = {}, transport' = FALSE, carrier < Carriers, carrier' = carrier + 1,
             Goto("health", "fbConnect"), UNCHANGED <<fail, lock, mcancel>>, UNCHANGED <<routes, child>>
      PROVE  IInv'
    <2>1. pc'["health"] = "fbConnect"
        BY <1>0, <1>1, HealthLabels, Moved DEF Procs
    <2>2. carrier' \in 1..Carriers
        BY <1>0, <1>1, CarriersAssumption DEF Carrying
    <2>3. Carrying'
        BY <1>0, <1>1, <2>1, <2>2 DEF Carrying, Sampling
    <2>4. lock = "health"
        BY <1>0 DEF Mutex, Holds, Falling, Procs
    <2> QED BY <1>0, <1>1, <2>3, <2>4, HealthLabels, HealthMoves DEF Types, admission, operation, start
<1>2. ASSUME NEW e \in {"cancelled", "other"}, FallbackFails(e), carriers' = {}, transport' = FALSE,
             UNCHANGED carrier, UNCHANGED <<routes, child>>
      PROVE  IInv'
    BY <1>0, <1>2, HealthLabels, FallbackFailsKeeps DEF Types, Errors
<1>3. ASSUME NEW e \in Errors, FallbackFails(e), RequestFails(e), UNCHANGED <<transport, carrier>>
      PROVE  IInv'
    BY <1>0, <1>3, HealthLabels, RequestFacts, FallbackFailsKeeps DEF Types
<1> HIDE DEF IInv
<1> QED BY <1>1, <1>2, <1>3 DEF FallbackDrop, CarrierDown

LEMMA FallbackConnectKeeps == ASSUME IInv, FallbackConnect PROVE IInv'
<1>0. /\ pc["health"] = "fbConnect" /\ pc["lease"] \notin Running
      /\ UNCHANGED <<admission, operation, pinned, status, slot, carrier, bad, routesActive, start>>
      /\ Types /\ Mutex
    BY DEF FallbackConnect, At, IInv
<1>1. lock = "health"
    BY <1>0 DEF Mutex, Holds, Falling, Procs
<1>2. ASSUME NEW to \in {"fbGate", "fbDrop"}, Goto("health", to), UNCHANGED <<fail, lock, mcancel>>,
             routes' = routes, child' \in BOOLEAN, carriers' \subseteq carriers \cup {carrier}
      PROVE  IInv'
    <2>1. Carrying'
        BY <1>0, <1>2, HealthLabels, HealthCarries
    <2> QED BY <1>0, <1>1, <1>2, <2>1, HealthLabels, HealthMoves
            DEF Types, admission, operation, status, start
<1>3. ASSUME NEW e \in Errors, FallbackFails(e), routes' = routes, child' \in BOOLEAN,
             carriers' \subseteq carriers \cup {carrier}
      PROVE  IInv'
    BY <1>0, <1>3, HealthLabels, FallbackFailsKeeps DEF Types, status
<1>4. CASE FallbackFails("cancelled") /\ UNCHANGED outside
    BY <1>0, <1>3, <1>4 DEF Types, outside, Errors
<1>5. CASE /\ carriers' = carriers \cup {carrier} /\ Goto("health", "fbGate")
           /\ UNCHANGED <<fail, lock, mcancel, routes, child>>
    BY <1>0, <1>2, <1>5 DEF Types
<1>6. ASSUME NEW e \in Errors, FallbackFails(e), ConnectFails(e) PROVE IInv'
    BY <1>0, <1>3, <1>6, ConnectFacts
<1>7. CASE ConnectFails("other") /\ Goto("health", "fbDrop") /\ UNCHANGED <<fail, lock, mcancel>>
    BY <1>0, <1>2, <1>7, ConnectFacts
<1> HIDE DEF IInv
<1> QED BY <1>4, <1>5, <1>6, <1>7 DEF FallbackConnect, Errors

LEMMA FallbackGateKeeps == ASSUME IInv, FallbackGate PROVE IInv'
<1>0. /\ pc["health"] = "fbGate" /\ pc["lease"] \notin Running
      /\ UNCHANGED <<admission, operation, pinned, status, slot, carrier, bad, routesActive, start>>
      /\ Types /\ Mutex
    BY DEF FallbackGate, At, IInv
<1>1. lock = "health"
    BY <1>0 DEF Mutex, Holds, Falling, Procs
<1>2. ASSUME NEW to \in {"fbPublish", "fbDrop"}, Goto("health", to), UNCHANGED <<fail, mcancel, outside>>,
             to = "fbPublish" => EnsureMonitor /\ lock' = "free",
             to = "fbDrop" => UNCHANGED lock
      PROVE  IInv'
    <2>1. Carrying'
        BY <1>0, <1>2, HealthLabels, HealthCarries DEF outside
    <2> QED BY <1>0, <1>1, <1>2, <2>1, HealthLabels, HealthMoves
            DEF Types, admission, operation, status, start, outside
<1>3. ASSUME NEW e \in Errors, FallbackFails(e), routes' = routes, child' \in BOOLEAN,
             carriers' \subseteq carriers \cup {carrier}
      PROVE  IInv'
    BY <1>0, <1>3, HealthLabels, FallbackFailsKeeps DEF Types, status
<1>4. CASE FallbackFails("cancelled") /\ UNCHANGED outside
    BY <1>0, <1>3, <1>4 DEF Types, outside, Errors
<1>5. ASSUME NEW e \in Errors, FallbackFails(e), RequestFails(e) PROVE IInv'
    BY <1>0, <1>3, <1>5, RequestFacts
<1>6. CASE EnsureMonitor /\ lock' = "free" /\ Goto("health", "fbPublish") /\ UNCHANGED <<fail, mcancel, outside>>
    BY <1>2, <1>6
<1>7. CASE Goto("health", "fbDrop") /\ UNCHANGED <<fail, lock, mcancel, outside>>
    BY <1>2, <1>7
<1> HIDE DEF IInv
<1> QED BY <1>4, <1>5, <1>6, <1>7 DEF FallbackGate, Errors

LEMMA FallbackPublishKeeps == ASSUME IInv, FallbackPublish PROVE IInv'
<1>0. /\ pc["health"] = "fbPublish" /\ pc["lease"] \notin Running
      /\ UNCHANGED <<admission, lock, fail, operation, pinned, sop, side, slot, carrier, routesActive,
                     start, outside>>
      /\ Types /\ Positions /\ Carrying
    BY DEF FallbackPublish, At, IInv
<1>1. CASE /\ state' = "DegradedFallback" /\ transport' = TRUE /\ bad' = 0
           /\ Goto("health", "sleep") /\ UNCHANGED mcancel
    <2>1. Carrying'
        BY <1>0, <1>1, ThresholdAssumption DEF Carrying, outside
    <2> QED BY <1>0, <1>1, <2>1, HealthLabels, HealthMoves
            DEF Types, admission, operation, start, outside
<1>2. CASE sop # epoch /\ Exit("health") /\ UNCHANGED <<state, transport, bad>>
    <2>1. epoch \in stopping
        BY <1>0, <1>2, MonitorRuns, Unstopped
    <2>2. Routing' /\ routes' \in {"none", "held", "unknown"} /\ routesActive' \in BOOLEAN
        BY <1>0, <1>2, HealthExitRoutes DEF outside
    <2> QED BY <1>0, <1>2, <2>1, <2>2, HealthLabels, HealthLeaves
            DEF Types, admission, operation, start, outside
<1> QED BY <1>1, <1>2 DEF FallbackPublish
-----------------------------------------------------------------------------
(* The lease loop, and the cleanup after a failure *)

LEMMA LeaseLabels == {"idle", "sleep", "beat", "mark", "mlock", "mundo", "mgranular", "mshutdown"} = LabelsOf["lease"]
BY DEF Failing, LabelsOf, Procs

LEMMA LeaseStep ==
    ASSUME IInv, pc["lease"] \in {"sleep", "beat"}, pc["health"] \notin Running,
           NEW to \in {"idle", "sleep", "beat", "mark"}, Goto("lease", to),
           UNCHANGED <<reserved, receipt, lock, epoch, active, stopping, pinned, state, sop, transport,
                       side, slot, carrier, bad, routesActive, bound, consumed, child, carriers>>,
           fail' \in [Procs -> Errors \cup {"none"}], mcancel' \in BOOLEAN,
           gate' = gate \/ (gate' = "RecoveryOnly" /\ pc["lease"] = "beat"),
           to = "beat" => gate' = "Open",
           routes' = routes \/ (routes = "held" /\ routes' = "unknown"),
           mcancel => mcancel', to = "mark" => mcancel',
           epoch \notin stopping =>
             \/ to \in {"sleep", "beat"} /\ ~mcancel /\ mcancel' = mcancel /\ routes' = routes
             \/ to = "mark"
             \/ to = "idle" /\ state = "Error"
    PROVE  IInv'
<1>0. Types /\ Positions /\ Mutex /\ Carrying /\ Routing /\ routes # "retired"
    BY MonitorRuns DEF IInv
<1>1. Types'
    BY <1>0 DEF Types
<1>2. to \in LabelsOf["lease"] /\ to \notin Falling \cup Failing \cup Stopping \cup Failed
    BY LeaseLabels, HealthLabels DEF Stopping
<1>3. Carrying'
    BY <1>0, <1>2, CarryingStep DEF Procs
<1>4. Routing'
    <2>1. CASE routes' = routes
        BY <1>0, <1>2, <2>1, RoutingStep DEF Procs
    <2>2. CASE routes = "held" /\ routes' = "unknown"
        <3>1. routesActive /\ \A q \in Procs : pc[q] \notin Stopping
            BY <1>0, <2>2 DEF Routing
        <3>2. lock \notin {"conn", "front"}
            BY MonitorRuns
        <3>3. pc["conn"] # "commit"
            BY <1>0, <3>2 DEF Mutex, Holds, Working, Procs
        <3>4. pc'["lease"] = to /\ \A q \in Procs \ {"lease"} : pc'[q] = pc[q]
            BY <1>0, <1>2, Moved DEF Procs
        <3>5. pc'["conn"] # "commit" /\ \A q \in Procs : pc'[q] \notin Stopping
            BY <1>2, <3>1, <3>3, <3>4 DEF Procs
        <3> QED BY <3>1, <3>5 DEF Routing
    <2> QED BY <2>1, <2>2
<1>5. Keeping'
    <2>1. epoch \notin stopping =>
             \/ to \in {"sleep", "beat"} /\ ~mcancel /\ mcancel' = mcancel /\ UNCHANGED <<routes, state>>
             \/ to = "mark" /\ state' = state
             \/ to \in Failed \cup {"idle"} /\ state' = "Error" /\ (mcancel' \/ state = "Error")
        OBVIOUS
    <2>2. to \in {"mark"} \cup Failed => mcancel'
        BY <1>2
    <2>3. pc["lease"] # "idle"
        OBVIOUS
    <2> QED BY <1>2, <2>1, <2>2, <2>3, LeaseKeeps
<1>6. /\ pc["lease"] # "idle" /\ pc["lease"] \notin Falling \cup Failing
      /\ to # "mundo" /\ routes' # "retired"
    BY <1>0, HealthLabels
<1> QED BY <1>1, <1>2, <1>3, <1>4, <1>5, <1>6, MonitorStep

LEMMA LeaseFailure ==
    ASSUME IInv, NEW e \in Errors, MonitorFails("lease", e)
    PROVE  /\ Goto("lease", "mark") /\ fail' \in [Procs -> Errors \cup {"none"}]
BY FailureType DEF IInv, MonitorFails, Procs

LEMMA LeaseWakeKeeps == ASSUME IInv, LeaseWake PROVE IInv'
<1>0. /\ pc["lease"] = "sleep" /\ pc["health"] \notin Running
      /\ UNCHANGED <<admission, lock, operation, pinned, status, slot, carrier, bad, routesActive,
                     start, outside>>
      /\ Types /\ Keeping
    BY DEF LeaseWake, At, IInv
<1>1. CASE (~EnsureMonitor \/ ~LeaseStateActive) /\ Exit("lease") /\ UNCHANGED fail
    <2>1. Goto("lease", "idle") /\ mcancel' = mcancel
        BY <1>0, <1>1, ExitFacts
    <2>2. ASSUME epoch \notin stopping PROVE state = "Error"
        BY <1>0, <1>1, <2>2, MonitorRuns, Unstopped DEF Keeping, LeaseStateActive
    <2> QED BY <1>0, <1>1, <2>1, <2>2, LeaseStep DEF Types, admission, operation, status, start, outside
<1>2. CASE EnsureMonitor /\ AdmitsRouteTask /\ Goto("lease", "beat") /\ UNCHANGED <<fail, mcancel>>
    <2>1. ~mcancel /\ gate = "Open"
        BY <1>2 DEF EnsureMonitor, AdmitsRouteTask
    <2> QED BY <1>0, <1>2, <2>1, LeaseStep DEF Types, admission, operation, status, start, outside
<1>3. CASE MonitorFails("lease", "other") /\ mcancel' = TRUE
    <2>1. Goto("lease", "mark") /\ fail' \in [Procs -> Errors \cup {"none"}]
        BY <1>3, LeaseFailure DEF Errors
    <2> QED BY <1>0, <1>3, <2>1, LeaseStep DEF Types, admission, operation, status, start, outside
<1> QED BY <1>1, <1>2, <1>3 DEF LeaseWake

LEMMA LeaseBeatKeeps == ASSUME IInv, LeaseBeat PROVE IInv'
<1>0. /\ pc["lease"] = "beat" /\ pc["health"] \notin Running
      /\ UNCHANGED <<reserved, receipt, lock, operation, pinned, status, slot, carrier, bad,
                     routesActive, start, child, carriers>>
      /\ Types /\ Keeping
    BY DEF LeaseBeat, At, IInv
<1>1. CASE /\ ~EnsureMonitor /\ gate' \in {gate, "RecoveryOnly"} /\ routes' \in LeaseAfterFailure
           /\ Exit("lease") /\ UNCHANGED fail
    <2>1. Goto("lease", "idle") /\ mcancel' = mcancel
        BY <1>0, <1>1, ExitFacts
    <2>2. ASSUME epoch \notin stopping PROVE state = "Error"
        BY <1>0, <1>1, <2>2, MonitorRuns, Unstopped DEF Keeping
    <2>3. routes' = routes \/ (routes = "held" /\ routes' = "unknown")
        BY <1>1 DEF LeaseAfterFailure
    <2> QED BY <1>0, <1>1, <2>1, <2>2, <2>3, LeaseStep DEF Types, operation, status, start
<1>2. CASE EnsureMonitor /\ Goto("lease", "sleep") /\ UNCHANGED <<gate, routes, fail, mcancel>>
    <2>1. ~mcancel
        BY <1>2 DEF EnsureMonitor
    <2> QED BY <1>0, <1>2, <2>1, LeaseStep DEF Types, operation, status, start
<1>3. ASSUME NEW e \in Errors, MonitorFails("lease", e), gate' \in GateAfterCall(e),
             routes' \in LeaseAfterFailure, mcancel' = TRUE
      PROVE  IInv'
    <2>1. Goto("lease", "mark") /\ fail' \in [Procs -> Errors \cup {"none"}]
        BY <1>3, LeaseFailure
    <2>2. /\ routes' = routes \/ (routes = "held" /\ routes' = "unknown")
          /\ gate' \in {gate, "RecoveryOnly"}
        BY <1>3 DEF LeaseAfterFailure, GateAfterCall
    <2> QED BY <1>0, <1>3, <2>1, <2>2, LeaseStep DEF Types, operation, status, start
<1> HIDE DEF IInv
<1> QED BY <1>1, <1>2, <1>3 DEF LeaseBeat, Errors

\* A step of the cleanup that follows a failure, by either loop.
LEMMA CleanerStep ==
    ASSUME IInv, NEW p \in {"health", "lease"}, pc[p] \in {"mark"} \cup Failed,
           \A q \in {"health", "lease"} \ {p} : pc[q] \notin Running,
           NEW to \in Failed \cup {"idle"}, Goto(p, to),
           UNCHANGED <<reserved, receipt, fail, epoch, active, stopping, pinned, sop, slot, carrier,
                       bad, bound, consumed>>,
           \/ to \in Failing /\ lock' = p /\ lock \in {p, "free"}
           \/ to \notin Failing /\ lock' = lock /\ pc[p] \notin Failing
           \/ to \notin Failing /\ lock' = "free" /\ pc[p] \in Failing,
           state' \in {state, "Error"}, epoch \notin stopping => state' = "Error",
           transport' \in BOOLEAN, side' \in {"Stopped", "Running", "Backoff", "CrashLoop"},
           mcancel' \in BOOLEAN, mcancel' = mcancel \/ (p = "health" /\ to = "idle"),
           p = "health" /\ to = "idle" => mcancel',
           gate' = gate \/ (gate' = "RecoveryOnly" /\ pc[p] = "mundo"),
           to = "mundo" => gate' = "Open",
           routes' \in {"none", "held", "unknown"}, routesActive' \in BOOLEAN, Routing',
           child' \in BOOLEAN, carriers' \subseteq carriers
    PROVE  IInv'
<1>0. Types /\ Positions /\ Carrying /\ Keeping
    BY DEF IInv
<1>1. /\ to \in LabelsOf[p] /\ to \notin Falling \cup Sampling \cup {"beat", "mark"}
      /\ pc[p] # "idle" /\ pc[p] \notin Falling
    BY HealthLabels, LeaseLabels
<1>2. Types'
    <2>1. lock' \in Procs \cup {"free"} /\ state' \in States /\ gate' \in {"Open", "Retiring", "RecoveryOnly", "Retired"}
        BY <1>0 DEF Types, Procs, States
    <2> QED BY <1>0, <2>1 DEF Types
<1>3. Carrying'
    BY <1>0, <1>1, CarryingStep DEF Procs
<1>4. mcancel => mcancel'
    OBVIOUS
<1>5. CASE p = "health"
    <2>1. Keeping'
        <3>1. epoch \notin stopping =>
                \/ to = "idle" /\ mcancel' /\ state' = "Error"
                \/ to \in Failed /\ state' = "Error" /\ mcancel' = mcancel
            BY <1>5
        <3> QED BY <1>1, <1>4, <1>5, <3>1, HealthKeeps
    <2> QED BY <1>1, <1>2, <1>3, <2>1, MonitorStep
<1>6. CASE p = "lease"
    <2>1. mcancel' /\ pc["health"] \notin Running
        BY <1>0, <1>6 DEF Keeping
    <2>2. Keeping'
        <3>1. epoch \notin stopping =>
                to \in Failed \cup {"idle"} /\ state' = "Error" /\ (mcancel' \/ state = "Error")
            BY <2>1
        <3> QED BY <1>1, <1>4, <1>6, <2>1, <3>1, LeaseKeeps
    <2> QED BY <1>1, <1>2, <1>3, <2>2, MonitorStep
<1> QED BY <1>5, <1>6

\* What the cleanup after a failure may rely on.
LEMMA CleanerFacts ==
    ASSUME IInv, NEW p \in {"health", "lease"}, NEW l \in {"mark"} \cup Failed, At(p, l)
    PROVE  /\ pc[p] = l /\ pc[p] \in {"mark"} \cup Failed /\ pc[p] # "idle"
           /\ \A q \in {"health", "lease"} \ {p} : pc[q] \notin Running
           /\ Types /\ Positions /\ Mutex /\ Routing /\ Keeping /\ slot /\ routes # "retired"
           /\ l \in Failed /\ epoch \notin stopping => state = "Error"
           /\ l \in Failing => lock = p
           /\ p \in Procs
<1>1. /\ pc[p] = l /\ pc[p] # "idle" /\ \A q \in {"health", "lease"} \ {p} : pc[q] \notin Running
      /\ p \in Procs
    BY HealthLabels DEF At, Procs
<1>2. slot /\ routes # "retired"
    BY <1>1, MonitorRuns
<1> QED BY <1>1, <1>2 DEF IInv, Keeping, Mutex, Holds

\* The loop that cleaned up ends.
LEMMA CleanerExit ==
    ASSUME IInv, NEW p \in {"health", "lease"}, Exit(p)
    PROVE  /\ Goto(p, "idle") /\ mcancel' \in BOOLEAN
           /\ mcancel' = mcancel \/ p = "health"
           /\ p = "health" => mcancel'
BY ExitFacts DEF IInv

LEMMA ExitRouting ==
    ASSUME IInv, NEW p \in {"health", "lease"}, Exit(p), UNCHANGED <<routes, routesActive>>
    PROVE  Routing'
<1>1. Goto(p, "idle") /\ p \in Procs /\ "idle" \in LabelsOf[p] /\ "idle" \notin Stopping
    BY CleanerExit, HealthLabels, LeaseLabels DEF Stopping, Procs
<1> QED BY <1>1, RoutingStep DEF IInv

LEMMA MonitorMarkKeeps ==
    ASSUME IInv, NEW p \in {"health", "lease"}, MonitorMark(p) PROVE IInv'
<1>0. /\ At(p, "mark") /\ "mark" \notin Failing
      /\ UNCHANGED <<admission, lock, fail, operation, pinned, sop, transport, slot, carrier, bad,
                     routesActive, start, outside>>
    BY DEF MonitorMark, Failing
<1>1. /\ pc[p] = "mark" /\ \A q \in {"health", "lease"} \ {p} : pc[q] \notin Running
      /\ Types /\ Positions /\ Routing /\ slot /\ routes # "retired" /\ p \in Procs
    BY <1>0, CleanerFacts
<1>2. CASE /\ epoch \in stopping \/ sop # epoch \/ state \in {"Disconnected", "Disconnecting"}
           /\ Exit(p) /\ UNCHANGED <<state, side>>
    <2>1. epoch \in stopping
        BY <1>1, <1>2, Unstopped DEF Connected
    <2>2. Routing'
        BY <1>0, <1>2, ExitRouting DEF outside
    <2>3. /\ Goto(p, "idle") /\ mcancel' \in BOOLEAN /\ (mcancel' = mcancel \/ p = "health")
          /\ p = "health" => mcancel'
        BY <1>2, CleanerExit
    <2> QED BY <1>0, <1>1, <1>2, <2>1, <2>2, <2>3, HealthLabels, CleanerStep
            DEF Types, admission, operation, start, outside
<1>3. CASE /\ state' = "Error" /\ side' = (IF fail[p] = "fatal" THEN "CrashLoop" ELSE side)
           /\ Goto(p, "mlock") /\ UNCHANGED mcancel
    <2>1. "mlock" \in LabelsOf[p] /\ "mlock" \notin Stopping /\ "mlock" \in Failed /\ "mlock" \notin Failing
        BY HealthLabels, LeaseLabels DEF Stopping
    <2>2. Routing'
        BY <1>0, <1>1, <1>3, <2>1, RoutingStep DEF outside
    <2>3. side' \in {"Stopped", "Running", "Backoff", "CrashLoop"}
        BY <1>1, <1>3 DEF Types
    <2> QED BY <1>0, <1>1, <1>3, <2>1, <2>2, <2>3, CleanerStep
            DEF Types, admission, operation, start, outside
<1> QED BY <1>2, <1>3 DEF MonitorMark

LEMMA MonitorLockKeeps ==
    ASSUME IInv, NEW p \in {"health", "lease"}, MonitorLock(p) PROVE IInv'
<1>0. /\ At(p, "mlock") /\ lock = "free" /\ "mlock" \in Failed /\ "mlock" \notin Failing
      /\ UNCHANGED <<admission, fail, operation, pinned, sop, transport, side, slot, carrier, bad,
                     routesActive, start, outside>>
    BY HealthLabels DEF MonitorLock
<1>1. /\ pc[p] = "mlock" /\ \A q \in {"health", "lease"} \ {p} : pc[q] \notin Running
      /\ Types /\ Positions /\ Routing /\ slot /\ routes # "retired" /\ p \in Procs
      /\ epoch \notin stopping => state = "Error"
    BY <1>0, CleanerFacts
<1>2. ASSUME Exit(p), state' \in {state, "Error"}, UNCHANGED lock PROVE IInv'
    <2>1. Routing'
        BY <1>0, <1>2, ExitRouting DEF outside
    <2>2. /\ Goto(p, "idle") /\ mcancel' \in BOOLEAN /\ (mcancel' = mcancel \/ p = "health")
          /\ p = "health" => mcancel'
        BY <1>2, CleanerExit
    <2> QED BY <1>0, <1>1, <1>2, <2>1, <2>2, HealthLabels, CleanerStep
            DEF Types, admission, operation, start, outside
<1>3. ASSUME routesActive, AdmitsRouteTask, lock' = p, Goto(p, "mundo"), UNCHANGED <<state, mcancel>>
      PROVE  IInv'
    <2>1. "mundo" \in LabelsOf[p] /\ "mundo" \notin Stopping /\ "mundo" \in Failed /\ "mundo" \in Failing
        BY HealthLabels, LeaseLabels DEF Stopping
    <2>2. Routing'
        BY <1>0, <1>1, <1>3, <2>1, RoutingStep DEF outside
    <2> QED BY <1>0, <1>1, <1>3, <2>1, <2>2, CleanerStep
            DEF Types, admission, operation, start, outside, AdmitsRouteTask
<1> QED BY <1>1, <1>2, <1>3 DEF MonitorLock, Types

\* Who holds the mutex is alone with the routes.
LEMMA Alone ==
    ASSUME Mutex, NEW p \in Procs, lock = p
    PROVE  \A q \in Procs \ {p} : pc[q] \notin {"apply", "commit", "undo", "mundo"} \cup Stopping
BY DEF Mutex, Holds, Working, Cleaning, Failing, Stopping

LEMMA MonitorUndoKeeps ==
    ASSUME IInv, NEW p \in {"health", "lease"}, MonitorUndo(p) PROVE IInv'
<1>0. /\ At(p, "mundo") /\ "mundo" \in Failed /\ "mundo" \in Failing
      /\ UNCHANGED <<reserved, receipt, fail, operation, pinned, sop, transport, side, slot, carrier,
                     bad, start, child, carriers>>
    BY HealthLabels DEF MonitorUndo
<1>1. /\ pc[p] = "mundo" /\ \A q \in {"health", "lease"} \ {p} : pc[q] \notin Running
      /\ Types /\ Positions /\ Mutex /\ Routing /\ slot /\ routes # "retired" /\ p \in Procs
      /\ epoch \notin stopping => state = "Error"
      /\ lock = p
    BY <1>0, CleanerFacts
<1>2. \A q \in Procs \ {p} : pc[q] \notin {"apply", "commit", "undo", "mundo"} \cup Stopping
    BY <1>1, Alone
<1>3. CASE /\ routes' = "none" /\ routesActive' = FALSE /\ Goto(p, "mgranular")
           /\ UNCHANGED <<gate, lock, state, mcancel>>
    <2>1. "mgranular" \in LabelsOf[p] /\ "mgranular" \in Failed /\ "mgranular" \in Failing
        BY HealthLabels, LeaseLabels
    <2>2. Routing'
        BY <1>1, <1>2, <1>3, <2>1, RoutingChanges
    <2> QED BY <1>0, <1>1, <1>3, <2>1, <2>2, CleanerStep DEF Types, operation, start
<1>4. CASE /\ routes' \in {routes, "unknown"} /\ gate' \in {gate, "RecoveryOnly"}
           /\ state' = "Error" /\ lock' = "free" /\ Exit(p) /\ UNCHANGED routesActive
    <2>1. /\ Goto(p, "idle") /\ mcancel' \in BOOLEAN /\ (mcancel' = mcancel \/ p = "health")
          /\ p = "health" => mcancel'
        BY <1>4, CleanerExit
    <2>2. "idle" \in LabelsOf[p] /\ "idle" \notin Failed /\ "idle" \notin Stopping /\ "idle" \notin Failing
        BY HealthLabels, LeaseLabels DEF Stopping
    <2>3. routesActive
        BY <1>1 DEF Routing
    <2>4. Routing'
        BY <1>1, <1>2, <1>4, <2>1, <2>2, <2>3, RoutingChanges
    <2> QED BY <1>0, <1>1, <1>4, <2>1, <2>2, <2>4, CleanerStep DEF Types, operation, start
<1> QED BY <1>3, <1>4 DEF MonitorUndo

LEMMA MonitorGranularKeeps ==
    ASSUME IInv, NEW p \in {"health", "lease"}, MonitorGranular(p) PROVE IInv'
<1>0. /\ At(p, "mgranular") /\ "mgranular" \in Failed /\ "mgranular" \in Failing
      /\ Goto(p, "mshutdown") /\ carriers' \in {carriers, {}}
      /\ UNCHANGED <<admission, lock, fail, operation, pinned, status, monitor, routesActive, start,
                     routes, child>>
    BY HealthLabels DEF MonitorGranular
<1>1. /\ pc[p] = "mgranular" /\ \A q \in {"health", "lease"} \ {p} : pc[q] \notin Running
      /\ Types /\ Positions /\ Routing /\ slot /\ routes # "retired" /\ p \in Procs
      /\ epoch \notin stopping => state = "Error"
      /\ lock = p
    BY <1>0, CleanerFacts
<1>2. "mshutdown" \in LabelsOf[p] /\ "mshutdown" \in Failed /\ "mshutdown" \in Failing
    BY HealthLabels, LeaseLabels
<1>3. ~routesActive /\ routes = "none"
    BY <1>1 DEF Routing, Stopping
<1>4. Routing'
    BY <1>0, <1>1, <1>2, <1>3, RoutingStep
<1> QED BY <1>0, <1>1, <1>2, <1>4, CleanerStep
        DEF Types, admission, operation, status, monitor, start

LEMMA MonitorShutdownKeeps ==
    ASSUME IInv, NEW p \in {"health", "lease"}, MonitorShutdown(p) PROVE IInv'
<1>0. /\ At(p, "mshutdown") /\ "mshutdown" \in Failed /\ "mshutdown" \in Failing
      /\ state' = "Error" /\ lock' = "free" /\ Exit(p)
      /\ ShutdownOk \/ ShutdownFails
      /\ transport' \in {transport, FALSE} /\ side' \in {side, "Stopped"}
      /\ UNCHANGED <<admission, fail, operation, pinned, sop, slot, carrier, bad, routesActive, start>>
    BY HealthLabels DEF MonitorShutdown
<1>1. /\ pc[p] = "mshutdown" /\ \A q \in {"health", "lease"} \ {p} : pc[q] \notin Running
      /\ Types /\ Positions /\ Routing /\ slot /\ routes # "retired" /\ p \in Procs
      /\ epoch \notin stopping => state = "Error"
      /\ lock = p
    BY <1>0, CleanerFacts
<1>2. child' \in BOOLEAN /\ routes' = routes /\ carriers' \in {carriers, {}}
    BY <1>0, <1>1, ShutdownFacts
<1>3. Routing'
    BY <1>0, <1>2, ExitRouting
<1>4. /\ Goto(p, "idle") /\ mcancel' \in BOOLEAN /\ (mcancel' = mcancel \/ p = "health")
      /\ p = "health" => mcancel'
    BY <1>0, CleanerExit
<1>5. "idle" \notin Failing
    BY HealthLabels
<1>6. /\ transport' \in BOOLEAN /\ side' \in {"Stopped", "Running", "Backoff", "CrashLoop"}
      /\ routes' \in {"none", "held", "unknown"} /\ routesActive' \in BOOLEAN /\ gate' = gate
    BY <1>0, <1>1, <1>2 DEF Types, admission
<1>7. UNCHANGED <<reserved, receipt, fail, epoch, active, stopping, pinned, sop, slot, carrier, bad,
                  bound, consumed>>
    BY <1>0 DEF admission, operation, start
<1> QED BY <1>0, <1>1, <1>2, <1>3, <1>4, <1>5, <1>6, <1>7, HealthLabels, CleanerStep

LEMMA MonitorKeeps ==
    ASSUME IInv, Health \/ Lease \/ Cleaner("health") \/ Cleaner("lease")
    PROVE  IInv'
BY HealthWakeKeeps, HealthPollKeeps, HealthSampleKeeps, FallbackLockKeeps, FallbackMarkKeeps,
   FallbackDropKeeps, FallbackConnectKeeps, FallbackGateKeeps, FallbackPublishKeeps, LeaseWakeKeeps,
   LeaseBeatKeeps, MonitorMarkKeeps, MonitorLockKeeps, MonitorUndoKeeps, MonitorGranularKeeps,
   MonitorShutdownKeeps DEF Health, Lease, Cleaner
-----------------------------------------------------------------------------
(* The connect task and the cleanup it shares with disconnect *)

LEMMA WorkLabels ==
    /\ Working = {"start", "profile", "setPreparing", "prepare", "setConnecting", "carrier", "drop",
                  "snapshot", "apply", "commit"}
    /\ Cleaning = {"undo", "granular", "shutdown"}
    /\ LabelsOf["conn"] = {"idle", "spawned", "lock"} \cup Working \cup Cleaning
    /\ LabelsOf["front"] = {"idle", "join", "lock", "retire", "preflight", "controller"} \cup Cleaning
    /\ Stopping = {"granular", "shutdown", "mgranular", "mshutdown"}
    /\ Falling = {"fbMark", "fbDrop", "fbConnect", "fbGate"}
    /\ Failing = {"mundo", "mgranular", "mshutdown"}
    /\ Procs = {"front", "conn", "health", "lease"}
BY DEF Working, Cleaning, Stopping, Falling, Failing, LabelsOf, Procs

\* What the holder of the mutex may rely on, connect or disconnect.
LEMMA WorkFacts ==
    ASSUME IInv, NEW p \in {"conn", "front"}, pc[p] \in Working \cup Cleaning
    PROVE  /\ lock = p /\ ~slot /\ MonitorEnded /\ state # "Disconnected" /\ epoch # 0 /\ p \in Procs
           /\ routes # "retired" /\ ~receipt /\ pc["front"] # "controller" /\ gate # "Retired"
           /\ pc["front"] # "preflight"
           /\ Types /\ Positions /\ Mutex /\ Operations /\ Disconnecting /\ Routing /\ Carrying
           /\ OpOf(p) \in {0, epoch}
           /\ \A q \in Procs \ {p} : pc[q] \notin {"apply", "commit", "undo", "mundo"} \cup Stopping
<1>0. Types /\ Positions /\ Mutex /\ Operations /\ Disconnecting /\ Routing /\ Carrying /\ p \in Procs
    BY DEF IInv, Procs
<1>1. lock = p
    BY <1>0 DEF Mutex, Holds
<1>2. ~slot /\ MonitorEnded /\ state # "Disconnected" /\ epoch # 0
    BY <1>1 DEF IInv, Monitoring
<1>3. routes # "retired" /\ pc["front"] # "preflight"
    BY WorkLabels DEF IInv, Retirement
<1>4. ~receipt /\ pc["front"] # "controller" /\ gate # "Retired"
    BY <1>3 DEF IInv, Retirement
<1>5. OpOf(p) \in {0, epoch}
    <2>1. CASE p = "conn"
        BY <2>1 DEF OpOf
    <2>2. CASE p = "front"
        <3>1. pc["front"] \in Cleaning
            BY <1>0, <2>2, WorkLabels DEF Positions
        <3> QED BY <1>0, <2>2, <3>1 DEF OpOf, Disconnecting
    <2> QED BY <2>1, <2>2
<1> QED BY <1>0, <1>1, <1>2, <1>3, <1>4, <1>5, Alone

\* A step under the mutex: there is no monitor, and nobody else at the routes.
LEMMA WorkStep ==
    ASSUME IInv, NEW p \in {"conn", "front"}, pc[p] \in Working \cup Cleaning,
           NEW to \in LabelsOf[p], to \in Working \cup Cleaning \cup {"idle"}, Goto(p, to),
           UNCHANGED <<reserved, receipt, epoch, stopping, pinned, slot, bad>>, Types',
           lock' = (IF to = "idle" THEN "free" ELSE p),
           state' = state \/ state' \notin Connected,
           to # "idle" => state' # "Disconnected",
           active' \in {0, active}, sop' \in {0, epoch},
           gate' \in {gate, "RecoveryOnly"},
           routes' # "retired", Routing', carrier' \in 1..Carriers, carriers' \subseteq {carrier'},
           DisconnectedIsClean'
    PROVE  IInv'
<1>0. /\ lock = p /\ ~slot /\ MonitorEnded /\ state # "Disconnected" /\ epoch # 0 /\ p \in Procs
      /\ routes # "retired" /\ ~receipt /\ pc["front"] # "controller" /\ gate # "Retired"
      /\ pc["front"] # "preflight"
      /\ Types /\ Positions /\ Mutex /\ Operations /\ Disconnecting /\ Carrying
    BY WorkFacts
<1>1. Positions' /\ pc'[p] = to /\ \A q \in Procs \ {p} : pc'[q] = pc[q]
    BY <1>0, Moved
<1>2. pc'["health"] = "idle" /\ pc'["lease"] = "idle"
    BY <1>0, <1>1 DEF MonitorEnded, Procs
<1>3. to \notin {"spawned", "lock", "join", "preflight", "controller"}
    BY WorkLabels
<1>4. Mutex'
    <2>1. \A q \in Procs \ {p} : Holds(q)' <=> Holds(q)
        BY <1>1 DEF Holds
    <2>2. Holds(p)' <=> to # "idle"
        BY <1>1, WorkLabels DEF Holds
    <2>3. "free" \notin Procs
        BY DEF Procs
    <2> QED BY <1>0, <2>1, <2>2, <2>3 DEF Mutex
<1>5. Operations'
    <2>1. pc'["conn"] \in {"spawned", "lock"} => pc["conn"] \in {"spawned", "lock"} /\ p # "conn"
        BY <1>1, <1>3 DEF Procs
    <2>2. pc'["conn"] = "spawned" <=> pc["conn"] = "spawned"
        BY <1>1, <1>3, WorkLabels
    <2>3. reserved' = (pc'["conn"] = "spawned")
        BY <1>0, <2>2 DEF Operations
    <2>4. active' \in {0, epoch} /\ (pc'["conn"] \in {"spawned", "lock"} => active' = 0)
        BY <1>0, <2>1 DEF Operations
    <2> QED BY <1>0, <2>1, <2>3, <2>4 DEF Operations
<1>6. Disconnecting'
    <2>1. CASE p = "conn"
        <3>1. pc'["front"] = pc["front"] /\ pc'["conn"] = to
            BY <1>1, <2>1 DEF Procs
        <3> QED BY <1>0, <1>3, <3>1 DEF Disconnecting
    <2>2. CASE p = "front"
        <3>1. pc'["conn"] = pc["conn"] /\ pc'["front"] = to /\ pc["front"] \in Cleaning
            BY <1>1, <2>2, <1>0, WorkLabels DEF Positions
        <3> QED BY <1>0, <1>3, <3>1, WorkLabels DEF Disconnecting
    <2> QED BY <2>1, <2>2
<1>7. Monitoring'
    BY <1>0, <1>2 DEF Monitoring, MonitorEnded
<1>8. Retirement'
    <2>1. pc'["front"] \notin {"preflight", "controller"}
        BY <1>0, <1>1, <1>3 DEF Procs
    <2>2. gate' # "Retired" /\ ~receipt'
        BY <1>0
    <2> QED BY <2>1, <2>2 DEF Retirement
<1>9. Carrying'
    BY <1>0, <1>2 DEF Carrying, Sampling
<1>10. Keeping'
    <2>1. state' \in Connected => epoch \in stopping
        BY <1>0 DEF IInv, Keeping
    <2> QED BY <1>0, <1>2, <2>1 DEF Keeping, Failed, Failing
<1> QED BY <1>1, <1>4, <1>5, <1>6, <1>7, <1>8, <1>9, <1>10 DEF IInv

\* A step of connect_inner that keeps the status, or fails into the cleanup.
LEMMA ConnStep ==
    ASSUME IInv, pc["conn"] \in Working, NEW to \in Working \cup Cleaning, Goto("conn", to),
           UNCHANGED <<reserved, receipt, lock, epoch, active, stopping, pinned, slot, mcancel, bad,
                       bound, consumed>>,
           fail' \in [Procs -> Errors \cup {"none"}], transport' \in BOOLEAN, sop' \in {sop, epoch},
           side' \in {"Stopped", "Running", "Backoff", "CrashLoop"},
           state' \in {state, "PreparingTunnel", "ConnectingPrimary"},
           gate' \in {gate, "RecoveryOnly"}, child' \in BOOLEAN,
           routes' \in {"none", "held", "unknown"}, routesActive' \in BOOLEAN, Routing',
           carrier' \in 1..Carriers, carriers' \subseteq {carrier'}
    PROVE  IInv'
<1>0. lock = "conn" /\ state # "Disconnected" /\ Types /\ Operations /\ pc["conn"] \in Working \cup Cleaning
    BY WorkFacts
<1>1. to \in LabelsOf["conn"] /\ to # "idle"
    BY WorkLabels
<1>2. Types'
    <2>1. state' \in States /\ gate' \in {"Open", "Retiring", "RecoveryOnly", "Retired"}
        BY <1>0 DEF Types, States
    <2> QED BY <1>0, <2>1 DEF Types
<1>3. state' # "Disconnected" /\ (state' = state \/ state' \notin Connected)
    BY <1>0 DEF Connected
<1>4. sop' \in {0, epoch} /\ active' \in {0, active} /\ DisconnectedIsClean'
    BY <1>0, <1>3 DEF Operations, DisconnectedIsClean
<1> QED BY <1>0, <1>1, <1>2, <1>3, <1>4, WorkStep

\* The labels a failure leads to.
LEMMA ConnFailure ==
    ASSUME IInv, pc["conn"] \in Working, NEW e \in Errors, ConnFails(e)
    PROVE  /\ Goto("conn", CleanupLabel) /\ fail' \in [Procs -> Errors \cup {"none"}]
           /\ CleanupLabel \in Cleaning
<1>1. Types
    BY DEF IInv
<1> QED BY <1>1, FailureType, WorkLabels DEF ConnFails, CleanupLabel

\* A failure with the routes as they were.
LEMMA ConnFailureRoutes ==
    ASSUME IInv, pc["conn"] \in Working, NEW e \in Errors, ConnFails(e), UNCHANGED <<routes, routesActive>>
    PROVE  Routing' /\ routes' \in {"none", "held", "unknown"} /\ routesActive' \in BOOLEAN
<1>1. Types /\ Positions /\ Routing /\ routes # "retired"
    BY WorkFacts
<1>2. Goto("conn", CleanupLabel) /\ CleanupLabel \in Cleaning
    BY ConnFailure
<1>3. /\ CleanupLabel \in LabelsOf["conn"] /\ "conn" \in Procs
      /\ CleanupLabel \notin {"apply", "commit", "mundo"}
    BY <1>2, WorkLabels
<1>4. CleanupLabel = "undo" => routesActive
    BY DEF CleanupLabel
<1>5. CleanupLabel \in Stopping => ~routesActive /\ routes = "none"
    BY <1>1, WorkLabels DEF CleanupLabel, Routing
<1>6. Routing'
    BY <1>1, <1>2, <1>3, <1>4, <1>5, RoutingStep
<1> QED BY <1>1, <1>6 DEF Types

\* The step that follows a success, or the failure of an operation that is no
\* longer wanted.
LEMMA ConnContinuesCases ==
    ASSUME NEW label, ConnContinues(label)
    PROVE  \/ EnsureActive /\ Goto("conn", label) /\ UNCHANGED fail
           \/ ~EnsureActive /\ ConnFails("cancelled")
BY DEF ConnContinues

\* A request that leaves the routes, the gate and the status alone.
LEMMA ConnQuiet ==
    ASSUME IInv, pc["conn"] \in Working, NEW to \in Working,
           to \notin {"apply", "commit"},
           \/ Goto("conn", to) /\ UNCHANGED fail
           \/ \E e \in Errors : ConnFails(e),
           UNCHANGED <<admission, lock, operation, pinned, state, sop, transport, slot, mcancel, bad,
                       routesActive, start, routes>>,
           side' \in {side, "Running"}, child' \in BOOLEAN,
           carrier' \in 1..Carriers, carriers' \subseteq {carrier'}
    PROVE  IInv'
<1>0. Types /\ Positions /\ Routing /\ Operations /\ routes # "retired"
    BY WorkFacts
<1>1. UNCHANGED <<reserved, receipt, epoch, active, stopping, bound, consumed, gate>>
    BY DEF admission, operation, start
<1>2. /\ transport' \in BOOLEAN /\ side' \in {"Stopped", "Running", "Backoff", "CrashLoop"}
      /\ routes' \in {"none", "held", "unknown"} /\ routesActive' \in BOOLEAN
    BY <1>0 DEF Types
<1>3. CASE Goto("conn", to) /\ UNCHANGED fail
    <2>1. to \in LabelsOf["conn"] /\ "conn" \in Procs /\ to \notin Stopping \cup {"apply", "commit", "undo", "mundo"}
        BY WorkLabels
    <2>2. Routing'
        BY <1>0, <1>3, <2>1, RoutingStep
    <2>3. fail' \in [Procs -> Errors \cup {"none"}]
        BY <1>0, <1>3 DEF Types
    <2> QED BY <1>1, <1>2, <1>3, <2>2, <2>3, ConnStep
<1>4. ASSUME NEW e \in Errors, ConnFails(e) PROVE IInv'
    <2>1. Goto("conn", CleanupLabel) /\ fail' \in [Procs -> Errors \cup {"none"}] /\ CleanupLabel \in Cleaning
        BY <1>4, ConnFailure
    <2>2. Routing'
        BY <1>4, ConnFailureRoutes
    <2> QED BY <1>1, <1>2, <2>1, <2>2, ConnStep
<1> QED BY <1>3, <1>4

LEMMA ConnStartKeeps == ASSUME IInv, ConnStart PROVE IInv'
<1>0. /\ pc["conn"] = "start" /\ pc["conn"] \in Working
      /\ UNCHANGED <<admission, lock, operation, pinned, state, sop, transport, monitor, routesActive,
                     start, routes, carriers>>
    BY WorkLabels DEF ConnStart
<1>1. Types /\ Carrying
    BY DEF IInv
<1>2. /\ UNCHANGED <<slot, mcancel, bad>> /\ carrier' \in 1..Carriers /\ carriers' \subseteq {carrier'}
    BY <1>0, <1>1 DEF monitor, Carrying
<1>3. child' \in BOOLEAN /\ side' \in {side, "Running"}
    BY <1>1 DEF ConnStart, Types
<1>4. \/ Goto("conn", "profile") /\ UNCHANGED fail
      \/ \E e \in Errors : ConnFails(e)
    BY ConnContinuesCases DEF ConnStart, Errors
<1> QED BY <1>0, <1>2, <1>3, <1>4, WorkLabels, ConnQuiet

LEMMA ConnRequestKeeps ==
    ASSUME IInv, NEW label \in Working, NEW next \in Working, next \notin {"apply", "commit"},
           ConnRequest(label, next)
    PROVE  IInv'
<1>0. /\ pc["conn"] \in Working
      /\ UNCHANGED <<admission, lock, operation, pinned, status, monitor, routesActive, start>>
    BY DEF ConnRequest
<1>1. Types /\ Carrying
    BY DEF IInv
<1>2. routes' = routes /\ child' \in BOOLEAN /\ carriers' \in {carriers, {}}
    BY <1>1, RequestFacts DEF ConnRequest, outside, Types
<1>3. /\ UNCHANGED <<slot, mcancel, bad, state, sop, transport>> /\ side' \in {side, "Running"}
      /\ carrier' \in 1..Carriers /\ carriers' \subseteq {carrier'}
    BY <1>0, <1>1, <1>2 DEF monitor, status, Carrying
<1>4. \/ Goto("conn", next) /\ UNCHANGED fail
      \/ \E e \in Errors : ConnFails(e)
    BY ConnContinuesCases DEF ConnRequest, Errors
<1> QED BY <1>0, <1>2, <1>3, <1>4, ConnQuiet

LEMMA ConnSetStatusKeeps == ASSUME IInv, ConnSetStatus PROVE IInv'
<1>0. /\ pc["conn"] \in Working /\ sop' = epoch /\ transport' = FALSE
      /\ state' \in {"PreparingTunnel", "ConnectingPrimary"}
      /\ UNCHANGED <<admission, lock, fail, operation, pinned, side, monitor, routesActive, start,
                     outside>>
    BY WorkLabels DEF ConnSetStatus
<1>1. PICK to \in Working : Goto("conn", to) /\ to \notin {"apply", "commit"}
    BY WorkLabels DEF ConnSetStatus
<1>2. Types /\ Positions /\ Routing /\ Carrying /\ routes # "retired" /\ "conn" \in Procs
    BY <1>0, WorkFacts
<1>3. to \in LabelsOf["conn"] /\ to \notin Stopping \cup {"undo", "mundo"}
    BY WorkLabels
<1>4. Routing'
    BY <1>0, <1>1, <1>2, <1>3, RoutingStep DEF outside
<1>5. carrier' \in 1..Carriers /\ carriers' \subseteq {carrier'}
    BY <1>0, <1>2 DEF monitor, outside, Carrying
<1>6. /\ fail' \in [Procs -> Errors \cup {"none"}] /\ transport' \in BOOLEAN /\ child' \in BOOLEAN
      /\ side' \in {"Stopped", "Running", "Backoff", "CrashLoop"}
      /\ routes' \in {"none", "held", "unknown"} /\ routesActive' \in BOOLEAN
    BY <1>0, <1>2 DEF Types, outside
<1>7. UNCHANGED <<reserved, receipt, gate, lock, epoch, active, stopping, pinned, slot, mcancel, bad,
                  bound, consumed>>
    BY <1>0 DEF admission, operation, monitor, start
<1> QED BY <1>0, <1>1, <1>4, <1>5, <1>6, <1>7, ConnStep

LEMMA ConnCarrierKeeps == ASSUME IInv, ConnCarrier PROVE IInv'
<1>0. /\ pc["conn"] \in Working
      /\ UNCHANGED <<admission, lock, operation, pinned, status, monitor, routesActive, start>>
    BY WorkLabels DEF ConnCarrier
<1>1. Types /\ Carrying
    BY DEF IInv
<1>2. routes' = routes /\ child' \in BOOLEAN /\ carriers' \subseteq carriers \cup {carrier}
    BY <1>1, ConnectFacts DEF ConnCarrier, Types
<1>3. /\ UNCHANGED <<slot, mcancel, bad, state, sop, transport>> /\ side' \in {side, "Running"}
      /\ carrier' \in 1..Carriers /\ carriers' \subseteq {carrier'}
    BY <1>0, <1>1, <1>2 DEF monitor, status, Carrying
<1>4. \/ Goto("conn", "snapshot") /\ UNCHANGED fail
      \/ Goto("conn", "drop") /\ UNCHANGED fail
      \/ \E e \in Errors : ConnFails(e)
    BY ConnContinuesCases DEF ConnCarrier, Errors
<1>5. "snapshot" \in Working /\ "drop" \in Working
    BY WorkLabels
<1> QED BY <1>0, <1>2, <1>3, <1>4, <1>5, ConnQuiet

LEMMA ConnDropKeeps == ASSUME IInv, ConnDrop PROVE IInv'
<1>0. /\ pc["conn"] \in Working
      /\ UNCHANGED <<admission, lock, operation, pinned, status, slot, mcancel, bad, routesActive, start>>
    BY WorkLabels DEF ConnDrop
<1>1. Types /\ Carrying
    BY DEF IInv
<1>2. routes' = routes /\ child' \in BOOLEAN
    BY <1>1, RequestFacts DEF ConnDrop, Types
<1>3. carrier' \in 1..Carriers /\ carriers' \subseteq {carrier'}
    <2>1. CASE carriers' = {}
        BY <1>1, <2>1, CarriersAssumption DEF ConnDrop, Carrying
    <2>2. CASE carriers' # {}
        <3>1. carriers' \in {carriers, {}} /\ carrier' = carrier
            BY <1>1, <2>2, RequestFacts DEF ConnDrop
        <3> QED BY <1>1, <3>1 DEF Carrying
    <2> QED BY <2>1, <2>2
<1>4. \/ Goto("conn", "carrier") /\ UNCHANGED fail
      \/ \E e \in Errors : ConnFails(e)
    BY DEF ConnDrop, Errors
<1>5. UNCHANGED <<state, sop, transport>> /\ side' \in {side, "Running"} /\ "carrier" \in Working
    BY <1>0, WorkLabels DEF status
<1> QED BY <1>0, <1>2, <1>3, <1>4, <1>5, ConnQuiet

\* The holder of the mutex may change the routes: nobody else relies on them.
LEMMA WorkRouting ==
    ASSUME IInv, NEW p \in {"conn", "front"}, pc[p] \in Working \cup Cleaning,
           NEW to \in LabelsOf[p], Goto(p, to), ~routesActive' => routes' = "none",
           to \in {"apply", "commit", "undo", "mundo"} => routesActive',
           to = "commit" => routes' = "held",
           to \in Stopping => ~routesActive' /\ routes' = "none"
    PROVE  Routing'
<1>1. /\ Positions /\ p \in Procs
      /\ \A q \in Procs \ {p} : pc[q] \notin {"apply", "commit", "undo", "mundo"} \cup Stopping
    BY WorkFacts
<1>2. pc'[p] = to /\ \A q \in Procs \ {p} : pc'[q] = pc[q]
    BY <1>1, Moved
<1>3. "conn" \in Procs
    BY DEF Procs
<1>4. pc'["conn"] \in {"apply", "commit"} => routesActive'
    BY <1>1, <1>2, <1>3
<1>5. pc'["conn"] = "commit" => routes' = "held"
    BY <1>1, <1>2, <1>3
<1>6. \A q \in Procs : /\ pc'[q] \in {"undo", "mundo"} => routesActive'
                       /\ pc'[q] \in Stopping => ~routesActive' /\ routes' = "none"
    BY <1>1, <1>2
<1> QED BY <1>4, <1>5, <1>6 DEF Routing

LEMMA ConnSnapshotKeeps == ASSUME IInv, ConnSnapshot PROVE IInv'
<1>0. /\ pc["conn"] = "snapshot" /\ pc["conn"] \in Working
      /\ UNCHANGED <<admission, lock, operation, pinned, status, monitor, start, outside>>
    BY WorkLabels DEF ConnSnapshot
<1>1. Types /\ Carrying /\ routes # "retired"
    BY <1>0, WorkFacts
<1>2. /\ UNCHANGED <<slot, mcancel, bad, state, sop, transport, routes>> /\ side' \in {side, "Running"}
      /\ carrier' \in 1..Carriers /\ carriers' \subseteq {carrier'} /\ child' \in BOOLEAN
    BY <1>0, <1>1 DEF monitor, status, outside, Types, Carrying
<1>3. CASE routesActive' = TRUE
    <2>1. PICK to \in {"apply", "undo"} :
             Goto("conn", to) /\ fail' \in [Procs -> Errors \cup {"none"}]
        <3>1. CASE EnsureActive /\ AdmitsRouteTask /\ Goto("conn", "apply") /\ UNCHANGED fail
            BY <1>1, <3>1 DEF Types
        <3>2. CASE EnsureActive /\ Goto("conn", "undo") /\ fail' = [fail EXCEPT !["conn"] = "other"]
            BY <1>1, <3>2 DEF Types, Errors
        <3>3. ASSUME NEW e \in Errors, ConnFails(e), routesActive' = routesActive
              PROVE  Goto("conn", "undo") /\ fail' \in [Procs -> Errors \cup {"none"}]
            BY <1>0, <1>3, <3>3, ConnFailure DEF CleanupLabel
        <3>4. "cancelled" \in Errors /\ "fatal" \in Errors /\ "other" \in Errors
            BY DEF Errors
        <3> QED BY <3>1, <3>2, <3>3, <3>4 DEF ConnSnapshot
    <2>2. /\ to \in LabelsOf["conn"] /\ to \in Working \cup Cleaning /\ to \notin Stopping
          /\ to # "commit"
        BY WorkLabels
    <2>3. Routing'
        BY <1>0, <1>3, <2>1, <2>2, WorkRouting
    <2>4. UNCHANGED <<reserved, receipt, gate, epoch, active, stopping, bound, consumed>>
        BY <1>0 DEF admission, operation, start
    <2>5. routes' \in {"none", "held", "unknown"} /\ transport' \in BOOLEAN
          /\ side' \in {"Stopped", "Running", "Backoff", "CrashLoop"}
        BY <1>1, <1>2 DEF Types
    <2> QED BY <1>0, <1>2, <1>3, <2>1, <2>2, <2>3, <2>4, <2>5, ConnStep
<1>4. CASE routesActive' # TRUE
    <2>1. routesActive' = routesActive /\ \E e \in Errors : ConnFails(e)
        BY <1>4 DEF ConnSnapshot, Errors
    <2>2. "snapshot" \in Working
        BY WorkLabels
    <2> QED BY <1>0, <1>2, <2>1, <2>2, ConnQuiet
<1> QED BY <1>3, <1>4

LEMMA ConnApplyKeeps == ASSUME IInv, ConnApply PROVE IInv'
<1>0. /\ pc["conn"] = "apply" /\ pc["conn"] \in Working
      /\ UNCHANGED <<reserved, receipt, lock, operation, pinned, status, monitor, routesActive, start,
                     child, carriers>>
    BY WorkLabels DEF ConnApply
<1>1. Types /\ Carrying /\ routes # "retired" /\ routesActive
    BY <1>0, WorkFacts DEF Routing
<1>2. /\ gate' \in {gate, "RecoveryOnly"} /\ routes' \in {"none", "held", "unknown"}
    BY DEF ConnApply, GateAfterCall
<1>3. /\ UNCHANGED <<slot, mcancel, bad, state, sop, transport, side, epoch, active, stopping, bound,
                     consumed>>
      /\ carrier' \in 1..Carriers /\ carriers' \subseteq {carrier'} /\ child' \in BOOLEAN
      /\ transport' \in BOOLEAN /\ side' \in {"Stopped", "Running", "Backoff", "CrashLoop"}
      /\ routesActive' \in BOOLEAN /\ routesActive'
    BY <1>0, <1>1 DEF monitor, status, operation, start, Types, Carrying
<1>4. ASSUME NEW e \in Errors, ConnFails(e)
      PROVE  Goto("conn", "undo") /\ fail' \in [Procs -> Errors \cup {"none"}]
    BY <1>0, <1>1, <1>4, ConnFailure DEF CleanupLabel
<1>5. "cancelled" \in Errors /\ "fatal" \in Errors /\ "other" \in Errors
    BY DEF Errors
<1>6. PICK to \in {"commit", "undo"} :
         /\ Goto("conn", to) /\ fail' \in [Procs -> Errors \cup {"none"}]
         /\ to = "commit" => routes' = "held"
    <2>1. CASE routes' = "held" /\ EnsureActive /\ Goto("conn", "commit") /\ UNCHANGED fail
        BY <1>1, <2>1 DEF Types
    <2> QED BY <1>4, <1>5, <2>1, ConnContinuesCases DEF ConnApply
<1>7. to \in LabelsOf["conn"] /\ to \in Working \cup Cleaning /\ to \notin Stopping
    BY WorkLabels
<1>8. Routing'
    BY <1>0, <1>3, <1>6, <1>7, WorkRouting
<1> QED BY <1>0, <1>2, <1>3, <1>6, <1>7, <1>8, ConnStep

\* The publication: the monitor starts, the mutex is released, and nobody has
\* asked for the end of the operation.
LEMMA ConnPublishKeeps ==
    ASSUME IInv, ConnCommit, EnsureActive, StartHeartbeat, lock' = "free",
           state' = IF carrier = 1 THEN "ConnectedPrimary" ELSE "DegradedFallback",
           transport' = TRUE, UNCHANGED fail,
           pc' = [pc EXCEPT !["conn"] = "idle", !["health"] = "sleep", !["lease"] = "sleep"]
    PROVE  IInv'
<1>0. /\ pc["conn"] = "commit" /\ pc["conn"] \in Working
      /\ UNCHANGED <<admission, operation, pinned, sop, side, carrier, routesActive, start, outside>>
    BY WorkLabels DEF ConnCommit
<1>1. /\ lock = "conn" /\ ~slot /\ MonitorEnded /\ routes # "retired" /\ ~receipt
      /\ pc["front"] # "controller" /\ gate # "Retired" /\ pc["front"] # "preflight"
      /\ Types /\ Positions /\ Mutex /\ Operations /\ Disconnecting /\ Routing /\ Carrying
    BY <1>0, WorkFacts
<1>2. /\ UNCHANGED <<gate, reserved, receipt, epoch, active, stopping, bound, consumed, routes, child,
                     carriers>>
      /\ slot' = TRUE /\ mcancel' = FALSE /\ bad' = 0
    BY <1>0 DEF admission, operation, start, outside, StartHeartbeat
<1>3. /\ pc'["conn"] = "idle" /\ pc'["health"] = "sleep" /\ pc'["lease"] = "sleep"
      /\ pc'["front"] = pc["front"] /\ Positions'
    BY <1>1 DEF Positions, Procs, LabelsOf, Labels, Working, Cleaning, Sampling, Falling, Failing
<1>4. epoch \notin stopping /\ active = epoch /\ sop = epoch
    BY DEF EnsureActive
<1>5. epoch # 0
    BY <1>0, WorkFacts
<1>6. routes = "held" /\ routesActive
    BY <1>0, <1>1 DEF Routing
<1>7. state' \in Connected /\ state' # "Disconnected"
    BY DEF Connected
<1>8. Types'
    BY <1>0, <1>1, <1>2, <1>7 DEF Types, States
<1>9. Mutex'
    <2>1. \A q \in Procs : ~Holds(q)'
        <3>1. ~Holds("front")
            BY <1>1 DEF Mutex, Procs
        <3>2. pc'["front"] \notin Working \cup Cleaning \cup Falling \cup Failing
            BY <1>3, <3>1 DEF Holds
        <3> QED BY <1>3, <3>2 DEF Holds, Procs, Working, Cleaning, Falling, Failing
    <2> QED BY <2>1 DEF Mutex, Procs
<1>10. Operations'
    BY <1>0, <1>1, <1>2, <1>3 DEF Operations
<1>11. Disconnecting'
    <2>1. ~(pinned # 0 /\ pc["front"] \in {"join", "lock"} \cup Cleaning)
        BY <1>1, <1>4 DEF Disconnecting
    <2> QED BY <1>0, <1>1, <1>3, <2>1 DEF Disconnecting
<1>12. Monitoring'
    BY <1>2, <1>5 DEF Monitoring
<1>13. Routing'
    <2>1. \A q \in Procs : pc'[q] \notin {"undo", "mundo"} \cup Stopping
        <3>1. pc["front"] \notin {"undo", "mundo"} \cup Stopping
            BY <1>1, Alone DEF Procs
        <3> QED BY <1>3, <3>1 DEF Procs, Stopping
    <2> QED BY <1>0, <1>2, <1>3, <1>6, <2>1 DEF Routing
<1>14. Retirement'
    BY <1>1, <1>2, <1>3 DEF Retirement
<1>15. Carrying'
    <2>1. 0 < Threshold /\ 0 \in 0..Threshold
        BY ThresholdAssumption
    <2> QED BY <1>0, <1>1, <1>2, <2>1 DEF Carrying
<1>16. Keeping'
    BY <1>0, <1>2, <1>3, <1>4, <1>6, <1>7 DEF Keeping, Failed, Failing
<1>17. DisconnectedIsClean'
    BY <1>7 DEF DisconnectedIsClean
<1> QED BY <1>3, <1>8, <1>9, <1>10, <1>11, <1>12, <1>13, <1>14, <1>15, <1>16, <1>17 DEF IInv

LEMMA ConnCommitKeeps == ASSUME IInv, ConnCommit PROVE IInv'
<1>1. CASE EnsureActive /\ StartHeartbeat /\ lock' = "free" /\ transport' = TRUE /\ UNCHANGED fail
           /\ state' = (IF carrier = 1 THEN "ConnectedPrimary" ELSE "DegradedFallback")
           /\ pc' = [pc EXCEPT !["conn"] = "idle", !["health"] = "sleep", !["lease"] = "sleep"]
    BY <1>1, ConnPublishKeeps
<1>2. CASE /\ ConnFails("cancelled")
           /\ UNCHANGED <<slot, mcancel, bad, state, transport, lock>>
    <2>1. pc["conn"] \in Working /\ "snapshot" \in Working
        BY WorkLabels DEF ConnCommit
    <2>2. Types /\ Carrying
        BY DEF IInv
    <2>3. UNCHANGED <<admission, operation, pinned, sop, side, carrier, routesActive, start, outside>>
        BY DEF ConnCommit
    <2>4. /\ carrier' \in 1..Carriers /\ carriers' \subseteq {carrier'} /\ child' \in BOOLEAN
          /\ routes' = routes /\ side' \in {side, "Running"}
        BY <2>2, <2>3 DEF outside, Types, Carrying
    <2>5. \E e \in Errors : ConnFails(e)
        BY <1>2 DEF Errors
    <2> QED BY <1>2, <2>1, <2>3, <2>4, <2>5, ConnQuiet
<1> QED BY <1>1, <1>2 DEF ConnCommit

LEMMA CleanupUndoKeeps ==
    ASSUME IInv, NEW p \in {"conn", "front"}, CleanupUndo(p) PROVE IInv'
<1>0. /\ pc[p] = "undo" /\ pc[p] \in Working \cup Cleaning
      /\ UNCHANGED <<reserved, receipt, fail, operation, pinned, monitor, start, child, carriers>>
    BY WorkLabels DEF CleanupUndo
<1>1. /\ lock = p /\ ~slot /\ state # "Disconnected" /\ p \in Procs /\ routes # "retired"
      /\ Types /\ Positions /\ Operations /\ Routing /\ Carrying /\ OpOf(p) \in {0, epoch}
    BY <1>0, WorkFacts
<1>2. /\ UNCHANGED <<epoch, active, stopping, slot, mcancel, bad, carrier, bound, consumed>>
      /\ carrier' \in 1..Carriers /\ carriers' \subseteq {carrier'} /\ routesActive
    BY <1>0, <1>1 DEF operation, monitor, start, Carrying, Routing
<1>3. "idle" \in LabelsOf[p] /\ "granular" \in LabelsOf[p] /\ "granular" \in Cleaning /\ "granular" \in Stopping
    BY WorkLabels
<1>4. CASE /\ routes' = "none" /\ routesActive' = FALSE /\ Goto(p, "granular")
           /\ UNCHANGED <<gate, status, lock>>
    <2>1. Routing'
        BY <1>0, <1>3, <1>4, WorkRouting
    <2>2. UNCHANGED <<state, sop, transport, side>>
        BY <1>4 DEF status
    <2>3. Types'
        BY <1>0, <1>1, <1>2, <1>4, <2>2 DEF Types
    <2>4. DisconnectedIsClean' /\ sop' \in {0, epoch} /\ "granular" # "idle"
        BY <1>1, <2>2 DEF DisconnectedIsClean, Operations
    <2> QED BY <1>0, <1>1, <1>2, <1>3, <1>4, <2>1, <2>2, <2>3, <2>4, WorkStep
<1>5. CASE /\ CleanupFailed(p) /\ UNCHANGED <<side, routesActive>>
           /\ gate' \in {gate, "RecoveryOnly"} /\ routes' \in {routes, "unknown"}
    <2>1. /\ state' = "Error" /\ sop' = OpOf(p) /\ transport' = FALSE /\ lock' = "free"
          /\ Goto(p, "idle")
        BY <1>5 DEF CleanupFailed
    <2>2. "idle" \notin Stopping \cup {"apply", "commit", "undo", "mundo"}
        BY DEF Stopping
    <2>3. Routing'
        BY <1>0, <1>2, <1>3, <1>5, <2>1, <2>2, WorkRouting
    <2>4. /\ gate' \in {"Open", "Retiring", "RecoveryOnly", "Retired"}
          /\ routes' \in {"none", "held", "unknown", "retired"} /\ routes' # "retired"
          /\ "Error" \in States /\ "Error" \notin Connected
        BY <1>1, <1>5 DEF Types, States, Connected
    <2>5. Types'
        BY <1>0, <1>1, <1>2, <1>5, <2>1, <2>4 DEF Types
    <2>6. DisconnectedIsClean'
        BY <2>1 DEF DisconnectedIsClean
    <2> QED BY <1>0, <1>1, <1>2, <1>3, <1>5, <2>1, <2>3, <2>4, <2>5, <2>6, WorkStep
<1> QED BY <1>4, <1>5 DEF CleanupUndo

LEMMA CleanupGranularKeeps ==
    ASSUME IInv, NEW p \in {"conn", "front"}, CleanupGranular(p) PROVE IInv'
<1>0. /\ pc[p] = "granular" /\ pc[p] \in Working \cup Cleaning /\ Goto(p, "shutdown")
      /\ carriers' \in {carriers, {}}
      /\ UNCHANGED <<admission, lock, fail, operation, pinned, status, monitor, routesActive, start,
                     routes, child>>
    BY WorkLabels DEF CleanupGranular
<1>1. /\ lock = p /\ state # "Disconnected" /\ p \in Procs /\ routes # "retired"
      /\ Types /\ Positions /\ Operations /\ Routing /\ Carrying
    BY <1>0, WorkFacts
<1>2. ~routesActive /\ routes = "none"
    BY <1>0, <1>1 DEF Routing, Stopping
<1>3. /\ "shutdown" \in LabelsOf[p] /\ "shutdown" \in Cleaning /\ "shutdown" # "idle"
      /\ "shutdown" \notin {"apply", "commit", "undo", "mundo"}
    BY WorkLabels
<1>4. Routing'
    BY <1>0, <1>1, <1>2, <1>3, RoutingStep
<1>5. /\ UNCHANGED <<gate, reserved, receipt, epoch, active, stopping, slot, mcancel, bad, carrier,
                     bound, consumed, state, sop, transport, side>>
      /\ carrier' \in 1..Carriers /\ carriers' \subseteq {carrier'}
    BY <1>0, <1>1 DEF admission, operation, status, monitor, start, Carrying
<1>6. Types'
    BY <1>0, <1>1, <1>5 DEF Types
<1>7. DisconnectedIsClean' /\ sop' \in {0, epoch}
    BY <1>1, <1>5 DEF DisconnectedIsClean, Operations
<1> QED BY <1>0, <1>1, <1>3, <1>4, <1>5, <1>6, <1>7, WorkStep

LEMMA CleanupShutdownKeeps ==
    ASSUME IInv, NEW p \in {"conn", "front"}, CleanupShutdown(p) PROVE IInv'
<1>0. /\ pc[p] = "shutdown" /\ pc[p] \in Working \cup Cleaning
      /\ Goto(p, "idle") /\ transport' = FALSE /\ lock' = "free"
      /\ side' \in {"Stopped", "CrashLoop"} /\ active' \in {0, active}
      /\ UNCHANGED <<admission, fail, epoch, stopping, pinned, monitor, routesActive, start>>
      /\ ShutdownOk \/ ShutdownFails
    BY WorkLabels DEF CleanupShutdown, CleanupDone, CleanupFailed
<1>1. /\ lock = p /\ ~slot /\ p \in Procs /\ routes # "retired"
      /\ Types /\ Positions /\ Operations /\ Routing /\ Carrying /\ OpOf(p) \in {0, epoch}
    BY <1>0, WorkFacts
<1>2. child' \in BOOLEAN /\ routes' = routes /\ carriers' \in {carriers, {}}
    BY <1>0, <1>1, ShutdownFacts
<1>3. /\ "idle" \in LabelsOf[p] /\ "idle" \notin Stopping \cup {"apply", "commit", "undo", "mundo"}
    BY WorkLabels
<1>4. Routing'
    BY <1>0, <1>1, <1>2, <1>3, RoutingStep
<1>5. /\ UNCHANGED <<gate, reserved, receipt, slot, mcancel, bad, carrier, bound, consumed>>
      /\ carrier' \in 1..Carriers /\ carriers' \subseteq {carrier'}
    BY <1>0, <1>1, <1>2 DEF admission, monitor, start, Carrying
<1>6. /\ state' \in {"Disconnected", "Error"} /\ sop' \in {0, epoch}
      /\ state' \in States /\ state' \notin Connected
    BY <1>1 DEF CleanupShutdown, CleanupDone, CleanupFailed, States, Connected
<1>7. Types'
    BY <1>0, <1>1, <1>2, <1>5, <1>6 DEF Types
<1>8. DisconnectedIsClean'
    <2>1. ~routesActive /\ routes = "none"
        BY <1>0, <1>1 DEF Routing, Stopping
    <2>2. state' = "Disconnected" => ShutdownOk
        BY DEF CleanupShutdown, CleanupFailed
    <2> QED BY <1>0, <1>1, <1>2, <1>5, <2>1, <2>2 DEF DisconnectedIsClean, ShutdownOk
<1> QED BY <1>0, <1>1, <1>2, <1>3, <1>4, <1>5, <1>6, <1>7, <1>8, WorkStep

LEMMA CleanupKeeps ==
    ASSUME IInv, NEW p \in {"conn", "front"},
           CleanupUndo(p) \/ CleanupGranular(p) \/ CleanupShutdown(p)
    PROVE  IInv'
BY CleanupUndoKeeps, CleanupGranularKeeps, CleanupShutdownKeeps
-----------------------------------------------------------------------------
(* The commands, and the steps that do not hold the mutex *)

\* What a step of connect or disconnect without the mutex leaves alone.
LEMMA QuietFacts ==
    ASSUME IInv, NEW p \in {"conn", "front"}, NEW to \in LabelsOf[p], Goto(p, to),
           to \notin Working \cup Cleaning
    PROVE  /\ Positions' /\ pc'[p] = to /\ \A q \in Procs \ {p} : pc'[q] = pc[q]
           /\ pc'["health"] = pc["health"] /\ pc'["lease"] = pc["lease"]
           /\ RouteTask' = RouteTask /\ MonitorEnded' = MonitorEnded
           /\ UNCHANGED <<routes, routesActive>> => Routing'
           /\ UNCHANGED <<epoch, active, stopping, sop, slot, mcancel, state, routes>> => Keeping'
           /\ UNCHANGED <<state, routes, routesActive, carriers, slot, child, bound, consumed>>
                => DisconnectedIsClean'
           /\ UNCHANGED <<slot, epoch, lock, state>> => Monitoring'
<1>0. Positions /\ Routing /\ Keeping /\ DisconnectedIsClean /\ Monitoring /\ p \in Procs
    BY DEF IInv, Procs
<1>1. Positions' /\ pc'[p] = to /\ \A q \in Procs \ {p} : pc'[q] = pc[q]
    BY <1>0, Moved
<1>2. pc'["health"] = pc["health"] /\ pc'["lease"] = pc["lease"]
    BY <1>1 DEF Procs
<1>3. RouteTask' = RouteTask /\ MonitorEnded' = MonitorEnded
    BY <1>2 DEF RouteTask, MonitorEnded
<1>4. to \notin Stopping \cup {"apply", "commit", "undo", "mundo"}
    BY WorkLabels
<1>5. ASSUME UNCHANGED <<routes, routesActive>> PROVE Routing'
    BY <1>0, <1>4, <1>5, RoutingStep
<1>6. ASSUME UNCHANGED <<epoch, active, stopping, sop, slot, mcancel, state, routes>> PROVE Keeping'
    BY <1>0, <1>2, <1>6 DEF Keeping
<1>7. ASSUME UNCHANGED <<state, routes, routesActive, carriers, slot, child, bound, consumed>>
      PROVE  DisconnectedIsClean'
    BY <1>0, <1>7 DEF DisconnectedIsClean
<1>8. ASSUME UNCHANGED <<slot, epoch, lock, state>> PROVE Monitoring'
    BY <1>0, <1>3, <1>8 DEF Monitoring
<1> QED BY <1>1, <1>2, <1>3, <1>5, <1>6, <1>7, <1>8

LEMMA QuietStep ==
    ASSUME IInv, NEW p \in {"conn", "front"}, NEW to \in LabelsOf[p], Goto(p, to),
           pc[p] \notin Working \cup Cleaning, to \notin Working \cup Cleaning,
           UNCHANGED <<lock, fail, sop, transport, side, carrier, bad, routesActive, bound, consumed>>,
           gate' \in {"Open", "Retiring", "RecoveryOnly", "Retired"}, reserved' \in BOOLEAN,
           receipt' \in BOOLEAN, state' \in States, slot' \in BOOLEAN, mcancel' \in BOOLEAN,
           routes' \in {"none", "held", "unknown", "retired"}, child' \in BOOLEAN,
           carriers' \subseteq carriers,
           Operations', Disconnecting', Monitoring', Routing', Retirement', Keeping',
           DisconnectedIsClean'
    PROVE  IInv'
<1>0. Types /\ Mutex /\ Carrying /\ p \in Procs /\ Positions
    BY DEF IInv, Procs
<1>1. /\ Positions' /\ pc'[p] = to /\ pc'["health"] = pc["health"]
      /\ \A q \in Procs \ {p} : pc'[q] = pc[q]
    BY QuietFacts
<1>2. Types'
    BY <1>0 DEF Types
<1>3. Mutex'
    <2>1. \A q \in Procs \ {p} : Holds(q)' <=> Holds(q)
        BY <1>1 DEF Holds
    <2>2. ~Holds(p) /\ ~Holds(p)'
        BY <1>0, <1>1, WorkLabels DEF Holds, Positions
    <2> QED BY <1>0, <2>1, <2>2 DEF Mutex
<1>4. Carrying'
    BY <1>0, <1>1 DEF Carrying
<1> QED BY <1>1, <1>2, <1>3, <1>4 DEF IInv

LEMMA ReserveKeeps == ASSUME IInv, Reserve PROVE IInv'
<1>0. /\ pc["front"] = "idle" /\ pc["conn"] = "idle" /\ epoch < MaxOps /\ active = 0
      /\ gate = "Open" /\ reserved' = TRUE /\ Goto("conn", "spawned")
      /\ UNCHANGED <<gate, receipt, lock, fail, operation, pinned, status, monitor, routesActive,
                     start, outside>>
    BY DEF Reserve, IssueReservation
<1>1. UNCHANGED <<epoch, active, stopping, state, sop, transport, side, slot, mcancel, carrier, bad,
                  bound, consumed, routes, child, carriers>>
    BY <1>0 DEF operation, status, monitor, start, outside
<1>2. Types /\ Operations /\ Disconnecting /\ Retirement
    BY DEF IInv
<1>3. /\ "spawned" \in LabelsOf["conn"] /\ "spawned" \notin Working \cup Cleaning
      /\ "idle" \notin Working \cup Cleaning
    BY WorkLabels
<1>4. /\ pc'["conn"] = "spawned" /\ \A q \in Procs \ {"conn"} : pc'[q] = pc[q]
      /\ Routing' /\ Keeping' /\ DisconnectedIsClean' /\ Monitoring'
    BY <1>0, <1>1, <1>3, QuietFacts
<1>5. pc'["front"] = "idle"
    BY <1>0, <1>4 DEF Procs
<1>6. Operations'
    BY <1>0, <1>1, <1>2, <1>4 DEF Operations
<1>7. Disconnecting'
    BY <1>5, WorkLabels DEF Disconnecting
<1>8. Retirement'
    BY <1>0, <1>1, <1>2, <1>5 DEF Retirement
<1> QED BY <1>0, <1>1, <1>2, <1>3, <1>4, <1>6, <1>7, <1>8, QuietStep DEF Types

LEMMA ConnBeginKeeps == ASSUME IInv, ConnBegin PROVE IInv'
<1>0. /\ pc["conn"] = "spawned" /\ reserved' = FALSE
      /\ UNCHANGED <<gate, receipt, lock, fail, operation, pinned, status, monitor, routesActive,
                     start, outside>>
    BY DEF ConnBegin, ConsumeReservation
<1>1. UNCHANGED <<epoch, active, stopping, state, sop, transport, side, slot, mcancel, carrier, bad,
                  bound, consumed, routes, child, carriers>>
    BY <1>0 DEF operation, status, monitor, start, outside
<1>2. Types /\ Operations /\ Disconnecting /\ Retirement
    BY DEF IInv
<1>3. PICK to \in {"lock", "idle"} : Goto("conn", to)
    BY DEF ConnBegin
<1>4. to \in LabelsOf["conn"] /\ to \notin Working \cup Cleaning /\ "spawned" \notin Working \cup Cleaning
    BY WorkLabels
<1>5. /\ pc'["conn"] = to /\ \A q \in Procs \ {"conn"} : pc'[q] = pc[q]
      /\ Routing' /\ Keeping' /\ DisconnectedIsClean' /\ Monitoring'
    BY <1>0, <1>1, <1>3, <1>4, QuietFacts
<1>6. pc'["front"] = pc["front"]
    BY <1>5 DEF Procs
<1>7. Operations'
    BY <1>0, <1>1, <1>2, <1>5 DEF Operations
<1>8. Disconnecting'
    BY <1>0, <1>1, <1>2, <1>6 DEF Disconnecting
<1>9. Retirement'
    BY <1>0, <1>1, <1>2, <1>6 DEF Retirement
<1> QED BY <1>0, <1>1, <1>2, <1>3, <1>4, <1>5, <1>7, <1>8, <1>9, QuietStep DEF Types

\* A new operation: the service was shown as Disconnected, so nothing is left
\* of an earlier one, and nobody has asked for the end of this one.
LEMMA ConnLockKeeps == ASSUME IInv, ConnLock PROVE IInv'
<1>0. /\ pc["conn"] = "lock" /\ lock = "free" /\ state = "Disconnected" /\ lock' = "conn"
      /\ epoch' = epoch + 1 /\ active' = epoch' /\ sop' = epoch'
      /\ state' = "Authenticating" /\ transport' = FALSE /\ consumed' = bound /\ carrier' = 1
      /\ Goto("conn", "start")
      /\ UNCHANGED <<admission, fail, stopping, pinned, side, slot, mcancel, bad, routesActive, bound,
                     outside>>
    BY DEF ConnLock
<1>1. UNCHANGED <<gate, reserved, receipt, routes, child, carriers>>
    BY <1>0 DEF admission, outside
<1>2. /\ Types /\ Positions /\ Mutex /\ Operations /\ Disconnecting /\ Monitoring /\ Routing
      /\ Retirement /\ Carrying /\ Keeping /\ DisconnectedIsClean
    BY DEF IInv
<1>3. "start" \in LabelsOf["conn"] /\ "start" \in Working /\ "start" \notin Stopping /\ "conn" \in Procs
    BY WorkLabels
<1>4. /\ Positions' /\ pc'["conn"] = "start" /\ \A q \in Procs \ {"conn"} : pc'[q] = pc[q]
    BY <1>0, <1>2, <1>3, Moved
<1>5. /\ pc'["front"] = pc["front"] /\ pc'["health"] = pc["health"] /\ pc'["lease"] = pc["lease"]
    BY <1>4 DEF Procs
<1>6. ~slot /\ pc["health"] = "idle" /\ pc["lease"] = "idle" /\ carriers = {}
    BY <1>0, <1>2 DEF DisconnectedIsClean, Monitoring, MonitorEnded
<1>7. epoch' \in 0..MaxOps /\ epoch' # 0 /\ stopping \subseteq 1..epoch'
    BY <1>0, <1>2, OpsAssumption DEF Operations
<1>8. Types'
    <2>1. lock' \in Procs \cup {"free"} /\ state' \in States
        BY <1>0, <1>3 DEF States
    <2>2. transport' \in BOOLEAN /\ consumed' \in BOOLEAN
        BY <1>0, <1>2 DEF Types
    <2>3. UNCHANGED <<fail, side, slot, mcancel, routesActive, bound>>
        BY <1>0
    <2> QED BY <1>1, <1>2, <2>1, <2>2, <2>3 DEF Types
<1>9. Mutex'
    <2>1. \A q \in Procs \ {"conn"} : Holds(q)' <=> Holds(q)
        BY <1>4 DEF Holds
    <2>2. Holds("conn")'
        BY <1>3, <1>4 DEF Holds
    <2>3. "free" \notin Procs
        BY DEF Procs
    <2> QED BY <1>0, <1>2, <2>1, <2>2, <2>3 DEF Mutex
<1>10. Operations'
    BY <1>0, <1>1, <1>2, <1>4, <1>7 DEF Operations
<1>11. Disconnecting'
    BY <1>0, <1>2, <1>5 DEF Disconnecting
<1>12. Monitoring'
    BY <1>0, <1>5, <1>6, <1>7 DEF Monitoring, MonitorEnded
<1>13. Routing'
    BY <1>0, <1>1, <1>2, <1>3, RoutingStep
<1>14. Retirement'
    BY <1>0, <1>1, <1>2, <1>5 DEF Retirement
<1>15. Carrying'
    BY <1>0, <1>1, <1>2, <1>5, <1>6, CarriersAssumption DEF Carrying, Sampling
<1>16. Keeping'
    BY <1>0, <1>5, <1>6 DEF Keeping, Failed, Failing, Connected
<1>17. DisconnectedIsClean'
    BY <1>0 DEF DisconnectedIsClean
<1> QED BY <1>4, <1>8, <1>9, <1>10, <1>11, <1>12, <1>13, <1>14, <1>15, <1>16, <1>17 DEF IInv

LEMMA CancelKeeps == ASSUME IInv, Cancel PROVE IInv'
<1>0. /\ pc["front"] = "idle" /\ active # 0 /\ stopping' = stopping \cup {active}
      /\ state # "Disconnected"
      /\ state' = "Disconnecting" /\ mcancel' = (mcancel \/ slot)
      /\ UNCHANGED <<admission, pc, lock, fail, epoch, active, pinned, sop, transport, side, slot,
                     carrier, bad, routesActive, start, outside>>
    BY DEF Cancel
<1>1. UNCHANGED <<gate, reserved, receipt, bound, consumed, routes, child, carriers>>
    BY <1>0 DEF admission, start, outside
<1>2. /\ Types /\ Positions /\ Mutex /\ Operations /\ Disconnecting /\ Monitoring /\ Routing
      /\ Retirement /\ Carrying /\ Keeping /\ DisconnectedIsClean
    BY DEF IInv
<1>3. active = epoch /\ epoch \in 1..epoch
    BY <1>0, <1>2, OpsAssumption DEF Operations
<1>4. Types' /\ Positions' /\ Mutex' /\ Carrying'
    BY <1>0, <1>1, <1>2 DEF Types, States, Positions, Mutex, Holds, Carrying
<1>5. Operations'
    BY <1>0, <1>1, <1>2, <1>3 DEF Operations
<1>6. Disconnecting'
    BY <1>0, WorkLabels DEF Disconnecting
<1>7. Monitoring' /\ Routing' /\ Retirement'
    BY <1>0, <1>1, <1>2 DEF Monitoring, MonitorEnded, Routing, Retirement, RouteTask
<1>8. Keeping'
    BY <1>0, <1>1, <1>2, <1>3 DEF Keeping, Connected
<1>9. DisconnectedIsClean'
    BY <1>0 DEF DisconnectedIsClean
<1> QED BY <1>4, <1>5, <1>6, <1>7, <1>8, <1>9 DEF IInv

LEMMA DisconnectBeginKeeps == ASSUME IInv, DisconnectBegin PROVE IInv'
<1>0. /\ pc["front"] = "idle" /\ gate = "Open" /\ pinned' = active
      /\ UNCHANGED <<admission, lock, fail, epoch, active, sop, transport, side, slot, carrier, bad,
                     routesActive, start, outside>>
    BY DEF DisconnectBegin, AdmitsMutation
<1>1. UNCHANGED <<gate, reserved, receipt, bound, consumed, routes, child, carriers>>
    BY <1>0 DEF admission, start, outside
<1>2. Types /\ Operations /\ Disconnecting /\ Monitoring /\ Retirement /\ Keeping /\ DisconnectedIsClean
    BY DEF IInv
<1>3. /\ "lock" \in LabelsOf["front"] /\ "join" \in LabelsOf["front"]
      /\ {"lock", "join", "idle"} \cap (Working \cup Cleaning) = {}
    BY WorkLabels
<1>4. CASE active = 0
    <2>1. Goto("front", "lock") /\ UNCHANGED <<stopping, state, mcancel>>
        BY <1>4 DEF DisconnectBegin
    <2>2. /\ pc'["front"] = "lock" /\ \A q \in Procs \ {"front"} : pc'[q] = pc[q]
          /\ RouteTask' = RouteTask /\ Routing' /\ Keeping' /\ DisconnectedIsClean' /\ Monitoring'
        BY <1>0, <1>1, <1>3, <2>1, QuietFacts
    <2>3. pc'["conn"] = pc["conn"]
        BY <2>2 DEF Procs
    <2>4. Operations'
        BY <1>0, <1>1, <1>2, <1>4, <2>1, <2>3, OpsAssumption DEF Operations
    <2>5. Disconnecting'
        BY <1>0, <1>3, <1>4, <2>2 DEF Disconnecting
    <2>6. Retirement'
        BY <1>0, <1>1, <1>2, <2>2 DEF Retirement
    <2> QED BY <1>0, <1>1, <1>2, <1>3, <2>1, <2>2, <2>4, <2>5, <2>6, QuietStep DEF Types
<1>5. CASE active # 0
    <2>1. /\ Goto("front", "join") /\ stopping' = stopping \cup {active}
          /\ state' \in {"Disconnecting", state} /\ (state = "Disconnected" => state' = state)
          /\ mcancel' = (mcancel \/ slot)
        BY <1>5 DEF DisconnectBegin
    <2>2. /\ pc'["front"] = "join" /\ \A q \in Procs \ {"front"} : pc'[q] = pc[q]
          /\ pc'["health"] = pc["health"] /\ pc'["lease"] = pc["lease"]
          /\ RouteTask' = RouteTask /\ MonitorEnded' = MonitorEnded /\ Routing'
        BY <1>0, <1>1, <1>3, <2>1, QuietFacts
    <2>3. pc'["conn"] = pc["conn"]
        BY <2>2 DEF Procs
    <2>4. active = epoch /\ epoch \in 1..epoch
        BY <1>2, <1>5, OpsAssumption DEF Operations
    <2>5. Operations'
        BY <1>0, <1>1, <1>2, <2>1, <2>3, <2>4 DEF Operations
    <2>6. Disconnecting'
        BY <1>0, <1>2, <1>3, <1>5, <2>1, <2>2, <2>3, <2>4 DEF Disconnecting, Operations
    <2>7. state' # "Disconnected" \/ state = "Disconnected"
        BY <2>1
    <2>8. Monitoring'
        BY <1>0, <1>2, <2>2, <2>7 DEF Monitoring
    <2>9. Retirement'
        BY <1>0, <1>1, <1>2, <2>2 DEF Retirement
    <2>10. epoch' \in stopping' /\ (mcancel => mcancel')
        BY <1>0, <2>1, <2>4
    <2>11. Keeping'
        BY <1>2, <2>2, <2>10 DEF Keeping
    <2>12. DisconnectedIsClean'
        BY <1>0, <1>1, <1>2, <2>7 DEF DisconnectedIsClean
    <2>13. state' \in States /\ mcancel' \in BOOLEAN
        BY <1>2, <2>1 DEF Types, States
    <2> QED BY <1>0, <1>1, <1>2, <1>3, <2>1, <2>2, <2>5, <2>6, <2>8, <2>9, <2>11, <2>12, <2>13,
               QuietStep DEF Types
<1> QED BY <1>4, <1>5

LEMMA DisconnectJoinKeeps == ASSUME IInv, DisconnectJoin PROVE IInv'
<1>0. /\ pc["front"] = "join"
      /\ UNCHANGED <<admission, lock, fail, operation, pinned, status, mcancel, carrier, bad,
                     routesActive, start, outside>>
    BY DEF DisconnectJoin
<1>1. UNCHANGED <<gate, reserved, receipt, epoch, active, stopping, state, sop, transport, side,
                  bound, consumed, routes, child, carriers>>
    BY <1>0 DEF admission, operation, status, start, outside
<1>2. Types /\ Operations /\ Disconnecting /\ Monitoring /\ Retirement /\ Keeping /\ DisconnectedIsClean
    BY DEF IInv
<1>3. /\ pinned # 0 /\ pinned = epoch /\ epoch \in stopping /\ pc["conn"] \notin {"spawned", "lock"}
      /\ routes # "retired" /\ ~receipt
    BY <1>0, <1>2 DEF Disconnecting, Retirement
<1>4. PICK to \in {"lock", "idle"} : /\ Goto("front", to) /\ (to = "lock" => slot' = FALSE)
                                     /\ slot' = slot \/ (slot' = FALSE /\ MonitorEnded)
    BY DEF DisconnectJoin
<1>5. to \in LabelsOf["front"] /\ {"lock", "join", "idle"} \cap (Working \cup Cleaning) = {}
    BY WorkLabels
<1>6. /\ pc'["front"] = to /\ \A q \in Procs \ {"front"} : pc'[q] = pc[q]
      /\ pc'["health"] = pc["health"] /\ pc'["lease"] = pc["lease"]
      /\ RouteTask' = RouteTask /\ MonitorEnded' = MonitorEnded /\ Routing'
    BY <1>0, <1>1, <1>4, <1>5, QuietFacts
<1>7. pc'["conn"] = pc["conn"]
    BY <1>6 DEF Procs
<1>8. Operations'
    BY <1>0, <1>1, <1>2, <1>7 DEF Operations
<1>9. Disconnecting'
    BY <1>0, <1>1, <1>3, <1>4, <1>5, <1>6, <1>7 DEF Disconnecting
<1>10. Monitoring'
    BY <1>0, <1>1, <1>2, <1>4, <1>6 DEF Monitoring
<1>11. Retirement'
    BY <1>1, <1>2, <1>3, <1>4, <1>6 DEF Retirement
<1>12. Keeping'
    BY <1>0, <1>1, <1>2, <1>3, <1>6 DEF Keeping
<1>13. DisconnectedIsClean'
    BY <1>0, <1>1, <1>2, <1>4 DEF DisconnectedIsClean
<1>14. slot' \in BOOLEAN
    BY <1>2, <1>4 DEF Types
<1> QED BY <1>0, <1>1, <1>2, <1>4, <1>5, <1>6, <1>8, <1>9, <1>10, <1>11, <1>12, <1>13, <1>14,
           QuietStep DEF Types

\* The disconnect finds nothing to do, or nothing it has taken hold of.
LEMMA DisconnectReturnsKeeps ==
    ASSUME IInv, DisconnectLock, Goto("front", "idle"),
           UNCHANGED <<lock, fail, state, sop, transport>>,
           \/ UNCHANGED active
           \/ state = "Disconnected" /\ active' = IF active = pinned THEN 0 ELSE active
    PROVE  IInv'
<1>0. /\ pc["front"] = "lock"
      /\ UNCHANGED <<admission, epoch, stopping, pinned, side, monitor, routesActive, start, outside>>
    BY DEF DisconnectLock
<1>1. UNCHANGED <<gate, reserved, receipt, slot, mcancel, carrier, bad, bound, consumed, routes, child,
                  carriers>>
    BY <1>0 DEF admission, monitor, start, outside
<1>2. Types /\ Operations /\ Retirement /\ Keeping /\ DisconnectedIsClean
    BY DEF IInv
<1>3. "idle" \in LabelsOf["front"] /\ {"lock", "idle"} \cap (Working \cup Cleaning) = {}
    BY WorkLabels
<1>4. /\ pc'["front"] = "idle" /\ \A q \in Procs \ {"front"} : pc'[q] = pc[q]
      /\ pc'["health"] = pc["health"] /\ pc'["lease"] = pc["lease"]
      /\ Routing' /\ DisconnectedIsClean' /\ Monitoring'
    BY <1>0, <1>1, <1>3, QuietFacts
<1>5. pc'["conn"] = pc["conn"]
    BY <1>4 DEF Procs
<1>6. Operations'
    BY <1>0, <1>1, <1>2, <1>5 DEF Operations
<1>7. Disconnecting'
    BY <1>3, <1>4 DEF Disconnecting
<1>8. Retirement'
    <2>1. routes # "retired"
        BY <1>0, <1>2 DEF Retirement
    <2> QED BY <1>1, <1>2, <1>4, <2>1 DEF Retirement
<1>9. Keeping'
    <2>1. CASE UNCHANGED active
        BY <1>0, <1>1, <1>2, <1>4, <2>1 DEF Keeping
    <2>2. CASE state = "Disconnected"
        <3>1. ~slot
            BY <1>2, <2>2 DEF DisconnectedIsClean
        <3> QED BY <1>0, <1>1, <1>2, <1>4, <3>1 DEF Keeping
    <2> QED BY <2>1, <2>2
<1> QED BY <1>0, <1>1, <1>2, <1>3, <1>4, <1>6, <1>7, <1>8, <1>9, QuietStep DEF Types

\* The disconnect takes the mutex and begins its cleanup.
LEMMA DisconnectCleansKeeps ==
    ASSUME IInv, DisconnectLock, pinned # 0, lock' = "front",
           state' = "Disconnecting", sop' = pinned, transport' = FALSE,
           fail' = [fail EXCEPT !["front"] = IF side = "Running" THEN "none" ELSE "fatal"],
           Goto("front", CleanupLabel), UNCHANGED active
    PROVE  IInv'
<1>0. /\ pc["front"] = "lock" /\ lock = "free"
      /\ UNCHANGED <<admission, epoch, stopping, pinned, side, monitor, routesActive, start, outside>>
    BY DEF DisconnectLock
<1>1. UNCHANGED <<gate, reserved, receipt, slot, mcancel, carrier, bad, bound, consumed, routes, child,
                  carriers>>
    BY <1>0 DEF admission, monitor, start, outside
<1>2. /\ Types /\ Positions /\ Mutex /\ Operations /\ Disconnecting /\ Monitoring /\ Routing
      /\ Retirement /\ Carrying /\ Keeping
    BY DEF IInv
<1>3. /\ pinned = epoch /\ epoch \in stopping /\ pc["conn"] \notin {"spawned", "lock"} /\ ~slot
      /\ routes # "retired" /\ ~receipt
    BY <1>0, <1>2 DEF Disconnecting, Retirement
<1>4. /\ CleanupLabel \in LabelsOf["front"] /\ CleanupLabel \in Cleaning /\ "front" \in Procs
      /\ CleanupLabel \notin {"apply", "commit", "mundo", "join", "preflight", "controller"}
      /\ CleanupLabel = "undo" => routesActive
      /\ CleanupLabel \in Stopping => ~routesActive /\ routes = "none"
    BY <1>2, <1>3, WorkLabels DEF CleanupLabel, Routing
<1>5. /\ Positions' /\ pc'["front"] = CleanupLabel /\ \A q \in Procs \ {"front"} : pc'[q] = pc[q]
    BY <1>2, <1>4, Moved
<1>6. /\ pc'["conn"] = pc["conn"] /\ pc'["health"] = pc["health"] /\ pc'["lease"] = pc["lease"]
    BY <1>5 DEF Procs
<1>7. Types'
    <2>1. lock' \in Procs \cup {"free"} /\ state' \in States
        BY <1>4 DEF States
    <2>2. fail' \in [Procs -> Errors \cup {"none"}]
        BY <1>2 DEF Types, Errors
    <2>3. transport' \in BOOLEAN /\ UNCHANGED <<side, routesActive>>
        BY <1>0
    <2> QED BY <1>1, <1>2, <2>1, <2>2, <2>3 DEF Types
<1>8. Mutex'
    <2>1. \A q \in Procs \ {"front"} : Holds(q)' <=> Holds(q)
        BY <1>5 DEF Holds
    <2>2. Holds("front")'
        BY <1>4, <1>5 DEF Holds
    <2>3. "free" \notin Procs
        BY DEF Procs
    <2> QED BY <1>0, <1>2, <2>1, <2>2, <2>3 DEF Mutex
<1>9. Operations'
    BY <1>0, <1>1, <1>2, <1>3, <1>6 DEF Operations
<1>10. Disconnecting'
    BY <1>0, <1>1, <1>3, <1>4, <1>5, <1>6 DEF Disconnecting
<1>11. Monitoring'
    BY <1>0, <1>1, <1>2, <1>3, <1>6 DEF Monitoring, MonitorEnded
<1>12. Routing'
    BY <1>0, <1>1, <1>2, <1>4, RoutingStep
<1>13. Retirement'
    <2>1. gate # "Retired"
        BY <1>2, <1>3 DEF Retirement
    <2> QED BY <1>1, <1>3, <1>4, <1>5, <2>1 DEF Retirement
<1>14. Carrying'
    BY <1>1, <1>2, <1>6 DEF Carrying
<1>15. Keeping'
    BY <1>0, <1>1, <1>2, <1>3, <1>6 DEF Keeping
<1>16. DisconnectedIsClean'
    BY DEF DisconnectedIsClean
<1> QED BY <1>5, <1>7, <1>8, <1>9, <1>10, <1>11, <1>12, <1>13, <1>14, <1>15, <1>16 DEF IInv

LEMMA DisconnectLockKeeps == ASSUME IInv, DisconnectLock PROVE IInv'
BY DisconnectReturnsKeeps, DisconnectCleansKeeps DEF DisconnectLock

LEMMA SelectBeginKeeps == ASSUME IInv, SelectBegin PROVE IInv'
<1>0. /\ pc["front"] = "idle" /\ Goto("front", "retire")
      /\ UNCHANGED <<admission, lock, fail, operation, pinned, status, monitor, routesActive, start,
                     outside>>
    BY DEF SelectBegin
<1>1. UNCHANGED <<gate, reserved, receipt, epoch, active, stopping, state, sop, transport, side, slot,
                  mcancel, carrier, bad, bound, consumed, routes, child, carriers>>
    BY <1>0 DEF admission, operation, status, monitor, start, outside
<1>2. Types /\ Operations /\ Retirement
    BY DEF IInv
<1>3. "retire" \in LabelsOf["front"] /\ {"retire", "idle"} \cap (Working \cup Cleaning) = {}
    BY WorkLabels
<1>4. /\ pc'["front"] = "retire" /\ \A q \in Procs \ {"front"} : pc'[q] = pc[q]
      /\ Routing' /\ Keeping' /\ DisconnectedIsClean' /\ Monitoring'
    BY <1>0, <1>1, <1>3, QuietFacts
<1>5. pc'["conn"] = pc["conn"]
    BY <1>4 DEF Procs
<1>6. Operations'
    BY <1>0, <1>1, <1>2, <1>5 DEF Operations
<1>7. Disconnecting'
    BY <1>3, <1>4 DEF Disconnecting
<1>8. Retirement'
    BY <1>0, <1>1, <1>2, <1>4, <1>5 DEF Retirement
<1> QED BY <1>0, <1>1, <1>2, <1>3, <1>4, <1>6, <1>7, <1>8, QuietStep DEF Types

LEMMA RetireBeginKeeps == ASSUME IInv, RetireBegin PROVE IInv'
<1>0. /\ pc["front"] = "retire"
      /\ UNCHANGED <<reserved, receipt, lock, fail, operation, pinned, status, monitor, routesActive,
                     start, outside>>
    BY DEF RetireBegin
<1>1. UNCHANGED <<epoch, active, stopping, state, sop, transport, side, slot,
                  mcancel, carrier, bad, bound, consumed, routes, child, carriers>>
    BY <1>0 DEF operation, status, monitor, start, outside
<1>2. Types /\ Positions /\ Operations /\ Monitoring /\ Retirement
    BY DEF IInv
<1>3. /\ {"idle", "preflight", "controller"} \subseteq LabelsOf["front"]
      /\ {"retire", "idle", "preflight", "controller"} \cap (Working \cup Cleaning) = {}
    BY WorkLabels
<1>4. PICK to \in {"idle", "preflight", "controller"} :
         /\ Goto("front", to) /\ gate' \in {gate, "Retiring"}
         /\ to = "idle" => gate' = gate
         /\ to = "preflight" => gate = "Open" /\ gate' = "Retiring" /\ CanRetire
         /\ to = "controller" => gate' = "Retiring" /\ receipt
    BY DEF RetireBegin
<1>5. /\ pc'["front"] = to /\ \A q \in Procs \ {"front"} : pc'[q] = pc[q]
      /\ RouteTask' = RouteTask
      /\ Routing' /\ Keeping' /\ DisconnectedIsClean' /\ Monitoring'
    BY <1>0, <1>1, <1>3, <1>4, QuietFacts
<1>6. pc'["conn"] = pc["conn"]
    BY <1>5 DEF Procs
<1>7. Operations'
    BY <1>0, <1>1, <1>2, <1>6 DEF Operations
<1>8. Disconnecting'
    BY <1>3, <1>4, <1>5 DEF Disconnecting
<1>9. Retirement'
    <2>1. CASE to = "idle"
        BY <1>0, <1>1, <1>2, <1>4, <1>5, <1>6, <2>1 DEF Retirement
    <2>2. CASE to = "preflight"
        <3>1. gate' = "Retiring" /\ routes # "retired" /\ ~receipt
            BY <1>2, <1>4, <2>2 DEF Retirement
        <3>2. pc["conn"] = "idle" /\ ~RouteTask
            BY <1>2, <1>4, <2>2 DEF CanRetire, InFlight, Operations
        <3> QED BY <1>0, <1>1, <1>5, <1>6, <2>2, <3>1, <3>2 DEF Retirement
    <2>3. CASE to = "controller"
        <3>1. gate' = "Retiring" /\ routes = "retired" /\ pc["conn"] = "idle" /\ ~slot /\ active = 0
            BY <1>2, <1>4, <2>3 DEF Retirement
        <3>2. ~RouteTask
            BY <1>2, <3>1 DEF Monitoring, MonitorEnded, RouteTask
        <3> QED BY <1>0, <1>1, <1>5, <1>6, <2>3, <3>1, <3>2 DEF Retirement
    <2> QED BY <2>1, <2>2, <2>3
<1>10. to \in LabelsOf["front"] /\ to \notin Working \cup Cleaning /\ pc["front"] \notin Working \cup Cleaning
    BY <1>0, <1>3, <1>4
<1>11. gate' \in {"Open", "Retiring", "RecoveryOnly", "Retired"}
    BY <1>2, <1>4 DEF Types
<1> QED BY <1>0, <1>1, <1>2, <1>4, <1>5, <1>7, <1>8, <1>9, <1>10, <1>11, QuietStep DEF Types

LEMMA RetirePreflightKeeps == ASSUME IInv, RetirePreflight PROVE IInv'
<1>0. /\ pc["front"] = "preflight"
      /\ UNCHANGED <<reserved, lock, fail, operation, pinned, status, monitor, routesActive, start,
                     child, carriers>>
    BY DEF RetirePreflight
<1>1. UNCHANGED <<epoch, active, stopping, state, sop, transport, side, slot, mcancel, carrier, bad,
                  bound, consumed>>
    BY <1>0 DEF operation, status, monitor, start
<1>2. Types /\ Mutex /\ Operations /\ Routing /\ Retirement /\ Keeping /\ DisconnectedIsClean
    BY DEF IInv
<1>3. /\ {"idle", "controller"} \subseteq LabelsOf["front"]
      /\ {"preflight", "idle", "controller"} \cap (Working \cup Cleaning) = {}
    BY WorkLabels
<1>4. /\ gate = "Retiring" /\ pc["conn"] = "idle" /\ ~RouteTask /\ routes # "retired" /\ ~receipt
    BY <1>0, <1>2 DEF Retirement
<1>5. CASE Goto("front", "idle") /\ gate' \in {"Open", "RecoveryOnly"} /\ UNCHANGED <<receipt, routes>>
    <2>1. /\ pc'["front"] = "idle" /\ \A q \in Procs \ {"front"} : pc'[q] = pc[q]
          /\ Routing' /\ Keeping' /\ DisconnectedIsClean' /\ Monitoring'
        BY <1>0, <1>1, <1>3, <1>5, QuietFacts
    <2>2. pc'["conn"] = pc["conn"]
        BY <2>1 DEF Procs
    <2>3. Operations'
        BY <1>0, <1>1, <1>2, <2>2 DEF Operations
    <2>4. Disconnecting'
        BY <1>3, <2>1 DEF Disconnecting
    <2>5. Retirement'
        BY <1>4, <1>5, <2>1 DEF Retirement
    <2> QED BY <1>0, <1>1, <1>2, <1>3, <1>5, <2>1, <2>3, <2>4, <2>5, QuietStep DEF Types
<1>6. CASE /\ Preflight = "Ready" /\ routes' = "retired" /\ receipt' = TRUE
           /\ Goto("front", "controller") /\ UNCHANGED gate
    <2>1. active = 0 /\ ~slot /\ ~routesActive /\ lock = "free"
        BY <1>6 DEF Preflight
    <2>2. /\ pc'["front"] = "controller" /\ \A q \in Procs \ {"front"} : pc'[q] = pc[q]
          /\ pc'["health"] = pc["health"] /\ pc'["lease"] = pc["lease"]
          /\ RouteTask' = RouteTask /\ Monitoring'
        BY <1>0, <1>1, <1>3, <1>6, QuietFacts
    <2>3. pc'["conn"] = pc["conn"]
        BY <2>2 DEF Procs
    <2>4. Operations'
        BY <1>0, <1>1, <1>2, <2>3 DEF Operations
    <2>5. Disconnecting'
        BY <1>3, <2>2 DEF Disconnecting
    <2>6. Retirement'
        BY <1>1, <1>4, <1>6, <2>1, <2>2, <2>3 DEF Retirement
    <2>7. Routing'
        <3>1. \A q \in Procs : pc[q] \notin {"undo", "mundo"} \cup Stopping
            BY <1>2, <2>1, WorkLabels DEF Mutex, Holds
        <3>2. \A q \in Procs : pc'[q] \notin {"undo", "mundo"} \cup Stopping
            BY <2>2, <3>1, WorkLabels
        <3> QED BY <1>0, <1>4, <1>6, <2>1, <2>3, <3>2 DEF Routing
    <2>8. Keeping'
        BY <1>1, <1>2, <2>1, <2>2 DEF Keeping
    <2>9. DisconnectedIsClean'
        BY <1>0, <1>1, <1>2, <1>6 DEF DisconnectedIsClean
    <2> QED BY <1>0, <1>1, <1>2, <1>3, <1>6, <2>2, <2>4, <2>5, <2>6, <2>7, <2>8, <2>9, QuietStep
            DEF Types
<1> QED BY <1>5, <1>6 DEF RetirePreflight

LEMMA RetireControllerKeeps == ASSUME IInv, RetireController PROVE IInv'
<1>0. /\ pc["front"] = "controller" /\ Goto("front", "idle")
      /\ UNCHANGED <<reserved, lock, fail, operation, pinned, status, monitor, routesActive, start,
                     routes>>
    BY DEF RetireController
<1>1. UNCHANGED <<epoch, active, stopping, state, sop, transport, side, slot, mcancel, carrier, bad,
                  bound, consumed>>
    BY <1>0 DEF operation, status, monitor, start
<1>2. Types /\ Operations /\ Retirement /\ DisconnectedIsClean
    BY DEF IInv
<1>3. /\ "idle" \in LabelsOf["front"] /\ {"idle", "controller"} \cap (Working \cup Cleaning) = {}
    BY WorkLabels
<1>4. routes = "retired" /\ pc["conn"] = "idle" /\ ~slot /\ active = 0
    BY <1>0, <1>2 DEF Retirement
<1>5. /\ gate' \in {"RecoveryOnly", "Retired"} /\ (gate' = "Retired" => ~child')
      /\ receipt' \in BOOLEAN /\ carriers' \in {carriers, {}} /\ child' \in {child, FALSE}
    BY <1>2 DEF RetireController, Types
<1>6. /\ pc'["front"] = "idle" /\ \A q \in Procs \ {"front"} : pc'[q] = pc[q]
      /\ Routing' /\ Keeping' /\ Monitoring'
    BY <1>0, <1>1, <1>3, QuietFacts
<1>7. pc'["conn"] = pc["conn"]
    BY <1>6 DEF Procs
<1>8. Operations'
    BY <1>0, <1>1, <1>2, <1>7 DEF Operations
<1>9. Disconnecting'
    BY <1>3, <1>6 DEF Disconnecting
<1>10. Retirement'
    BY <1>0, <1>1, <1>4, <1>5, <1>6, <1>7 DEF Retirement
<1>11. DisconnectedIsClean'
    BY <1>0, <1>1, <1>2, <1>5 DEF DisconnectedIsClean
<1>12. child' \in BOOLEAN /\ carriers' \subseteq carriers
    BY <1>2, <1>5 DEF Types
<1> QED BY <1>0, <1>1, <1>2, <1>3, <1>5, <1>6, <1>8, <1>9, <1>10, <1>11, <1>12, QuietStep DEF Types

LEMMA ChildDiesKeeps == ASSUME IInv, ChildDies PROVE IInv'
<1>0. /\ child' = FALSE /\ carriers' = {}
      /\ UNCHANGED <<admission, pc, lock, fail, operation, pinned, status, monitor, routesActive,
                     start, routes>>
    BY DEF ChildDies
<1>1. UNCHANGED <<gate, reserved, receipt, epoch, active, stopping, state, sop, transport, side, slot,
                  mcancel, carrier, bad, bound, consumed>>
    BY <1>0 DEF admission, operation, status, monitor, start
<1>2. /\ Types /\ Positions /\ Mutex /\ Operations /\ Disconnecting /\ Monitoring /\ Routing
      /\ Retirement /\ Carrying /\ Keeping /\ DisconnectedIsClean
    BY DEF IInv
<1>3. Types' /\ Positions' /\ Mutex' /\ Operations' /\ Disconnecting'
    <2>1. child' \in BOOLEAN /\ UNCHANGED <<pc, lock, fail, routesActive, routes, pinned>>
        BY <1>0
    <2> QED BY <1>1, <1>2, <2>1 DEF Types, Positions, Mutex, Holds, Operations, Disconnecting
<1>4. Monitoring' /\ Routing' /\ Retirement'
    BY <1>0, <1>1, <1>2 DEF Monitoring, MonitorEnded, Routing, Retirement, RouteTask
<1>5. Carrying' /\ Keeping' /\ DisconnectedIsClean'
    BY <1>0, <1>1, <1>2 DEF Carrying, Keeping, DisconnectedIsClean
<1> QED BY <1>3, <1>4, <1>5 DEF IInv
-----------------------------------------------------------------------------
(* The invariant, and what follows from it *)

LEMMA InitInvariant == Init => IInv
<1> SUFFICES ASSUME Init PROVE IInv
    OBVIOUS
<1>1. Types
    BY DEF Init, Types, States, Errors
<1>2. Positions
    BY DEF Init, Positions, Labels, LabelsOf, Procs
<1>3. Mutex
    BY DEF Init, Mutex, Holds, Procs, Working, Cleaning, Falling, Failing
<1>4. pc["conn"] = "idle" /\ pc["front"] = "idle" /\ pc["health"] = "idle" /\ pc["lease"] = "idle"
    BY DEF Init, Procs
<1>5. Operations
    <2>1. epoch = 0 /\ active = 0 /\ sop = 0 /\ pinned = 0 /\ stopping = {} /\ 0 \in 0..MaxOps
        BY OpsAssumption DEF Init
    <2>2. reserved = (pc["conn"] = "spawned")
        BY <1>4 DEF Init
    <2> QED BY <1>4, <2>1, <2>2 DEF Operations
<1>6. Disconnecting
    BY <1>4 DEF Disconnecting, Cleaning
<1>7. Monitoring
    BY <1>4 DEF Init, Monitoring, MonitorEnded
<1>8. Routing
    <2>1. \A p \in Procs : pc[p] = "idle"
        BY DEF Init
    <2> QED BY <1>4, <2>1 DEF Init, Routing, Stopping
<1>9. Retirement
    BY <1>4 DEF Init, Retirement
<1>10. Carrying
    BY <1>4, CarriersAssumption, ThresholdAssumption DEF Init, Carrying, Sampling
<1>11. Keeping
    BY <1>4 DEF Init, Keeping, Failed, Failing, Connected
<1>12. DisconnectedIsClean
    BY DEF Init, DisconnectedIsClean
<1> QED BY <1>1, <1>2, <1>3, <1>5, <1>6, <1>7, <1>8, <1>9, <1>10, <1>11, <1>12 DEF IInv

LEMMA StutterKeeps == ASSUME IInv, UNCHANGED vars PROVE IInv'
<1>0. UNCHANGED <<gate, reserved, receipt, pc, lock, fail, epoch, active, stopping, pinned, state, sop,
                  transport, side, slot, mcancel, carrier, bad, routesActive, bound, consumed, routes,
                  child, carriers>>
    BY DEF vars, admission, operation, status, monitor, start, outside
<1> QED BY <1>0 DEF IInv, Types, Positions, Mutex, Holds, Operations, Disconnecting, Monitoring,
                    MonitorEnded, Routing, Retirement, RouteTask, Carrying, Keeping, DisconnectedIsClean

LEMMA ConnKeeps == ASSUME IInv, Conn PROVE IInv'
<1>1. ASSUME ConnProfile \/ ConnPrepare PROVE IInv'
    <2>1. {"profile", "prepare", "setPreparing", "setConnecting"} \subseteq Working
        BY DEF Working
    <2> QED BY <1>1, <2>1, ConnRequestKeeps DEF ConnProfile, ConnPrepare
<1> QED BY <1>1, ConnBeginKeeps, ConnLockKeeps, ConnStartKeeps, ConnSetStatusKeeps, ConnCarrierKeeps,
           ConnDropKeeps, ConnSnapshotKeeps, ConnApplyKeeps, ConnCommitKeeps, CleanupKeeps DEF Conn

LEMMA FrontKeeps == ASSUME IInv, Front PROVE IInv'
BY DisconnectJoinKeeps, DisconnectLockKeeps, CleanupKeeps, RetireBeginKeeps, RetirePreflightKeeps,
   RetireControllerKeeps DEF Front

LEMMA StepKeeps == IInv /\ [Next]_vars => IInv'
BY ReserveKeeps, CancelKeeps, DisconnectBeginKeeps, SelectBeginKeeps, FrontKeeps, ConnKeeps,
   MonitorKeeps, ChildDiesKeeps, StutterKeeps DEF Next

\* Every reachable state of the service satisfies the invariant: the commands,
\* the connect task and the two monitor loops of production_service.rs keep it
\* in every interleaving.
THEOREM ServiceInvariant == Spec => []IInv
<1>1. Init => IInv
    BY InitInvariant
<1>2. IInv /\ [Next]_vars => IInv'
    BY StepKeeps
<1> QED BY <1>1, <1>2, PTL DEF Spec

\* A published Disconnected is the absence of everything: cleanup publishes it
\* only after the rollback and the shutdown have been seen to succeed, and no
\* connect begins on anything else.
THEOREM CleanDisconnected == Spec => []DisconnectedIsClean
<1>1. IInv => DisconnectedIsClean
    BY DEF IInv
<1> QED BY <1>1, ServiceInvariant, PTL

\* Whoever stops the carrier, the tunnel or the sidecar has first seen the
\* routes absent: the order of cleanup and of monitor_failure_cleanup, with
\* whatever the other processes do in between.
THEOREM OutermostRoutes == Spec => []RoutesOutermost
<1>1. IInv => RoutesOutermost
    BY DEF IInv, Routing, RoutesOutermost, Stopping
<1> QED BY <1>1, ServiceInvariant, PTL

\* A published connection that nobody has been asked to end has a lease loop,
\* and its routes are held unless that loop is about to report their loss.
THEOREM KeptLease == Spec => []LeaseIsKept
<1>1. ASSUME IInv PROVE LeaseIsKept
    <2>1. ASSUME state \in Connected, epoch \notin stopping
          PROVE  pc["lease"] # "idle" /\ (routes = "held" \/ pc["lease"] # "sleep")
        <3>1. slot /\ state # "Error"
            BY <1>1, <2>1 DEF IInv, Keeping, Connected
        <3>2. pc["health"] \notin Failed /\ pc["lease"] \notin Failed
            BY <1>1, <2>1, <3>1 DEF IInv, Keeping
        <3>3. CASE mcancel
            BY <1>1, <2>1, <3>1, <3>3 DEF IInv, Keeping
        <3>4. CASE ~mcancel
            BY <1>1, <2>1, <3>1, <3>2, <3>4 DEF IInv, Keeping
        <3> QED BY <3>3, <3>4
    <2> QED BY <2>1 DEF LeaseIsKept
<1> QED BY <1>1, ServiceInvariant, PTL

\* At most one carrier is up, whatever late answer a deadline has missed; a
\* retired generation holds nothing; and connect and disconnect never hold the
\* lifecycle mutex beside a running monitor, whose cleanup waits for it.
THEOREM NothingShared == Spec => []NothingIsShared
<1>1. ASSUME IInv PROVE NothingIsShared
    <2>0. /\ Types /\ Positions /\ Operations /\ Monitoring /\ Retirement /\ Carrying
        BY <1>1 DEF IInv
    <2>1. TypeOK
        BY <2>0 DEF TypeOK, Types, Positions, Operations, Carrying
    <2>2. BreakBeforeMake
        <3>1. carriers = {} \/ carriers = {carrier}
            BY <2>0 DEF Carrying
        <3>2. Cardinality({}) = 0 /\ Cardinality({carrier}) = 1
            BY FS_EmptySet, FS_Singleton
        <3> QED BY <3>1, <3>2 DEF BreakBeforeMake
    <2>3. RetiredIsEmpty
        <3>1. ASSUME gate = "Retired"
              PROVE  /\ routes = "retired" /\ ~child /\ ~slot /\ active = 0
                     /\ ~InFlight /\ ~RouteTask /\ ~reserved
            <4>1. routes = "retired" /\ ~child
                BY <2>0, <3>1 DEF Retirement
            <4>2. ~slot /\ active = 0 /\ pc["conn"] = "idle" /\ pc["front"] \in {"idle", "retire", "controller"}
                BY <2>0, <4>1 DEF Retirement
            <4>3. ~reserved
                BY <2>0, <4>2 DEF Operations
            <4>4. ~RouteTask
                BY <2>0, <4>2 DEF Monitoring, MonitorEnded, RouteTask
            <4>5. ~InFlight
                BY <4>2 DEF InFlight
            <4> QED BY <4>1, <4>2, <4>3, <4>4, <4>5
        <3> QED BY <3>1 DEF RetiredIsEmpty
    <2>4. JoinNeverWaits
        BY <2>0 DEF Monitoring, JoinNeverWaits
    <2> QED BY <2>1, <2>2, <2>3, <2>4 DEF NothingIsShared
<1> QED BY <1>1, ServiceInvariant, PTL
=============================================================================
