----------------------------- MODULE Supervisor -----------------------------
(***************************************************************************)
(* SidecarController (networking/sidecar.rs): a poll-driven supervisor that  *)
(* restarts a crashed sidecar with exponential backoff, at most max_restarts *)
(* times per window, on a clock its caller passes in.                        *)
(***************************************************************************)
EXTENDS Naturals, Sequences, FiniteSets

CONSTANTS
    MaxRestarts, Window, InitialBackoff, MaxBackoff,   \* RestartPolicy
    MaxTime,                                           \* bound: the clock stops here
    None

VARIABLES
    state,     \* SidecarLifecycleState
    crashes,   \* restart_times, oldest first
    failures,  \* consecutive_failures
    retryAt,   \* retry_at_ms
    child,     \* the process: "none", "running" or "exited"
    now,       \* now_ms
    starts     \* history: when poll started a child since the last stop

supervisor == <<state, crashes, failures, retryAt, child, now, starts>>

Init ==
    /\ state = "Stopped" /\ crashes = <<>> /\ failures = 0 /\ retryAt = None
    /\ child = "none" /\ now = 0 /\ starts = <<>>

Smaller(a, b) == IF a < b THEN a ELSE b

\* Timestamps more than a window old leave from the front.
Recent(times) == SelectSeq(times, LAMBDA t : now - t <= Window)

\* prune_restart_window: an empty window also forgets the failures.
PruneRestartWindow(times, n) ==
    [times |-> Recent(times), failures |-> IF Recent(times) = <<>> THEN 0 ELSE n]

(* start: a child that cannot be started, or that answers with the wrong     *)
(* protocol, instance or proof, leaves the supervisor Stopped; from there    *)
(* only its owner starts it again.                                           *)
StartOutcome ==
    \/ /\ child # "running"   \* the runtime refuses a second child
       /\ state' = "Running" /\ child' = "running" /\ retryAt' = None
       /\ LET pruned == PruneRestartWindow(crashes, failures)
          IN  crashes' = pruned.times /\ failures' = pruned.failures
    \/ /\ state' = "Stopped" /\ child' \in {child, "running"}   \* runtime.stop is best effort
       /\ UNCHANGED <<crashes, failures, retryAt>>

Start ==
    /\ state \in {"Stopped", "Backoff"}
    /\ StartOutcome
    /\ UNCHANGED <<now, starts>>

\* Mutant: a crash is not counted against max_restarts.
RecordCrash_Uncounted ==
    LET pruned == PruneRestartWindow(crashes, failures)
        n == pruned.failures + 1
    IN  /\ crashes' = Append(pruned.times, now)
        /\ failures' = n
        /\ state' = "Backoff" /\ retryAt' = now + Smaller(InitialBackoff * 2^(n - 1), MaxBackoff)

RecordCrash ==
    LET pruned == PruneRestartWindow(crashes, failures)
        n == pruned.failures + 1
        delay == Smaller(InitialBackoff * 2^(n - 1), MaxBackoff)
    IN  /\ crashes' = Append(pruned.times, now)
        /\ failures' = n
        /\ IF Len(pruned.times) + 1 > MaxRestarts
           THEN state' = "CrashLoop" /\ retryAt' = None
           ELSE state' = "Backoff" /\ retryAt' = now + delay

\* poll while Running: an exit is recorded, a running child or a failed look is not.
PollRunning ==
    /\ state = "Running" /\ child = "exited"
    /\ RecordCrash
    /\ child' = "none"
    /\ UNCHANGED <<now, starts>>

PollBackoff ==
    /\ state = "Backoff" /\ now >= retryAt
    /\ StartOutcome
    /\ UNCHANGED now
    /\ starts' = Append(starts, now)

\* stop clears the history, unless the runtime refuses to stop.
Stop ==
    /\ state' = "Stopped" /\ retryAt' = None /\ failures' = 0 /\ crashes' = <<>>
    /\ child' = IF state = "Running" THEN "none" ELSE child
    /\ starts' = <<>>
    /\ UNCHANGED now

ChildExits == child = "running" /\ child' = "exited" /\ UNCHANGED <<state, crashes, failures, retryAt, now, starts>>

Tick == now < MaxTime /\ now' = now + 1 /\ UNCHANGED <<state, crashes, failures, retryAt, child, starts>>

Next == Start \/ PollRunning \/ PollBackoff \/ Stop \/ ChildExits \/ Tick

Spec == Init /\ [][Next]_supervisor
-----------------------------------------------------------------------------
(* Between two stops, polling alone never starts more than max_restarts + 1   *)
(* children within one window, however fast they crash.                       *)
RestartsAreRationed ==
    \A i \in DOMAIN starts :
        Cardinality({j \in DOMAIN starts : j >= i /\ starts[j] - starts[i] < Window}) <= MaxRestarts + 1
=============================================================================
