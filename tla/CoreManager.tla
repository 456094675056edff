----------------------------- MODULE CoreManager -----------------------------
(***************************************************************************)
(* Where the core runs: CoreManager's lifecycle (core/manager/lifecycle.rs *)
(* and state.rs) over the sidecar process and the privileged service       *)
(* (core/service.rs), with the watcher that hands a sidecar over to the    *)
(* service once that is ready (on Windows).  A step is a stretch of code    *)
(* between two suspension points.                                          *)
(***************************************************************************)
EXTENDS Integers

CONSTANTS
  Callers,        \* the tasks that execute commands
  MaxCalls,       \* bound on the commands given
  MaxFailures,    \* bound on the failing calls
  StartRetries    \* timing::SERVICE_START_RETRIES

Nobody == "nobody"
Watcher == "watcher"
Quitter == "quitter"
Actors == Callers \cup {Watcher, Quitter}

VARIABLES
  os,             \* the build: windows or unix
  mode,           \* running_mode: NotRunning, Service or Sidecar
  child,          \* child_sidecar: none, live or dead
  strays,         \* sidecar processes alive that nobody holds
  svc,            \* the installed service: absent, old or ok
  svcCore,        \* the service runs the core
  status,         \* ServiceManager::status
  operating,      \* who runs a service operation (operation_running)
  life,           \* who holds lifecycle_lock
  flagged,        \* who holds config_update_in_progress
  at,             \* where each actor is
  job,            \* what each actor's command is
  ret,            \* where it goes on when its service operation ends
  tries,          \* service starts an actor has tried
  leaving,        \* is_exiting
  gone,           \* the process has exited
  calls, failures,
  unsure          \* history: a stop or a service call that failed or whose outcome was not learnt

vars == <<os, mode, child, strays, svc, svcCore, status, operating, life, flagged, at, job, ret, tries,
          leaving, gone, calls, failures, unsure>>
service == <<svc, svcCore, status, operating>>
world == <<os, leaving, gone, calls>>

Init ==
  /\ os \in {"windows", "unix"}
  /\ mode = "NotRunning" /\ child = "none" /\ strays = 0
  /\ svc \in {"absent", "old", "ok"} /\ svcCore = FALSE
  /\ status = "Unavailable" /\ operating = Nobody /\ life = Nobody /\ flagged = Nobody
  /\ at = [a \in Actors |-> "idle"] /\ job = [a \in Actors |-> "none"]
  /\ ret = [a \in Actors |-> "idle"] /\ tries = [a \in Actors |-> 0]
  /\ leaving = FALSE /\ gone = FALSE /\ calls = 0 /\ failures = 0 /\ unsure = FALSE

Goto(a, where) == at' = [at EXCEPT ![a] = where]
Here(a, where) == ~gone /\ at[a] = where
Fails == failures < MaxFailures /\ failures' = failures + 1
Works == UNCHANGED failures

\* The locks are guards: leaving a call releases what the actor holds.
Leave(a) ==
  /\ life' = IF life = a THEN Nobody ELSE life
  /\ flagged' = IF flagged = a THEN Nobody ELSE flagged
  /\ Goto(a, IF a = Quitter THEN "exit" ELSE "idle")

-----------------------------------------------------------------------------
(* The sidecar process *)

\* create_and_assign_sidecar_job: on Windows a child ends when its job handle is
\* replaced or closed; elsewhere a dropped handle does not end its process.
JobEnds == os = "windows"

\* A spawned child replaces whatever handle was held.
SpawnSidecar ==
  /\ strays' = strays + IF child = "live" /\ ~JobEnds THEN 1 ELSE 0
  /\ child' = "live" /\ mode' = "Sidecar"

\* stop_core_by_sidecar: the handle is given up whether or not the kill worked.
StopCoreBySidecar ==
  /\ child' = "none" /\ mode' = "NotRunning"
  /\ \/ Works /\ UNCHANGED <<strays, unsure>>
     \/ child = "live" /\ ~JobEnds /\ Fails /\ strays' = strays + 1 /\ unsure' = TRUE

SidecarDies ==
  /\ ~gone /\ child = "live" /\ Fails
  /\ child' = "dead"
  /\ UNCHANGED <<mode, strays, service, life, flagged, at, job, ret, tries, world, unsure>>

-----------------------------------------------------------------------------
(* ServiceManager *)

Target(a) ==
  CASE ret[a] = "idle" /\ job[a] = "install" -> "InstallRequired"
    [] ret[a] = "idle" /\ job[a] = "uninstall" -> "UninstallRequired"
    [] ret[a] = "idle" /\ job[a] = "reinstall" -> "ReinstallRequired"
    [] ret[a] = "idle" /\ job[a] = "repair" -> "ForceReinstallRequired"
    [] OTHER -> IF svc = "ok" THEN "Ready" ELSE "NeedsReinstall"

Operate(a, then) ==
  /\ at' = [at EXCEPT ![a] = "op"]
  /\ ret' = [ret EXCEPT ![a] = then]

\* Only a service start cares how its refresh went.
OperationEnds(a, ok) ==
  /\ Goto(a, IF ret[a] = "call" /\ ~ok THEN "retry" ELSE ret[a])
  /\ ret' = [ret EXCEPT ![a] = "idle"]

\* run_operation: one at a time, a second one is refused.
RunOperation(a) ==
  /\ Here(a, "op")
  /\ \/ /\ operating # Nobody
        /\ OperationEnds(a, FALSE) /\ UNCHANGED <<operating, status>>
     \/ /\ operating = Nobody /\ status' = Target(a)
        /\ IF Target(a) = "Ready"
             THEN OperationEnds(a, TRUE) /\ UNCHANGED operating
             ELSE operating' = a /\ Goto(a, "run") /\ UNCHANGED ret
  /\ UNCHANGED <<mode, child, strays, svc, svcCore, life, flagged, job, tries, world, failures, unsure>>

UninstallService == svc' = "absent" /\ svcCore' = FALSE

\* The service's core goes down with the service it replaces; a plain install
\* may find an older one that it does not replace.
InstallService(found) == svc' \in found /\ svcCore' = FALSE

\* What was uninstalled stays so when the installer then fails.
ReinstallFails == \/ UNCHANGED <<svc, svcCore>>
                  \/ UninstallService

\* apply_service_status, the command it runs.
RunServiceCommand(a) ==
  /\ Here(a, "run")
  /\ \/ /\ status = "UninstallRequired" /\ Works /\ UninstallService
        /\ status' = "Unavailable" /\ operating' = Nobody /\ OperationEnds(a, TRUE)
     \/ /\ status # "UninstallRequired" /\ Works
        /\ InstallService(IF status = "InstallRequired" THEN {"old", "ok"} ELSE {"ok"})
        /\ Goto(a, "wait") /\ UNCHANGED <<status, operating, ret>>
     \/ /\ Fails /\ operating' = Nobody /\ OperationEnds(a, FALSE) /\ UNCHANGED status
        /\ IF status \in {"InstallRequired", "UninstallRequired"} THEN UNCHANGED <<svc, svcCore>> ELSE ReinstallFails
  /\ UNCHANGED <<mode, child, strays, life, flagged, job, tries, world, unsure>>

\* wait_for_service_ipc; an install that finds an old service reinstalls it.
WaitForServiceIpc(a) ==
  /\ Here(a, "wait")
  /\ \/ /\ ~(status = "InstallRequired" /\ svc = "old") /\ Works
        /\ status' = "Ready" /\ operating' = Nobody /\ OperationEnds(a, TRUE)
     \/ /\ status = "InstallRequired" /\ svc = "old" /\ Works
        /\ status' = "NeedsReinstall" /\ Goto(a, "run") /\ UNCHANGED <<operating, ret>>
     \/ /\ Fails
        /\ status' = "Unavailable" /\ operating' = Nobody /\ OperationEnds(a, FALSE)
  /\ UNCHANGED <<mode, child, strays, svc, svcCore, life, flagged, job, tries, world, unsure>>

-----------------------------------------------------------------------------
(* Commands: start, stop and restart the core, and the service's operations *)

Command(a, op) ==
  /\ Here(a, "idle") /\ ~leaving /\ a \in Callers
  /\ calls < MaxCalls /\ calls' = calls + 1
  /\ job' = [job EXCEPT ![a] = op]
  /\ Goto(a, IF op \in {"start", "stop", "restart"} THEN "lock" ELSE "op")
  /\ UNCHANGED <<os, mode, child, strays, service, life, flagged, ret, tries, leaving, gone, failures, unsure>>

Lock(a) ==
  /\ Here(a, "lock") /\ life = Nobody /\ life' = a
  /\ Goto(a, IF job[a] = "start" THEN "start" ELSE "stop")
  /\ UNCHANGED <<mode, child, strays, service, flagged, job, ret, tries, world, failures, unsure>>

\* stop_core_inner: by whatever mode the core runs in.  A failing stop ends a
\* restart, with the mode NotRunning all the same.
StopCoreInner(a) ==
  /\ Here(a, "stop")
  /\ LET onward == IF job[a] = "restart" THEN Goto(a, "start") /\ UNCHANGED <<life, flagged>> ELSE Leave(a)
     IN  \/ /\ mode = "Service" /\ svc # "absent" /\ Works
            /\ mode' = "NotRunning" /\ svcCore' = FALSE /\ onward /\ UNCHANGED <<child, strays, unsure>>
         \/ /\ mode = "Service" /\ ((svc = "absent" /\ Works) \/ Fails)
            /\ mode' = "NotRunning" /\ svcCore' \in {svcCore, FALSE} /\ unsure' = TRUE
            /\ Leave(a) /\ UNCHANGED <<child, strays>>
         \/ mode = "Sidecar" /\ StopCoreBySidecar /\ onward /\ UNCHANGED svcCore
         \/ mode = "NotRunning" /\ Works /\ onward /\ UNCHANGED <<mode, child, strays, svcCore, unsure>>
  /\ UNCHANGED <<svc, status, operating, job, ret, tries, world>>

\* Mutant: a start does not look for a core that runs.
StartCoreInner_Again(a) ==
  /\ Here(a, "start")
  /\ IF leaving THEN Leave(a) ELSE Goto(a, "prepare") /\ UNCHANGED <<life, flagged>>
  /\ UNCHANGED <<mode, child, strays, service, job, ret, tries, world, failures, unsure>>

\* start_core_inner: nothing while leaving or when a core runs already.
StartCoreInner(a) ==
  /\ Here(a, "start")
  /\ IF leaving \/ mode # "NotRunning" THEN Leave(a) ELSE Goto(a, "prepare") /\ UNCHANGED <<life, flagged>>
  /\ UNCHANGED <<mode, child, strays, service, job, ret, tries, world, failures, unsure>>

\* wait_for_service_if_needed: connect to a service that is not ready and refresh.
WaitForService(a) ==
  /\ Here(a, "prepare")
  /\ \/ os = "windows" /\ svc # "absent" /\ status # "Ready" /\ Works /\ Operate(a, "choose") /\ UNCHANGED status
     \/ os = "windows" /\ svc # "absent" /\ status # "Ready" /\ Fails /\ status' = "Unavailable" /\ Goto(a, "choose") /\ UNCHANGED ret
     \/ Works /\ Goto(a, "choose") /\ UNCHANGED <<status, ret>>
  /\ UNCHANGED <<mode, child, strays, svc, svcCore, operating, life, flagged, job, tries, world, unsure>>

\* prepare_startup reads the status once no operation runs, and sets the mode
\* before anything has started.
PrepareStartup(a) ==
  /\ Here(a, "choose") /\ operating = Nobody
  /\ mode' = IF leaving THEN "NotRunning" ELSE IF status = "Ready" THEN "Service" ELSE "Sidecar"
  /\ tries' = [tries EXCEPT ![a] = 0]
  /\ IF leaving THEN Leave(a) /\ UNCHANGED ret
     ELSE (IF status = "Ready" THEN Operate(a, "call") ELSE Goto(a, "spawn") /\ UNCHANGED ret) /\ UNCHANGED <<life, flagged>>
  /\ UNCHANGED <<child, strays, service, job, world, failures, unsure>>

\* spawn_service_handoff_watcher: one watcher at a time.
SpawnWatcher == IF os = "windows" /\ at[Watcher] = "idle" THEN [at EXCEPT ![Watcher] = "sleep"] ELSE at

\* start_core_by_sidecar; on success the hand-over watcher starts, once.
StartCoreBySidecar(a) ==
  /\ Here(a, "spawn")
  /\ \/ /\ Works /\ SpawnSidecar
        /\ life' = IF life = a THEN Nobody ELSE life
        /\ flagged' = IF flagged = a THEN Nobody ELSE flagged
        /\ at' = [SpawnWatcher EXCEPT ![a] = "idle"]
     \/ Fails /\ mode' = "NotRunning" /\ Leave(a) /\ UNCHANGED <<child, strays>>
  /\ UNCHANGED <<service, job, ret, tries, world, unsure>>

\* start_core_by_service, after its refresh: ask the service to run the core.
StartWithExistingService(a) ==
  /\ Here(a, "call")
  /\ \/ /\ svc # "absent" /\ Works
        /\ svcCore' = TRUE /\ mode' = "Service" /\ Leave(a) /\ UNCHANGED unsure
     \/ /\ ((svc = "absent" /\ Works) \/ Fails) /\ svcCore' \in {svcCore, svc # "absent"}
        /\ unsure' = TRUE
        /\ Goto(a, "retry") /\ UNCHANGED <<mode, life, flagged>>
  /\ UNCHANGED <<child, strays, svc, status, operating, job, ret, tries, world>>

\* The bounded retries; then a start gives up and the watcher goes back to a sidecar.
Attempts == IF os = "windows" THEN StartRetries ELSE 1

RetryServiceStart(a) ==
  /\ Here(a, "retry")
  /\ \/ /\ tries[a] + 1 < Attempts
        /\ tries' = [tries EXCEPT ![a] = @ + 1] /\ Operate(a, "call") /\ UNCHANGED <<mode, life, flagged>>
     \/ /\ tries[a] + 1 >= Attempts /\ UNCHANGED <<tries, ret>>
        /\ IF a = Watcher
             THEN Goto(a, "spawn") /\ UNCHANGED <<mode, life, flagged>>
             ELSE mode' = "NotRunning" /\ Leave(a)
  /\ UNCHANGED <<child, strays, service, job, world, failures, unsure>>

-----------------------------------------------------------------------------
(* The hand-over watcher *)

\* It ends when its window is over or the core no longer runs as a sidecar.
WatcherWakes ==
  /\ Here(Watcher, "sleep")
  /\ \/ Works /\ Goto(Watcher, "idle") /\ UNCHANGED <<status, ret>>
     \/ mode = "Sidecar" /\ svc # "absent" /\ Works /\ Operate(Watcher, "handoff") /\ UNCHANGED status
     \/ mode = "Sidecar" /\ svc # "absent" /\ Fails /\ status' = "Unavailable" /\ UNCHANGED <<at, ret>>
  /\ UNCHANGED <<mode, child, strays, svc, svcCore, operating, life, flagged, job, tries, world, unsure>>

\* A ready service and no configuration update: ask for the lifecycle lock.
TryHandoff ==
  /\ Here(Watcher, "handoff") /\ operating = Nobody
  /\ IF status = "Ready" /\ flagged = Nobody
       THEN flagged' = Watcher /\ Goto(Watcher, "hold")
       ELSE Goto(Watcher, "sleep") /\ UNCHANGED flagged
  /\ UNCHANGED <<mode, child, strays, service, life, job, ret, tries, world, failures, unsure>>

\* Under the lock everything is looked at again; then the sidecar is stopped.
Handoff ==
  /\ Here(Watcher, "hold") /\ life = Nobody
  /\ IF mode = "Sidecar"
       THEN /\ life' = Watcher /\ StopCoreBySidecar
            /\ tries' = [tries EXCEPT ![Watcher] = 0]
            /\ Operate(Watcher, "call") /\ UNCHANGED flagged
       ELSE Leave(Watcher) /\ UNCHANGED <<mode, child, strays, tries, ret, failures, unsure>>
  /\ UNCHANGED <<service, job, world>>

-----------------------------------------------------------------------------
(* Leaving *)

Quit ==
  /\ ~gone /\ ~leaving /\ leaving' = TRUE
  /\ job' = [job EXCEPT ![Quitter] = "stop"] /\ Goto(Quitter, "lock")
  /\ UNCHANGED <<os, mode, child, strays, service, life, flagged, ret, tries, gone, calls, failures, unsure>>

\* clean_async gives stop_core two seconds, then leaves without it.
QuitTimesOut ==
  /\ ~gone /\ at[Quitter] \in {"lock", "stop"}
  /\ unsure' = TRUE /\ Leave(Quitter)
  /\ UNCHANGED <<mode, child, strays, service, job, ret, tries, world, failures>>

Exit ==
  /\ Here(Quitter, "exit") /\ gone' = TRUE
  /\ child' = IF JobEnds THEN "none" ELSE child
  /\ UNCHANGED <<os, mode, strays, service, life, flagged, at, job, ret, tries, leaving, calls, failures, unsure>>

Rest ==
  /\ gone \/ (calls = MaxCalls /\ \A a \in Actors : at[a] = "idle")
  /\ UNCHANGED vars

Step(a) ==
  \/ RunOperation(a) \/ RunServiceCommand(a) \/ WaitForServiceIpc(a)
  \/ Lock(a) \/ StopCoreInner(a) \/ StartCoreInner(a) \/ WaitForService(a) \/ PrepareStartup(a)
  \/ StartCoreBySidecar(a) \/ StartWithExistingService(a) \/ RetryServiceStart(a)

Next ==
  \/ \E a \in Actors : Step(a)
  \/ \E a \in Callers, op \in {"start", "stop", "restart", "install", "uninstall", "reinstall", "repair"} : Command(a, op)
  \/ SidecarDies \/ WatcherWakes \/ TryHandoff \/ Handoff \/ Quit \/ QuitTimesOut \/ Exit \/ Rest

Spec == Init /\ [][Next]_vars

-----------------------------------------------------------------------------
(* Properties *)

\* At most one core process exists, in the service or as a sidecar, while starts,
\* stops, service operations and the hand-over interleave; only a kill that failed
\* or a service call whose outcome was not learnt can leave a second one.
OneCore == ~unsure => strays = 0 /\ ~(child = "live" /\ svcCore)

\* An application that has left with its stop confirmed leaves no core behind:
\* nothing that was queued or on its way starts one after the stop.
QuitStopsTheCore == gone /\ ~unsure => child # "live" /\ ~svcCore
=============================================================================
