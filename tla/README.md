# KyClash: TLA+ models, TLC runs and TLAPS proofs

KyClash is a Tauri desktop client built on Clash Verge. Its own core is the private networking
domain: a Rust service under `src-tauri/src/networking/` that connects and disconnects a private
tunnel, a Go sidecar that carries it, and two privileged macOS daemons that own routes and the
tunnel device. Around it is the desktop: the profile list, the configuration of the Mihomo core, the
core's own lifecycle, timers, updater, backups and the shell. This directory models both, the
network in more depth. Paths below are relative to the repository.

Contents: [inventory](#inventory), [modules](#modules-and-the-code-they-model), [runs](#runs),
[fairness](#fairness), [findings](#findings), [proofs](#proofs), [plan](#plan),
[not modelled](#not-modelled).

## Inventory

### Components, their state, their operations

| component | state it keeps | operations | where | module |
|---|---|---|---|---|
| Route transaction | the routing table (operating system), a journal file with one entry per transaction | apply, rollback, recover_stale | `networking/route.rs`, `macos_route.rs`, `bin/kyclash-route-lab.rs` | `RouteTransaction`, `RouteAddresses` |
| Production controller | an actor: lifecycle label, crash count, runtime generation, proof of absence, command channel, cancellation registry | start, start_broker_bound, request, cancel, poll, shutdown, retire, drop of all handles | `networking/production_controller.rs` | `ProductionController` |
| Production service | mutation gate, operation epoch, status, lifecycle mutex, heartbeat slot, `routes_active` | reserve, connect, cancel, disconnect, try_retire; a monitor with a health loop, a fallback and a lease loop | `networking/production_service.rs` | `ProductionService` |
| Command layer | materialize mutex, catalog, selected variant, factory, current service generation | initialize, select_policy_variant, connect, cancel, disconnect | `cmd/networking_production.rs` | `Generations` |
| Policy identity store | a durable record: revision and identity of the catalog accepted last | load, decide, publish, undo | `networking/policy_identity_store.rs` | `PolicyStore`, `PolicyRegister` |
| Composition | token, device key, broker session, launch material, authorization | build a launch, handshake, authorize routes | `networking/production_composition.rs`, `production_session.rs`, `credentials.rs` | `Composition` |
| Profile rules | none | validate (schema 1 and production), validate_owner, validate_plan | `networking/config.rs`, `route_helper.rs` | `PolicyRules` |
| Sidecar runtime | child process, request correlation, deadlines, the two streams | start, request, cancel, status, stop, drop | `networking/stdio_runtime.rs`, `ipc.rs`, `tunnel_broker_client.rs` | `SidecarRuntime`, `IpcProtocol`, `NativeReplies` |
| Go sidecar | serve loop, one cancellable operation, session, carrier | apply profile, prepare tunnel, connect, disconnect, health | `network-sidecar/internal/ipc/` | `SidecarRuntime`, `IpcProtocol` |
| Sidecar supervisor | lifecycle, crash window, back-off | start, poll, stop | `networking/sidecar.rs` | `Supervisor` |
| Data plane controller | route, tunnel and carrier in use | connect, sample_health, reconnect_after_network_change, disconnect | `networking/data_plane.rs`, `state.rs` | `DataPlane` |
| v3 route lease | the Rust boundary (app), the XPC client, the helper's journal and registration, the broker's session | discover, begin (hold), apply, heartbeat, rollback (retire, release), recovery at start, watchdogs | `networking/broker_bound_route_v3.rs`, `route_helper_v3_client.rs`, `macos/route-helper/`, `macos/tunnel-broker/` | `TunnelBroker`, `RouteHelper`, `RouteLease`, `NativeReplies` |
| Injectable v3 composition | one journal record, the broker's hold, the routes | prepare, apply, rollback, resume | `networking/production_route_v3.rs` | `RouteSessionV3` |
| v2 route boundary | native connection, frozen owner, the helper's lease | begin, apply, heartbeat, rollback, reconcile, try_retire | `networking/route_helper_client.rs` | `RouteBoundaryV2` |
| Lab commands | worker, stop signals, handshake gate; one kept session | start, stop, status; connect, disconnect, status | `cmd/networking_external_peer_lab.rs`, `networking_userspace_lab.rs` | `ExternalPeerLab`, `UserspaceLab` |
| Profile list and configuration | drafts of profiles, settings and runtime configuration, the files, the update flag, the running core's configuration | switch, create, import, update, delete, reorder, save, patch, restart, quit | `cmd/profile.rs`, `config/`, `feat/`, `crates/clash-verge-draft` | `DesktopConfig`, `ProfileFiles`, `NodeActivation` |
| Enhancement | none | enhance: merge, script, own settings, control plane, clean-up of groups | `enhance/` | `Enhance` |
| Core manager | running mode, child, the privileged service, lifecycle lock | start, stop, restart, hand-over, quit | `core/manager/`, `core/service.rs` | `CoreManager` |
| Timers, updater, backup | delay queue and task map; two cache files; archives, WebDAV clients | refresh, expire; check, install; back up, restore, upload | `core/timer.rs`, `updater.rs`, `backup.rs`, `module/auto_backup.rs` | `ProfileTimer`, `Updater`, `Backup`, `WebDav` |
| Desktop shell | registered keys, the desktop's proxy and its guard, the window and its page | register, focus; update, reset, guard; show, close, lightweight mode, reload | `core/hotkey.rs`, `sysopt.rs`, `utils/window_manager.rs`, `module/lightweight.rs` | `Hotkey`, `Sysopt`, `MainWindow` |

`PROJECT.json` lists all of them, and the parts without a module, with what is and what is not
modelled.

### How they interact

A user command takes the materialize mutex, reserves a connect at the service's gate and spawns a
task. The task takes the service's lifecycle mutex and asks, in this order, the controller for a
sidecar, the sidecar for a profile, a tunnel and a carrier, and the route boundary for routes. It
then publishes the connection and leaves a monitor behind: one task that runs a health loop (poll,
sample, fall back to the next carrier) and a lease loop (renew the route lease) side by side. Any
failure runs the same cleanup in the opposite order: routes, carrier, tunnel, process. The
controller is an actor behind a bounded channel; cancellation goes past the channel through a
shared registry of flags. The route boundary is a blocking call into a privileged helper, which
journals what it does before it does it. A generation is replaced by retiring it: the gate closes,
the boundary gives up its right to install routes and the controller proves that its child is gone.
The next generation is composed for the variant the user has selected, and only for a catalog the
policy store has accepted: a record on disk that several processes share and that may only grow.

On the desktop, commands run as concurrent tasks over `Draft` registers (a committed value and an
optional draft). One update pipeline turns the current profile into the configuration the core
runs: generate, check with `-t`, put or restart. An atomic flag, a modification permit and the core
manager's lifecycle lock exclude some of the overlaps and not others.

### What is hard here

* **Interleaving at awaits.** Cancel and disconnect arrive while connect waits for any of eight
  answers, and while the monitor falls back. Status, operation, heartbeat slot and gate have a lock
  each; code that looks at one, releases it and acts on another decides on stale state.
* **Ambiguous outcomes.** A request that times out may still have happened. A failed stop proves
  nothing. A journal save that fails leaves the old document, a route call that panics leaves an
  unknown table.
* **Order of ownership.** Ownership of a route must be durable before the route exists, and must
  stay so until the route is gone, whatever fails and wherever the process dies.
* **Identity reuse.** An operation id, or a registration, may be reused while the answer to its
  former owner is on the way.
* **Identity of answers.** One stream carries the answers of every request; a cancel may cross the
  completion of what it cancels, and a native reply may be late or of another session.
* **Monotone state across crashes.** An accepted policy revision must survive a power loss at every
  step of a file replacement, and a publication that is refused must be undone.
* **Drafts across awaits.** A command edits a draft, awaits the core, and then applies or discards it,
  while another command reads, edits or applies the same draft.
* **Convergence.** A dead child, a lost lease or an accepted cancellation must be noticed by
  somebody, and nobody may wait for a task that waits for him.

Each of these, at the line where it bites and with the property that would catch it, is an entry of
`hazards` in `PROJECT.json`.

### What makes each component correct

* Route transaction: an installed route is always named by a journal entry that recovery will undo;
  a reported cleanup is real; success means every route is there; nobody else's route is taken.
* Controller: at most one child; a proof of absence is true; a retired actor owns nothing for ever;
  restarts are bounded; a registration lives exactly as long as its request.
* Service: a published Disconnected is the absence of everything; routes are released before what
  carries them; two carriers are never up; a published connection has a lease keeper; a retired
  generation is empty; a join never waits for a task that waits for its caller's mutex.
* Command layer and policy store: one generation owns the broker; what connects is what is selected
  and accepted; the accepted revision never goes back; a refused publication leaves no trace.
* Sidecar runtime: between calls the stream is empty; an answer is true of the sidecar; a child is
  called gone only when it is.
* Route lease, and the two other route sessions: an installed route is journaled and its session
  held, and the broker never reaps a tunnel under it; a hold is always backed by a record; a rollback
  reported Ok is clean; after the loss of the app everything is eventually cleaned.
* Profile list: the current profile exists, an added profile is kept, no draft is left behind, a
  switch ends, and the core runs what the list calls current.
* Core manager: at most one core, none after a confirmed quit.
* The rest: a timer that never forgets a profile, an installed release the user agreed to, backups
  that are what they say, keys, proxy and window that follow the settings.

## Modules and the code they model

### `RouteAddresses` — CIDR arithmetic of `route.rs`, and the other readers of a CIDR

Pure operators: `Mask`, `Parse`, `OverlapsWith` (the mask comparison of `IpNetwork::overlaps`),
`Permits` and `Conflict` (the rule of `reject_conflicts`, with its exception for a covering route of
the Mihomo TUN) and `ValidPlan`. The code computes in `u128` for both address families, so the width
is a parameter and the shift wraps `% 2^WordBits` as it does there. `Members` is the reference: the
set of addresses a prefix stands for. The two other readers of a CIDR are the owner tuple of the helper,
and the table netstat prints, whose shortened destinations are modelled as it prints them. All share
addresses in octets of two bits.

### `RouteTransaction` — `RouteOrchestrator` of `route.rs`

State: `table` (the operating system's routes, with a history of who installed each, which no guard
reads), `journal` (the file), and the running call: `entry` (its copy in memory), `cur`, `op`, `pc`,
`failure`, `stale`, `result`. Every journal save and every platform call is a step with a failing
alternative, and `Crash` may come between any two: only `table` and `journal` survive it. An entry
keeps the length of its applied prefix, since the code pushes in order and pops from the end.
`apply` is `ApplyKnown`, `ApplyConflict` or `ApplyBegin` followed by `SavePrepared`, `SavePending`,
`AddRoute`, `SaveAdded` (or `SaveNotAdded`), `SaveApplied`; `rollback` and `recover_stale` share
`RemovePending`, `RemoveLast`, `SaveRemoved`, `SaveRolledBack` (`rollback_entry`). One process holds the
journal (`LabLock`), so one call runs at a time; `RecoverFirst` says whether callers recover before
anything else, as the route lab does.

Other programs install and remove routes at any moment (`Foreign`), also the very routes of a plan: one
may appear after `apply` has listed the table and before it adds, or before recovery deletes. `stood` is a
history of what stood when a transaction's `apply` listed the table and has stood since; no guard reads it.
Of `/sbin/route` the model assumes that it refuses to add a destination that is present; whether it exits with
success when it is to delete an absent one is a constant (`DeletesAbsent`), since `remove_route` takes any
other exit for an error. With FALSE the invariants and the theorems stay, and only `CrashIsCleanedUp` is
lost: recovery then stops for good at a route that is no longer there. Other programs are assumed not to
delete KyClash's routes. `MCRouteTransaction.cfg` instantiates the module.

### `ProductionController` — the actor of `production_controller.rs`

The handle's operations (`Send`, `SendRequest`, `Cancel`, `DropHandles`) run whenever callers like;
the actor takes one command at a time (`Receive`) but waits inside a command: `pc` is what it waits
for ("start", "request", "stop") and `cont` why it stops the runtime. `AfterStop` is what the command
does after the stop. The runtime is a boundary: `StartReturns`, `RequestReturns` and `StopReturns`
enumerate what it may answer and what it may have done — a failed start may have left a child, only
a stop that returned Ok has reaped it. `regs` and `cancelled` are the registry: tokens, not operation
ids, carry the flag, and a token is reused once nothing refers to it. `alive`, `spawned`, `claimed`
and `restarts` record what happened outside; no guard but those of the boundary reads them. Both
controller modes are initial states (`bound`).

### `ProductionService` — one generation of `production_service.rs` and its commands

Four processes. `front` is the command that holds the materialize mutex: reserve, cancel, disconnect
or retire. `conn` is the spawned connect task. `health` and `lease` are the two loops of the
monitor; they are branches of one `tokio::join!`, so each runs undisturbed by the other until it
awaits (`At`). **A step ends where the code awaits, or drops a lock and takes it again**; what the
code does under one lock is one step. `lock` is the lifecycle mutex. The mutation gate is `gate`
with `reserved`; its leases and tickets are read off the program counters (`InFlight`, `RouteTask`).
The controller and the route boundary are boundaries: a request answers only while the child lives,
is cancelled, or fails, and then what it did remotely is open (`RequestFails`, `ConnectFails`,
`ShutdownFails`, `LeaseAfterFailure`). Errors are the three classes the code tells apart
(`fatal_sidecar_error`): cancelled, fatal, other. A cancellation nobody asked for counts as fatal
(`Authoritative`). Data left out: reasons and texts of the status, metrics, the clock (every sleep
and every deadline may end at any time).

### `TunnelBroker`, `RouteHelper`, `RouteLease` — the v3 lease between app, helper and broker

Three layers, each extending the one before it; `RouteLease` has the composed specification.

`TunnelBroker` is `TunnelBrokerCoordinator` of `macos/tunnel-broker/main.swift`. Its state is one
session (`sess`, a generation), what its lease record says (`appHere`, `held`, `released`,
`recovery`), the one `tombstone`, and the children. A lease names its session's generation, which
stands for the full tuple of identifiers the code compares. The coordinator drops its lock while it
stops a child, so a stop is two steps: `Stop`, `AppInvalidated` or `ReleaseV3` adds to `reaping`, and
`Reaped` looks at the session again. The termination handler (`ChildExited`) and the loss of the app
connection (`AppInvalidated`) run when they like. `executed` is a history of released leases, which
no guard reads.

`RouteHelper` is `RouteHelperV3Coordinator` of `macos/route-helper/main.swift` with its journal store
and its listener. `disk` is the journal file, `mem` the coordinator's copy; `table` is the kernel's
routes. The coordinator holds one lock over an operation, so operations exclude each other, but
every journal write, route change and broker call is a step (`hpc`), with a failing alternative, and
`HelperCrashes` may come between any two. `persist` renames before its last checks, so a write that
reports failure may have happened: `PersistFails` leaves either file. A route command that fails may
have changed the table. The applied CIDRs are a prefix of the owner's list, since `apply` appends in
order and `retireLocked` removes from the end. A call to the broker that times out goes to `late`
and is executed later or lost (`LateArrives`). Connections of the app are numbers; a new one is a
larger one, a smaller one is dead, and the helper accepts them in order, one at a time (`Serve`,
`Refuse`, `Close`). launchd starts the helper when a message is waiting.

`RouteLease` adds the app: `DeferredV3ProductionRouteBoundary` (`Connect`, `Discovered`, `Begun`,
`Settle`, `Heartbeat`, `Rollback`, `Undone`, `Abandon`), its XPC client (`Send`, `Freeze`,
`CallTimesOut`; `term` is a client that has ended for good) and the controller's start and stop of a
session. A reply is one of three kinds the client tells apart: "ok", "error" (a failure that names
the lease) and "bare" (a reply without the lease's reference, which ends the client). A drop of the
boundary sends one rollback and goes, which is `Rollback` followed by `AppCrashes`. Faults of every
kind share one budget (`Faults`, `MaxFaults`).

### `PolicyRegister`, `PolicyStore`, `Generations` — the accepted policy and the generations built on it

`PolicyRegister` is the abstract specification: a chain of accepted catalogs whose revision only
grows; a foreign write ends the promise (`Forget`). `PolicyStore` is the transaction of
`policy_identity_store.rs`, run by several processes: the lock, the snapshot, the classification
against the record, the second verification, the temporary file with its fsync, the rename, the
checks after it and, when they fail, the undo. A record carries the file (inode) it came from, since
the code compares snapshots by identity as well as by content. A power loss (`PowerLoss`) forgets what no
fsync has made durable; a program outside the protocol may write at any time. `Register` is
the refinement mapping (`AcceptsMonotonically == Register!Spec`).

`Generations` adds the commands of one application: the catalog that was loaded, the selected
variant, the prepared factory and the service slot. A generation is seen from outside ("reserved",
"busy", "fresh", "spent", "failed", "recovery"); `ProductionService` is its inside.

### `SidecarRuntime`, `IpcProtocol`, `NativeReplies` — what the app hears and believes

`SidecarRuntime` has the runtime of `stdio_runtime.rs` over both launchers, the broker as the process
handle sees it, the two streams as sequences of frames and the Go serve loop with its one
cancellable operation. A call of the runtime is a program counter; a cancel token may be raised at
any time, a deadline may pass at any wait, and a start may be refused before there is a child: the
binary is not trusted, or cannot be spawned (`StartRefused`). A request the sidecar answers with an error
may have taken the carrier down before it failed. `IpcProtocol` has the rules for which answer to which
request is accepted against what the sidecar's session may answer, a stale answer included.
`NativeReplies` enumerates, field by field, what the two C surfaces may hand over and which of it the
v3 helper client and the broker client accept.

### `Composition`, `PolicyRules`, `DataPlane`, `Supervisor`

`Composition` is the order in which a launch acquires its parts, by two builders that share the
keychain and the broker. A session may end at any moment (the child exits, the broker drops it) and the
broker then serves another build; `authorize_routes` does not ask whether its session is still held, so
what is checked is that the authorization names the child of its own launch. `PolicyRules` are the profile
rules, as predicates over records of what a parser finds in a text, over the prefixes of `RouteAddresses`.
The rules of schema 1 and 2 refuse each other's version, and the code converts neither into the other: what
is compared is the networks of a production profile with the rules of the helper and of the transaction.
`DataPlane` writes each call as the set of its outcomes, since every call runs to its end under
`&mut self`; a disconnect that fails may have taken the carrier down or not. `Supervisor` runs on the clock
its caller passes in.

### `RouteSessionV3`, `RouteBoundaryV2` — the two other route sessions

`RouteSessionV3` is the injectable composition: one journal record moved one durable transition at a
time around the hold and the routes, and `resume` from whatever record is found. `new` itself looks at no
journal: that it is called only where the journal holds nothing to resume is the duty of whoever composes it,
which no code does at this commit, and the model takes it for done (`LeftByJournal`). `RouteBoundaryV2` is
the v2 boundary: a call that breaks ends its native connection, may still be carried out, and freezes
the owner until the helper says, on a fresh connection, that it is idle.

### `ExternalPeerLab`, `UserspaceLab`

The laboratories the application can be built with. The first races stop commands with a worker that
holds a handshake gate, on a session that its peer may close and that a request without an answer shuts
(`kill_owned` and `abort.cancel`); the worker looks at `hard_aborted` after the stop. The second runs one
command at a time against a sidecar that may refuse, die
or hang between any two requests.

### `DesktopConfig`, `ProfileFiles`, `NodeActivation`, `Enhance`, `CoreManager` — the desktop's core

`DesktopConfig`: two tasks execute any of thirteen commands; **a step is a stretch of code between two
suspension points, or between two acquisitions of a draft's lock**: what a refused switch does to put the
former profile back is a discard, an edit and an apply, and another command may come between the last two.
The drafts are records of `data` and `draft`; `core` is the configuration the core runs; the check, the
core and the file system answer nondeterministically, and a switch may meet its deadline. A reorder may
name a profile that is not listed, or no longer. `ProfileFiles` is how items, their extension files and
`profiles.yaml` are written, in which order, through crashes, and what the sweep of the next start deletes; a
switch drafts a copy of the list, which a refused one may put in the place of a newer list. A download that is
refused is tried again by the other proxies. `NodeActivation` is the chain of activation tasks, each waiting
for the one before it. `Enhance` is the pipeline over classes of values: a value is the name of who gave it. A
subscription may have a key in lower case, in capitals or in both spellings. `CoreManager` is the lifecycle in
sidecar and service mode, with the watcher's hand-over on Windows and quit with its deadline; a kill that
fails is only logged, and may leave its core running (`unsure`).

### `ProfileTimer`, `Updater`, `Backup`, `WebDav`, `Hotkey`, `Sysopt`, `MainWindow` — the shell

Each is one source component with the tasks that run into it:

* `ProfileTimer`: edits against the scheduler and its delay queue. Most edits are followed by a refresh; an
  update that takes an interval from the server's header is not (`untold`).
* `Updater`: kills between the two files of the update cache. `APP_UPDATES_ENABLED` is false at this commit, so
  that nothing of it runs; it is a constant of the model, TRUE in the run, which shows what the code does
  once the gate is opened.
* `Backup`, `WebDav`: triggers, scheduler, user and restore over the archives; an account saved while a client
  is built. Saving an account applies it, writes the file, which may fail and then ends the command, and
  resets the clients: three steps. The temporary files of the commands are left out.
* `Hotkey`: focus events handled late. `init` reads the settings, registers key by key, passes over the
  keys the desktop refuses, and stores what it read.
* `Sysopt`: updates under `update_lock` against a reset that does not take it.
* `MainWindow`: a page that dies, a lightweight mode that destroys the window, and an operation limiter that
  drops calls. A reload may be refused, the timer of the lightweight mode may fail to start, and a change
  of that mode sets the listeners before `patch_verge` commits the setting. A failing show or set_focus is
  left out, and one change of the settings runs at a time.

### `Parts`, `MCParts` — parts that share no state

The parts that share no variables with the rest are checked together. A behaviour is one of the part
named by `which`, chosen in the initial state and never changed. The parts therefore do not interleave,
and the state space is the sum, not the product, of theirs. Each property is guarded by `which`.

`Parts` takes the seventeen parts that the proofs can reach, each with its own variables' names; a name
that several parts use is one variable, and what a part does not use is 0 (`Unused`, `Unchanged`). It has
no definitions of its own but these, its properties and the named assumptions on its constants, so that
`PartsProofs` proves about exactly what the run checks. A constant that several parts have is shared too:
`MaxFaults`, `Callers`, `MaxEdits`.

`MCParts` has the four that stay with TLC: the profile rules (which it extends, so that TLC evaluates the
assumptions of the address module), the carriers of the data plane, the supervised child and the timer.
Their variables are mapped to the slots `v1`, `v2`, …; the slots a part does not use stay 0.

Definitions named `<Definition>_<something>`, each under a comment "Mutant", are deliberate
mistakes: with one of them in the place of the definition, TLC must find the property violated
that `PROJECT.json` names with it.

## Runs

| run | instance | distinct states | properties |
|---|---|---|---|
| `route_transaction` | two transactions, two plans of two routes that share one, a program that installs and removes a VPN's route and the shared one, three failures or crashes | 80,424 | `OwnedIsJournaled`, `ReportedCleanupIsReal`, `RoutesAreExact`, `CrashIsCleanedUp` |
| `production_controller` | one operation id, a channel of two, five generations, the code's three crashes, both modes | 113,517 | `AtMostOneChild`, `AbsenceIsTrue`, `RetiredForGood`, `BooksAreExact`, `ActorSettles` |
| `production_service` | two connects, two carriers, threshold two | 810,279 | `DisconnectedIsClean`, `RoutesOutermost`, `LeaseIsKept`, `NothingIsShared` |
| `production_service_liveness` | one connect, two carriers, threshold one | 65,102 | `CommandsSettle` |
| `cancel_is_final` | one connect | | `CancelIsFinal`: a violation, see findings |
| `route_lease` | two sessions, two CIDRs, three faults of any of the eight kinds | 2,243,351 | `RoutesAreUnderLease`, `LeaseIsRecorded` |
| `route_lease_liveness` | two sessions, one CIDR, the app and the sidecar may die, two faults | 92,615 | `AppLossIsCleaned` |
| `generations` | this application and a second process, three catalogs of which two share a revision, two variants, two generations, one bundle update, one power loss or foreign write | 2,133,898 (up to the symmetry of the two) | `OwnersAreExact`, `AcceptsMonotonically`, `AdmittedIsAccepted` |
| `sidecar_runtime` | both launchers, three kinds of request, four calls, one fault | 893,915 | `StreamIsClean`, `AnswersAreTrue`, `CallsEnd` |
| `desktop_config` | two tasks, any two of thirteen commands on a list of three profiles, a reorder that names a profile created meanwhile or not at all, one failing call | 805,222 | `ListIsSound`, `RunningIsCurrent`, `SwitchReturns` |
| `parts` | seventeen parts: two builders, operations, callers, profiles, requests, keys, savers, ports; three faults, releases and events | 3,030,184 (up to the symmetry of the two of a kind) | `LeasesAreNeverLost`, `RepliesAreTrue`, `LaunchIsProven`, `LabsAreTrue`, `CoresAreAccountedFor`, `ListedIsStored`, `ConfigIsSound`, `DesktopFollows`, `ChoicesAreKept`, `InstallsWhatWasOffered`, `BackupsAreSound` |
| `more_parts` | the profile rules, the data plane, the supervisor, the timer | 463,567 | `ChildAndCarriersAreAccountedFor`, `RulesAreSound`, `UpdatesKeepComing` |

Why the bounds are enough for the cases that matter:

* *Routes.* Two transactions are needed for one to remove the other's route, two routes for a
  rollback that stops half way. The route that another program also installs is the one both plans share. Three
  failures cover a failed apply whose rollback fails and whose
  recovery is interrupted again.
* *Controller.* One operation id is the hard case: it is reused while the answer to its former
  request is on the way (a shutdown clears the registry). The crash limit is the code's own; five
  generations allow all restarts and then the exhausted counter.
* *Service.* With two connects the second starts from what the first left. With two carriers a
  fallback exists and can be exhausted. With threshold two the counter must be reset to stay in
  range. The liveness run and the violation run use one connect: their scenarios lie within one.
* *Lease.* The second session meets what the first left behind: a late hold, an old tombstone, a
  record of a lease that is over. Two CIDRs are the least for a retirement that stops between two
  routes. Three faults allow a lost message, a failing save while it is repaired, and a crash.
  Generations are unbounded in practice (`Int64.max`); `Sessions` caps them.
* *Generations.* Two catalogs of one revision are the equivocation the store must refuse; a second
  process makes the snapshot stale; two generations are a replacement.
* *Sidecar.* Four calls are a start, a request with its cancel, the request that could take the
  late answer, and a stop.
* *Desktop.* Two commands race; a list of three has a current profile, a target and a bystander to
  delete. One failure is enough for each error path, since every path ends its command.
* *Parts.* Two of everything that races (builders, callers, requests, savers) and one quit. Three faults are
  a call that fails, its repair that fails and a crash or a late call after it. Two profiles are one that is
  imported or deleted and a bystander; a profile with one extension already is two items, the least for a
  request that stops between them. Three releases are a pre-release, its release and a later one. Two edits
  cross a restore or an update.
  The two builders, callers, requests, nodes, keys and savers are model values that the run swaps
  (`RunSymmetry`): a part treats the two of a kind alike, and the properties checked are safety.
  For nine of the eleven properties the bounds do not matter beyond that: they are theorems. The comments
  in `MCParts` say why its bounds are enough.

`CHECK_DEADLOCK FALSE` is set where the system may rest: an actor that has ended, a service nobody
uses, a lease whose last session is over, and the parts whose bounds are used up. The route
transaction never stops and is checked for deadlock; so is the desktop's configuration, which may rest
(`Settled`) only when every command is over.

Several properties join named parts, each with a comment of its own in its module:

* `RoutesAreExact` — an apply answered Ok has installed every route, and a transaction removes its own
  routes, never another transaction's, and of other programs none that stood when it listed the table and has
  stood since. `ReportedCleanupIsReal` — and a cleanup answered Ok has removed them.
* `BooksAreExact` — a bound run is claimed once, restarts are bounded, a registration lives exactly
  as long as its request, and a request ends only its own. `ActorSettles` — requests are answered,
  and dropping the handles ends the actor.
* `DisconnectedIsClean` — a published Disconnected is the absence of routes, carriers, monitor and
  child (but for the child the broker prepared for a start that was not tried).
  `RoutesOutermost` — whoever stops a carrier, the tunnel or the sidecar has proved the routes absent
  first. `LeaseIsKept` — a published connection has a lease keeper, unless it was asked to stop.
  `NothingIsShared` — two carriers are never up together, even when a request missed its deadline
  and succeeded afterwards; a retired generation has nothing; connect and disconnect never hold the
  mutex over a running monitor. `CommandsSettle` — a connect settles, a disconnect returns, the death
  of the sidecar is noticed.
* `RoutesAreUnderLease` — a route in the kernel belongs to the broker's session, which is held; no
  child is being stopped under a route; a rollback reported Ok is clean. `LeaseIsRecorded` — the file
  names every route in the kernel and every hold, and a release whose reply was lost can be repeated.
  `AppLossIsCleaned` — when the app dies, routes, session and sidecar go without anybody's help.
* `OwnersAreExact` — one generation owns the broker, the slot holds what is selected, and a refused
  publication is undone. `AcceptsMonotonically` — `PolicyStore` implements `PolicyRegister`.
  `AdmittedIsAccepted` — a connect is admitted only for a catalog the durable record has not passed.
* `StreamIsClean` — no answer is left for a later request. `AnswersAreTrue` — a connect answered with
  success has its carrier up, and a handle is given up only when its child is gone. `CallsEnd` — every
  call returns, and a stop ends the child.
* `ListIsSound` — the current profile exists, a profile added is kept, no draft is left outside a
  switch; the first two until a reorder that names a profile no longer listed empties the list, and but for a
  profile added between the edit and the apply of a refused switch (both under findings). `RunningIsCurrent` —
  at rest the core runs the current profile, when every command was
  answered with success and none of the races its comment names has happened. `SwitchReturns`.

The properties of the parts are described in `Parts` and `MCParts`.

## Fairness

* Route transaction: a call that has started runs on, a dead process is started again, and a process
  recovers before it does anything else (that is what the lab binary does). Failures are finite.
* Controller: weak fairness of the actor. Its waits end: the actor bounds requests and stops itself,
  the stdio runtime bounds the handshake. Nobody has to send a command, and the child need not exit.
* Service: weak fairness of each process. Every wait has a timeout (requests, poll, stop, snapshot,
  join; the helper client bounds the route calls), and the mutex is only held over such waits. No
  fairness on commands or on the death of the child.
* Lease: weak fairness of the helper's steps (each is bounded by a timeout), of the end of a
  connection, of the helper's start, and of the broker's handlers. A child that is being stopped
  dies (it gets SIGKILL). Nothing is assumed of the app, of watchdogs, of faults or of late calls.
* Sidecar runtime: the thread that makes the call runs on (every read has a deadline), and a sidecar
  that was killed or whose input is closed ends. The sidecar need not answer.
* Desktop: each task runs on when it can, start-up completes, and the deadline of a switch fires. The
  core, its check and the holder of a lock need never answer.
* Timer: whoever edits the list by a command that refreshes does refresh, the scheduler's loop runs, an
  update is cut off after its 40 seconds, and an entry expires. Nothing refreshes after an update that took
  its interval from the server, and nothing is promised of such a profile until the next refresh. `more_parts`
  assumes fairness of the timer only, `parts` none.

There is no strong fairness anywhere.

## Findings

* `cancel_is_final` — the fallback publishes DegradedFallback under the status lock after a last look
  at the operation: a cancel accepted in between is overwritten, although the comment on `cancel`
  calls cancellation and publication "one exact either/or decision".

Other behaviour the models show that a reader should know of. The properties are stated so that they
leave it out by name, or are about something else; the hazards in `PROJECT.json` say which.

* `apply` of a known transaction id answers Ok from the journaled state alone; after a rollback that
  failed half way the state is still Applied although routes are gone. A caller that recovers first
  never sees this.
* A route of another program that takes the destination after `apply` has listed the table, with the
  ownership saved and the add not yet made, is refused by the add; but if the process dies before that is
  journaled, recovery deletes the route as its own.
* A cancel accepted while the monitor reconnects publishes Disconnecting, and both loops merely end:
  nobody rolls the routes back until somebody sends a disconnect.
* `try_retire` closes the gate before it looks whether it may retire; a heartbeat in that window is
  refused and the lease loop tears the connection down, although the retirement then answers Busy.
* After an ambiguous hold the session may end without a tombstone. The release of recovery is then
  refused as stale_generation, which the helper does not take for absence, and the record stays.
* A begin the broker rejects is answered without a reference, which ends the XPC client, so that the
  rollback of a journal that is already absent is never sent and the boundary stays recovery-only
  until the app restarts.
* A release whose transport fails once after the app has gone is retried only when the helper
  restarts: its watchdog skips RetirementPending, and the app never calls recoverV3.
* Under the broker a graceful stop may report failure although the child is gone: the broker has
  removed the session by then and answers the handle's question as stale.
* A reorder that names an unknown profile answers Ok after it has taken the list out of the draft, and an
  empty list is committed.
* A refused switch puts the former profile back by an edit of the draft and an apply, under two locks. What
  another command commits between them is lost: the older list comes back, without a profile that was
  added, whose files stay, or with items of one that was deleted.
* A settings change that fails after its edit leaves by `?` and leaves the draft, which the next
  apply commits.
* The races that `RunningIsCurrent` names: a switch that misses its deadline, a deep-link import that
  fails or a deletion of the target during a switch, also one whose file is gone and whose list is not
  yet committed when the switch begins; a settings change, which does not take the update flag, beside
  a switch or a deletion; an update that reads the list between the two steps of a committed switch.
  Two more are sequences rather than races: a switch to a profile that is no longer listed, whose file an
  editor saves again meanwhile; and the first profile of an empty list, which becomes current while the
  core keeps the default configuration. The last three came out of the proof of `CurrentRuns`: the
  run's bounds are too small to reach them.
* A subscription that spells a control-plane key in capitals, alone or beside the lower-case one, has its value
  win when a builtin script is on: `use_lowercase` runs after the application's value went in and before the
  snapshot that is enforced at the end.
* An update by hand that takes a new interval from the server's header does not tell the timer: the profile has
  an interval and no task until the next refresh.
* Saving a WebDAV account whose file cannot be written, or restoring an archive with another account, leaves
  the clients of the former account cached; so does a client that was being built at the reset.
* A key that the desktop does not let go, or an update of the keys that is given up half way, leaves a key
  whose function `current` no longer tells. A reload of a dead page that is refused is not repeated.
* `cleanup_after_failure` of the data plane forgets the active carrier without disconnecting it: after a connect
  whose routes fail the carrier stays up, and the next connect starts one beside it. The implementation plan
  (`docs/roadmap/kyclash-implementation-plan.md`) says that the active transport is cleared "only after its
  disconnect succeeds". After a disconnect that failed, the controller is Disconnected with an active
  carrier, and `sample_health` connects a fallback in that state.
* A stop of the external-peer laboratory ends as Disconnected although the peer had closed the socket before and
  nobody acknowledged a clean-up: `runtime.stop` answers Ok for a child that has exited. The test
  `requested_stop_needs_graceful_cleanup_without_a_socket_abort` has it that a graceful one is needed.
* A change of `verge_mixed_port` does not update the desktop's proxy, which keeps the old port.

## Proofs

Checked by TLAPS for every value of the constants: 24 128 obligations in eight modules. Each module
defines one inductive invariant (`PartsProofs` one for each part), proves that every action keeps it (one lemma
per action, or per action
and conjunct), and derives the properties that the runs check. Every invariant was first checked with TLC.

| Module | Obligations | Theorems (property) |
|---|---|---|
| `RouteTransactionProofs` | 1347 | `TypeCorrect` (`TypeOK`), `WriteAheadOwnership` (`OwnedIsJournaled`), `CleanupIsReal` (`ReportedCleanupIsReal`), `ExactRoutes` (`RoutesAreExact`) |
| `ProductionControllerProofs` | 1180 | `OneChild`, `AbsenceProof`, `Retired`, `BoundOnce`, `BoundedRestarts`, `ExactBooks` (`BooksAreExact`) |
| `ProductionServiceProofs` | 2884 | `CleanDisconnected`, `OutermostRoutes`, `KeptLease`, `NothingShared` |
| `GenerationsProofs` | 1805 | `ExactOwners` (`OwnersAreExact`), `MonotoneStore` (`AcceptsMonotonically`, the refinement of `PolicyRegister`), `AdmissionIsAccepted` (`AdmittedIsAccepted`) |
| `RouteLeaseProofs` | 4480 | `UnderLease` (`RoutesAreUnderLease`), `RecordedLease` (`LeaseIsRecorded`) |
| `SidecarRuntimeProofs` | 2529 | `CleanStream` (`StreamIsClean`), `TrueAnswers` (`AnswersAreTrue`) |
| `DesktopConfigProofs` | 4151 | `SoundList` (`ListIsSound`), `CurrentRuns` (`RunningIsCurrent`) |
| `PartsProofs` | 5752 | `NoLeaseIsLost` (`LeasesAreNeverLost`), `AcceptedRepliesAreTrue` (`RepliesAreTrue`), `LaunchesAreProven` (`LaunchIsProven`), `LabsShowTheTruth` (`LabsAreTrue`), `OnlyOneCoreRuns` (`CoresAreAccountedFor`), `ListedProfilesAreStored` (`ListedIsStored`), `TheDesktopFollows` (`DesktopFollows`), `OnlyTheOfferedIsInstalled` (`InstallsWhatWasOffered`), `TheBackupsAreSound` (`BackupsAreSound`) |

**`RouteTransactionProofs`** rests on `PlansAssumption` (plans are non-empty sequences of distinct routes),
`ForeignAssumption`, `FaultsAssumption`, `ProtocolAssumption` and `OwnersAssumption`. Write-ahead ownership is
not inductive: between a save and the call it announces, entry and file differ. The inductive invariant
adds that the entry in memory, too, names every route of its transaction while a call is running
(`EntryCovers`), what each step knows of `pending_route` and of the file just before an add
(`PendingShape`), and that recovery still has before it every live entry it has not rolled back
(`StaleIsLive`, `RecoverCovers`). `ReportedCleanupIsReal` then follows because a rollback reaches its last
save only with an empty prefix and nothing pending.

Its second half adds that an apply that answers Ok has its plan installed and that no step takes
out a route that is not its own. It needs two more facts of the callers: they recover before anything
else (`RecoverFirst`, a hypothesis of the theorem; the orchestrator's callers do, and without it a second
apply may meet a live entry of a dead process), and planned routes overlap themselves
(`OverlapsAssumption`: `reject_conflicts` passes over default routes, which nobody plans). Its invariant
`Exact` says that no other transaction holds a route that an entry claims (another program may: `ClaimsAreMine`),
that after recovery every live entry but the current one is installed in full (`Settled`), and how far the
forward loop has got (`ForwardShape`).

**`ProductionControllerProofs`** rests on `GenAssumption`, `CapacityAssumption` and `CrashAssumption`. The
properties speak of the child, the code guards them by the lifecycle label, so the invariant ties the
two: `Absence` (what the recorded proof and the generation say of the child), `Label` (a reusable
controller that is Stopped has a proof; a start is entered with no child), `Retirement` (nothing is
under way after it), `Bound` (one generation, claimed unless being stopped) and `Crashes` (the crash count
runs ahead of the restarts whenever a restart can follow). The second half is about the cancellation
registry: every ticket is handed out once (`Tickets`), the request in hand and the queued ones are
distinct (`InHand`, `Work`), and a registration is of one of them (`OwnRegistration`, `Registry`).

**`ProductionServiceProofs`** rests on `OpsAssumption`, `CarriersAssumption` and `ThresholdAssumption`. No
property of the service is inductive by itself: what protects the routes is the lifecycle mutex, what
protects the mutex is where each of the four processes is, and what ends a monitor is a flag that
another process sets. `IInv` says, for each process, what its position implies: who holds the mutex
(`Mutex`), which operation it works for (`Operations`), that a disconnect has joined the monitor before it
takes the mutex (`Disconnecting`, `Monitoring`), that the routes are absent from the moment a cleanup
has undone them until the mutex is given back (`Routing`), which carrier may be up at each step of a
connect, a fallback and a late answer (`Carrying`), what retirement has excluded (`Retirement`), and that
nobody has been asked to end an operation while its lease loop is gone (`Keeping`).

**`GenerationsProofs`** rests on `CatalogsAssumption` (a catalog has a revision and an identity),
`ProcsAssumption` (process names are not file marks), `AppAssumption` and `GensAssumption`. `StoreInv`
says what a transaction knows at each step about the snapshot it read and the record it published, and
that no reported catalog is above the record that a power loss could leave; `AppInv` that selection,
factory and slot move together under the materialize mutex. `MonotoneStore` is a refinement, step by step:
only the report of a transaction moves the abstract register, every other step of the store, a crash
or a rollback included, is a stutter of it.

**`RouteLeaseProofs`** rests on `SessionsAssumption`, `FaultsAssumption` and `CidrAssumption` alone. Three
orders carry the argument. The app's calls have connections of their own and are served in that order
(`Calls`, `Jobs`, `Ordered`), so a lease begins once and before everything that follows it. The helper
writes its record before it asks for the hold and removes it after the release (`Journal`, `Stages`,
`Holding`), so a hold, a delayed call that may still become one (`Promises`), and a route (`Routed`) have
a record. And a generation is never reused (`Sessional`), so the one tombstone the broker keeps is that
of the lease the record names (`Remembered`).

**`SidecarRuntimeProofs`** rests on `LaunchersAssumption` alone. A clean stream is not inductive: it says nothing
while a call waits, and that is when every record is written. The invariant follows the one request
that may be under way. It is unread, worked on or answered (`Unread`, `Working`, `Answered`); its cancel
is unsent or unread, accepted, or too late (`Uncancelled`, `Accepted`, `TooLate`); each combination fixes
both directions of the stream record by record, and in each the record that settles the request is
the last one. `Carrier` ties what is connected to what the serve loop believes, but for a connect that
has succeeded and is neither completed nor undone. `Handle` says who has the child, and that the stream
is given up before the child is reaped. A consequence on the way: while the child speaks, `Receive` never
meets a record it has to give the stream up for (`ReceiveFacts`).

**`DesktopConfigProofs`** rests on `TasksAssumption` (a task is not the mark of a free lock), `ItemsAssumption`
(the list is not empty at the start) and `ContentsAssumption`; the theorems have no other hypothesis: a
reorder may name any profile. Two histories carry the exceptions: `emptied`, set when a reorder commits an
empty list, and `late`, the profiles committed between the edit and the apply of a refused switch. `ListInv`
is types, `Listed` (a change is made on a copy under the one permit, and a copy that is about to be
committed holds every profile kept so far, unless the list was moved under it or it is late) and `Switches`
(one switch at a time, and a draft is always its). `RunInv` says nothing once a command has failed or a named race has
happened; before that, the core follows the Run file and the Run file the runtime register (`Written`), and
the register follows the switch's target (`Chosen`) or the current profile (`Resting`), each but for a task
that is about to make it so: one past the write or the load, a switch that is `Settling`, a deletion that is
`Owing` the register its new current profile. `Flagged` and `Apart` say who may be in the pipeline together,
`Targets` what a commit will make of the list.

**`PartsProofs`** has an inductive invariant for each of fifteen parts; a step of one part leaves the others'
variables alone, so that each theorem combines the invariants of the parts its property names. It rests
on the assumptions of `Parts`, all of which say that a name is not one of the code's own marks or that a
number is one: `CallersAreTasks`, `TasksAreApart`, `OperationsAreIds`, `KindsAreNumbers`, `ProfileUids`,
`GenerationsAreNumbers`, `KeysAreTheUsers`, `ReleasesAreNumbered`, `IntervalIsANumber`. Nothing is assumed of the
bounds on calls, faults, crashes and events. What each invariant adds to the property:

* *v3 session* (`V3Inv`): the record on disk is level with the world or one write behind it, and the place of
  the operation says which (`RecordFitsOperation`, `WorldFitsOperation`); a hold and the routes are recorded
  (`HoldIsRecorded`, `RoutesAreRecorded`), whoever crashes.
* *v2 boundary* (`BoundaryInv`): what was given up was asked on an earlier connection (`LateIsOld`), is never
  carried out once the boundary is open (`NothingLateWhileOpen`), and a late begin can only make the lease the
  boundary still keeps (`LateBeginIsOwned`).
* *Replies* (`RepliesInv`): the property itself, over every reply the C surface can express, more than the run
  enumerates; the work is in lemmas that read each decoder as a condition on the fields.
* *Sidecar protocol* (`IpcInv`): what the sidecar believes is ordered and errs only on the side of a carrier that
  is gone (`InOrder`, `CarrierIsKnown`), ids grow (`IdsGrow`), and so an answer with this id is to this request.
* *Launch* (`LaunchInv`): a child counts as started only on an answer that names the session and the token of
  its launch, whatever has become of the session since (`StartedIsProven`).
* *Laboratories* (`ExternalInv`, `UserspaceInv`): a stop is the worker's cancellation (`StopIsCancellation`) and a
  session that this side shut is a hard abort, which no disconnected end has (`SessionIsOwned`,
  `DisconnectedIsClosed`); what a living sidecar has up at each place of the connect
  (`SetUpIsInStep`), and that nothing is left of one that failed (`KeptIsFinished`).
* *Core manager* (`CoreInv`): whoever starts or stops holds the lifecycle lock (`LifecycleIsHeld`), the mode says
  where a core can be and no core runs while one is being started (`CoreFollowsMode`), unless a kill failed or
  the outcome of a service call was not learnt, and after a confirmed stop of the quit nobody is on the way to
  start one (`NothingStartsAfterTheStop`).
* *Profile files* (`FilesInv`): what is about to be listed is written (`AppendedIsWritten`), the sweep spares the list
  (`SweepSparesTheList`), what was saved is complete (`SavedIsListed`), so that a crash finds it so, and so is the
  list a switch has drafted (`DraftIsListed`), but for what a later change took from it.
* *Hotkeys* (`HotkeyInv`): registered is drafted, and so is what an init under way has read
  (`RegisteredIsDrafted`); between updates `current` knows every registered key or an init will tell it
  (`CurrentIsKnown`); and the youngest focus task has the last word (`NewestFollowsFocus`); all but for the
  keys that went astray. *System proxy* (`SysoptInv`): updates exclude each other, resets too, an overlap of the
  two is remembered, and otherwise what is left of an application ends with what is wanted (`HalfDone`).
  *Window* (`WindowInv`): a dead page is known to a task or to the flag, and a raised flag behind a focused
  window is about to be read (`DeadIsKnown`, `FlagIsRead`); the listeners are on the window before the
  lightweight mode counts as switched on and until it is being switched off (`ModeIsArmed`).
* *Updater* (`UpdaterInv`): from the question to the installation the application carries the release that was
  agreed to (`Agreed`). *Backups* (`BackupInv`): an automatic job at work holds exec_lock and was let in at a
  distance (`ExecLockIsHeld`, `LetInIsSpaced`); files, stores and account are restored in that order.
  *WebDAV* (`WebDavInv`): outside a save, the account in use, the cached clients and those being built are of
  the account of the settings, or of one that lingers (`AccountsAreKnown`).

The proofs of the system proxy found a mistake in the model: the arms of a `CASE` overlapped. TLC takes the first
that holds, as the code does; TLA+ takes any. Such definitions (`GuardTypeFor`, and others in `PolicyStore`,
`ProfileTimer`, `RouteBoundaryV2` and `NodeActivation`) now have exclusive arms.

Only model-checked, and why:

* `ConfigIsSound`: `Enhance` has no constants, so that the run already is exhaustive;
* `ChoicesAreKept`: what a fold over the selected nodes leaves is an induction over data;
* `RulesAreSound` (bitwise arithmetic, in `RouteAddresses` and `PolicyRules`), and the carriers of
  `ChildAndCarriersAreAccountedFor` (`DataPlane` is written with recursive operators): the prover has no backend for such modules;
* its restarts (`RestartsAreRationed`): the property counts the members of a window of a sequence, an induction over data;
* all liveness: fairness and ENABLED are out of the prover's reach.

## Plan

1. *Done:* route transaction, controller, service; their first proofs.
2. *Done:* `TunnelBroker`, `RouteHelper`, `RouteLease`.
3. *Done:* `SidecarRuntime`, `IpcProtocol`, `NativeReplies`; `PolicyStore` with its refinement; `Generations`
   and `Composition`; `DataPlane`, `Supervisor`; the other route sessions; the laboratories; the rules.
4. *Done:* the desktop: configuration, files, nodes, enhancement, core manager, timers, updater, backups,
   hotkeys, proxy, window.
5. *Done:* the proofs of every safety property of the route transaction, the controller, the service, the
   generations with their policy store, the route lease, the sidecar's stream, and the desktop's
   configuration.
6. *Done:* the proofs of fifteen of the parts, for nine of their eleven joint properties (`PartsProofs`).
7. *Open:* `NodeActivation`, once the prover can do induction over sequences; the hazards in `PROJECT.json`
   that have a note instead of a property.

Composition: `ProductionService` takes the controller and the route boundary as boundaries. The
assumptions it makes of the controller (a retirement receipt means no child; a successful shutdown
means no child) are theorems of `ProductionControllerProofs`; those it makes of the route boundary
(a rollback that succeeded has left nothing, a hold survives until its release) are theorems of
`RouteLeaseProofs`. The controller takes the runtime as a boundary, whose promise (a stop answered Ok
has reaped the child) is part of the theorem `TrueAnswers`. `Generations` takes a service generation as a boundary,
whose promise (a retired one is empty) is part of the theorem `NothingShared`. `ProductionService` with
`ProductionController` inside it, step by step, is beyond TLC's reach.

## Not modelled

`PROJECT.json` gives the reason for each part. In short:

* cryptography, packet handling, signature and trust checks, framing, JSON and YAML, archives and
  downloads: out of TLC's reach, or pure data, and present as outcomes;
* the Go peer, the laboratory harnesses and provisioning tools; the operation record of
  `networking/operation.rs`, which no production path constructs; the settings records;
* the user interface, the tray and notifications, which present what the modelled parts keep; the
  crates for signals, logging, translations and system information; build and release tooling.

Of the modelled components: the diagnostics ring of the controller, the wording of the service's
status, a panic of the monitor task itself, and the platform commands behind a route call. Of the lease: a
crash of the broker (it keeps nothing on disk and takes every sidecar with it), the calls recoverV3 and
statusV3 (the app never makes them), a corrupt journal file (no step of the helper writes one: a file is
replaced whole, by rename; one that a disk has spoilt leaves the helper recovery-only), the
removal of routes by the kernel when a utun device disappears, the legacy hold and release, and the
v1 coordinator that only the laboratories start.
