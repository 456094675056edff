------------------------------- MODULE Parts -------------------------------
(***************************************************************************)
(* The parts of the application that share no variables with the network    *)
(* actors, with the profile list or with each other.  Of the private        *)
(* network: the composition of a launch, the two route sessions, the        *)
(* replies their clients decode, the protocol with the Go sidecar and the   *)
(* two laboratories.  Of the desktop: the core manager, the profile files,  *)
(* the activation of remembered nodes, the enhancement of a profile, the    *)
(* hotkeys, the system proxy, the main window, the updater, and the local   *)
(* and the WebDAV backups.                                                  *)
(*                                                                          *)
(* A behaviour is one of the part named by `which'.  Every part is taken    *)
(* with its own variables' names; a name that several parts use is one      *)
(* variable here, and belongs to the part that is named.  What a part does  *)
(* not use is 0.                                                            *)
(***************************************************************************)
EXTENDS Integers

CONSTANTS
    MaxFaults, MaxGenerations,                                          \* of the network's parts
    Builders, OperationIds, PollLimit, MaxGeneration, MaxRequests,
    Callers, MaxCalls, MaxFailures, StartRetries,                       \* CoreManager
    Profiles, Existing, Kinds, ProfileTasks, MaxCrashes, MaxSwitches,   \* ProfileFiles
    NodeGroups, Nodes, MaxActivations, MaxNodeEvents,                   \* NodeActivation
    UserKeys, Functions, MaxEvents,                                     \* Hotkey
    Savers, Quitters, Ports, MaxEdits,                                  \* Sysopt
    AppUpdatesEnabled, Releases, First, MaxKills,                       \* Updater
    MinInterval, ArchivesKept, MaxTime,                                 \* Backup
    MaxSaves                                                            \* WebDav

\* The tasks of the core manager and of the system proxy are apart from those the code has
\* of itself: the watcher, the quitter, the one that resets on a quit.
ASSUME CallersAreTasks == Callers \cap {"nobody", "watcher", "quitter"} = {}
ASSUME TasksAreApart == Savers \cap Quitters = {} /\ "none" \notin Savers
\* An operation of the v2 boundary has an id; 0 and -1 stand for none.
ASSUME OperationsAreIds == 0 \notin OperationIds /\ -1 \notin OperationIds
\* A profile's extensions are numbered from 1; the global merge is no profile.
ASSUME KindsAreNumbers == Kinds \subseteq Nat \ {0}
ASSUME ProfileUids == Existing \subseteq Profiles /\ "Merge" \notin Profiles
\* Generations of the broker begin at 1.
ASSUME GenerationsAreNumbers == MaxGeneration \in Nat \ {0}
\* CMD+Q is the system's key, registered apart from the user's.
ASSUME KeysAreTheUsers == "cmd_q" \notin UserKeys
\* A version has a number, and says whether it is a pre-release.
ASSUME ReleasesAreNumbered ==
    Releases \subseteq [number : Nat, pre : BOOLEAN] /\ First \in [number : Nat, pre : BOOLEAN]
\* MIN_BACKUP_INTERVAL_SECS.
ASSUME IntervalIsANumber == MinInterval \in Nat

\* The releases of the model checker's run: a pre-release and its release, and a later one.
RunReleases ==
    {[number |-> 2, pre |-> TRUE], [number |-> 2, pre |-> FALSE], [number |-> 3, pre |-> FALSE]}
RunFirst == [number |-> 1, pre |-> FALSE]
\* The run's tasks, nodes and keys are two each and alike. No part compares those of two
\* sets, so the one swap of all the pairs at once is a symmetry of every part.
Pairs == {Builders, Callers, ProfileTasks, Nodes, UserKeys, Savers}
Swap == [x \in UNION Pairs |-> CHOOSE y \in UNION Pairs : x # y /\ {x, y} \in Pairs]
RunSymmetry == {[x \in UNION Pairs |-> IF swap THEN Swap[x] ELSE x] : swap \in BOOLEAN}

VARIABLES
    which,
    \* of several parts
    os, child, at, job, saved, request, current, events, session, routes, faults, generation,
    registered, verdict, lastError, draft, tries, disturbed, settings, config, late, edits,
    \* of CoreManager
    mode, strays, svc, svcCore, status, operating, life, flagged, ret, leaving, gone, calls,
    failures, unsure,
    \* of ProfileFiles
    items, links, files, permit, stale, boot, doomed, raced, crashes, switches,
    \* of NodeActivation
    groups, selected, newest, where, mine, seen, plan, todo, completed,
    \* of Enhance
    stage, snapshot, exists,
    \* of RouteSessionV3
    journal, record, hold,
    \* of RouteBoundaryV2
    client, active, recovery, blocked, retired, then, lease, holder, done, failed,
    \* of NativeReplies
    call, tunnel, reply,
    \* of IpcProtocol
    backend, earlier, answer,
    \* of Composition
    keychain, fresh, material, answered, trusted,
    \* of ExternalPeerLab
    phase, operation, facts, requested, cancel, gate, abort, commands, worker,
    \* of UserspaceLab
    build, remote, command, shown,
    \* of Hotkey
    global, pressed, update, inits, focused, tasks, newestTask, ran, astray,
    \* of Sysopt
    desktop, guardType, guardOn, lock, resetting, applied, crossed,
    \* of MainWindow
    window, page, needsReload, reloadTask, focusEvent, light, exitAt, building, closeListener,
    focusListener, arming, timer, auto, patching, recent, dropped,
    \* of Updater
    installed, running, server, bin, meta, ready, offered, bytes, kills,
    \* of Backup
    now, runner, last, execLock, temp, archives, memory, disk, restore,
    \* of WebDav
    account, saving, clients, op, used, asked, lingering

coreOwn == <<mode, strays, svc, svcCore, status, operating, life, flagged, ret, leaving, gone, calls,
             failures, unsure>>
filesOwn == <<items, links, files, permit, stale, boot, doomed, raced, crashes, switches>>
nodesOwn == <<groups, selected, newest, where, mine, seen, plan, todo, completed>>
configOwn == <<stage, snapshot, exists>>
v3Own == <<journal, record, hold>>
boundaryOwn == <<client, active, recovery, blocked, retired, then, lease, holder, done, failed>>
repliesOwn == <<call, tunnel, reply>>
ipcOwn == <<backend, earlier, answer>>
launchOwn == <<keychain, fresh, material, answered, trusted>>
externalOwn == <<phase, operation, facts, requested, cancel, gate, abort, commands, worker>>
userspaceOwn == <<build, remote, command, shown>>
hotkeyOwn == <<global, pressed, update, inits, focused, tasks, newestTask, ran, astray>>
sysoptOwn == <<desktop, guardType, guardOn, lock, resetting, applied, crossed>>
windowOwn == <<window, page, needsReload, reloadTask, focusEvent, light, exitAt, building, closeListener,
               focusListener, arming, timer, auto, patching, recent, dropped>>
updaterOwn == <<installed, running, server, bin, meta, ready, offered, bytes, kills>>
backupOwn == <<now, runner, last, execLock, temp, archives, memory, disk, restore>>
webdavOwn == <<account, saving, clients, op, used, asked, lingering>>
parts == <<which, os, child, at, job, saved, request, current, events, session, routes, faults, generation,
           registered, verdict, lastError, draft, tries, disturbed, settings, config, late, edits,
           coreOwn, filesOwn, nodesOwn, configOwn, v3Own, boundaryOwn, repliesOwn, ipcOwn, launchOwn, externalOwn,
           userspaceOwn, hotkeyOwn, sysoptOwn, windowOwn, updaterOwn, backupOwn, webdavOwn>>

Core == INSTANCE CoreManager
Files == INSTANCE ProfileFiles WITH Requests <- ProfileTasks
Activation == INSTANCE NodeActivation WITH
                  Groups <- NodeGroups, MaxGenerations <- MaxActivations, MaxEvents <- MaxNodeEvents
Config == INSTANCE Enhance
SessionV3 == INSTANCE RouteSessionV3
Boundary == INSTANCE RouteBoundaryV2 WITH Operations <- OperationIds
Replies == INSTANCE NativeReplies
Ipc == INSTANCE IpcProtocol
Launch == INSTANCE Composition
External == INSTANCE ExternalPeerLab
Userspace == INSTANCE UserspaceLab
Shortcuts == INSTANCE Hotkey WITH Keys <- UserKeys
Proxy == INSTANCE Sysopt
Window == INSTANCE MainWindow
Update == INSTANCE Updater
Local == INSTANCE Backup WITH Keep <- ArchivesKept
Remote == INSTANCE WebDav

\* The part that is named starts; the rest is 0.
Unused ==
    /\ which \notin {"core", "v3", "boundary", "launch", "userspace", "sysopt", "updater", "backup", "webdav"} =>
         /\ at = 0
    /\ which \notin {"v3", "ipc", "launch", "external", "userspace"} =>
         /\ session = 0
    /\ which \notin {"v3", "boundary", "launch", "userspace"} =>
         /\ faults = 0
    /\ which \notin {"files", "hotkey", "sysopt"} =>
         /\ saved = 0
    /\ which \notin {"core", "sysopt"} =>
         /\ os = 0
    /\ which \notin {"core", "sysopt", "backup"} =>
         /\ job = 0
    /\ which \notin {"core", "userspace"} =>
         /\ child = 0
    /\ which \notin {"files", "ipc"} =>
         /\ request = 0
    /\ which \notin {"nodes", "hotkey"} =>
         /\ current = 0 /\ events = 0
    /\ which \notin {"v3", "boundary"} =>
         /\ routes = 0
    /\ which \notin {"boundary", "external"} =>
         /\ generation = 0
    /\ which \notin {"boundary", "hotkey"} =>
         /\ registered = 0
    /\ which \notin {"replies", "ipc"} =>
         /\ verdict = 0
    /\ which \notin {"external", "userspace"} =>
         /\ lastError = 0
    /\ which \notin {"files", "hotkey", "sysopt"} =>
         /\ draft = 0
    /\ which \notin {"core", "webdav"} =>
         /\ tries = 0
    /\ which \notin {"nodes", "backup"} =>
         /\ disturbed = 0
    /\ which \notin {"config", "backup"} =>
         /\ settings = 0
    /\ which \notin {"config", "webdav"} =>
         /\ config = 0
    /\ which \notin {"boundary", "updater"} =>
         /\ late = 0
    /\ which \notin {"sysopt", "backup"} =>
         /\ edits = 0
    /\ which # "core" =>
         /\ mode = 0 /\ strays = 0 /\ svc = 0 /\ svcCore = 0 /\ status = 0 /\ operating = 0 /\ life = 0
         /\ flagged = 0 /\ ret = 0 /\ leaving = 0 /\ gone = 0 /\ calls = 0 /\ failures = 0
         /\ unsure = 0
    /\ which # "files" =>
         /\ items = 0 /\ links = 0 /\ files = 0 /\ permit = 0 /\ stale = 0 /\ boot = 0 /\ doomed = 0
         /\ raced = 0 /\ crashes = 0 /\ switches = 0
    /\ which # "nodes" =>
         /\ groups = 0 /\ selected = 0 /\ newest = 0 /\ where = 0 /\ mine = 0 /\ seen = 0 /\ plan = 0
         /\ todo = 0 /\ completed = 0
    /\ which # "config" =>
         /\ stage = 0 /\ snapshot = 0 /\ exists = 0
    /\ which # "v3" =>
         /\ journal = 0 /\ record = 0 /\ hold = 0
    /\ which # "boundary" =>
         /\ client = 0 /\ active = 0 /\ recovery = 0 /\ blocked = 0 /\ retired = 0 /\ then = 0 /\ lease = 0
         /\ holder = 0 /\ done = 0 /\ failed = 0
    /\ which # "replies" =>
         /\ call = 0 /\ tunnel = 0 /\ reply = 0
    /\ which # "ipc" =>
         /\ backend = 0 /\ earlier = 0 /\ answer = 0
    /\ which # "launch" =>
         /\ keychain = 0 /\ fresh = 0 /\ material = 0 /\ answered = 0 /\ trusted = 0
    /\ which # "external" =>
         /\ phase = 0 /\ operation = 0 /\ facts = 0 /\ requested = 0 /\ cancel = 0 /\ gate = 0 /\ abort = 0
         /\ commands = 0 /\ worker = 0
    /\ which # "userspace" =>
         /\ build = 0 /\ remote = 0 /\ command = 0 /\ shown = 0
    /\ which # "hotkey" =>
         /\ global = 0 /\ pressed = 0 /\ update = 0 /\ inits = 0 /\ focused = 0 /\ tasks = 0 /\ newestTask = 0
         /\ ran = 0 /\ astray = 0
    /\ which # "sysopt" =>
         /\ desktop = 0 /\ guardType = 0 /\ guardOn = 0 /\ lock = 0 /\ resetting = 0 /\ applied = 0
         /\ crossed = 0
    /\ which # "window" =>
         /\ window = 0 /\ page = 0 /\ needsReload = 0 /\ reloadTask = 0 /\ focusEvent = 0 /\ light = 0
         /\ exitAt = 0 /\ building = 0 /\ closeListener = 0 /\ focusListener = 0 /\ arming = 0 /\ timer = 0
         /\ auto = 0 /\ patching = 0 /\ recent = 0 /\ dropped = 0
    /\ which # "updater" =>
         /\ installed = 0 /\ running = 0 /\ server = 0 /\ bin = 0 /\ meta = 0 /\ ready = 0 /\ offered = 0
         /\ bytes = 0 /\ kills = 0
    /\ which # "backup" =>
         /\ now = 0 /\ runner = 0 /\ last = 0 /\ execLock = 0 /\ temp = 0 /\ archives = 0 /\ memory = 0
         /\ disk = 0 /\ restore = 0
    /\ which # "webdav" =>
         /\ account = 0 /\ saving = 0 /\ clients = 0 /\ op = 0 /\ used = 0 /\ asked = 0 /\ lingering = 0

Init ==
    \/ which = "core" /\ Core!Init /\ Unused
    \/ which = "files" /\ Files!Init /\ Unused
    \/ which = "nodes" /\ Activation!Init /\ Unused
    \/ which = "config" /\ Config!Init /\ Unused
    \/ which = "v3" /\ SessionV3!Init /\ Unused
    \/ which = "boundary" /\ Boundary!Init /\ Unused
    \/ which = "replies" /\ Replies!Init /\ Unused
    \/ which = "ipc" /\ Ipc!Init /\ Unused
    \/ which = "launch" /\ Launch!Init /\ Unused
    \/ which = "external" /\ External!Init /\ Unused
    \/ which = "userspace" /\ Userspace!Init /\ Unused
    \/ which = "hotkey" /\ Shortcuts!Init /\ Unused
    \/ which = "sysopt" /\ Proxy!Init /\ Unused
    \/ which = "window" /\ Window!Init /\ Unused
    \/ which = "updater" /\ Update!Init /\ Unused
    \/ which = "backup" /\ Local!Init /\ Unused
    \/ which = "webdav" /\ Remote!Init /\ Unused

\* The part that is named takes a step of its own.
Unchanged ==
    /\ UNCHANGED which
    /\ which \notin {"core", "v3", "boundary", "launch", "userspace", "sysopt", "updater", "backup", "webdav"} => UNCHANGED at
    /\ which \notin {"v3", "ipc", "launch", "external", "userspace"} => UNCHANGED session
    /\ which \notin {"v3", "boundary", "launch", "userspace"} => UNCHANGED faults
    /\ which \notin {"files", "hotkey", "sysopt"} => UNCHANGED saved
    /\ which \notin {"core", "sysopt"} => UNCHANGED os
    /\ which \notin {"core", "sysopt", "backup"} => UNCHANGED job
    /\ which \notin {"core", "userspace"} => UNCHANGED child
    /\ which \notin {"files", "ipc"} => UNCHANGED request
    /\ which \notin {"nodes", "hotkey"} => UNCHANGED <<current, events>>
    /\ which \notin {"v3", "boundary"} => UNCHANGED routes
    /\ which \notin {"boundary", "external"} => UNCHANGED generation
    /\ which \notin {"boundary", "hotkey"} => UNCHANGED registered
    /\ which \notin {"replies", "ipc"} => UNCHANGED verdict
    /\ which \notin {"external", "userspace"} => UNCHANGED lastError
    /\ which \notin {"files", "hotkey", "sysopt"} => UNCHANGED draft
    /\ which \notin {"core", "webdav"} => UNCHANGED tries
    /\ which \notin {"nodes", "backup"} => UNCHANGED disturbed
    /\ which \notin {"config", "backup"} => UNCHANGED settings
    /\ which \notin {"config", "webdav"} => UNCHANGED config
    /\ which \notin {"boundary", "updater"} => UNCHANGED late
    /\ which \notin {"sysopt", "backup"} => UNCHANGED edits
    /\ which # "core" => UNCHANGED coreOwn
    /\ which # "files" => UNCHANGED filesOwn
    /\ which # "nodes" => UNCHANGED nodesOwn
    /\ which # "config" => UNCHANGED configOwn
    /\ which # "v3" => UNCHANGED v3Own
    /\ which # "boundary" => UNCHANGED boundaryOwn
    /\ which # "replies" => UNCHANGED repliesOwn
    /\ which # "ipc" => UNCHANGED ipcOwn
    /\ which # "launch" => UNCHANGED launchOwn
    /\ which # "external" => UNCHANGED externalOwn
    /\ which # "userspace" => UNCHANGED userspaceOwn
    /\ which # "hotkey" => UNCHANGED hotkeyOwn
    /\ which # "sysopt" => UNCHANGED sysoptOwn
    /\ which # "window" => UNCHANGED windowOwn
    /\ which # "updater" => UNCHANGED updaterOwn
    /\ which # "backup" => UNCHANGED backupOwn
    /\ which # "webdav" => UNCHANGED webdavOwn

Next ==
    \/ which = "core" /\ Core!Next /\ Unchanged
    \/ which = "files" /\ Files!Next /\ Unchanged
    \/ which = "nodes" /\ Activation!Next /\ Unchanged
    \/ which = "config" /\ Config!Next /\ Unchanged
    \/ which = "v3" /\ SessionV3!Next /\ Unchanged
    \/ which = "boundary" /\ Boundary!Next /\ Unchanged
    \/ which = "replies" /\ Replies!Next /\ Unchanged
    \/ which = "ipc" /\ Ipc!Next /\ Unchanged
    \/ which = "launch" /\ Launch!Next /\ Unchanged
    \/ which = "external" /\ External!Next /\ Unchanged
    \/ which = "userspace" /\ Userspace!Next /\ Unchanged
    \/ which = "hotkey" /\ Shortcuts!Next /\ Unchanged
    \/ which = "sysopt" /\ Proxy!Next /\ Unchanged
    \/ which = "window" /\ Window!Next /\ Unchanged
    \/ which = "updater" /\ Update!Next /\ Unchanged
    \/ which = "backup" /\ Local!Next /\ Unchanged
    \/ which = "webdav" /\ Remote!Next /\ Unchanged

Spec == Init /\ [][Next]_parts
-----------------------------------------------------------------------------
\* Neither route session loses its lease: routes stand only under the broker's hold
\* and a record that resume accepts, and the v2 boundary knows the lease the helper
\* holds for it until that is given back, through failed, lost, late and repeated
\* calls and crashes (prepare, apply, rollback, resume; clear_frozen_owner, try_retire).
LeasesAreNeverLost ==
    /\ which = "v3" => SessionV3!RoutesUnderHold /\ SessionV3!LeaseIsNeverLost
    /\ which = "boundary" => Boundary!OwnerIsKept

\* A native reply is accepted exactly when it says the call was done for this very
\* lease, and an accepted answer of the sidecar is true of its backend
\* (decode_native_reply, validate_protocol).
RepliesAreTrue ==
    /\ which = "replies" => Replies!AcceptedIsExact
    /\ which = "ipc" => Ipc!AcceptedIsTrue /\ Ipc!SidecarIsUnderstood

\* Every launch holds the one key in the keychain, whoever else resolves it at the
\* same time; a build that fails leaves nothing behind; and an authorization names
\* the child of its own launch although the broker may serve another build by then
\* (resolve_or_generate_with_status, build_macos, issue, authorize_routes).
LaunchIsProven ==
    which = "launch" => Launch!OneIdentity /\ Launch!FailedLeavesNothing /\ Launch!AuthorizedIsProven

\* What the laboratories show is so: a stop asked for is shown until the worker is
\* gone, a session this side shut never ends as disconnected, and a session that is
\* kept is connected as shown
\* (update_operation, requested_stop_exit, connect, snapshot_from_sidecar).
LabsAreTrue ==
    /\ which = "external" => External!StopIsShown /\ External!CleanExitIsClean
    /\ which = "userspace" => Userspace!KeptSessionIsConnected

\* While starts, stops, service operations, the hand-over and a quit interleave,
\* there is at most one core, and none after a quit whose stop was confirmed
\* (CoreManager::start_core, stop_core, the service hand-over, clean_async).
CoresAreAccountedFor == which = "core" => Core!OneCore /\ Core!QuitStopsTheCore

\* An item of the profile list has its file, and its extensions are listed,
\* through imports, updates, deletions, refused switches, crashes and the sweep of
\* orphaned files, apart from a profile whose deletion has begun or that a refused
\* switch took an item from, and from files made while the sweep was under way
\* (append_item, update_item, delete_item, restore_previous_profile,
\* cleanup_orphaned_files).
ListedIsStored == which = "files" => Files!ListedIsStored

\* Whatever subscription, merges and scripts say, the enhanced configuration has
\* the application's control plane, and its groups name only what there is
\* (enhance, enforce_control_plane, cleanup_proxy_groups).
ConfigIsSound == which = "config" => Config!AppSettingsWin /\ Config!GroupsResolve

\* A task that activates remembered nodes changes what a profile remembers only
\* from the list it has read and after two looks at the groups; and the newest
\* task has the last word (activate_selected_nodes, persist_reconciled_selected).
ChoicesAreKept ==
    /\ [](which = "nodes" => Activation!NewestWins)
    /\ [][which = "nodes" => Activation!KeepsChoices]_parts

\* The desktop is as the settings and the window say, whatever else is under way and
\* apart from what the desktop refuses: a hotkey runs its function, CMD+Q is taken only
\* under focus, the system proxy is the one applied last, a focused window with a dead
\* page is about to be reloaded, and a window that may go to the lightweight mode has
\* its listeners (Hotkey::update, Hotkey::init, handle_window_focus, update_sysproxy,
\* reset_sysproxy, reload_main_window_if_needed, exit_lightweight_mode, patch_verge).
DesktopFollows ==
    /\ which = "hotkey" => Shortcuts!KeysDoWhatIsSet /\ Shortcuts!SystemKeyFollowsFocus
    /\ which = "sysopt" => Proxy!ProxyIsAsApplied
    /\ which = "window" => Window!BlankPageIsReloaded /\ Window!AutoLightweightIsArmed

\* The release on disk changes only to the one the user was asked about, through
\* kills between the two cache files, new announcements and late installations
\* (check_and_download, try_install_on_startup).
InstallsWhatWasOffered == [][which = "updater" => Update!InstallsOffered]_parts

\* Automatic backups keep their distance however many triggers wait for the lock, a
\* restore nobody disturbed leaves stores and files as the archive has them, and a
\* cached WebDAV client belongs to the account of the settings, unless that changed with
\* no reset or the client was being built at the last one (AutoBackupManager::execute_trigger,
\* restore_local_backup, WebDavClient::get_client).
BackupsAreSound ==
    /\ [][which = "backup" => Local!SpacesBackups]_parts
    /\ [](which = "backup" => Local!RestoredIsLive)
    /\ [](which = "webdav" => Remote!ClientsAreCurrent)
=============================================================================
