------------------------------- MODULE Updater -------------------------------
(***************************************************************************)
(* SilentUpdater (core/updater.rs): a daily check that downloads an update   *)
(* into a two-file disk cache, and the installation of the cached update at  *)
(* the next start, with the user's consent.  The application may be killed   *)
(* at any step, the server may move on to another release, and an            *)
(* installation that timed out may still finish later.                       *)
(* init_silent_updater starts none of it while APP_UPDATES_ENABLED is false, *)
(* as it is at this commit (updater.rs:19): the run sets it, and asks about  *)
(* the code that the gate keeps shut until KyClash owns its update server.   *)
(***************************************************************************)
EXTENDS Naturals

CONSTANTS
    AppUpdatesEnabled, \* the gate of init_silent_updater
    Releases,    \* what the server may announce: [number, pre], pre for a pre-release
    First,       \* the release the user starts with
    MaxKills     \* bound: how often the application is killed

None == [number |-> 0, pre |-> FALSE]

VARIABLES
    installed,   \* the release on disk, which the next start runs
    running,     \* the release of this process
    server,      \* the release the server announces
    bin, meta,   \* update_cache/pending_update.bin and .json: the release each is of
    ready,       \* update_ready
    at,          \* where start-up or the background check is
    offered,     \* the release the user last agreed to install in this process
    bytes,       \* the release of the bytes in hand
    late,        \* an installation still running after its timeout
    kills

updater == <<installed, running, server, bin, meta, ready, at, offered, bytes, late, kills>>

Init ==
    /\ installed = First /\ running = First
    /\ server \in Releases
    /\ bin = None /\ meta = None /\ ready = FALSE
    /\ at = "start" /\ offered = None /\ bytes = None /\ late = None /\ kills = 0

Goto(l) == at' = l

\* remove_dir_all may stop half way, which is only logged.
DeleteCache == bin' \in {bin, None} /\ meta' \in {meta, None}

(* validate_owned_update_metadata: the announcement is KyClash's own; one    *)
(* that is not is refused like a missing one.                                *)
ValidateOwnedUpdate(release) == release # None

\* verify_cached_update_signature: the announced signature fits these bytes only.
VerifyCachedUpdate(b, announced) == b = announced

\* The updater plugin announces what is newer by semantic version.
Newer(a, b) == a.number > b.number \/ (a.number = b.number /\ b.pre /\ ~a.pre)

\* version_lte reads the numbers only: a release and its pre-release are equal.
VersionLte(a, b) == a.number <= b.number
-----------------------------------------------------------------------------
\* init_silent_updater and try_install_on_startup, up to the question to the user.
ReadCacheMeta ==
    /\ at = "start" /\ AppUpdatesEnabled
    /\ IF meta = None THEN Goto("up") /\ UNCHANGED <<bin, meta>>
       ELSE IF VersionLte(meta, running) THEN Goto("up") /\ DeleteCache
       ELSE Goto("ask") /\ UNCHANGED <<bin, meta>>
    /\ UNCHANGED <<installed, running, server, ready, offered, bytes, late, kills>>

\* Mutant: a refusal does not return from the installation.
AskUserToInstall_GoesOn ==
    /\ at = "ask"
    /\ Goto("read") /\ offered' \in {offered, meta}
    /\ UNCHANGED <<installed, running, server, bin, meta, ready, bytes, late, kills>>

\* Declining keeps the cache: the next start asks again.
AskUserToInstall ==
    /\ at = "ask"
    /\ \/ Goto("read") /\ offered' = meta
       \/ Goto("up") /\ UNCHANGED offered
    /\ UNCHANGED <<installed, running, server, bin, meta, ready, bytes, late, kills>>

ReadCacheBytes ==
    /\ at = "read"
    /\ IF bin # None
       THEN bytes' = bin /\ Goto("check") /\ UNCHANGED <<bin, meta>>
       ELSE Goto("up") /\ DeleteCache /\ UNCHANGED bytes
    /\ UNCHANGED <<installed, running, server, ready, offered, late, kills>>

(* A fresh announcement is fetched.  An unreachable server keeps the cache;  *)
(* no update, a foreign one, another version or bytes the signature does     *)
(* not fit delete it.                                                        *)
CheckAtStartup ==
    /\ at = "check"
    /\ \/ /\ Goto("up") /\ bytes' = None /\ UNCHANGED <<bin, meta>>
       \/ /\ IF ValidateOwnedUpdate(server) /\ server = meta /\ VerifyCachedUpdate(bytes, server)
             THEN Goto("install") /\ UNCHANGED <<bin, meta, bytes>>
             ELSE Goto("up") /\ DeleteCache /\ bytes' = None
    /\ UNCHANGED <<installed, running, server, ready, offered, late, kills>>

(* install(): success relaunches the application; a failure or the timeout   *)
(* keeps the cache, and what timed out may still be at work.                 *)
Install ==
    /\ at = "install"
    /\ \/ installed' = bytes /\ DeleteCache /\ Goto("relaunch") /\ UNCHANGED late
       \/ Goto("up") /\ UNCHANGED <<installed, bin, meta, late>>
       \/ Goto("up") /\ late' = bytes /\ UNCHANGED <<installed, bin, meta>>
    /\ bytes' = None
    /\ UNCHANGED <<running, server, ready, offered, kills>>

LateInstall ==
    /\ late # None
    /\ installed' = late /\ late' = None
    /\ UNCHANGED <<running, server, bin, meta, ready, at, offered, bytes, kills>>

Relaunch ==
    /\ at = "relaunch"
    /\ running' = installed /\ Goto("start") /\ ready' = FALSE /\ offered' = None
    /\ UNCHANGED <<installed, server, bin, meta, bytes, late, kills>>
-----------------------------------------------------------------------------
(* check_and_download: not in a portable build, not when switched off, not   *)
(* when one is ready, not for a breaking change.                             *)
CheckAndDownload ==
    /\ at = "up" /\ ~ready
    /\ ValidateOwnedUpdate(server) /\ Newer(server, running)
    /\ bytes' = server
    /\ Goto("write bin")
    /\ UNCHANGED <<installed, running, server, bin, meta, ready, offered, late, kills>>

\* write_cache: the bytes, then what they are of; a failed write is only logged.
WriteBin ==
    /\ at = "write bin"
    /\ \/ bin' = bytes /\ Goto("write meta")
       \/ UNCHANGED bin /\ Goto("ready")
    /\ UNCHANGED <<installed, running, server, meta, ready, offered, bytes, late, kills>>

WriteMeta ==
    /\ at = "write meta"
    /\ \/ meta' = bytes
       \/ UNCHANGED meta
    /\ Goto("ready")
    /\ UNCHANGED <<installed, running, server, bin, ready, offered, bytes, late, kills>>

UpdateReady ==
    /\ at = "ready"
    /\ ready' = TRUE /\ bytes' = None /\ Goto("up")
    /\ UNCHANGED <<installed, running, server, bin, meta, offered, late, kills>>

\* The user quits or the process is killed; the next start runs what is installed.
Restart ==
    /\ kills < MaxKills /\ kills' = kills + 1
    /\ running' = installed /\ Goto("start") /\ ready' = FALSE
    /\ bytes' = None /\ late' = None /\ offered' = None
    /\ UNCHANGED <<installed, server, bin, meta>>

Publish ==
    /\ server' \in Releases \ {server}
    /\ server'.number >= server.number
    /\ UNCHANGED <<installed, running, bin, meta, ready, at, offered, bytes, late, kills>>

Next ==
    \/ ReadCacheMeta \/ AskUserToInstall \/ ReadCacheBytes \/ CheckAtStartup \/ Install \/ LateInstall \/ Relaunch
    \/ CheckAndDownload \/ WriteBin \/ WriteMeta \/ UpdateReady \/ Restart \/ Publish

Spec == Init /\ [][Next]_updater
-----------------------------------------------------------------------------
(* The release on disk changes only to the very release the user was asked   *)
(* about, never to an older one: whatever the order of kills between the two *)
(* cache files, new announcements and late installations.                    *)
InstallsOffered ==
    installed' # installed => installed' = offered /\ installed'.number > running.number
=============================================================================
