------------------------------- MODULE Backup -------------------------------
(***************************************************************************)
(* Local backups: AutoBackupManager (module/auto_backup.rs), the archive     *)
(* operations of feat/backup.rs and create_backup (core/backup.rs).  A       *)
(* scheduler, the triggers of a saved global script and the user make        *)
(* archives at the same time; a restore replaces the files under the running *)
(* application and then brings its stores up to date.  File contents are     *)
(* versions; a profile file and the index that names it carry the same one.  *)
(***************************************************************************)
EXTENDS Naturals, FiniteSets

CONSTANTS
    MinInterval,     \* MIN_BACKUP_INTERVAL_SECS
    Keep,            \* AUTO_BACKUP_KEEP
    MaxTime,         \* bound: the clock
    MaxEdits         \* bound: what the user does

VARIABLES
    now,
    settings,        \* AutoBackupManager.settings: [schedule, change]
    runner,          \* run_scheduler: [at, current, changed]
    last,            \* last_backup
    execLock,        \* exec_lock: the job that holds it, or "free"
    at, job,         \* each job: where it is, and the archive it is making
    temp,            \* temporary zip files: the jobs writing the file of each second
    archives,        \* the local backup directory
    memory, disk,    \* the stores and their files
    restore,         \* the running restore: [at, archive, account]
    disturbed,       \* the user edited something since the restore began
    edits

backup == <<now, settings, runner, last, execLock, at, job, temp, archives, memory, disk,
            restore, disturbed, edits>>
others == <<now, settings, runner, last, execLock, at, job, temp>>

\* AutoBackupTrigger, and the user's own create_local_backup.
Auto == {"scheduled", "merge"}
Jobs == Auto \cup {"user"}
NoArchive == [made |-> 0, by |-> "none", profiles |-> 0, index |-> 0, clash |-> 0, whole |-> FALSE]

Init ==
    /\ now = 1 /\ last = 0 /\ execLock = "free" /\ archives = {} /\ edits = 0
    /\ settings = [schedule |-> FALSE, change |-> TRUE]
    /\ runner = [at |-> "none", current |-> settings, changed |-> FALSE]
    /\ at = [j \in Jobs |-> "idle"] /\ job = [j \in Jobs |-> NoArchive]
    /\ temp = [t \in 1..MaxTime |-> {}]
    /\ memory = [index |-> 1, clash |-> 1, account |-> 1]
    /\ disk = [profiles |-> 1, index |-> 1, clash |-> 1, account |-> 1]
    /\ restore = [at |-> "idle", archive |-> NoArchive, account |-> 0]
    /\ disturbed = FALSE

Tick == now < MaxTime /\ now' = now + 1
        /\ UNCHANGED <<settings, runner, last, execLock, at, job, temp, archives, memory, disk, restore, disturbed, edits>>
-----------------------------------------------------------------------------
(* The manager and its scheduler.                                            *)

EnsureRunner == IF runner.at = "none" THEN [at |-> "loop", current |-> settings', changed |-> FALSE]
                ELSE [runner EXCEPT !.changed = TRUE]

\* refresh_settings: the runner is started by the first setting that needs it, and then only told.
RefreshSettings(s) ==
    /\ s # settings /\ edits < MaxEdits /\ edits' = edits + 1
    /\ settings' = s
    /\ runner' = IF s.schedule THEN EnsureRunner
                 ELSE [runner EXCEPT !.changed = (runner.at # "none")]
    /\ UNCHANGED <<now, last, execLock, at, job, temp, archives, memory, disk, restore, disturbed>>

(* run_scheduler: a disabled schedule waits for a change; an enabled one     *)
(* sleeps, and a change restarts the sleep.                                  *)
RunScheduler ==
    /\ runner.at = "loop" /\ at["scheduled"] = "idle"
    /\ \/ /\ runner.changed
          /\ runner' = [at |-> "loop", current |-> settings, changed |-> FALSE]
          /\ UNCHANGED at
       \/ /\ runner.current.schedule
          /\ at' = [at EXCEPT !["scheduled"] = "triggered"]
          /\ UNCHANGED runner
    /\ UNCHANGED <<now, settings, last, execLock, job, temp, archives, memory, disk, restore, disturbed, edits>>

\* save_profile_file starts a trigger in the background once the global script is saved.
TriggerBackup ==
    /\ at["merge"] = "idle"
    /\ at' = [at EXCEPT !["merge"] = "triggered"]
    /\ UNCHANGED <<now, settings, runner, last, execLock, job, temp, archives, memory, disk, restore, disturbed, edits>>

ShouldRunNow == last = 0 \/ now - last >= MinInterval

Move(j, l) == at' = [at EXCEPT ![j] = l]

ExecuteTrigger(j) ==
    /\ at[j] = "triggered"
    /\ LET enabled == IF j = "scheduled" THEN settings.schedule ELSE settings.change
       IN Move(j, IF enabled /\ ShouldRunNow THEN "queued" ELSE "idle")
    /\ UNCHANGED <<now, settings, runner, last, execLock, job, temp, archives, memory, disk, restore, disturbed, edits>>

\* Mutant: what was decided before the wait for the lock is not decided again.
LockExec_Once(j) ==
    /\ at[j] = "queued" /\ execLock = "free"
    /\ execLock' = j /\ Move(j, "zip")
    /\ UNCHANGED <<now, settings, runner, last, job, temp, archives, memory, disk, restore, disturbed, edits>>

LockExec(j) ==
    /\ at[j] = "queued" /\ execLock = "free"
    /\ IF ShouldRunNow THEN execLock' = j /\ Move(j, "zip")
       ELSE Move(j, "idle") /\ UNCHANGED execLock
    /\ UNCHANGED <<now, settings, runner, last, job, temp, archives, memory, disk, restore, disturbed, edits>>

CreateLocalBackup ==
    /\ at["user"] = "idle" /\ edits < MaxEdits
    /\ edits' = edits + 1
    /\ Move("user", "zip")
    /\ UNCHANGED <<now, settings, runner, last, execLock, job, temp, archives, memory, disk, restore, disturbed>>
-----------------------------------------------------------------------------
(* create_backup: the temporary file is named for the second and truncated   *)
(* when it exists, and the files are read one after the other.               *)

ZipProfiles(j) ==
    /\ at[j] = "zip"
    /\ temp' = [temp EXCEPT ![now] = @ \cup {j}]
    /\ job' = [job EXCEPT ![j] = [NoArchive EXCEPT !.made = now, !.by = j, !.profiles = disk.profiles]]
    /\ Move(j, "index")
    /\ UNCHANGED <<now, settings, runner, last, execLock, archives, memory, disk, restore, disturbed, edits>>

\* The WebDAV account is removed from verge.yaml: the archive holds none.
CreateBackup(j) ==
    /\ at[j] = "index"
    /\ job' = [job EXCEPT ![j].index = disk.index, ![j].clash = disk.clash]
    /\ Move(j, "move")
    /\ UNCHANGED <<now, settings, runner, last, execLock, temp, archives, memory, disk, restore, disturbed, edits>>

\* append_auto_suffix: the name of an archive says who made it.
Named(j) == [job[j] EXCEPT !.whole = (temp[job[j].made] = {j})]

Unlocked(j) == IF execLock = j THEN "free" ELSE execLock

(* move_file: of two jobs that share a temporary file the first to move it   *)
(* takes it away.  An error ends the job, and the lock with it.              *)
MoveFile(j) ==
    /\ at[j] = "move"
    /\ \/ /\ j \in temp[job[j].made]
          /\ archives' = archives \cup {Named(j)}
          /\ IF j \in Auto THEN last' = now /\ Move(j, "cleanup") /\ UNCHANGED execLock
             ELSE Move(j, "idle") /\ UNCHANGED <<last, execLock>>
       \/ /\ Move(j, "idle") /\ execLock' = Unlocked(j)
          /\ UNCHANGED <<archives, last>>
    /\ temp' = [temp EXCEPT ![job[j].made] = {}]
    /\ job' = [job EXCEPT ![j] = NoArchive]
    /\ UNCHANGED <<now, settings, runner, memory, disk, restore, disturbed, edits>>

\* cleanup_auto_backups: the oldest of the automatic archives go until Keep are left.
CleanupAutoBackups(j) ==
    /\ at[j] = "cleanup"
    /\ LET auto == {a \in archives : a.by \in Auto}
       IN IF Cardinality(auto) <= Keep THEN UNCHANGED archives
          ELSE \E old \in SUBSET auto :
                /\ Cardinality(auto \ old) = Keep
                /\ \A a \in old, b \in auto \ old : a.made <= b.made
                /\ archives' = archives \ old
    /\ Move(j, "idle") /\ execLock' = "free"
    /\ UNCHANGED <<now, settings, runner, last, job, temp, memory, disk, restore, disturbed, edits>>

DeleteLocalBackup ==
    /\ edits < MaxEdits /\ edits' = edits + 1
    /\ \E a \in archives : archives' = archives \ {a}
    /\ UNCHANGED <<others, memory, disk, restore, disturbed>>

\* import_local_backup: an archive from elsewhere, unless one of its name is there.
ImportLocalBackup ==
    /\ edits < MaxEdits /\ edits' = edits + 1
    /\ \E by \in {"user", "merge"} :
          LET a == [made |-> 1, by |-> by, profiles |-> 9, index |-> 9, clash |-> 9, whole |-> TRUE]
          IN /\ \A b \in archives : <<b.made, b.by>> # <<a.made, a.by>>
             /\ archives' = archives \cup {a}
    /\ UNCHANGED <<others, memory, disk, restore, disturbed>>
-----------------------------------------------------------------------------
(* restore_local_backup and finalize_restored_verge_config.                  *)

\* The account is the one thing an archive does not bring: it is read first and put back.
RestoreLocalBackup ==
    /\ restore.at \in {"idle", "done"} /\ edits < MaxEdits /\ edits' = edits + 1
    /\ \E a \in archives : restore' = [at |-> "extract", archive |-> a, account |-> memory.account]
    /\ disturbed' = FALSE
    /\ UNCHANGED <<others, archives, memory, disk>>

\* zip.extract writes file by file: an error leaves the first ones replaced.
Extract ==
    /\ restore.at = "extract"
    /\ LET a == restore.archive IN
       \/ /\ a.whole
          /\ disk' = [profiles |-> a.profiles, index |-> a.index, clash |-> a.clash, account |-> 0]
          /\ restore' = [restore EXCEPT !.at = "verge"]
       \/ /\ disk' \in {disk, [disk EXCEPT !.profiles = a.profiles]}
          /\ restore' = [restore EXCEPT !.at = "idle"]
    /\ UNCHANGED <<others, archives, memory, disturbed, edits>>

FinalizeVerge ==
    /\ restore.at = "verge"
    /\ \/ disk' = [disk EXCEPT !.account = restore.account] /\ restore' = [restore EXCEPT !.at = "stores"]
       \/ restore' = [restore EXCEPT !.at = "idle"] /\ UNCHANGED disk
    /\ UNCHANGED <<others, archives, memory, disturbed, edits>>

ReloadStores ==
    /\ restore.at = "stores"
    /\ memory' = [memory EXCEPT !.index = disk.index, !.clash = disk.clash]
    /\ restore' = [restore EXCEPT !.at = "apply"]
    /\ UNCHANGED <<others, archives, disk, disturbed, edits>>

\* The effects of the new settings (patch_verge) are applied; their failure is only logged.
ApplyVerge ==
    /\ restore.at = "apply"
    /\ memory' = [memory EXCEPT !.account = restore.account]
    /\ restore' = [restore EXCEPT !.at = "done"]
    /\ UNCHANGED <<others, archives, disk, disturbed, edits>>

\* The user saves a profile, or a WebDAV account, while all this goes on.
UserEdits ==
    /\ edits < MaxEdits /\ edits' = edits + 1
    /\ \/ /\ memory' = [memory EXCEPT !.index = 2]
          /\ disk' = [disk EXCEPT !.index = 2, !.profiles = 2]
       \/ /\ memory' = [memory EXCEPT !.account = 2]
          /\ disk' = [disk EXCEPT !.account = 2]
    /\ disturbed' = TRUE
    /\ UNCHANGED <<others, archives, restore>>
-----------------------------------------------------------------------------
Next ==
    \/ Tick
    \/ \E s \in [schedule: BOOLEAN, change: BOOLEAN] : RefreshSettings(s)
    \/ RunScheduler
    \/ TriggerBackup
    \/ \E j \in Auto : ExecuteTrigger(j) \/ LockExec(j) \/ CleanupAutoBackups(j)
    \/ CreateLocalBackup
    \/ \E j \in Jobs : ZipProfiles(j) \/ CreateBackup(j) \/ MoveFile(j)
    \/ DeleteLocalBackup
    \/ ImportLocalBackup
    \/ RestoreLocalBackup \/ Extract \/ FinalizeVerge \/ ReloadStores \/ ApplyVerge
    \/ UserEdits

Spec == Init /\ [][Next]_backup
-----------------------------------------------------------------------------
(* Two automatic backups are never made within MIN_BACKUP_INTERVAL_SECS of   *)
(* each other, however many triggers passed the first test of                *)
(* should_run_now while another job was still at work.                       *)
SpacesBackups ==
    \A j \in Auto : at[j] = "zip" /\ at'[j] = "index" /\ last # 0 => now - last >= MinInterval

(* A restore that returned Ok and that nobody disturbed leaves the stores as *)
(* the archive has them and as the files are, with the WebDAV account that   *)
(* was set before it.                                                        *)
RestoredIsLive ==
    restore.at = "done" /\ ~disturbed =>
        /\ memory = [index |-> restore.archive.index, clash |-> restore.archive.clash, account |-> memory.account]
        /\ disk.index = memory.index /\ disk.clash = memory.clash
        /\ disk.account = memory.account /\ memory.account # 0
=============================================================================
