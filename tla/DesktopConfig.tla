---------------------------- MODULE DesktopConfig ----------------------------
(***************************************************************************)
(* The desktop's configuration: the Draft registers (profiles, settings,   *)
(* runtime), the files behind them, the one update pipeline that turns the *)
(* current profile into the configuration the core runs, and the commands  *)
(* that share them.  A step is a stretch of code between two suspension    *)
(* points; what the core, its "-t" check and the file system answer is a   *)
(* nondeterministic choice.                                                *)
(***************************************************************************)
EXTENDS Integers, Sequences, SequencesExt

CONSTANTS
  Tasks,          \* the runtime tasks that execute commands
  InitialItems,   \* the profile list on disk at start, the first one current
  InitialContents, \* what the current profile's file may hold at start
  NewUids,        \* the profiles create / import may add
  SwitchTo,       \* the profiles a switch may name
  Deletable,      \* the profiles delete may name
  Reordered,      \* the pairs <<active, over>> reorder may name
  Commands,       \* the commands that may be given
  MaxCommands,    \* bound on the commands given
  MaxFaults       \* bound on the failing calls

None == "none"
ASSUME TasksAssumption == None \notin Tasks   \* no task is the holder of a free lock
Missing == "missing"
Contents == {"v1", "bad"}
Uids == {InitialItems[i] : i \in DOMAIN InitialItems} \cup NewUids
\* There is a profile to be current at start, and its file is like any other.
ASSUME ItemsAssumption == InitialItems \in Seq(Uids) /\ InitialItems # <<>>
ASSUME ContentsAssumption == InitialContents \subseteq Contents \cup {Missing}
ItemsOf(p) == {p.items[i] : i \in DOMAIN p.items}
Valid(content) == content # "bad"

\* The lists of the model checker's run; "n" is listed only once a command has created it.
RunItems == <<"c", "a", "b">>
RunReordered == {<<"a", "n">>}

(* A runtime configuration is told by what it was generated from. *)
Cfg(uid, content, verge) == [uid |-> uid, content |-> content, verge |-> verge]
NoCfg == Cfg(None, Missing, 0)
DefaultCfg(verge) == Cfg(None, "default", verge)

VARIABLES
  profiles, verge, runtime,   \* Draft<IProfiles>, Draft<IVerge>, Draft<IRuntime>
  file,                       \* profile files: uid -> content or Missing
  saved,                      \* profiles.yaml
  runFile,                    \* the generated Run file
  core,                       \* what the core runs; NoCfg: it does not run
  switching,                  \* CURRENT_SWITCHING_PROFILE
  updating,                   \* holder of config_update_in_progress
  validating,                 \* holder of the validator's is_processing
  lifecycle,                  \* holder of lifecycle_lock
  permit, moved,              \* data_modifying; committed replaced meanwhile
  task,                       \* what each task is doing
  booted, exiting, commands, faults,
  kept,                       \* history: profiles added and not deleted
  late,                       \* history: profiles added beside a pending restore
  emptied,                    \* history: a reorder committed the list it had taken out
  clouded                    \* history: see RunningIsCurrent

past == <<kept, late, emptied>>
shared == <<file, saved, past>>
locks == <<switching, updating, validating, lifecycle, permit, moved>>
vars == <<profiles, verge, runtime, file, saved, runFile, core, locks, task,
          booted, exiting, commands, faults, kept, late, emptied, clouded>>

-----------------------------------------------------------------------------
(* clash_verge_draft::Draft *)

New(v) == [data |-> v, draft |-> <<>>]
Latest(r) == IF r.draft = <<>> THEN r.data ELSE r.draft[1]
EditDraft(r, v) == [data |-> r.data, draft |-> <<v>>]
Apply(r) == [data |-> Latest(r), draft |-> <<>>]
Discard(r) == [data |-> r.data, draft |-> <<>>]

(* config::profiles::IProfiles; the five helper items of a profile are part of it *)

PatchConfig(p, u) == IF u \in ItemsOf(p) THEN [p EXCEPT !.current = u] ELSE p

AppendItem(p, u) ==
  [current |-> IF p.current = None THEN u ELSE p.current, items |-> Append(p.items, u)]

\* Where a profile is in the list; uids are unique.
Index(p, u) == CHOOSE i \in DOMAIN p.items : p.items[i] = u

DeleteItem(p, u) ==
  LET rest == RemoveAt(p.items, Index(p, u))
  IN  [current |-> IF p.current \in {u, None}
                     THEN IF rest = <<>> THEN None ELSE rest[1]
                     ELSE p.current,
       items |-> rest]

\* The list is taken out before the two uids are looked up, and an unknown uid
\* returns Ok without putting it back.
Reorder(p, x, y) ==
  IF {x, y} \subseteq ItemsOf(p)
    THEN [p EXCEPT !.items = InsertAt(RemoveAt(p.items, Index(p, x)), Index(p, y), x)]
    ELSE [p EXCEPT !.items = <<>>]

-----------------------------------------------------------------------------
(* Tasks *)

NoP == [current |-> None, items |-> <<>>]
Task(op, uid, pc, arg) ==
  [op |-> op, uid |-> uid, pc |-> pc, arg |-> arg, refresh |-> FALSE,
   mod |-> NoP, cfg |-> NoCfg, out |-> None]
IdleTask == Task("idle", None, "done", None)
Idle(t) == task[t].op = "idle"
At(t, pc) == task[t].pc = pc
Goto(t, pc) == task' = [task EXCEPT ![t].pc = pc]
Answered(t, out) == task' = [task EXCEPT ![t].pc = "after", ![t].out = out]
Ended(t) == task' = [task EXCEPT ![t] = IdleTask]
Running(ops) == \E t \in Tasks : task[t].op \in ops
Switching(u) == \E t \in Tasks : task[t].op = "switch" /\ task[t].uid = u
Quiet == \A t \in Tasks : Idle(t)

Fault == faults < MaxFaults /\ faults' = faults + 1
NoFault == UNCHANGED faults

Release(owner, t) == IF owner = t THEN None ELSE owner

Given(t, op) ==
  /\ Idle(t) /\ op \in Commands /\ booted /\ ~exiting
  /\ commands < MaxCommands /\ commands' = commands + 1

Init ==
  /\ \E c \in InitialContents :
       file = [u \in Uids |-> IF u = InitialItems[1] THEN c
                              ELSE IF u \in NewUids THEN Missing ELSE "v1"]
  /\ saved = [current |-> InitialItems[1], items |-> InitialItems]
  /\ profiles = New(saved) /\ verge = New(0) /\ runtime = New(NoCfg)
  /\ runFile = NoCfg /\ core = NoCfg
  /\ switching = FALSE /\ updating = None /\ validating = None /\ lifecycle = None
  /\ permit = None /\ moved = FALSE
  /\ task = [t \in Tasks |-> IdleTask]
  /\ booted = FALSE /\ exiting = FALSE /\ commands = 0 /\ faults = 0
  /\ kept = {InitialItems[i] : i \in DOMAIN InitialItems} /\ late = {} /\ emptied = FALSE
  /\ clouded = FALSE

-----------------------------------------------------------------------------
(* Generating a configuration *)

CurrentContent ==
  LET p == Latest(profiles)
  IN  IF p.current = None THEN "default"
      ELSE IF p.current \in ItemsOf(p) THEN file[p.current] ELSE Missing

Generated == Cfg(Latest(profiles).current, CurrentContent, Latest(verge))

\* Config::generate_file: the draft's configuration, else the committed one.
FileConfig == IF Latest(runtime) # NoCfg THEN Latest(runtime) ELSE runtime.data

\* Start-up: generate, write the Run file, check it; the default configuration
\* when any of it fails; then start the core.  The runtime is left a draft.
Boot ==
  /\ ~booted /\ booted' = TRUE
  /\ LET usable == CurrentContent # Missing /\ Valid(CurrentContent)
         cfg == IF usable THEN Generated ELSE DefaultCfg(Latest(verge))
     IN  /\ runtime' = EditDraft(runtime, cfg)
         /\ runFile' = cfg
         /\ clouded' = ~usable
         /\ \/ core' = cfg /\ NoFault
            \/ core' = NoCfg /\ Fault
  /\ UNCHANGED <<profiles, verge, shared, locks, task, exiting, commands>>

-----------------------------------------------------------------------------
(* CoreManager::update_config_with_force, step by step *)

\* Busy when another update runs; an automatic update may also be debounced.
UpdateStart(t) ==
  /\ At(t, "update")
  /\ \/ exiting /\ Answered(t, "error") /\ UNCHANGED updating
     \/ ~exiting /\ updating # None /\ Answered(t, "busy") /\ UNCHANGED updating
     \/ ~exiting /\ updating = None /\ updating' = t /\ Goto(t, "generate")
     \/ ~exiting /\ updating = None /\ task[t].op = "auto" /\ Answered(t, "busy") /\ UNCHANGED updating
  /\ UNCHANGED <<profiles, verge, runtime, shared, runFile, core, switching, validating, lifecycle,
                 permit, moved, booted, exiting, commands, faults, clouded>>

\* Config::generate: a missing file or profile fails it.  An update then discards
\* the runtime draft; a settings change returns at once.
Generate(t) ==
  /\ At(t, "generate")
  /\ \/ /\ CurrentContent # Missing
        /\ task' = [task EXCEPT ![t].cfg = Generated, ![t].pc = "edit"]
        /\ UNCHANGED <<runtime, updating>>
     \/ /\ CurrentContent = Missing
        /\ Answered(t, "invalid")
        /\ IF updating = t THEN runtime' = Discard(runtime) ELSE UNCHANGED runtime
        /\ updating' = Release(updating, t)
  /\ clouded' = (clouded \/ \E s \in Tasks \ {t} : task[s].op = "switch" /\ task[s].pc \in {"modify", "commit"})
  /\ UNCHANGED <<profiles, verge, shared, runFile, core, switching, validating, lifecycle, permit, moved,
                 booted, exiting, commands, faults>>

EditRuntime(t) ==
  /\ At(t, "edit")
  /\ runtime' = EditDraft(runtime, task[t].cfg)
  /\ Goto(t, IF updating = t THEN "validate" ELSE "restart")
  /\ UNCHANGED <<profiles, verge, shared, runFile, core, locks, booted, exiting, commands, faults, clouded>>

\* An update's failing end: the runtime draft is discarded.
GiveUp(t, out) ==
  /\ runtime' = Discard(runtime)
  /\ updating' = Release(updating, t)
  /\ Answered(t, out)

\* validate_config_outcome writes the Check file and runs the core on it.
Validate(t) ==
  /\ At(t, "validate")
  /\ \/ validating # None /\ GiveUp(t, "busy") /\ UNCHANGED validating
     \/ validating = None /\ FileConfig = NoCfg /\ GiveUp(t, "error") /\ UNCHANGED validating
     \/ /\ validating = None /\ FileConfig # NoCfg
        /\ validating' = t
        /\ task' = [task EXCEPT ![t].cfg = FileConfig, ![t].pc = "check"]
        /\ UNCHANGED <<runtime, updating>>
  /\ UNCHANGED <<profiles, verge, shared, runFile, core, switching, lifecycle, permit, moved,
                 booted, exiting, commands, faults, clouded>>

Check(t) ==
  /\ At(t, "check")
  /\ validating' = None
  /\ \/ Valid(task[t].cfg.content) /\ Goto(t, "write") /\ NoFault /\ UNCHANGED <<runtime, updating>>
     \/ ~Valid(task[t].cfg.content) /\ NoFault /\ GiveUp(t, "invalid")
     \/ Fault /\ GiveUp(t, "error")
  /\ UNCHANGED <<profiles, verge, shared, runFile, core, switching, lifecycle, permit, moved,
                 booted, exiting, commands, clouded>>

\* The Run file is written from whatever the runtime holds now; failing here
\* leaves the runtime draft.
WriteRun(t) ==
  /\ At(t, "write")
  /\ \/ FileConfig # NoCfg /\ runFile' = FileConfig /\ Goto(t, "reload") /\ NoFault /\ UNCHANGED updating
     \/ /\ (FileConfig = NoCfg /\ NoFault) \/ Fault
        /\ UNCHANGED runFile
        /\ updating' = Release(updating, t) /\ Answered(t, "error")
  /\ UNCHANGED <<profiles, verge, runtime, shared, core, switching, validating, lifecycle, permit, moved,
                 booted, exiting, commands, clouded>>

Reload(t) ==
  /\ At(t, "reload")
  /\ \/ core # NoCfg /\ core' = runFile /\ Goto(t, "reloaded") /\ NoFault
     \/ core = NoCfg /\ Goto(t, "restart") /\ NoFault /\ UNCHANGED core
     \/ Fault /\ Goto(t, "restart") /\ UNCHANGED core
  /\ UNCHANGED <<profiles, verge, runtime, shared, runFile, locks, booted, exiting, commands, clouded>>

\* The update succeeded: the runtime draft is committed.
Reloaded(t) ==
  /\ At(t, "reloaded")
  /\ runtime' = Apply(runtime)
  /\ updating' = None
  /\ Answered(t, "valid")
  /\ UNCHANGED <<profiles, verge, shared, runFile, core, switching, validating, lifecycle, permit, moved,
                 booted, exiting, commands, faults, clouded>>

\* restart_core returned Err: apply_config discards, a plain restart reports.
RestartFailed(t) ==
  /\ lifecycle' = None
  /\ IF updating = t THEN GiveUp(t, "error") ELSE Answered(t, "error") /\ UNCHANGED <<runtime, updating>>

\* restart_core under the lifecycle lock: stop, then write the Run file again.
\* When the service does not stop the core, it runs on.
Restart(t) ==
  /\ At(t, "restart") /\ lifecycle = None
  /\ \/ /\ core' = NoCfg /\ NoFault
        /\ \/ /\ FileConfig # NoCfg /\ ~exiting
              /\ runFile' = FileConfig
              /\ lifecycle' = t /\ Goto(t, "start") /\ UNCHANGED <<runtime, updating>>
           \/ FileConfig = NoCfg /\ ~exiting /\ RestartFailed(t) /\ UNCHANGED runFile
           \/ exiting /\ Goto(t, "reloaded") /\ UNCHANGED <<runFile, lifecycle, runtime, updating>>
     \/ Fault /\ RestartFailed(t) /\ UNCHANGED <<core, runFile>>
  /\ UNCHANGED <<profiles, verge, shared, switching, validating, permit, moved,
                 booted, exiting, commands, clouded>>

StartCore(t) ==
  /\ At(t, "start")
  /\ \/ /\ core' = runFile /\ lifecycle' = None /\ NoFault
        /\ IF updating = t
             THEN Goto(t, "reloaded")
             ELSE Answered(t, "valid")
        /\ UNCHANGED <<runtime, updating>>
     \/ Fault /\ RestartFailed(t) /\ UNCHANGED core
  /\ UNCHANGED <<profiles, verge, shared, runFile, switching, validating, permit, moved,
                 booted, exiting, commands, clouded>>

-----------------------------------------------------------------------------
(* with_data_modify: one permit, a clone, the closure's file work, and a commit *)
(* that fails when the committed value was replaced meanwhile                   *)

Clone(t, mod, pc) ==
  /\ permit = None /\ permit' = t /\ moved' = FALSE
  /\ task' = [task EXCEPT ![t].mod = mod, ![t].pc = pc]

Modify(t) ==
  LET u == task[t].uid
      d == profiles.data
      Closure(mod, f, s) == Clone(t, mod, "commit") /\ file' = f /\ saved' = s
  IN  /\ At(t, "modify")
      /\ \/ /\ task[t].op = "create"
            /\ Closure(AppendItem(d, u), [file EXCEPT ![u] = task[t].arg], saved)
         \/ /\ task[t].op = "delete" /\ u \in ItemsOf(d)
            /\ LET p == DeleteItem(d, u) IN
               /\ permit = None /\ permit' = t /\ moved' = FALSE
               /\ task' = [task EXCEPT ![t].mod = p, ![t].pc = "commit",
                                       ![t].refresh = d.current \in {u, None}]
               /\ file' = [file EXCEPT ![u] = Missing] /\ saved' = p
         \/ /\ task[t].op \in {"update", "auto"} /\ u \in ItemsOf(d)
            /\ Closure(d, [file EXCEPT ![u] = task[t].arg], d)
         \/ /\ task[t].op = "reorder"
            /\ LET p == Reorder(d, u, task[t].arg)
               IN  Closure(p, file, IF {u, task[t].arg} \subseteq ItemsOf(d) THEN p ELSE saved)
         \/ /\ task[t].op = "switch"
            /\ Closure(PatchConfig(d, u), file, saved)
         \/ /\ task[t].op \in {"delete", "update", "auto"} /\ u \notin ItemsOf(d) /\ permit = None
            /\ Ended(t) /\ UNCHANGED <<permit, moved, file, saved>>
      \* the first profile of an empty list becomes current, and nobody tells the core
      /\ clouded' = \/ clouded
                    \/ task[t].op \in {"delete", "update", "auto"} /\ u \notin ItemsOf(d)
                    \/ task[t].op = "create" /\ d.current = None
      /\ kept' = IF task[t].op = "delete" THEN kept \ {u} ELSE kept
      /\ UNCHANGED <<late, emptied, profiles, verge, runtime, runFile, core, switching, updating, validating, lifecycle,
                     booted, exiting, commands, faults>>

\* The next thing a command does once its change is committed.
AfterCommit(t) ==
  CASE task[t].op \in {"update", "auto"} -> IF task[t].refresh THEN "update" ELSE "done"
    [] task[t].op = "reorder" -> "done"
    [] OTHER -> "save"

\* A refused switch has copied the list into its draft and not yet applied it.
Restoring == \E t \in Tasks : At(t, "apply")

CommitModify(t) ==
  /\ At(t, "commit")
  /\ permit' = None /\ UNCHANGED moved
  /\ IF moved
       THEN /\ Ended(t) /\ UNCHANGED <<profiles, past>>
            /\ switching' = (switching /\ task[t].op # "switch") /\ clouded' = TRUE
       ELSE /\ profiles' = [profiles EXCEPT !.data = task[t].mod]
            /\ IF AfterCommit(t) = "done" THEN Ended(t) ELSE Goto(t, AfterCommit(t))
            /\ kept' = IF task[t].op = "create" THEN kept \cup {task[t].uid} ELSE kept
            /\ late' = IF task[t].op = "create" /\ Restoring THEN late \cup {task[t].uid} ELSE late
            /\ emptied' = (emptied \/ (task[t].op = "reorder" /\ task[t].mod.items = <<>>))
            \* a delete takes a running switch's target away, or a reorder the whole list
            /\ clouded' = (clouded \/ emptied' \/ (task[t].op = "delete" /\ Switching(task[t].uid)))
            /\ UNCHANGED switching
  /\ UNCHANGED <<verge, runtime, file, saved, runFile, core, updating, validating, lifecycle,
                 booted, exiting, commands, faults>>

\* profiles_save_file_safe
Save(t) ==
  /\ At(t, "save")
  /\ Clone(t, profiles.data, "saved")
  /\ saved' = profiles.data
  /\ UNCHANGED <<profiles, verge, runtime, file, past, runFile, core, switching, updating, validating,
                 lifecycle, booted, exiting, commands, faults, clouded>>

\* Mutant: a delete never tells the core.
SaveEnd_NoRefresh(t) ==
  /\ At(t, "saved")
  /\ permit' = None /\ UNCHANGED moved
  /\ Ended(t)
  /\ switching' = (switching /\ ~(task[t].op = "switch" /\ task[t].out = "valid"))
  /\ UNCHANGED <<profiles, verge, runtime, shared, runFile, core, updating, validating, lifecycle,
                 booted, exiting, commands, faults, clouded>>

\* A delete goes on to the core only when its save succeeded.
SaveEnd(t) ==
  /\ At(t, "saved")
  /\ permit' = None /\ UNCHANGED moved
  /\ IF task[t].op = "delete" /\ task[t].refresh /\ ~moved THEN Goto(t, "update") ELSE Ended(t)
  /\ switching' = (switching /\ ~(task[t].op = "switch" /\ task[t].out = "valid"))
  /\ clouded' = (clouded \/ (moved /\ task[t].op # "switch"))
  /\ UNCHANGED <<profiles, verge, runtime, shared, runFile, core, updating, validating, lifecycle,
                 booted, exiting, commands, faults>>

-----------------------------------------------------------------------------
(* The commands *)

\* patch_profiles_config: one switch at a time; the target goes into the draft.
Switch(t, u) ==
  /\ Given(t, "switch") /\ ~switching /\ switching' = TRUE
  /\ task' = [task EXCEPT ![t] = Task("switch", u, "update", profiles.data.current)]
  /\ profiles' = EditDraft(profiles, PatchConfig(Latest(profiles), u))
  /\ clouded' = (clouded \/ Running({"patch_restart"}) \/ u \notin ItemsOf(Latest(profiles)))
  /\ UNCHANGED <<verge, runtime, shared, runFile, core, updating, validating, lifecycle, permit, moved,
                 booted, exiting, faults>>

\* Mutant: the switch applies its draft, the list as it was when it began.
SwitchOk_AppliesDraft(t) ==
  /\ At(t, "after") /\ task[t].op = "switch" /\ task[t].out = "valid"
  /\ profiles' = Apply(profiles)
  /\ Goto(t, "modify")
  /\ UNCHANGED <<verge, runtime, shared, runFile, core, locks, booted, exiting, commands, faults, clouded>>

\* handle_success: the draft is dropped and the choice committed on top of
\* whatever the list has become.
SwitchOk(t) ==
  /\ At(t, "after") /\ task[t].op = "switch" /\ task[t].out = "valid"
  /\ profiles' = Discard(profiles)
  /\ Goto(t, "modify")
  /\ UNCHANGED <<verge, runtime, shared, runFile, core, locks, booted, exiting, commands, faults, clouded>>

\* handle_validation_failure, handle_update_error, handle_timeout: discard, ...
SwitchRefused(t) ==
  /\ At(t, "after") /\ task[t].op = "switch" /\ task[t].out # "valid"
  /\ profiles' = Discard(profiles)
  /\ clouded' = TRUE
  /\ IF task[t].arg = None
       THEN Ended(t) /\ switching' = FALSE
       ELSE Goto(t, "restore") /\ UNCHANGED switching
  /\ UNCHANGED <<verge, runtime, shared, runFile, core, updating, validating, lifecycle, permit, moved,
                 booted, exiting, commands, faults>>

\* ... put the previous profile back in a new draft, ...
RestorePrevious(t) ==
  /\ At(t, "restore")
  /\ profiles' = EditDraft(profiles, PatchConfig(Latest(profiles), task[t].arg))
  /\ Goto(t, "apply")
  /\ clouded' = TRUE
  /\ UNCHANGED <<verge, runtime, shared, runFile, core, locks, booted, exiting, commands, faults>>

\* ... apply it, whatever was committed since the draft was made, and save in the background.
ApplyPrevious(t) ==
  /\ At(t, "apply")
  /\ profiles' = Apply(profiles)
  /\ moved' = (moved \/ profiles.draft # <<>>)
  /\ switching' = FALSE /\ clouded' = TRUE
  /\ Goto(t, "save")
  /\ UNCHANGED <<verge, runtime, shared, runFile, core, updating, validating, lifecycle, permit,
                 booted, exiting, commands, faults>>

Pipeline == {"update", "generate", "edit", "validate", "check", "write", "reload", "reloaded", "restart", "start"}

\* Mutant: a switch waits for its update without a deadline.
Expire_AutoOnly(t) ==
  /\ task[t].op = "auto" /\ task[t].pc \notin {"done"} /\ Ended(t)
  /\ updating' = Release(updating, t) /\ validating' = Release(validating, t)
  /\ lifecycle' = Release(lifecycle, t) /\ permit' = Release(permit, t)
  /\ clouded' = TRUE
  /\ UNCHANGED <<profiles, verge, runtime, shared, runFile, core, switching, moved,
                 booted, exiting, commands, faults>>

\* A deadline drops the future where it stands: its guards are released, the
\* runtime draft and a half-restarted core stay.  30 s for a switch's update,
\* 40 s for a whole automatic update.
Expire(t) ==
  /\ \/ task[t].op = "switch" /\ task[t].pc \in Pipeline /\ Answered(t, "timeout")
     \/ task[t].op = "auto" /\ task[t].pc \notin {"done"} /\ Ended(t)
  /\ updating' = Release(updating, t) /\ validating' = Release(validating, t)
  /\ lifecycle' = Release(lifecycle, t) /\ permit' = Release(permit, t)
  /\ clouded' = TRUE
  /\ UNCHANGED <<profiles, verge, runtime, shared, runFile, core, switching, moved,
                 booted, exiting, commands, faults>>

SwitchDeadline(t) == task[t].op = "switch" /\ Expire(t)

\* create_profile, import_profile: the profile is appended, then saved.
Create(t, u, c) ==
  /\ Given(t, "create") /\ u \notin ItemsOf(profiles.data)
  /\ \A s \in Tasks : ~(task[s].op = "create" /\ task[s].uid = u)
  /\ task' = [task EXCEPT ![t] = Task("create", u, "modify", c)]
  /\ UNCHANGED <<profiles, verge, runtime, shared, runFile, core, locks, booted, exiting, faults, clouded>>

\* A deep-link import whose append fails discards the profiles draft, whoever owns it.
ImportFailed(t) ==
  /\ Given(t, "import") /\ Fault
  /\ profiles' = Discard(profiles)
  /\ clouded' = (clouded \/ switching)
  /\ UNCHANGED <<verge, runtime, shared, runFile, core, locks, task, booted, exiting>>

Delete(t, u) ==
  /\ Given(t, "delete") /\ u \in ItemsOf(profiles.data)
  /\ task' = [task EXCEPT ![t] = Task("delete", u, "modify", None)]
  /\ clouded' = (clouded \/ Running({"patch_restart"}))
  /\ UNCHANGED <<profiles, verge, runtime, shared, runFile, core, locks, booted, exiting, faults>>

ReorderItems(t, x, y) ==
  /\ Given(t, "reorder")
  /\ task' = [task EXCEPT ![t] = Task("reorder", x, "modify", y)]
  /\ UNCHANGED <<profiles, verge, runtime, shared, runFile, core, locks, booted, exiting, faults, clouded>>

\* update_profile, by hand or by the timer: whether to refresh is decided before
\* the download.
UpdateProfile(t, op, u) ==
  /\ Given(t, op) /\ u \in ItemsOf(Latest(profiles))
  /\ task' = [task EXCEPT ![t] = [Task(op, u, "download", None) EXCEPT
                                    !.refresh = Latest(profiles).current = u]]
  /\ UNCHANGED <<profiles, verge, runtime, shared, runFile, core, locks, booted, exiting, faults, clouded>>

\* Three ways to fetch; when all fail the refresh still runs.
Download(t) ==
  /\ At(t, "download")
  /\ \/ /\ \E c \in Contents : task' = [task EXCEPT ![t].arg = c, ![t].pc = "modify"]
        /\ NoFault
     \/ /\ Fault
        /\ IF task[t].refresh THEN Goto(t, "update") ELSE Ended(t)
  /\ UNCHANGED <<profiles, verge, runtime, shared, runFile, core, locks, booted, exiting, commands, clouded>>

\* save_profile_file: the original is read and the new content written before
\* anything is checked.
SaveProfile(t, u, c) ==
  /\ Given(t, "save_file") /\ u \in ItemsOf(Latest(profiles))
  /\ task' = [task EXCEPT ![t] = [Task("save_file", u, "check_file", file[u]) EXCEPT
                                    !.refresh = Latest(profiles).current = u]]
  /\ file' = [file EXCEPT ![u] = c]
  /\ UNCHANGED <<profiles, verge, runtime, saved, past, runFile, core, locks, booted, exiting, faults, clouded>>

\* restore_original
RestoreOriginal(t) == file' = [file EXCEPT ![task[t].uid] = task[t].arg]

CheckFile(t) ==
  LET c == file[task[t].uid]
  IN  /\ At(t, "check_file")
      /\ \/ /\ c # Missing /\ Valid(c) /\ UNCHANGED file
            /\ IF task[t].refresh THEN Goto(t, "update") ELSE Ended(t)
            /\ UNCHANGED clouded
         \/ (c = Missing \/ ~Valid(c)) /\ RestoreOriginal(t) /\ Ended(t) /\ clouded' = TRUE
      /\ UNCHANGED <<profiles, verge, runtime, saved, past, runFile, core, locks, booted, exiting,
                     commands, faults>>

\* patch_verge and patch_clash: the draft is edited first; "restart" regenerates
\* and restarts the core, "reload" goes through the update pipeline, and some keys
\* of the core are written into the runtime configuration before it.
PatchRuntime(v) ==
  runtime' = EditDraft(runtime, IF Latest(runtime) = NoCfg THEN NoCfg
                                ELSE [Latest(runtime) EXCEPT !.verge = v])

PatchSettings(t, v, how) ==
  /\ Given(t, how)
  /\ verge' = EditDraft(verge, v)
  /\ task' = [task EXCEPT ![t] = Task(how, None, IF how = "patch_restart" THEN "generate" ELSE "update", None)]
  /\ clouded' = (clouded \/ (how = "patch_restart" /\ Running({"switch", "delete"})))
  /\ UNCHANGED runtime \/ (how = "patch_reload" /\ PatchRuntime(v))
  /\ UNCHANGED <<profiles, shared, runFile, core, locks, booted, exiting, faults>>

\* Every failure leaves through `?', before the arm that discards the draft.
PatchEnd(t) ==
  /\ At(t, "after") /\ task[t].op \in {"patch_restart", "patch_reload"}
  /\ verge' = IF task[t].out = "valid" THEN Apply(verge) ELSE verge
  /\ clouded' = (clouded \/ task[t].out # "valid")
  /\ Ended(t)
  /\ UNCHANGED <<profiles, runtime, shared, runFile, core, locks, booted, exiting, commands, faults>>

\* restart_core as the user asks for it: the command saves the list, or fails to; the tray does not.
RestartCommand(t) ==
  /\ Given(t, "restart")
  /\ saved' \in {profiles.data, saved}
  /\ task' = [task EXCEPT ![t] = Task("restart", None, "restart", None)]
  /\ UNCHANGED <<profiles, verge, runtime, file, past, runFile, core, locks, booted, exiting, faults, clouded>>

\* update_runtime_config (the proxy chain): the same flag, an edited draft, no generation
UpdateRuntime(t) ==
  /\ Given(t, "chain") /\ updating = None /\ updating' = t
  /\ runtime' = EditDraft(runtime, Latest(runtime))
  /\ task' = [task EXCEPT ![t] = Task("chain", None, "validate", None)]
  /\ UNCHANGED <<profiles, verge, shared, runFile, core, switching, validating, lifecycle, permit, moved,
                 booted, exiting, faults, clouded>>

\* How the other commands end once the update or the restart answered.
CommandEnd(t) ==
  /\ At(t, "after") /\ task[t].op \in {"delete", "update", "auto", "save_file", "restart", "chain"}
  /\ IF task[t].op = "save_file" /\ task[t].out # "valid" THEN RestoreOriginal(t) ELSE UNCHANGED file
  /\ clouded' = (clouded \/ task[t].out # "valid")
  /\ Ended(t)
  /\ UNCHANGED <<profiles, verge, runtime, saved, past, runFile, core, locks, booted, exiting, commands,
                 faults>>

\* quit: every draft is applied and saved, then the core is stopped.
Quit ==
  /\ booted /\ ~exiting /\ exiting' = TRUE /\ "quit" \in Commands
  /\ profiles' = Apply(profiles) /\ verge' = Apply(verge)
  /\ moved' = TRUE
  /\ saved' = Latest(profiles)
  /\ core' = NoCfg /\ clouded' = TRUE
  /\ UNCHANGED <<runtime, file, past, runFile, switching, updating, validating, lifecycle, permit, task,
                 booted, commands, faults>>

\* The application has nothing left to do.
Settled ==
  /\ Quiet /\ booted /\ (exiting \/ commands = MaxCommands)
  /\ UNCHANGED vars

\* Steps that finish by themselves: they wait for nothing outside the application.
Own(t) ==
  \/ UpdateStart(t) \/ Generate(t) \/ EditRuntime(t) \/ Validate(t) \/ WriteRun(t) \/ Reloaded(t)
  \/ Modify(t) \/ CommitModify(t) \/ Save(t) \/ SaveEnd(t)
  \/ SwitchOk(t) \/ SwitchRefused(t) \/ RestorePrevious(t) \/ ApplyPrevious(t) \/ CheckFile(t) \/ PatchEnd(t) \/ CommandEnd(t)

\* Steps that wait for the core, its check, or the network.
Outside(t) == Check(t) \/ Reload(t) \/ Restart(t) \/ StartCore(t) \/ Download(t)

Command(t) ==
  \/ \E u \in SwitchTo : Switch(t, u)
  \/ \E u \in NewUids, c \in {"v1"} : Create(t, u, c)
  \/ \E u \in Deletable : Delete(t, u)
  \/ \E p \in Reordered : ReorderItems(t, p[1], p[2])
  \/ \E u \in SwitchTo, op \in {"update", "auto"} : UpdateProfile(t, op, u)
  \/ \E u \in SwitchTo, c \in Contents : SaveProfile(t, u, c)
  \/ \E how \in {"patch_restart", "patch_reload"} : PatchSettings(t, 1, how)
  \/ RestartCommand(t) \/ UpdateRuntime(t) \/ ImportFailed(t)

Next == Boot \/ Quit \/ Settled \/ \E t \in Tasks : Own(t) \/ Outside(t) \/ Expire(t) \/ Command(t)

Spec == Init /\ [][Next]_vars

\* Only the application's own steps and its deadline are assumed to happen.
FairSpec == Spec /\ WF_vars(Boot) /\ \A t \in Tasks : WF_vars(Own(t)) /\ WF_vars(SwitchDeadline(t))

-----------------------------------------------------------------------------
(* Properties *)

TypeOK ==
  /\ profiles.data.current \in Uids \cup {None} /\ ItemsOf(profiles.data) \subseteq Uids
  /\ switching \in BOOLEAN /\ moved \in BOOLEAN
  /\ {updating, validating, lifecycle, permit} \subseteq Tasks \cup {None}
  /\ \A t \in Tasks : task[t].pc \in Pipeline \cup
       {"done", "after", "modify", "commit", "save", "saved", "check_file", "download", "restore", "apply"}

\* The current profile, committed or drafted, is a profile of the list, whatever
\* switches, deletions, restores and imports run into each other; until a reorder
\* that names a profile no longer listed commits an empty list.
CurrentExists ==
  ~emptied => \A p \in {profiles.data, Latest(profiles)} : p.current # None => p.current \in ItemsOf(p)

\* A profile whose creation was committed stays in the list until it is deleted:
\* a switch that began before, and ends after, does not write an older list back.
\* Two ways out: such a reorder, and a creation committed in the window between
\* the edit_draft and the apply of a refused switch.
AddedIsKept == ~exiting /\ ~emptied => kept \ late \subseteq ItemsOf(profiles.data)

\* When nothing is under way the core runs the profile the list calls current,
\* provided every command was answered with success and none of the known races
\* happened: a deadline, a failed deep-link import or the deletion of the target
\* during a switch, or a switch to a profile that is not in the list; a settings
\* change, which generates and restarts without the update flag, beside a switch
\* or a deletion; an update that reads the list after a successful switch dropped
\* its draft and before it commits the choice; the first profile of an empty list,
\* which becomes current without the core being told; a reorder that empties the list.
RunningIsCurrent ==
  Quiet /\ booted /\ ~clouded /\ core # NoCfg => core.uid = profiles.data.current

\* Outside a switch there is no draft of the profile list that a later command
\* could apply.
NoStrayDraft == ~switching => profiles.draft = <<>>

\* A switch always ends, even if the core, its check or another task's restart
\* never answers.
SwitchReturns == switching ~> ~switching

\* The profile list survives what runs into a switch: the current profile is one
\* of it and no committed profile is lost, but for the two ways out above, and
\* outside a switch no draft is left for a later command to apply
\* (patch_profiles_config, restore_previous_profile, Draft).
ListIsSound == TypeOK /\ CurrentExists /\ AddedIsKept /\ NoStrayDraft
=============================================================================
