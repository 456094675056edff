------------------------------- MODULE Sysopt -------------------------------
(***************************************************************************)
(* The desktop's proxy settings: Sysopt (core/sysopt.rs), the saves of       *)
(* settings that lead to it (feat/config.rs, feat/proxy.rs) and the cleanup  *)
(* of a quit (feat/window.rs).  Updates hold update_lock; a reset does not.  *)
(* The guard is the sysproxy library's monitor, which puts its proxy back    *)
(* when the desktop's differs.                                               *)
(***************************************************************************)
EXTENDS Naturals, Sequences

CONSTANTS Savers, Quitters, Ports, MaxEdits

VARIABLES
    os,              \* the desktop the application was built for
    saved, draft,    \* the settings, and their draft: [proxy, pac, guard, port]
    desktop,         \* the desktop's own: [sys, auto]; a port (0 when off), and PAC
    guardType,       \* GuardType: "None", or [kind, port]
    guardOn,         \* the guard has been started
    lock,            \* the holder of update_lock
    resetting,       \* reset_sysproxy
    at,              \* where each save, and each quit, is
    job,             \* what each of them applies: [want, steps]
    applied,         \* the settings whose update, or the reset, was the last to finish; none after a failure
    crossed,         \* a reset and an update, or two quits, have overlapped
    edits

sysopt == <<os, saved, draft, desktop, guardType, guardOn, lock, resetting, at, job, applied, crossed, edits>>

Tasks == Savers \cup Quitters
Off == [proxy |-> FALSE, pac |-> FALSE, guard |-> FALSE, port |-> 0]
NoJob == [want |-> Off, steps |-> <<>>]
Settings == [proxy : BOOLEAN, pac : BOOLEAN, guard : BOOLEAN, port : Ports]

\* What the desktop should be set to: the master switch, then PAC or the global proxy.
Target(s) == [sys |-> IF s.proxy /\ ~s.pac THEN s.port ELSE 0, auto |-> s.proxy /\ s.pac]
GuardTypeFor(s) ==
    CASE s.proxy /\ s.guard /\ s.pac -> [kind |-> "Autoproxy", port |-> 0]
      [] s.proxy /\ s.guard /\ ~s.pac -> [kind |-> "Sysproxy", port |-> s.port]
      [] OTHER -> [kind |-> "None", port |-> 0]

Init ==
    /\ os \in {"windows", "macos"}
    /\ saved \in Settings /\ saved.port = (CHOOSE p \in Ports : TRUE) /\ draft = saved
    /\ desktop = Target(Off)
    /\ guardType = GuardTypeFor(Off) /\ guardOn = FALSE
    /\ lock = "none" /\ resetting = FALSE
    /\ at = [t \in Tasks |-> "idle"]
    /\ job = [t \in Tasks |-> NoJob]
    /\ applied = {Off} /\ crossed = FALSE /\ edits = 0

(* determine_update_flags: which parts of the application a changed field    *)
(* has brought up to date.  The proxy's port is among the fields that only   *)
(* restart the core.                                                         *)
UpdateFlags ==
    [port |-> {"RESTART_CORE"}, tun |-> {"CLASH_CONFIG", "TRAY"},
     proxy |-> {"SYS_PROXY", "TRAY"}, pac |-> {"SYS_PROXY"}, guard |-> {"SYS_PROXY"},
     hotkeys |-> {"HOTKEY", "TRAY"}, language |-> {"LANGUAGE", "TRAY"}, icon |-> {"TRAY"},
     launch |-> {"LAUNCH"}, lightweight |-> {"LIGHT_WEIGHT"}, log |-> {"LOG_LEVEL", "LOG_FILE"}]

Exiting == \E q \in Quitters : at[q] = "gone"
Resetting(t) == t \in Quitters /\ at[t] = "apply"
Updating(t) == t \in Savers /\ at[t] \in {"read", "apply"}
-----------------------------------------------------------------------------
(* A save: patch_verge edits the shared draft, has its effects carried out,  *)
(* and commits the draft; an effect that fails leaves the draft behind.      *)

PatchVerge(t, s) ==
    /\ ~Exiting /\ at[t] = "idle" /\ edits < MaxEdits /\ edits' = edits + 1
    /\ draft' = s
    /\ \E f \in {"proxy", "pac", "guard", "port"} :
          /\ \A g \in {"proxy", "pac", "guard", "port"} \ {f} : s[g] = draft[g]
          /\ at' = [at EXCEPT ![t] = IF "SYS_PROXY" \in UpdateFlags[f] THEN "lock" ELSE "commit"]
    /\ UNCHANGED <<os, saved, desktop, guardType, guardOn, lock, resetting, job, applied, crossed>>

\* toggle_system_proxy: the switch is the opposite of the draft's.
ToggleSystemProxy(t) == PatchVerge(t, [draft EXCEPT !.proxy = ~@])

\* init_system_proxy and a change by the settings page go the same way.
SaveSettings(t) == \E s \in Settings : s.proxy = draft.proxy /\ PatchVerge(t, s)

LockUpdate(t) ==
    /\ ~Exiting /\ at[t] = "lock" /\ lock = "none"
    /\ lock' = t /\ at' = [at EXCEPT ![t] = "read"]
    /\ job' = [job EXCEPT ![t] = [want |-> draft, steps |-> <<>>]]
    /\ crossed' = (crossed \/ \E q \in Quitters : Resetting(q))
    /\ UNCHANGED <<os, saved, draft, desktop, guardType, guardOn, resetting, applied, edits>>

\* proxy_apply_steps: turning PAC off clears the global proxy too on Windows, so it comes first then.
ProxyApplySteps(d) ==
    IF d.sys # 0 /\ ~d.auto THEN <<"Autoproxy", "Sysproxy">> ELSE <<"Sysproxy", "Autoproxy">>

\* proxy_apply_required: on macOS nothing is applied over a desktop that is clear and to stay so.
ProxyApplyRequired(d) == os = "macos" => (d # Target(Off) \/ desktop # Target(Off))

Finish(t, s) == applied' = s /\ lock' = (IF lock = t THEN "none" ELSE lock)

UpdateSysproxy(t) ==
    /\ ~Exiting /\ at[t] = "read"
    /\ LET d == Target(job[t].want) IN
          /\ guardType' = GuardTypeFor(job[t].want)
          /\ IF ProxyApplyRequired(d)
             THEN /\ at' = [at EXCEPT ![t] = "apply"]
                  /\ job' = [job EXCEPT ![t].steps = ProxyApplySteps(d)]
                  /\ UNCHANGED <<applied, lock>>
             ELSE at' = [at EXCEPT ![t] = "guard"] /\ Finish(t, {job[t].want}) /\ job' = [job EXCEPT ![t] = NoJob]
    /\ UNCHANGED <<os, saved, draft, desktop, guardOn, resetting, crossed, edits>>

\* set_system_proxy and set_auto_proxy, as the desktop carries them out.
SetProxy(step, d) ==
    CASE step = "Sysproxy" -> [desktop EXCEPT !.sys = d.sys]
      [] step = "Autoproxy" -> [auto |-> d.auto,
                                sys |-> IF os = "windows" /\ ~d.auto THEN 0 ELSE desktop.sys]

\* A step of an update or of a reset; one that fails ends it with the other undone.
ApplyStep(t) ==
    /\ ~Exiting /\ at[t] = "apply"
    /\ \/ /\ desktop' = SetProxy(Head(job[t].steps), Target(job[t].want))
          /\ IF Len(job[t].steps) > 1
             THEN job' = [job EXCEPT ![t].steps = Tail(@)] /\ UNCHANGED <<at, applied, lock, resetting>>
             ELSE /\ at' = [at EXCEPT ![t] = IF t \in Quitters THEN "clean" ELSE "guard"]
                  /\ Finish(t, {job[t].want}) /\ job' = [job EXCEPT ![t] = NoJob]
                  /\ resetting' = (resetting /\ t \notin Quitters)
       \/ /\ at' = [at EXCEPT ![t] = IF t \in Quitters THEN "clean" ELSE "idle"]
          /\ Finish(t, {})
          /\ resetting' = (resetting /\ t \notin Quitters)
          /\ job' = [job EXCEPT ![t] = NoJob]
          /\ UNCHANGED desktop
    /\ UNCHANGED <<os, saved, draft, guardType, guardOn, crossed, edits>>

RefreshGuard(t) ==
    /\ ~Exiting /\ at[t] = "guard"
    /\ guardOn' = (draft.proxy /\ draft.guard)
    /\ at' = [at EXCEPT ![t] = "commit"]
    /\ UNCHANGED <<os, saved, draft, desktop, guardType, lock, resetting, job, applied, crossed, edits>>

Commit(t) ==
    /\ ~Exiting /\ at[t] = "commit"
    /\ saved' = draft /\ at' = [at EXCEPT ![t] = "idle"]
    /\ UNCHANGED <<os, draft, desktop, guardType, guardOn, lock, resetting, job, applied, crossed, edits>>

\* The guard puts its proxy back.
GuardTick ==
    /\ ~Exiting /\ guardOn
    /\ CASE guardType.kind = "Sysproxy" -> desktop' = SetProxy("Sysproxy", [sys |-> guardType.port, auto |-> FALSE])
         [] guardType.kind = "Autoproxy" -> desktop' = SetProxy("Autoproxy", [sys |-> 0, auto |-> TRUE])
         [] OTHER -> FALSE
    /\ desktop' # desktop
    /\ UNCHANGED <<os, saved, draft, guardType, guardOn, lock, resetting, at, job, applied, crossed, edits>>

\* Another program switches the desktop's proxy off.
OtherProgram ==
    /\ ~Exiting /\ desktop # Target(Off) /\ edits < MaxEdits /\ edits' = edits + 1
    /\ desktop' = Target(Off) /\ applied' = {}
    /\ UNCHANGED <<os, saved, draft, guardType, guardOn, lock, resetting, at, job, crossed>>
-----------------------------------------------------------------------------
(* A quit: drafts are committed, then clean_async resets the proxy if the    *)
(* settings have it on.                                                      *)

Quit(q) ==
    /\ ~Exiting /\ at[q] = "idle"
    /\ saved' = draft /\ at' = [at EXCEPT ![q] = "reset"]
    /\ UNCHANGED <<os, draft, desktop, guardType, guardOn, lock, resetting, job, applied, crossed, edits>>

\* reset_sysproxy: the guard is told to guard nothing, and both proxies are switched off.
ResetSysproxy(q) ==
    /\ ~Exiting /\ at[q] = "reset"
    /\ saved.proxy /\ ~resetting /\ resetting' = TRUE
    /\ guardType' = GuardTypeFor(Off)
    /\ job' = [job EXCEPT ![q] = [want |-> Off, steps |-> <<"Sysproxy", "Autoproxy">>]]
    /\ at' = [at EXCEPT ![q] = "apply"]
    /\ crossed' = (crossed \/ \E t \in Savers : Updating(t))
    /\ UNCHANGED <<os, saved, draft, desktop, guardOn, lock, applied, edits>>

\* A quit that finds the proxy off, or another quit resetting it, has nothing to reset.
SkipReset(q) ==
    /\ ~Exiting /\ at[q] = "reset"
    /\ ~saved.proxy \/ resetting
    /\ at' = [at EXCEPT ![q] = "clean"]
    /\ crossed' = (crossed \/ resetting)
    /\ UNCHANGED <<os, saved, draft, desktop, guardType, guardOn, lock, resetting, job, applied, edits>>

\* clean_async is through, or its 1.5 seconds for the reset are: the process ends.
Exit(q) ==
    /\ ~Exiting /\ at[q] \in {"apply", "clean"}
    /\ at' = [at EXCEPT ![q] = "gone"]
    /\ applied' = IF at[q] = "apply" THEN {} ELSE applied
    /\ UNCHANGED <<os, saved, draft, desktop, guardType, guardOn, lock, resetting, job, crossed, edits>>

Next ==
    \/ \E t \in Savers :
          \/ SaveSettings(t) \/ ToggleSystemProxy(t) \/ LockUpdate(t) \/ UpdateSysproxy(t)
          \/ RefreshGuard(t) \/ Commit(t)
    \/ \E t \in Tasks : ApplyStep(t)
    \/ \E q \in Quitters : Quit(q) \/ ResetSysproxy(q) \/ SkipReset(q) \/ Exit(q)
    \/ GuardTick \/ OtherProgram

Spec == Init /\ [][Next]_sysopt
-----------------------------------------------------------------------------
(* Once nobody is changing the desktop's proxy any more it is the one of the *)
(* settings whose update, or the reset, was the last to finish, whatever the *)
(* guard has done meanwhile: global proxy and PAC are never both left on,    *)
(* and a quit leaves neither (update_sysproxy, reset_sysproxy,               *)
(* proxy_apply_steps).  A reset that met an update half way is excepted: it  *)
(* does not take update_lock, and either may be the last to write.           *)
ProxyIsAsApplied ==
    (~crossed /\ \A t \in Tasks : ~Updating(t) /\ ~Resetting(t)) =>
        \A s \in applied : desktop = Target(s)
=============================================================================
