----------------------------- MODULE MainWindow -----------------------------
(***************************************************************************)
(* The main window: WindowManager (utils/window_manager.rs), its creation    *)
(* and the recovery of a killed web page (utils/resolve/window.rs), the      *)
(* lightweight mode that destroys it (module/lightweight.rs), and the window *)
(* events of lib.rs.  Window operations within a debounce interval of each   *)
(* other are dropped.                                                        *)
(***************************************************************************)

VARIABLES
    window,          \* WindowState
    page,            \* the web page: "loading", "live", "dead", or "lost": dead, and its reload refused
    needsReload,     \* WEBVIEW_NEEDS_RELOAD
    reloadTask,      \* the task that reloads a page which died in front of the user
    focusEvent,      \* a Focused(true) event not yet handled
    light,           \* LIGHTWEIGHT_STATE
    exitAt,          \* where exit_lightweight_mode is
    building,        \* toggle_main_window is creating the window
    closeListener,   \* the listener that arms the timer when the window is closed
    focusListener,   \* the listener that cancels it
    arming, timer,   \* the arming task, and CANCEL_TX
    auto,            \* enable_auto_light_weight_mode, as saved
    patching,        \* patch_verge is switching it "on" or "off", and has dealt with the listeners
    recent,          \* WINDOW_OPERATION_LIMITER refuses an operation
    dropped          \* the listeners are not on the window although they should be: what made the
                     \* window, or set them, was refused or failed, and nothing has set them since

main == <<window, page, needsReload, reloadTask, focusEvent, light, exitAt, building,
          closeListener, focusListener, arming, timer, auto, patching, recent, dropped>>

WindowState == {"none", "hidden", "minimized", "visible", "focused"}

(* init_window and auto_lightweight_boot: a silent start makes no window and *)
(* goes into lightweight mode.  The listeners come after Timer::init, which  *)
(* may fail.                                                                 *)
Init ==
    /\ \E silent \in BOOLEAN :
          /\ window = IF silent THEN "none" ELSE "hidden"
          /\ light = IF silent THEN "In" ELSE "Normal"
    /\ auto \in BOOLEAN
    /\ \/ closeListener = (auto /\ window # "none") /\ dropped = FALSE
       \/ auto /\ closeListener = FALSE /\ dropped = TRUE
    /\ focusListener = closeListener /\ patching = "none"
    /\ page = "loading" /\ needsReload = FALSE /\ reloadTask = FALSE /\ focusEvent = FALSE
    /\ exitAt = "none" /\ building = FALSE /\ arming = FALSE /\ timer = FALSE
    /\ recent = FALSE

IsUserVisible == window \in {"visible", "focused"}
-----------------------------------------------------------------------------
(* Pieces of the operations; each sets window, page, needsReload,            *)
(* focusEvent, reloadTask and the listeners.                                 *)

Listeners(on) == closeListener' = on /\ focusListener' = on

\* window.reload(): a refusal is only logged, and a dead page stays what it is.
Reload == page' \in {"loading", IF page = "dead" THEN "lost" ELSE page}

(* activate_window: a page known to be dead is reloaded first and shown by   *)
(* on_page_load; any other window, and one that cannot be reloaded, is shown *)
(* and focused at once.                                                      *)
ActivateWindow ==
    /\ needsReload' = FALSE
    /\ IF needsReload THEN Reload ELSE UNCHANGED page
    /\ IF needsReload /\ page' = "loading"
       THEN window' = (IF window = "minimized" THEN "visible" ELSE window) /\ UNCHANGED focusEvent
       ELSE window' = "focused" /\ focusEvent' = TRUE

(* build_new_window: a window is made hidden, and a flag left by its         *)
(* predecessor is dropped; a second window of the name cannot be made.       *)
BuildNewWindow ==
    \/ /\ window = "none"
       /\ window' = "hidden" /\ page' = "loading" /\ needsReload' = FALSE
       /\ UNCHANGED dropped
    \/ /\ dropped' = (dropped \/ window = "none")
       /\ UNCHANGED <<window, page, needsReload>>

\* handle_window_close: the window is only hidden, and the close listener arms the timer.
HandleWindowClose ==
    /\ window' = "hidden"
    /\ arming' = (arming \/ closeListener)

CancelLightWeightTimer == timer' = FALSE

DestroyMainWindow ==
    /\ window' = "none" /\ reloadTask' = FALSE /\ focusEvent' = FALSE
    /\ Listeners(FALSE)
-----------------------------------------------------------------------------
\* entry_lightweight_mode: only the normal state enters it.
EntryLightweight ==
    /\ light = "Normal" /\ light' = "In"
    /\ DestroyMainWindow
    /\ CancelLightWeightTimer

EntryLightweightMode ==
    /\ EntryLightweight
    /\ UNCHANGED <<page, needsReload, exitAt, building, arming, auto, patching, recent, dropped>>

\* open_or_close_dashboard, or the dock, in lightweight mode: one of them leads out of it.
ExitLightweightMode ==
    /\ light = "In" /\ light' = "Exiting" /\ exitAt' = "show"
    /\ UNCHANGED <<window, page, needsReload, reloadTask, focusEvent, building, closeListener, focusListener,
                   arming, timer, auto, patching, recent, dropped>>

\* show_main_window, on the way out.
ShowMainWindow ==
    /\ exitAt = "show"
    /\ \/ /\ recent
          /\ dropped' = (dropped \/ window = "none")
          /\ exitAt' = "listen"
          /\ UNCHANGED <<window, page, needsReload, focusEvent, recent>>
       \/ /\ ~recent /\ recent' = TRUE
          /\ CASE window = "none" -> exitAt' = "build" /\ UNCHANGED <<window, page, needsReload, focusEvent>>
               [] window = "focused" -> exitAt' = "listen" /\ UNCHANGED <<window, page, needsReload, focusEvent>>
               [] OTHER -> exitAt' = "listen" /\ ActivateWindow
          /\ UNCHANGED dropped
    /\ UNCHANGED <<reloadTask, light, building, closeListener, focusListener, arming, timer, auto, patching>>

CreateOnExit ==
    /\ exitAt = "build" /\ exitAt' = "listen"
    /\ BuildNewWindow
    /\ UNCHANGED <<reloadTask, focusEvent, light, building, closeListener, focusListener, arming, timer, auto,
                   patching, recent>>

(* The rest of exit_lightweight_mode: listeners for the new window, if there *)
(* is one and the setting is on; one that is being switched on is not seen.  *)
FinishExit ==
    /\ exitAt = "listen" /\ exitAt' = "none" /\ light' = "Normal"
    /\ IF auto /\ window # "none" THEN Listeners(TRUE) /\ dropped' = FALSE
       ELSE /\ dropped' = (dropped \/ patching = "on")
            /\ UNCHANGED <<closeListener, focusListener>>
    /\ CancelLightWeightTimer
    /\ UNCHANGED <<window, page, needsReload, reloadTask, focusEvent, building, arming, auto, patching, recent>>

\* toggle_main_window: close what is visible, activate what is not, make what is missing.
ToggleMainWindow ==
    /\ light # "In" /\ ~recent /\ recent' = TRUE
    /\ \/ window = "none" /\ building' = TRUE
          /\ UNCHANGED <<window, page, needsReload, focusEvent, arming>>
       \/ IsUserVisible /\ HandleWindowClose
          /\ UNCHANGED <<page, needsReload, focusEvent, building>>
       \/ window \in {"hidden", "minimized"} /\ ActivateWindow
          /\ UNCHANGED <<arming, building>>
    /\ UNCHANGED <<reloadTask, light, exitAt, closeListener, focusListener, timer, auto, patching, dropped>>

CreateOnToggle ==
    /\ building /\ building' = FALSE
    /\ BuildNewWindow
    /\ UNCHANGED <<reloadTask, focusEvent, light, exitAt, closeListener, focusListener, arming, timer, auto,
                   patching, recent>>

\* handle_reopen outside lightweight mode: the dock brings a hidden window back.
HandleReopen ==
    /\ light # "In" /\ window \in {"hidden", "minimized"}
    /\ ~recent /\ recent' = TRUE
    /\ ActivateWindow
    /\ UNCHANGED <<reloadTask, light, exitAt, building, closeListener, focusListener, arming, timer, auto,
                   patching, dropped>>

\* The user closes the window by its button.
CloseRequested ==
    /\ IsUserVisible
    /\ HandleWindowClose
    /\ UNCHANGED <<page, needsReload, reloadTask, focusEvent, light, exitAt, building, closeListener,
                   focusListener, timer, auto, patching, recent, dropped>>

\* hide (CMD+W): the timer is armed for the setting, not by the listener.
Hide ==
    /\ IsUserVisible
    /\ window' = "hidden" /\ arming' = (arming \/ auto)
    /\ UNCHANGED <<page, needsReload, reloadTask, focusEvent, light, exitAt, building, closeListener,
                   focusListener, timer, auto, patching, recent, dropped>>

\* The desktop moves the window: it loses the focus, is minimized, or comes back.
Desktop ==
    /\ \/ window = "focused" /\ window' \in {"visible", "minimized"} /\ UNCHANGED focusEvent
       \/ window \in {"visible", "minimized"} /\ window' = "focused" /\ focusEvent' = TRUE
    /\ UNCHANGED <<page, needsReload, reloadTask, light, exitAt, building, closeListener, focusListener, arming,
                   timer, auto, patching, recent, dropped>>

\* setup_light_weight_timer: one timer at a time.
SetupLightWeightTimer ==
    /\ arming /\ arming' = FALSE /\ timer' = TRUE
    /\ UNCHANGED <<window, page, needsReload, reloadTask, focusEvent, light, exitAt, building, closeListener,
                   focusListener, auto, patching, recent, dropped>>

TimerFires ==
    /\ timer
    /\ \/ EntryLightweight
       \/ /\ light # "Normal" /\ timer' = FALSE
          /\ UNCHANGED <<window, reloadTask, focusEvent, light, closeListener, focusListener>>
    /\ UNCHANGED <<page, needsReload, exitAt, building, arming, auto, patching, recent, dropped>>

(* The settings page switches the mode: enable_auto_light_weight_mode gives  *)
(* up without a word when Timer::init fails, disable_auto_light_weight_mode  *)
(* takes timer and listeners off.  One patch at a time.                      *)
SetAuto ==
    /\ window = "focused" /\ patching = "none"
    /\ \/ /\ auto /\ patching' = "off"
          /\ Listeners(FALSE) /\ CancelLightWeightTimer
          /\ UNCHANGED dropped
       \/ /\ ~auto /\ patching' = "on"
          /\ \/ Listeners(TRUE) /\ dropped' = FALSE
             \/ dropped' = TRUE /\ UNCHANGED <<closeListener, focusListener>>
          /\ UNCHANGED timer
    /\ UNCHANGED <<window, page, needsReload, reloadTask, focusEvent, light, exitAt, building, arming, auto,
                   recent>>

(* The rest of patch_verge: the setting is committed, or a later part of the *)
(* patch fails and it stays, whatever became of the listeners.               *)
CommitAuto ==
    /\ patching # "none" /\ patching' = "none"
    /\ \/ auto' = (patching = "on") /\ UNCHANGED dropped
       \/ dropped' = (dropped \/ patching = "off") /\ UNCHANGED auto
    /\ UNCHANGED <<window, page, needsReload, reloadTask, focusEvent, light, exitAt, building, closeListener,
                   focusListener, arming, timer, recent>>

Elapse ==
    /\ recent /\ recent' = FALSE
    /\ UNCHANGED <<window, page, needsReload, reloadTask, focusEvent, light, exitAt, building, closeListener,
                   focusListener, arming, timer, auto, patching, dropped>>
-----------------------------------------------------------------------------
\* on_page_load: the window is shown and focused, whoever had the page loaded.
PageLoaded ==
    /\ window # "none" /\ page = "loading" /\ page' = "live"
    /\ window' = "focused" /\ focusEvent' = TRUE
    /\ UNCHANGED <<needsReload, reloadTask, light, exitAt, building, closeListener, focusListener, arming,
                   timer, auto, patching, recent, dropped>>

(* The system kills the page's process: in front of the user it is reloaded  *)
(* by a task, behind a hidden window only marked.  (A page killed before it  *)
(* was first loaded is left out.)                                            *)
OnWebContentProcessTerminated ==
    /\ window # "none" /\ page = "live" /\ page' = "dead"
    /\ IF IsUserVisible THEN reloadTask' = TRUE /\ UNCHANGED needsReload
       ELSE needsReload' = TRUE /\ UNCHANGED reloadTask
    /\ UNCHANGED <<window, focusEvent, light, exitAt, building, closeListener, focusListener, arming, timer,
                   auto, patching, recent, dropped>>

RunReloadTask ==
    /\ reloadTask /\ reloadTask' = FALSE
    /\ Reload
    /\ UNCHANGED <<window, needsReload, focusEvent, light, exitAt, building, closeListener, focusListener,
                   arming, timer, auto, patching, recent, dropped>>

\* Focused(true): reload_main_window_if_needed, and the listener that cancels the timer.
ReloadMainWindowIfNeeded ==
    /\ focusEvent /\ focusEvent' = FALSE
    /\ needsReload' = FALSE
    /\ IF needsReload THEN Reload ELSE UNCHANGED page
    /\ IF focusListener THEN CancelLightWeightTimer ELSE UNCHANGED timer
    /\ UNCHANGED <<window, reloadTask, light, exitAt, building, closeListener, focusListener, arming, auto,
                   patching, recent, dropped>>
-----------------------------------------------------------------------------
Next ==
    \/ EntryLightweightMode \/ ExitLightweightMode \/ ShowMainWindow \/ CreateOnExit \/ FinishExit
    \/ ToggleMainWindow \/ CreateOnToggle \/ HandleReopen \/ CloseRequested \/ Hide \/ Desktop
    \/ SetupLightWeightTimer \/ TimerFires \/ SetAuto \/ CommitAuto \/ Elapse
    \/ PageLoaded \/ OnWebContentProcessTerminated \/ RunReloadTask \/ ReloadMainWindowIfNeeded

Spec == Init /\ [][Next]_main
-----------------------------------------------------------------------------
(* The user does not look at the blank page of a killed process for good: it *)
(* is being reloaded, or the event that reloads it is on its way, unless the *)
(* reload was refused, which nothing repeats.                                *)
BlankPageIsReloaded ==
    window = "focused" /\ page = "dead" => reloadTask \/ (needsReload /\ focusEvent)

(* With the automatic lightweight mode on, closing the window arms its       *)
(* timer: the listeners are on the window, unless the mode is being switched *)
(* off or what should have set them failed; after the next exit from the     *)
(* lightweight mode that has a window they are there again.                  *)
AutoLightweightIsArmed ==
    auto /\ patching # "off" /\ light = "Normal" /\ window # "none" /\ ~dropped => closeListener /\ focusListener
=============================================================================
