------------------------------- MODULE Hotkey -------------------------------
(***************************************************************************)
(* Hotkey (core/hotkey.rs) and the window events that register and drop the  *)
(* system's keys (lib.rs, event_handlers).  The desktop keeps one function   *)
(* per key.  The settings change the user's keys through update; a window    *)
(* that gains or loses the focus starts a task of its own, and such tasks    *)
(* may run late or out of order.                                             *)
(***************************************************************************)
EXTENDS Naturals, FiniteSets, Sequences

CONSTANTS
    Keys,            \* the user's keys
    Functions,       \* HotkeyFunction: what a key may do
    MaxEvents        \* bound: what the user does

Free == "free"
\* SystemHotkey: CMD+Q, which quits.
SystemKey == "cmd_q"
SystemFunction == "quit"
AllKeys == Keys \cup {SystemKey}
Unset == [k \in Keys |-> Free]

VARIABLES
    saved,           \* verge.hotkeys: a function for every key that has one
    draft,           \* the same with the patch that is being carried out
    global,          \* enable_global_hotkey
    current,         \* Hotkey.current
    registered,      \* the desktop: the function of each key
    pressed,         \* the flag of each registered closure
    update,          \* update: [at, del, add]
    inits,           \* the calls of init under way: the list each has read, and the keys left
    focused,         \* the window has the focus
    tasks,           \* the focus tasks not yet run
    newestTask,      \* the task of the newest focus event: "waiting", "run", or "undone" by an older one
    ran,             \* the function last run
    astray,          \* the keys that failures and crossing calls have set adrift (see the properties)
    events

hotkey == <<saved, draft, global, current, registered, pressed, update, inits, focused, tasks, newestTask, ran,
            astray, events>>

Maps == [Keys -> Functions \cup {Free}]
Listed(list) == {k \in Keys : list[k] # Free}
Idle == [at |-> "idle", del |-> {}, add |-> {}]

\* Hotkey::init at start-up registers what the settings hold, unless keys are local to the window.
Init ==
    /\ saved \in Maps /\ draft = saved
    /\ global \in BOOLEAN
    /\ current = IF global THEN saved ELSE Unset
    /\ registered = [k \in AllKeys |-> IF k \in Keys /\ global THEN saved[k] ELSE Free]
    /\ pressed = [k \in AllKeys |-> FALSE]
    /\ update = Idle /\ inits = {}
    /\ focused = FALSE /\ tasks = <<>> /\ newestTask = "run" /\ ran = Free
    /\ astray = {} /\ events = 0

Event == events < MaxEvents /\ events' = events + 1
-----------------------------------------------------------------------------
(* register_hotkey_with_function replaces what is there; the new closure     *)
(* starts with its key up.                                                   *)
Register(k, f) ==
    /\ registered' = [registered EXCEPT ![k] = f]
    /\ pressed' = [pressed EXCEPT ![k] = FALSE]

Unregister(ks) ==
    /\ registered' = [k \in AllKeys |-> IF k \in ks THEN Free ELSE registered[k]]
    /\ pressed' = [k \in AllKeys |-> pressed[k] /\ k \notin ks]

\* The desktop refuses the key, before or after what was there has been dropped.
RegisterRefused(k) == Unregister({}) \/ Unregister({k})

\* Mutant: a key whose function changed is neither dropped nor added.
GetDiff_NewKeysOnly(old, new) ==
    [del |-> {k \in Keys : old[k] # Free /\ new[k] = Free},
     add |-> {k \in Keys : new[k] # Free /\ old[k] = Free}]

GetDiff(old, new) ==
    [del |-> {k \in Keys : old[k] # Free /\ new[k] # old[k]},
     add |-> {k \in Keys : new[k] # Free /\ new[k] # old[k]}]

(* patch_verge with a list of hotkeys: the draft is set, and update compares *)
(* it with current; a key the desktop does not let go is passed over.  A call*)
(* of init that has read another function for a key will still register it.  *)
Update ==
    /\ update.at = "idle" /\ Event
    /\ \E new \in Maps :
       LET diff == GetDiff(current, new)
       IN \E kept \in SUBSET {k \in diff.del : registered[k] # Free} :
          /\ draft' = new
          /\ update' = [at |-> "register", add |-> diff.add, del |-> diff.del]
          /\ Unregister(diff.del \ kept)
          /\ astray' = astray \cup kept \cup {k \in Keys : \E i \in inits : i.list[k] # new[k]}
    /\ UNCHANGED <<saved, global, current, inits, focused, tasks, newestTask, ran>>

(* One key of the list: an error ends the update with what was done so far,  *)
(* and leaves current as it was and the draft as it is (patch_verge returns  *)
(* before its discard).                                                      *)
RegisterAdded ==
    /\ update.at = "register"
    /\ \E k \in update.add :
       \/ /\ Register(k, draft[k])
          /\ update' = [update EXCEPT !.add = @ \ {k}]
          /\ UNCHANGED astray
       \/ /\ RegisterRefused(k)
          /\ update' = Idle
          /\ astray' = astray \cup {j \in Keys : draft[j] # saved[j] \/ draft[j] # current[j]}
    /\ UNCHANGED <<saved, draft, global, current, inits, focused, tasks, newestTask, ran, events>>

StoreCurrent ==
    /\ update.at = "register" /\ update.add = {}
    /\ current' = draft /\ saved' = draft
    /\ update' = Idle
    /\ UNCHANGED <<draft, global, registered, pressed, inits, focused, tasks, newestTask, ran, astray, events>>
-----------------------------------------------------------------------------
\* The window gains or loses the focus: the event's task is spawned.
HandleWindowFocus ==
    /\ Event
    /\ focused' = ~focused
    /\ tasks' = Append(tasks, ~focused) /\ newestTask' = "waiting"
    /\ UNCHANGED <<saved, draft, global, current, registered, pressed, update, inits, ran, astray>>

\* The system's key; then, with keys local to the window, init(FALSE) reads the settings, the draft's.
RegisterOnFocus ==
    /\ \/ Register(SystemKey, SystemFunction) /\ astray' = astray \ {SystemKey}
       \/ RegisterRefused(SystemKey) /\ astray' = astray \cup {SystemKey}
    /\ inits' = IF global THEN inits ELSE inits \cup {[list |-> draft, todo |-> Listed(draft)]}

\* The system's key is dropped, and with keys local to the window all of them (reset), as far as the desktop lets go.
UnregisterOnBlur ==
    \E kept \in SUBSET {k \in AllKeys : registered[k] # Free} :
        /\ Unregister((IF global THEN {SystemKey} ELSE AllKeys) \ kept)
        /\ astray' = (astray \ {SystemKey}) \cup (kept \cap {SystemKey})
        /\ UNCHANGED inits

\* Whichever task the runtime has next; when the newest has run, one that is left is older.
RunFocusTask ==
    \E i \in 1..Len(tasks) :
        /\ IF tasks[i] THEN RegisterOnFocus ELSE UnregisterOnBlur
        /\ tasks' = SubSeq(tasks, 1, i - 1) \o SubSeq(tasks, i + 1, Len(tasks))
        /\ newestTask' = IF newestTask # "waiting" THEN "undone"
                         ELSE IF i = Len(tasks) THEN "run" ELSE "waiting"
        /\ UNCHANGED <<saved, draft, global, current, update, focused, ran, events>>

\* init registers its list key by key; a refusal is only logged.
InitRegisters ==
    \E i \in inits : \E k \in i.todo :
        /\ Register(k, i.list[k]) \/ RegisterRefused(k)
        /\ inits' = (inits \ {i}) \cup {[i EXCEPT !.todo = @ \ {k}]}
        /\ UNCHANGED <<saved, draft, global, current, update, focused, tasks, newestTask, ran, astray, events>>

InitStores ==
    \E i \in inits :
        /\ i.todo = {}
        /\ current' = i.list
        /\ inits' = inits \ {i}
        /\ UNCHANGED <<saved, draft, global, registered, pressed, update, focused, tasks, newestTask, ran, astray,
                       events>>

\* execute_function: the command of the function is started in the background.
ExecuteFunction(f) == ran' = f

\* A key repeats while it is held: only the first event of a press counts.
Press(k) ==
    /\ registered[k] # Free /\ Event
    /\ pressed' = [pressed EXCEPT ![k] = TRUE]
    /\ IF ~pressed[k] /\ (focused \/ (global /\ k # SystemKey))
       THEN ExecuteFunction(registered[k]) ELSE UNCHANGED ran
    /\ UNCHANGED <<saved, draft, global, current, registered, update, inits, focused, tasks, newestTask, astray>>

Release(k) ==
    /\ pressed[k]
    /\ pressed' = [pressed EXCEPT ![k] = FALSE]
    /\ UNCHANGED <<saved, draft, global, current, registered, update, inits, focused, tasks, newestTask, ran,
                   astray, events>>
-----------------------------------------------------------------------------
Next ==
    \/ Update \/ RegisterAdded \/ StoreCurrent
    \/ HandleWindowFocus \/ RunFocusTask \/ InitRegisters \/ InitStores
    \/ \E k \in AllKeys : Press(k) \/ Release(k)

Spec == Init /\ [][Next]_hotkey
-----------------------------------------------------------------------------
(* With no update under way, a key the desktop delivers does what the        *)
(* settings say.  It goes astray for good, because current no longer tells   *)
(* what the desktop has, when an update that would change it is given up half*)
(* way, when the desktop does not let it go, and when an update changes it   *)
(* while an init that has read its older function is still under way.        *)
KeysDoWhatIsSet ==
    update.at = "idle" => \A k \in Keys \ astray : registered[k] \in {Free, saved[k]}

(* CMD+Q belongs to KyClash only while its window has the focus, once the    *)
(* task of the newest focus event has run, until one of an older event undoes*)
(* that or the desktop refuses the key.                                      *)
SystemKeyFollowsFocus ==
    newestTask = "run" /\ SystemKey \notin astray => (registered[SystemKey] # Free <=> focused)
=============================================================================
