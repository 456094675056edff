---------------------------- MODULE ProfileFiles ----------------------------
(***************************************************************************)
(* Profiles and their files: how a profile and its extension items are made  *)
(* (config/prfitem.rs), listed, updated and deleted (config/profiles.rs),    *)
(* and the sweep of the profiles directory at start (cleanup_orphaned_files, *)
(* called by init_runtime_config when the window is already open).  A change *)
(* of the list is made on a copy under one permit, with the file work done   *)
(* first, and is refused if the list was replaced meanwhile; the sweep works *)
(* from one reading of the list and takes no permit.                         *)
(***************************************************************************)
EXTENDS FiniteSets, Naturals

CONSTANTS
    Profiles,        \* profiles that exist or may be imported
    Existing,        \* the ones listed at the start
    Kinds,           \* the kinds of extension, made in this order: merge, script, rules, proxies, groups
    Requests,        \* the imports, updates and deletions of a behaviour
    MaxCrashes, MaxSwitches

VARIABLES
    items, links,    \* the list in memory, and the extensions each profile names in its options
    saved,           \* profiles.yaml: [items, links]
    files,           \* the profiles directory
    permit,          \* the request that changes the list
    stale,           \* the list was replaced since the permit's holder copied it
    draft,           \* the list's draft of a refused switch: [at, items, links]
    request,         \* each request: [op, p, at, own, tries]
    boot,            \* the sweep: [at, active]
    doomed,          \* profiles whose deletion has begun, or that an older list has left out
    raced,           \* items whose file was made while the sweep was under way
    crashes, switches

store == <<items, links, saved, files, permit, stale, draft, request, boot, doomed, raced, crashes, switches>>

(* An item's uid; its file is named after it.  Extensions are told apart by  *)
(* the request that made them.                                               *)
Main(p) == <<p, 0, "-">>
Extension(p, k, r) == <<p, k, r>>
Global == Main("Merge")
Kind(u) == u[2]

NoDraft == [at |-> "none", items |-> {}, links |-> [p \in Profiles |-> {}]]
NoRequest == [op |-> "none", p |-> "Merge", at |-> "none", own |-> {}, tries |-> 0]

Init ==
    /\ links \in [Profiles -> {{}} \cup {{Extension(p, k, "-") : k \in Kinds} : p \in Existing}]
    /\ \A p \in Profiles : links[p] \subseteq {Extension(p, k, "-") : k \in Kinds}
    /\ items = {Global} \cup {Main(p) : p \in Existing} \cup UNION {links[p] : p \in Existing}
    /\ saved = [items |-> items, links |-> links]
    /\ files = items
    /\ permit = "none" /\ stale = FALSE /\ draft = NoDraft
    /\ request = [r \in Requests |-> NoRequest]
    /\ boot = [at |-> "load", active |-> {}]
    /\ doomed = {} /\ raced = {} /\ crashes = 0 /\ switches = 0

Goto(r, l) == request' = [request EXCEPT ![r].at = l]
-----------------------------------------------------------------------------
(* The permit of with_data_modify.                                           *)

TakePermit(r) == permit = "none" /\ permit' = r /\ stale' = FALSE
ReleasePermit == permit' = "none" /\ stale' = FALSE

(* restore_previous_profile, after a switch that was refused: a draft is     *)
(* copied from the list, and put in its place without the permit, with what  *)
(* other commits have changed meanwhile undone; then the list is saved by a  *)
(* task.  (The switch that succeeds takes the permit and only changes which  *)
(* profile is current.)  One draft at a time.                                *)
SwitchDrafts ==
    /\ switches < MaxSwitches /\ switches' = switches + 1
    /\ draft.at = "none" /\ draft' = [at |-> "edited", items |-> items, links |-> links]
    /\ UNCHANGED <<items, links, saved, files, permit, stale, request, boot, doomed, raced, crashes>>

SwitchCommits ==
    /\ draft.at = "edited" /\ draft' = [NoDraft EXCEPT !.at = "applied"]
    /\ items' = draft.items /\ links' = draft.links
    /\ stale' = (permit # "none")
    /\ doomed' = doomed \cup {u[1] : u \in items \ draft.items}
    /\ UNCHANGED <<saved, files, permit, request, boot, raced, crashes, switches>>

SwitchSaves ==
    /\ draft.at = "applied" /\ permit = "none" /\ draft' = NoDraft
    /\ saved' = [items |-> items, links |-> links]
    /\ UNCHANGED <<items, links, files, permit, stale, request, boot, doomed, raced, crashes, switches>>

WriteFile(u) ==
    /\ files' = files \cup {u}
    /\ raced' = IF boot.at # "done" /\ u \notin boot.active THEN raced \cup {u} ELSE raced
-----------------------------------------------------------------------------
(* Imports, updates and deletions.                                           *)

\* import_profile, and create_profile from a local file, which needs no download: a fresh profile.
Begin(r, p, l) ==
    /\ request[r].op = "none" /\ p \notin Existing
    /\ \A q \in Requests : request[q].op # "import"
    /\ request' = [request EXCEPT ![r] = [op |-> "import", p |-> p, at |-> l, own |-> {}, tries |-> 1]]
    /\ UNCHANGED <<items, links, saved, files, permit, stale, draft, boot, doomed, raced, crashes, switches>>

FromUrl(r, p) == Begin(r, p, "fetch")
FromLocal(r, p) == Begin(r, p, "extend")

\* should_update_profile: the url and the options are read before the download.
UpdateProfile(r, p) ==
    /\ request[r].op = "none" /\ Main(p) \in items
    /\ request' = [request EXCEPT ![r] = [op |-> "update", p |-> p, at |-> "fetch", own |-> links[p], tries |-> 3]]
    /\ UNCHANGED <<items, links, saved, files, permit, stale, draft, boot, doomed, raced, crashes, switches>>

\* perform_profile_update: the next way through a proxy, if there is one.
TryAgain(r) ==
    request' = [request EXCEPT ![r].tries = @ - 1, ![r].at = IF request[r].tries = 1 THEN "failed" ELSE "fetch"]

(* get_with_interrupt, with its second try under other roots: an answer, or  *)
(* an error after the last way through a proxy; an answer that is no profile *)
(* counts as an error.                                                       *)
Fetch(r) ==
    /\ request[r].at = "fetch"
    /\ Goto(r, "extend") \/ TryAgain(r)
    /\ UNCHANGED <<items, links, saved, files, permit, stale, draft, boot, doomed, raced, crashes, switches>>

Missing(r) == {k \in Kinds : \A u \in request[r].own : Kind(u) # k}
NextKind(r) == CHOOSE k \in Missing(r) : \A j \in Missing(r) : k <= j

\* What the request adds to the list next: an extension the options do not name, or the profile.
NextItem(r) == IF Missing(r) # {} THEN Extension(request[r].p, NextKind(r), r) ELSE Main(request[r].p)

\* from_merge .. from_groups, and append_item: the file is written before the list is committed.
AppendItem(r) ==
    /\ request[r].at = "extend"
    /\ Missing(r) # {} \/ request[r].op = "import"
    /\ TakePermit(r)
    /\ WriteFile(NextItem(r))
    /\ Goto(r, "append")
    /\ UNCHANGED <<items, links, saved, draft, boot, doomed, crashes, switches>>

\* A refused append makes the whole download fail, which is then tried by the next way.
CommitAppend(r) ==
    /\ request[r].at = "append"
    /\ ReleasePermit
    /\ \/ /\ stale /\ TryAgain(r) /\ UNCHANGED <<items, links>>
       \/ /\ ~stale /\ items' = items \cup {NextItem(r)}
          /\ IF Missing(r) # {}
             THEN /\ request' = [request EXCEPT ![r].own = @ \cup {NextItem(r)}, ![r].at = "extend"]
                  /\ UNCHANGED links
             ELSE links' = [links EXCEPT ![request[r].p] = request[r].own] /\ Goto(r, "save")
    /\ UNCHANGED <<saved, files, draft, boot, doomed, raced, crashes, switches>>

\* profiles_save_file_safe, at the end of an import.
SaveFile(r) ==
    /\ request[r].at = "save" /\ permit = "none"
    /\ saved' = [items |-> items, links |-> links]
    /\ Goto(r, "done")
    /\ UNCHANGED <<items, links, files, permit, stale, draft, boot, doomed, raced, crashes, switches>>

\* update_item: a profile deleted during the download is refused; the file is written, and the list saved.
UpdateItem(r) ==
    /\ request[r].at = "extend" /\ request[r].op = "update" /\ Missing(r) = {}
    /\ IF Main(request[r].p) \in items
       THEN /\ TakePermit(r)
            /\ WriteFile(Main(request[r].p))
            /\ saved' = [items |-> items, links |-> [links EXCEPT ![request[r].p] = request[r].own]]
            /\ Goto(r, "commit")
       ELSE permit = "none" /\ Goto(r, "failed") /\ UNCHANGED <<permit, stale, files, raced, saved>>
    /\ UNCHANGED <<items, links, draft, boot, doomed, crashes, switches>>

\* PrfOption::merge: the extensions of the downloaded item replace the ones of the list.
CommitUpdate(r) ==
    /\ request[r].at = "commit" /\ ReleasePermit
    /\ \/ stale /\ Goto(r, "failed") /\ UNCHANGED links
       \/ ~stale /\ links' = [links EXCEPT ![request[r].p] = request[r].own] /\ Goto(r, "done")
    /\ UNCHANGED <<items, saved, files, draft, boot, doomed, raced, crashes, switches>>

\* delete_item: the files go first, then the list is saved and committed.
DeleteItem(r, p) ==
    /\ request[r].op = "none" /\ Main(p) \in items
    /\ TakePermit(r)
    /\ request' = [request EXCEPT ![r] = [op |-> "delete", p |-> p, at |-> "remove",
                                          own |-> links[p] \cup {Main(p)}, tries |-> 0]]
    /\ doomed' = doomed \cup {p}
    /\ files' = files \ (links[p] \cup {Main(p)})
    /\ UNCHANGED <<items, links, saved, draft, boot, raced, crashes, switches>>

SaveDeletion(r) ==
    /\ request[r].at = "remove"
    /\ saved' = [items |-> items \ request[r].own, links |-> [links EXCEPT ![request[r].p] = {}]]
    /\ Goto(r, "removed")
    /\ UNCHANGED <<items, links, files, permit, stale, draft, boot, doomed, raced, crashes, switches>>

CommitDeletion(r) ==
    /\ request[r].at = "removed" /\ ReleasePermit
    /\ \/ stale /\ Goto(r, "failed") /\ UNCHANGED <<items, links>>
       \/ /\ ~stale /\ items' = items \ request[r].own /\ links' = [links EXCEPT ![request[r].p] = {}]
          /\ Goto(r, "done")
    /\ UNCHANGED <<saved, files, draft, boot, doomed, raced, crashes, switches>>
-----------------------------------------------------------------------------
(* The sweep at start, and the end of the process.                           *)

\* Mutant: only the profiles' own files are active.
GetAllActiveFiles_MainOnly == {u \in items : u[1] \in Profiles /\ Kind(u) = 0}

\* get_all_active_files: the file of every listed item, and of every extension a profile names.
GetAllActiveFiles == items \cup {u \in items : \E p \in Profiles : Main(p) \in items /\ u \in links[p]}
GetProtectedGlobalFiles == {Global}

BeginCleanup ==
    /\ boot.at = "load"
    /\ boot' = [at |-> "sweep", active |-> GetAllActiveFiles \cup GetProtectedGlobalFiles]
    /\ UNCHANGED <<items, links, saved, files, permit, stale, draft, request, doomed, raced, crashes, switches>>

\* A file that is no longer active goes; one made since the sweep began may be met or not.
CleanupOrphanedFile(u) ==
    /\ boot.at = "sweep" /\ u \in files \ boot.active
    /\ files' = files \ {u}
    /\ UNCHANGED <<items, links, saved, permit, stale, draft, request, boot, doomed, raced, crashes, switches>>

\* The end of the directory, with what could not be removed.
EndCleanup ==
    /\ boot.at = "sweep"
    /\ boot' = [at |-> "done", active |-> {}]
    /\ UNCHANGED <<items, links, saved, files, permit, stale, draft, request, doomed, raced, crashes, switches>>

\* The process dies and is started again from profiles.yaml (IProfiles::new).
Crash ==
    /\ crashes < MaxCrashes /\ crashes' = crashes + 1
    /\ items' = saved.items /\ links' = saved.links
    /\ permit' = "none" /\ stale' = FALSE /\ draft' = NoDraft
    /\ request' = [r \in Requests |-> [request[r] EXCEPT !.at = IF request[r].op = "none" THEN "none" ELSE "failed"]]
    /\ boot' = [at |-> "load", active |-> {}]
    /\ UNCHANGED <<saved, files, doomed, raced, switches>>

Next ==
    \/ \E r \in Requests :
          \/ \E p \in Profiles : FromUrl(r, p) \/ FromLocal(r, p) \/ UpdateProfile(r, p) \/ DeleteItem(r, p)
          \/ Fetch(r) \/ AppendItem(r) \/ CommitAppend(r) \/ SaveFile(r)
          \/ UpdateItem(r) \/ CommitUpdate(r) \/ SaveDeletion(r) \/ CommitDeletion(r)
    \/ SwitchDrafts \/ SwitchCommits \/ SwitchSaves \/ BeginCleanup \/ EndCleanup \/ Crash
    \/ \E u \in files : CleanupOrphanedFile(u)

Spec == Init /\ [][Next]_store
-----------------------------------------------------------------------------
(* Whatever imports, updates, deletions, refused switches and crashes are    *)
(* interleaved with the sweep, an item of the list has its file, and the     *)
(* extensions a listed profile names are in the list too (append_item,       *)
(* update_item, delete_item, restore_previous_profile,                       *)
(* cleanup_orphaned_files).  Excepted are a profile whose deletion was begun *)
(* (its files go before the list is saved, and the list may refuse the       *)
(* change), one that lost an item to the older list of a refused switch, and *)
(* files made while the sweep works from its older list.                     *)
ListedIsStored ==
    \A u \in items : u[1] \notin doomed =>
        /\ u \notin raced => u \in files
        /\ Kind(u) = 0 /\ u # Global => links[u[1]] \subseteq items
=============================================================================
