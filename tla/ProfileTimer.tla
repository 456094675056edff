---------------------------- MODULE ProfileTimer ----------------------------
(***************************************************************************)
(* The automatic updates of the profiles (core/timer.rs): refresh compares *)
(* the profiles' intervals with a cached map and sends the new one to a    *)
(* scheduler, which keeps one task per profile and a delay queue.  When an *)
(* entry expires is left open.                                             *)
(***************************************************************************)
EXTENDS Integers, Sequences, SequencesExt

CONSTANTS
    Uids,          \* the profiles
    Intervals,     \* their update intervals
    MaxEdits       \* bound on the edits of the profile list

Off == 0           \* no automatic update
NoTask == [key |-> 0, interval |-> Off, running |-> FALSE]

VARIABLES
    intervals,     \* the profiles' intervals, Off where there is no update
    cache,         \* timer_map
    stale,         \* edits whose caller has still to refresh
    untold,        \* history: profiles given an interval by somebody who does not refresh, since the last refresh
    initialized,
    commands,      \* the scheduler's channel
    tasks,         \* its tasks
    queue,         \* the delay queue: each entry's key and profile
    updates,       \* updates running for each profile
    edits

timer == <<intervals, cache, stale, untold, initialized, commands, tasks, queue, updates, edits>>

Init ==
    /\ intervals \in [Uids -> {Off} \cup Intervals]
    /\ cache = [u \in Uids |-> Off] /\ stale = 0 /\ untold = {} /\ initialized = FALSE
    /\ commands = <<>> /\ tasks = [u \in Uids |-> NoTask]
    /\ queue = {} /\ updates = [u \in Uids |-> 0] /\ edits = 0

Command(what, map, uid) == [what |-> what, map |-> map, uid |-> uid]
NoMap == [u \in Uids |-> Off]
NoUid == "none"
TaskState(key, interval, running) == [key |-> key, interval |-> interval, running |-> running]
Known(u) == tasks[u] # NoTask

-----------------------------------------------------------------------------
(* The profiles and refresh *)

\* An import, a created or deleted profile, or a patch that changes the interval.
Edit(u, interval) ==
    /\ edits < MaxEdits /\ edits' = edits + 1
    /\ intervals' = [intervals EXCEPT ![u] = interval]
    /\ stale' = stale + 1
    /\ UNCHANGED <<cache, untold, initialized, commands, tasks, queue, updates>>

\* A change that no refresh follows: update_item merges the option that an update brings
\* (the interval from the server's header, or the one it began with), a patch compared
\* the intervals before another one was stored, or a command left by `?' before its
\* refresh.
EditUntold(u, interval) ==
    /\ edits < MaxEdits /\ edits' = edits + 1
    /\ intervals' = [intervals EXCEPT ![u] = interval]
    /\ untold' = untold \cup {u}
    /\ UNCHANGED <<cache, stale, initialized, commands, tasks, queue, updates>>

\* gen_map_from_items: the profiles with an automatic update.
GenMap == intervals

ApplyMap == IF GenMap = cache THEN <<>> ELSE <<Command("Apply", GenMap, NoUid)>>

Refresh ==
    /\ stale > 0 /\ stale' = stale - 1
    /\ cache' = GenMap /\ commands' = commands \o ApplyMap
    /\ untold' = {}
    /\ UNCHANGED <<intervals, initialized, tasks, queue, updates, edits>>

\* init: once; the profiles that are overdue are updated right away.
TimerInit ==
    /\ ~initialized /\ initialized' = TRUE
    /\ cache' = GenMap /\ untold' = {}
    /\ \E overdue \in SUBSET {u \in Uids : intervals[u] # Off} :
          commands' = commands \o ApplyMap \o
                      [i \in 1..Cardinality(overdue) |-> Command("RunNow", NoMap, SetToSeq(overdue)[i])]
    /\ UNCHANGED <<intervals, stale, tasks, queue, updates, edits>>

-----------------------------------------------------------------------------
(* The scheduler *)

\* DelayQueue::insert takes the first free key.
FreeKey(q) == Min((1..(Cardinality(q) + 1)) \ {e.key : e \in q})
Entry(key, u) == [key |-> key, uid |-> u]
DropKey(q, key) == {e \in q : e.key # key}

\* One profile of the new map: forgotten with its entry, inserted, or given its
\* new interval (which re-arms its entry or, with none, makes one unless the
\* update runs).
InsertTask(st, u, interval) ==
    LET k == FreeKey(st.queue)
    IN  [queue |-> st.queue \cup {Entry(k, u)}, tasks |-> [st.tasks EXCEPT ![u] = TaskState(k, interval, FALSE)]]

UpdateTaskInterval(st, u, interval) ==
    LET t == st.tasks[u]
        k == FreeKey(st.queue)
    IN  IF t.key # 0 \/ t.running
          THEN [st EXCEPT !.tasks[u] = TaskState(t.key, interval, t.running)]
          ELSE [queue |-> st.queue \cup {Entry(k, u)},
                tasks |-> [st.tasks EXCEPT ![u] = TaskState(k, interval, FALSE)]]

Forget(st, u) == [queue |-> DropKey(st.queue, st.tasks[u].key), tasks |-> [st.tasks EXCEPT ![u] = NoTask]]

ApplyTimerMap(map, st) ==
    LET retain(s, u) == IF s.tasks[u] # NoTask /\ map[u] = Off THEN Forget(s, u) ELSE s
        install(s, u) ==
          IF map[u] = Off THEN s
          ELSE IF s.tasks[u] = NoTask THEN InsertTask(s, u, map[u])
          ELSE IF s.tasks[u].interval = map[u] THEN s ELSE UpdateTaskInterval(s, u, map[u])
    IN  FoldSet(LAMBDA u, s : install(s, u), FoldSet(LAMBDA u, s : retain(s, u), st, Uids), Uids)

SpawnUpdateTask(u) == updates' = [updates EXCEPT ![u] = @ + 1]

\* mark_task_running refuses a task that is.
RunExpiredTask(e) ==
    /\ initialized /\ e \in queue /\ queue' = queue \ {e}
    /\ IF Known(e.uid)
         THEN /\ tasks' = [tasks EXCEPT ![e.uid] = TaskState(0, @.interval, TRUE)]
              /\ IF tasks[e.uid].running THEN UNCHANGED updates ELSE SpawnUpdateTask(e.uid)
         ELSE UNCHANGED <<tasks, updates>>
    /\ UNCHANGED <<intervals, cache, stale, untold, initialized, commands, edits>>

RunTaskNow(u) ==
    IF Known(u) /\ ~tasks[u].running
      THEN /\ tasks' = [tasks EXCEPT ![u] = TaskState(0, @.interval, TRUE)]
           /\ queue' = DropKey(queue, tasks[u].key) /\ SpawnUpdateTask(u)
      ELSE UNCHANGED <<tasks, queue, updates>>

\* Mutant: the finished task is not armed again.
FinishTask_Idle(u) ==
    /\ UNCHANGED <<queue, updates>>
    /\ IF Known(u) THEN tasks' = [tasks EXCEPT ![u] = TaskState(@.key, @.interval, FALSE)] ELSE UNCHANGED tasks

\* Always a new entry, also when the task was forgotten and came back with one.
FinishTask(u) ==
    /\ UNCHANGED updates
    /\ IF Known(u)
         THEN /\ queue' = queue \cup {Entry(FreeKey(queue), u)}
              /\ tasks' = [tasks EXCEPT ![u] = TaskState(FreeKey(queue), @.interval, FALSE)]
         ELSE UNCHANGED <<tasks, queue>>

RunScheduler ==
    /\ initialized /\ commands # <<>> /\ commands' = Tail(commands)
    /\ LET c == Head(commands)
       IN  \/ /\ c.what = "Apply"
              /\ LET st == ApplyTimerMap(c.map, [queue |-> queue, tasks |-> tasks])
                 IN  queue' = st.queue /\ tasks' = st.tasks /\ UNCHANGED updates
           \/ c.what = "RunNow" /\ RunTaskNow(c.uid)
           \/ c.what = "TaskFinished" /\ FinishTask(c.uid)
    /\ UNCHANGED <<intervals, cache, stale, untold, initialized, edits>>

\* async_task ends, updated, failed or timed out; then the scheduler is told.
AsyncTask(u) ==
    /\ updates[u] > 0 /\ updates' = [updates EXCEPT ![u] = @ - 1]
    /\ commands' = Append(commands, Command("TaskFinished", NoMap, u))
    /\ UNCHANGED <<intervals, cache, stale, untold, initialized, tasks, queue, edits>>

ExpiredTask == \E e \in queue : RunExpiredTask(e)

Next ==
    \/ TimerInit \/ Refresh \/ RunScheduler
    \/ \E u \in Uids, i \in {Off} \cup Intervals : Edit(u, i) \/ EditUntold(u, i)
    \/ ExpiredTask
    \/ \E u \in Uids : AsyncTask(u)

Spec == Init /\ [][Next]_timer

-----------------------------------------------------------------------------
(* Properties *)

\* The key a task holds is in the delay queue, for that profile: DelayQueue's
\* remove and reset, which panic on any other, never end the scheduler.
KeysAreLive == \A u \in Uids : tasks[u].key # 0 => Entry(tasks[u].key, u) \in queue

\* It has an interval, and whoever set it last tells the timer.
HasInterval(u) == intervals[u] # Off /\ u \notin untold
IsUpdating(u) == updates[u] > 0
=============================================================================
