--------------------------- MODULE NodeActivation ---------------------------
(***************************************************************************)
(* The nodes a profile remembers for its proxy groups, put back after a    *)
(* switch (config/profiles.rs): each activation is a task of the next      *)
(* generation that first waits for the one before, looks at the core's     *)
(* groups, selects the remembered nodes, looks again when some are missing *)
(* and saves the repaired list.  A step is a stretch of code between two   *)
(* calls of the core.                                                      *)
(***************************************************************************)
EXTENDS Integers, Sequences, SequencesExt

CONSTANTS
    Profiles, Groups, Nodes,
    MaxGenerations,    \* bound on the activations
    MaxEvents          \* bound on the changes by the user and by the core

None == "none"         \* an absent name, node or group
NoGroup == [kind |-> None, all |-> {}, now |-> None]
Group(kind, all, now) == [kind |-> kind, all |-> all, now |-> now]
Selected(name, now) == [name |-> name, now |-> now]

VARIABLES
    groups,            \* the core's groups
    current,           \* the current profile
    selected,          \* the list each profile remembers
    newest,            \* ACTIVATE_SELECTED_GENERATION
    where,             \* each generation's task
    mine,              \* its profile and the list it read
    seen,              \* its snapshots of the groups
    plan,              \* the plan it follows
    todo,              \* the activations left of it
    completed,         \* the activations that were done
    disturbed,         \* history: something the newest task cannot see has changed
    events

activation == <<groups, current, selected, newest, where, mine, seen, plan, todo, completed, disturbed, events>>
Generations == 1..MaxGenerations
GroupStates == {NoGroup} \cup {Group(k, all, now) : k \in {"select", "relay"}, all \in SUBSET Nodes, now \in Nodes}
Lists == {<<>>} \cup {<<Selected(g, n)>> : g \in Groups, n \in Nodes \cup {None}}
                \cup {<<Selected(g, x[1]), Selected(g, x[2])>> : g \in Groups, x \in {y \in Nodes \X Nodes : y[1] # y[2]}}
NoPlan == [selected |-> <<>>, activations |-> <<>>, repaired |-> 0]

Init ==
    /\ groups \in [Groups -> GroupStates] /\ current \in Profiles /\ selected \in [Profiles -> Lists]
    /\ newest = 0 /\ where = [g \in Generations |-> "none"]
    /\ mine = [g \in Generations |-> [uid |-> current, selected |-> <<>>]]
    /\ seen = [g \in Generations |-> <<>>] /\ plan = [g \in Generations |-> NoPlan]
    /\ todo = [g \in Generations |-> <<>>] /\ completed = [g \in Generations |-> {}]
    /\ disturbed = FALSE /\ events = 0

-----------------------------------------------------------------------------
(* reconcile_selected_nodes *)

Offers(group, node) == group.all # {} /\ node \in group.all

\* Of several entries for a group the last one counts.
UniqueSelected(list) ==
    LET last(i) == list[i].name # None /\ \A j \in (i + 1)..Len(list) : list[j].name # list[i].name
    IN  FoldLeft(LAMBDA acc, i : IF last(i) THEN Append(acc, list[i]) ELSE acc, <<>>, [i \in 1..Len(list) |-> i])

SelectedNodesNeedConfirmation(list, snapshot) ==
    \E i \in 1..Len(list) :
        /\ list[i].name # None /\ list[i].now # None
        /\ ~Offers(snapshot[list[i].name], list[i].now)

Plan(list, activations, repaired) == [selected |-> list, activations |-> activations, repaired |-> repaired]
KeepEntry(e) == Plan(<<e>>, <<>>, 0)
DropEntry == Plan(<<>>, <<>>, 1)

\* What becomes of one entry; previous is <<>> when there is no earlier snapshot.
ReconcileEntry(e, previous, snapshot) ==
    LET group == snapshot[e.name]
        before == previous[e.name]
        repairWith(n) == Plan(<<Selected(e.name, n)>>, <<>>, IF n = e.now THEN 0 ELSE 1)
    IN  IF e.now = None THEN DropEntry
        ELSE IF group = NoGroup THEN IF previous # <<>> /\ before = NoGroup THEN DropEntry ELSE KeepEntry(e)
        ELSE IF group.all = {} THEN KeepEntry(e)
        ELSE IF group.kind = "relay" THEN
             IF Offers(group, group.now) THEN repairWith(group.now)
             ELSE IF Offers(group, e.now) THEN KeepEntry(e) ELSE DropEntry
        ELSE IF Offers(group, e.now) THEN Plan(<<e>>, IF group.now = e.now THEN <<>> ELSE <<e>>, 0)
        ELSE IF previous = <<>> \/ before.all = {} \/ Offers(before, e.now) THEN KeepEntry(e)
        ELSE IF Offers(group, group.now) THEN repairWith(group.now) ELSE DropEntry

ReconcileSelectedNodes(list, previous, snapshot) ==
    LET unique == UniqueSelected(list)
        add(p, e) == LET q == ReconcileEntry(e, previous, snapshot)
                     IN  Plan(p.selected \o q.selected, p.activations \o q.activations, p.repaired + q.repaired)
    IN  FoldLeft(add, Plan(<<>>, <<>>, Len(list) - Len(unique)), unique)

-----------------------------------------------------------------------------
(* The tasks *)

Goto(g, label) == where' = [where EXCEPT ![g] = label]

IsActivationCurrent(g) == newest = g

PreviousDone(g) == g > 1 => where[g - 1] = "done"

ActivateSelectedNodes ==
    /\ newest < MaxGenerations /\ newest' = newest + 1
    /\ where' = [where EXCEPT ![newest + 1] = "wait"] /\ disturbed' = FALSE
    /\ UNCHANGED <<groups, current, selected, mine, seen, plan, todo, completed, events>>

\* The current profile and its list are read when the task before has ended.
Begin(g) ==
    /\ where[g] = "wait" /\ PreviousDone(g)
    /\ mine' = [mine EXCEPT ![g] = [uid |-> current, selected |-> selected[current]]]
    /\ Goto(g, IF IsActivationCurrent(g) /\ selected[current] # <<>> THEN "fetch" ELSE "done")
    /\ UNCHANGED <<groups, current, selected, newest, seen, plan, todo, completed, disturbed, events>>

\* remaining_activations leaves out what the first plan has already selected.
Follow(g, p) ==
    /\ plan' = [plan EXCEPT ![g] = p]
    /\ todo' = [todo EXCEPT ![g] = SelectSeq(p.activations, LAMBDA e : e \notin completed[g])]

FetchProxies(g) ==
    /\ where[g] = "fetch"
    /\ \/ /\ IsActivationCurrent(g)
          /\ Follow(g, ReconcileSelectedNodes(mine[g].selected, <<>>, groups))
          /\ seen' = [seen EXCEPT ![g] = <<groups>>] /\ Goto(g, "apply") /\ UNCHANGED <<disturbed, events>>
       \/ /\ ~IsActivationCurrent(g) /\ Goto(g, "done") /\ UNCHANGED <<seen, plan, todo, disturbed, events>>
       \/ /\ events < MaxEvents /\ events' = events + 1 /\ disturbed' = TRUE
          /\ Goto(g, "done") /\ UNCHANGED <<seen, plan, todo>>
    /\ UNCHANGED <<groups, current, selected, newest, mine, completed>>

\* apply_activations sends one selection after the other.
ApplyActivations(g) ==
    /\ where[g] \in {"apply", "apply again"} /\ todo[g] # <<>>
    /\ Goto(g, IF ~IsActivationCurrent(g) THEN "done" ELSE IF where[g] = "apply" THEN "select" ELSE "select again")
    /\ UNCHANGED <<groups, current, selected, newest, mine, seen, plan, todo, completed, disturbed, events>>

\* select_node_with_timeout: done, refused, or cut off with either outcome.
SelectNode(g) ==
    /\ where[g] \in {"select", "select again"}
    /\ LET e == Head(todo[g])
           able == groups[e.name].kind = "select" /\ Offers(groups[e.name], e.now)
           doIt == groups' = [groups EXCEPT ![e.name] = Group(@.kind, @.all, e.now)]
       IN  \/ able /\ doIt /\ completed' = [completed EXCEPT ![g] = @ \cup {e}] /\ UNCHANGED <<disturbed, events>>
           \/ ~able /\ UNCHANGED <<groups, completed, disturbed, events>>
           \/ /\ events < MaxEvents /\ events' = events + 1 /\ disturbed' = TRUE /\ UNCHANGED completed
              /\ (able /\ doIt) \/ UNCHANGED groups
    /\ todo' = [todo EXCEPT ![g] = Tail(@)]
    /\ Goto(g, IF ~IsActivationCurrent(g) THEN "done" ELSE IF where[g] = "select" THEN "apply" ELSE "apply again")
    /\ UNCHANGED <<current, selected, newest, mine, seen, plan>>

\* With nothing left to select, a plan that needs no confirmation is final.
Confirm(g) ==
    /\ where[g] \in {"apply", "apply again"} /\ todo[g] = <<>>
    /\ Goto(g, IF where[g] = "apply" /\ SelectedNodesNeedConfirmation(mine[g].selected, seen[g][1])
                 THEN "recheck" ELSE "persist")
    /\ UNCHANGED <<groups, current, selected, newest, mine, seen, plan, todo, completed, disturbed, events>>

Recheck(g) ==
    /\ where[g] = "recheck"
    /\ \/ /\ IsActivationCurrent(g)
          /\ Follow(g, ReconcileSelectedNodes(mine[g].selected, seen[g][1], groups))
          /\ seen' = [seen EXCEPT ![g] = Append(@, groups)] /\ Goto(g, "apply again") /\ UNCHANGED <<disturbed, events>>
       \/ ~IsActivationCurrent(g) /\ Goto(g, "done") /\ UNCHANGED <<seen, plan, todo, disturbed, events>>
       \/ events < MaxEvents /\ events' = events + 1 /\ disturbed' = TRUE /\ Goto(g, "done") /\ UNCHANGED <<seen, plan, todo>>
    /\ UNCHANGED <<groups, current, selected, newest, mine, completed>>

\* Mutant: the list is saved whatever the profile remembers by now.
MayPersist_Unread(g) == IsActivationCurrent(g) /\ current = mine[g].uid

\* What is saved is a repair of the list that was read, if it still stands.
MayPersist(g) ==
    /\ IsActivationCurrent(g) /\ current = mine[g].uid
    /\ selected[current] = mine[g].selected

PersistReconciledSelected(g) ==
    /\ where[g] = "persist" /\ Goto(g, "done")
    /\ selected' = IF plan[g].repaired > 0 /\ MayPersist(g)
                     THEN [selected EXCEPT ![current] = plan[g].selected] ELSE selected
    /\ UNCHANGED <<groups, current, newest, mine, seen, plan, todo, completed, disturbed, events>>

-----------------------------------------------------------------------------
(* The user and the core *)

Event == events < MaxEvents /\ events' = events + 1 /\ disturbed' = TRUE

\* A node chosen in the window is selected and remembered.
UserSelects(name, node) ==
    /\ Event /\ groups[name].kind = "select" /\ Offers(groups[name], node)
    /\ groups' = [groups EXCEPT ![name] = Group(@.kind, @.all, node)]
    /\ selected' = [selected EXCEPT ![current] = <<Selected(name, node)>>]
    /\ UNCHANGED <<current, newest, where, mine, seen, plan, todo, completed>>

SwitchProfile(p) ==
    /\ Event /\ current # p /\ current' = p
    /\ UNCHANGED <<groups, selected, newest, where, mine, seen, plan, todo, completed>>

\* A provider has loaded, or the core has another configuration.
CoreChanges(name, state) ==
    /\ Event /\ groups[name] # state /\ groups' = [groups EXCEPT ![name] = state]
    /\ UNCHANGED <<current, selected, newest, where, mine, seen, plan, todo, completed>>

Task(g) ==
    \/ Begin(g) \/ FetchProxies(g) \/ ApplyActivations(g) \/ SelectNode(g) \/ Confirm(g)
    \/ Recheck(g) \/ PersistReconciledSelected(g)

Next ==
    \/ ActivateSelectedNodes
    \/ \E g \in Generations : Task(g)
    \/ \E name \in Groups, node \in Nodes : UserSelects(name, node)
    \/ \E p \in Profiles : SwitchProfile(p)
    \/ \E name \in Groups, state \in GroupStates : CoreChanges(name, state)

Spec == Init /\ [][Next]_activation

-----------------------------------------------------------------------------
(* Properties *)

\* What a profile remembers is changed by a task only from the very list that
\* task has read, so no choice the user makes meanwhile is lost; and a node in a
\* group of the user's choosing is forgotten only when two looks at the group,
\* one after the other, have both missed it (plan_selected_nodes,
\* persist_reconciled_selected).
KeepsChoices ==
    \A g \in Generations :
        (where[g] = "persist" /\ where'[g] = "done" /\ selected' # selected) =>
            /\ current = mine[g].uid /\ selected[current] = mine[g].selected
            /\ \A e \in ToSet(UniqueSelected(mine[g].selected)) :
                  /\ \A s \in ToSet(seen[g]) : s[e.name].kind = "select"
                  /\ e.now # None /\ e \notin ToSet(selected'[current])
                  => Len(seen[g]) = 2 /\ \A s \in ToSet(seen[g]) : ~Offers(s[e.name], e.now)

\* When the newest activation is over and nothing failed or changed under it,
\* every node its profile remembers and its group offers is the selected one: no
\* older task has selected something else after it.
NewestWins ==
    (newest > 0 /\ where[newest] = "done" /\ ~disturbed) =>
        \A e \in ToSet(UniqueSelected(selected[current])) :
            groups[e.name].kind = "select" /\ Offers(groups[e.name], e.now) => groups[e.name].now = e.now
=============================================================================
