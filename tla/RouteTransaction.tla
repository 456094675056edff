-------------------------- MODULE RouteTransaction --------------------------
(***************************************************************************)
(* The journaled route transaction of networking/route.rs: the             *)
(* RouteOrchestrator (apply, rollback, recover_stale) over an operating    *)
(* system routing table and a durable FileRouteJournal.                    *)
(*                                                                         *)
(* Every journal save and every platform call is a step of its own, so     *)
(* that the process may crash, or the call may fail, between any two of    *)
(* them.  One process holds the journal at a time (LabLock in              *)
(* bin/kyclash-route-lab.rs), so one call of the orchestrator runs at a    *)
(* time.  `table' also records who installed a route: the operating        *)
(* system does not tell, and no guard of the code below reads it.          *)
(***************************************************************************)
EXTENDS Naturals, Sequences

CONSTANTS
    Txns,          \* transaction ids
    Routes,        \* RouteSpec values (a destination and an interface)
    Plans,         \* the desired_routes (with their profile) a caller may ask for
    Overlaps,      \* pairs <<existing, desired>> that reject_conflicts refuses
    Foreign,       \* routes other software installs and removes; plans may have them
    RecoverFirst,  \* TRUE: callers run recover_stale before anything else
    DeletesAbsent, \* TRUE: /sbin/route delete of an absent route exits with success
    MaxFaults      \* bound on failed saves, failed platform calls and crashes

Absent == "absent"
Other == "other"

PlanRoutes(p) == {p[i] : i \in 1..Len(p)}

\* The plans of the model checker's run share r2, so that two transactions contend for it;
\* every route conflicts with itself, and another program's vpn also covers r3.
RunPlans == {<<"r1", "r2">>, <<"r2", "r3">>}
RunOverlaps == {<<r, r>> : r \in Routes} \cup {<<"vpn", "r3">>}

ASSUME PlansAssumption ==
    /\ Plans \subseteq Seq(Routes)
    /\ \A p \in Plans : /\ Len(p) > 0
                        /\ \A i, j \in 1..Len(p) : p[i] = p[j] => i = j
\* Equal networks overlap; the one caller (kyclash-route-lab) plans no default
\* route, the only kind that reject_conflicts passes over.
ASSUME OverlapsAssumption ==
    \A p \in Plans : \A r \in PlanRoutes(p) : <<r, r>> \in Overlaps
ASSUME ForeignAssumption == Foreign \subseteq Routes
ASSUME FaultsAssumption == MaxFaults \in Nat
ASSUME ProtocolAssumption == RecoverFirst \in BOOLEAN /\ DeletesAbsent \in BOOLEAN
ASSUME OwnersAssumption == Txns \cap {Absent, Other, "none"} = {}

VARIABLES
    table,     \* [Routes -> Txns \cup {Absent, Other}]: the routing table
    stood,     \* history: per transaction, what of previous_routes still stands
    journal,   \* the journal file: transaction id -> entry or NoEntry
    entry,     \* the RouteJournalEntry the running call works on, in memory
    cur,       \* its transaction id
    pc,        \* the next step of the running call; "idle" or "down" when none
    op,        \* which public method is running
    failure,   \* the original_error of a failed apply while it rolls back
    stale,     \* recover_stale: entries of its snapshot still to roll back
    recovered, \* recover_stale has succeeded, and no rollback failed since
    result,    \* what the last completed call returned
    faults     \* failures and crashes so far

vars ==
    <<table, stood, journal, entry, cur, pc, op, failure, stale, recovered, result, faults>>
-----------------------------------------------------------------------------
(* applied_routes is always a prefix of desired_routes (push in order, pop   *)
(* from the end) and pending_route, when set, is the route after it, so an   *)
(* entry keeps the length of the prefix and a flag.                          *)
Entry(routes, n, flag, st) ==
    [desired |-> routes, applied |-> n, pending |-> flag, state |-> st]

NoEntry == Entry(<< >>, 0, FALSE, "none")

WithPending(e, flag) == Entry(e.desired, e.applied, flag, e.state)
Pushed(e) == Entry(e.desired, e.applied + 1, FALSE, e.state)
Popped(e) == Entry(e.desired, e.applied - 1, e.pending, e.state)
WithState(e, st) == Entry(e.desired, e.applied, e.pending, st)

Live(e) == e.state \in {"Prepared", "Applied"}

\* The routes an entry claims: applied_routes and pending_route.
Claims(e) ==
    {e.desired[i] : i \in 1..e.applied}
      \cup IF e.pending THEN {e.desired[e.applied + 1]} ELSE {}

Result(o, t, c) == [op |-> o, txn |-> t, code |-> c]

NoResult == Result("none", "none", "none")

Return(code) ==
    /\ pc' = "idle"
    /\ result' = Result(op, cur, code)

Goto(step) == pc' = step /\ UNCHANGED result

\* The file is replaced by rename(2): a failed save leaves the old document.
SaveOk == journal' = [journal EXCEPT ![cur] = entry] /\ UNCHANGED faults

Fault == faults < MaxFaults /\ faults' = faults + 1

SaveFails == Fault /\ UNCHANGED journal

AddedRoute == entry.desired[entry.applied + 1]
LastApplied == entry.desired[entry.applied]

\* Where rollback_entry starts, given the entry it is called with.
RollbackStart(e) == IF e.pending THEN "removePending" ELSE "removeLast"
-----------------------------------------------------------------------------
Init ==
    /\ table \in [Routes -> {Absent, Other}]
    /\ \A r \in Routes \ Foreign : table[r] = Absent
    /\ stood = [t \in Txns |-> {}]
    /\ journal = [t \in Txns |-> NoEntry]
    /\ entry = NoEntry
    /\ cur = "none"
    /\ pc = "idle"
    /\ op = "none"
    /\ failure = "none"
    /\ stale = {}
    /\ recovered = FALSE
    /\ result = NoResult
    /\ faults = 0

\* Mutant: a caller that does not recover first.
MayCall_anytime == pc = "idle"

MayCall == pc = "idle" /\ (RecoverFirst => recovered)

Present == {r \in Routes : table[r] # Absent}

Conflicting(p) ==
    \E r \in Present : \E d \in PlanRoutes(p) : <<r, d>> \in Overlaps

(* apply, up to its first save.  An id the journal already holds returns at  *)
(* once: Ok when the entry is Applied with the same plan, else an error.     *)
ApplyKnown(t, p) ==
    /\ MayCall
    /\ journal[t] # NoEntry
    /\ result' = Result("apply", t,
                        IF journal[t].desired = p /\ journal[t].state = "Applied"
                        THEN "Ok" ELSE "InvalidStateTransition")
    /\ op' = "apply" /\ cur' = t
    /\ UNCHANGED <<table, stood, journal, entry, pc, failure, stale, recovered, faults>>

ApplyConflict(t, p) ==
    /\ MayCall
    /\ journal[t] = NoEntry
    /\ Conflicting(p)
    /\ result' = Result("apply", t, "RouteConflict")
    /\ op' = "apply" /\ cur' = t
    /\ UNCHANGED <<table, stood, journal, entry, pc, failure, stale, recovered, faults>>

ApplyBegin(t, p) ==
    /\ MayCall
    /\ journal[t] = NoEntry
    /\ ~Conflicting(p)
    /\ entry' = Entry(p, 0, FALSE, "Prepared")
    /\ op' = "apply" /\ cur' = t
    /\ pc' = "savePrepared"
    /\ result' = NoResult
    /\ stood' = [stood EXCEPT ![t] = Present]
    /\ UNCHANGED <<table, journal, failure, stale, recovered, faults>>

(* Every method first reads the journal, and apply lists the routing table:  *)
(* a failed read returns before anything has changed.                        *)
ReadFails(o, t) ==
    /\ IF o = "recover" THEN pc = "idle" /\ t = "none" ELSE MayCall /\ t \in Txns
    /\ Fault
    /\ result' = Result(o, t, "Unavailable")
    /\ op' = o /\ cur' = t
    /\ UNCHANGED <<table, stood, journal, entry, pc, failure, stale, recovered>>

SavePrepared ==
    /\ pc = "savePrepared"
    /\ \/ SaveOk /\ Goto("nextRoute")
       \/ SaveFails /\ Return("Err")
    /\ UNCHANGED <<table, stood, entry, cur, op, failure, stale, recovered>>

\* rollback_failed_apply: roll the entry back, then report the original error.
FailApply(error) ==
    /\ Goto("removeLast")
    /\ failure' = error

\* Mutant: pending_route is set in memory but not saved before the add.
SavePending_unsaved ==
    /\ pc = "nextRoute"
    /\ entry.applied < Len(entry.desired)
    /\ entry' = WithPending(entry, TRUE)
    /\ Goto("addRoute")
    /\ UNCHANGED <<table, stood, journal, cur, op, failure, stale, recovered, faults>>

\* The head of the loop over desired_routes, with the save of pending_route.
SavePending ==
    /\ pc = "nextRoute"
    /\ entry.applied < Len(entry.desired)
    /\ \/ /\ entry' = WithPending(entry, TRUE)
          /\ journal' = [journal EXCEPT ![cur] = entry']
          /\ UNCHANGED faults
          /\ Goto("addRoute")
          /\ UNCHANGED failure
       \/ /\ SaveFails
          /\ FailApply("Err")
          /\ UNCHANGED entry
    /\ UNCHANGED <<table, stood, cur, op, stale, recovered>>

\* The platform refuses a route that is already present.
AddRoute ==
    /\ pc = "addRoute"
    /\ \/ /\ table[AddedRoute] = Absent
          /\ table' = [table EXCEPT ![AddedRoute] = cur]
          /\ entry' = Pushed(entry)
          /\ Goto("saveAdded")
          /\ UNCHANGED <<failure, faults>>
       \/ /\ Fault \/ (table[AddedRoute] # Absent /\ UNCHANGED faults)
          /\ entry' = WithPending(entry, FALSE)
          /\ Goto("saveNotAdded")
          /\ UNCHANGED <<table, failure>>
    /\ UNCHANGED <<stood, journal, cur, op, stale, recovered>>

\* After a refused add the cleared pending_route is saved; either way roll back.
SaveNotAdded ==
    /\ pc = "saveNotAdded"
    /\ SaveOk \/ SaveFails
    /\ FailApply("Err")
    /\ UNCHANGED <<table, stood, entry, cur, op, stale, recovered>>

SaveAdded ==
    /\ pc = "saveAdded"
    /\ \/ SaveOk /\ Goto("nextRoute") /\ UNCHANGED failure
       \/ SaveFails /\ FailApply("RouteRollbackFailed")
    /\ UNCHANGED <<table, stood, entry, cur, op, stale, recovered>>

\* The end of the loop: the final durable transition is part of the transaction.
SaveApplied ==
    /\ pc = "nextRoute"
    /\ entry.applied = Len(entry.desired)
    /\ entry' = WithState(entry, "Applied")
    /\ \/ /\ journal' = [journal EXCEPT ![cur] = entry']
          /\ UNCHANGED faults
          /\ Return("Ok")
          /\ UNCHANGED failure
       \/ /\ SaveFails
          /\ FailApply("Err")
    /\ UNCHANGED <<table, stood, cur, op, stale, recovered>>
-----------------------------------------------------------------------------
(* rollback: an unknown or already rolled back transaction is Ok at once.    *)
RollbackNothing(t) ==
    /\ MayCall
    /\ ~Live(journal[t])
    /\ result' = Result("rollback", t, "Ok")
    /\ op' = "rollback" /\ cur' = t
    /\ UNCHANGED <<table, stood, journal, entry, pc, failure, stale, recovered, faults>>

RollbackBegin(t) ==
    /\ MayCall
    /\ Live(journal[t])
    /\ entry' = journal[t]
    /\ cur' = t /\ op' = "rollback"
    /\ pc' = RollbackStart(journal[t])
    /\ result' = NoResult
    /\ UNCHANGED <<table, stood, journal, failure, stale, recovered, faults>>

\* Mutant: recovery looks at applied transactions only.
RecoverBegin_appliedOnly ==
    /\ pc = "idle"
    /\ stale' = {t \in Txns : journal[t].state = "Applied"}
    /\ op' = "recover" /\ cur' = "none"
    /\ pc' = "recoverNext"
    /\ result' = NoResult
    /\ UNCHANGED <<table, stood, journal, entry, failure, recovered, faults>>

RecoverBegin ==
    /\ pc = "idle"
    /\ stale' = {t \in Txns : Live(journal[t])}
    /\ op' = "recover" /\ cur' = "none"
    /\ pc' = "recoverNext"
    /\ result' = NoResult
    /\ UNCHANGED <<table, stood, journal, entry, failure, recovered, faults>>

RecoverNext(t) ==
    /\ pc = "recoverNext"
    /\ t \in stale
    /\ stale' = stale \ {t}
    /\ entry' = journal[t]
    /\ cur' = t
    /\ Goto(RollbackStart(journal[t]))
    /\ UNCHANGED <<table, stood, journal, op, failure, recovered, faults>>

RecoverDone ==
    /\ pc = "recoverNext"
    /\ stale = {}
    /\ recovered' = TRUE
    /\ Return("Ok")
    /\ UNCHANGED <<table, stood, journal, entry, cur, op, failure, stale, faults>>

(* remove_route: the command names the destination only, so the platform     *)
(* removes a route whoever installed it.                                     *)
Leaves(r) == stood' = [t \in Txns |-> stood[t] \ {r}]

Remove(r) ==
    /\ table[r] # Absent \/ DeletesAbsent
    /\ table' = [table EXCEPT ![r] = Absent]
    /\ Leaves(r)

\* The command exits with a failure, or cannot be run.
RemoveFails(r) ==
    /\ Fault \/ (table[r] = Absent /\ ~DeletesAbsent /\ UNCHANGED faults)
    /\ UNCHANGED <<table, stood>>

\* RouteRollbackFailed ends the caller's run: it starts over with recover_stale.
RollbackFails ==
    /\ Return("RouteRollbackFailed")
    /\ stale' = {}
    /\ recovered' = FALSE

RemovePending ==
    /\ pc = "removePending"
    /\ \/ /\ Remove(AddedRoute)
          /\ entry' = WithPending(entry, FALSE)
          /\ Goto("saveRemoved")
          /\ UNCHANGED <<stale, recovered, faults>>
       \/ /\ RemoveFails(AddedRoute)
          /\ RollbackFails
          /\ UNCHANGED entry
    /\ UNCHANGED <<journal, cur, op, failure>>

\* Mutant: removing a route that is already gone is an error.
RemoveLast_strict ==
    /\ pc = "removeLast"
    /\ entry.applied > 0
    /\ \/ /\ table[LastApplied] # Absent
          /\ Remove(LastApplied)
          /\ entry' = Popped(entry)
          /\ Goto("saveRemoved")
          /\ UNCHANGED <<stale, recovered, faults>>
       \/ /\ table[LastApplied] = Absent
          /\ RollbackFails
          /\ UNCHANGED <<table, stood, entry, faults>>
       \/ /\ Fault
          /\ RollbackFails
          /\ UNCHANGED <<table, stood, entry>>
    /\ UNCHANGED <<journal, cur, op, failure>>

RemoveLast ==
    /\ pc = "removeLast"
    /\ entry.applied > 0
    /\ \/ /\ Remove(LastApplied)
          /\ entry' = Popped(entry)
          /\ Goto("saveRemoved")
          /\ UNCHANGED <<stale, recovered, faults>>
       \/ /\ RemoveFails(LastApplied)
          /\ RollbackFails
          /\ UNCHANGED entry
    /\ UNCHANGED <<journal, cur, op, failure>>

SaveRemoved ==
    /\ pc = "saveRemoved"
    /\ \/ SaveOk /\ Goto("removeLast") /\ UNCHANGED <<stale, recovered>>
       \/ SaveFails /\ RollbackFails
    /\ UNCHANGED <<table, stood, entry, cur, op, failure>>

\* A failed apply reports its own error once its rollback has succeeded; a
\* route added but not saved counts as RouteRollbackFailed even then.
SaveRolledBack ==
    /\ pc = "removeLast"
    /\ entry.applied = 0
    /\ entry' = WithState(entry, "RolledBack")
    /\ \/ /\ journal' = [journal EXCEPT ![cur] = entry']
          /\ recovered' = (recovered /\ (op = "apply" => failure = "Err"))
          /\ UNCHANGED <<faults, stale>>
          /\ \/ op = "apply" /\ Return(failure)
             \/ op = "rollback" /\ Return("Ok")
             \/ op = "recover" /\ Goto("recoverNext")
       \/ SaveFails /\ RollbackFails
    /\ UNCHANGED <<table, stood, cur, op, failure>>
-----------------------------------------------------------------------------
\* The process dies between two steps: only the table and the file survive.
Crash ==
    /\ pc # "down"
    /\ Fault
    /\ pc' = "down"
    /\ entry' = NoEntry /\ cur' = "none" /\ op' = "none" /\ stale' = {}
    /\ recovered' = FALSE
    /\ result' = NoResult
    /\ UNCHANGED <<table, stood, journal, failure>>

Restart ==
    /\ pc = "down"
    /\ pc' = "idle"
    /\ UNCHANGED <<table, stood, journal, entry, cur, op, failure, stale, recovered, result, faults>>

\* Other software changes its own routes at any time: after list_routes too, and
\* for the destinations of a plan too.
ForeignChange(r) ==
    /\ table[r] \in {Absent, Other}
    /\ table' = [table EXCEPT ![r] = IF @ = Absent THEN Other ELSE Absent]
    /\ Leaves(r)
    /\ UNCHANGED <<journal, entry, cur, pc, op, failure, stale, recovered, result, faults>>

Call ==
    \/ \E t \in Txns : \E p \in Plans :
          ApplyKnown(t, p) \/ ApplyConflict(t, p) \/ ApplyBegin(t, p)
    \/ \E t \in Txns : RollbackNothing(t) \/ RollbackBegin(t)
    \/ RecoverBegin
    \/ \E o \in {"apply", "rollback", "recover"} : 
         \E t \in Txns \cup {"none"} : ReadFails(o, t)

Step ==
    \/ SavePrepared \/ SavePending \/ AddRoute \/ SaveNotAdded
    \/ SaveAdded \/ SaveApplied
    \/ \E t \in Txns : RecoverNext(t)
    \/ RecoverDone
    \/ RemovePending \/ RemoveLast \/ SaveRemoved \/ SaveRolledBack

Next ==
    \/ Call
    \/ Step
    \/ Crash
    \/ Restart
    \/ \E r \in Foreign : ForeignChange(r)

(* A started call runs on, a dead process is started again, and (under the   *)
(* RecoverFirst protocol) a process recovers before it does anything else.   *)
Fairness ==
    /\ WF_vars(Step)
    /\ WF_vars(Restart)
    /\ WF_vars(~recovered /\ RecoverBegin)

Spec == Init /\ [][Next]_vars
FairSpec == Spec /\ Fairness
-----------------------------------------------------------------------------
Entries ==
    [desired : Plans \cup {<< >>}, applied : Nat, pending : BOOLEAN,
     state : {"none", "Prepared", "Applied", "RolledBack"}]

Results ==
    [op : {"none", "apply", "rollback", "recover"}, txn : Txns \cup {"none"},
     code : {"none", "Ok", "Err", "RouteConflict", "InvalidStateTransition",
             "RouteRollbackFailed", "Unavailable"}]

Steps ==
    {"idle", "down", "savePrepared", "nextRoute", "addRoute", "saveAdded",
     "saveNotAdded", "removePending", "removeLast", "saveRemoved", "recoverNext"}

\* Every variable has its type, and an entry's prefix lies within its plan.
TypeOK ==
    /\ table \in [Routes -> Txns \cup {Absent, Other}]
    /\ stood \in [Txns -> SUBSET Routes]
    /\ journal \in [Txns -> Entries]
    /\ entry \in Entries
    /\ cur \in Txns \cup {"none"}
    /\ pc \in Steps
    /\ op \in {"none", "apply", "rollback", "recover"}
    /\ failure \in {"none", "Err", "RouteRollbackFailed"}
    /\ stale \subseteq Txns
    /\ recovered \in BOOLEAN
    /\ result \in Results
    /\ faults \in 0..MaxFaults

\* The routes a transaction has in the routing table.
Owned(t) == {r \in Routes : table[r] = t}

(* Write-ahead ownership (route.rs apply and rollback_entry): at every       *)
(* instant, whatever failed and wherever the process died, a route KyClash   *)
(* installed is named by a journal entry that recover_stale will roll back.  *)
OwnedIsJournaled ==
    \A t \in Txns : Owned(t) # {} =>
        Live(journal[t]) /\ Owned(t) \subseteq Claims(journal[t])

(* A call that reports its cleanup done has done it: after a failed apply    *)
(* that did not report RouteRollbackFailed, and after a successful rollback  *)
(* or recover_stale, no route of the transaction (of any) is installed.      *)
ReportedCleanupIsReal ==
    /\ result.op = "apply" /\ result.code = "Err" => Owned(result.txn) = {}
    /\ result.op = "rollback" /\ result.code = "Ok" => Owned(result.txn) = {}
    /\ result.op = "recover" /\ result.code = "Ok" => \A t \in Txns : Owned(t) = {}

(* apply returns Ok (freshly, or for an id it already knows) only when every *)
(* route of the plan is installed for that transaction.                      *)
ApplyOkMeansInstalled ==
    result.op = "apply" /\ result.code = "Ok" =>
        PlanRoutes(journal[result.txn].desired) \subseteq Owned(result.txn)

(* rollback_entry takes out its own routes only, but for one case that the   *)
(* code cannot tell: a destination that another program took after apply had *)
(* listed the table.  No other transaction's route goes, and nothing that    *)
(* stood when apply looked and has stood ever since.                         *)
RemovesOnlyItsOwn ==
    [][\A r \in Routes :
         table[r] # Absent /\ table'[r] # table[r] =>
            \/ table[r] = cur
            \/ table[r] = Other /\ UNCHANGED <<journal, pc>>
            \/ table[r] = Other /\ cur \in Txns /\ r \notin stood[cur]]_vars

(* After a crash the routes of the dead process do not stay: once failures   *)
(* stop, recover_stale clears the table.                                     *)
CrashIsCleanedUp == pc = "down" ~> \A t \in Txns : Owned(t) = {}

(* An apply that answers Ok has installed its whole plan, and a rollback     *)
(* takes out no other transaction's route and nothing that stood in the      *)
(* table before its apply, whatever other programs install or remove         *)
(* meanwhile (RouteOrchestrator::apply, rollback_entry).                     *)
RoutesAreExact == [](TypeOK /\ ApplyOkMeansInstalled) /\ RemovesOnlyItsOwn
=============================================================================
