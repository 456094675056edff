----------------------- MODULE RouteTransactionProofs -----------------------
(***************************************************************************)
(* Proofs about RouteTransaction, for every set of transactions, routes     *)
(* and plans and any number of failures and crashes.                        *)
(***************************************************************************)
EXTENDS RouteTransaction, TLAPS

\* The steps of a call that works on `entry' for transaction `cur'.
Busy == pc \notin {"idle", "down", "recoverNext"}

\* The memory entry names every route its transaction has installed.
EntryCovers ==
    Busy => /\ cur \in Txns
            /\ Live(entry)
            /\ \A r \in Routes : table[r] = cur => r \in Claims(entry)

\* What each step knows of pending_route, and of the file before an add.
PendingShape ==
    /\ pc \in {"addRoute", "removePending"} => entry.pending
    /\ pc \in {"savePrepared", "nextRoute", "saveAdded", "saveNotAdded",
               "removeLast", "saveRemoved"} => ~entry.pending
    /\ pc = "addRoute" => /\ journal[cur] = entry
                          /\ \A r \in Routes :
                               table[r] = cur => r \in Claims(WithPending(entry, FALSE))
    /\ pc = "savePrepared" => entry.applied = 0

\* recover_stale holds live entries other than the one it is rolling back.
StaleIsLive ==
    /\ \A t \in stale : Live(journal[t]) /\ (Busy => t # cur)
    /\ pc \in {"idle", "down"} \/ op # "recover" => stale = {}
    /\ pc \in {"savePrepared", "nextRoute", "addRoute", "saveAdded", "saveNotAdded"} =>
         op = "apply"
    /\ pc = "recoverNext" => op = "recover"

\* recover_stale still has before it every live entry it has not rolled back.
RecoverCovers ==
    op = "recover" /\ pc \notin {"idle", "down"} =>
        \A t \in Txns : Live(journal[t]) => t \in stale \/ (Busy /\ t = cur)

\* A result is only visible between calls.
ResultShape == pc # "idle" => result = NoResult

Covered ==
    /\ OwnedIsJournaled
    /\ EntryCovers
    /\ PendingShape
    /\ StaleIsLive

IInv ==
    /\ TypeOK
    /\ Covered
    /\ RecoverCovers
    /\ ResultShape
    /\ ReportedCleanupIsReal
-----------------------------------------------------------------------------
\* The steps of Next, by name, for the case splits below.
LEMMA NextCases ==
    ASSUME Next
    PROVE  \/ \E t \in Txns, p \in Plans :
                 ApplyKnown(t, p) \/ ApplyConflict(t, p) \/ ApplyBegin(t, p)
           \/ \E t \in Txns :
                 RollbackNothing(t) \/ RollbackBegin(t) \/ RecoverNext(t)
           \/ RecoverBegin
           \/ \E o \in {"apply", "rollback", "recover"}, t \in Txns \cup {"none"} :
                 ReadFails(o, t)
           \/ SavePrepared \/ SavePending \/ AddRoute \/ SaveNotAdded
           \/ SaveAdded \/ SaveApplied \/ RecoverDone
           \/ RemovePending \/ RemoveLast \/ SaveRemoved \/ SaveRolledBack
           \/ Crash \/ Restart
           \/ \E r \in Foreign : ForeignChange(r)
    BY DEF Next, Call, Step

LEMMA EntryTypes ==
    ASSUME NEW e \in Entries
    PROVE  /\ e.applied \in Nat /\ e.pending \in BOOLEAN /\ e.desired \in Plans \cup {<< >>}
           /\ WithPending(e, TRUE) \in Entries /\ WithPending(e, FALSE) \in Entries
           /\ Pushed(e) \in Entries
           /\ e.applied > 0 => Popped(e) \in Entries
           /\ WithState(e, "Applied") \in Entries
           /\ WithState(e, "RolledBack") \in Entries
<1> USE DEF Entry, Entries
<1>1. e.applied \in Nat /\ e.pending \in BOOLEAN /\ e.desired \in Plans \cup {<< >>}
    OBVIOUS
<1>2. WithPending(e, TRUE) \in Entries /\ WithPending(e, FALSE) \in Entries
    BY DEF WithPending
<1>3. Pushed(e) \in Entries
    BY DEF Pushed
<1>4. e.applied > 0 => Popped(e) \in Entries
    BY DEF Popped
<1>5. WithState(e, "Applied") \in Entries /\ WithState(e, "RolledBack") \in Entries
    BY DEF WithState
<1> QED BY <1>1, <1>2, <1>3, <1>4, <1>5

LEMMA ConstantTypes == NoResult \in Results /\ NoEntry \in Entries
    BY DEF NoResult, Result, Results, NoEntry, Entry, Entries

\* What a call returns is a result.
LEMMA ResultTypes ==
    ASSUME NEW o \in {"none", "apply", "rollback", "recover"}, NEW t \in Txns \cup {"none"},
           NEW c \in {"none", "Ok", "Err", "RouteConflict", "InvalidStateTransition",
                      "RouteRollbackFailed", "Unavailable"}
    PROVE  Result(o, t, c) \in Results
    BY DEF Result, Results

\* The failure count stays within its bound.
LEMMA FaultTypes ==
    ASSUME faults \in 0..MaxFaults, Fault \/ UNCHANGED faults
    PROVE  faults' \in 0..MaxFaults
    BY FaultsAssumption DEF Fault

(* A step keeps every variable in its type.                                  *)
LEMMA TypeStep == TypeOK /\ EntryCovers /\ [Next]_vars => TypeOK'
<1> SUFFICES ASSUME TypeOK, EntryCovers, [Next]_vars PROVE TypeOK'
    OBVIOUS
<1> USE DEF TypeOK
<1>1. ASSUME NEW t \in Txns, NEW p \in Plans,
             ApplyKnown(t, p) \/ ApplyConflict(t, p) \/ ApplyBegin(t, p)
      PROVE  TypeOK'
    <2>1. CASE ApplyKnown(t, p)
        BY <2>1, ResultTypes DEF ApplyKnown
    <2>2. CASE ApplyConflict(t, p)
        BY <2>2, ResultTypes DEF ApplyConflict
    <2>3. CASE ApplyBegin(t, p)
        BY <2>3, ConstantTypes DEF ApplyBegin, Entry, Entries, Steps, Present
    <2> QED BY <1>1, <2>1, <2>2, <2>3
<1>2. ASSUME NEW t \in Txns, RollbackNothing(t) \/ RollbackBegin(t) \/ RecoverNext(t)
      PROVE  TypeOK'
    <2>1. CASE RollbackNothing(t)
        BY <2>1, ResultTypes DEF RollbackNothing
    <2>2. CASE RollbackBegin(t)
        BY <2>2, ConstantTypes DEF RollbackBegin, RollbackStart, Steps
    <2>3. CASE RecoverNext(t)
        BY <2>3 DEF RecoverNext, RollbackStart, Steps, Goto
    <2> QED BY <1>2, <2>1, <2>2, <2>3
<1>3. CASE RecoverBegin
    BY <1>3, ConstantTypes DEF RecoverBegin, Steps
<1>4. ASSUME NEW o \in {"apply", "rollback", "recover"},
             NEW t \in Txns \cup {"none"}, ReadFails(o, t)
      PROVE  TypeOK'
    <2>1. faults' \in 0..MaxFaults
        BY <1>4, FaultTypes DEF ReadFails
    <2> QED BY <1>4, <2>1, ResultTypes DEF ReadFails
<1>5. CASE SavePrepared
    <2>1. result' \in Results
        BY <1>5, ResultTypes DEF SavePrepared, Goto, Return
    <2>2. faults' \in 0..MaxFaults
        BY <1>5, FaultTypes DEF SavePrepared, SaveOk, SaveFails
    <2> QED BY <1>5, <2>1, <2>2
        DEF SavePrepared, SaveOk, SaveFails, Goto, Return, Steps
<1>6. CASE SavePending
    <2>1. entry' \in Entries
        BY <1>6, EntryTypes DEF SavePending
    <2>2. faults' \in 0..MaxFaults
        BY <1>6, FaultTypes DEF SavePending, FailApply, SaveFails
    <2> QED BY <1>6, <2>1, <2>2
        DEF SavePending, FailApply, SaveFails, Goto, Steps
<1>7. CASE AddRoute
    <2>1. entry' \in Entries
        BY <1>7, EntryTypes DEF AddRoute
    <2>2. faults' \in 0..MaxFaults
        BY <1>7, FaultTypes DEF AddRoute
    <2>3. cur \in Txns
        BY <1>7 DEF AddRoute, EntryCovers, Busy
    <2> QED BY <1>7, <2>1, <2>2, <2>3
        DEF AddRoute, Goto, Steps
<1>8. CASE SaveNotAdded
    <2>1. faults' \in 0..MaxFaults
        BY <1>8, FaultTypes DEF SaveNotAdded, FailApply, SaveOk, SaveFails
    <2> QED BY <1>8, <2>1
        DEF SaveNotAdded, FailApply, SaveOk, SaveFails, Goto, Steps
<1>9. CASE SaveAdded
    <2>1. faults' \in 0..MaxFaults
        BY <1>9, FaultTypes DEF SaveAdded, FailApply, SaveOk, SaveFails
    <2> QED BY <1>9, <2>1
        DEF SaveAdded, FailApply, SaveOk, SaveFails, Goto, Steps
<1>10. CASE SaveApplied
    <2>1. entry' \in Entries
        BY <1>10, EntryTypes DEF SaveApplied
    <2>2. result' \in Results
        BY <1>10, ResultTypes DEF SaveApplied, FailApply, Goto, Return
    <2>3. faults' \in 0..MaxFaults
        BY <1>10, FaultTypes DEF SaveApplied, FailApply, SaveFails
    <2> QED BY <1>10, <2>1, <2>2, <2>3
        DEF SaveApplied, FailApply, SaveFails, Goto, Return, Steps
<1>11. CASE RecoverDone
    <2>1. result' \in Results
        BY <1>11, ResultTypes DEF RecoverDone, Return
    <2> QED BY <1>11, <2>1
        DEF RecoverDone, Return, Steps
<1>12. CASE RemovePending
    <2>1. entry' \in Entries
        BY <1>12, EntryTypes DEF RemovePending
    <2>2. result' \in Results
        BY <1>12, ResultTypes DEF RemovePending, RollbackFails, Goto, Return
    <2>3. faults' \in 0..MaxFaults
        BY <1>12, FaultTypes DEF RemovePending, RemoveFails
    <2> QED BY <1>12, <2>1, <2>2, <2>3
        DEF RemovePending, Remove, RemoveFails, Leaves, RollbackFails, Goto, Return, Steps
<1>13. CASE RemoveLast
    <2>1. entry' \in Entries
        BY <1>13, EntryTypes DEF RemoveLast
    <2>2. result' \in Results
        BY <1>13, ResultTypes DEF RemoveLast, RollbackFails, Goto, Return
    <2>3. faults' \in 0..MaxFaults
        BY <1>13, FaultTypes DEF RemoveLast, RemoveFails
    <2> QED BY <1>13, <2>1, <2>2, <2>3
        DEF RemoveLast, Remove, RemoveFails, Leaves, RollbackFails, Goto, Return, Steps
<1>14. CASE SaveRemoved
    <2>1. result' \in Results
        BY <1>14, ResultTypes DEF SaveRemoved, RollbackFails, Goto, Return
    <2>2. faults' \in 0..MaxFaults
        BY <1>14, FaultTypes DEF SaveRemoved, SaveOk, SaveFails
    <2> QED BY <1>14, <2>1, <2>2
        DEF SaveRemoved, SaveOk, SaveFails, RollbackFails, Goto, Return, Steps
<1>15. CASE SaveRolledBack
    <2>1. entry' \in Entries
        BY <1>15, EntryTypes DEF SaveRolledBack
    <2>2. result' \in Results
        BY <1>15, ResultTypes DEF SaveRolledBack, RollbackFails, Goto, Return
    <2>3. faults' \in 0..MaxFaults
        BY <1>15, FaultTypes DEF SaveRolledBack, SaveFails
    <2> QED BY <1>15, <2>1, <2>2, <2>3
        DEF SaveRolledBack, SaveFails, RollbackFails, Goto, Return, Steps
<1>16. CASE Crash
    <2>1. faults' \in 0..MaxFaults
        BY <1>16, FaultTypes DEF Crash
    <2> QED BY <1>16, <2>1, ConstantTypes DEF Crash, Steps
<1>17. CASE Restart
    BY <1>17 DEF Restart, Steps
<1>18. ASSUME NEW r \in Foreign, ForeignChange(r) PROVE TypeOK'
    BY <1>18 DEF ForeignChange, Leaves
<1>19. CASE UNCHANGED vars
    BY <1>19 DEF vars
<1> HIDE DEF TypeOK
<1> QED
    BY <1>1, <1>2, <1>3, <1>4, <1>5, <1>6, <1>7, <1>8, <1>9, <1>10, <1>11, <1>12,
       <1>13, <1>14, <1>15, <1>16, <1>17, <1>18, <1>19, NextCases
-----------------------------------------------------------------------------
\* How the updates of an entry change the routes it claims.
LEMMA ClaimsUpdates ==
    ASSUME NEW e \in Entries
    PROVE  /\ e.pending => Claims(e) \subseteq Claims(Pushed(e))
           /\ e.pending => e.desired[e.applied + 1] \in Claims(e)
           /\ e.pending =>
                Claims(e) \ {e.desired[e.applied + 1]} \subseteq Claims(WithPending(e, FALSE))
           /\ ~e.pending => /\ Claims(e) \subseteq Claims(WithPending(e, TRUE))
                            /\ Claims(e) \subseteq Claims(WithPending(WithPending(e, TRUE), FALSE))
                            /\ e.applied > 0 =>
                                 Claims(e) \ {e.desired[e.applied]} \subseteq Claims(Popped(e))
                            /\ e.applied = 0 => Claims(e) = {}
           /\ Claims(WithState(e, "Applied")) = Claims(e)
<1> USE DEF Claims, Entry, Entries
<1>1. e.pending => Claims(e) \subseteq Claims(Pushed(e))
    BY DEF Pushed
<1>2. e.pending =>
         Claims(e) \ {e.desired[e.applied + 1]} \subseteq Claims(WithPending(e, FALSE))
    BY DEF WithPending
<1>3. ~e.pending => /\ Claims(e) \subseteq Claims(WithPending(e, TRUE))
                    /\ Claims(e) \subseteq Claims(WithPending(WithPending(e, TRUE), FALSE))
    BY DEF WithPending
<1>4. ~e.pending /\ e.applied > 0 =>
         Claims(e) \ {e.desired[e.applied]} \subseteq Claims(Popped(e))
    BY DEF Popped
<1>5. ~e.pending /\ e.applied = 0 => Claims(e) = {}
    OBVIOUS
<1>6. Claims(WithState(e, "Applied")) = Claims(e)
    BY DEF WithState
<1>7. e.pending => e.desired[e.applied + 1] \in Claims(e)
    OBVIOUS
<1> QED BY <1>1, <1>2, <1>3, <1>4, <1>5, <1>6, <1>7

\* How the updates of an entry change its flag and its state.
LEMMA UpdateFields ==
    ASSUME NEW e \in Entries
    PROVE  /\ WithPending(e, TRUE).pending /\ ~WithPending(e, FALSE).pending
           /\ ~Pushed(e).pending
           /\ Popped(e).pending = e.pending
           /\ WithState(e, "Applied").pending = e.pending
           /\ Live(WithState(e, "Applied")) /\ ~Live(WithState(e, "RolledBack"))
           /\ Live(e) => /\ Live(WithPending(e, TRUE)) /\ Live(WithPending(e, FALSE))
                         /\ Live(Pushed(e)) /\ Live(Popped(e))
    BY DEF WithPending, Pushed, Popped, WithState, Live, Entry, Entries

(* Every step keeps the routes covered by the entry in memory and on disk.   *)
LEMMA CoveredStep == TypeOK /\ Covered /\ [Next]_vars => Covered'
<1> SUFFICES ASSUME TypeOK, Covered, [Next]_vars PROVE Covered'
    OBVIOUS
<1> DEFINE Table == table \in [Routes -> Txns \cup {Absent, Other}]
<1>a. /\ Table
      /\ entry \in Entries
      /\ journal \in [Txns -> Entries]
      /\ stale \subseteq Txns
    BY DEF TypeOK
<1>b. /\ NoEntry.state = "none" /\ ~Live(NoEntry)
      /\ \A p \in Plans : /\ Live(Entry(p, 0, FALSE, "Prepared"))
                          /\ ~Entry(p, 0, FALSE, "Prepared").pending
                          /\ Entry(p, 0, FALSE, "Prepared").applied = 0
    BY DEF NoEntry, Entry, Live
<1>c. /\ entry.pending => Claims(entry) \subseteq Claims(Pushed(entry))
      /\ entry.pending => Claims(entry) \ {AddedRoute} \subseteq Claims(WithPending(entry, FALSE))
      /\ ~entry.pending => /\ Claims(entry) \subseteq Claims(WithPending(entry, TRUE))
                           /\ Claims(entry) \subseteq
                                Claims(WithPending(WithPending(entry, TRUE), FALSE))
                           /\ entry.applied > 0 =>
                                Claims(entry) \ {LastApplied} \subseteq Claims(Popped(entry))
                           /\ entry.applied = 0 => Claims(entry) = {}
      /\ Claims(WithState(entry, "Applied")) = Claims(entry)
      /\ entry.pending => AddedRoute \in Claims(entry)
    BY <1>a, ClaimsUpdates DEF AddedRoute, LastApplied
<1>d. /\ WithPending(entry, TRUE).pending /\ ~WithPending(entry, FALSE).pending
      /\ ~Pushed(entry).pending
      /\ ~entry.pending => ~Popped(entry).pending /\ ~WithState(entry, "Applied").pending
      /\ Live(WithState(entry, "Applied")) /\ ~Live(WithState(entry, "RolledBack"))
      /\ Live(entry) => /\ Live(WithPending(entry, TRUE)) /\ Live(WithPending(entry, FALSE))
                        /\ Live(Pushed(entry)) /\ Live(Popped(entry))
    BY <1>a, UpdateFields
<1> USE <1>a, OwnersAssumption
    DEF Covered, OwnedIsJournaled, Owned, EntryCovers, Busy, PendingShape, StaleIsLive
<1>1. ASSUME NEW x \in Txns, NEW p \in Plans, ApplyKnown(x, p)
      PROVE  Covered'
    BY <1>1
       DEF ApplyKnown, MayCall
<1>2. ASSUME NEW x \in Txns, NEW p \in Plans, ApplyConflict(x, p)
      PROVE  Covered'
    BY <1>2
       DEF ApplyConflict, MayCall
<1>3. ASSUME NEW x \in Txns, NEW p \in Plans, ApplyBegin(x, p)
      PROVE  Covered'
    BY <1>3, <1>b
       DEF ApplyBegin, MayCall
<1>4. ASSUME NEW x \in Txns, RollbackNothing(x)
      PROVE  Covered'
    BY <1>4
       DEF RollbackNothing, MayCall
<1>5. ASSUME NEW x \in Txns, RollbackBegin(x)
      PROVE  Covered'
    BY <1>5
       DEF RollbackBegin, MayCall, RollbackStart
<1>6. ASSUME NEW x \in Txns, RecoverNext(x)
      PROVE  Covered'
    BY <1>6
       DEF RecoverNext, Goto, RollbackStart
<1>7. CASE RecoverBegin
    BY <1>7
       DEF RecoverBegin
<1>8. ASSUME NEW o \in {"apply", "rollback", "recover"},
             NEW x \in Txns \cup {"none"}, ReadFails(o, x)
      PROVE  Covered'
    BY <1>8
       DEF ReadFails, MayCall
<1>9. CASE SavePrepared
    BY <1>9
       DEF SavePrepared, SaveOk, SaveFails, Goto, Return
<1>10. CASE SavePending
    BY <1>10, <1>c, <1>d
       DEF SavePending, FailApply, SaveFails, Goto
<1>11. CASE AddRoute
    BY <1>11, <1>c, <1>d
       DEF AddRoute, Goto, Absent, Other
<1>12. CASE SaveNotAdded
    BY <1>12
       DEF SaveNotAdded, FailApply, SaveOk, SaveFails, Goto
<1>13. CASE SaveAdded
    BY <1>13
       DEF SaveAdded, FailApply, SaveOk, SaveFails, Goto
<1>14. CASE SaveApplied
    BY <1>14, <1>c, <1>d
       DEF SaveApplied, FailApply, SaveFails, Goto, Return
<1>15. CASE RecoverDone
    BY <1>15
       DEF RecoverDone, Return
<1>16. CASE RemovePending
    <2>1. CASE Remove(AddedRoute) /\ entry' = WithPending(entry, FALSE) /\ pc' = "saveRemoved" /\ UNCHANGED stale
        <3>1. \A x \in Routes, t \in Txns : table'[x] = t => table[x] = t /\ x # AddedRoute
            BY <2>1 DEF Remove, Absent
        <3>2. Live(entry) /\ cur \in Txns /\ UNCHANGED <<journal, cur, op>>
            BY <1>16 DEF RemovePending
        <3>3. OwnedIsJournaled'
            BY <3>1, <3>2
        <3>4. EntryCovers'
            BY <1>16, <2>1, <3>1, <3>2, <1>c, <1>d DEF RemovePending
        <3>5. PendingShape' /\ StaleIsLive'
            BY <1>16, <2>1, <3>2, <1>d DEF RemovePending
        <3> QED BY <3>3, <3>4, <3>5
    <2>2. CASE RollbackFails /\ UNCHANGED table
        BY <1>16, <2>2 DEF RemovePending, RollbackFails, Return
    <2> QED BY <1>16, <2>1, <2>2 DEF RemovePending, RemoveFails, Goto
<1>17. CASE RemoveLast
    <2>1. CASE Remove(LastApplied) /\ entry' = Popped(entry) /\ pc' = "saveRemoved" /\ UNCHANGED stale
        <3>1. \A x \in Routes, t \in Txns : table'[x] = t => table[x] = t /\ x # LastApplied
            BY <2>1 DEF Remove, Absent
        <3>2. Live(entry) /\ cur \in Txns /\ UNCHANGED <<journal, cur, op>>
            BY <1>17 DEF RemoveLast
        <3>3. OwnedIsJournaled'
            BY <3>1, <3>2
        <3>4. EntryCovers'
            BY <1>17, <2>1, <3>1, <3>2, <1>c, <1>d DEF RemoveLast
        <3>5. PendingShape' /\ StaleIsLive'
            BY <1>17, <2>1, <3>2, <1>d DEF RemoveLast
        <3> QED BY <3>3, <3>4, <3>5
    <2>2. CASE RollbackFails /\ UNCHANGED table
        BY <1>17, <2>2 DEF RemoveLast, RollbackFails, Return
    <2> QED BY <1>17, <2>1, <2>2 DEF RemoveLast, RemoveFails, Goto
<1>18. CASE SaveRemoved
    BY <1>18
       DEF SaveRemoved, SaveOk, SaveFails, RollbackFails, Goto, Return
<1>19. CASE SaveRolledBack
    BY <1>19, <1>c, <1>d
       DEF SaveRolledBack, SaveFails, RollbackFails, Goto, Return
<1>20. CASE Crash
    BY <1>20
       DEF Crash
<1>21. CASE Restart
    BY <1>21
       DEF Restart
<1>22. ASSUME NEW f \in Foreign, ForeignChange(f) PROVE Covered'
    BY <1>22
       DEF ForeignChange, Absent, Other
<1>23. CASE UNCHANGED vars
    BY <1>23
       DEF vars
<1> HIDE DEF Covered
<1> QED
    BY <1>1, <1>2, <1>3, <1>4, <1>5, <1>6, <1>7, <1>8, <1>9, <1>10, <1>11, <1>12,
       <1>13, <1>14, <1>15, <1>16, <1>17, <1>18, <1>19, <1>20, <1>21, <1>22, <1>23, NextCases
(* Every step keeps recover_stale complete and the reported results true.    *)
LEMMA ReportStep ==
    IInv /\ [Next]_vars => RecoverCovers' /\ ResultShape' /\ ReportedCleanupIsReal'
<1> DEFINE Goal == RecoverCovers' /\ ResultShape' /\ ReportedCleanupIsReal'
<1> SUFFICES ASSUME IInv, [Next]_vars PROVE Goal
    OBVIOUS
<1>a. /\ table \in [Routes -> Txns \cup {Absent, Other}]
      /\ entry \in Entries
      /\ journal \in [Txns -> Entries]
      /\ stale \subseteq Txns
    BY DEF IInv, TypeOK
<1>b. /\ Live(entry) => Live(WithPending(entry, TRUE)) /\ Live(WithState(entry, "Applied"))
      /\ ~Live(WithState(entry, "RolledBack"))
      /\ ~entry.pending /\ entry.applied = 0 => Claims(entry) = {}
      /\ ~Live(NoEntry)
    BY <1>a, UpdateFields, ClaimsUpdates DEF NoEntry, Entry, Live
<1>c. /\ OwnedIsJournaled /\ EntryCovers /\ PendingShape /\ StaleIsLive
      /\ RecoverCovers /\ ResultShape /\ ReportedCleanupIsReal
    BY DEF IInv, Covered
<1> USE <1>a, <1>b, <1>c, OwnersAssumption
    DEF OwnedIsJournaled, EntryCovers, PendingShape, StaleIsLive, Busy,
        RecoverCovers, ResultShape, ReportedCleanupIsReal, Owned, Result, NoResult
<1>1. ASSUME NEW x \in Txns, NEW p \in Plans, ApplyKnown(x, p)
      PROVE  Goal
    BY <1>1
       DEF ApplyKnown, MayCall
<1>2. ASSUME NEW x \in Txns, NEW p \in Plans, ApplyConflict(x, p)
      PROVE  Goal
    BY <1>2
       DEF ApplyConflict, MayCall
<1>3. ASSUME NEW x \in Txns, NEW p \in Plans, ApplyBegin(x, p)
      PROVE  Goal
    BY <1>3
       DEF ApplyBegin, MayCall
<1>4. ASSUME NEW x \in Txns, RollbackNothing(x)
      PROVE  Goal
    BY <1>4
       DEF RollbackNothing, MayCall
<1>5. ASSUME NEW x \in Txns, RollbackBegin(x)
      PROVE  Goal
    BY <1>5
       DEF RollbackBegin, MayCall, RollbackStart
<1>6. ASSUME NEW x \in Txns, RecoverNext(x)
      PROVE  Goal
    BY <1>6
       DEF RecoverNext, Goto, RollbackStart
<1>7. CASE RecoverBegin
    BY <1>7
       DEF RecoverBegin
<1>8. ASSUME NEW o \in {"apply", "rollback", "recover"},
             NEW x \in Txns \cup {"none"}, ReadFails(o, x)
      PROVE  Goal
    BY <1>8
       DEF ReadFails, MayCall
<1>9. CASE SavePrepared
    BY <1>9
       DEF SavePrepared, SaveOk, SaveFails, Goto, Return
<1>10. CASE SavePending
    BY <1>10
       DEF SavePending, FailApply, SaveFails, Goto
<1>11. CASE AddRoute
    <2>1. op = "apply" /\ result = NoResult /\ UNCHANGED <<op, result, journal>>
        BY <1>11 DEF AddRoute, Goto
    <2> QED BY <2>1
<1>12. CASE SaveNotAdded
    BY <1>12
       DEF SaveNotAdded, FailApply, SaveOk, SaveFails, Goto
<1>13. CASE SaveAdded
    BY <1>13
       DEF SaveAdded, FailApply, SaveOk, SaveFails, Goto
<1>14. CASE SaveApplied
    BY <1>14
       DEF SaveApplied, FailApply, SaveFails, Goto, Return
<1>15. CASE RecoverDone
    BY <1>15
       DEF RecoverDone, Return
<1>16. CASE RemovePending
    <2>1. /\ UNCHANGED <<op, journal, cur>> /\ result = NoResult /\ Busy
          /\ \/ pc' = "saveRemoved" /\ UNCHANGED <<result, stale>>
             \/ pc' = "idle" /\ result' = Result(op, cur, "RouteRollbackFailed")
        BY <1>16 DEF RemovePending, RollbackFails, Goto, Return
    <2> QED BY <2>1
<1>17. CASE RemoveLast
    BY <1>17
       DEF RemoveLast, Remove, RemoveFails, Leaves, RollbackFails, Goto, Return, Absent, Other
<1>18. CASE SaveRemoved
    BY <1>18
       DEF SaveRemoved, SaveOk, SaveFails, RollbackFails, Goto, Return
<1>19. CASE SaveRolledBack
    BY <1>19
       DEF SaveRolledBack, SaveFails, RollbackFails, Goto, Return
<1>20. CASE Crash
    BY <1>20
       DEF Crash
<1>21. CASE Restart
    BY <1>21
       DEF Restart
<1>22. ASSUME NEW f \in Foreign, ForeignChange(f) PROVE Goal
    <2>1. UNCHANGED <<op, journal, cur, pc, stale, result>>
        BY <1>22 DEF ForeignChange
    <2>2. \A r \in Routes, t \in Txns : table'[r] = t => table[r] = t
        BY <1>22 DEF ForeignChange, Absent, Other
    <2>3. \A r \in Routes : table'[r] # "none"
        BY <1>22 DEF ForeignChange, Absent, Other
    <2>4. result.txn \in Txns \cup {"none"}
        BY DEF IInv, TypeOK, Results
    <2> QED BY <2>1, <2>2, <2>3, <2>4
<1>23. CASE UNCHANGED vars
    BY <1>23
       DEF vars
<1> HIDE DEF Goal
<1> QED
    BY <1>1, <1>2, <1>3, <1>4, <1>5, <1>6, <1>7, <1>8, <1>9, <1>10, <1>11, <1>12,
       <1>13, <1>14, <1>15, <1>16, <1>17, <1>18, <1>19, <1>20, <1>21, <1>22, <1>23, NextCases
-----------------------------------------------------------------------------
LEMMA InvInit == Init => IInv
<1> SUFFICES ASSUME Init PROVE IInv
    OBVIOUS
<1>1. TypeOK
    <2>1. table \in [Routes -> Txns \cup {Absent, Other}]
        BY DEF Init
    <2>2. faults \in 0..MaxFaults
        BY FaultsAssumption DEF Init
    <2> QED BY <2>1, <2>2, ConstantTypes DEF Init, TypeOK, Steps
<1>2. \A t \in Txns : Owned(t) = {}
    BY OwnersAssumption DEF Init, Owned, Absent, Other
<1> QED
    BY <1>1, <1>2 DEF Init, IInv, Covered, OwnedIsJournaled, EntryCovers, Busy,
       PendingShape, StaleIsLive, RecoverCovers, ResultShape, ReportedCleanupIsReal,
       NoResult, Result

(* The inductive invariant holds throughout every behaviour.                 *)
THEOREM Invariance == Spec => []IInv
<1>1. IInv /\ [Next]_vars => IInv'
    BY TypeStep, CoveredStep, ReportStep DEF IInv, Covered
<1> QED BY <1>1, InvInit, PTL DEF Spec

(* Type correctness: the orchestrator of route.rs never leaves its states,   *)
(* and a failure count stays within its bound.                               *)
THEOREM TypeCorrect == Spec => []TypeOK
<1>1. IInv => TypeOK
    BY DEF IInv
<1> QED BY <1>1, Invariance, PTL

(* Write-ahead ownership: whatever fails and wherever the process dies,      *)
(* every route apply installed is named by a journal entry that              *)
(* recover_stale rolls back.                                                 *)
THEOREM WriteAheadOwnership == Spec => []OwnedIsJournaled
<1>1. IInv => OwnedIsJournaled
    BY DEF IInv, Covered
<1> QED BY <1>1, Invariance, PTL

(* A cleanup that apply, rollback or recover_stale reports as done is done.  *)
THEOREM CleanupIsReal == Spec => []ReportedCleanupIsReal
<1>1. IInv => ReportedCleanupIsReal
    BY DEF IInv
<1> QED BY <1>1, Invariance, PTL
-----------------------------------------------------------------------------
(* A caller that recovers first (RecoverFirst) keeps the routes exact: an   *)
(* apply that answers Ok has its whole plan installed, and no step takes    *)
(* out a route that is not its own.                                         *)

\* applied_routes lies within the plan, and so does pending_route.
Within(e) ==
    /\ e.applied <= Len(e.desired)
    /\ e.pending => e.applied < Len(e.desired)

EntriesWithin == Within(entry) /\ \A t \in Txns : Within(journal[t])

\* No other transaction holds a route that an entry claims.
NotAnothers(e, t) == \A r \in Claims(e) : table[r] \in {t, Absent, Other}

ClaimsAreMine ==
    /\ Busy => NotAnothers(entry, cur)
    /\ \A t \in Txns : Live(journal[t]) => NotAnothers(journal[t], t)

\* An entry that recover_stale leaves in force is installed, all of it.
InForce(e, t) ==
    /\ e.state = "Applied" /\ ~e.pending /\ e.applied = Len(e.desired)
    /\ \A r \in PlanRoutes(e.desired) : table[r] = t

Settled ==
    recovered => \A t \in Txns :
        Live(journal[t]) /\ (Busy => t # cur) => InForce(journal[t], t)

Forward == {"savePrepared", "nextRoute", "addRoute", "saveAdded"}

\* While apply goes forward, the plan is installed up to applied_routes and not
\* yet after it, where another program may be first; and no other live entry
\* claims any of it.
ForwardShape ==
    pc \in Forward =>
        /\ \A i \in 1..Len(entry.desired) :
              table[entry.desired[i]] \in IF i <= entry.applied THEN {cur} ELSE {Absent, Other}
        /\ \A t \in Txns : Live(journal[t]) /\ t # cur =>
              Claims(journal[t]) \cap PlanRoutes(entry.desired) = {}
        /\ pc = "savePrepared" => journal[cur] = NoEntry

\* What apply reports, it reports of a transaction.
AppliesATxn == result.op = "apply" => result.txn \in Txns

Exact ==
    /\ EntriesWithin
    /\ ClaimsAreMine
    /\ Settled
    /\ ForwardShape
    /\ AppliesATxn
    /\ ApplyOkMeansInstalled
-----------------------------------------------------------------------------
\* A plan's routes are routes, each planned once.
LEMMA PlanFacts ==
    ASSUME NEW e \in Entries
    PROVE  /\ Len(e.desired) \in Nat
           /\ PlanRoutes(e.desired) \subseteq Routes
           /\ \A i \in 1..Len(e.desired) : e.desired[i] \in PlanRoutes(e.desired)
           /\ \A i, j \in 1..Len(e.desired) : e.desired[i] = e.desired[j] => i = j
           /\ \A r \in PlanRoutes(e.desired) : <<r, r>> \in Overlaps
<1>1. e.desired \in Plans \cup {<< >>}
    BY EntryTypes
<1>2. CASE e.desired = << >>
    BY <1>2 DEF PlanRoutes
<1>3. CASE e.desired \in Plans
    <2>1. e.desired \in Seq(Routes)
        BY <1>3, PlansAssumption
    <2>2. /\ \A i, j \in 1..Len(e.desired) : e.desired[i] = e.desired[j] => i = j
          /\ \A r \in PlanRoutes(e.desired) : <<r, r>> \in Overlaps
        BY <1>3, PlansAssumption, OverlapsAssumption
    <2>3. /\ Len(e.desired) \in Nat
          /\ \A i \in 1..Len(e.desired) :
                e.desired[i] \in PlanRoutes(e.desired) /\ e.desired[i] \in Routes
          /\ PlanRoutes(e.desired) \subseteq Routes
        BY <2>1 DEF PlanRoutes
    <2> QED BY <2>2, <2>3
<1> QED BY <1>1, <1>2, <1>3

\* The routes an entry claims are routes of its plan.
LEMMA ClaimsPlanned ==
    ASSUME NEW e \in Entries, Within(e)
    PROVE  /\ Claims(e) \subseteq PlanRoutes(e.desired)
           /\ Claims(e) \subseteq Routes
           /\ e.pending => e.desired[e.applied + 1] \in Routes
           /\ e.applied > 0 => e.desired[e.applied] \in Claims(e)
<1>1. e.applied \in Nat /\ Len(e.desired) \in Nat
    BY EntryTypes, PlanFacts
<1>2. \A i \in 1..e.applied : i \in 1..Len(e.desired)
    BY <1>1 DEF Within
<1>3. e.pending => e.applied + 1 \in 1..Len(e.desired)
    BY <1>1 DEF Within
<1>4. Claims(e) \subseteq PlanRoutes(e.desired)
    BY <1>2, <1>3 DEF Claims, PlanRoutes
<1>5. e.applied > 0 => e.applied \in 1..e.applied
    BY <1>1
<1>6. e.applied > 0 => e.desired[e.applied] \in Claims(e)
    BY <1>5 DEF Claims
<1> QED BY <1>3, <1>4, <1>6, PlanFacts

\* What the updates of an entry do to its claims and to its prefix.
LEMMA ExactUpdates ==
    ASSUME NEW e \in Entries, Within(e)
    PROVE  /\ Claims(WithPending(e, FALSE)) \subseteq Claims(e)
           /\ e.applied > 0 => Claims(Popped(e)) \subseteq Claims(e)
           /\ e.pending => Claims(Pushed(e)) \subseteq Claims(e)
           /\ Claims(WithPending(e, TRUE)) \subseteq Claims(e) \cup {e.desired[e.applied + 1]}
           /\ Claims(WithState(e, "RolledBack")) = Claims(e)
           /\ Within(WithPending(e, FALSE))
           /\ e.applied > 0 => Within(Popped(e))
           /\ e.pending => Within(Pushed(e))
           /\ e.applied < Len(e.desired) => Within(WithPending(e, TRUE))
           /\ Within(WithState(e, "Applied")) /\ Within(WithState(e, "RolledBack"))
<1>1. e.applied \in Nat /\ e.pending \in BOOLEAN /\ Len(e.desired) \in Nat
    BY EntryTypes, PlanFacts
<1> USE <1>1 DEF Entry
<1>2. Claims(WithPending(e, FALSE)) \subseteq Claims(e) /\ Within(WithPending(e, FALSE))
    BY DEF Claims, WithPending, Within
<1>3. e.applied > 0 => Claims(Popped(e)) \subseteq Claims(e) /\ Within(Popped(e))
    <2> SUFFICES ASSUME e.applied > 0
                 PROVE  Claims(Popped(e)) \subseteq Claims(e) /\ Within(Popped(e))
        OBVIOUS
    <2>1. Within(Popped(e))
        BY DEF Within, Popped
    <2>2. (e.applied - 1) + 1 = e.applied /\ e.applied \in 1..e.applied
        OBVIOUS
    <2>3. \A i \in 1..(e.applied - 1) : i \in 1..e.applied
        OBVIOUS
    <2>4. Claims(Popped(e)) \subseteq Claims(e)
        BY <2>2, <2>3 DEF Claims, Popped
    <2> QED BY <2>1, <2>4
<1>4. e.pending => Claims(Pushed(e)) \subseteq Claims(e) /\ Within(Pushed(e))
    <2>1. e.pending => Within(Pushed(e))
        BY DEF Within, Pushed
    <2>2. \A i \in 1..(e.applied + 1) : i \in 1..e.applied \/ i = e.applied + 1
        OBVIOUS
    <2>3. e.pending => Claims(Pushed(e)) \subseteq Claims(e)
        BY <2>2 DEF Claims, Pushed
    <2> QED BY <2>1, <2>3
<1>5. /\ Claims(WithPending(e, TRUE)) \subseteq Claims(e) \cup {e.desired[e.applied + 1]}
      /\ e.applied < Len(e.desired) => Within(WithPending(e, TRUE))
    BY DEF Claims, WithPending, Within
<1>6. /\ Claims(WithState(e, "RolledBack")) = Claims(e)
      /\ Within(WithState(e, "Applied")) /\ Within(WithState(e, "RolledBack"))
    BY DEF Claims, WithState, Within
<1> QED BY <1>2, <1>3, <1>4, <1>5, <1>6

\* Which fields the updates of an entry leave alone.
LEMMA PlanKept ==
    ASSUME NEW e \in Entries
    PROVE  /\ WithPending(e, TRUE).desired = e.desired
           /\ WithPending(e, TRUE).applied = e.applied
           /\ WithPending(e, FALSE).desired = e.desired
           /\ Pushed(e).desired = e.desired /\ Pushed(e).applied = e.applied + 1
           /\ WithState(e, "Applied").desired = e.desired
           /\ WithState(e, "Applied").applied = e.applied
           /\ WithState(e, "Applied").state = "Applied"
    BY DEF WithPending, Pushed, WithState, Entry, Entries
-----------------------------------------------------------------------------
(* Every step of a caller that recovers first keeps the books exact.         *)
LEMMA ExactStep == RecoverFirst /\ IInv /\ Exact /\ [Next]_vars => Exact'
<1> SUFFICES ASSUME RecoverFirst, IInv, Exact, [Next]_vars PROVE Exact'
    OBVIOUS
<1>a. /\ table \in [Routes -> Txns \cup {Absent, Other}]
      /\ entry \in Entries
      /\ journal \in [Txns -> Entries]
      /\ result \in Results
      /\ cur \in Txns \cup {"none"}
      /\ failure \in {"none", "Err", "RouteRollbackFailed"}
    BY DEF IInv, TypeOK
<1>b. /\ EntriesWithin /\ ClaimsAreMine /\ Settled
      /\ ForwardShape /\ AppliesATxn /\ ApplyOkMeansInstalled
    BY DEF Exact
<1>c. EntryCovers /\ PendingShape /\ StaleIsLive /\ ResultShape /\ RecoverCovers
    BY DEF IInv, Covered
<1>d. /\ Claims(WithPending(entry, FALSE)) \subseteq Claims(entry)
      /\ entry.applied > 0 => Claims(Popped(entry)) \subseteq Claims(entry)
      /\ entry.pending => Claims(Pushed(entry)) \subseteq Claims(entry)
      /\ Claims(WithPending(entry, TRUE)) \subseteq Claims(entry) \cup {AddedRoute}
      /\ Claims(WithState(entry, "RolledBack")) = Claims(entry)
      /\ Claims(WithState(entry, "Applied")) = Claims(entry)
      /\ Within(WithPending(entry, FALSE))
      /\ entry.applied > 0 => Within(Popped(entry))
      /\ entry.pending => Within(Pushed(entry))
      /\ entry.applied < Len(entry.desired) => Within(WithPending(entry, TRUE))
      /\ Within(WithState(entry, "Applied")) /\ Within(WithState(entry, "RolledBack"))
    BY <1>a, <1>b, ExactUpdates, ClaimsUpdates DEF EntriesWithin, AddedRoute
<1>e. /\ Claims(entry) \subseteq PlanRoutes(entry.desired)
      /\ PlanRoutes(entry.desired) \subseteq Routes
      /\ entry.pending => AddedRoute \in Claims(entry)
      /\ entry.applied > 0 => LastApplied \in Claims(entry)
    BY <1>a, <1>b, ClaimsPlanned, PlanFacts, ClaimsUpdates
       DEF EntriesWithin, AddedRoute, LastApplied
<1>f. \A t \in Txns : /\ Claims(journal[t]) \subseteq PlanRoutes(journal[t].desired)
                      /\ PlanRoutes(journal[t].desired) \subseteq Routes
    BY <1>a, <1>b, ClaimsPlanned, PlanFacts DEF EntriesWithin
<1>g. /\ Within(NoEntry) /\ ~Live(NoEntry)
      /\ \A p \in Plans : LET e == Entry(p, 0, FALSE, "Prepared")
                          IN  /\ Within(e) /\ e \in Entries
                              /\ Claims(e) = {} /\ e.desired = p /\ e.applied = 0
    BY PlansAssumption DEF Within, NoEntry, Entry, Entries, Live, Claims
<1>h. /\ WithPending(entry, TRUE).desired = entry.desired
      /\ WithPending(entry, TRUE).applied = entry.applied
      /\ Pushed(entry).desired = entry.desired /\ Pushed(entry).applied = entry.applied + 1
      /\ WithState(entry, "Applied").desired = entry.desired
      /\ WithState(entry, "Applied").applied = entry.applied
      /\ WithState(entry, "Applied").state = "Applied"
    BY <1>a, PlanKept
<1>i. ~Live(WithState(entry, "RolledBack"))
    BY <1>a, UpdateFields
<1> USE <1>a, <1>b, <1>c, OwnersAssumption
<1>1. ASSUME NEW x \in Txns, NEW p \in Plans, ApplyKnown(x, p)
      PROVE  Exact'
    <2>1. EntriesWithin'
        BY <1>1, <1>d
           DEF ApplyKnown, MayCall, EntriesWithin
    <2>3. ClaimsAreMine'
        BY <1>1, <1>d
           DEF ApplyKnown, MayCall, ClaimsAreMine, NotAnothers, Busy, EntryCovers, Forward, ForwardShape
    <2>4. Settled'
        BY <1>1
           DEF ApplyKnown, MayCall, Settled, InForce, Busy, EntryCovers, Forward, ForwardShape
    <2>5. ForwardShape'
        BY <1>1, <1>h
           DEF ApplyKnown, MayCall, ForwardShape, Forward, PendingShape
    <2>6. ApplyOkMeansInstalled'
        <3> SUFFICES ASSUME result'.op = "apply", result'.code = "Ok"
                     PROVE  ApplyOkMeansInstalled'
            BY DEF ApplyOkMeansInstalled
        <3>1. /\ result'.txn = x /\ journal[x].state = "Applied"
              /\ pc = "idle" /\ recovered /\ UNCHANGED <<table, journal>>
            BY <1>1 DEF ApplyKnown, MayCall, Result
        <3>2. InForce(journal[x], x)
            BY <3>1 DEF Settled, Busy, Live
        <3> QED BY <3>1, <3>2, <1>f DEF InForce, Owned, ApplyOkMeansInstalled
    <2>7. AppliesATxn'
        BY <1>1
           DEF ApplyKnown, MayCall, AppliesATxn, ResultShape, NoResult, Result, EntryCovers, Busy, StaleIsLive
    <2> QED BY <2>1, <2>3, <2>4, <2>5, <2>6, <2>7 DEF Exact
<1>2. ASSUME NEW x \in Txns, NEW p \in Plans, ApplyConflict(x, p)
      PROVE  Exact'
    BY <1>2
       DEF ApplyConflict, MayCall, Result, Exact, EntriesWithin, ClaimsAreMine, NotAnothers, Settled,
           InForce, ForwardShape, Forward, AppliesATxn, ApplyOkMeansInstalled, Owned, Busy, EntryCovers,
           PendingShape, StaleIsLive, ResultShape
<1>3. ASSUME NEW x \in Txns, NEW p \in Plans, ApplyBegin(x, p)
      PROVE  Exact'
    <2>1. EntriesWithin'
        BY <1>3, <1>g
           DEF ApplyBegin, MayCall, EntriesWithin
    <2>3. ClaimsAreMine'
        BY <1>3, <1>g DEF ApplyBegin, MayCall, ClaimsAreMine, NotAnothers, Busy
    <2>4. Settled'
        BY <1>3
           DEF ApplyBegin, MayCall, Settled, InForce, Busy, EntryCovers, Forward, ForwardShape
    <2>5. ForwardShape'
        <3>1. /\ entry'.desired = p /\ entry'.applied = 0 /\ entry' \in Entries
              /\ cur' = x /\ journal[x] = NoEntry /\ pc = "idle" /\ recovered
              /\ UNCHANGED <<table, journal>> /\ ~Conflicting(p)
            BY <1>3, <1>g DEF ApplyBegin, MayCall
        <3>2. \A r \in PlanRoutes(p) : r \in Routes /\ table[r] = Absent
            BY <3>1, PlanFacts DEF Conflicting, Present
        <3>3. Len(p) \in Nat /\ \A i \in 1..Len(p) : p[i] \in PlanRoutes(p)
            BY <3>1, PlanFacts
        <3>4. \A i \in 1..Len(p) : ~(i <= 0) /\ table[p[i]] = Absent
            BY <3>2, <3>3
        <3>5. ASSUME NEW t \in Txns, Live(journal[t])
              PROVE  Claims(journal[t]) \cap PlanRoutes(p) = {}
            <4>1. \A r \in Claims(journal[t]) : table[r] = t
                BY <3>1, <3>5, <1>f DEF Settled, InForce, Busy
            <4> QED BY <4>1, <3>2
        <3> QED BY <3>1, <3>4, <3>5 DEF ForwardShape
    <2>6. ApplyOkMeansInstalled'
        BY <1>3
           DEF ApplyBegin, MayCall, ApplyOkMeansInstalled, Owned, ResultShape, NoResult, Result, PlanRoutes
    <2>7. AppliesATxn'
        BY <1>3
           DEF ApplyBegin, MayCall, AppliesATxn, ResultShape, NoResult, Result, EntryCovers, Busy, StaleIsLive
    <2> QED BY <2>1, <2>3, <2>4, <2>5, <2>6, <2>7 DEF Exact
<1>4. ASSUME NEW x \in Txns, RollbackNothing(x)
      PROVE  Exact'
    BY <1>4
       DEF RollbackNothing, MayCall, Result, Exact, EntriesWithin, ClaimsAreMine, NotAnothers, Settled,
           InForce, ForwardShape, Forward, AppliesATxn, ApplyOkMeansInstalled, Owned, Busy, EntryCovers,
           PendingShape, StaleIsLive, ResultShape
<1>5. ASSUME NEW x \in Txns, RollbackBegin(x)
      PROVE  Exact'
    BY <1>5
       DEF RollbackBegin, MayCall, RollbackStart, NoResult, Result, Exact, EntriesWithin, ClaimsAreMine, NotAnothers, Settled,
           InForce, ForwardShape, Forward, AppliesATxn, ApplyOkMeansInstalled, Owned, Busy, EntryCovers,
           PendingShape, StaleIsLive, ResultShape
<1>6. ASSUME NEW x \in Txns, RecoverNext(x)
      PROVE  Exact'
    BY <1>6
       DEF RecoverNext, Goto, RollbackStart, Exact, EntriesWithin, ClaimsAreMine, NotAnothers, Settled,
           InForce, ForwardShape, Forward, AppliesATxn, ApplyOkMeansInstalled, Owned, Busy, EntryCovers,
           PendingShape, StaleIsLive, ResultShape
<1>7. CASE RecoverBegin
    BY <1>7
       DEF RecoverBegin, NoResult, Result, Exact, EntriesWithin, ClaimsAreMine, NotAnothers, Settled,
           InForce, ForwardShape, Forward, AppliesATxn, ApplyOkMeansInstalled, Owned, Busy, EntryCovers,
           PendingShape, StaleIsLive, ResultShape
<1>8. ASSUME NEW o \in {"apply", "rollback", "recover"},
             NEW x \in Txns \cup {"none"}, ReadFails(o, x)
      PROVE  Exact'
    BY <1>8
       DEF ReadFails, MayCall, Result, Exact, EntriesWithin, ClaimsAreMine, NotAnothers, Settled,
           InForce, ForwardShape, Forward, AppliesATxn, ApplyOkMeansInstalled, Owned, Busy, EntryCovers,
           PendingShape, StaleIsLive, ResultShape
<1>9. CASE SavePrepared
    <2>1. EntriesWithin'
        BY <1>9, <1>d
           DEF SavePrepared, SaveOk, SaveFails, Goto, Return, EntriesWithin
    <2>3. ClaimsAreMine'
        BY <1>9, <1>d
           DEF SavePrepared, SaveOk, SaveFails, Goto, Return, ClaimsAreMine, NotAnothers, Busy, EntryCovers, Forward, ForwardShape
    <2>4. Settled'
        BY <1>9, <1>g
           DEF SavePrepared, SaveOk, SaveFails, Goto, Return, Settled, InForce, Busy, EntryCovers, Forward, ForwardShape
    <2>5. ForwardShape'
        BY <1>9, <1>h
           DEF SavePrepared, SaveOk, SaveFails, Goto, Return, ForwardShape, Forward, PendingShape
    <2>6. ApplyOkMeansInstalled'
        BY <1>9
           DEF SavePrepared, SaveOk, SaveFails, Goto, Return, ApplyOkMeansInstalled, Owned, ResultShape, NoResult, Result, PlanRoutes
    <2>7. AppliesATxn'
        BY <1>9
           DEF SavePrepared, SaveOk, SaveFails, Goto, Return, AppliesATxn, ResultShape, NoResult, Result, EntryCovers, Busy, StaleIsLive
    <2> QED BY <2>1, <2>3, <2>4, <2>5, <2>6, <2>7 DEF Exact
<1>10. CASE SavePending
    <2>1. EntriesWithin'
        BY <1>10, <1>d
           DEF SavePending, FailApply, SaveFails, Goto, EntriesWithin
    <2>3. ClaimsAreMine'
        <3>1. entry.applied \in Nat /\ Len(entry.desired) \in Nat
            BY EntryTypes, PlanFacts
        <3>2. entry.applied < Len(entry.desired)
            BY <1>10 DEF SavePending
        <3>3. entry.applied + 1 \in 1..Len(entry.desired) /\ ~(entry.applied + 1 <= entry.applied)
            BY <3>1, <3>2
        <3>4. table[AddedRoute] \in {Absent, Other}
            BY <1>10, <3>3 DEF SavePending, ForwardShape, Forward, AddedRoute
        <3>5. NotAnothers(entry, cur) /\ NotAnothers(WithPending(entry, TRUE), cur)
            BY <1>10, <1>d, <3>4 DEF SavePending, ClaimsAreMine, NotAnothers, Busy
        <3>6. /\ UNCHANGED <<cur, table>> /\ cur \in Txns
              /\ entry' \in {entry, WithPending(entry, TRUE)}
              /\ \A t \in Txns : journal'[t] = journal[t] \/ (t = cur /\ journal'[t] = entry')
            BY <1>10 DEF SavePending, FailApply, SaveFails, Goto, Busy, EntryCovers
        <3> QED BY <3>5, <3>6 DEF ClaimsAreMine, NotAnothers
    <2>4. Settled'
        <3>1. /\ Busy /\ Busy' /\ UNCHANGED <<cur, table, recovered>> /\ cur \in Txns
              /\ \A t \in Txns : t # cur => journal'[t] = journal[t]
            BY <1>10 DEF SavePending, FailApply, SaveFails, Goto, Busy, EntryCovers
        <3> QED BY <3>1 DEF Settled, InForce
    <2>5. ForwardShape'
        BY <1>10, <1>h
           DEF SavePending, FailApply, SaveFails, Goto, ForwardShape, Forward, PendingShape
    <2>6. ApplyOkMeansInstalled'
        <3>1. result' = NoResult
            BY <1>10 DEF SavePending, FailApply, Goto, ResultShape
        <3> QED BY <3>1 DEF ApplyOkMeansInstalled, NoResult, Result
    <2>7. AppliesATxn'
        BY <1>10
           DEF SavePending, FailApply, SaveFails, Goto, AppliesATxn, ResultShape, NoResult, Result, EntryCovers, Busy, StaleIsLive
    <2> QED BY <2>1, <2>3, <2>4, <2>5, <2>6, <2>7 DEF Exact
<1>11. CASE AddRoute
    <2>1. /\ entry.pending /\ cur \in Txns /\ UNCHANGED <<journal, cur, recovered, result>>
          /\ AddedRoute = entry.desired[entry.applied + 1]
          /\ AddedRoute \in Routes /\ result = NoResult /\ Busy /\ Busy'
        BY <1>11, <1>e DEF AddRoute, Goto, PendingShape, EntryCovers, Busy, AddedRoute, ResultShape
    <2>2. AppliesATxn' /\ ApplyOkMeansInstalled'
        BY <2>1 DEF AppliesATxn, ApplyOkMeansInstalled, NoResult, Result
    <2>3. entry' \in {Pushed(entry), WithPending(entry, FALSE)}
        BY <1>11 DEF AddRoute
    <2>4. EntriesWithin'
        BY <2>1, <2>3, <1>d DEF EntriesWithin
    <2>5. CASE /\ table[AddedRoute] = Absent /\ table' = [table EXCEPT ![AddedRoute] = cur]
               /\ entry' = Pushed(entry) /\ pc' = "saveAdded"
        <3>2. \A t \in Txns : Live(journal[t]) /\ t # cur => AddedRoute \notin Claims(journal[t])
            BY <1>11, <2>1, <1>e DEF AddRoute, ForwardShape, Forward
        <3>3. ClaimsAreMine'
            BY <2>1, <2>5, <3>2, <1>d, <1>e, <1>f DEF ClaimsAreMine, NotAnothers
        <3>4. Settled'
            BY <2>1, <2>5, <1>f DEF Settled, InForce, Absent, Other
        <3>5. ForwardShape'
            <4>1. /\ entry.applied \in Nat /\ Len(entry.desired) \in Nat
                  /\ entry.applied + 1 \in 1..Len(entry.desired)
                <5>1. /\ entry.applied \in Nat /\ Len(entry.desired) \in Nat
                      /\ entry.applied < Len(entry.desired)
                    BY <2>1, EntryTypes, PlanFacts DEF EntriesWithin, Within
                <5> QED BY <5>1
            <4>2. ASSUME NEW i \in 1..Len(entry.desired)
                  PROVE  table'[entry.desired[i]] \in
                           IF i <= entry.applied + 1 THEN {cur} ELSE {Absent, Other}
                <5>1. entry.desired[i] \in Routes
                    BY PlanFacts
                <5>2. CASE i = entry.applied + 1
                    BY <2>1, <2>5, <4>1, <5>2
                <5>3. CASE i # entry.applied + 1
                    <6>1. entry.desired[i] # AddedRoute
                        BY <2>1, <4>1, <5>3, PlanFacts
                    <6>2. table'[entry.desired[i]] = table[entry.desired[i]]
                        BY <2>5, <5>1, <6>1
                    <6>3. table[entry.desired[i]] \in
                            IF i <= entry.applied THEN {cur} ELSE {Absent, Other}
                        BY <1>11 DEF AddRoute, ForwardShape, Forward
                    <6>4. i <= entry.applied <=> i <= entry.applied + 1
                        BY <4>1, <5>3
                    <6> QED BY <6>2, <6>3, <6>4
                <5> QED BY <5>2, <5>3
            <4>3. \A t \in Txns : Live(journal[t]) /\ t # cur =>
                     Claims(journal[t]) \cap PlanRoutes(entry.desired) = {}
                BY <1>11 DEF AddRoute, ForwardShape, Forward
            <4>4. /\ entry'.desired = entry.desired /\ entry'.applied = entry.applied + 1
                  /\ pc' = "saveAdded" /\ UNCHANGED <<cur, journal>>
                BY <2>1, <2>5, <1>h
            <4> QED BY <4>2, <4>3, <4>4 DEF ForwardShape
        <3> QED BY <2>2, <2>4, <3>3, <3>4, <3>5 DEF Exact
    <2>6. CASE UNCHANGED table /\ entry' = WithPending(entry, FALSE) /\ pc' = "saveNotAdded"
        <3>1. ForwardShape'
            BY <2>6 DEF ForwardShape, Forward
        <3>2. ClaimsAreMine'
            BY <2>1, <2>6, <1>d DEF ClaimsAreMine, NotAnothers
        <3>3. Settled'
            BY <2>1, <2>6 DEF Settled, InForce
        <3> QED BY <2>2, <2>4, <3>1, <3>2, <3>3 DEF Exact
    <2> QED BY <1>11, <2>5, <2>6 DEF AddRoute, Goto
<1>12. CASE SaveNotAdded
    <2>1. EntriesWithin'
        BY <1>12, <1>d
           DEF SaveNotAdded, FailApply, SaveOk, SaveFails, Goto, EntriesWithin
    <2>3. ClaimsAreMine'
        BY <1>12, <1>d
           DEF SaveNotAdded, FailApply, SaveOk, SaveFails, Goto, ClaimsAreMine, NotAnothers, Busy, EntryCovers, Forward, ForwardShape
    <2>4. Settled'
        BY <1>12
           DEF SaveNotAdded, FailApply, SaveOk, SaveFails, Goto, Settled, InForce, Busy, EntryCovers, Forward, ForwardShape
    <2>5. ForwardShape'
        BY <1>12, <1>h
           DEF SaveNotAdded, FailApply, SaveOk, SaveFails, Goto, ForwardShape, Forward, PendingShape
    <2>6. ApplyOkMeansInstalled'
        BY <1>12
           DEF SaveNotAdded, FailApply, SaveOk, SaveFails, Goto, ApplyOkMeansInstalled, Owned, ResultShape, NoResult, Result, PlanRoutes
    <2>7. AppliesATxn'
        BY <1>12
           DEF SaveNotAdded, FailApply, SaveOk, SaveFails, Goto, AppliesATxn, ResultShape, NoResult, Result, EntryCovers, Busy, StaleIsLive
    <2> QED BY <2>1, <2>3, <2>4, <2>5, <2>6, <2>7 DEF Exact
<1>13. CASE SaveAdded
    <2>1. EntriesWithin'
        BY <1>13, <1>d
           DEF SaveAdded, FailApply, SaveOk, SaveFails, Goto, EntriesWithin
    <2>3. ClaimsAreMine'
        BY <1>13, <1>d
           DEF SaveAdded, FailApply, SaveOk, SaveFails, Goto, ClaimsAreMine, NotAnothers, Busy, EntryCovers, Forward, ForwardShape
    <2>4. Settled'
        BY <1>13
           DEF SaveAdded, FailApply, SaveOk, SaveFails, Goto, Settled, InForce, Busy, EntryCovers, Forward, ForwardShape
    <2>5. ForwardShape'
        BY <1>13, <1>h
           DEF SaveAdded, FailApply, SaveOk, SaveFails, Goto, ForwardShape, Forward, PendingShape
    <2>6. ApplyOkMeansInstalled'
        BY <1>13
           DEF SaveAdded, FailApply, SaveOk, SaveFails, Goto, ApplyOkMeansInstalled, Owned, ResultShape, NoResult, Result, PlanRoutes
    <2>7. AppliesATxn'
        BY <1>13
           DEF SaveAdded, FailApply, SaveOk, SaveFails, Goto, AppliesATxn, ResultShape, NoResult, Result, EntryCovers, Busy, StaleIsLive
    <2> QED BY <2>1, <2>3, <2>4, <2>5, <2>6, <2>7 DEF Exact
<1>14. CASE SaveApplied
    <2>1. EntriesWithin'
        BY <1>14, <1>d
           DEF SaveApplied, FailApply, SaveFails, Goto, Return, EntriesWithin
    <2>3. ClaimsAreMine'
        BY <1>14, <1>d
           DEF SaveApplied, FailApply, SaveFails, Goto, Return, ClaimsAreMine, NotAnothers, Busy, EntryCovers, Forward, ForwardShape
    <2>4. Settled'
        <3>1. entry.applied = Len(entry.desired) /\ ~entry.pending /\ pc = "nextRoute"
            BY <1>14 DEF SaveApplied, PendingShape
        <3>2. \A r \in PlanRoutes(entry.desired) : table[r] = cur
            <4>1. Len(entry.desired) \in Nat
                BY PlanFacts
            <4> QED BY <3>1, <4>1 DEF ForwardShape, Forward, PlanRoutes
        <3>3. InForce(WithState(entry, "Applied"), cur)
            BY <3>1, <3>2, <1>h, UpdateFields DEF InForce
        <3> QED BY <1>14, <3>3
            DEF SaveApplied, FailApply, SaveFails, Goto, Return, Settled, InForce, Busy, EntryCovers
    <2>5. ForwardShape'
        BY <1>14, <1>h
           DEF SaveApplied, FailApply, SaveFails, Goto, Return, ForwardShape, Forward, PendingShape
    <2>6. ApplyOkMeansInstalled'
        <3>1. /\ pc = "nextRoute" /\ entry.applied = Len(entry.desired) /\ UNCHANGED table
              /\ \/ result' = NoResult
                 \/ /\ result' = Result(op, cur, "Ok")
                    /\ journal' = [journal EXCEPT ![cur] = WithState(entry, "Applied")]
            BY <1>14 DEF SaveApplied, FailApply, Goto, Return, ResultShape
        <3>2. \A r \in PlanRoutes(entry.desired) : table[r] = cur
            <4>1. Len(entry.desired) \in Nat
                BY PlanFacts
            <4> QED BY <3>1, <4>1 DEF ForwardShape, Forward, PlanRoutes
        <3>3. cur \in Txns
            BY <3>1 DEF EntryCovers, Busy
        <3>4. CASE result' = NoResult
            BY <3>4 DEF ApplyOkMeansInstalled, NoResult, Result
        <3>5. CASE /\ result' = Result(op, cur, "Ok")
                   /\ journal' = [journal EXCEPT ![cur] = WithState(entry, "Applied")]
            <4>1. result'.txn = cur /\ journal'[cur].desired = entry.desired
                BY <3>3, <3>5, <1>h DEF Result
            <4> QED BY <3>1, <3>2, <4>1, <1>e DEF ApplyOkMeansInstalled, Owned
        <3> QED BY <3>1, <3>4, <3>5
    <2>7. AppliesATxn'
        BY <1>14
           DEF SaveApplied, FailApply, SaveFails, Goto, Return, AppliesATxn, ResultShape, NoResult, Result, EntryCovers, Busy, StaleIsLive
    <2> QED BY <2>1, <2>3, <2>4, <2>5, <2>6, <2>7 DEF Exact
<1>15. CASE RecoverDone
    <2>1. EntriesWithin'
        BY <1>15, <1>d
           DEF RecoverDone, Return, RecoverCovers, EntriesWithin
    <2>3. ClaimsAreMine'
        BY <1>15, <1>d
           DEF RecoverDone, Return, RecoverCovers, ClaimsAreMine, NotAnothers, Busy, EntryCovers, Forward, ForwardShape
    <2>4. Settled'
        <3>1. \A t \in Txns : ~Live(journal[t])
            BY <1>15 DEF RecoverDone, RecoverCovers, StaleIsLive, Busy
        <3> QED BY <1>15, <3>1 DEF RecoverDone, Settled
    <2>5. ForwardShape'
        BY <1>15, <1>h
           DEF RecoverDone, Return, RecoverCovers, ForwardShape, Forward, PendingShape
    <2>6. ApplyOkMeansInstalled'
        BY <1>15 DEF RecoverDone, Return, Result, StaleIsLive, ApplyOkMeansInstalled
    <2>7. AppliesATxn'
        BY <1>15
           DEF RecoverDone, Return, RecoverCovers, AppliesATxn, ResultShape, NoResult, Result, EntryCovers, Busy, StaleIsLive
    <2> QED BY <2>1, <2>3, <2>4, <2>5, <2>6, <2>7 DEF Exact
<1>16. CASE RemovePending
    <2>1. EntriesWithin'
        BY <1>16, <1>d
           DEF RemovePending, Remove, RemoveFails, Leaves, RollbackFails, Goto, Return, EntriesWithin
    <2>3. ClaimsAreMine'
        BY <1>16, <1>d, <1>e, <1>f
           DEF RemovePending, Remove, RemoveFails, Leaves, RollbackFails, Goto, Return, ClaimsAreMine, NotAnothers, Busy, EntryCovers, Forward, ForwardShape
    <2>4. Settled'
        <3>1. table[AddedRoute] \in {cur, Absent, Other}
            BY <1>16, <1>e DEF RemovePending, PendingShape, ClaimsAreMine, NotAnothers, Busy
        <3>2. \A t \in Txns, z \in Routes : t # cur /\ table[z] = t => table'[z] = t
            BY <1>16, <3>1, OwnersAssumption DEF RemovePending, Remove, RemoveFails, TypeOK
        <3>3. /\ Busy /\ cur \in Txns /\ UNCHANGED <<cur, journal>>
              /\ \/ Busy' /\ UNCHANGED recovered
                 \/ recovered' = FALSE
            BY <1>16 DEF RemovePending, RollbackFails, Goto, EntryCovers, Busy
        <3> QED BY <3>2, <3>3, <1>f DEF Settled, InForce
    <2>5. ForwardShape'
        BY <1>16, <1>h
           DEF RemovePending, Remove, RemoveFails, Leaves, RollbackFails, Goto, Return, ForwardShape, Forward, PendingShape
    <2>6. ApplyOkMeansInstalled'
        <3>1. result' = NoResult \/ result' = Result(op, cur, "RouteRollbackFailed")
            BY <1>16 DEF RemovePending, RollbackFails, Goto, Return, ResultShape
        <3> QED BY <3>1 DEF ApplyOkMeansInstalled, NoResult, Result
    <2>7. AppliesATxn'
        <3>1. /\ result' = NoResult \/ result' = Result(op, cur, "RouteRollbackFailed")
              /\ cur \in Txns
            BY <1>16 DEF RemovePending, RollbackFails, Goto, Return, ResultShape, EntryCovers, Busy
        <3> QED BY <3>1 DEF AppliesATxn, NoResult, Result
    <2> QED BY <2>1, <2>3, <2>4, <2>5, <2>6, <2>7 DEF Exact
<1>17. CASE RemoveLast
    <2>1. EntriesWithin'
        BY <1>17, <1>d
           DEF RemoveLast, Remove, RemoveFails, Leaves, RollbackFails, Goto, Return, EntriesWithin
    <2>3. ClaimsAreMine'
        BY <1>17, <1>d, <1>e, <1>f
           DEF RemoveLast, Remove, RemoveFails, Leaves, RollbackFails, Goto, Return, ClaimsAreMine, NotAnothers, Busy, EntryCovers, Forward, ForwardShape
    <2>4. Settled'
        <3>1. table[LastApplied] \in {cur, Absent, Other}
            BY <1>17, <1>e DEF RemoveLast, PendingShape, ClaimsAreMine, NotAnothers, Busy
        <3>2. \A t \in Txns, z \in Routes : t # cur /\ table[z] = t => table'[z] = t
            BY <1>17, <3>1, OwnersAssumption DEF RemoveLast, Remove, RemoveFails, TypeOK
        <3>3. /\ Busy /\ cur \in Txns /\ UNCHANGED <<cur, journal>>
              /\ \/ Busy' /\ UNCHANGED recovered
                 \/ recovered' = FALSE
            BY <1>17 DEF RemoveLast, RollbackFails, Goto, EntryCovers, Busy
        <3> QED BY <3>2, <3>3, <1>f DEF Settled, InForce
    <2>5. ForwardShape'
        BY <1>17, <1>h
           DEF RemoveLast, Remove, RemoveFails, Leaves, RollbackFails, Goto, Return, ForwardShape, Forward, PendingShape
    <2>6. ApplyOkMeansInstalled'
        <3>1. result' = NoResult \/ result' = Result(op, cur, "RouteRollbackFailed")
            BY <1>17 DEF RemoveLast, RollbackFails, Goto, Return, ResultShape
        <3> QED BY <3>1 DEF ApplyOkMeansInstalled, NoResult, Result
    <2>7. AppliesATxn'
        <3>1. /\ result' = NoResult \/ result' = Result(op, cur, "RouteRollbackFailed")
              /\ cur \in Txns
            BY <1>17 DEF RemoveLast, RollbackFails, Goto, Return, ResultShape, EntryCovers, Busy
        <3> QED BY <3>1 DEF AppliesATxn, NoResult, Result
    <2> QED BY <2>1, <2>3, <2>4, <2>5, <2>6, <2>7 DEF Exact
<1>18. CASE SaveRemoved
    <2>1. EntriesWithin'
        BY <1>18, <1>d
           DEF SaveRemoved, SaveOk, SaveFails, RollbackFails, Goto, Return, EntriesWithin
    <2>3. ClaimsAreMine'
        BY <1>18, <1>d
           DEF SaveRemoved, SaveOk, SaveFails, RollbackFails, Goto, Return, ClaimsAreMine, NotAnothers, Busy, EntryCovers, Forward, ForwardShape
    <2>4. Settled'
        <3>1. /\ Busy /\ UNCHANGED <<cur, table>> /\ cur \in Txns
              /\ \A t \in Txns : t # cur => journal'[t] = journal[t]
            BY <1>18 DEF SaveRemoved, SaveOk, SaveFails, RollbackFails, Goto, Busy, EntryCovers
        <3>2. \/ recovered' = FALSE
              \/ /\ recovered' => recovered
                 /\ Busy' \/ ~Live(journal'[cur])
            BY <1>18, <1>i DEF SaveRemoved, SaveOk, SaveFails, RollbackFails, Goto, Busy, EntryCovers
        <3> QED BY <3>1, <3>2 DEF Settled, InForce
    <2>5. ForwardShape'
        BY <1>18, <1>h
           DEF SaveRemoved, SaveOk, SaveFails, RollbackFails, Goto, Return, ForwardShape, Forward, PendingShape
    <2>6. ApplyOkMeansInstalled'
        BY <1>18
           DEF SaveRemoved, SaveOk, SaveFails, RollbackFails, Goto, Return, ApplyOkMeansInstalled, Owned, ResultShape, NoResult, Result, PlanRoutes
    <2>7. AppliesATxn'
        BY <1>18
           DEF SaveRemoved, SaveOk, SaveFails, RollbackFails, Goto, Return, AppliesATxn, ResultShape, NoResult, Result, EntryCovers, Busy, StaleIsLive
    <2> QED BY <2>1, <2>3, <2>4, <2>5, <2>6, <2>7 DEF Exact
<1>19. CASE SaveRolledBack
    <2>1. EntriesWithin'
        BY <1>19, <1>d
           DEF SaveRolledBack, SaveFails, RollbackFails, Goto, Return, EntriesWithin
    <2>3. ClaimsAreMine'
        BY <1>19, <1>d
           DEF SaveRolledBack, SaveFails, RollbackFails, Goto, Return, ClaimsAreMine, NotAnothers, Busy, EntryCovers, Forward, ForwardShape
    <2>4. Settled'
        <3>1. /\ Busy /\ UNCHANGED <<cur, table>> /\ cur \in Txns
              /\ \A t \in Txns : t # cur => journal'[t] = journal[t]
            BY <1>19 DEF SaveRolledBack, SaveFails, RollbackFails, Goto, Return, Busy, EntryCovers
        <3>2. \/ recovered' = FALSE
              \/ /\ recovered' => recovered
                 /\ Busy' \/ ~Live(journal'[cur])
            BY <1>19, <1>i DEF SaveRolledBack, SaveFails, RollbackFails, Goto, Return, Busy, EntryCovers
        <3> QED BY <3>1, <3>2 DEF Settled, InForce
    <2>5. ForwardShape'
        BY <1>19, <1>h
           DEF SaveRolledBack, SaveFails, RollbackFails, Goto, Return, ForwardShape, Forward, PendingShape
    <2>6. ApplyOkMeansInstalled'
        BY <1>19 DEF SaveRolledBack, RollbackFails, Goto, Return, ApplyOkMeansInstalled, ResultShape,
                     NoResult, Result
    <2>7. AppliesATxn'
        BY <1>19
           DEF SaveRolledBack, SaveFails, RollbackFails, Goto, Return, AppliesATxn, ResultShape, NoResult, Result, EntryCovers, Busy, StaleIsLive
    <2> QED BY <2>1, <2>3, <2>4, <2>5, <2>6, <2>7 DEF Exact
<1>20. CASE Crash
    <2>1. EntriesWithin'
        BY <1>20, <1>g
           DEF Crash, EntriesWithin
    <2>3. ClaimsAreMine'
        BY <1>20, <1>d
           DEF Crash, ClaimsAreMine, NotAnothers, Busy, EntryCovers, Forward, ForwardShape
    <2>4. Settled'
        BY <1>20
           DEF Crash, Settled, InForce, Busy, EntryCovers, Forward, ForwardShape
    <2>5. ForwardShape'
        BY <1>20, <1>h
           DEF Crash, ForwardShape, Forward, PendingShape
    <2>6. ApplyOkMeansInstalled'
        BY <1>20
           DEF Crash, ApplyOkMeansInstalled, Owned, ResultShape, NoResult, Result, PlanRoutes
    <2>7. AppliesATxn'
        BY <1>20
           DEF Crash, AppliesATxn, ResultShape, NoResult, Result, EntryCovers, Busy, StaleIsLive
    <2> QED BY <2>1, <2>3, <2>4, <2>5, <2>6, <2>7 DEF Exact
<1>21. CASE Restart
    BY <1>21
       DEF Restart, Exact, EntriesWithin, ClaimsAreMine, NotAnothers, Settled,
           InForce, ForwardShape, Forward, AppliesATxn, ApplyOkMeansInstalled, Owned, Busy, EntryCovers,
           PendingShape, StaleIsLive, ResultShape
<1>22. ASSUME NEW f \in Foreign, ForeignChange(f)
      PROVE  Exact'
    <2>a. /\ UNCHANGED <<pc, entry, journal, cur, recovered, result>>
          /\ \A r \in Routes, t \in Txns : table[r] = t => table'[r] = t
          /\ \A r \in Routes : table[r] \in {Absent, Other} => table'[r] \in {Absent, Other}
        BY <1>22, OwnersAssumption DEF ForeignChange, TypeOK
    <2>1. EntriesWithin'
        BY <2>a DEF EntriesWithin
    <2>3. ClaimsAreMine'
        <3>1. \A e \in Entries, t \in Txns :
                 NotAnothers(e, t) /\ Claims(e) \subseteq Routes => NotAnothers(e, t)'
            BY <2>a DEF NotAnothers
        <3>2. Busy => cur \in Txns
            BY DEF EntryCovers
        <3> QED BY <2>a, <3>1, <3>2, <1>e, <1>f DEF ClaimsAreMine, Busy, TypeOK
    <2>4. Settled'
        <3>1. \A t \in Txns : InForce(journal[t], t) => InForce(journal[t], t)'
            BY <2>a, <1>f DEF InForce
        <3> QED BY <2>a, <3>1 DEF Settled, Busy
    <2>5. ForwardShape'
        <3>1. \A i \in 1..Len(entry.desired) : entry.desired[i] \in Routes
            BY PlanFacts
        <3>2. pc \in Forward => cur \in Txns
            BY DEF Forward, EntryCovers, Busy
        <3> QED BY <2>a, OwnersAssumption, <3>1, <3>2 DEF ForwardShape
    <2>6. ApplyOkMeansInstalled'
        <3>1. result.op = "apply" /\ result.code = "Ok" => result.txn \in Txns
            BY DEF AppliesATxn
        <3> QED BY <2>a, OwnersAssumption, <3>1, <1>f DEF ApplyOkMeansInstalled, Owned
    <2>7. AppliesATxn'
        BY <2>a DEF AppliesATxn
    <2> QED BY <2>1, <2>3, <2>4, <2>5, <2>6, <2>7 DEF Exact
<1>23. CASE UNCHANGED vars
    BY <1>23
       DEF vars, Exact, EntriesWithin, ClaimsAreMine, NotAnothers, Settled,
           InForce, ForwardShape, Forward, AppliesATxn, ApplyOkMeansInstalled, Owned, Busy, EntryCovers,
           PendingShape, StaleIsLive, ResultShape
<1> QED
    BY <1>1, <1>2, <1>3, <1>4, <1>5, <1>6, <1>7, <1>8, <1>9, <1>10, <1>11, <1>12, <1>13, <1>14, <1>15, <1>16, <1>17, <1>18, <1>19, <1>20, <1>21, <1>22, <1>23, NextCases
-----------------------------------------------------------------------------
LEMMA ExactInit == Init => Exact
<1> SUFFICES ASSUME Init PROVE Exact
    OBVIOUS
<1>1. Within(NoEntry) /\ ~Live(NoEntry)
    BY DEF Within, NoEntry, Entry, Live
<1> QED
    BY <1>1 DEF Init, Exact, EntriesWithin, ClaimsAreMine, Busy, Settled,
       ForwardShape, Forward, AppliesATxn, ApplyOkMeansInstalled, NoResult, Result

\* What stood in the table when apply looked is in none of its plan's routes.
Spared ==
    /\ Busy => stood[cur] \cap PlanRoutes(entry.desired) = {}
    /\ \A t \in Txns : stood[t] \cap PlanRoutes(journal[t].desired) = {}

LEMMA SparedInit == Init => Spared
    BY DEF Init, Spared, Busy, NoEntry, Entry

\* apply refuses a plan that meets the table it has listed, and no step gives an
\* entry another plan.
LEMMA SparedStep == IInv /\ Spared /\ [Next]_vars => Spared'
<1> SUFFICES ASSUME IInv, Spared, [Next]_vars PROVE Spared'
    OBVIOUS
<1>a. /\ entry \in Entries /\ journal \in [Txns -> Entries] /\ EntryCovers
      /\ stood \in [Txns -> SUBSET Routes] /\ stale \subseteq Txns
    BY DEF IInv, TypeOK, Covered
<1>b. /\ WithPending(entry, TRUE).desired = entry.desired
      /\ WithPending(entry, FALSE).desired = entry.desired
      /\ Pushed(entry).desired = entry.desired /\ Popped(entry).desired = entry.desired
      /\ WithState(entry, "Applied").desired = entry.desired
      /\ WithState(entry, "RolledBack").desired = entry.desired
    BY DEF WithPending, Pushed, Popped, WithState, Entry
<1> DEFINE Kept ==
        /\ \A t \in Txns : stood'[t] \subseteq stood[t]
        /\ Busy' => /\ cur' \in Txns
                    /\ \/ Busy /\ cur' = cur /\ entry'.desired = entry.desired
                       \/ entry' = journal[cur']
        /\ \A t \in Txns : \/ journal'[t] = journal[t]
                           \/ Busy /\ t = cur /\ journal'[t].desired = entry.desired
<1>1. ASSUME Kept PROVE Spared'
    BY <1>1, <1>a DEF Spared, EntryCovers
<1>2. ASSUME NEW x \in Txns, NEW p \in Plans, ApplyBegin(x, p) PROVE Spared'
    <2>1. /\ stood' = [stood EXCEPT ![x] = Present] /\ ~Conflicting(p) /\ journal[x] = NoEntry
          /\ entry'.desired = p /\ cur' = x /\ UNCHANGED journal
        BY <1>2 DEF ApplyBegin, Entry
    <2>2. Present \cap PlanRoutes(p) = {}
        BY <2>1, OverlapsAssumption DEF Conflicting
    <2>3. PlanRoutes(NoEntry.desired) = {}
        BY DEF NoEntry, Entry, PlanRoutes
    <2> QED BY <2>1, <2>2, <2>3, <1>a DEF Spared
<1> USE <1>a, <1>b DEF EntryCovers, Busy
<1>3. CASE \E x \in Txns, p \in Plans : ApplyKnown(x, p) \/ ApplyConflict(x, p)
    BY <1>1, <1>3 DEF ApplyKnown, ApplyConflict, MayCall
<1>4. CASE \E x \in Txns : RollbackNothing(x) \/ RollbackBegin(x) \/ RecoverNext(x)
    BY <1>1, <1>4 DEF RollbackNothing, RollbackBegin, RecoverNext, MayCall
<1>5. CASE RecoverBegin \/ RecoverDone \/ Crash \/ Restart
    BY <1>1, <1>5 DEF RecoverBegin, RecoverDone, Crash, Restart, Return
<1>6. CASE \E o \in {"apply", "rollback", "recover"}, x \in Txns \cup {"none"} : ReadFails(o, x)
    BY <1>1, <1>6 DEF ReadFails, MayCall
<1>7. CASE SavePrepared \/ SavePending \/ SaveApplied
    BY <1>1, <1>7
       DEF SavePrepared, SavePending, SaveApplied, FailApply, SaveOk, SaveFails, Goto, Return
<1>8. CASE AddRoute \/ SaveNotAdded \/ SaveAdded
    BY <1>1, <1>8 DEF AddRoute, SaveNotAdded, SaveAdded, FailApply, SaveOk, SaveFails, Goto
<1>9. CASE RemovePending \/ RemoveLast
    BY <1>1, <1>9 DEF RemovePending, RemoveLast, Remove, RemoveFails, Leaves, RollbackFails, Goto, Return
<1>10. CASE SaveRemoved \/ SaveRolledBack
    BY <1>1, <1>10 DEF SaveRemoved, SaveRolledBack, SaveOk, SaveFails, RollbackFails, Goto, Return
<1>11. CASE \E f \in Foreign : ForeignChange(f)
    BY <1>1, <1>11 DEF ForeignChange, Leaves
<1>12. CASE UNCHANGED vars
    BY <1>1, <1>12 DEF vars
<1> QED BY <1>2, <1>3, <1>4, <1>5, <1>6, <1>7, <1>8, <1>9, <1>10, <1>11, <1>12, NextCases

\* What a step may take out of the table.
RemovalIsOwn ==
    \A r \in Routes :
        table[r] # Absent /\ table'[r] # table[r] =>
            \/ table[r] = cur
            \/ table[r] = Other /\ UNCHANGED <<journal, pc>>
            \/ table[r] = Other /\ cur \in Txns /\ r \notin stood[cur]

LEMMA RemovalStep == IInv /\ Exact /\ Spared /\ [Next]_vars => RemovalIsOwn
<1> SUFFICES ASSUME IInv, Exact, Spared, [Next]_vars PROVE RemovalIsOwn
    OBVIOUS
<1>a. /\ table \in [Routes -> Txns \cup {Absent, Other}]
      /\ entry \in Entries
      /\ EntryCovers /\ PendingShape
      /\ EntriesWithin /\ ClaimsAreMine
    BY DEF IInv, TypeOK, Covered, Exact
<1>b. /\ entry.pending => AddedRoute \in Claims(entry)
      /\ entry.applied > 0 => LastApplied \in Claims(entry)
      /\ Claims(entry) \subseteq PlanRoutes(entry.desired)
    BY <1>a, ClaimsPlanned, ClaimsUpdates DEF EntriesWithin, AddedRoute, LastApplied
<1>1. CASE AddRoute
    BY <1>1, <1>a, OwnersAssumption DEF AddRoute, RemovalIsOwn, Absent, Other
<1>2. CASE RemovePending
    <2>1. table[AddedRoute] \in {cur, Absent, Other}
        BY <1>2, <1>a, <1>b DEF RemovePending, PendingShape, ClaimsAreMine, NotAnothers, Busy
    <2>2. table' = table \/ table' = [table EXCEPT ![AddedRoute] = Absent]
        BY <1>2 DEF RemovePending, Remove, RemoveFails
    <2>3. cur \in Txns /\ AddedRoute \notin stood[cur]
        BY <1>2, <1>a, <1>b DEF RemovePending, PendingShape, EntryCovers, Spared, Busy
    <2> QED BY <1>a, <2>1, <2>2, <2>3 DEF RemovalIsOwn
<1>3. CASE RemoveLast
    <2>1. table[LastApplied] \in {cur, Absent, Other}
        BY <1>3, <1>a, <1>b DEF RemoveLast, ClaimsAreMine, NotAnothers, Busy
    <2>2. table' = table \/ table' = [table EXCEPT ![LastApplied] = Absent]
        BY <1>3 DEF RemoveLast, Remove, RemoveFails
    <2>3. cur \in Txns /\ LastApplied \notin stood[cur]
        BY <1>3, <1>a, <1>b DEF RemoveLast, PendingShape, EntryCovers, Spared, Busy
    <2> QED BY <1>a, <2>1, <2>2, <2>3 DEF RemovalIsOwn
<1>4. ASSUME NEW f \in Foreign, ForeignChange(f) PROVE RemovalIsOwn
    BY <1>4, <1>a DEF ForeignChange, RemovalIsOwn
<1>5. CASE UNCHANGED table
    BY <1>5 DEF RemovalIsOwn
<1>6. \/ AddRoute \/ RemovePending \/ RemoveLast \/ UNCHANGED table
      \/ \E f \in Foreign : ForeignChange(f)
    <2>1. CASE UNCHANGED vars
        BY <2>1 DEF vars
    <2>2. CASE Next
        BY <2>2, NextCases
           DEF ApplyKnown, ApplyConflict, ApplyBegin, RollbackNothing, RollbackBegin,
               RecoverNext, RecoverBegin, ReadFails, SavePrepared, SavePending, SaveNotAdded,
               SaveAdded, SaveApplied, RecoverDone, SaveRemoved, SaveRolledBack, Crash, Restart
    <2> QED BY <2>1, <2>2
<1> QED BY <1>1, <1>2, <1>3, <1>4, <1>5, <1>6

(* Exact routes: when every caller recovers first, an apply that answers Ok  *)
(* (freshly, or for an id it knows) has every route of its plan installed    *)
(* for that transaction; and no step of apply, rollback or recover_stale     *)
(* takes out another transaction's route, or a route of another program      *)
(* that stood when apply listed the table and has stood since.               *)
THEOREM ExactRoutes == RecoverFirst => (Spec => RoutesAreExact)
<1> SUFFICES ASSUME RecoverFirst PROVE Spec => RoutesAreExact
    OBVIOUS
<1>1. Exact /\ IInv /\ [Next]_vars => Exact'
    BY ExactStep
<1>2. IInv => TypeOK
    BY DEF IInv
<1>3. Exact => ApplyOkMeansInstalled
    BY DEF Exact
<1>4. IInv /\ Exact /\ Spared /\ [Next]_vars => [RemovalIsOwn]_vars
    BY RemovalStep
<1>5. [][RemovalIsOwn]_vars => RemovesOnlyItsOwn
    BY PTL DEF RemovalIsOwn, RemovesOnlyItsOwn
<1> QED
    BY <1>1, <1>2, <1>3, <1>4, <1>5, ExactInit, SparedInit, SparedStep, Invariance, PTL
       DEF Spec, RoutesAreExact
=============================================================================
