--------------------------- MODULE RouteSessionV3 ---------------------------
(***************************************************************************)
(* The injectable v3 route composition (networking/production_route_v3.rs) *)
(* over the lease contract of networking/route_helper_v3.rs: a session     *)
(* keeps one journal record and moves it, durably and one transition at a  *)
(* time, around the broker's hold and the routes.  After a crash it is     *)
(* resumed from what the journal holds.                                    *)
(***************************************************************************)
EXTENDS Integers

CONSTANTS MaxFaults    \* bound on failing calls and crashes

Mine == "mine"         \* the owner the authorization names
Foreign == "foreign"   \* any other
V3 == 3
V2 == 2

Record(version, state, transition, owner) ==
    [version |-> version, state |-> state, transition |-> transition, owner |-> owner]
NoRecord == Record(0, "none", 0, "none")

VARIABLES
    journal,     \* the durable record
    record,      \* the session's record, NoRecord before it connects
    session,     \* there is a session
    at,          \* where its operation is
    hold,        \* the broker holds this binding
    routes,      \* its routes are in the table
    faults

v3 == <<journal, record, session, at, hold, routes, faults>>
world == <<hold, routes>>

\* A journal of an older protocol, of another owner or of a state that was
\* written by nobody is one that resume meets too.
Init ==
    /\ journal \in {NoRecord, Record(V2, "Held", 2, Mine), Record(V3, "Held", 2, Foreign),
                    Record(V3, "Applied", 2, Mine), Record(V3, "RecoveryOnly", 3, Mine)}
    /\ record = NoRecord /\ session = FALSE /\ at = "idle"
    /\ hold = FALSE /\ routes = FALSE /\ faults = 0

Fault == faults < MaxFaults /\ faults' = faults + 1

-----------------------------------------------------------------------------
(* The contract: RouteLeaseJournalRecord *)

ValidTransition(from, to) ==
    <<from, to>> \in {<<"HoldPending", "Held">>, <<"HoldPending", "RetirementPending">>, <<"Held", "Applied">>,
                      <<"Held", "RetirementPending">>, <<"Applied", "RetirementPending">>,
                      <<"RetirementPending", "Released">>}

\* The transition numbers each state can have.
TransitionShape(state) ==
    CASE state = "HoldPending" -> {1}
      [] state = "Held" -> {2}
      [] state = "Applied" -> {3}
      [] state = "RetirementPending" -> 2..4
      [] state = "Released" -> 3..5
      [] OTHER -> {}

Validate(r) == r.version = V3 /\ r.transition \in TransitionShape(r.state)
RequireReference(r) == Validate(r) /\ r.owner = Mine

\* Mutant: the state moves, its transition number does not.
Transition_Uncounted(r, next) == Record(r.version, next, r.transition, r.owner)

Transition(r, next) == Record(r.version, next, r.transition + 1, r.owner)
MayMove(r, next) == RequireReference(r) /\ ValidTransition(r.state, next)
HoldPending == Record(V3, "HoldPending", 1, Mine)

-----------------------------------------------------------------------------
(* The session *)

Goto(label) == at' = label
PermitsSidecarStop == record.state \in {"none", "Released"}

\* persist_durable: a failing write may have reached the disk all the same.
Persist(r, then) ==
    \/ journal' = r /\ record' = r /\ Goto(then) /\ UNCHANGED faults
    \/ Fault /\ journal' \in {journal, r} /\ UNCHANGED record
       /\ Goto(IF at = "applied" THEN "rollback" ELSE "idle")

\* What the journal says of this lease is left to be resumed.
LeftByJournal == RequireReference(journal) /\ journal.state # "Released"

\* new looks at no journal: that what was left is resumed, and not begun anew, is the
\* duty of whoever composes the session, for whom the repository has no code yet.
New ==
    /\ ~LeftByJournal
    /\ ~session /\ session' = TRUE /\ record' = NoRecord
    /\ UNCHANGED <<journal, at, world, faults>>

\* resume takes a valid record that this authorization owns.
Resume ==
    /\ ~session /\ RequireReference(journal)
    /\ session' = TRUE /\ record' = journal
    /\ UNCHANGED <<journal, at, world, faults>>

Connect ==
    /\ session /\ at = "idle" /\ record = NoRecord /\ Persist(HoldPending, "hold")
    /\ UNCHANGED <<session, world>>

\* A failing call of the broker may have taken effect.
HoldExact ==
    /\ at = "hold"
    /\ \/ hold' = TRUE /\ Goto("held") /\ UNCHANGED faults
       \/ Fault /\ hold' \in {hold, TRUE} /\ Goto("idle")
    /\ UNCHANGED <<journal, record, session, routes>>

TransitionDurable(label, next, then) ==
    /\ at = label /\ MayMove(record, next) /\ Persist(Transition(record, next), then)
    /\ UNCHANGED <<session, world>>

RecordHeld == TransitionDurable("held", "Held", "apply")

ApplyExact ==
    /\ at = "apply"
    /\ \/ routes' = TRUE /\ Goto("applied") /\ UNCHANGED faults
       \/ Fault /\ routes' \in {routes, TRUE} /\ Goto("rollback")
    /\ UNCHANGED <<journal, record, session, hold>>

\* An unrecorded apply is rolled back.
RecordApplied == TransitionDurable("applied", "Applied", "idle")

RollbackAndProveAbsent ==
    /\ at = "rollback"
    /\ \/ routes' = FALSE /\ Goto("retire") /\ UNCHANGED faults
       \/ Fault /\ routes' \in {routes, FALSE} /\ Goto("idle")
    /\ UNCHANGED <<journal, record, session, hold>>

RecordRetirement == TransitionDurable("retire", "RetirementPending", "release")

ReleaseExact ==
    /\ at = "release"
    /\ \/ hold' = FALSE /\ Goto("released") /\ UNCHANGED faults
       \/ Fault /\ hold' \in {hold, FALSE} /\ Goto("idle")
    /\ UNCHANGED <<journal, record, session, routes>>

RecordReleased == TransitionDurable("released", "Released", "idle")

\* disconnect goes on from where the record is; a released one is a replay.
Disconnect ==
    /\ session /\ at = "idle" /\ RequireReference(record)
    /\ \/ record.state \in {"Held", "Applied"} /\ Goto("rollback")
       \/ record.state = "RetirementPending" /\ Goto("release")
       \/ record.state = "HoldPending" /\ Goto("retire")
    /\ UNCHANGED <<journal, record, session, world, faults>>

\* The process ends: the broker, the routes and the journal stay.
Crash ==
    /\ session /\ Fault
    /\ session' = FALSE /\ record' = NoRecord /\ Goto("idle")
    /\ UNCHANGED <<journal, world>>

Next ==
    \/ New \/ Resume \/ Connect \/ HoldExact \/ RecordHeld \/ ApplyExact \/ RecordApplied
    \/ RollbackAndProveAbsent \/ RecordRetirement \/ ReleaseExact \/ RecordReleased \/ Disconnect \/ Crash

Spec == Init /\ [][Next]_v3

-----------------------------------------------------------------------------
(* Properties *)

\* Routes are in the table only under the broker's hold and under a record that
\* says so: no failing call, write of unknown outcome or crash separates them.
RoutesUnderHold == routes => hold /\ journal.owner = Mine /\ journal.state \in {"Held", "Applied"}

\* While the broker holds the lease or its routes stand, the journal is one that
\* resume accepts, whatever failed or crashed, and the session that has it does
\* not permit its sidecar to stop.
LeaseIsNeverLost == hold \/ routes => RequireReference(journal) /\ (session => ~PermitsSidecarStop)
=============================================================================
