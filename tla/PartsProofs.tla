---------------------------- MODULE PartsProofs ----------------------------
(***************************************************************************)
(* Proofs about the parts of the application, for every set of callers,    *)
(* profiles, requests, keys, savers, ports and releases, and every number  *)
(* of calls, faults, crashes and events.                                   *)
(*                                                                         *)
(* Each part has its inductive invariant, named after it; three lemmas say *)
(* that its first state satisfies it, that every step of the part keeps    *)
(* it, and that the part's properties follow.  A step of another part      *)
(* leaves this one's variables alone, so that the theorems about Spec at   *)
(* the end of a section, or of the module, combine the three.              *)
(***************************************************************************)
EXTENDS Parts, Sequences, SequenceTheorems, FiniteSetTheorems, WellFoundedInduction, TLAPS
-----------------------------------------------------------------------------
(***************************************************************************)
(* The composition of a launch.                                             *)
(*                                                                          *)
(* A build that is over holds no session, key or generated bytes, and a     *)
(* child counts as started only on an answer that names the session and the *)
(* token of its launch, whatever has become of the session since.           *)
(***************************************************************************)

LaunchItems == {Launch!Absent, Launch!Malformed, "old"} \cup Builders

LaunchTypeOK ==
    /\ at \in [Builders -> {"token", "get", "generate", "put", "reget", "route", "broker", "bind", "service",
                            "built", "started", "authorized", "failed"}]
    /\ keychain \in LaunchItems
    /\ fresh \in [Builders -> LaunchItems]
    /\ material \in [Builders -> LaunchItems]
    /\ session \in [Builders -> {"none", "prepared", "bound", "reaped", "ended"}]
    /\ answered \in [Builders -> [session : Builders \cup {"nobody"}, token : Builders \cup {"nobody"}]]
    /\ trusted \in [Builders -> SUBSET {Launch!MihomoTun}]

\* A started child has proved the token on the session of its launch.
StartedIsProven ==
    \A b \in Builders : at[b] \in {"started", "authorized"} => answered[b] = [session |-> b, token |-> b]

LaunchInv == LaunchTypeOK /\ Launch!OneIdentity /\ Launch!FailedLeavesNothing /\ StartedIsProven

\* No builder has begun; the keychain is empty, malformed or has a key.
LEMMA LaunchInitially == Launch!Init => LaunchInv
<1> SUFFICES ASSUME Launch!Init PROVE LaunchInv
    OBVIOUS
<1>1. LaunchTypeOK
    BY DEF Launch!Init, LaunchTypeOK, LaunchItems
<1>2. Launch!OneIdentity
    BY DEF Launch!Init, Launch!OneIdentity
<1>3. Launch!FailedLeavesNothing /\ StartedIsProven
    BY DEF Launch!Init, Launch!FailedLeavesNothing, StartedIsProven
<1> QED BY <1>1, <1>2, <1>3 DEF LaunchInv

\* A build that fails gives up what it holds and nothing else.
LEMMA LaunchFails ==
    ASSUME LaunchInv, NEW b \in Builders, Launch!Fail(b)
    PROVE  LaunchInv'
<1> USE DEF LaunchInv, LaunchTypeOK, LaunchItems, Launch!Fail, Launch!Goto
<1>1. LaunchTypeOK'
    BY DEF Launch!Absent
<1>2. Launch!OneIdentity'
    BY DEF Launch!OneIdentity
<1>3. Launch!FailedLeavesNothing'
    BY DEF Launch!FailedLeavesNothing
<1>4. StartedIsProven'
    BY DEF StartedIsProven
<1> QED BY <1>1, <1>2, <1>3, <1>4

\* A step that only goes on, to a place that asks nothing new of the build.
LEMMA LaunchGoesOn ==
    ASSUME LaunchInv, NEW b \in Builders,
           at[b] # "put", NEW l \in {"get", "generate", "broker", "built"},
           Launch!Goto(b, l), UNCHANGED <<keychain, fresh, material, session, answered, trusted>>
    PROVE  LaunchInv'
BY DEF LaunchInv, LaunchTypeOK, LaunchItems, Launch!OneIdentity, Launch!FailedLeavesNothing,
       StartedIsProven, Launch!Goto

\* Every step of a build, of the keychain and of the broker session keeps LaunchInv.
LEMMA LaunchStep ==
    ASSUME LaunchInv, [Launch!Next]_(Launch!composition)
    PROVE  LaunchInv'
<1>1. CASE UNCHANGED Launch!composition
    BY <1>1 DEF Launch!composition, LaunchInv, LaunchTypeOK, LaunchItems, Launch!OneIdentity, Launch!FailedLeavesNothing,
       StartedIsProven
<1> SUFFICES ASSUME Launch!Next PROVE LaunchInv'
    BY <1>1
<1> PICK b \in Builders :
        \/ Launch!FillToken(b) \/ Launch!StoreGet(b) \/ Launch!Generate(b) \/ Launch!PutIfAbsent(b)
        \/ Launch!StoreGetAgain(b) \/ Launch!NewRouteBoundary(b) \/ Launch!Prepare(b)
        \/ Launch!SessionEnds(b) \/ Launch!Bind(b) \/ Launch!NewService(b) \/ Launch!Start(b)
        \/ Launch!AuthorizeRoutes(b)
    BY DEF Launch!Next
<1>2. CASE Launch!Fail(b)
    BY <1>2, LaunchFails
<1>3. CASE Launch!FillToken(b)
    BY <1>2, <1>3, LaunchGoesOn DEF Launch!FillToken
<1>4. CASE Launch!NewRouteBoundary(b)
    BY <1>2, <1>4, LaunchGoesOn DEF Launch!NewRouteBoundary
<1>5. CASE Launch!NewService(b)
    BY <1>2, <1>5, LaunchGoesOn DEF Launch!NewService
<1>6. CASE Launch!StoreGet(b)
    <2>1. CASE /\ keychain \notin {Launch!Absent, Launch!Malformed}
               /\ material' = [material EXCEPT ![b] = keychain]
               /\ Launch!Goto(b, "route")
               /\ UNCHANGED <<keychain, fresh, session, answered, trusted, faults>>
        BY <1>6, <2>1 DEF Launch!StoreGet, LaunchInv, LaunchTypeOK, LaunchItems, Launch!OneIdentity,
           Launch!FailedLeavesNothing,
           StartedIsProven, Launch!Goto
    <2>2. CASE Launch!Goto(b, "generate") /\ UNCHANGED <<keychain, fresh, material, session, answered, trusted>>
        BY <1>6, <2>2, LaunchGoesOn DEF Launch!StoreGet
    <2> QED BY <1>2, <1>6, <2>1, <2>2 DEF Launch!StoreGet
<1>7. CASE Launch!Generate(b)
    BY <1>2, <1>7 DEF Launch!Generate, LaunchInv, LaunchTypeOK, LaunchItems, Launch!OneIdentity,
       Launch!FailedLeavesNothing, StartedIsProven, Launch!Goto
<1>8. CASE Launch!PutIfAbsent(b)
    <2>1. CASE /\ keychain = Launch!Absent
               /\ keychain' = Launch!AddGenericPassword(fresh[b])
               /\ material' = [material EXCEPT ![b] = fresh[b]]
               /\ fresh' = [fresh EXCEPT ![b] = Launch!Absent]
               /\ Launch!Goto(b, "route")
               /\ UNCHANGED <<session, answered, trusted, faults>>
        <3>1. keychain' = fresh[b]
            BY <2>1 DEF Launch!AddGenericPassword
        <3>2. Launch!OneIdentity'
            BY <2>1, <3>1 DEF LaunchInv, LaunchTypeOK, Launch!OneIdentity
        <3>3. LaunchTypeOK'
            BY <2>1, <3>1 DEF LaunchInv, LaunchTypeOK, LaunchItems, Launch!Goto
        <3> QED BY <2>1, <3>2, <3>3 DEF LaunchInv, LaunchTypeOK, Launch!FailedLeavesNothing, StartedIsProven,
                   Launch!Goto
    <2>2. CASE /\ fresh' = [fresh EXCEPT ![b] = Launch!Absent]
               /\ Launch!Goto(b, "reget")
               /\ UNCHANGED <<keychain, material, session, answered, trusted, faults>>
        BY <2>2 DEF LaunchInv, LaunchTypeOK, LaunchItems, Launch!OneIdentity, Launch!FailedLeavesNothing,
           StartedIsProven, Launch!Goto
    <2> QED BY <1>2, <1>8, <2>1, <2>2 DEF Launch!PutIfAbsent
<1>9. CASE Launch!StoreGetAgain(b)
    <2>1. CASE /\ material' = [material EXCEPT ![b] = keychain]
               /\ Launch!Goto(b, "route")
               /\ UNCHANGED <<keychain, fresh, session, answered, trusted, faults>>
        BY <1>9, <2>1 DEF Launch!StoreGetAgain, LaunchInv, LaunchTypeOK, LaunchItems, Launch!OneIdentity,
           Launch!FailedLeavesNothing,
           StartedIsProven, Launch!Goto
    <2> QED BY <1>2, <1>9, <2>1 DEF Launch!StoreGetAgain
<1>10. CASE Launch!Prepare(b)
    <2>1. CASE /\ \A c \in Builders : session[c] \notin {"prepared", "bound"}
               /\ session' = [session EXCEPT ![b] = "prepared"]
               /\ Launch!Goto(b, "bind")
               /\ UNCHANGED <<keychain, fresh, material, answered, trusted, faults>>
        BY <1>10, <2>1 DEF Launch!Prepare, LaunchInv, LaunchTypeOK, LaunchItems, Launch!OneIdentity,
           Launch!FailedLeavesNothing,
           StartedIsProven, Launch!Goto
    <2> QED BY <1>2, <1>10, <2>1 DEF Launch!Prepare
<1>11. CASE Launch!Bind(b)
    BY <1>2, <1>11, SMTT(20) DEF Launch!Bind, LaunchInv, LaunchTypeOK, LaunchItems, Launch!OneIdentity,
       Launch!FailedLeavesNothing, StartedIsProven, Launch!Goto
<1>12. CASE Launch!Start(b)
    <2>1. ASSUME NEW proof \in [session : Builders, token : Builders], Launch!Issue(b, proof),
                 answered' = [answered EXCEPT ![b] = proof],
                 Launch!Goto(b, "started"),
                 UNCHANGED <<keychain, fresh, material, session, trusted, faults>>
          PROVE  LaunchInv'
        <3>1. proof = [session |-> b, token |-> b]
            BY <2>1 DEF Launch!Issue
        <3> QED BY <1>12, <2>1, <3>1 DEF Launch!Start, LaunchInv, LaunchTypeOK, LaunchItems, Launch!OneIdentity,
                   Launch!FailedLeavesNothing, StartedIsProven, Launch!Goto
    <2> QED BY <1>2, <1>12, <2>1 DEF Launch!Start
<1>13. CASE Launch!AuthorizeRoutes(b)
    <2>1. ASSUME NEW o \in Launch!Observations,
                 Launch!SnapshotFromObservation(o) # {"refused"}
          PROVE  Launch!SnapshotFromObservation(o) \in SUBSET {Launch!MihomoTun}
        BY <2>1 DEF Launch!Observations, Launch!SnapshotFromObservation, Launch!ValidateFor
    <2>2. ASSUME NEW s \in SUBSET {Launch!MihomoTun},
                 trusted' = [trusted EXCEPT ![b] = s],
                 Launch!Goto(b, "authorized"),
                 UNCHANGED <<keychain, fresh, material, session, answered, faults>>
          PROVE  LaunchInv'
        BY <1>13, <2>2 DEF Launch!AuthorizeRoutes, LaunchInv, LaunchTypeOK, LaunchItems, Launch!OneIdentity,
                   Launch!FailedLeavesNothing, StartedIsProven, Launch!Goto
    <2> QED BY <1>2, <1>13, <2>1, <2>2 DEF Launch!AuthorizeRoutes
<1>14. CASE Launch!SessionEnds(b)
    BY <1>14 DEF Launch!SessionEnds, LaunchInv, LaunchTypeOK, LaunchItems, Launch!OneIdentity,
       Launch!FailedLeavesNothing, StartedIsProven
<1> QED BY <1>3, <1>4, <1>5, <1>6, <1>7, <1>8, <1>9, <1>10, <1>11, <1>12, <1>13, <1>14

\* The parts of LaunchIsProven follow from LaunchInv.
LEMMA LaunchIsASafePart ==
    ASSUME LaunchInv
    PROVE  Launch!OneIdentity /\ Launch!FailedLeavesNothing /\ Launch!AuthorizedIsProven
<1>1. Launch!AuthorizedIsProven
    BY DEF LaunchInv, LaunchTypeOK, Launch!FailedLeavesNothing, StartedIsProven, Launch!AuthorizedIsProven
<1> QED BY <1>1 DEF LaunchInv

\* Every launch holds the one key of the keychain, a build that fails leaves nothing behind,
\* and an authorization names the child of its own launch although its session may have ended
\* (resolve_or_generate_with_status, build_macos, issue, authorize_routes).
THEOREM LaunchesAreProven == Spec => []LaunchIsProven
<1> DEFINE Inv == which = "launch" => LaunchInv
<1>1. Init => Inv
    BY LaunchInitially DEF Init
<1>2. Inv /\ [Next]_parts => Inv'
    <2> SUFFICES ASSUME Inv, [Next]_parts, which' = "launch" PROVE LaunchInv'
        OBVIOUS
    <2>1. which = "launch" /\ [Launch!Next]_(Launch!composition)
        BY DEF Next, Unchanged, parts, launchOwn, Launch!composition
    <2> QED BY <2>1, LaunchStep
<1>3. Inv => LaunchIsProven
    BY LaunchIsASafePart DEF LaunchIsProven
<1> QED BY <1>1, <1>2, <1>3, PTL DEF Spec

-----------------------------------------------------------------------------
(***************************************************************************)
(* The v3 route session.                                                    *)
(*                                                                          *)
(* The journal is one durable write behind or level with the world: an      *)
(* operation writes what it is about to do, acts, and writes what it did.   *)
(* So the record on disk, with the place of the operation, fixes what can   *)
(* stand at the broker and in the routing table, and a crash leaves a       *)
(* record that resume accepts.                                              *)
(***************************************************************************)

V3Records ==
    [version : {0, 2, 3}, transition : Int, owner : {"none", "mine", "foreign"},
     state : {"none", "HoldPending", "Held", "Applied", "RetirementPending", "Released", "RecoveryOnly"}]

V3TypeOK ==
    /\ journal \in V3Records /\ record \in V3Records
    /\ session \in BOOLEAN /\ hold \in BOOLEAN /\ routes \in BOOLEAN
    /\ at \in {"idle", "hold", "held", "apply", "applied", "rollback", "retire", "release", "released"}

\* The session's record, and where its operation may be with it.
RecordIsOwned ==
    /\ ~session => record = SessionV3!NoRecord /\ at = "idle"
    /\ record # SessionV3!NoRecord => SessionV3!RequireReference(record)

RecordFitsOperation ==
    /\ at \in {"hold", "held"} => record.state = "HoldPending"
    /\ at \in {"apply", "applied"} => record.state = "Held"
    /\ at = "rollback" => record.state \in {"Held", "Applied"}
    /\ at = "retire" => record.state \in {"HoldPending", "Held", "Applied"}
    /\ at \in {"release", "released"} => record.state = "RetirementPending"

\* The journal is not behind when the broker or the routes are about to change.
WorldFitsOperation ==
    /\ at \in {"hold", "apply"} => journal = record
    /\ at \in {"held", "apply", "applied"} => hold
    /\ at = "retire" => ~routes
    /\ at = "released" => ~hold

\* A hold is in the journal, and in the record of the session there is.
HoldIsRecorded ==
    hold => /\ SessionV3!RequireReference(journal) /\ journal.state # "Released"
            /\ session => record.state \notin {"none", "Released"}

RoutesAreRecorded ==
    routes => /\ hold /\ journal.state \in {"Held", "Applied"}
              /\ session => record.state \in {"Held", "Applied"}

V3Inv == V3TypeOK /\ RecordIsOwned /\ RecordFitsOperation /\ WorldFitsOperation /\ HoldIsRecorded /\ RoutesAreRecorded

\* A durable transition leads from a record that resume accepts to another.
LEMMA V3TransitionIsValid ==
    ASSUME NEW r \in V3Records, NEW next \in {"Held", "Applied", "RetirementPending", "Released"},
           SessionV3!MayMove(r, next)
    PROVE  /\ SessionV3!Transition(r, next) \in V3Records
           /\ SessionV3!Transition(r, next).state = next
           /\ SessionV3!RequireReference(SessionV3!Transition(r, next))
<1> DEFINE t == SessionV3!Transition(r, next)
<1>1. /\ t.version = r.version /\ t.state = next /\ t.transition = r.transition + 1 /\ t.owner = r.owner
      /\ t \in V3Records
    BY DEF V3Records, SessionV3!Transition, SessionV3!Record
<1>2. /\ r.version = 3 /\ r.owner = "mine" /\ r.transition \in SessionV3!TransitionShape(r.state)
      /\ SessionV3!ValidTransition(r.state, next)
    BY DEF SessionV3!MayMove, SessionV3!RequireReference, SessionV3!Validate, SessionV3!V3, SessionV3!Mine
<1>3. t.transition \in SessionV3!TransitionShape(next)
    BY <1>1, <1>2 DEF V3Records, SessionV3!TransitionShape, SessionV3!ValidTransition
<1> QED BY <1>1, <1>2, <1>3 DEF SessionV3!RequireReference, SessionV3!Validate, SessionV3!V3, SessionV3!Mine

\* A record of a pending hold is one the journal accepts.
LEMMA V3HoldPendingIsValid ==
    /\ SessionV3!HoldPending \in V3Records /\ SessionV3!HoldPending.state = "HoldPending"
    /\ SessionV3!RequireReference(SessionV3!HoldPending)
BY DEF SessionV3!HoldPending, SessionV3!Record, V3Records, SessionV3!RequireReference, SessionV3!Validate,
       SessionV3!TransitionShape, SessionV3!V3, SessionV3!Mine

\* The empty record is nobody's.
LEMMA V3NoRecord ==
    /\ SessionV3!NoRecord \in V3Records /\ SessionV3!NoRecord.state = "none"
    /\ \A r \in V3Records : SessionV3!RequireReference(r) => r.state # "none" /\ r.owner = "mine"
BY DEF SessionV3!NoRecord, SessionV3!Record, V3Records, SessionV3!RequireReference, SessionV3!Validate,
       SessionV3!TransitionShape, SessionV3!V3, SessionV3!Mine

\* Whatever journal is found, nothing is held and no session is open.
LEMMA V3Initially == SessionV3!Init => V3Inv
<1> SUFFICES ASSUME SessionV3!Init PROVE V3Inv
    OBVIOUS
<1>1. journal \in V3Records
    BY DEF SessionV3!Init, SessionV3!NoRecord, SessionV3!Record, SessionV3!V2, SessionV3!V3, SessionV3!Mine,
           SessionV3!Foreign, V3Records
<1> QED BY <1>1, V3NoRecord DEF SessionV3!Init, V3Inv, V3TypeOK, RecordIsOwned, RecordFitsOperation,
           WorldFitsOperation, HoldIsRecorded, RoutesAreRecorded

\* A write by a session whose operation is at a place of the table below: the
\* record moves on with the journal, or the write fails with either outcome.
LEMMA V3Persists ==
    ASSUME V3Inv, session, NEW r \in V3Records, SessionV3!RequireReference(r),
           NEW then1 \in {"hold", "apply", "idle", "release"}, SessionV3!Persist(r, then1),
           UNCHANGED <<session, hold, routes>>,
           \/ at = "idle" /\ record = SessionV3!NoRecord /\ r.state = "HoldPending" /\ then1 = "hold"
           \/ at = "held" /\ r.state = "Held" /\ then1 = "apply"
           \/ at = "applied" /\ r.state = "Applied" /\ then1 = "idle"
           \/ at = "retire" /\ r.state = "RetirementPending" /\ then1 = "release"
           \/ at = "released" /\ r.state = "Released" /\ then1 = "idle"
    PROVE  V3Inv'
<1> USE DEF V3Inv, V3TypeOK
<1>1. CASE journal' = r /\ record' = r /\ SessionV3!Goto(then1)
    BY <1>1, V3NoRecord DEF SessionV3!Goto, RecordIsOwned, RecordFitsOperation, WorldFitsOperation, HoldIsRecorded,
       RoutesAreRecorded
<1>2. CASE /\ journal' \in {journal, r} /\ UNCHANGED record
           /\ SessionV3!Goto(IF at = "applied" THEN "rollback" ELSE "idle")
    BY <1>2, V3NoRecord DEF SessionV3!Goto, RecordIsOwned, RecordFitsOperation, WorldFitsOperation, HoldIsRecorded,
       RoutesAreRecorded
<1> QED BY <1>1, <1>2 DEF SessionV3!Persist

\* A durable transition that fits its operation keeps V3Inv, whether the write is seen or not.
LEMMA V3MovesDurably ==
    ASSUME V3Inv,
           NEW next \in {"Held", "Applied", "RetirementPending", "Released"},
           NEW then1 \in {"hold", "apply", "idle", "release"},
           SessionV3!TransitionDurable(at, next, then1),
           \/ at = "held" /\ next = "Held" /\ then1 = "apply"
           \/ at = "applied" /\ next = "Applied" /\ then1 = "idle"
           \/ at = "retire" /\ next = "RetirementPending" /\ then1 = "release"
           \/ at = "released" /\ next = "Released" /\ then1 = "idle"
    PROVE  V3Inv'
<1> DEFINE r == SessionV3!Transition(record, next)
<1>1. r \in V3Records /\ r.state = next /\ SessionV3!RequireReference(r)
    BY V3TransitionIsValid DEF V3Inv, V3TypeOK, SessionV3!TransitionDurable
<1>2. session
    BY DEF V3Inv, RecordIsOwned, V3TypeOK
<1>3. SessionV3!Persist(r, then1) /\ UNCHANGED <<session, hold, routes>>
    BY DEF SessionV3!TransitionDurable, SessionV3!world
<1> QED BY <1>1, <1>2, <1>3, V3Persists

\* Every call, answer, durable write and crash of the session keeps V3Inv.
LEMMA V3Step ==
    ASSUME V3Inv, [SessionV3!Next]_(SessionV3!v3)
    PROVE  V3Inv'
<1> USE DEF V3Inv, V3TypeOK
<1>1. CASE UNCHANGED SessionV3!v3
    BY <1>1 DEF SessionV3!v3, RecordIsOwned, RecordFitsOperation, WorldFitsOperation, HoldIsRecorded, RoutesAreRecorded,
       SessionV3!RequireReference, SessionV3!Validate
<1>2. CASE SessionV3!New
    BY <1>2, V3NoRecord DEF SessionV3!New, SessionV3!LeftByJournal, SessionV3!world, RecordIsOwned,
       RecordFitsOperation, WorldFitsOperation,
       HoldIsRecorded, RoutesAreRecorded
<1>3. CASE SessionV3!Resume
    BY <1>3, V3NoRecord DEF SessionV3!Resume, SessionV3!world, RecordIsOwned,
       RecordFitsOperation, WorldFitsOperation,
       HoldIsRecorded, RoutesAreRecorded
<1>4. CASE SessionV3!Connect
    <2>1. /\ session /\ at = "idle" /\ record = SessionV3!NoRecord /\ SessionV3!Persist(SessionV3!HoldPending, "hold")
          /\ UNCHANGED <<session, hold, routes>>
        BY <1>4 DEF SessionV3!Connect, SessionV3!world
    <2> QED BY <2>1, V3Persists, V3HoldPendingIsValid
<1>5. CASE SessionV3!HoldExact
    BY <1>5, V3NoRecord DEF SessionV3!HoldExact, SessionV3!Goto, RecordIsOwned, RecordFitsOperation, WorldFitsOperation,
       HoldIsRecorded, RoutesAreRecorded
<1>6. CASE SessionV3!ApplyExact
    BY <1>6, V3NoRecord DEF SessionV3!ApplyExact, SessionV3!Goto, RecordIsOwned, RecordFitsOperation,
       WorldFitsOperation,
       HoldIsRecorded, RoutesAreRecorded
<1>7. CASE SessionV3!RollbackAndProveAbsent
    <2>1. /\ at = "rollback" /\ UNCHANGED <<journal, record, session, hold>>
          /\ \/ routes' = FALSE /\ at' = "retire"
             \/ routes' = FALSE /\ at' = "idle"
             \/ UNCHANGED routes /\ at' = "idle"
        BY <1>7 DEF SessionV3!RollbackAndProveAbsent, SessionV3!Goto
    <2>2. CASE routes' = FALSE
        BY <2>1, <2>2, V3NoRecord DEF RecordIsOwned, RecordFitsOperation, WorldFitsOperation, HoldIsRecorded,
           RoutesAreRecorded
    <2>3. CASE UNCHANGED routes /\ at' = "idle"
        BY <2>1, <2>3, V3NoRecord DEF RecordIsOwned, RecordFitsOperation, WorldFitsOperation, HoldIsRecorded,
           RoutesAreRecorded
    <2> QED BY <2>1, <2>2, <2>3
<1>8. CASE SessionV3!ReleaseExact
    <2>1. /\ at = "release" /\ UNCHANGED <<journal, record, session, routes>>
          /\ \/ hold' = FALSE /\ at' = "released"
             \/ hold' = FALSE /\ at' = "idle"
             \/ UNCHANGED hold /\ at' = "idle"
        BY <1>8 DEF SessionV3!ReleaseExact, SessionV3!Goto
    <2>2. ~routes
        BY <2>1, V3NoRecord DEF RecordIsOwned, RecordFitsOperation, RoutesAreRecorded
    <2>3. CASE hold' = FALSE
        BY <2>1, <2>2, <2>3, V3NoRecord DEF RecordIsOwned, RecordFitsOperation, WorldFitsOperation, HoldIsRecorded,
           RoutesAreRecorded
    <2>4. CASE UNCHANGED hold /\ at' = "idle"
        BY <2>1, <2>2, <2>4, V3NoRecord DEF RecordIsOwned, RecordFitsOperation, WorldFitsOperation, HoldIsRecorded,
           RoutesAreRecorded
    <2> QED BY <2>1, <2>3, <2>4
<1>9. CASE SessionV3!RecordHeld \/ SessionV3!RecordApplied \/ SessionV3!RecordRetirement \/ SessionV3!RecordReleased
    <2>1. \E next \in {"Held", "Applied", "RetirementPending", "Released"},
             then1 \in {"hold", "apply", "idle", "release"} :
             /\ SessionV3!TransitionDurable(at, next, then1)
             /\ \/ at = "held" /\ next = "Held" /\ then1 = "apply"
                \/ at = "applied" /\ next = "Applied" /\ then1 = "idle"
                \/ at = "retire" /\ next = "RetirementPending" /\ then1 = "release"
                \/ at = "released" /\ next = "Released" /\ then1 = "idle"
        <3>1. CASE SessionV3!RecordHeld
            <4>1. SessionV3!TransitionDurable(at, "Held", "apply") /\ at = "held"
                BY <3>1 DEF SessionV3!RecordHeld, SessionV3!TransitionDurable
            <4> QED BY <4>1
        <3>2. CASE SessionV3!RecordApplied
            <4>1. SessionV3!TransitionDurable(at, "Applied", "idle") /\ at = "applied"
                BY <3>2 DEF SessionV3!RecordApplied, SessionV3!TransitionDurable
            <4> QED BY <4>1
        <3>3. CASE SessionV3!RecordRetirement
            <4>1. SessionV3!TransitionDurable(at, "RetirementPending", "release") /\ at = "retire"
                BY <3>3 DEF SessionV3!RecordRetirement, SessionV3!TransitionDurable
            <4> QED BY <4>1
        <3>4. CASE SessionV3!RecordReleased
            <4>1. SessionV3!TransitionDurable(at, "Released", "idle") /\ at = "released"
                BY <3>4 DEF SessionV3!RecordReleased, SessionV3!TransitionDurable
            <4> QED BY <4>1
        <3> QED BY <1>9, <3>1, <3>2, <3>3, <3>4
    <2> QED BY <2>1, V3MovesDurably
<1>10. CASE SessionV3!Disconnect
    BY <1>10, V3NoRecord DEF SessionV3!Disconnect, SessionV3!world, SessionV3!Goto, RecordIsOwned, RecordFitsOperation,
       WorldFitsOperation, HoldIsRecorded, RoutesAreRecorded
<1>11. CASE SessionV3!Crash
    BY <1>11, V3NoRecord DEF SessionV3!Crash, SessionV3!world, SessionV3!Goto, RecordIsOwned, RecordFitsOperation,
       WorldFitsOperation, HoldIsRecorded, RoutesAreRecorded
<1> QED BY <1>1, <1>2, <1>3, <1>4, <1>5, <1>6, <1>7, <1>8, <1>9, <1>10, <1>11 DEF SessionV3!Next

\* Routes under the hold, and a lease that is never lost, follow from V3Inv.
LEMMA V3KeepsItsLease ==
    ASSUME V3Inv
    PROVE  SessionV3!RoutesUnderHold /\ SessionV3!LeaseIsNeverLost
BY V3NoRecord DEF V3Inv, V3TypeOK, HoldIsRecorded, RoutesAreRecorded, SessionV3!RoutesUnderHold,
   SessionV3!LeaseIsNeverLost, SessionV3!PermitsSidecarStop, SessionV3!Mine

-----------------------------------------------------------------------------
(***************************************************************************)
(* The v2 route boundary.                                                   *)
(*                                                                          *)
(* A call that was given up may be carried out as long as its connection is *)
(* registered, so the boundary stays blocked, with its owner, until the     *)
(* helper answers on a fresh connection that is the only one left. A late   *)
(* begin can therefore only make the lease that the boundary still knows.   *)
(***************************************************************************)

BoundaryCalls == {"connect", "discover", "begin", "apply", "undo", "heartbeat", "rollback", "recover"}

BoundaryTypeOK ==
    /\ client \in Nat /\ generation \in Nat /\ client <= generation
    /\ blocked \in BOOLEAN
    /\ active \in OperationIds \cup {0}
    /\ at \in BoundaryCalls \cup {"idle", "gone"}
    /\ IsFiniteSet(registered) /\ 0 \notin registered
    /\ late \subseteq [by : Nat, call : BoundaryCalls, what : OperationIds \cup {0}]

\* What was given up was asked on an earlier connection.
LateIsOld == \A q \in late : q.by <= generation /\ (client # 0 => q.by # client)

\* OperationIds run on a connection nothing was lost on; the others discover.
BlockedFitsCall ==
    /\ at = "discover" => blocked
    /\ at \in BoundaryCalls \ {"discover"} => ~blocked

\* Nothing that was given up is still carried out once the boundary is open.
NothingLateWhileOpen == at # "gone" /\ ~blocked => \A q \in late : q.by \notin registered

\* A lease that a late request may still make is the one the boundary keeps.
LateBeginIsOwned == at # "gone" => \A q \in late : q.call = "begin" /\ q.by \in registered => q.what = active

BeginComesFirst == at = "begin" => lease \notin OperationIds

BoundaryInv ==
    /\ BoundaryTypeOK /\ LateIsOld /\ BlockedFitsCall /\ NothingLateWhileOpen /\ LateBeginIsOwned /\ BeginComesFirst
    /\ Boundary!OwnerIsKept

\* The module's own Cardinality is that of FiniteSets.
LEMMA BoundaryCardinality == ASSUME NEW S PROVE Boundary!Cardinality(S) = Cardinality(S)
BY DEF Boundary!Cardinality, Cardinality

\* Nothing is held and nothing is on its way.
LEMMA BoundaryInitially == Boundary!Init => BoundaryInv
<1> SUFFICES ASSUME Boundary!Init PROVE BoundaryInv
    OBVIOUS
<1>0. registered = {1}
    BY DEF Boundary!Init
<1>1. IsFiniteSet(registered) /\ 0 \notin registered
    <2>1. IsFiniteSet({1})
        BY FS_Singleton
    <2> QED BY <1>0, <2>1
<1>2. BoundaryTypeOK
    <2>1. late \subseteq [by : Nat, call : BoundaryCalls, what : OperationIds \cup {0}]
        BY DEF Boundary!Init
    <2>2. client = 1 /\ generation = 1 /\ active = 0 /\ blocked = FALSE /\ at = "connect"
        BY DEF Boundary!Init, Boundary!None
    <2>3. client \in Nat /\ generation \in Nat /\ client <= generation
        BY <2>2
    <2>4. blocked \in BOOLEAN /\ at \in BoundaryCalls \cup {"idle", "gone"} /\ active \in OperationIds \cup {0}
        BY <2>2 DEF BoundaryCalls
    <2> QED BY <1>1, <2>1, <2>3, <2>4 DEF BoundaryTypeOK
<1>3. Boundary!OwnerIsKept
    BY OperationsAreIds DEF Boundary!Init, Boundary!OwnerIsKept, Boundary!None, Boundary!Old
<1> QED BY <1>2, <1>3 DEF Boundary!Init, BoundaryInv, LateIsOld, BlockedFitsCall, NothingLateWhileOpen,
           LateBeginIsOwned,
           BeginComesFirst

\* What a request does to the lease, and what an idle answer says.
LEMMA HelperEffect ==
    ASSUME NEW c \in BoundaryCalls, NEW g, NEW o, NEW r, Boundary!HelperDoes(c, g, o, r)
    PROVE  /\ lease' \in {lease, 0} \/ (c = "begin" /\ lease' = o)
           /\ c \in {"connect", "discover"} /\ r = "idle" =>
                  Boundary!Cardinality(registered) = 1 /\ lease = 0 /\ lease' = 0
           /\ c \in {"rollback", "undo"} /\ r = "idle" => lease' = 0
<1>1. CASE c \in {"connect", "discover"}
    BY <1>1 DEF Boundary!HelperDoes, Boundary!HelperDiscover, Boundary!helper, Boundary!None
<1>2. CASE c = "begin"
    BY <1>2 DEF Boundary!HelperDoes, Boundary!HelperBegin, Boundary!helper
<1>3. CASE c = "apply"
    BY <1>3 DEF Boundary!HelperDoes, Boundary!HelperApply, Boundary!RollbackLocked, Boundary!helper, Boundary!None
<1>4. CASE c \in {"rollback", "undo"}
    BY <1>4 DEF Boundary!HelperDoes, Boundary!HelperRollback, Boundary!RollbackLocked, Boundary!helper, Boundary!None
<1>5. CASE c \in {"heartbeat", "recover"}
    BY <1>5 DEF Boundary!HelperDoes, Boundary!HelperStatus, Boundary!helper
<1> QED BY <1>1, <1>2, <1>3, <1>4, <1>5 DEF BoundaryCalls

\* A request changes the helper only; the boundary stays where it is.
LEMMA BoundaryCatchesUp ==
    ASSUME BoundaryInv, Boundary!HelperCatchesUp
    PROVE  BoundaryInv'
<1> USE DEF BoundaryInv, BoundaryTypeOK
<1>1. PICK q \in late :
          /\ q.by \in registered /\ late' = late \ {q}
          /\ \E r \in {"idle", "prepared", "applied", "error", "not_ready"} : Boundary!HelperDoes(q.call, q.by,
              q.what, r)
    BY DEF Boundary!HelperCatchesUp
<1>2. UNCHANGED <<client, generation, active, blocked, at, registered>>
    BY DEF Boundary!HelperCatchesUp, Boundary!boundary
<1>3. q.call \in BoundaryCalls
    OBVIOUS
<1>4. lease' \in {lease, 0} \/ (q.call = "begin" /\ lease' = q.what)
    BY <1>1, <1>3, HelperEffect
<1>5. Boundary!OwnerIsKept'
    BY <1>1, <1>2, <1>4, OperationsAreIds DEF Boundary!OwnerIsKept, LateBeginIsOwned
<1>6. BeginComesFirst'
    BY <1>1, <1>2, <1>4, OperationsAreIds DEF BeginComesFirst, NothingLateWhileOpen, BlockedFitsCall, BoundaryCalls
<1> QED BY <1>1, <1>2, <1>5, <1>6 DEF LateIsOld, BlockedFitsCall, NothingLateWhileOpen, LateBeginIsOwned

\* The helper lets connections and their requests go, and a lease is given back or not.
LEMMA BoundaryHelperMoves ==
    ASSUME BoundaryInv, lease' \in {lease, 0}, registered' \subseteq registered, late' \subseteq late,
           UNCHANGED <<client, generation, active, blocked, at>>
    PROVE  BoundaryInv'
<1> USE DEF BoundaryInv, BoundaryTypeOK
<1>1. IsFiniteSet(registered')
    BY FS_Subset
<1>2. Boundary!OwnerIsKept' /\ BeginComesFirst'
    BY OperationsAreIds DEF Boundary!OwnerIsKept, BeginComesFirst
<1> QED BY <1>1, <1>2 DEF LateIsOld, BlockedFitsCall, NothingLateWhileOpen, LateBeginIsOwned

\* What the helper does by itself keeps BoundaryInv: a connection or a lease ends, it restarts.
LEMMA BoundaryHelper ==
    ASSUME BoundaryInv, Boundary!Unregister \/ Boundary!ExpireLease \/ Boundary!HelperRestarts
    PROVE  BoundaryInv'
<1>1. CASE Boundary!Unregister
    BY <1>1, BoundaryHelperMoves DEF Boundary!Unregister, Boundary!boundary, Boundary!helper,
       Boundary!RollbackLocked, Boundary!None
<1>2. CASE Boundary!ExpireLease
    BY <1>2, BoundaryHelperMoves DEF Boundary!ExpireLease, Boundary!boundary, Boundary!RollbackLocked, Boundary!None
<1>3. CASE Boundary!HelperRestarts
    BY <1>3, BoundaryHelperMoves DEF Boundary!HelperRestarts, Boundary!boundary, Boundary!None
<1> QED BY <1>1, <1>2, <1>3

\* The boundary goes on with the lease and its owner as they are.
LEMMA BoundaryGoesOn ==
    ASSUME BoundaryInv, lease' \in {lease, 0},
           NEW l \in (BoundaryCalls \ {"connect", "discover", "begin"}) \cup {"idle"},
           at' = l, at # "gone", ~blocked \/ l = "idle",
           UNCHANGED <<client, generation, active, blocked, registered, late>>
    PROVE  BoundaryInv'
<1> USE DEF BoundaryInv, BoundaryTypeOK
<1>1. Boundary!OwnerIsKept' /\ BeginComesFirst'
    BY OperationsAreIds DEF Boundary!OwnerIsKept, BeginComesFirst
<1> QED BY <1>1 DEF LateIsOld, BlockedFitsCall, NothingLateWhileOpen, LateBeginIsOwned, BoundaryCalls

\* The owner is cleared when there is no lease and nothing late can make one.
LEMMA BoundaryClears ==
    ASSUME BoundaryInv, lease' \notin OperationIds, active' = 0, at' = "idle", blocked' \in {blocked, FALSE},
           \A q \in late : q.by \notin registered,
           UNCHANGED <<client, generation, registered, late>>
    PROVE  BoundaryInv'
BY DEF BoundaryInv, BoundaryTypeOK, LateIsOld, BlockedFitsCall, NothingLateWhileOpen, LateBeginIsOwned, BoundaryCalls,
       BeginComesFirst, Boundary!OwnerIsKept

\* A boundary that has gone keeps nothing.
LEMMA BoundaryGoes ==
    ASSUME BoundaryInv, at' = "gone", client' = 0 \/ (UNCHANGED <<client, late>>),
           \/ UNCHANGED late
           \/ \E c \in BoundaryCalls : late' = late \cup {[by |-> client, call |-> c, what |-> active]},
           UNCHANGED <<generation, active, blocked, registered>>
    PROVE  BoundaryInv'
BY DEF BoundaryInv, BoundaryTypeOK, LateIsOld, BlockedFitsCall, NothingLateWhileOpen, LateBeginIsOwned, BoundaryCalls,
       BeginComesFirst, Boundary!OwnerIsKept

\* A connection that was lost is given up; what was asked on it may come late.
LEMMA BoundaryReconciles ==
    ASSUME BoundaryInv, at \in BoundaryCalls \ {"connect", "discover"}, Boundary!ReconcileTerminalGeneration,
           late' \in {late, late \cup {[by |-> client, call |-> at, what |-> active]}}, UNCHANGED lease
    PROVE  BoundaryInv'
<1> USE DEF BoundaryInv, BoundaryTypeOK
<1>1. /\ UNCHANGED active /\ blocked' = TRUE
      /\ \/ /\ generation' = generation + 1 /\ client' = generation + 1 /\ at' = "discover"
            /\ registered' = registered \cup {generation + 1}
         \/ client' = 0 /\ at' = "idle" /\ UNCHANGED <<generation, registered>>
    BY DEF Boundary!ReconcileTerminalGeneration, Boundary!Settle, Boundary!None
<1>2. IsFiniteSet(registered')
    BY <1>1, FS_AddElement
<1>3. late' \subseteq [by : Nat, call : BoundaryCalls, what : OperationIds \cup {0}]
    OBVIOUS
<1>4. BoundaryTypeOK'
    BY <1>1, <1>2, <1>3 DEF BoundaryCalls
<1>5. LateIsOld'
    BY <1>1 DEF LateIsOld
<1>6. LateBeginIsOwned'
    <2> SUFFICES ASSUME NEW q \in late', q.call = "begin", q.by \in registered' PROVE q.what = active
        BY <1>1 DEF LateBeginIsOwned
    <2>1. CASE q \in late
        BY <2>1, <1>1 DEF LateBeginIsOwned, LateIsOld, BoundaryCalls
    <2>2. CASE q = [by |-> client, call |-> at, what |-> active]
        BY <2>2
    <2> QED BY <2>1, <2>2
<1>7. BlockedFitsCall' /\ NothingLateWhileOpen' /\ BeginComesFirst'
    BY <1>1 DEF BlockedFitsCall, NothingLateWhileOpen, BeginComesFirst, BoundaryCalls
<1>8. Boundary!OwnerIsKept'
    BY <1>1 DEF Boundary!OwnerIsKept, BoundaryCalls
<1> QED BY <1>4, <1>5, <1>6, <1>7, <1>8

\* A call whose answer is lost keeps BoundaryInv: the owner is frozen.
LEMMA BoundaryCallLost ==
    ASSUME BoundaryInv, Boundary!CallLost
    PROVE  BoundaryInv'
<1>1. /\ at \in BoundaryCalls /\ UNCHANGED lease
      /\ late' \in {late, late \cup {[by |-> client, call |-> at, what |-> active]}}
      /\ Boundary!TerminalError
    BY DEF BoundaryInv, BoundaryTypeOK, Boundary!CallLost, Boundary!InCall, Boundary!helper
<1>2. CASE at = "connect"
    <2>1. /\ at' = "gone" /\ client' = 0 /\ UNCHANGED <<generation, active, blocked, registered>>
        BY <1>1, <1>2 DEF Boundary!TerminalError, Boundary!Settle, Boundary!None
    <2> QED BY <1>1, <2>1, BoundaryGoes
<1>3. CASE at = "discover"
    <2>1. /\ at' = "idle" /\ client' = 0 /\ UNCHANGED <<generation, active, blocked, registered>>
        BY <1>1, <1>3 DEF Boundary!TerminalError, Boundary!Settle, Boundary!None
    <2> QED BY <1>1, <1>3, <2>1 DEF BoundaryInv, BoundaryTypeOK, LateIsOld, BlockedFitsCall, NothingLateWhileOpen,
               LateBeginIsOwned, BoundaryCalls, BeginComesFirst, Boundary!OwnerIsKept
<1>4. CASE at \notin {"connect", "discover"}
    BY <1>1, <1>4, BoundaryReconciles DEF Boundary!TerminalError
<1> QED BY <1>2, <1>3, <1>4

\* A discovery that is answered idle: this connection is the only one there is.
LEMMA BoundaryAlone ==
    ASSUME BoundaryInv, client \in registered, Boundary!Cardinality(registered) = 1
    PROVE  \A q \in late : q.by \notin registered
<1>1. Cardinality(registered) = 1
    BY BoundaryCardinality
<1>2. PICK x : registered = {x}
    BY <1>1, FS_Singleton DEF BoundaryInv, BoundaryTypeOK
<1> QED BY <1>2 DEF BoundaryInv, BoundaryTypeOK, LateIsOld

\* A call that is answered keeps BoundaryInv.
LEMMA BoundaryCalled ==
    ASSUME BoundaryInv, Boundary!Called
    PROVE  BoundaryInv'
<1>1. at \in BoundaryCalls /\ client \in registered /\ UNCHANGED late
    BY DEF BoundaryInv, BoundaryTypeOK, Boundary!Called, Boundary!InCall
<1>2. PICK r \in {"idle", "prepared", "applied", "error", "not_ready"} :
          Boundary!HelperDoes(at, client, active, r) /\ Boundary!Replied(r)
    BY DEF Boundary!Called
<1>3. /\ lease' \in {lease, 0} \/ (at = "begin" /\ lease' = active)
      /\ at \in {"connect", "discover"} /\ r = "idle" =>
             Boundary!Cardinality(registered) = 1 /\ lease = 0 /\ lease' = 0
      /\ at \in {"rollback", "undo"} /\ r = "idle" => lease' = 0
    BY <1>1, <1>2, HelperEffect
<1>4. CASE at = "connect"
    <2>1. \/ at' = "connect" /\ UNCHANGED <<client, generation, active, blocked, registered>>
          \/ at' = "idle" /\ UNCHANGED <<client, generation, active, blocked, registered>>
          \/ at' = "gone" /\ client' = 0 /\ UNCHANGED <<generation, active, blocked, registered>>
        BY <1>2, <1>4 DEF Boundary!Replied, Boundary!ConnectReplied, Boundary!Settle, Boundary!boundary, Boundary!None
    <2>2. CASE at' = "connect" /\ UNCHANGED <<client, generation, active, blocked, registered>>
        BY <1>1, <1>3, <1>4, <2>2, BoundaryHelperMoves
    <2>3. CASE at' = "idle" /\ UNCHANGED <<client, generation, active, blocked, registered>>
        BY <1>1, <1>3, <1>4, <2>3, BoundaryGoesOn
    <2>4. CASE at' = "gone" /\ client' = 0 /\ UNCHANGED <<generation, active, blocked, registered>>
        BY <1>1, <2>4, BoundaryGoes
    <2> QED BY <2>1, <2>2, <2>3, <2>4
<1>5. CASE at = "discover"
    <2>1. CASE r = "not_ready"
        <3>1. UNCHANGED <<client, generation, active, blocked, at, registered>>
            BY <1>2, <1>5, <2>1 DEF Boundary!Replied, Boundary!DiscoverReplied, Boundary!boundary
        <3> QED BY <1>1, <1>3, <1>5, <3>1, BoundaryHelperMoves
    <2>2. CASE r = "idle"
        <3>1. /\ active' = 0 /\ at' = "idle" /\ blocked' = FALSE
              /\ UNCHANGED <<client, generation, registered>>
            BY <1>2, <1>5, <2>2 DEF Boundary!Replied, Boundary!DiscoverReplied, Boundary!ClearFrozenOwner,
               Boundary!Settle, Boundary!None
        <3>2. \A q \in late : q.by \notin registered
            BY <1>1, <1>3, <1>5, <2>2, BoundaryAlone
        <3> QED BY <1>1, <1>3, <1>5, <2>2, <3>1, <3>2, BoundaryClears, OperationsAreIds
    <2>3. CASE r \notin {"not_ready", "idle"}
        <3>1. at' = "idle" /\ UNCHANGED <<client, generation, active, blocked, registered>>
            BY <1>2, <1>5, <2>3 DEF Boundary!Replied, Boundary!DiscoverReplied, Boundary!Return, Boundary!Keep,
               Boundary!Settle
        <3> QED BY <1>1, <1>3, <1>5, <3>1, BoundaryGoesOn
    <2> QED BY <2>1, <2>2, <2>3
<1>6. CASE at = "begin"
    <2>1. at' \in {"apply", "undo"} /\ UNCHANGED <<client, generation, active, blocked, registered>>
        BY <1>2, <1>6 DEF Boundary!Replied, Boundary!BeginReplied, Boundary!Keep, Boundary!Settle
    <2> QED BY <1>1, <1>3, <1>6, <2>1, OperationsAreIds DEF BoundaryInv, BoundaryTypeOK, LateIsOld, BlockedFitsCall,
               NothingLateWhileOpen, LateBeginIsOwned, BoundaryCalls, BeginComesFirst, Boundary!OwnerIsKept
<1>7. CASE at \in {"undo", "rollback"} /\ r = "idle"
    <2>1. /\ active' = 0 /\ at' = "idle" /\ blocked' \in {blocked, FALSE}
          /\ UNCHANGED <<client, generation, registered>>
        BY <1>2, <1>7 DEF Boundary!Replied, Boundary!RollbackAfterHelperError, Boundary!RollbackReplied,
           Boundary!ClearFrozenOwner, Boundary!Settle, Boundary!None
    <2>2. \A q \in late : q.by \notin registered
        BY <1>7 DEF BoundaryInv, NothingLateWhileOpen, BlockedFitsCall, BoundaryCalls
    <2> QED BY <1>1, <1>3, <1>7, <2>1, <2>2, BoundaryClears, OperationsAreIds
<1>8. CASE at \in {"apply", "heartbeat", "recover"} \/ (at \in {"undo", "rollback"} /\ r # "idle")
    <2>1. /\ at' \in {"idle", "undo", "rollback", "heartbeat", "apply"}
          /\ UNCHANGED <<client, generation, active, blocked, registered>>
        <3>1. CASE at = "apply"
            BY <1>2, <3>1 DEF Boundary!Replied, Boundary!ApplyReplied, Boundary!Return, Boundary!Keep, Boundary!Settle
        <3>2. CASE at = "heartbeat"
            BY <1>2, <3>2 DEF Boundary!Replied, Boundary!HeartbeatReplied, Boundary!Return, Boundary!Keep,
               Boundary!Settle
        <3>3. CASE at = "recover"
            BY <1>2, <3>3 DEF Boundary!Replied, Boundary!RecoverReplied, Boundary!Return, Boundary!Keep, Boundary!Settle
        <3>4. CASE at \in {"undo", "rollback"} /\ r # "idle"
            BY <1>2, <3>4 DEF Boundary!Replied, Boundary!RollbackAfterHelperError, Boundary!RollbackReplied,
               Boundary!Keep, Boundary!Settle
        <3> QED BY <1>8, <3>1, <3>2, <3>3, <3>4
    <2>2. at # "begin" /\ ~blocked
        BY <1>8 DEF BoundaryInv, BlockedFitsCall, BoundaryCalls
    <2> QED BY <1>1, <1>3, <1>8, <2>1, <2>2, BoundaryGoesOn DEF BoundaryCalls
<1> QED BY <1>1, <1>4, <1>5, <1>6, <1>7, <1>8 DEF BoundaryCalls

\* The start of an operation keeps BoundaryInv.
LEMMA BoundaryOperates ==
    ASSUME BoundaryInv, Boundary!LiveClient, Boundary!Operation,
           \/ active' = active /\ at' \in {"recover", "heartbeat", "rollback"}
           \/ active = 0 /\ active' \in OperationIds /\ at' = "begin"
    PROVE  BoundaryInv'
<1>1. at = "idle" /\ ~blocked
    BY DEF Boundary!LiveClient
<1>2. UNCHANGED <<client, generation, blocked, registered, late, lease>>
    BY DEF Boundary!Operation, Boundary!helper
<1>3. CASE active' = active /\ at' \in {"recover", "heartbeat", "rollback"}
    BY <1>1, <1>2, <1>3, BoundaryGoesOn DEF BoundaryCalls
<1>4. CASE active = 0 /\ active' \in OperationIds /\ at' = "begin"
    <2>1. lease \notin OperationIds
        BY <1>1, <1>4, OperationsAreIds DEF BoundaryInv, Boundary!OwnerIsKept
    <2> QED BY <1>1, <1>2, <1>4, <2>1 DEF BoundaryInv, BoundaryTypeOK, LateIsOld, BlockedFitsCall, NothingLateWhileOpen,
               LateBeginIsOwned, BoundaryCalls, BeginComesFirst, Boundary!OwnerIsKept
<1> QED BY <1>3, <1>4

\* Every step of the boundary, the helper and the late calls keeps BoundaryInv.
LEMMA BoundaryStep ==
    ASSUME BoundaryInv, [Boundary!Next]_(Boundary!vars)
    PROVE  BoundaryInv'
<1>1. CASE UNCHANGED Boundary!vars
    BY <1>1, BoundaryHelperMoves DEF Boundary!vars, Boundary!boundary, Boundary!helper
<1>2. CASE Boundary!CallRefused
    <2>1. /\ at \in {"begin", "apply", "undo", "heartbeat", "rollback", "recover"} /\ at' = "idle"
          /\ active' = IF at = "begin" THEN 0 ELSE active
          /\ UNCHANGED <<client, generation, blocked, registered, late, lease>>
        BY <1>2 DEF Boundary!CallRefused, Boundary!Settle, Boundary!helper, Boundary!None
    <2>2. CASE at = "begin"
        <3>1. lease \notin OperationIds /\ \A q \in late : q.by \notin registered
            BY <2>2 DEF BoundaryInv, BeginComesFirst, NothingLateWhileOpen, BlockedFitsCall, BoundaryCalls
        <3> QED BY <2>1, <2>2, <3>1, BoundaryClears
    <2>3. CASE at # "begin"
        BY <2>1, <2>3, BoundaryGoesOn
    <2> QED BY <2>2, <2>3
<1>3. CASE Boundary!DiscoveryDeadline
    <2>1. /\ at \in {"discover", "connect"} /\ at' \in {"gone", "idle"}
          /\ UNCHANGED <<client, generation, active, blocked, registered, late, lease>>
        BY <1>3 DEF Boundary!DiscoveryDeadline, Boundary!Settle, Boundary!helper, Boundary!boundary
    <2> QED BY <2>1, BoundaryGoesOn, BoundaryGoes
<1>4. CASE \E o \in OperationIds : Boundary!Apply(o)
    BY <1>4, BoundaryOperates DEF Boundary!Apply, Boundary!Recover, Boundary!Settle, Boundary!None
<1>5. CASE Boundary!Heartbeat
    BY <1>5, BoundaryOperates DEF Boundary!Heartbeat, Boundary!Recover, Boundary!Settle
<1>6. CASE Boundary!Rollback
    BY <1>6, BoundaryOperates DEF Boundary!Rollback, Boundary!Recover, Boundary!Settle
<1>7. CASE Boundary!TryRetire
    <2>1. client' = 0 /\ UNCHANGED <<generation, active, blocked, at, registered, late, lease>>
        BY <1>7 DEF Boundary!TryRetire, Boundary!helper, Boundary!None
    <2> QED BY <2>1 DEF BoundaryInv, BoundaryTypeOK, LateIsOld, BlockedFitsCall, NothingLateWhileOpen,
               LateBeginIsOwned, BoundaryCalls, BeginComesFirst, Boundary!OwnerIsKept
<1>8. CASE Boundary!Drop
    <2>1. /\ at' = "gone" /\ client' = 0 /\ UNCHANGED <<generation, active, blocked, registered>>
          /\ \/ UNCHANGED late
             \/ late' = late \cup {[by |-> client, call |-> "rollback", what |-> active]}
        BY <1>8 DEF Boundary!Drop, Boundary!None
    <2>2. "rollback" \in BoundaryCalls
        BY DEF BoundaryCalls
    <2> QED BY <2>1, <2>2, BoundaryGoes
<1> QED BY <1>1, <1>2, <1>3, <1>4, <1>5, <1>6, <1>7, <1>8, BoundaryCatchesUp, BoundaryHelper, BoundaryCalled,
           BoundaryCallLost DEF Boundary!Next

-----------------------------------------------------------------------------
(***************************************************************************)
(* The core manager.                                                        *)
(*                                                                          *)
(* Whoever is about to start or stop the core holds the lifecycle lock, and *)
(* has seen that none runs. The mode says where a core can be, and a        *)
(* kill or a service call that was not confirmed is remembered as unsure.   *)
(***************************************************************************)

CorePlaces == {"idle", "op", "run", "wait", "lock", "stop", "start", "prepare", "choose", "spawn", "call", "retry",
               "sleep", "handoff", "hold", "exit"}
CoreJobs == {"none", "start", "stop", "restart", "install", "uninstall", "reinstall", "repair"}

\* An actor that has found no core running and is on its way to run one.
Starting(a) ==
    \/ at[a] \in {"prepare", "choose", "spawn", "call", "retry"}
    \/ at[a] \in {"op", "run", "wait"} /\ ret[a] \in {"choose", "call"}

CoreTypeOK ==
    /\ at \in [Core!Actors -> CorePlaces]
    /\ ret \in [Core!Actors -> {"idle", "choose", "call", "handoff"}]
    /\ job \in [Core!Actors -> CoreJobs]
    /\ mode \in {"NotRunning", "Service", "Sidecar"} /\ child \in {"none", "live", "dead"}
    /\ svcCore \in BOOLEAN /\ leaving \in BOOLEAN /\ gone \in BOOLEAN /\ unsure \in BOOLEAN

\* Whoever starts or stops the core holds the lifecycle lock.
LifecycleIsHeld == \A a \in Core!Actors : Starting(a) \/ at[a] \in {"stop", "start"} => life = a

\* Only a service operation remembers where it was asked from.
ReturnIsOfOperation == \A a \in Core!Actors : at[a] \in {"op", "run", "wait"} \/ ret[a] = "idle"

\* Where the core is known to run; nothing runs while one is being started.
CoreFollowsMode ==
    /\ child = "live" => mode = "Sidecar"
    /\ svcCore => unsure \/ mode = "Service"
    /\ \A a \in Core!Actors : Starting(a) => child # "live" /\ (svcCore => unsure)

QuitterOnlyStops ==
    /\ at["quitter"] \in {"idle", "lock", "stop", "exit"}
    /\ at["quitter"] # "idle" => leaving /\ job["quitter"] = "stop"
    /\ gone => at["quitter"] = "exit"

\* After a confirmed stop nothing starts the core again.
NothingStartsAfterTheStop ==
    at["quitter"] = "exit" /\ ~unsure =>
        /\ mode = "NotRunning" /\ child # "live" /\ ~svcCore
        /\ \A a \in Core!Actors : ~Starting(a)

CoreInv ==
    /\ CoreTypeOK /\ LifecycleIsHeld /\ ReturnIsOfOperation /\ CoreFollowsMode /\ QuitterOnlyStops
    /\ NothingStartsAfterTheStop /\ (unsure \/ strays = 0)

\* The watcher and the quitter are tasks next to the callers.
LEMMA CoreActors == "quitter" \in Core!Actors /\ "watcher" \in Core!Actors /\ "nobody" \notin Core!Actors
    /\ Callers \subseteq Core!Actors
BY CallersAreTasks DEF Core!Actors, Core!Quitter, Core!Watcher

\* A flag that stays or falls is one that held if it holds.
LEMMA StaysOrFalls == ASSUME NEW x \in BOOLEAN, NEW y, y = x \/ y = FALSE PROVE y \in BOOLEAN /\ (y => x)
<1>1. CASE y = x
    BY <1>1
<1>2. CASE y = FALSE
    BY <1>2
<1> QED BY <1>1, <1>2

\* No core runs and no task has begun.
LEMMA CoreInitially == Core!Init => CoreInv
<1> SUFFICES ASSUME Core!Init PROVE CoreInv
    OBVIOUS
<1>1. at = [a \in Core!Actors |-> "idle"] /\ job = [a \in Core!Actors |-> "none"]
      /\ ret = [a \in Core!Actors |-> "idle"]
    BY DEF Core!Init
<1>2. mode = "NotRunning" /\ child = "none" /\ strays = 0 /\ svcCore = FALSE /\ leaving = FALSE
      /\ gone = FALSE /\ unsure = FALSE
    BY DEF Core!Init
<1>3. \A a \in Core!Actors : at[a] = "idle" /\ ret[a] = "idle" /\ ~Starting(a)
    BY <1>1 DEF Starting
<1>4. CoreTypeOK
    BY <1>1, <1>2 DEF CoreTypeOK, CorePlaces, CoreJobs
<1> QED BY <1>2, <1>3, <1>4, CoreActors DEF CoreInv, LifecycleIsHeld, ReturnIsOfOperation, CoreFollowsMode,
           QuitterOnlyStops,
           NothingStartsAfterTheStop

\* One lemma for each action: it keeps CoreInv.
LEMMA CoreRunOperation ==
    ASSUME CoreInv, NEW a \in Core!Actors, Core!RunOperation(a) PROVE CoreInv'
<1> USE CoreActors DEF CoreInv, Core!RunOperation, Core!Here, Core!Goto, Core!Leave, Core!Operate,
    Core!OperationEnds, Core!Fails, Core!Works, Core!Nobody, Core!Quitter, Core!Watcher, Core!service,
    Core!world
<1>1. CoreTypeOK'
    BY DEF CoreTypeOK, CorePlaces, CoreJobs, QuitterOnlyStops
<1>2. LifecycleIsHeld' /\ ReturnIsOfOperation'
    BY DEF CoreTypeOK, LifecycleIsHeld, ReturnIsOfOperation, QuitterOnlyStops, Starting
<1>3. CoreFollowsMode'
    BY DEF CoreTypeOK, LifecycleIsHeld, ReturnIsOfOperation, CoreFollowsMode, QuitterOnlyStops, Starting
<1>4. QuitterOnlyStops'
    BY DEF CoreTypeOK, QuitterOnlyStops, LifecycleIsHeld, Starting
<1>5. NothingStartsAfterTheStop'
    BY DEF CoreTypeOK, LifecycleIsHeld, ReturnIsOfOperation, CoreFollowsMode, QuitterOnlyStops,
        NothingStartsAfterTheStop, Starting
<1>6. unsure' \/ strays' = 0
    BY DEF CoreFollowsMode, Starting
<1> QED BY <1>1, <1>2, <1>3, <1>4, <1>5, <1>6 DEF CoreInv

LEMMA CoreRunServiceCommand ==
    ASSUME CoreInv, NEW a \in Core!Actors, Core!RunServiceCommand(a) PROVE CoreInv'
<1> USE CoreActors DEF CoreInv, Core!RunServiceCommand, Core!Here, Core!Goto, Core!Leave, Core!Operate,
    Core!OperationEnds, Core!Fails, Core!Works, Core!Nobody, Core!Quitter, Core!Watcher, Core!service,
    Core!world, Core!UninstallService, Core!InstallService, Core!ReinstallFails
<1>0. svcCore' \in BOOLEAN /\ (svcCore' => svcCore)
    <2>1. svcCore' = svcCore \/ svcCore' = FALSE
        OBVIOUS
    <2> QED BY <2>1, StaysOrFalls DEF CoreTypeOK
<1>1. CoreTypeOK'
    BY <1>0 DEF CoreTypeOK, CorePlaces, CoreJobs, QuitterOnlyStops
<1>2. LifecycleIsHeld' /\ ReturnIsOfOperation'
    BY <1>0 DEF CoreTypeOK, LifecycleIsHeld, ReturnIsOfOperation, QuitterOnlyStops, Starting
<1>3. CoreFollowsMode'
    BY <1>0 DEF CoreTypeOK, LifecycleIsHeld, ReturnIsOfOperation, CoreFollowsMode, QuitterOnlyStops, Starting
<1>4. QuitterOnlyStops'
    BY <1>0 DEF CoreTypeOK, QuitterOnlyStops, LifecycleIsHeld, Starting
<1>5. NothingStartsAfterTheStop'
    BY <1>0 DEF CoreTypeOK, LifecycleIsHeld, ReturnIsOfOperation, CoreFollowsMode, QuitterOnlyStops,
        NothingStartsAfterTheStop, Starting
<1>6. unsure' \/ strays' = 0
    BY <1>0 DEF CoreFollowsMode, Starting
<1> QED BY <1>1, <1>2, <1>3, <1>4, <1>5, <1>6 DEF CoreInv

LEMMA CoreWaitForServiceIpc ==
    ASSUME CoreInv, NEW a \in Core!Actors, Core!WaitForServiceIpc(a) PROVE CoreInv'
<1> USE CoreActors DEF CoreInv, Core!WaitForServiceIpc, Core!Here, Core!Goto, Core!Leave, Core!Operate,
    Core!OperationEnds, Core!Fails, Core!Works, Core!Nobody, Core!Quitter, Core!Watcher, Core!service,
    Core!world
<1>1. CoreTypeOK'
    BY DEF CoreTypeOK, CorePlaces, CoreJobs, QuitterOnlyStops
<1>2. LifecycleIsHeld' /\ ReturnIsOfOperation'
    BY DEF CoreTypeOK, LifecycleIsHeld, ReturnIsOfOperation, QuitterOnlyStops, Starting
<1>3. CoreFollowsMode'
    BY DEF CoreTypeOK, LifecycleIsHeld, ReturnIsOfOperation, CoreFollowsMode, QuitterOnlyStops, Starting
<1>4. QuitterOnlyStops'
    BY DEF CoreTypeOK, QuitterOnlyStops, LifecycleIsHeld, Starting
<1>5. NothingStartsAfterTheStop'
    BY DEF CoreTypeOK, LifecycleIsHeld, ReturnIsOfOperation, CoreFollowsMode, QuitterOnlyStops,
        NothingStartsAfterTheStop, Starting
<1>6. unsure' \/ strays' = 0
    BY DEF CoreFollowsMode, Starting
<1> QED BY <1>1, <1>2, <1>3, <1>4, <1>5, <1>6 DEF CoreInv

LEMMA CoreLock ==
    ASSUME CoreInv, NEW a \in Core!Actors, Core!Lock(a) PROVE CoreInv'
<1> USE CoreActors DEF CoreInv, Core!Lock, Core!Here, Core!Goto, Core!Leave, Core!Operate, Core!OperationEnds,
    Core!Fails, Core!Works, Core!Nobody, Core!Quitter, Core!Watcher, Core!service, Core!world
<1>1. CoreTypeOK'
    BY DEF CoreTypeOK, CorePlaces, CoreJobs, QuitterOnlyStops
<1>2. LifecycleIsHeld' /\ ReturnIsOfOperation'
    BY DEF CoreTypeOK, LifecycleIsHeld, ReturnIsOfOperation, QuitterOnlyStops, Starting
<1>3. CoreFollowsMode'
    BY DEF CoreTypeOK, LifecycleIsHeld, ReturnIsOfOperation, CoreFollowsMode, QuitterOnlyStops, Starting
<1>4. QuitterOnlyStops'
    BY DEF CoreTypeOK, QuitterOnlyStops, LifecycleIsHeld, Starting
<1>5. NothingStartsAfterTheStop'
    BY DEF CoreTypeOK, LifecycleIsHeld, ReturnIsOfOperation, CoreFollowsMode, QuitterOnlyStops,
        NothingStartsAfterTheStop, Starting
<1>6. unsure' \/ strays' = 0
    BY DEF CoreFollowsMode, Starting
<1> QED BY <1>1, <1>2, <1>3, <1>4, <1>5, <1>6 DEF CoreInv

LEMMA CoreStopCoreInner ==
    ASSUME CoreInv, NEW a \in Core!Actors, Core!StopCoreInner(a) PROVE CoreInv'
<1> USE CoreActors DEF CoreInv, Core!StopCoreInner, Core!Here, Core!Goto, Core!Leave, Core!Operate,
    Core!OperationEnds, Core!Fails, Core!Works, Core!Nobody, Core!Quitter, Core!Watcher, Core!service,
    Core!world, Core!StopCoreBySidecar
<1>0. svcCore' \in BOOLEAN /\ (svcCore' => svcCore)
    <2>1. svcCore' = svcCore \/ svcCore' = FALSE
        OBVIOUS
    <2> QED BY <2>1, StaysOrFalls DEF CoreTypeOK
<1>1. CoreTypeOK'
    <2>1. CASE mode = "Service"
        BY <1>0, <2>1 DEF CoreTypeOK, CorePlaces, CoreJobs, QuitterOnlyStops
    <2>2. CASE mode = "Sidecar"
        BY <1>0, <2>2 DEF CoreTypeOK, CorePlaces, CoreJobs, QuitterOnlyStops
    <2>3. CASE mode = "NotRunning"
        BY <1>0, <2>3 DEF CoreTypeOK, CorePlaces, CoreJobs, QuitterOnlyStops
    <2> QED BY <2>1, <2>2, <2>3 DEF CoreTypeOK
<1>2. LifecycleIsHeld' /\ ReturnIsOfOperation'
    <2>1. CASE mode = "Service"
        BY <1>0, <2>1, ZenonT(30) DEF CoreTypeOK, LifecycleIsHeld, ReturnIsOfOperation, QuitterOnlyStops, Starting
    <2>2. CASE mode = "Sidecar"
        BY <1>0, <2>2 DEF CoreTypeOK, LifecycleIsHeld, ReturnIsOfOperation, QuitterOnlyStops, Starting
    <2>3. CASE mode = "NotRunning"
        BY <1>0, <2>3 DEF CoreTypeOK, LifecycleIsHeld, ReturnIsOfOperation, QuitterOnlyStops, Starting
    <2> QED BY <2>1, <2>2, <2>3 DEF CoreTypeOK
<1>3. CoreFollowsMode'
    <2>1. CASE mode = "Service"
        BY <1>0, <2>1 DEF CoreTypeOK, LifecycleIsHeld, ReturnIsOfOperation, CoreFollowsMode, QuitterOnlyStops,
            Starting
    <2>2. CASE mode = "Sidecar"
        BY <1>0, <2>2 DEF CoreTypeOK, LifecycleIsHeld, ReturnIsOfOperation, CoreFollowsMode, QuitterOnlyStops,
            Starting
    <2>3. CASE mode = "NotRunning"
        BY <1>0, <2>3 DEF CoreTypeOK, LifecycleIsHeld, ReturnIsOfOperation, CoreFollowsMode, QuitterOnlyStops,
            Starting
    <2> QED BY <2>1, <2>2, <2>3 DEF CoreTypeOK
<1>4. QuitterOnlyStops'
    BY <1>0 DEF CoreTypeOK, QuitterOnlyStops, LifecycleIsHeld, Starting
<1>5. NothingStartsAfterTheStop'
    <2>1. CASE mode = "Service"
        BY <1>0, <2>1 DEF CoreTypeOK, LifecycleIsHeld, ReturnIsOfOperation, CoreFollowsMode, QuitterOnlyStops,
            NothingStartsAfterTheStop, Starting
    <2>2. CASE mode = "Sidecar"
        BY <1>0, <2>2 DEF CoreTypeOK, LifecycleIsHeld, ReturnIsOfOperation, CoreFollowsMode, QuitterOnlyStops,
            NothingStartsAfterTheStop, Starting
    <2>3. CASE mode = "NotRunning"
        BY <1>0, <2>3 DEF CoreTypeOK, LifecycleIsHeld, ReturnIsOfOperation, CoreFollowsMode, QuitterOnlyStops,
            NothingStartsAfterTheStop, Starting
    <2> QED BY <2>1, <2>2, <2>3 DEF CoreTypeOK
<1>6. unsure' \/ strays' = 0
    <2>1. (UNCHANGED <<strays, unsure>>) \/ unsure' = TRUE
        <3>1. CASE mode = "Sidecar"
            BY <3>1
        <3>2. CASE mode # "Sidecar"
            BY <3>2 DEF CoreTypeOK
        <3> QED BY <3>1, <3>2
    <2> QED BY <2>1
<1> QED BY <1>1, <1>2, <1>3, <1>4, <1>5, <1>6 DEF CoreInv

LEMMA CoreStartCoreInner ==
    ASSUME CoreInv, NEW a \in Core!Actors, Core!StartCoreInner(a) PROVE CoreInv'
<1> USE CoreActors DEF CoreInv, Core!StartCoreInner, Core!Here, Core!Goto, Core!Leave, Core!Operate,
    Core!OperationEnds, Core!Fails, Core!Works, Core!Nobody, Core!Quitter, Core!Watcher, Core!service,
    Core!world
<1>1. CoreTypeOK'
    BY DEF CoreTypeOK, CorePlaces, CoreJobs, QuitterOnlyStops
<1>2. LifecycleIsHeld' /\ ReturnIsOfOperation'
    BY DEF CoreTypeOK, LifecycleIsHeld, ReturnIsOfOperation, QuitterOnlyStops, Starting
<1>3. CoreFollowsMode'
    BY DEF CoreTypeOK, LifecycleIsHeld, ReturnIsOfOperation, CoreFollowsMode, QuitterOnlyStops, Starting
<1>4. QuitterOnlyStops'
    BY DEF CoreTypeOK, QuitterOnlyStops, LifecycleIsHeld, Starting
<1>5. NothingStartsAfterTheStop'
    BY DEF CoreTypeOK, LifecycleIsHeld, ReturnIsOfOperation, CoreFollowsMode, QuitterOnlyStops,
        NothingStartsAfterTheStop, Starting
<1>6. unsure' \/ strays' = 0
    BY DEF CoreFollowsMode, Starting
<1> QED BY <1>1, <1>2, <1>3, <1>4, <1>5, <1>6 DEF CoreInv

LEMMA CoreWaitForService ==
    ASSUME CoreInv, NEW a \in Core!Actors, Core!WaitForService(a) PROVE CoreInv'
<1> USE CoreActors DEF CoreInv, Core!WaitForService, Core!Here, Core!Goto, Core!Leave, Core!Operate,
    Core!OperationEnds, Core!Fails, Core!Works, Core!Nobody, Core!Quitter, Core!Watcher, Core!service,
    Core!world
<1>1. CoreTypeOK'
    BY DEF CoreTypeOK, CorePlaces, CoreJobs, QuitterOnlyStops
<1>2. LifecycleIsHeld' /\ ReturnIsOfOperation'
    BY DEF CoreTypeOK, LifecycleIsHeld, ReturnIsOfOperation, QuitterOnlyStops, Starting
<1>3. CoreFollowsMode'
    BY DEF CoreTypeOK, LifecycleIsHeld, ReturnIsOfOperation, CoreFollowsMode, QuitterOnlyStops, Starting
<1>4. QuitterOnlyStops'
    BY DEF CoreTypeOK, QuitterOnlyStops, LifecycleIsHeld, Starting
<1>5. NothingStartsAfterTheStop'
    BY DEF CoreTypeOK, LifecycleIsHeld, ReturnIsOfOperation, CoreFollowsMode, QuitterOnlyStops,
        NothingStartsAfterTheStop, Starting
<1>6. unsure' \/ strays' = 0
    BY DEF CoreFollowsMode, Starting
<1> QED BY <1>1, <1>2, <1>3, <1>4, <1>5, <1>6 DEF CoreInv

LEMMA CorePrepareStartup ==
    ASSUME CoreInv, NEW a \in Core!Actors, Core!PrepareStartup(a) PROVE CoreInv'
<1> USE CoreActors DEF CoreInv, Core!PrepareStartup, Core!Here, Core!Goto, Core!Leave, Core!Operate,
    Core!OperationEnds, Core!Fails, Core!Works, Core!Nobody, Core!Quitter, Core!Watcher, Core!service,
    Core!world
<1>1. CoreTypeOK'
    BY DEF CoreTypeOK, CorePlaces, CoreJobs, QuitterOnlyStops
<1>2. LifecycleIsHeld' /\ ReturnIsOfOperation'
    BY DEF CoreTypeOK, LifecycleIsHeld, ReturnIsOfOperation, QuitterOnlyStops, Starting
<1>3. CoreFollowsMode'
    BY DEF CoreTypeOK, LifecycleIsHeld, ReturnIsOfOperation, CoreFollowsMode, QuitterOnlyStops, Starting
<1>4. QuitterOnlyStops'
    BY DEF CoreTypeOK, QuitterOnlyStops, LifecycleIsHeld, Starting
<1>5. NothingStartsAfterTheStop'
    BY DEF CoreTypeOK, LifecycleIsHeld, ReturnIsOfOperation, CoreFollowsMode, QuitterOnlyStops,
        NothingStartsAfterTheStop, Starting
<1>6. unsure' \/ strays' = 0
    BY DEF CoreFollowsMode, Starting
<1> QED BY <1>1, <1>2, <1>3, <1>4, <1>5, <1>6 DEF CoreInv

LEMMA CoreStartCoreBySidecar ==
    ASSUME CoreInv, NEW a \in Core!Actors, Core!StartCoreBySidecar(a) PROVE CoreInv'
<1> USE CoreActors DEF CoreInv, Core!StartCoreBySidecar, Core!Here, Core!Goto, Core!Leave, Core!Operate,
    Core!OperationEnds, Core!Fails, Core!Works, Core!Nobody, Core!Quitter, Core!Watcher, Core!service,
    Core!world, Core!SpawnSidecar, Core!SpawnWatcher, Core!JobEnds
<1>1. CoreTypeOK'
    BY DEF CoreTypeOK, CorePlaces, CoreJobs, QuitterOnlyStops
<1>2. LifecycleIsHeld' /\ ReturnIsOfOperation'
    BY DEF CoreTypeOK, LifecycleIsHeld, ReturnIsOfOperation, QuitterOnlyStops, Starting
<1>3. CoreFollowsMode'
    BY DEF CoreTypeOK, LifecycleIsHeld, ReturnIsOfOperation, CoreFollowsMode, QuitterOnlyStops, Starting
<1>4. QuitterOnlyStops'
    BY DEF CoreTypeOK, QuitterOnlyStops, LifecycleIsHeld, Starting
<1>5. NothingStartsAfterTheStop'
    BY DEF CoreTypeOK, LifecycleIsHeld, ReturnIsOfOperation, CoreFollowsMode, QuitterOnlyStops,
        NothingStartsAfterTheStop, Starting
<1>6. unsure' \/ strays' = 0
    BY DEF CoreFollowsMode, Starting
<1> QED BY <1>1, <1>2, <1>3, <1>4, <1>5, <1>6 DEF CoreInv

LEMMA CoreStartWithExistingService ==
    ASSUME CoreInv, NEW a \in Core!Actors, Core!StartWithExistingService(a) PROVE CoreInv'
<1> USE CoreActors DEF CoreInv, Core!StartWithExistingService, Core!Here, Core!Goto, Core!Leave, Core!Operate,
    Core!OperationEnds, Core!Fails, Core!Works, Core!Nobody, Core!Quitter, Core!Watcher, Core!service,
    Core!world
<1>1. CoreTypeOK'
    BY DEF CoreTypeOK, CorePlaces, CoreJobs, QuitterOnlyStops
<1>2. LifecycleIsHeld' /\ ReturnIsOfOperation'
    BY DEF CoreTypeOK, LifecycleIsHeld, ReturnIsOfOperation, QuitterOnlyStops, Starting
<1>3. CoreFollowsMode'
    BY DEF CoreTypeOK, LifecycleIsHeld, ReturnIsOfOperation, CoreFollowsMode, QuitterOnlyStops, Starting
<1>4. QuitterOnlyStops'
    BY DEF CoreTypeOK, QuitterOnlyStops, LifecycleIsHeld, Starting
<1>5. NothingStartsAfterTheStop'
    BY DEF CoreTypeOK, LifecycleIsHeld, ReturnIsOfOperation, CoreFollowsMode, QuitterOnlyStops,
        NothingStartsAfterTheStop, Starting
<1>6. unsure' \/ strays' = 0
    BY DEF CoreFollowsMode, Starting
<1> QED BY <1>1, <1>2, <1>3, <1>4, <1>5, <1>6 DEF CoreInv

LEMMA CoreRetryServiceStart ==
    ASSUME CoreInv, NEW a \in Core!Actors, Core!RetryServiceStart(a) PROVE CoreInv'
<1> USE CoreActors DEF CoreInv, Core!RetryServiceStart, Core!Here, Core!Goto, Core!Leave, Core!Operate,
    Core!OperationEnds, Core!Fails, Core!Works, Core!Nobody, Core!Quitter, Core!Watcher, Core!service,
    Core!world
<1>1. CoreTypeOK'
    BY DEF CoreTypeOK, CorePlaces, CoreJobs, QuitterOnlyStops
<1>2. LifecycleIsHeld' /\ ReturnIsOfOperation'
    BY DEF CoreTypeOK, LifecycleIsHeld, ReturnIsOfOperation, QuitterOnlyStops, Starting
<1>3. CoreFollowsMode'
    BY DEF CoreTypeOK, LifecycleIsHeld, ReturnIsOfOperation, CoreFollowsMode, QuitterOnlyStops, Starting
<1>4. QuitterOnlyStops'
    BY DEF CoreTypeOK, QuitterOnlyStops, LifecycleIsHeld, Starting
<1>5. NothingStartsAfterTheStop'
    BY DEF CoreTypeOK, LifecycleIsHeld, ReturnIsOfOperation, CoreFollowsMode, QuitterOnlyStops,
        NothingStartsAfterTheStop, Starting
<1>6. unsure' \/ strays' = 0
    BY DEF CoreFollowsMode, Starting
<1> QED BY <1>1, <1>2, <1>3, <1>4, <1>5, <1>6 DEF CoreInv

LEMMA CoreSidecarDies == CoreInv /\ Core!SidecarDies => CoreInv'
<1> SUFFICES ASSUME CoreInv, Core!SidecarDies PROVE CoreInv'
    OBVIOUS
<1> USE CoreActors DEF CoreInv, Core!SidecarDies, Core!Here, Core!Goto, Core!Leave, Core!Operate,
    Core!OperationEnds, Core!Fails, Core!Works, Core!Nobody, Core!Quitter, Core!Watcher, Core!service,
    Core!world
<1>1. CoreTypeOK'
    BY DEF CoreTypeOK, CorePlaces, CoreJobs, QuitterOnlyStops
<1>2. LifecycleIsHeld' /\ ReturnIsOfOperation'
    BY DEF CoreTypeOK, LifecycleIsHeld, ReturnIsOfOperation, QuitterOnlyStops, Starting
<1>3. CoreFollowsMode'
    BY DEF CoreTypeOK, LifecycleIsHeld, ReturnIsOfOperation, CoreFollowsMode, QuitterOnlyStops, Starting
<1>4. QuitterOnlyStops'
    BY DEF CoreTypeOK, QuitterOnlyStops, LifecycleIsHeld, Starting
<1>5. NothingStartsAfterTheStop'
    BY DEF CoreTypeOK, LifecycleIsHeld, ReturnIsOfOperation, CoreFollowsMode, QuitterOnlyStops,
        NothingStartsAfterTheStop, Starting
<1>6. unsure' \/ strays' = 0
    BY DEF CoreFollowsMode, Starting
<1> QED BY <1>1, <1>2, <1>3, <1>4, <1>5, <1>6 DEF CoreInv

LEMMA CoreWatcherWakes == CoreInv /\ Core!WatcherWakes => CoreInv'
<1> SUFFICES ASSUME CoreInv, Core!WatcherWakes PROVE CoreInv'
    OBVIOUS
<1> USE CoreActors DEF CoreInv, Core!WatcherWakes, Core!Here, Core!Goto, Core!Leave, Core!Operate,
    Core!OperationEnds, Core!Fails, Core!Works, Core!Nobody, Core!Quitter, Core!Watcher, Core!service,
    Core!world
<1>1. CoreTypeOK'
    BY DEF CoreTypeOK, CorePlaces, CoreJobs, QuitterOnlyStops
<1>2. LifecycleIsHeld' /\ ReturnIsOfOperation'
    BY DEF CoreTypeOK, LifecycleIsHeld, ReturnIsOfOperation, QuitterOnlyStops, Starting
<1>3. CoreFollowsMode'
    BY DEF CoreTypeOK, LifecycleIsHeld, ReturnIsOfOperation, CoreFollowsMode, QuitterOnlyStops, Starting
<1>4. QuitterOnlyStops'
    BY DEF CoreTypeOK, QuitterOnlyStops, LifecycleIsHeld, Starting
<1>5. NothingStartsAfterTheStop'
    BY DEF CoreTypeOK, LifecycleIsHeld, ReturnIsOfOperation, CoreFollowsMode, QuitterOnlyStops,
        NothingStartsAfterTheStop, Starting
<1>6. unsure' \/ strays' = 0
    BY DEF CoreFollowsMode, Starting
<1> QED BY <1>1, <1>2, <1>3, <1>4, <1>5, <1>6 DEF CoreInv

LEMMA CoreTryHandoff == CoreInv /\ Core!TryHandoff => CoreInv'
<1> SUFFICES ASSUME CoreInv, Core!TryHandoff PROVE CoreInv'
    OBVIOUS
<1> USE CoreActors DEF CoreInv, Core!TryHandoff, Core!Here, Core!Goto, Core!Leave, Core!Operate,
    Core!OperationEnds, Core!Fails, Core!Works, Core!Nobody, Core!Quitter, Core!Watcher, Core!service,
    Core!world
<1>1. CoreTypeOK'
    BY DEF CoreTypeOK, CorePlaces, CoreJobs, QuitterOnlyStops
<1>2. LifecycleIsHeld' /\ ReturnIsOfOperation'
    BY DEF CoreTypeOK, LifecycleIsHeld, ReturnIsOfOperation, QuitterOnlyStops, Starting
<1>3. CoreFollowsMode'
    BY DEF CoreTypeOK, LifecycleIsHeld, ReturnIsOfOperation, CoreFollowsMode, QuitterOnlyStops, Starting
<1>4. QuitterOnlyStops'
    BY DEF CoreTypeOK, QuitterOnlyStops, LifecycleIsHeld, Starting
<1>5. NothingStartsAfterTheStop'
    BY DEF CoreTypeOK, LifecycleIsHeld, ReturnIsOfOperation, CoreFollowsMode, QuitterOnlyStops,
        NothingStartsAfterTheStop, Starting
<1>6. unsure' \/ strays' = 0
    BY DEF CoreFollowsMode, Starting
<1> QED BY <1>1, <1>2, <1>3, <1>4, <1>5, <1>6 DEF CoreInv

LEMMA CoreHandoff == CoreInv /\ Core!Handoff => CoreInv'
<1> SUFFICES ASSUME CoreInv, Core!Handoff PROVE CoreInv'
    OBVIOUS
<1> USE CoreActors DEF CoreInv, Core!Handoff, Core!Here, Core!Goto, Core!Leave, Core!Operate,
    Core!OperationEnds, Core!Fails, Core!Works, Core!Nobody, Core!Quitter, Core!Watcher, Core!service,
    Core!world, Core!StopCoreBySidecar
<1>1. CoreTypeOK'
    BY DEF CoreTypeOK, CorePlaces, CoreJobs, QuitterOnlyStops
<1>2. LifecycleIsHeld' /\ ReturnIsOfOperation'
    BY DEF CoreTypeOK, LifecycleIsHeld, ReturnIsOfOperation, QuitterOnlyStops, Starting
<1>3. CoreFollowsMode'
    BY DEF CoreTypeOK, LifecycleIsHeld, ReturnIsOfOperation, CoreFollowsMode, QuitterOnlyStops, Starting
<1>4. QuitterOnlyStops'
    BY DEF CoreTypeOK, QuitterOnlyStops, LifecycleIsHeld, Starting
<1>5. NothingStartsAfterTheStop'
    BY DEF CoreTypeOK, LifecycleIsHeld, ReturnIsOfOperation, CoreFollowsMode, QuitterOnlyStops,
        NothingStartsAfterTheStop, Starting
<1>6. unsure' \/ strays' = 0
    BY DEF CoreFollowsMode, Starting
<1> QED BY <1>1, <1>2, <1>3, <1>4, <1>5, <1>6 DEF CoreInv

LEMMA CoreQuit == CoreInv /\ Core!Quit => CoreInv'
<1> SUFFICES ASSUME CoreInv, Core!Quit PROVE CoreInv'
    OBVIOUS
<1> USE CoreActors DEF CoreInv, Core!Quit, Core!Here, Core!Goto, Core!Leave, Core!Operate, Core!OperationEnds,
    Core!Fails, Core!Works, Core!Nobody, Core!Quitter, Core!Watcher, Core!service, Core!world
<1>1. CoreTypeOK'
    BY DEF CoreTypeOK, CorePlaces, CoreJobs, QuitterOnlyStops
<1>2. LifecycleIsHeld' /\ ReturnIsOfOperation'
    BY DEF CoreTypeOK, LifecycleIsHeld, ReturnIsOfOperation, QuitterOnlyStops, Starting
<1>3. CoreFollowsMode'
    BY DEF CoreTypeOK, LifecycleIsHeld, ReturnIsOfOperation, CoreFollowsMode, QuitterOnlyStops, Starting
<1>4. QuitterOnlyStops'
    BY DEF CoreTypeOK, QuitterOnlyStops, LifecycleIsHeld, Starting
<1>5. NothingStartsAfterTheStop'
    BY DEF CoreTypeOK, LifecycleIsHeld, ReturnIsOfOperation, CoreFollowsMode, QuitterOnlyStops,
        NothingStartsAfterTheStop, Starting
<1>6. unsure' \/ strays' = 0
    BY DEF CoreFollowsMode, Starting
<1> QED BY <1>1, <1>2, <1>3, <1>4, <1>5, <1>6 DEF CoreInv

LEMMA CoreQuitTimesOut == CoreInv /\ Core!QuitTimesOut => CoreInv'
<1> SUFFICES ASSUME CoreInv, Core!QuitTimesOut PROVE CoreInv'
    OBVIOUS
<1> USE CoreActors DEF CoreInv, Core!QuitTimesOut, Core!Here, Core!Goto, Core!Leave, Core!Operate,
    Core!OperationEnds, Core!Fails, Core!Works, Core!Nobody, Core!Quitter, Core!Watcher, Core!service,
    Core!world
<1>1. CoreTypeOK'
    BY DEF CoreTypeOK, CorePlaces, CoreJobs, QuitterOnlyStops
<1>2. LifecycleIsHeld' /\ ReturnIsOfOperation'
    BY DEF CoreTypeOK, LifecycleIsHeld, ReturnIsOfOperation, QuitterOnlyStops, Starting
<1>3. CoreFollowsMode'
    BY DEF CoreTypeOK, LifecycleIsHeld, ReturnIsOfOperation, CoreFollowsMode, QuitterOnlyStops, Starting
<1>4. QuitterOnlyStops'
    BY DEF CoreTypeOK, QuitterOnlyStops, LifecycleIsHeld, Starting
<1>5. NothingStartsAfterTheStop'
    BY DEF CoreTypeOK, LifecycleIsHeld, ReturnIsOfOperation, CoreFollowsMode, QuitterOnlyStops,
        NothingStartsAfterTheStop, Starting
<1>6. unsure' \/ strays' = 0
    BY DEF CoreFollowsMode, Starting
<1> QED BY <1>1, <1>2, <1>3, <1>4, <1>5, <1>6 DEF CoreInv

LEMMA CoreExit == CoreInv /\ Core!Exit => CoreInv'
<1> SUFFICES ASSUME CoreInv, Core!Exit PROVE CoreInv'
    OBVIOUS
<1> USE CoreActors DEF CoreInv, Core!Exit, Core!Here, Core!Goto, Core!Leave, Core!Operate, Core!OperationEnds,
    Core!Fails, Core!Works, Core!Nobody, Core!Quitter, Core!Watcher, Core!service, Core!world, Core!JobEnds
<1>1. CoreTypeOK'
    BY DEF CoreTypeOK, CorePlaces, CoreJobs, QuitterOnlyStops
<1>2. LifecycleIsHeld' /\ ReturnIsOfOperation'
    BY DEF CoreTypeOK, LifecycleIsHeld, ReturnIsOfOperation, QuitterOnlyStops, Starting
<1>3. CoreFollowsMode'
    BY DEF CoreTypeOK, LifecycleIsHeld, ReturnIsOfOperation, CoreFollowsMode, QuitterOnlyStops, Starting
<1>4. QuitterOnlyStops'
    BY DEF CoreTypeOK, QuitterOnlyStops, LifecycleIsHeld, Starting
<1>5. NothingStartsAfterTheStop'
    BY DEF CoreTypeOK, LifecycleIsHeld, ReturnIsOfOperation, CoreFollowsMode, QuitterOnlyStops,
        NothingStartsAfterTheStop, Starting
<1>6. unsure' \/ strays' = 0
    BY DEF CoreFollowsMode, Starting
<1> QED BY <1>1, <1>2, <1>3, <1>4, <1>5, <1>6 DEF CoreInv

LEMMA CoreCommand ==
    ASSUME CoreInv, NEW a \in Callers, NEW o \in CoreJobs, Core!Command(a, o) PROVE CoreInv'
<1>0. a \in Core!Actors /\ a # "quitter"
    BY CoreActors, CallersAreTasks
<1> USE CoreActors DEF CoreInv, Core!Command, Core!Here, Core!Goto, Core!Leave, Core!Operate,
    Core!OperationEnds, Core!Fails, Core!Works, Core!Nobody, Core!Quitter, Core!Watcher, Core!service,
    Core!world
<1>1. CoreTypeOK'
    BY <1>0 DEF CoreTypeOK, CorePlaces, CoreJobs, QuitterOnlyStops
<1>2. LifecycleIsHeld' /\ ReturnIsOfOperation'
    BY <1>0 DEF CoreTypeOK, LifecycleIsHeld, ReturnIsOfOperation, QuitterOnlyStops, Starting
<1>3. CoreFollowsMode'
    BY <1>0 DEF CoreTypeOK, LifecycleIsHeld, ReturnIsOfOperation, CoreFollowsMode, QuitterOnlyStops, Starting
<1>4. QuitterOnlyStops'
    BY <1>0 DEF CoreTypeOK, QuitterOnlyStops, LifecycleIsHeld, Starting
<1>5. NothingStartsAfterTheStop'
    BY <1>0 DEF CoreTypeOK, LifecycleIsHeld, ReturnIsOfOperation, CoreFollowsMode, QuitterOnlyStops,
        NothingStartsAfterTheStop, Starting
<1>6. unsure' \/ strays' = 0
    BY <1>0 DEF CoreFollowsMode, Starting
<1> QED BY <1>1, <1>2, <1>3, <1>4, <1>5, <1>6 DEF CoreInv

LEMMA CoreStutters == CoreInv /\ UNCHANGED Core!vars => CoreInv'
BY DEF CoreInv, CoreTypeOK, LifecycleIsHeld, ReturnIsOfOperation, CoreFollowsMode, QuitterOnlyStops,
       NothingStartsAfterTheStop, Starting, Core!vars

\* Every step of every task keeps CoreInv.
LEMMA CoreStep == CoreInv /\ [Core!Next]_(Core!vars) => CoreInv'
<1> SUFFICES ASSUME CoreInv, [Core!Next]_(Core!vars) PROVE CoreInv'
    OBVIOUS
<1>1. ASSUME NEW a \in Core!Actors, Core!Step(a) PROVE CoreInv'
    BY <1>1, CoreRunOperation, CoreRunServiceCommand, CoreWaitForServiceIpc, CoreLock, CoreStopCoreInner,
       CoreStartCoreInner, CoreWaitForService, CorePrepareStartup, CoreStartCoreBySidecar,
       CoreStartWithExistingService, CoreRetryServiceStart DEF Core!Step
<1>2. ASSUME NEW a \in Callers,
             NEW o \in {"start", "stop", "restart", "install", "uninstall", "reinstall", "repair"}, Core!Command(a, o)
      PROVE  CoreInv'
    BY <1>2, CoreCommand DEF CoreJobs
<1>3. CASE Core!SidecarDies \/ Core!WatcherWakes \/ Core!TryHandoff \/ Core!Handoff \/ Core!Quit
           \/ Core!QuitTimesOut \/ Core!Exit
    BY <1>3, CoreSidecarDies, CoreWatcherWakes, CoreTryHandoff, CoreHandoff, CoreQuit, CoreQuitTimesOut, CoreExit
<1>4. CASE Core!Rest \/ UNCHANGED Core!vars
    BY <1>4, CoreStutters DEF Core!Rest
<1> QED BY <1>1, <1>2, <1>3, <1>4 DEF Core!Next

\* There is at most one core, and none after a quit whose stop was confirmed, however
\* starts, stops, service operations, the hand-over and a quit interleave, until a kill
\* fails, a service call's outcome is not learnt or the quit's deadline passes (unsure)
\* (CoreManager::start_core, stop_core, the service hand-over, clean_async).
THEOREM OnlyOneCoreRuns == Spec => []CoresAreAccountedFor
<1> DEFINE Inv == which = "core" => CoreInv
<1>1. Init => Inv
    BY CoreInitially DEF Init
<1>2. Inv /\ [Next]_parts => Inv'
    <2> SUFFICES ASSUME Inv, [Next]_parts, which' = "core" PROVE CoreInv'
        OBVIOUS
    <2>1. which = "core" /\ [Core!Next]_(Core!vars)
        BY DEF Next, Unchanged, parts, coreOwn, Core!vars
    <2> QED BY <2>1, CoreStep
<1>3. Inv => CoresAreAccountedFor
    BY DEF CoresAreAccountedFor, CoreInv, CoreFollowsMode, QuitterOnlyStops, NothingStartsAfterTheStop, CoreTypeOK,
           Core!OneCore, Core!QuitStopsTheCore
<1> QED BY <1>1, <1>2, <1>3, PTL DEF Spec

-----------------------------------------------------------------------------
(***************************************************************************)
(* The profile files.                                                       *)
(*                                                                          *)
(* A request lists an item only after its file is written, the sweep of     *)
(* orphaned files spares what was listed when it began, and what is saved   *)
(* is complete: a crash at any point loads a list whose files exist.  The   *)
(* draft of a refused switch is a complete older list, of what is listed    *)
(* still.  A deletion dooms its profile, and so does an older list that     *)
(* leaves an item of it out; an item raced by the sweep is exempt, as in    *)
(* the property.                                                            *)
(***************************************************************************)

Uids == (Profiles \cup {"Merge"}) \X (Kinds \cup {0}) \X (ProfileTasks \cup {"-"})
FileRequests == [op : {"none", "import", "update", "delete"}, p : Profiles \cup {"Merge"},
                 at : {"none", "fetch", "extend", "append", "save", "commit", "remove", "removed", "done", "failed"},
                 own : SUBSET Uids, tries : Int]

FilesTypeOK ==
    /\ items \in SUBSET Uids /\ links \in [Profiles -> SUBSET Uids]
    /\ saved \in [items : SUBSET Uids, links : [Profiles -> SUBSET Uids]]
    /\ request \in [ProfileTasks -> FileRequests]
    /\ boot \in [at : {"load", "sweep", "done"}, active : SUBSET Uids]
    /\ draft \in [at : {"none", "edited", "applied"}, items : SUBSET Uids, links : [Profiles -> SUBSET Uids]]

\* An item is a profile's own or one of its extensions, and links stay within a profile.
ItemsAreProfiles == \A u \in items \cup saved.items \cup draft.items : Files!Kind(u) = 0 => u = Files!Main(u[1])
    /\ (u = Files!Global \/ u[1] \in Profiles)
LinksAreOwn == \A p \in Profiles : \A u \in links[p] \cup saved.links[p] \cup draft.links[p] : u[1] = p

RequestFitsProfile ==
    \A r \in ProfileTasks :
        /\ request[r].op # "none" => request[r].p \in Profiles
        /\ \A u \in request[r].own : u[1] = request[r].p
        /\ request[r].op = "delete" => request[r].p \in doomed
        /\ request[r].at \in {"remove", "removed"} => request[r].op = "delete"
        /\ request[r].at \in {"fetch", "extend", "append", "commit", "save"} => request[r].op \in {"import", "update"}

\* The extensions a request gathered are in the list.
OwnIsListed ==
    \A r \in ProfileTasks : request[r].at \in {"fetch", "extend", "append", "commit"} /\ request[r].p \notin doomed =>
        request[r].own \subseteq items

\* What is about to be listed has its file, and the sweep spares it or it was made meanwhile.
AppendedIsWritten ==
    \A r \in ProfileTasks : request[r].at = "append" /\ request[r].p \notin doomed /\ Files!NextItem(r) \notin raced =>
        Files!NextItem(r) \in files /\ (boot.at # "done" => Files!NextItem(r) \in boot.active)

SweepSparesTheList ==
    /\ boot.at = "load" => boot.active = {}
    /\ boot.at = "sweep" => \A u \in items : u[1] \notin doomed /\ u \notin raced => u \in boot.active

\* What a restart would find is listed, and complete too.
SavedIsListed ==
    \A u \in saved.items : u[1] \notin doomed =>
        /\ u \in items
        /\ Files!Kind(u) = 0 /\ u # Files!Global => saved.links[u[1]] \subseteq saved.items

\* What a refused switch will put back is listed, and complete.
DraftIsListed ==
    draft.at = "edited" => \A u \in draft.items : u[1] \notin doomed =>
        /\ u \in items
        /\ Files!Kind(u) = 0 /\ u # Files!Global => draft.links[u[1]] \subseteq draft.items

FilesInv ==
    /\ FilesTypeOK /\ ItemsAreProfiles /\ LinksAreOwn /\ RequestFitsProfile /\ OwnIsListed /\ AppendedIsWritten
    /\ SweepSparesTheList /\ SavedIsListed /\ DraftIsListed /\ Files!ListedIsStored

\* A nonempty set of naturals has a least element.
LEMMA LeastNatural == ASSUME NEW T, T \subseteq Nat, T # {} PROVE \E x \in T : \A y \in T : x <= y
<1> DEFINE R == OpToRel(<, Nat)
<1>1. \E x \in T : \A y \in T : <<y, x>> \notin R
    <2> HIDE DEF R
    <2>1. IsWellFoundedOn(R, Nat)
        BY NatLessThanWellFounded DEF R
    <2> QED BY <2>1, WFMin
<1>2. \A x, y \in Nat : <<y, x>> \in R <=> y < x
    BY DEF OpToRel
<1> HIDE DEF R
<1>3. PICK x \in T : \A y \in T : <<y, x>> \notin R
    BY <1>1
<1>4. ASSUME NEW y \in T PROVE x <= y
    <2>1. x \in Nat /\ y \in Nat
        OBVIOUS
    <2>2. ~(y < x)
        BY <1>2, <1>3, <2>1
    <2> QED BY <2>1, <2>2
<1> QED BY <1>4

Least(S) == CHOOSE k \in S : \A j \in S : k <= j

\* Least picks an element of the set.
LEMMA LeastIsIn == ASSUME NEW S, S \subseteq Nat, S # {} PROVE Least(S) \in S
BY LeastNatural DEF Least

\* The extension a request makes next is the least one it lacks.
LEMMA NextKindIsLeast == ASSUME NEW r PROVE Files!NextKind(r) = Least(Files!Missing(r))
BY DEF Files!NextKind, Least

\* What a request adds next follows from its profile and what it has gathered.
LEMMA NextIsKept ==
    ASSUME NEW r, request'[r].own = request[r].own, request'[r].p = request[r].p
    PROVE  Files!NextItem(r)' = Files!NextItem(r)
<1>1. Files!Missing(r)' = Files!Missing(r)
    BY DEF Files!Missing
<1>2. Files!NextKind(r) = Least(Files!Missing(r)) /\ Files!NextKind(r)' = Least(Files!Missing(r)')
    BY NextKindIsLeast DEF Files!NextKind, Least
<1>3. Files!NextKind(r)' = Files!NextKind(r)
    BY <1>1, <1>2
<1> QED BY <1>1, <1>3 DEF Files!NextItem, Files!Extension, Files!Main

\* The item a request makes next is the profile's own, or a new extension of it.
LEMMA NextIsOwn ==
    ASSUME FilesTypeOK, RequestFitsProfile, NEW r \in ProfileTasks, request[r].op # "none"
    PROVE  /\ Files!NextItem(r) \in Uids /\ Files!NextItem(r)[1] = request[r].p /\ request[r].p \in Profiles
           /\ Files!Missing(r) = {} => Files!NextItem(r) = Files!Main(request[r].p) /\ Files!Kind(Files!NextItem(r)) = 0
           /\ Files!Missing(r) # {} => Files!Kind(Files!NextItem(r)) # 0
<1>1. request[r].p \in Profiles
    BY DEF RequestFitsProfile
<1>2. CASE Files!Missing(r) = {}
    BY <1>1, <1>2 DEF Files!NextItem, Files!Main, Files!Kind, Uids
<1>3. CASE Files!Missing(r) # {}
    <2>1. Files!Missing(r) \subseteq Nat /\ Files!Missing(r) \subseteq Kinds
        BY KindsAreNumbers DEF Files!Missing
    <2>2. Files!NextKind(r) \in Kinds /\ Files!NextKind(r) # 0
        BY <1>3, <2>1, LeastIsIn, NextKindIsLeast, KindsAreNumbers
    <2>3. Files!NextItem(r) = <<request[r].p, Files!NextKind(r), r>>
        BY <1>3 DEF Files!NextItem, Files!Extension
    <2> HIDE DEF Files!NextItem
    <2> QED BY <1>1, <1>3, <2>2, <2>3 DEF Files!Kind, Uids
<1> QED BY <1>2, <1>3

\* The list that was saved has its files.
LEMMA FilesInitially == Files!Init => FilesInv
<1> SUFFICES ASSUME Files!Init PROVE FilesInv
    OBVIOUS
<1>1. \A p \in Profiles : links[p] \subseteq {Files!Extension(p, k, "-") : k \in Kinds}
    BY DEF Files!Init
<1>2. \A p \in Profiles : \A u \in links[p] : u \in Uids /\ u[1] = p /\ Files!Kind(u) # 0
    BY <1>1, KindsAreNumbers DEF Files!Extension, Files!Kind, Uids
<1>3. items = {Files!Global} \cup {Files!Main(p) : p \in Existing} \cup UNION {links[p] : p \in Existing}
    BY DEF Files!Init
<1>4. \A u \in items : \/ u = Files!Global
                       \/ \E p \in Existing : u = Files!Main(p)
                       \/ \E p \in Existing : u \in links[p]
    BY <1>3
<1>5. \A p \in Profiles \cup {"Merge"} : Files!Main(p) \in Uids /\ Files!Main(p)[1] = p /\ Files!Kind(Files!Main(p)) = 0
    BY DEF Files!Main, Files!Kind, Uids
<1>6. items \in SUBSET Uids
    BY <1>2, <1>4, <1>5, ProfileUids DEF Files!Global
<1>7. links \in [Profiles -> SUBSET Uids]
    <2>1. links = [p \in Profiles |-> links[p]]
        BY DEF Files!Init
    <2> QED BY <1>2, <2>1
<1>8. saved.items = items /\ saved.links = links /\ saved = [items |-> items, links |-> links]
    BY DEF Files!Init
<1>9. request = [r \in ProfileTasks |-> Files!NoRequest] /\ boot = [at |-> "load", active |-> {}] /\ files = items
    BY DEF Files!Init
<1>10. \A r \in ProfileTasks : request[r].op = "none" /\ request[r].at = "none" /\ request[r].own = {}
    BY <1>9 DEF Files!NoRequest
<1>14. draft.at = "none" /\ draft.items = {} /\ \A p \in Profiles : draft.links[p] = {}
    BY DEF Files!Init, Files!NoDraft
<1>11. FilesTypeOK
    <2>1. Files!NoRequest \in FileRequests
        BY DEF Files!NoRequest, FileRequests
    <2>2. draft \in [at : {"none", "edited", "applied"}, items : SUBSET Uids, links : [Profiles -> SUBSET Uids]]
        BY DEF Files!Init, Files!NoDraft
    <2> QED BY <1>6, <1>7, <1>8, <1>9, <2>1, <2>2 DEF FilesTypeOK
<1>12. ItemsAreProfiles
    <2>1. ASSUME NEW u \in items, Files!Kind(u) = 0
          PROVE  u = Files!Main(u[1]) /\ (u = Files!Global \/ u[1] \in Profiles)
        BY <1>2, <1>4, <1>5, <2>1, ProfileUids DEF Files!Global
    <2> QED BY <1>8, <1>14, <2>1 DEF ItemsAreProfiles
<1>13. Files!ListedIsStored
    <2> SUFFICES ASSUME NEW u \in items, Files!Kind(u) = 0, u # Files!Global PROVE links[u[1]] \subseteq items
        BY <1>9 DEF Files!ListedIsStored
    <2>1. PICK p \in Existing : u = Files!Main(p)
        BY <1>2, <1>4, ProfileUids
    <2>2. u[1] = p
        BY <2>1 DEF Files!Main
    <2> QED BY <1>3, <2>2
<1> QED BY <1>2, <1>8, <1>9, <1>10, <1>11, <1>12, <1>13, <1>14
       DEF FilesInv, DraftIsListed, LinksAreOwn, RequestFitsProfile, OwnIsListed,
           AppendedIsWritten, SweepSparesTheList, SavedIsListed, Files!ListedIsStored

\* One lemma for each action: it keeps FilesInv.
LEMMA FilesBegin ==
    ASSUME FilesInv, NEW r \in ProfileTasks, NEW p \in Profiles, NEW l \in {"fetch", "extend"}, Files!Begin(r, p,
           l) PROVE FilesInv'
<1> USE DEF FilesInv, Files!Begin, Files!Goto, Files!TakePermit, Files!ReleasePermit
<1>0. \A q \in ProfileTasks : request'[q].at = "append" => Files!NextItem(q)' = Files!NextItem(q)
    <2> SUFFICES ASSUME NEW q \in ProfileTasks, request'[q].at = "append" PROVE Files!NextItem(q)' = Files!NextItem(q)
        OBVIOUS
    <2>1. request'[q].own = request[q].own /\ request'[q].p = request[q].p
        BY DEF FilesTypeOK, FileRequests
    <2> QED BY <2>1, NextIsKept
<1>1. FilesTypeOK'
    <2>1. request' \in [ProfileTasks -> FileRequests]
        BY DEF FilesTypeOK, FileRequests
    <2>2. items' \in SUBSET Uids /\ links' \in [Profiles -> SUBSET Uids]
        BY DEF FilesTypeOK, FileRequests
    <2>3. saved' \in [items : SUBSET Uids, links : [Profiles -> SUBSET Uids]]
        BY DEF FilesTypeOK, FileRequests
    <2>4. boot' \in [at : {"load", "sweep", "done"}, active : SUBSET Uids]
        BY DEF FilesTypeOK
    <2>5. draft' \in [at : {"none", "edited", "applied"}, items : SUBSET Uids, links : [Profiles -> SUBSET Uids]]
        BY DEF FilesTypeOK
    <2> QED BY <2>1, <2>2, <2>3, <2>4, <2>5 DEF FilesTypeOK
<1>2. ItemsAreProfiles'
    BY <1>0 DEF FilesTypeOK, ItemsAreProfiles, RequestFitsProfile
<1>3. LinksAreOwn'
    BY <1>0 DEF FilesTypeOK, FileRequests, LinksAreOwn, RequestFitsProfile
<1>4. RequestFitsProfile'
    BY <1>0 DEF FilesTypeOK, FileRequests, RequestFitsProfile, LinksAreOwn
<1>5. OwnIsListed'
    BY <1>0 DEF FilesTypeOK, FileRequests, OwnIsListed, RequestFitsProfile, Files!ListedIsStored,
        ItemsAreProfiles
<1>6. AppendedIsWritten'
    BY <1>0 DEF FilesTypeOK, FileRequests, AppendedIsWritten, RequestFitsProfile, LinksAreOwn,
        SweepSparesTheList
<1>7. SweepSparesTheList'
    BY <1>0 DEF FilesTypeOK, FileRequests, SweepSparesTheList, AppendedIsWritten, RequestFitsProfile
<1>8. SavedIsListed'
    BY <1>0 DEF FilesTypeOK, FileRequests, SavedIsListed, RequestFitsProfile, ItemsAreProfiles, LinksAreOwn,
        OwnIsListed, Files!ListedIsStored
<1>9. Files!ListedIsStored'
    BY <1>0 DEF FilesTypeOK, FileRequests, SavedIsListed, Files!ListedIsStored, RequestFitsProfile,
        ItemsAreProfiles, LinksAreOwn, OwnIsListed, AppendedIsWritten, SweepSparesTheList
<1>10. DraftIsListed'
    BY <1>0 DEF FilesTypeOK, FileRequests, DraftIsListed, RequestFitsProfile, ItemsAreProfiles, LinksAreOwn,
        OwnIsListed, Files!ListedIsStored
<1> QED BY <1>1, <1>2, <1>3, <1>4, <1>5, <1>6, <1>7, <1>8, <1>9, <1>10 DEF FilesInv

LEMMA FilesUpdateProfile ==
    ASSUME FilesInv, NEW r \in ProfileTasks, NEW p \in Profiles, Files!UpdateProfile(r, p) PROVE FilesInv'
<1> USE DEF FilesInv, Files!UpdateProfile, Files!Goto, Files!TakePermit, Files!ReleasePermit
<1>0. \A q \in ProfileTasks : request'[q].at = "append" => Files!NextItem(q)' = Files!NextItem(q)
    <2> SUFFICES ASSUME NEW q \in ProfileTasks, request'[q].at = "append" PROVE Files!NextItem(q)' = Files!NextItem(q)
        OBVIOUS
    <2>1. request'[q].own = request[q].own /\ request'[q].p = request[q].p
        BY DEF FilesTypeOK, FileRequests
    <2> QED BY <2>1, NextIsKept
<1>00. p \notin doomed => links[p] \subseteq items
    <2>1. Files!Main(p) \in items /\ Files!Main(p)[1] = p /\ Files!Kind(Files!Main(p)) = 0
          /\ Files!Main(p) # Files!Global
        BY ProfileUids DEF Files!Main, Files!Kind, Files!Global
    <2> QED BY <2>1 DEF Files!ListedIsStored
<1>1. FilesTypeOK'
    <2>1. request' \in [ProfileTasks -> FileRequests]
        BY DEF FilesTypeOK, FileRequests
    <2>2. items' \in SUBSET Uids /\ links' \in [Profiles -> SUBSET Uids]
        BY DEF FilesTypeOK, FileRequests
    <2>3. saved' \in [items : SUBSET Uids, links : [Profiles -> SUBSET Uids]]
        BY DEF FilesTypeOK, FileRequests
    <2>4. boot' \in [at : {"load", "sweep", "done"}, active : SUBSET Uids]
        BY DEF FilesTypeOK
    <2>5. draft' \in [at : {"none", "edited", "applied"}, items : SUBSET Uids, links : [Profiles -> SUBSET Uids]]
        BY DEF FilesTypeOK
    <2> QED BY <2>1, <2>2, <2>3, <2>4, <2>5 DEF FilesTypeOK
<1>2. ItemsAreProfiles'
    BY <1>0, <1>00 DEF FilesTypeOK, ItemsAreProfiles, RequestFitsProfile
<1>3. LinksAreOwn'
    BY <1>0, <1>00 DEF FilesTypeOK, FileRequests, LinksAreOwn, RequestFitsProfile
<1>4. RequestFitsProfile'
    BY <1>0, <1>00 DEF FilesTypeOK, FileRequests, RequestFitsProfile, LinksAreOwn
<1>5. OwnIsListed'
    BY <1>0, <1>00 DEF FilesTypeOK, FileRequests, OwnIsListed, RequestFitsProfile, Files!ListedIsStored,
        ItemsAreProfiles
<1>6. AppendedIsWritten'
    BY <1>0, <1>00 DEF FilesTypeOK, FileRequests, AppendedIsWritten, RequestFitsProfile, LinksAreOwn,
        SweepSparesTheList
<1>7. SweepSparesTheList'
    BY <1>0, <1>00 DEF FilesTypeOK, FileRequests, SweepSparesTheList, AppendedIsWritten, RequestFitsProfile
<1>8. SavedIsListed'
    BY <1>0, <1>00 DEF FilesTypeOK, FileRequests, SavedIsListed, RequestFitsProfile, ItemsAreProfiles,
        LinksAreOwn, OwnIsListed, Files!ListedIsStored
<1>9. Files!ListedIsStored'
    BY <1>0, <1>00 DEF FilesTypeOK, FileRequests, SavedIsListed, Files!ListedIsStored, RequestFitsProfile,
        ItemsAreProfiles, LinksAreOwn, OwnIsListed, AppendedIsWritten, SweepSparesTheList
<1>10. DraftIsListed'
    BY <1>0, <1>00 DEF FilesTypeOK, FileRequests, DraftIsListed, RequestFitsProfile, ItemsAreProfiles, LinksAreOwn,
        OwnIsListed, Files!ListedIsStored
<1> QED BY <1>1, <1>2, <1>3, <1>4, <1>5, <1>6, <1>7, <1>8, <1>9, <1>10 DEF FilesInv

LEMMA FilesFetch ==
    ASSUME FilesInv, NEW r \in ProfileTasks, Files!Fetch(r) PROVE FilesInv'
<1> USE DEF FilesInv, Files!Fetch, Files!Goto, Files!TakePermit, Files!ReleasePermit, Files!TryAgain
<1>0. \A q \in ProfileTasks : request'[q].at = "append" => Files!NextItem(q)' = Files!NextItem(q)
    <2> SUFFICES ASSUME NEW q \in ProfileTasks, request'[q].at = "append" PROVE Files!NextItem(q)' = Files!NextItem(q)
        OBVIOUS
    <2>1. request'[q].own = request[q].own /\ request'[q].p = request[q].p
        BY DEF FilesTypeOK, FileRequests
    <2> QED BY <2>1, NextIsKept
<1>1. FilesTypeOK'
    <2>1. request' \in [ProfileTasks -> FileRequests]
        BY DEF FilesTypeOK, FileRequests
    <2>2. items' \in SUBSET Uids /\ links' \in [Profiles -> SUBSET Uids]
        BY DEF FilesTypeOK, FileRequests
    <2>3. saved' \in [items : SUBSET Uids, links : [Profiles -> SUBSET Uids]]
        BY DEF FilesTypeOK, FileRequests
    <2>4. boot' \in [at : {"load", "sweep", "done"}, active : SUBSET Uids]
        BY DEF FilesTypeOK
    <2>5. draft' \in [at : {"none", "edited", "applied"}, items : SUBSET Uids, links : [Profiles -> SUBSET Uids]]
        BY DEF FilesTypeOK
    <2> QED BY <2>1, <2>2, <2>3, <2>4, <2>5 DEF FilesTypeOK
<1>2. ItemsAreProfiles'
    BY <1>0 DEF FilesTypeOK, ItemsAreProfiles, RequestFitsProfile
<1>3. LinksAreOwn'
    BY <1>0 DEF FilesTypeOK, FileRequests, LinksAreOwn, RequestFitsProfile
<1>4. RequestFitsProfile'
    BY <1>0, SMTT(20) DEF FilesTypeOK, FileRequests, RequestFitsProfile, LinksAreOwn
<1>5. OwnIsListed'
    BY <1>0 DEF FilesTypeOK, FileRequests, OwnIsListed, RequestFitsProfile, Files!ListedIsStored,
        ItemsAreProfiles
<1>6. AppendedIsWritten'
    BY <1>0 DEF FilesTypeOK, FileRequests, AppendedIsWritten, RequestFitsProfile, LinksAreOwn,
        SweepSparesTheList
<1>7. SweepSparesTheList'
    BY <1>0 DEF FilesTypeOK, FileRequests, SweepSparesTheList, AppendedIsWritten, RequestFitsProfile
<1>8. SavedIsListed'
    BY <1>0 DEF FilesTypeOK, FileRequests, SavedIsListed, RequestFitsProfile, ItemsAreProfiles, LinksAreOwn,
        OwnIsListed, Files!ListedIsStored
<1>9. Files!ListedIsStored'
    BY <1>0 DEF FilesTypeOK, FileRequests, SavedIsListed, Files!ListedIsStored, RequestFitsProfile,
        ItemsAreProfiles, LinksAreOwn, OwnIsListed, AppendedIsWritten, SweepSparesTheList
<1>10. DraftIsListed'
    BY <1>0 DEF FilesTypeOK, FileRequests, DraftIsListed, RequestFitsProfile, ItemsAreProfiles, LinksAreOwn,
        OwnIsListed, Files!ListedIsStored
<1> QED BY <1>1, <1>2, <1>3, <1>4, <1>5, <1>6, <1>7, <1>8, <1>9, <1>10 DEF FilesInv

LEMMA FilesAppendItem ==
    ASSUME FilesInv, NEW r \in ProfileTasks, Files!AppendItem(r) PROVE FilesInv'
<1> USE DEF FilesInv, Files!AppendItem, Files!Goto, Files!TakePermit, Files!ReleasePermit, Files!WriteFile
<1>0. \A q \in ProfileTasks : request'[q].at = "append" => Files!NextItem(q)' = Files!NextItem(q)
    <2> SUFFICES ASSUME NEW q \in ProfileTasks, request'[q].at = "append" PROVE Files!NextItem(q)' = Files!NextItem(q)
        OBVIOUS
    <2>1. request'[q].own = request[q].own /\ request'[q].p = request[q].p
        BY DEF FilesTypeOK, FileRequests
    <2> QED BY <2>1, NextIsKept
<1>00. /\ Files!NextItem(r) \in Uids /\ Files!NextItem(r)[1] = request[r].p /\ request[r].p \in Profiles
       /\ Files!Missing(r) = {} => Files!NextItem(r) = Files!Main(request[r].p) /\ Files!Kind(Files!NextItem(r)) = 0
       /\ Files!Missing(r) # {} => Files!Kind(Files!NextItem(r)) # 0
    BY NextIsOwn DEF RequestFitsProfile
<1>1. FilesTypeOK'
    <2>1. request' \in [ProfileTasks -> FileRequests]
        BY SMTT(20) DEF FilesTypeOK, FileRequests
    <2>2. items' \in SUBSET Uids /\ links' \in [Profiles -> SUBSET Uids]
        BY DEF FilesTypeOK, FileRequests
    <2>3. saved' \in [items : SUBSET Uids, links : [Profiles -> SUBSET Uids]]
        BY DEF FilesTypeOK, FileRequests
    <2>4. boot' \in [at : {"load", "sweep", "done"}, active : SUBSET Uids]
        BY DEF FilesTypeOK
    <2>5. draft' \in [at : {"none", "edited", "applied"}, items : SUBSET Uids, links : [Profiles -> SUBSET Uids]]
        BY DEF FilesTypeOK
    <2> QED BY <2>1, <2>2, <2>3, <2>4, <2>5 DEF FilesTypeOK
<1>2. ItemsAreProfiles'
    BY <1>0, <1>00 DEF FilesTypeOK, ItemsAreProfiles, RequestFitsProfile
<1>3. LinksAreOwn'
    BY <1>0, <1>00 DEF FilesTypeOK, FileRequests, LinksAreOwn, RequestFitsProfile
<1>4. RequestFitsProfile'
    BY <1>0, <1>00 DEF FilesTypeOK, FileRequests, RequestFitsProfile, LinksAreOwn
<1>5. OwnIsListed'
    BY <1>0, <1>00 DEF FilesTypeOK, FileRequests, OwnIsListed, RequestFitsProfile, Files!ListedIsStored,
        ItemsAreProfiles
<1>6. AppendedIsWritten'
    BY <1>0, <1>00 DEF FilesTypeOK, FileRequests, AppendedIsWritten, RequestFitsProfile, LinksAreOwn,
        SweepSparesTheList
<1>7. SweepSparesTheList'
    BY <1>0, <1>00 DEF FilesTypeOK, FileRequests, SweepSparesTheList, AppendedIsWritten, RequestFitsProfile
<1>8. SavedIsListed'
    BY <1>0, <1>00 DEF FilesTypeOK, FileRequests, SavedIsListed, RequestFitsProfile, ItemsAreProfiles,
        LinksAreOwn, OwnIsListed, Files!ListedIsStored
<1>9. Files!ListedIsStored'
    BY <1>0, <1>00 DEF FilesTypeOK, FileRequests, SavedIsListed, Files!ListedIsStored, RequestFitsProfile,
        ItemsAreProfiles, LinksAreOwn, OwnIsListed, AppendedIsWritten, SweepSparesTheList
<1>10. DraftIsListed'
    BY <1>0, <1>00 DEF FilesTypeOK, FileRequests, DraftIsListed, RequestFitsProfile, ItemsAreProfiles, LinksAreOwn,
        OwnIsListed, Files!ListedIsStored
<1> QED BY <1>1, <1>2, <1>3, <1>4, <1>5, <1>6, <1>7, <1>8, <1>9, <1>10 DEF FilesInv

LEMMA FilesCommitAppend ==
    ASSUME FilesInv, NEW r \in ProfileTasks, Files!CommitAppend(r) PROVE FilesInv'
<1> USE DEF FilesInv, Files!CommitAppend, Files!Goto, Files!TakePermit, Files!ReleasePermit, Files!TryAgain
<1>0. \A q \in ProfileTasks : request'[q].at = "append" => Files!NextItem(q)' = Files!NextItem(q)
    <2> SUFFICES ASSUME NEW q \in ProfileTasks, request'[q].at = "append" PROVE Files!NextItem(q)' = Files!NextItem(q)
        OBVIOUS
    <2>1. request'[q].own = request[q].own /\ request'[q].p = request[q].p
        BY DEF FilesTypeOK, FileRequests
    <2> QED BY <2>1, NextIsKept
<1>00. /\ Files!NextItem(r) \in Uids /\ Files!NextItem(r)[1] = request[r].p /\ request[r].p \in Profiles
       /\ Files!Missing(r) = {} => Files!NextItem(r) = Files!Main(request[r].p) /\ Files!Kind(Files!NextItem(r)) = 0
       /\ Files!Missing(r) # {} => Files!Kind(Files!NextItem(r)) # 0
    BY NextIsOwn DEF RequestFitsProfile
<1>1. FilesTypeOK'
    BY <1>0, <1>00 DEF FilesTypeOK, FileRequests
<1>2. ItemsAreProfiles'
    BY <1>0, <1>00 DEF FilesTypeOK, ItemsAreProfiles, RequestFitsProfile
<1>3. LinksAreOwn'
    BY <1>0, <1>00 DEF FilesTypeOK, FileRequests, LinksAreOwn, RequestFitsProfile
<1>4. RequestFitsProfile'
    BY <1>0, <1>00 DEF FilesTypeOK, FileRequests, RequestFitsProfile, LinksAreOwn
<1>5. OwnIsListed'
    BY <1>0, <1>00 DEF FilesTypeOK, FileRequests, OwnIsListed, RequestFitsProfile, Files!ListedIsStored,
        ItemsAreProfiles
<1>6. AppendedIsWritten'
    BY <1>0, <1>00 DEF FilesTypeOK, FileRequests, AppendedIsWritten, RequestFitsProfile, LinksAreOwn,
        SweepSparesTheList
<1>7. SweepSparesTheList'
    BY <1>0, <1>00 DEF FilesTypeOK, FileRequests, SweepSparesTheList, AppendedIsWritten, RequestFitsProfile
<1>8. SavedIsListed'
    BY <1>0, <1>00 DEF FilesTypeOK, FileRequests, SavedIsListed, RequestFitsProfile, ItemsAreProfiles,
        LinksAreOwn, OwnIsListed, Files!ListedIsStored
<1>9. Files!ListedIsStored'
    BY <1>0, <1>00 DEF FilesTypeOK, FileRequests, SavedIsListed, Files!ListedIsStored, RequestFitsProfile,
        ItemsAreProfiles, LinksAreOwn, OwnIsListed, AppendedIsWritten, SweepSparesTheList
<1>10. DraftIsListed'
    BY <1>0, <1>00 DEF FilesTypeOK, FileRequests, DraftIsListed, RequestFitsProfile, ItemsAreProfiles, LinksAreOwn,
        OwnIsListed, Files!ListedIsStored
<1> QED BY <1>1, <1>2, <1>3, <1>4, <1>5, <1>6, <1>7, <1>8, <1>9, <1>10 DEF FilesInv

LEMMA FilesSaveFile ==
    ASSUME FilesInv, NEW r \in ProfileTasks, Files!SaveFile(r) PROVE FilesInv'
<1> USE DEF FilesInv, Files!SaveFile, Files!Goto, Files!TakePermit, Files!ReleasePermit
<1>0. \A q \in ProfileTasks : request'[q].at = "append" => Files!NextItem(q)' = Files!NextItem(q)
    <2> SUFFICES ASSUME NEW q \in ProfileTasks, request'[q].at = "append" PROVE Files!NextItem(q)' = Files!NextItem(q)
        OBVIOUS
    <2>1. request'[q].own = request[q].own /\ request'[q].p = request[q].p
        BY DEF FilesTypeOK, FileRequests
    <2> QED BY <2>1, NextIsKept
<1>1. FilesTypeOK'
    <2>1. request' \in [ProfileTasks -> FileRequests]
        BY DEF FilesTypeOK, FileRequests
    <2>2. items' \in SUBSET Uids /\ links' \in [Profiles -> SUBSET Uids]
        BY DEF FilesTypeOK, FileRequests
    <2>3. saved' \in [items : SUBSET Uids, links : [Profiles -> SUBSET Uids]]
        BY DEF FilesTypeOK, FileRequests
    <2>4. boot' \in [at : {"load", "sweep", "done"}, active : SUBSET Uids]
        BY DEF FilesTypeOK
    <2>5. draft' \in [at : {"none", "edited", "applied"}, items : SUBSET Uids, links : [Profiles -> SUBSET Uids]]
        BY DEF FilesTypeOK
    <2> QED BY <2>1, <2>2, <2>3, <2>4, <2>5 DEF FilesTypeOK
<1>2. ItemsAreProfiles'
    BY <1>0 DEF FilesTypeOK, ItemsAreProfiles, RequestFitsProfile
<1>3. LinksAreOwn'
    BY <1>0 DEF FilesTypeOK, FileRequests, LinksAreOwn, RequestFitsProfile
<1>4. RequestFitsProfile'
    BY <1>0 DEF FilesTypeOK, FileRequests, RequestFitsProfile, LinksAreOwn
<1>5. OwnIsListed'
    BY <1>0 DEF FilesTypeOK, FileRequests, OwnIsListed, RequestFitsProfile, Files!ListedIsStored,
        ItemsAreProfiles
<1>6. AppendedIsWritten'
    BY <1>0 DEF FilesTypeOK, FileRequests, AppendedIsWritten, RequestFitsProfile, LinksAreOwn,
        SweepSparesTheList
<1>7. SweepSparesTheList'
    BY <1>0 DEF FilesTypeOK, FileRequests, SweepSparesTheList, AppendedIsWritten, RequestFitsProfile
<1>8. SavedIsListed'
    BY <1>0 DEF FilesTypeOK, FileRequests, SavedIsListed, RequestFitsProfile, ItemsAreProfiles, LinksAreOwn,
        OwnIsListed, Files!ListedIsStored
<1>9. Files!ListedIsStored'
    BY <1>0 DEF FilesTypeOK, FileRequests, SavedIsListed, Files!ListedIsStored, RequestFitsProfile,
        ItemsAreProfiles, LinksAreOwn, OwnIsListed, AppendedIsWritten, SweepSparesTheList
<1>10. DraftIsListed'
    BY <1>0 DEF FilesTypeOK, FileRequests, DraftIsListed, RequestFitsProfile, ItemsAreProfiles, LinksAreOwn,
        OwnIsListed, Files!ListedIsStored
<1> QED BY <1>1, <1>2, <1>3, <1>4, <1>5, <1>6, <1>7, <1>8, <1>9, <1>10 DEF FilesInv

LEMMA FilesUpdateItem ==
    ASSUME FilesInv, NEW r \in ProfileTasks, Files!UpdateItem(r) PROVE FilesInv'
<1> USE DEF FilesInv, Files!UpdateItem, Files!Goto, Files!TakePermit, Files!ReleasePermit, Files!WriteFile
<1>0. \A q \in ProfileTasks : request'[q].at = "append" => Files!NextItem(q)' = Files!NextItem(q)
    <2> SUFFICES ASSUME NEW q \in ProfileTasks, request'[q].at = "append" PROVE Files!NextItem(q)' = Files!NextItem(q)
        OBVIOUS
    <2>1. request'[q].own = request[q].own /\ request'[q].p = request[q].p
        BY DEF FilesTypeOK, FileRequests
    <2> QED BY <2>1, NextIsKept
<1>1. FilesTypeOK'
    <2>1. request' \in [ProfileTasks -> FileRequests]
        BY DEF FilesTypeOK, FileRequests
    <2>2. items' \in SUBSET Uids /\ links' \in [Profiles -> SUBSET Uids]
        BY DEF FilesTypeOK, FileRequests
    <2>3. saved' \in [items : SUBSET Uids, links : [Profiles -> SUBSET Uids]]
        BY DEF FilesTypeOK, FileRequests
    <2>4. boot' \in [at : {"load", "sweep", "done"}, active : SUBSET Uids]
        BY DEF FilesTypeOK
    <2>5. draft' \in [at : {"none", "edited", "applied"}, items : SUBSET Uids, links : [Profiles -> SUBSET Uids]]
        BY DEF FilesTypeOK
    <2> QED BY <2>1, <2>2, <2>3, <2>4, <2>5 DEF FilesTypeOK
<1>2. ItemsAreProfiles'
    BY <1>0 DEF FilesTypeOK, ItemsAreProfiles, RequestFitsProfile
<1>3. LinksAreOwn'
    BY <1>0 DEF FilesTypeOK, FileRequests, LinksAreOwn, RequestFitsProfile
<1>4. RequestFitsProfile'
    BY <1>0 DEF FilesTypeOK, FileRequests, RequestFitsProfile, LinksAreOwn
<1>5. OwnIsListed'
    BY <1>0 DEF FilesTypeOK, FileRequests, OwnIsListed, RequestFitsProfile, Files!ListedIsStored,
        ItemsAreProfiles
<1>6. AppendedIsWritten'
    BY <1>0 DEF FilesTypeOK, FileRequests, AppendedIsWritten, RequestFitsProfile, LinksAreOwn,
        SweepSparesTheList
<1>7. SweepSparesTheList'
    BY <1>0 DEF FilesTypeOK, FileRequests, SweepSparesTheList, AppendedIsWritten, RequestFitsProfile
<1>8. SavedIsListed'
    BY <1>0 DEF FilesTypeOK, FileRequests, SavedIsListed, RequestFitsProfile, ItemsAreProfiles, LinksAreOwn,
        OwnIsListed, Files!ListedIsStored
<1>9. Files!ListedIsStored'
    BY <1>0 DEF FilesTypeOK, FileRequests, SavedIsListed, Files!ListedIsStored, RequestFitsProfile,
        ItemsAreProfiles, LinksAreOwn, OwnIsListed, AppendedIsWritten, SweepSparesTheList
<1>10. DraftIsListed'
    BY <1>0 DEF FilesTypeOK, FileRequests, DraftIsListed, RequestFitsProfile, ItemsAreProfiles, LinksAreOwn,
        OwnIsListed, Files!ListedIsStored
<1> QED BY <1>1, <1>2, <1>3, <1>4, <1>5, <1>6, <1>7, <1>8, <1>9, <1>10 DEF FilesInv

LEMMA FilesCommitUpdate ==
    ASSUME FilesInv, NEW r \in ProfileTasks, Files!CommitUpdate(r) PROVE FilesInv'
<1> USE DEF FilesInv, Files!CommitUpdate, Files!Goto, Files!TakePermit, Files!ReleasePermit
<1>0. \A q \in ProfileTasks : request'[q].at = "append" => Files!NextItem(q)' = Files!NextItem(q)
    <2> SUFFICES ASSUME NEW q \in ProfileTasks, request'[q].at = "append" PROVE Files!NextItem(q)' = Files!NextItem(q)
        OBVIOUS
    <2>1. request'[q].own = request[q].own /\ request'[q].p = request[q].p
        BY DEF FilesTypeOK, FileRequests
    <2> QED BY <2>1, NextIsKept
<1>1. FilesTypeOK'
    <2>1. request' \in [ProfileTasks -> FileRequests]
        BY DEF FilesTypeOK, FileRequests
    <2>2. items' \in SUBSET Uids /\ links' \in [Profiles -> SUBSET Uids]
        BY DEF FilesTypeOK, FileRequests
    <2>3. saved' \in [items : SUBSET Uids, links : [Profiles -> SUBSET Uids]]
        BY DEF FilesTypeOK, FileRequests
    <2>4. boot' \in [at : {"load", "sweep", "done"}, active : SUBSET Uids]
        BY DEF FilesTypeOK
    <2>5. draft' \in [at : {"none", "edited", "applied"}, items : SUBSET Uids, links : [Profiles -> SUBSET Uids]]
        BY DEF FilesTypeOK
    <2> QED BY <2>1, <2>2, <2>3, <2>4, <2>5 DEF FilesTypeOK
<1>2. ItemsAreProfiles'
    BY <1>0 DEF FilesTypeOK, ItemsAreProfiles, RequestFitsProfile
<1>3. LinksAreOwn'
    <2>1. UNCHANGED <<saved, draft>> /\ (links' = links \/ links' = [links EXCEPT ![request[r].p] = request[r].own])
        BY DEF FilesTypeOK
    <2>2. \A u \in request[r].own : u[1] = request[r].p
        BY DEF RequestFitsProfile
    <2>3. DOMAIN links = Profiles /\ LinksAreOwn
        BY DEF FilesTypeOK
    <2> HIDE DEF FilesInv, Files!CommitUpdate
    <2> QED BY <2>1, <2>2, <2>3 DEF LinksAreOwn
<1>4. RequestFitsProfile'
    BY <1>0 DEF FilesTypeOK, FileRequests, RequestFitsProfile, LinksAreOwn
<1>5. OwnIsListed'
    BY <1>0 DEF FilesTypeOK, FileRequests, OwnIsListed, RequestFitsProfile, Files!ListedIsStored,
        ItemsAreProfiles
<1>6. AppendedIsWritten'
    BY <1>0 DEF FilesTypeOK, FileRequests, AppendedIsWritten, RequestFitsProfile, LinksAreOwn,
        SweepSparesTheList
<1>7. SweepSparesTheList'
    BY <1>0 DEF FilesTypeOK, FileRequests, SweepSparesTheList, AppendedIsWritten, RequestFitsProfile
<1>8. SavedIsListed'
    BY <1>0 DEF FilesTypeOK, FileRequests, SavedIsListed, RequestFitsProfile, ItemsAreProfiles, LinksAreOwn,
        OwnIsListed, Files!ListedIsStored
<1>9. Files!ListedIsStored'
    BY <1>0 DEF FilesTypeOK, FileRequests, SavedIsListed, Files!ListedIsStored, RequestFitsProfile,
        ItemsAreProfiles, LinksAreOwn, OwnIsListed, AppendedIsWritten, SweepSparesTheList
<1>10. DraftIsListed'
    BY <1>0 DEF FilesTypeOK, FileRequests, DraftIsListed, RequestFitsProfile, ItemsAreProfiles, LinksAreOwn,
        OwnIsListed, Files!ListedIsStored
<1> QED BY <1>1, <1>2, <1>3, <1>4, <1>5, <1>6, <1>7, <1>8, <1>9, <1>10 DEF FilesInv

LEMMA FilesDeleteItem ==
    ASSUME FilesInv, NEW r \in ProfileTasks, NEW p \in Profiles, Files!DeleteItem(r, p) PROVE FilesInv'
<1> USE DEF FilesInv, Files!DeleteItem, Files!Goto, Files!TakePermit, Files!ReleasePermit, Files!Main
<1>0. \A q \in ProfileTasks : request'[q].at = "append" => Files!NextItem(q)' = Files!NextItem(q)
    <2> SUFFICES ASSUME NEW q \in ProfileTasks, request'[q].at = "append" PROVE Files!NextItem(q)' = Files!NextItem(q)
        OBVIOUS
    <2>1. request'[q].own = request[q].own /\ request'[q].p = request[q].p
        BY DEF FilesTypeOK, FileRequests
    <2> QED BY <2>1, NextIsKept
<1>00. \A q \in ProfileTasks : request[q].at = "append" => Files!NextItem(q)[1] = request[q].p
    <2> HIDE DEF Files!NextItem
    <2> QED BY NextIsOwn DEF RequestFitsProfile
<1>1. FilesTypeOK'
    <2>1. request' \in [ProfileTasks -> FileRequests]
        BY DEF FilesTypeOK, FileRequests
    <2>2. items' \in SUBSET Uids /\ links' \in [Profiles -> SUBSET Uids]
        BY DEF FilesTypeOK, FileRequests
    <2>3. saved' \in [items : SUBSET Uids, links : [Profiles -> SUBSET Uids]]
        BY DEF FilesTypeOK, FileRequests
    <2>4. boot' \in [at : {"load", "sweep", "done"}, active : SUBSET Uids]
        BY DEF FilesTypeOK
    <2>5. draft' \in [at : {"none", "edited", "applied"}, items : SUBSET Uids, links : [Profiles -> SUBSET Uids]]
        BY DEF FilesTypeOK
    <2> QED BY <2>1, <2>2, <2>3, <2>4, <2>5 DEF FilesTypeOK
<1>2. ItemsAreProfiles'
    BY <1>0, <1>00 DEF FilesTypeOK, ItemsAreProfiles, RequestFitsProfile
<1>3. LinksAreOwn'
    BY <1>0, <1>00 DEF FilesTypeOK, FileRequests, LinksAreOwn, RequestFitsProfile
<1>4. RequestFitsProfile'
    BY <1>0, <1>00 DEF FilesTypeOK, FileRequests, RequestFitsProfile, LinksAreOwn
<1>5. OwnIsListed'
    BY <1>0, <1>00 DEF FilesTypeOK, FileRequests, OwnIsListed, RequestFitsProfile, Files!ListedIsStored,
        ItemsAreProfiles
<1>6. AppendedIsWritten'
    BY <1>0, <1>00 DEF FilesTypeOK, FileRequests, AppendedIsWritten, RequestFitsProfile, LinksAreOwn,
        SweepSparesTheList
<1>7. SweepSparesTheList'
    BY <1>0, <1>00 DEF FilesTypeOK, FileRequests, SweepSparesTheList, AppendedIsWritten, RequestFitsProfile
<1>8. SavedIsListed'
    BY <1>0, <1>00 DEF FilesTypeOK, FileRequests, SavedIsListed, RequestFitsProfile, ItemsAreProfiles,
        LinksAreOwn, OwnIsListed, Files!ListedIsStored
<1>9. Files!ListedIsStored'
    BY <1>0, <1>00 DEF FilesTypeOK, FileRequests, SavedIsListed, Files!ListedIsStored, RequestFitsProfile,
        ItemsAreProfiles, LinksAreOwn, OwnIsListed, AppendedIsWritten, SweepSparesTheList
<1>10. DraftIsListed'
    BY <1>0, <1>00 DEF FilesTypeOK, FileRequests, DraftIsListed, RequestFitsProfile, ItemsAreProfiles, LinksAreOwn,
        OwnIsListed, Files!ListedIsStored
<1> QED BY <1>1, <1>2, <1>3, <1>4, <1>5, <1>6, <1>7, <1>8, <1>9, <1>10 DEF FilesInv

LEMMA FilesSaveDeletion ==
    ASSUME FilesInv, NEW r \in ProfileTasks, Files!SaveDeletion(r) PROVE FilesInv'
<1> USE DEF FilesInv, Files!SaveDeletion, Files!Goto, Files!TakePermit, Files!ReleasePermit
<1>0. \A q \in ProfileTasks : request'[q].at = "append" => Files!NextItem(q)' = Files!NextItem(q)
    <2> SUFFICES ASSUME NEW q \in ProfileTasks, request'[q].at = "append" PROVE Files!NextItem(q)' = Files!NextItem(q)
        OBVIOUS
    <2>1. request'[q].own = request[q].own /\ request'[q].p = request[q].p
        BY DEF FilesTypeOK, FileRequests
    <2> QED BY <2>1, NextIsKept
<1>1. FilesTypeOK'
    <2>1. request' \in [ProfileTasks -> FileRequests]
        BY DEF FilesTypeOK, FileRequests
    <2>2. items' \in SUBSET Uids /\ links' \in [Profiles -> SUBSET Uids]
        BY DEF FilesTypeOK, FileRequests
    <2>3. saved' \in [items : SUBSET Uids, links : [Profiles -> SUBSET Uids]]
        BY DEF FilesTypeOK, FileRequests
    <2>4. boot' \in [at : {"load", "sweep", "done"}, active : SUBSET Uids]
        BY DEF FilesTypeOK
    <2>5. draft' \in [at : {"none", "edited", "applied"}, items : SUBSET Uids, links : [Profiles -> SUBSET Uids]]
        BY DEF FilesTypeOK
    <2> QED BY <2>1, <2>2, <2>3, <2>4, <2>5 DEF FilesTypeOK
<1>2. ItemsAreProfiles'
    BY <1>0 DEF FilesTypeOK, ItemsAreProfiles, RequestFitsProfile
<1>3. LinksAreOwn'
    BY <1>0 DEF FilesTypeOK, FileRequests, LinksAreOwn, RequestFitsProfile
<1>4. RequestFitsProfile'
    BY <1>0 DEF FilesTypeOK, FileRequests, RequestFitsProfile, LinksAreOwn
<1>5. OwnIsListed'
    BY <1>0 DEF FilesTypeOK, FileRequests, OwnIsListed, RequestFitsProfile, Files!ListedIsStored,
        ItemsAreProfiles
<1>6. AppendedIsWritten'
    BY <1>0 DEF FilesTypeOK, FileRequests, AppendedIsWritten, RequestFitsProfile, LinksAreOwn,
        SweepSparesTheList
<1>7. SweepSparesTheList'
    BY <1>0 DEF FilesTypeOK, FileRequests, SweepSparesTheList, AppendedIsWritten, RequestFitsProfile
<1>8. SavedIsListed'
    BY <1>0 DEF FilesTypeOK, FileRequests, SavedIsListed, RequestFitsProfile, ItemsAreProfiles, LinksAreOwn,
        OwnIsListed, Files!ListedIsStored
<1>9. Files!ListedIsStored'
    BY <1>0 DEF FilesTypeOK, FileRequests, SavedIsListed, Files!ListedIsStored, RequestFitsProfile,
        ItemsAreProfiles, LinksAreOwn, OwnIsListed, AppendedIsWritten, SweepSparesTheList
<1>10. DraftIsListed'
    BY <1>0 DEF FilesTypeOK, FileRequests, DraftIsListed, RequestFitsProfile, ItemsAreProfiles, LinksAreOwn,
        OwnIsListed, Files!ListedIsStored
<1> QED BY <1>1, <1>2, <1>3, <1>4, <1>5, <1>6, <1>7, <1>8, <1>9, <1>10 DEF FilesInv

LEMMA FilesCommitDeletion ==
    ASSUME FilesInv, NEW r \in ProfileTasks, Files!CommitDeletion(r) PROVE FilesInv'
<1> USE DEF FilesInv, Files!CommitDeletion, Files!Goto, Files!TakePermit, Files!ReleasePermit
<1>0. \A q \in ProfileTasks : request'[q].at = "append" => Files!NextItem(q)' = Files!NextItem(q)
    <2> SUFFICES ASSUME NEW q \in ProfileTasks, request'[q].at = "append" PROVE Files!NextItem(q)' = Files!NextItem(q)
        OBVIOUS
    <2>1. request'[q].own = request[q].own /\ request'[q].p = request[q].p
        BY DEF FilesTypeOK, FileRequests
    <2> QED BY <2>1, NextIsKept
<1>1. FilesTypeOK'
    <2>1. request' \in [ProfileTasks -> FileRequests]
        BY DEF FilesTypeOK, FileRequests
    <2>2. items' \in SUBSET Uids /\ links' \in [Profiles -> SUBSET Uids]
        BY DEF FilesTypeOK, FileRequests
    <2>3. saved' \in [items : SUBSET Uids, links : [Profiles -> SUBSET Uids]]
        BY DEF FilesTypeOK, FileRequests
    <2>4. boot' \in [at : {"load", "sweep", "done"}, active : SUBSET Uids]
        BY DEF FilesTypeOK
    <2>5. draft' \in [at : {"none", "edited", "applied"}, items : SUBSET Uids, links : [Profiles -> SUBSET Uids]]
        BY DEF FilesTypeOK
    <2> QED BY <2>1, <2>2, <2>3, <2>4, <2>5 DEF FilesTypeOK
<1>2. ItemsAreProfiles'
    BY <1>0 DEF FilesTypeOK, ItemsAreProfiles, RequestFitsProfile
<1>3. LinksAreOwn'
    BY <1>0 DEF FilesTypeOK, FileRequests, LinksAreOwn, RequestFitsProfile
<1>4. RequestFitsProfile'
    BY <1>0, SMTT(20) DEF FilesTypeOK, FileRequests, RequestFitsProfile, LinksAreOwn
<1>5. OwnIsListed'
    BY <1>0 DEF FilesTypeOK, FileRequests, OwnIsListed, RequestFitsProfile, Files!ListedIsStored,
        ItemsAreProfiles
<1>6. AppendedIsWritten'
    <2>1. UNCHANGED <<files, raced, boot, doomed>>
        OBVIOUS
    <2>2. \A q \in ProfileTasks : request'[q].at = "append" => request[q].at = "append" /\ request'[q].p = request[q].p
        BY DEF FilesTypeOK, FileRequests
    <2>3. AppendedIsWritten
        OBVIOUS
    <2> HIDE DEF FilesInv, Files!CommitDeletion
    <2> QED BY <1>0, <2>1, <2>2, <2>3 DEF AppendedIsWritten
<1>7. SweepSparesTheList'
    BY <1>0 DEF FilesTypeOK, FileRequests, SweepSparesTheList, AppendedIsWritten, RequestFitsProfile
<1>8. SavedIsListed'
    BY <1>0 DEF FilesTypeOK, FileRequests, SavedIsListed, RequestFitsProfile, ItemsAreProfiles, LinksAreOwn,
        OwnIsListed, Files!ListedIsStored
<1>9. Files!ListedIsStored'
    <2>1. /\ request[r].p \in doomed /\ UNCHANGED <<doomed, raced, files>>
          /\ \A u \in request[r].own : u[1] = request[r].p
        BY DEF RequestFitsProfile
    <2>2. \/ UNCHANGED <<items, links>>
          \/ items' = items \ request[r].own /\ links' = [links EXCEPT ![request[r].p] = {}]
        OBVIOUS
    <2>3. /\ DOMAIN links = Profiles /\ Files!ListedIsStored /\ ItemsAreProfiles
          /\ \A q \in Profiles : \A u \in links[q] : u[1] = q
        BY DEF FilesTypeOK, LinksAreOwn
    <2> HIDE DEF FilesInv, Files!CommitDeletion
    <2> QED BY <2>1, <2>2, <2>3 DEF Files!ListedIsStored, ItemsAreProfiles
<1>10. DraftIsListed'
    BY <1>0 DEF FilesTypeOK, FileRequests, DraftIsListed, RequestFitsProfile, ItemsAreProfiles, LinksAreOwn,
        OwnIsListed, Files!ListedIsStored
<1> QED BY <1>1, <1>2, <1>3, <1>4, <1>5, <1>6, <1>7, <1>8, <1>9, <1>10 DEF FilesInv

LEMMA FilesSwitchDrafts ==
    ASSUME FilesInv, Files!SwitchDrafts PROVE FilesInv'
<1> USE DEF FilesInv, Files!SwitchDrafts
<1>0. \A q \in ProfileTasks : request'[q].at = "append" => Files!NextItem(q)' = Files!NextItem(q)
    BY NextIsKept DEF FilesTypeOK, FileRequests
<1>1. FilesTypeOK'
    <2>1. request' \in [ProfileTasks -> FileRequests]
        BY DEF FilesTypeOK, FileRequests
    <2>2. items' \in SUBSET Uids /\ links' \in [Profiles -> SUBSET Uids]
        BY DEF FilesTypeOK, FileRequests
    <2>3. saved' \in [items : SUBSET Uids, links : [Profiles -> SUBSET Uids]]
        BY DEF FilesTypeOK, FileRequests
    <2>4. boot' \in [at : {"load", "sweep", "done"}, active : SUBSET Uids]
        BY DEF FilesTypeOK
    <2>5. draft' \in [at : {"none", "edited", "applied"}, items : SUBSET Uids, links : [Profiles -> SUBSET Uids]]
        BY DEF FilesTypeOK
    <2> QED BY <2>1, <2>2, <2>3, <2>4, <2>5 DEF FilesTypeOK
<1>2. ItemsAreProfiles'
    BY <1>0 DEF FilesTypeOK, ItemsAreProfiles, RequestFitsProfile
<1>3. LinksAreOwn'
    BY <1>0 DEF FilesTypeOK, FileRequests, LinksAreOwn, RequestFitsProfile
<1>4. RequestFitsProfile'
    BY <1>0 DEF FilesTypeOK, FileRequests, RequestFitsProfile, LinksAreOwn
<1>5. OwnIsListed'
    BY <1>0 DEF FilesTypeOK, FileRequests, OwnIsListed, RequestFitsProfile, Files!ListedIsStored,
        ItemsAreProfiles
<1>6. AppendedIsWritten'
    BY <1>0 DEF FilesTypeOK, FileRequests, AppendedIsWritten, RequestFitsProfile, LinksAreOwn,
        SweepSparesTheList
<1>7. SweepSparesTheList'
    BY <1>0 DEF FilesTypeOK, FileRequests, SweepSparesTheList, AppendedIsWritten, RequestFitsProfile
<1>8. SavedIsListed'
    BY <1>0 DEF FilesTypeOK, FileRequests, SavedIsListed, RequestFitsProfile, ItemsAreProfiles, LinksAreOwn,
        OwnIsListed, Files!ListedIsStored
<1>9. Files!ListedIsStored'
    BY <1>0 DEF FilesTypeOK, FileRequests, SavedIsListed, Files!ListedIsStored, RequestFitsProfile,
        ItemsAreProfiles, LinksAreOwn, OwnIsListed, AppendedIsWritten, SweepSparesTheList
<1>10. DraftIsListed'
    BY <1>0 DEF FilesTypeOK, FileRequests, DraftIsListed, RequestFitsProfile, ItemsAreProfiles, LinksAreOwn,
        OwnIsListed, Files!ListedIsStored
<1> QED BY <1>1, <1>2, <1>3, <1>4, <1>5, <1>6, <1>7, <1>8, <1>9, <1>10 DEF FilesInv

LEMMA FilesSwitchSaves ==
    ASSUME FilesInv, Files!SwitchSaves PROVE FilesInv'
<1> USE DEF FilesInv, Files!SwitchSaves, Files!NoDraft
<1>0. \A q \in ProfileTasks : request'[q].at = "append" => Files!NextItem(q)' = Files!NextItem(q)
    BY NextIsKept DEF FilesTypeOK, FileRequests
<1>1. FilesTypeOK'
    <2>1. request' \in [ProfileTasks -> FileRequests]
        BY DEF FilesTypeOK, FileRequests
    <2>2. items' \in SUBSET Uids /\ links' \in [Profiles -> SUBSET Uids]
        BY DEF FilesTypeOK, FileRequests
    <2>3. saved' \in [items : SUBSET Uids, links : [Profiles -> SUBSET Uids]]
        BY DEF FilesTypeOK, FileRequests
    <2>4. boot' \in [at : {"load", "sweep", "done"}, active : SUBSET Uids]
        BY DEF FilesTypeOK
    <2>5. draft' \in [at : {"none", "edited", "applied"}, items : SUBSET Uids, links : [Profiles -> SUBSET Uids]]
        BY DEF FilesTypeOK
    <2> QED BY <2>1, <2>2, <2>3, <2>4, <2>5 DEF FilesTypeOK
<1>2. ItemsAreProfiles'
    BY <1>0 DEF FilesTypeOK, ItemsAreProfiles, RequestFitsProfile
<1>3. LinksAreOwn'
    BY <1>0 DEF FilesTypeOK, FileRequests, LinksAreOwn, RequestFitsProfile
<1>4. RequestFitsProfile'
    BY <1>0 DEF FilesTypeOK, FileRequests, RequestFitsProfile, LinksAreOwn
<1>5. OwnIsListed'
    BY <1>0 DEF FilesTypeOK, FileRequests, OwnIsListed, RequestFitsProfile, Files!ListedIsStored,
        ItemsAreProfiles
<1>6. AppendedIsWritten'
    BY <1>0 DEF FilesTypeOK, FileRequests, AppendedIsWritten, RequestFitsProfile, LinksAreOwn,
        SweepSparesTheList
<1>7. SweepSparesTheList'
    BY <1>0 DEF FilesTypeOK, FileRequests, SweepSparesTheList, AppendedIsWritten, RequestFitsProfile
<1>8. SavedIsListed'
    BY <1>0 DEF FilesTypeOK, FileRequests, SavedIsListed, RequestFitsProfile, ItemsAreProfiles, LinksAreOwn,
        OwnIsListed, Files!ListedIsStored
<1>9. Files!ListedIsStored'
    BY <1>0 DEF FilesTypeOK, FileRequests, SavedIsListed, Files!ListedIsStored, RequestFitsProfile,
        ItemsAreProfiles, LinksAreOwn, OwnIsListed, AppendedIsWritten, SweepSparesTheList
<1>10. DraftIsListed'
    BY <1>0 DEF FilesTypeOK, FileRequests, DraftIsListed, RequestFitsProfile, ItemsAreProfiles, LinksAreOwn,
        OwnIsListed, Files!ListedIsStored
<1> QED BY <1>1, <1>2, <1>3, <1>4, <1>5, <1>6, <1>7, <1>8, <1>9, <1>10 DEF FilesInv

LEMMA FilesSwitchCommits ==
    ASSUME FilesInv, Files!SwitchCommits PROVE FilesInv'
<1> USE DEF FilesInv, Files!SwitchCommits, Files!NoDraft
<1>0. \A q \in ProfileTasks : request'[q].at = "append" => Files!NextItem(q)' = Files!NextItem(q)
    BY NextIsKept DEF FilesTypeOK, FileRequests
<1>1. FilesTypeOK'
    <2>1. request' \in [ProfileTasks -> FileRequests]
        BY DEF FilesTypeOK, FileRequests
    <2>2. items' \in SUBSET Uids /\ links' \in [Profiles -> SUBSET Uids]
        BY DEF FilesTypeOK, FileRequests
    <2>3. saved' \in [items : SUBSET Uids, links : [Profiles -> SUBSET Uids]]
        BY DEF FilesTypeOK, FileRequests
    <2>4. boot' \in [at : {"load", "sweep", "done"}, active : SUBSET Uids]
        BY DEF FilesTypeOK
    <2>5. draft' \in [at : {"none", "edited", "applied"}, items : SUBSET Uids, links : [Profiles -> SUBSET Uids]]
        BY DEF FilesTypeOK
    <2> QED BY <2>1, <2>2, <2>3, <2>4, <2>5 DEF FilesTypeOK
<1>2. ItemsAreProfiles'
    BY <1>0 DEF FilesTypeOK, ItemsAreProfiles, RequestFitsProfile
<1>3. LinksAreOwn'
    BY <1>0 DEF FilesTypeOK, FileRequests, LinksAreOwn, RequestFitsProfile
<1>4. RequestFitsProfile'
    BY <1>0 DEF FilesTypeOK, FileRequests, RequestFitsProfile, LinksAreOwn
<1>5. OwnIsListed'
    BY <1>0 DEF FilesTypeOK, FileRequests, OwnIsListed, RequestFitsProfile, Files!ListedIsStored,
        ItemsAreProfiles
<1>6. AppendedIsWritten'
    BY <1>0 DEF FilesTypeOK, FileRequests, AppendedIsWritten, RequestFitsProfile, LinksAreOwn,
        SweepSparesTheList
<1>7. SweepSparesTheList'
    BY <1>0 DEF FilesTypeOK, FileRequests, SweepSparesTheList, DraftIsListed
<1>8. SavedIsListed'
    BY <1>0 DEF FilesTypeOK, FileRequests, SavedIsListed, RequestFitsProfile, ItemsAreProfiles, LinksAreOwn,
        OwnIsListed, Files!ListedIsStored
<1>9. Files!ListedIsStored'
    BY DEF FilesTypeOK, Files!ListedIsStored, DraftIsListed
<1>10. DraftIsListed'
    BY <1>0 DEF FilesTypeOK, FileRequests, DraftIsListed, RequestFitsProfile, ItemsAreProfiles, LinksAreOwn,
        OwnIsListed, Files!ListedIsStored
<1> QED BY <1>1, <1>2, <1>3, <1>4, <1>5, <1>6, <1>7, <1>8, <1>9, <1>10 DEF FilesInv

LEMMA FilesBeginCleanup ==
    ASSUME FilesInv, Files!BeginCleanup PROVE FilesInv'
<1> USE DEF FilesInv, Files!BeginCleanup, Files!GetAllActiveFiles, Files!GetProtectedGlobalFiles
<1>0. \A q \in ProfileTasks : request'[q].at = "append" => Files!NextItem(q)' = Files!NextItem(q)
    BY NextIsKept DEF FilesTypeOK, FileRequests
<1>00. Files!Global \in Uids
    BY DEF Files!Global, Files!Main, Uids
<1>1. FilesTypeOK'
    BY <1>0, <1>00 DEF FilesTypeOK, FileRequests
<1>2. ItemsAreProfiles'
    BY <1>0, <1>00 DEF FilesTypeOK, ItemsAreProfiles, RequestFitsProfile
<1>3. LinksAreOwn'
    BY <1>0, <1>00 DEF FilesTypeOK, FileRequests, LinksAreOwn, RequestFitsProfile
<1>4. RequestFitsProfile'
    BY <1>0, <1>00 DEF FilesTypeOK, FileRequests, RequestFitsProfile, LinksAreOwn
<1>5. OwnIsListed'
    BY <1>0, <1>00 DEF FilesTypeOK, FileRequests, OwnIsListed, RequestFitsProfile, Files!ListedIsStored,
        ItemsAreProfiles
<1>6. AppendedIsWritten'
    BY <1>0, <1>00 DEF FilesTypeOK, FileRequests, AppendedIsWritten, RequestFitsProfile, LinksAreOwn,
        SweepSparesTheList
<1>7. SweepSparesTheList'
    BY <1>0, <1>00 DEF FilesTypeOK, FileRequests, SweepSparesTheList, AppendedIsWritten, RequestFitsProfile
<1>8. SavedIsListed'
    BY <1>0, <1>00 DEF FilesTypeOK, FileRequests, SavedIsListed, RequestFitsProfile, ItemsAreProfiles,
        LinksAreOwn, OwnIsListed, Files!ListedIsStored
<1>9. Files!ListedIsStored'
    BY <1>0, <1>00 DEF FilesTypeOK, FileRequests, SavedIsListed, Files!ListedIsStored, RequestFitsProfile,
        ItemsAreProfiles, LinksAreOwn, OwnIsListed, AppendedIsWritten, SweepSparesTheList
<1>10. DraftIsListed'
    BY <1>0, <1>00 DEF FilesTypeOK, FileRequests, DraftIsListed, RequestFitsProfile, ItemsAreProfiles, LinksAreOwn,
        OwnIsListed, Files!ListedIsStored
<1> QED BY <1>1, <1>2, <1>3, <1>4, <1>5, <1>6, <1>7, <1>8, <1>9, <1>10 DEF FilesInv

LEMMA FilesEndCleanup ==
    ASSUME FilesInv, Files!EndCleanup PROVE FilesInv'
<1> USE DEF FilesInv, Files!EndCleanup
<1>0. \A q \in ProfileTasks : request'[q].at = "append" => Files!NextItem(q)' = Files!NextItem(q)
    BY NextIsKept DEF FilesTypeOK, FileRequests
<1>1. FilesTypeOK'
    <2>1. request' \in [ProfileTasks -> FileRequests]
        BY DEF FilesTypeOK, FileRequests
    <2>2. items' \in SUBSET Uids /\ links' \in [Profiles -> SUBSET Uids]
        BY DEF FilesTypeOK, FileRequests
    <2>3. saved' \in [items : SUBSET Uids, links : [Profiles -> SUBSET Uids]]
        BY DEF FilesTypeOK, FileRequests
    <2>4. boot' \in [at : {"load", "sweep", "done"}, active : SUBSET Uids]
        BY DEF FilesTypeOK
    <2>5. draft' \in [at : {"none", "edited", "applied"}, items : SUBSET Uids, links : [Profiles -> SUBSET Uids]]
        BY DEF FilesTypeOK
    <2> QED BY <2>1, <2>2, <2>3, <2>4, <2>5 DEF FilesTypeOK
<1>2. ItemsAreProfiles'
    BY <1>0 DEF FilesTypeOK, ItemsAreProfiles, RequestFitsProfile
<1>3. LinksAreOwn'
    BY <1>0 DEF FilesTypeOK, FileRequests, LinksAreOwn, RequestFitsProfile
<1>4. RequestFitsProfile'
    BY <1>0 DEF FilesTypeOK, FileRequests, RequestFitsProfile, LinksAreOwn
<1>5. OwnIsListed'
    BY <1>0 DEF FilesTypeOK, FileRequests, OwnIsListed, RequestFitsProfile, Files!ListedIsStored,
        ItemsAreProfiles
<1>6. AppendedIsWritten'
    BY <1>0 DEF FilesTypeOK, FileRequests, AppendedIsWritten, RequestFitsProfile, LinksAreOwn,
        SweepSparesTheList
<1>7. SweepSparesTheList'
    BY <1>0 DEF FilesTypeOK, FileRequests, SweepSparesTheList, AppendedIsWritten, RequestFitsProfile
<1>8. SavedIsListed'
    BY <1>0 DEF FilesTypeOK, FileRequests, SavedIsListed, RequestFitsProfile, ItemsAreProfiles, LinksAreOwn,
        OwnIsListed, Files!ListedIsStored
<1>9. Files!ListedIsStored'
    BY <1>0 DEF FilesTypeOK, FileRequests, SavedIsListed, Files!ListedIsStored, RequestFitsProfile,
        ItemsAreProfiles, LinksAreOwn, OwnIsListed, AppendedIsWritten, SweepSparesTheList
<1>10. DraftIsListed'
    BY <1>0 DEF FilesTypeOK, FileRequests, DraftIsListed, RequestFitsProfile, ItemsAreProfiles, LinksAreOwn,
        OwnIsListed, Files!ListedIsStored
<1> QED BY <1>1, <1>2, <1>3, <1>4, <1>5, <1>6, <1>7, <1>8, <1>9, <1>10 DEF FilesInv

LEMMA FilesCrash ==
    ASSUME FilesInv, Files!Crash PROVE FilesInv'
<1> USE DEF FilesInv, Files!Crash, Files!NoDraft
<1>0. \A q \in ProfileTasks : request'[q].at = "append" => Files!NextItem(q)' = Files!NextItem(q)
    BY NextIsKept DEF FilesTypeOK, FileRequests
<1>1. FilesTypeOK'
    <2>1. request' \in [ProfileTasks -> FileRequests]
        <3>1. ASSUME NEW q \in ProfileTasks, NEW l \in {"none", "failed"}
              PROVE  [request[q] EXCEPT !.at = l] \in FileRequests
            <4>1. request[q] \in FileRequests
                BY DEF FilesTypeOK
            <4> QED BY <4>1 DEF FileRequests
        <3> HIDE DEF FilesInv
        <3> QED BY <3>1
    <2>2. items' \in SUBSET Uids /\ links' \in [Profiles -> SUBSET Uids]
        BY DEF FilesTypeOK, FileRequests
    <2>3. saved' \in [items : SUBSET Uids, links : [Profiles -> SUBSET Uids]]
        BY DEF FilesTypeOK, FileRequests
    <2>4. boot' \in [at : {"load", "sweep", "done"}, active : SUBSET Uids]
        BY DEF FilesTypeOK
    <2>5. draft' \in [at : {"none", "edited", "applied"}, items : SUBSET Uids, links : [Profiles -> SUBSET Uids]]
        BY DEF FilesTypeOK
    <2> QED BY <2>1, <2>2, <2>3, <2>4, <2>5 DEF FilesTypeOK
<1>2. ItemsAreProfiles'
    BY <1>0 DEF FilesTypeOK, ItemsAreProfiles, RequestFitsProfile
<1>3. LinksAreOwn'
    BY <1>0 DEF FilesTypeOK, FileRequests, LinksAreOwn, RequestFitsProfile
<1>4. RequestFitsProfile'
    <2> SUFFICES ASSUME NEW q \in ProfileTasks
                 PROVE  /\ request'[q].op = request[q].op /\ request'[q].p = request[q].p
                        /\ request'[q].own = request[q].own /\ request'[q].at \in {"none", "failed"}
        BY DEF RequestFitsProfile
    <2>1. request[q] \in FileRequests
        BY DEF FilesTypeOK
    <2> HIDE DEF FilesInv
    <2> QED BY <2>1 DEF FileRequests
<1>5. OwnIsListed'
    BY <1>0 DEF FilesTypeOK, FileRequests, OwnIsListed, RequestFitsProfile, Files!ListedIsStored,
        ItemsAreProfiles
<1>6. AppendedIsWritten'
    BY <1>0 DEF FilesTypeOK, FileRequests, AppendedIsWritten, RequestFitsProfile, LinksAreOwn,
        SweepSparesTheList
<1>7. SweepSparesTheList'
    BY <1>0 DEF FilesTypeOK, FileRequests, SweepSparesTheList, AppendedIsWritten, RequestFitsProfile
<1>8. SavedIsListed'
    BY <1>0 DEF FilesTypeOK, FileRequests, SavedIsListed, RequestFitsProfile, ItemsAreProfiles, LinksAreOwn,
        OwnIsListed, Files!ListedIsStored
<1>9. Files!ListedIsStored'
    BY <1>0 DEF FilesTypeOK, FileRequests, SavedIsListed, Files!ListedIsStored, RequestFitsProfile,
        ItemsAreProfiles, LinksAreOwn, OwnIsListed, AppendedIsWritten, SweepSparesTheList
<1>10. DraftIsListed'
    BY <1>0 DEF FilesTypeOK, FileRequests, DraftIsListed, RequestFitsProfile, ItemsAreProfiles, LinksAreOwn,
        OwnIsListed, Files!ListedIsStored
<1> QED BY <1>1, <1>2, <1>3, <1>4, <1>5, <1>6, <1>7, <1>8, <1>9, <1>10 DEF FilesInv

LEMMA FilesCleanupOrphanedFile ==
    ASSUME FilesInv, NEW u, Files!CleanupOrphanedFile(u) PROVE FilesInv'
<1> USE DEF FilesInv, Files!CleanupOrphanedFile
<1>0. \A q \in ProfileTasks : request'[q].at = "append" => Files!NextItem(q)' = Files!NextItem(q)
    BY NextIsKept DEF FilesTypeOK, FileRequests
<1>1. FilesTypeOK'
    <2>1. request' \in [ProfileTasks -> FileRequests]
        BY DEF FilesTypeOK, FileRequests
    <2>2. items' \in SUBSET Uids /\ links' \in [Profiles -> SUBSET Uids]
        BY DEF FilesTypeOK, FileRequests
    <2>3. saved' \in [items : SUBSET Uids, links : [Profiles -> SUBSET Uids]]
        BY DEF FilesTypeOK, FileRequests
    <2>4. boot' \in [at : {"load", "sweep", "done"}, active : SUBSET Uids]
        BY DEF FilesTypeOK
    <2>5. draft' \in [at : {"none", "edited", "applied"}, items : SUBSET Uids, links : [Profiles -> SUBSET Uids]]
        BY DEF FilesTypeOK
    <2> QED BY <2>1, <2>2, <2>3, <2>4, <2>5 DEF FilesTypeOK
<1>2. ItemsAreProfiles'
    BY <1>0 DEF FilesTypeOK, ItemsAreProfiles, RequestFitsProfile
<1>3. LinksAreOwn'
    BY <1>0 DEF FilesTypeOK, FileRequests, LinksAreOwn, RequestFitsProfile
<1>4. RequestFitsProfile'
    BY <1>0 DEF FilesTypeOK, FileRequests, RequestFitsProfile, LinksAreOwn
<1>5. OwnIsListed'
    BY <1>0 DEF FilesTypeOK, FileRequests, OwnIsListed, RequestFitsProfile, Files!ListedIsStored,
        ItemsAreProfiles
<1>6. AppendedIsWritten'
    BY <1>0 DEF FilesTypeOK, FileRequests, AppendedIsWritten, RequestFitsProfile, LinksAreOwn,
        SweepSparesTheList
<1>7. SweepSparesTheList'
    BY <1>0 DEF FilesTypeOK, FileRequests, SweepSparesTheList, AppendedIsWritten, RequestFitsProfile
<1>8. SavedIsListed'
    BY <1>0 DEF FilesTypeOK, FileRequests, SavedIsListed, RequestFitsProfile, ItemsAreProfiles, LinksAreOwn,
        OwnIsListed, Files!ListedIsStored
<1>9. Files!ListedIsStored'
    BY <1>0 DEF FilesTypeOK, FileRequests, SavedIsListed, Files!ListedIsStored, RequestFitsProfile,
        ItemsAreProfiles, LinksAreOwn, OwnIsListed, AppendedIsWritten, SweepSparesTheList
<1>10. DraftIsListed'
    BY <1>0 DEF FilesTypeOK, FileRequests, DraftIsListed, RequestFitsProfile, ItemsAreProfiles, LinksAreOwn,
        OwnIsListed, Files!ListedIsStored
<1> QED BY <1>1, <1>2, <1>3, <1>4, <1>5, <1>6, <1>7, <1>8, <1>9, <1>10 DEF FilesInv

\* Every step of the requests, of the sweep, and a crash, keep FilesInv.
LEMMA FilesStep == FilesInv /\ [Files!Next]_(Files!store) => FilesInv'
<1> SUFFICES ASSUME FilesInv, [Files!Next]_(Files!store) PROVE FilesInv'
    OBVIOUS
<1>1. ASSUME NEW r \in ProfileTasks, NEW p \in Profiles,
             Files!FromUrl(r, p) \/ Files!FromLocal(r, p) \/ Files!UpdateProfile(r, p) \/ Files!DeleteItem(r, p)
      PROVE  FilesInv'
    BY <1>1, FilesBegin, FilesUpdateProfile, FilesDeleteItem DEF Files!FromUrl, Files!FromLocal
<1>2. ASSUME NEW r \in ProfileTasks,
             \/ Files!Fetch(r) \/ Files!AppendItem(r) \/ Files!CommitAppend(r) \/ Files!SaveFile(r)
             \/ Files!UpdateItem(r) \/ Files!CommitUpdate(r) \/ Files!SaveDeletion(r) \/ Files!CommitDeletion(r)
      PROVE  FilesInv'
    BY <1>2, FilesFetch, FilesAppendItem, FilesCommitAppend, FilesSaveFile, FilesUpdateItem, FilesCommitUpdate,
       FilesSaveDeletion, FilesCommitDeletion
<1>3. CASE \/ Files!SwitchDrafts \/ Files!SwitchCommits \/ Files!SwitchSaves
           \/ Files!BeginCleanup \/ Files!EndCleanup \/ Files!Crash
    BY <1>3, FilesSwitchDrafts, FilesSwitchCommits, FilesSwitchSaves, FilesBeginCleanup, FilesEndCleanup,
       FilesCrash
<1>4. ASSUME NEW u \in files, Files!CleanupOrphanedFile(u) PROVE FilesInv'
    BY <1>4, FilesCleanupOrphanedFile
<1>5. CASE UNCHANGED Files!store
    <2>1. \A q \in ProfileTasks : Files!NextItem(q)' = Files!NextItem(q)
        BY <1>5, NextIsKept DEF Files!store
    <2> QED BY <1>5, <2>1 DEF FilesInv, FilesTypeOK, ItemsAreProfiles, LinksAreOwn, RequestFitsProfile, OwnIsListed,
               AppendedIsWritten, SweepSparesTheList, SavedIsListed, DraftIsListed, Files!ListedIsStored,
               Files!store
<1> QED BY <1>1, <1>2, <1>3, <1>4, <1>5 DEF Files!Next

\* An item of the profile list has its file, and its extensions are listed, through imports,
\* updates, deletions, refused switches, crashes and the sweep of orphaned files (append_item,
\* update_item, delete_item, restore_previous_profile, cleanup_orphaned_files).  Excepted are a
\* doomed profile (its deletion was begun, or a refused switch put back an older list without one
\* of its items), and the file of an item made while the sweep was under way (raced).
THEOREM ListedProfilesAreStored == Spec => []ListedIsStored
<1> DEFINE Inv == which = "files" => FilesInv
<1>1. Init => Inv
    BY FilesInitially DEF Init
<1>2. Inv /\ [Next]_parts => Inv'
    <2> SUFFICES ASSUME Inv, [Next]_parts, which' = "files" PROVE FilesInv'
        OBVIOUS
    <2>1. which = "files" /\ [Files!Next]_(Files!store)
        BY DEF Next, Unchanged, parts, filesOwn, Files!store
    <2> QED BY <2>1, FilesStep
<1>3. Inv => ListedIsStored
    BY DEF ListedIsStored, FilesInv
<1> QED BY <1>1, <1>2, <1>3, PTL DEF Spec

-----------------------------------------------------------------------------
(***************************************************************************)
(* The external-peer laboratory.                                            *)
(*                                                                          *)
(* A stop that was asked for has cancelled the worker, so that nothing the  *)
(* worker shows afterwards replaces it.  An open session has its stream in  *)
(* the abort, so that whoever shuts it leaves the mark of a hard abort,     *)
(* which the worker reads after its stop, when no shutdown can follow.      *)
(***************************************************************************)

ExternalPlaces == {"none", "launch", "handshake", "prepare", "connect", "connecting", "impair", "disconnect", "check",
                   "steady", "failing", "stopping", "lost", "stopped", "exitFailed", "exitDisconnected", "done"}

ExternalTypeOK ==
    /\ worker \in [at : ExternalPlaces, index : 1..3, polls : Nat]
    /\ abort \in [stream : BOOLEAN, cancelled : BOOLEAN, hard : BOOLEAN]
    /\ generation \in {0, 1} /\ operation \in BOOLEAN /\ cancel \in BOOLEAN
    /\ worker.at \in {"impair", "disconnect"} => worker.index < 3

\* A stop that was asked for is the worker's cancellation.
StopIsCancellation == (operation => generation = 1) /\ (requested # "none" => cancel /\ generation = 1)

\* An open session can be aborted, and one that this side shut was aborted hard.
SessionIsOwned ==
    /\ session \in {"none", "open", "stopped", "cut", "lost"}
    /\ session = "open" => abort.stream
    /\ session = "cut" => abort.hard

\* A run ends as disconnected only with its socket dropped and never shut hard.
DisconnectedIsClosed ==
    /\ worker.at = "stopped" => ~abort.stream /\ session # "open"
    /\ generation = 1 /\ phase = "Disconnected" => worker.at = "done"
    /\ worker.at = "exitDisconnected" \/ (worker.at = "done" /\ phase = "Disconnected") =>
           ~abort.hard /\ ~abort.stream /\ session # "open"

ExternalInv ==
    ExternalTypeOK /\ StopIsCancellation /\ SessionIsOwned /\ DisconnectedIsClosed /\ External!StopIsShown

\* No worker has begun.
LEMMA ExternalInitially == External!Init => ExternalInv
<1> SUFFICES ASSUME External!Init PROVE ExternalInv
    OBVIOUS
<1>1. worker = [at |-> "none", index |-> 1, polls |-> 0] /\ abort = [stream |-> FALSE, cancelled |-> FALSE,
      hard |-> FALSE]
    BY DEF External!Init
<1>2. generation = 0 /\ operation = FALSE /\ cancel = FALSE /\ requested = "none"
    BY DEF External!Init
<1>3. ExternalTypeOK
    <2>1. worker \in [at : ExternalPlaces, index : 1..3, polls : Nat] /\ worker.at = "none"
        BY <1>1 DEF ExternalPlaces
    <2>2. abort \in [stream : BOOLEAN, cancelled : BOOLEAN, hard : BOOLEAN]
        BY <1>1
    <2> QED BY <1>2, <2>1, <2>2 DEF ExternalTypeOK
<1>4. session = "none"
    BY DEF External!Init
<1> QED BY <1>1, <1>2, <1>3, <1>4 DEF ExternalInv, StopIsCancellation, SessionIsOwned, DisconnectedIsClosed,
           External!StopIsShown

\* The phases of a transport are not the one that says the run is over.
LEMMA ExternalPhases ==
    ASSUME ExternalTypeOK
    PROVE  External!ConnectingPhase[External!Transport] # "Disconnected"
           /\ External!ConnectedPhase[External!Transport] # "Disconnected"
<1>1. worker.index \in 1..3
    BY DEF ExternalTypeOK
<1>2. External!Transport \in {"quic", "wss", "tcp"}
    BY <1>1 DEF External!Transport, External!TransportOrder
<1> QED BY <1>2 DEF External!ConnectingPhase, External!ConnectedPhase

\* There are three transports.
LEMMA ExternalLength == Len(External!TransportOrder) = 3
BY DEF External!TransportOrder

\* One lemma for each action: it keeps ExternalInv.
LEMMA ExternalLaunch ==
    ASSUME ExternalInv, External!Launch PROVE ExternalInv'
<1> USE ExternalPhases, ExternalLength DEF ExternalInv, External!Launch, External!WorkerUnchanged,
    External!RequestFails, External!RequestDone, External!TerminateChild, External!UpdateOperation, External!Goto,
    External!RegisterStream
<1>1. ExternalTypeOK'
    BY ZenonT(30) DEF ExternalTypeOK, ExternalPlaces
<1>2. StopIsCancellation'
    BY DEF StopIsCancellation, ExternalTypeOK
<1>3. DisconnectedIsClosed'
    BY DEF DisconnectedIsClosed, SessionIsOwned, ExternalTypeOK, StopIsCancellation
<1>4. External!StopIsShown'
    BY DEF External!StopIsShown, StopIsCancellation, ExternalTypeOK
<1>5. SessionIsOwned'
    BY DEF SessionIsOwned, ExternalTypeOK
<1> QED BY <1>1, <1>2, <1>3, <1>4, <1>5

LEMMA ExternalHandshake ==
    ASSUME ExternalInv, External!Handshake PROVE ExternalInv'
<1> USE ExternalPhases, ExternalLength DEF ExternalInv, External!Handshake, External!WorkerUnchanged,
    External!RequestFails, External!RequestDone, External!TerminateChild, External!UpdateOperation, External!Goto
<1>1. ExternalTypeOK'
    BY DEF ExternalTypeOK, ExternalPlaces
<1>2. StopIsCancellation'
    BY DEF StopIsCancellation, ExternalTypeOK
<1>3. DisconnectedIsClosed'
    BY DEF DisconnectedIsClosed, SessionIsOwned, ExternalTypeOK, StopIsCancellation
<1>4. External!StopIsShown'
    BY DEF External!StopIsShown, StopIsCancellation, ExternalTypeOK
<1>5. SessionIsOwned'
    BY DEF SessionIsOwned, ExternalTypeOK
<1> QED BY <1>1, <1>2, <1>3, <1>4, <1>5

LEMMA ExternalPrepare ==
    ASSUME ExternalInv, External!Prepare PROVE ExternalInv'
<1> USE ExternalPhases, ExternalLength DEF ExternalInv, External!Prepare, External!WorkerUnchanged,
    External!RequestFails, External!RequestDone, External!TerminateChild, External!UpdateOperation, External!Goto
<1>1. ExternalTypeOK'
    BY DEF ExternalTypeOK, ExternalPlaces
<1>2. StopIsCancellation'
    BY DEF StopIsCancellation, ExternalTypeOK
<1>3. DisconnectedIsClosed'
    BY DEF DisconnectedIsClosed, SessionIsOwned, ExternalTypeOK, StopIsCancellation
<1>4. External!StopIsShown'
    BY DEF External!StopIsShown, StopIsCancellation, ExternalTypeOK
<1>5. SessionIsOwned'
    BY DEF SessionIsOwned, ExternalTypeOK
<1> QED BY <1>1, <1>2, <1>3, <1>4, <1>5

LEMMA ExternalConnectTransport ==
    ASSUME ExternalInv, External!ConnectTransport PROVE ExternalInv'
<1> USE ExternalPhases, ExternalLength DEF ExternalInv, External!ConnectTransport, External!WorkerUnchanged,
    External!RequestFails, External!RequestDone, External!TerminateChild, External!UpdateOperation, External!Goto
<1>1. ExternalTypeOK'
    BY DEF ExternalTypeOK, ExternalPlaces
<1>2. StopIsCancellation'
    BY DEF StopIsCancellation, ExternalTypeOK
<1>3. DisconnectedIsClosed'
    BY DEF DisconnectedIsClosed, SessionIsOwned, ExternalTypeOK, StopIsCancellation
<1>4. External!StopIsShown'
    BY DEF External!StopIsShown, StopIsCancellation, ExternalTypeOK
<1>5. SessionIsOwned'
    BY DEF SessionIsOwned, ExternalTypeOK
<1> QED BY <1>1, <1>2, <1>3, <1>4, <1>5

LEMMA ExternalVerifyTransport ==
    ASSUME ExternalInv, External!VerifyTransport PROVE ExternalInv'
<1> USE ExternalPhases, ExternalLength DEF ExternalInv, External!VerifyTransport, External!WorkerUnchanged,
    External!RequestFails, External!RequestDone, External!TerminateChild, External!UpdateOperation, External!Goto
<1>1. ExternalTypeOK'
    <2>1. \/ worker' = [worker EXCEPT !.at = "failing"]
          \/ worker.index < 3 /\ worker' = [worker EXCEPT !.at = "impair", !.polls = 0]
          \/ worker' = [worker EXCEPT !.at = "check", !.polls = 0]
        BY DEF ExternalTypeOK
    <2>2. abort' \in [stream : BOOLEAN, cancelled : BOOLEAN, hard : BOOLEAN]
          /\ UNCHANGED <<generation, operation, cancel>>
        BY DEF ExternalTypeOK
    <2> HIDE DEF External!VerifyTransport
    <2>3. worker' \in [at : ExternalPlaces, index : 1..3, polls : Nat]
        <3>1. worker \in [at : ExternalPlaces, index : 1..3, polls : Nat]
            BY DEF ExternalTypeOK
        <3>2. ASSUME NEW l \in ExternalPlaces PROVE [worker EXCEPT !.at = l] \in [at : ExternalPlaces,
              index : 1..3, polls : Nat]
            BY <3>1
        <3>3. ASSUME NEW l \in ExternalPlaces PROVE [worker EXCEPT !.at = l,
              !.polls = 0] \in [at : ExternalPlaces, index : 1..3, polls : Nat]
            BY <3>1
        <3>4. {"failing", "impair", "check"} \subseteq ExternalPlaces
            BY DEF ExternalPlaces
        <3> QED BY <2>1, <3>2, <3>3, <3>4
    <2>4. worker'.at \in {"failing", "check"} \/ (worker'.at = "impair" /\ worker'.index < 3)
        BY <2>1 DEF ExternalTypeOK
    <2> QED BY <2>2, <2>3, <2>4 DEF ExternalTypeOK
<1>2. StopIsCancellation'
    BY DEF StopIsCancellation, ExternalTypeOK
<1>3. DisconnectedIsClosed'
    BY DEF DisconnectedIsClosed, SessionIsOwned, ExternalTypeOK, StopIsCancellation
<1>4. External!StopIsShown'
    BY DEF External!StopIsShown, StopIsCancellation, ExternalTypeOK
<1>5. SessionIsOwned'
    BY DEF SessionIsOwned, ExternalTypeOK
<1> QED BY <1>1, <1>2, <1>3, <1>4, <1>5

LEMMA ExternalObserveFixedImpairment ==
    ASSUME ExternalInv, External!ObserveFixedImpairment PROVE ExternalInv'
<1> USE ExternalPhases, ExternalLength DEF ExternalInv, External!ObserveFixedImpairment,
    External!WorkerUnchanged, External!RequestFails, External!RequestDone, External!TerminateChild,
    External!UpdateOperation, External!Goto, External!TransportCheck
<1>1. ExternalTypeOK'
    <2>1. abort' \in [stream : BOOLEAN, cancelled : BOOLEAN, hard : BOOLEAN]
          /\ UNCHANGED <<generation, operation, cancel>>
        BY DEF ExternalTypeOK
    <2>2. \/ worker' = [worker EXCEPT !.at = "failing"]
          \/ worker' = [worker EXCEPT !.at = "disconnect"]
          \/ worker' = [worker EXCEPT !.polls = @ + 1]
        OBVIOUS
    <2>3. worker' \in [at : ExternalPlaces, index : 1..3, polls : Nat]
        <3> HIDE DEF External!ObserveFixedImpairment
        <3> QED BY <2>2 DEF ExternalTypeOK, ExternalPlaces
    <2>4. worker'.at \in {"impair", "disconnect"} => worker'.index < 3
        BY <2>2 DEF ExternalTypeOK
    <2> QED BY <2>1, <2>3, <2>4 DEF ExternalTypeOK
<1>2. StopIsCancellation'
    BY DEF StopIsCancellation, ExternalTypeOK
<1>3. DisconnectedIsClosed'
    BY DEF DisconnectedIsClosed, SessionIsOwned, ExternalTypeOK, StopIsCancellation
<1>4. External!StopIsShown'
    BY DEF External!StopIsShown, StopIsCancellation, ExternalTypeOK
<1>5. SessionIsOwned'
    BY DEF SessionIsOwned, ExternalTypeOK
<1> QED BY <1>1, <1>2, <1>3, <1>4, <1>5

LEMMA ExternalDisconnectTransport ==
    ASSUME ExternalInv, External!DisconnectTransport PROVE ExternalInv'
<1> USE ExternalPhases, ExternalLength DEF ExternalInv, External!DisconnectTransport, External!WorkerUnchanged,
    External!RequestFails, External!RequestDone, External!TerminateChild, External!UpdateOperation, External!Goto
<1>1. ExternalTypeOK'
    <2>1. worker.index + 1 \in 1..3
        BY DEF ExternalTypeOK
    <2>2. worker' \in [at : ExternalPlaces, index : 1..3, polls : Nat] /\ worker'.at \in {"connect", "failing"}
        BY <2>1 DEF ExternalTypeOK, ExternalPlaces
    <2> QED BY <2>2 DEF ExternalTypeOK
<1>2. StopIsCancellation'
    BY DEF StopIsCancellation, ExternalTypeOK
<1>3. DisconnectedIsClosed'
    BY DEF DisconnectedIsClosed, SessionIsOwned, ExternalTypeOK, StopIsCancellation
<1>4. External!StopIsShown'
    BY DEF External!StopIsShown, StopIsCancellation, ExternalTypeOK
<1>5. SessionIsOwned'
    BY DEF SessionIsOwned, ExternalTypeOK
<1> QED BY <1>1, <1>2, <1>3, <1>4, <1>5

LEMMA ExternalLastCheck ==
    ASSUME ExternalInv, External!LastCheck PROVE ExternalInv'
<1> USE ExternalPhases, ExternalLength DEF ExternalInv, External!LastCheck, External!WorkerUnchanged,
    External!RequestFails, External!RequestDone, External!TerminateChild, External!UpdateOperation, External!Goto,
    External!TransportCheck
<1>1. ExternalTypeOK'
    BY DEF ExternalTypeOK, ExternalPlaces
<1>2. StopIsCancellation'
    BY DEF StopIsCancellation, ExternalTypeOK
<1>3. DisconnectedIsClosed'
    BY DEF DisconnectedIsClosed, SessionIsOwned, ExternalTypeOK, StopIsCancellation
<1>4. External!StopIsShown'
    BY DEF External!StopIsShown, StopIsCancellation, ExternalTypeOK
<1>5. SessionIsOwned'
    BY DEF SessionIsOwned, ExternalTypeOK
<1> QED BY <1>1, <1>2, <1>3, <1>4, <1>5

LEMMA ExternalSampleSteadyState ==
    ASSUME ExternalInv, External!SampleSteadyState PROVE ExternalInv'
<1> USE ExternalPhases, ExternalLength DEF ExternalInv, External!SampleSteadyState, External!WorkerUnchanged,
    External!RequestFails, External!RequestDone, External!TerminateChild, External!UpdateOperation, External!Goto
<1>1. ExternalTypeOK'
    BY DEF ExternalTypeOK, ExternalPlaces
<1>2. StopIsCancellation'
    BY DEF StopIsCancellation, ExternalTypeOK
<1>3. DisconnectedIsClosed'
    BY DEF DisconnectedIsClosed, SessionIsOwned, ExternalTypeOK, StopIsCancellation
<1>4. External!StopIsShown'
    BY DEF External!StopIsShown, StopIsCancellation, ExternalTypeOK
<1>5. SessionIsOwned'
    BY DEF SessionIsOwned, ExternalTypeOK
<1> QED BY <1>1, <1>2, <1>3, <1>4, <1>5

LEMMA ExternalWorkerFails ==
    ASSUME ExternalInv, External!WorkerFails PROVE ExternalInv'
<1> USE ExternalPhases, ExternalLength DEF ExternalInv, External!WorkerFails, External!WorkerUnchanged,
    External!RequestFails, External!RequestDone, External!TerminateChild, External!UpdateOperation, External!Goto
<1>1. ExternalTypeOK'
    BY DEF ExternalTypeOK, ExternalPlaces
<1>2. StopIsCancellation'
    BY DEF StopIsCancellation, ExternalTypeOK
<1>3. DisconnectedIsClosed'
    BY DEF DisconnectedIsClosed, SessionIsOwned, ExternalTypeOK, StopIsCancellation
<1>4. External!StopIsShown'
    BY DEF External!StopIsShown, StopIsCancellation, ExternalTypeOK
<1>5. SessionIsOwned'
    BY DEF SessionIsOwned, ExternalTypeOK
<1> QED BY <1>1, <1>2, <1>3, <1>4, <1>5

LEMMA ExternalCleanUp ==
    ASSUME ExternalInv, External!CleanUp PROVE ExternalInv'
<1> USE ExternalPhases, ExternalLength DEF ExternalInv, External!CleanUp, External!WorkerUnchanged,
    External!RequestFails, External!RequestDone, External!TerminateChild, External!UpdateOperation, External!Goto,
    External!RuntimeStop
<1>1. ExternalTypeOK'
    BY DEF ExternalTypeOK, ExternalPlaces
<1>2. StopIsCancellation'
    BY DEF StopIsCancellation, ExternalTypeOK
<1>3. DisconnectedIsClosed'
    BY DEF DisconnectedIsClosed, SessionIsOwned, ExternalTypeOK, StopIsCancellation
<1>4. External!StopIsShown'
    BY DEF External!StopIsShown, StopIsCancellation, ExternalTypeOK
<1>5. SessionIsOwned'
    BY DEF SessionIsOwned, ExternalTypeOK
<1> QED BY <1>1, <1>2, <1>3, <1>4, <1>5

LEMMA ExternalRequestedStopExit ==
    ASSUME ExternalInv, External!RequestedStopExit PROVE ExternalInv'
<1> USE DEF ExternalInv, External!RequestedStopExit, External!WorkerUnchanged, External!Goto
<1>1. ExternalTypeOK'
    BY DEF ExternalTypeOK, ExternalPlaces
<1>2. StopIsCancellation'
    BY DEF StopIsCancellation, ExternalTypeOK
<1>3. DisconnectedIsClosed'
    BY DEF DisconnectedIsClosed, SessionIsOwned, ExternalTypeOK, StopIsCancellation
<1>4. External!StopIsShown'
    BY DEF External!StopIsShown, StopIsCancellation, ExternalTypeOK
<1>5. SessionIsOwned'
    BY DEF SessionIsOwned, ExternalTypeOK
<1> QED BY <1>1, <1>2, <1>3, <1>4, <1>5

LEMMA ExternalFinishWorker ==
    ASSUME ExternalInv, External!FinishWorker PROVE ExternalInv'
<1> USE ExternalPhases, ExternalLength DEF ExternalInv, External!FinishWorker, External!WorkerUnchanged,
    External!RequestFails, External!RequestDone, External!TerminateChild, External!UpdateOperation, External!Goto
<1>1. ExternalTypeOK'
    BY DEF ExternalTypeOK, ExternalPlaces
<1>2. StopIsCancellation'
    BY DEF StopIsCancellation, ExternalTypeOK
<1>3. DisconnectedIsClosed'
    BY DEF DisconnectedIsClosed, SessionIsOwned, ExternalTypeOK, StopIsCancellation
<1>4. External!StopIsShown'
    BY DEF External!StopIsShown, StopIsCancellation, ExternalTypeOK
<1>5. SessionIsOwned'
    BY DEF SessionIsOwned, ExternalTypeOK
<1> QED BY <1>1, <1>2, <1>3, <1>4, <1>5

LEMMA ExternalConnect ==
    ASSUME ExternalInv, External!Connect PROVE ExternalInv'
<1> USE ExternalPhases, ExternalLength DEF ExternalInv, External!Connect, External!Goto
<1>1. ExternalTypeOK'
    BY DEF ExternalTypeOK, ExternalPlaces
<1>2. StopIsCancellation'
    BY DEF StopIsCancellation, ExternalTypeOK
<1>3. DisconnectedIsClosed'
    BY DEF DisconnectedIsClosed, SessionIsOwned, ExternalTypeOK, StopIsCancellation
<1>4. External!StopIsShown'
    BY DEF External!StopIsShown, StopIsCancellation, ExternalTypeOK
<1>5. SessionIsOwned'
    BY DEF SessionIsOwned, ExternalTypeOK
<1> QED BY <1>1, <1>2, <1>3, <1>4, <1>5

LEMMA ExternalAbortSocket ==
    ASSUME ExternalInv, External!AbortSocket PROVE ExternalInv'
<1> USE ExternalPhases, ExternalLength DEF ExternalInv, External!AbortSocket
<1>1. ExternalTypeOK'
    BY DEF ExternalTypeOK, ExternalPlaces
<1>2. StopIsCancellation'
    BY DEF StopIsCancellation, ExternalTypeOK
<1>3. DisconnectedIsClosed'
    BY DEF DisconnectedIsClosed, SessionIsOwned, ExternalTypeOK, StopIsCancellation
<1>4. External!StopIsShown'
    BY DEF External!StopIsShown, StopIsCancellation, ExternalTypeOK
<1>5. SessionIsOwned'
    BY DEF SessionIsOwned, ExternalTypeOK
<1> QED BY <1>1, <1>2, <1>3, <1>4, <1>5

LEMMA ExternalPeerLost ==
    ASSUME ExternalInv, External!PeerLost PROVE ExternalInv'
<1> USE ExternalPhases, ExternalLength DEF ExternalInv, External!PeerLost
<1>1. ExternalTypeOK'
    BY DEF ExternalTypeOK, ExternalPlaces
<1>2. StopIsCancellation'
    BY DEF StopIsCancellation, ExternalTypeOK
<1>3. DisconnectedIsClosed'
    BY DEF DisconnectedIsClosed, SessionIsOwned, ExternalTypeOK, StopIsCancellation
<1>4. External!StopIsShown'
    BY DEF External!StopIsShown, StopIsCancellation, ExternalTypeOK
<1>5. SessionIsOwned'
    BY DEF SessionIsOwned, ExternalTypeOK
<1> QED BY <1>1, <1>2, <1>3, <1>4, <1>5

LEMMA ExternalStopCommand ==
    ASSUME ExternalInv, NEW stop \in {"cancel", "disconnect"}, External!StopCommand(stop) PROVE ExternalInv'
<1> USE ExternalPhases, ExternalLength DEF ExternalInv, External!StopCommand, External!RequestWorkerStop
<1>1. ExternalTypeOK'
    <2>1. cancel' = TRUE /\ UNCHANGED <<generation, operation, abort, worker>>
        OBVIOUS
    <2>2. cancel' \in BOOLEAN
        BY <2>1
    <2> QED BY <2>1, <2>2 DEF ExternalTypeOK
<1>2. StopIsCancellation'
    BY DEF StopIsCancellation, ExternalTypeOK
<1>3. DisconnectedIsClosed'
    BY DEF DisconnectedIsClosed, SessionIsOwned, ExternalTypeOK, StopIsCancellation
<1>4. External!StopIsShown'
    BY DEF External!StopIsShown, StopIsCancellation, ExternalTypeOK
<1>5. SessionIsOwned'
    BY DEF SessionIsOwned, ExternalTypeOK
<1> QED BY <1>1, <1>2, <1>3, <1>4, <1>5

\* Every step of the worker, the commands and the socket keeps ExternalInv.
LEMMA ExternalStep == ExternalInv /\ [External!Next]_(External!lab) => ExternalInv'
<1> SUFFICES ASSUME ExternalInv, [External!Next]_(External!lab) PROVE ExternalInv'
    OBVIOUS
<1>1. CASE External!Worker
    BY <1>1, ExternalLaunch, ExternalHandshake, ExternalPrepare, ExternalConnectTransport, ExternalVerifyTransport,
       ExternalObserveFixedImpairment,
       ExternalDisconnectTransport, ExternalLastCheck, ExternalSampleSteadyState, ExternalWorkerFails,
       ExternalCleanUp, ExternalRequestedStopExit, ExternalFinishWorker DEF External!Worker
<1>2. CASE External!Cancel \/ External!Disconnect
    BY <1>2, ExternalStopCommand DEF External!Cancel, External!Disconnect
<1>3. CASE External!Connect \/ External!AbortSocket \/ External!PeerLost
    BY <1>3, ExternalConnect, ExternalAbortSocket, ExternalPeerLost
<1>4. CASE UNCHANGED External!lab
    BY <1>4 DEF External!lab, ExternalInv, ExternalTypeOK, StopIsCancellation, SessionIsOwned, DisconnectedIsClosed,
       External!StopIsShown
<1> QED BY <1>1, <1>2, <1>3, <1>4 DEF External!Next

\* Both of the laboratory's properties follow from ExternalInv.
LEMMA ExternalShowsStops == ExternalInv => External!StopIsShown /\ External!CleanExitIsClean
BY DEF ExternalInv, SessionIsOwned, DisconnectedIsClosed, External!CleanExitIsClean

-----------------------------------------------------------------------------
(***************************************************************************)
(* The userspace laboratory.                                                *)
(*                                                                          *)
(* The connect runs through its carriers in order, and at each place of it  *)
(* the sidecar, if it lives, has that carrier up; a session is kept at the  *)
(* end of it only, and nothing is left of an attempt that failed.           *)
(***************************************************************************)

Carriers == {"quic", "wss", "tcp"}
ChecksSoFar == {<<>>, <<"quic">>, <<"quic", "wss">>, <<"quic", "wss", "tcp">>}

LabSessions == [kept : BOOLEAN, tunnel : BOOLEAN, active : Carriers \cup {"none"}, checks : ChecksSoFar,
    routes : BOOLEAN]
LabRemotes == [tunnel : BOOLEAN, active : Carriers \cup {"none"}]

UserspaceTypeOK ==
    /\ session \in LabSessions /\ remote \in LabRemotes
    /\ session.routes => build = "vm_network"
    /\ at = "probe" => build = "vm_network"

\* A kept session is at rest; what is being set up is not kept, and nothing is left of what failed.
KeptIsFinished ==
    /\ session.kept => at \in {"idle", "poll", "status"}
    /\ at \in {"idle", "poll", "status", "launch", "profile", "prepare"}
        /\ ~session.kept => session = Userspace!NoSession

\* How far the connect is, and what a living sidecar has up by then.
SetUpIsInStep ==
    /\ at \in {"connect", "health", "probe", "checked", "disconnect"} => Len(session.checks) < 3
    /\ at \in {"connect", "health", "probe", "checked", "disconnect", "keep"} => session.tunnel
        /\ (child = "running" => remote.tunnel)
    /\ at \in {"health", "probe", "checked"} /\ child = "running" => remote.active = Userspace!Transport
    /\ at = "keep" => /\ session.checks = Userspace!LabConnectSequence /\ session.active = "tcp"
                      /\ child = "running" => remote.active = "tcp"

UserspaceInv == UserspaceTypeOK /\ KeptIsFinished /\ SetUpIsInStep /\ Userspace!KeptSessionIsConnected

\* A sequence of one element and another.
LEMMA AppendToOne == ASSUME NEW S, NEW a \in S, NEW b \in S PROVE Append(<<a>>, b) = <<a, b>>
<1>1. <<a>> \in Seq(S) /\ <<a, b>> \in Seq(S) /\ Len(<<a>>) = 1 /\ Len(<<a, b>>) = 2
    OBVIOUS
<1> DEFINE s == Append(<<a>>, b)
<1>2. s \in Seq(S) /\ Len(s) = 2 /\ s[1] = a /\ s[2] = b
    BY <1>1, AppendProperties
<1> HIDE DEF s
<1>3. \A i \in 1 .. Len(s) : s[i] = <<a, b>>[i]
    BY <1>2
<1>4. s = <<a, b>>
    BY <1>1, <1>2, <1>3, SeqEqual
<1> QED BY <1>4 DEF s

\* A sequence of two elements and another.
LEMMA AppendToTwo == ASSUME NEW S, NEW a \in S, NEW b \in S, NEW c \in S PROVE Append(<<a, b>>, c) = <<a, b, c>>
<1>1. <<a, b>> \in Seq(S) /\ <<a, b, c>> \in Seq(S) /\ Len(<<a, b>>) = 2 /\ Len(<<a, b, c>>) = 3
    OBVIOUS
<1> DEFINE s == Append(<<a, b>>, c)
<1>2. s \in Seq(S) /\ Len(s) = 3 /\ s[1] = a /\ s[2] = b /\ s[3] = c
    BY <1>1, AppendProperties
<1> HIDE DEF s
<1>3. \A i \in 1 .. Len(s) : s[i] = <<a, b, c>>[i]
    BY <1>2
<1>4. s = <<a, b, c>>
    BY <1>1, <1>2, <1>3, SeqEqual
<1> QED BY <1>4 DEF s

\* The connect runs through three carriers.
LEMMA UserspaceLength == Len(Userspace!LabConnectSequence) = 3
BY DEF Userspace!LabConnectSequence

\* Which carrier is next, and what has been checked after it.
LEMMA UserspaceChecks ==
    ASSUME UserspaceTypeOK, Len(session.checks) < 3
    PROVE  /\ Userspace!Transport \in Carriers
           /\ Append(session.checks, Userspace!Transport) \in ChecksSoFar
           /\ Len(Append(session.checks, Userspace!Transport)) # 3
               => Len(Append(session.checks, Userspace!Transport)) < 3
           /\ Len(Append(session.checks, Userspace!Transport)) = 3 =>
                  /\ Append(session.checks, Userspace!Transport) = Userspace!LabConnectSequence
                  /\ Userspace!Transport = "tcp"
<1>1. CASE session.checks = <<>>
    <2>1. Userspace!Transport = "quic"
        BY <1>1 DEF Userspace!Transport, Userspace!LabConnectSequence
    <2>2. Append(session.checks, Userspace!Transport) = <<"quic">>
        BY <1>1, <2>1
    <2> QED BY <2>1, <2>2 DEF Carriers, ChecksSoFar
<1>2. CASE session.checks = <<"quic">>
    <2>1. Userspace!Transport = "wss"
        BY <1>2 DEF Userspace!Transport, Userspace!LabConnectSequence
    <2>2. Append(session.checks, Userspace!Transport) = <<"quic", "wss">>
        <3>1. "quic" \in Carriers /\ "wss" \in Carriers /\ "tcp" \in Carriers
            BY DEF Carriers
        <3>2. Append(<<"quic">>, "wss") = <<"quic", "wss">>
            BY <3>1, AppendToOne
        <3> QED BY <1>2, <2>1, <3>2
    <2> QED BY <2>1, <2>2 DEF Carriers, ChecksSoFar
<1>3. CASE session.checks = <<"quic", "wss">>
    <2>1. Userspace!Transport = "tcp"
        BY <1>3 DEF Userspace!Transport, Userspace!LabConnectSequence
    <2>2. Append(session.checks, Userspace!Transport) = <<"quic", "wss", "tcp">>
        <3>1. "quic" \in Carriers /\ "wss" \in Carriers /\ "tcp" \in Carriers
            BY DEF Carriers
        <3>2. Append(<<"quic", "wss">>, "tcp") = <<"quic", "wss", "tcp">>
            BY <3>1, AppendToTwo
        <3> QED BY <1>3, <2>1, <3>2
    <2> QED BY <2>1, <2>2 DEF Carriers, ChecksSoFar, Userspace!LabConnectSequence
<1>4. session.checks # <<"quic", "wss", "tcp">>
    OBVIOUS
<1>5. session.checks \in ChecksSoFar
    BY DEF UserspaceTypeOK, LabSessions
<1> QED BY <1>1, <1>2, <1>3, <1>4, <1>5 DEF ChecksSoFar

\* Nothing, and what each step makes of the session and of the sidecar's own state.
LEMMA UserspaceNothing ==
    /\ Userspace!NoSession \in LabSessions /\ Userspace!NoRemote \in LabRemotes
    /\ ~Userspace!NoSession.kept /\ ~Userspace!NoSession.routes
    /\ Userspace!NoSession.checks = <<>> /\ Userspace!NoSession.active = "none" /\ Len(Userspace!NoSession.checks) = 0
BY DEF LabSessions, LabRemotes, Userspace!NoSession, Userspace!NoRemote, ChecksSoFar

\* An assignment to one field keeps the type of session and sidecar.
LEMMA UserspaceRecords ==
    ASSUME UserspaceTypeOK
    PROVE  /\ [session EXCEPT !.tunnel = TRUE] \in LabSessions /\ [session EXCEPT !.routes = TRUE] \in LabSessions
           /\ [session EXCEPT !.active = "none"] \in LabSessions /\ [session EXCEPT !.kept = TRUE] \in LabSessions
           /\ [remote EXCEPT !.tunnel = TRUE] \in LabRemotes /\ [remote EXCEPT !.active = "none"] \in LabRemotes
           /\ session.kept \in BOOLEAN /\ session.routes \in BOOLEAN /\ session.tunnel \in BOOLEAN
           /\ remote.tunnel \in BOOLEAN
BY DEF UserspaceTypeOK, LabSessions, LabRemotes

\* A carrier of the connect can be brought up, and its check noted.
LEMMA UserspaceNextCarrier ==
    ASSUME UserspaceTypeOK, Len(session.checks) < 3
    PROVE  /\ [remote EXCEPT !.active = Userspace!Transport] \in LabRemotes
           /\ [session EXCEPT !.checks = Append(@, Userspace!Transport), !.active = Userspace!Transport] \in LabSessions
BY UserspaceChecks DEF UserspaceTypeOK, LabSessions, LabRemotes

\* Nothing runs.
LEMMA UserspaceInitially == Userspace!Init => UserspaceInv
<1> SUFFICES ASSUME Userspace!Init PROVE UserspaceInv
    OBVIOUS
<1>1. session = Userspace!NoSession /\ remote = Userspace!NoRemote /\ at = "idle"
    BY DEF Userspace!Init
<1>2. UserspaceTypeOK
    BY <1>1, UserspaceNothing DEF UserspaceTypeOK
<1> QED BY <1>1, <1>2, UserspaceNothing DEF UserspaceInv, KeptIsFinished, SetUpIsInStep,
           Userspace!KeptSessionIsConnected

\* A request that fails leaves a session that is not kept, and an answer that stands leads to its end.
LEMMA UserspaceFails ==
    ASSUME UserspaceInv, at \in {"profile", "prepare", "connect", "health", "probe", "checked", "disconnect"},
           Userspace!RequestFails
    PROVE  UserspaceInv'
<1>1. remote' \in LabRemotes /\ at' = "abort" /\ UNCHANGED <<session, build>>
    BY UserspaceNothing DEF UserspaceInv, UserspaceTypeOK, Userspace!RequestFails, Userspace!Refused,
       Userspace!Unanswered
<1>2. ~session.kept
    BY DEF UserspaceInv, KeptIsFinished
<1> QED BY <1>1, <1>2 DEF UserspaceInv, UserspaceTypeOK, KeptIsFinished, SetUpIsInStep, Userspace!KeptSessionIsConnected

\* A sidecar that ends takes nothing of the session with it.
LEMMA UserspaceEnds ==
    ASSUME UserspaceInv, remote' = Userspace!NoRemote, child' # "running", UNCHANGED <<session, build>>,
           at' = at \/ (at = "status" /\ at' = "idle")
    PROVE  UserspaceInv'
BY UserspaceNothing DEF UserspaceInv, UserspaceTypeOK, KeptIsFinished, SetUpIsInStep, Userspace!KeptSessionIsConnected,
   Userspace!Transport

\* A session that was stopped is none.
LEMMA UserspaceStops ==
    ASSUME UserspaceInv, session' = Userspace!NoSession, remote' = Userspace!NoRemote, at' \in {"idle", "launch"},
           UNCHANGED build
    PROVE  UserspaceInv'
BY UserspaceNothing DEF UserspaceInv, UserspaceTypeOK, KeptIsFinished, SetUpIsInStep, Userspace!KeptSessionIsConnected

\* Where the command is changes, and nothing else that matters.
LEMMA UserspaceGoesOn ==
    ASSUME UserspaceInv, UNCHANGED <<session, remote, build>>, child' = child, at' \in {"idle", "poll", "status",
           "launch"},
           at \in {"idle", "poll", "status"}, at' = "launch" => ~session.kept
    PROVE  UserspaceInv'
BY DEF UserspaceInv, UserspaceTypeOK, KeptIsFinished, SetUpIsInStep, Userspace!KeptSessionIsConnected

\* One lemma for each action: it keeps UserspaceInv.
LEMMA UserspaceBeginStatus ==
    ASSUME UserspaceInv, NEW c, Userspace!BeginStatus(c) PROVE UserspaceInv'
BY UserspaceGoesOn DEF Userspace!BeginStatus

LEMMA UserspacePollLiveness ==
    ASSUME UserspaceInv, Userspace!PollLiveness PROVE UserspaceInv'
<1>1. CASE ~session.kept
    <2>1. at = "poll" /\ UNCHANGED <<session, remote, child, build>> /\ at' \in {"launch", "idle"}
        BY <1>1 DEF Userspace!PollLiveness, Userspace!Answer
    <2> QED BY <1>1, <2>1, UserspaceGoesOn
<1>2. CASE session.kept /\ child \in {"running", "stuck"}
    <2>1. at = "poll" /\ UNCHANGED <<session, remote, child, build>> /\ at' = "status"
        BY <1>2 DEF Userspace!PollLiveness
    <2> QED BY <2>1, UserspaceGoesOn
<1>3. CASE session.kept /\ child \notin {"running", "stuck"}
    <2>1. session' = Userspace!NoSession /\ remote' = Userspace!NoRemote /\ at' \in {"idle", "launch"}
          /\ UNCHANGED build
        BY <1>3 DEF Userspace!PollLiveness, Userspace!Answer, Userspace!Stop
    <2> QED BY <2>1, UserspaceStops
<1> QED BY <1>1, <1>2, <1>3

LEMMA UserspaceGetStatus ==
    ASSUME UserspaceInv, Userspace!GetStatus PROVE UserspaceInv'
<1>1. CASE Userspace!Answered(remote) \/ Userspace!Refused
    <2>1. at = "status" /\ at' = "idle" /\ UNCHANGED <<session, remote, child, build>>
        BY <1>1 DEF Userspace!GetStatus, Userspace!Answered, Userspace!Refused, Userspace!Answer
    <2> QED BY <2>1, UserspaceGoesOn
<1>2. CASE Userspace!Unanswered
    <2>1. at = "status" /\ at' = "idle" /\ UNCHANGED <<session, build>> /\ child' # "running"
          /\ remote' = Userspace!NoRemote
        BY <1>2 DEF Userspace!GetStatus, Userspace!Unanswered, Userspace!Answer
    <2> QED BY <2>1, UserspaceEnds
<1> QED BY <1>1, <1>2 DEF Userspace!GetStatus

LEMMA UserspaceAbortConnect ==
    ASSUME UserspaceInv, Userspace!AbortConnect PROVE UserspaceInv'
BY UserspaceStops DEF Userspace!AbortConnect, Userspace!Stop, Userspace!Answer

LEMMA UserspaceDisconnect ==
    ASSUME UserspaceInv, Userspace!Disconnect PROVE UserspaceInv'
<1>1. CASE session.kept
    BY <1>1, UserspaceStops DEF Userspace!Disconnect, Userspace!Stop, Userspace!Answer
<1>2. CASE ~session.kept
    <2>1. at = "idle" /\ at' = "idle" /\ UNCHANGED <<session, remote, child, build>>
        BY <1>2 DEF Userspace!Disconnect, Userspace!Answer
    <2> QED BY <2>1, UserspaceGoesOn
<1> QED BY <1>1, <1>2

LEMMA UserspaceChildDies ==
    ASSUME UserspaceInv, Userspace!ChildDies PROVE UserspaceInv'
BY UserspaceEnds DEF Userspace!ChildDies

LEMMA UserspaceApplyProfile ==
    ASSUME UserspaceInv, Userspace!ApplyProfile PROVE UserspaceInv'
<1>1. CASE Userspace!RequestFails
    BY <1>1, UserspaceFails DEF Userspace!ApplyProfile
<1>2. CASE at = "profile" /\ Userspace!Answered(remote) /\ at' = "prepare" /\ UNCHANGED <<session, build>>
    <2>1. UserspaceTypeOK'
        BY <1>2, UserspaceRecords, UserspaceNothing, UserspaceLength DEF UserspaceInv, UserspaceTypeOK,
            SetUpIsInStep, LabSessions, LabRemotes, Userspace!Answered
    <2>2. KeptIsFinished'
        BY <1>2, UserspaceRecords, UserspaceNothing, UserspaceLength DEF UserspaceInv, KeptIsFinished,
            UserspaceTypeOK, LabSessions, LabRemotes, Userspace!Answered
    <2>3. SetUpIsInStep'
        BY <1>2, UserspaceRecords, UserspaceNothing, UserspaceLength DEF UserspaceInv, SetUpIsInStep,
            UserspaceTypeOK, KeptIsFinished, Userspace!Transport, LabSessions, LabRemotes, Userspace!Answered
    <2>4. Userspace!KeptSessionIsConnected'
        BY <1>2, UserspaceRecords, UserspaceNothing, UserspaceLength DEF UserspaceInv,
            Userspace!KeptSessionIsConnected, KeptIsFinished, SetUpIsInStep, UserspaceTypeOK, LabSessions,
            LabRemotes, Userspace!Answered
    <2> QED BY <2>1, <2>2, <2>3, <2>4 DEF UserspaceInv
<1> QED BY <1>1, <1>2 DEF Userspace!ApplyProfile

LEMMA UserspacePrepareTunnel ==
    ASSUME UserspaceInv, Userspace!PrepareTunnel PROVE UserspaceInv'
<1>1. CASE Userspace!RequestFails
    BY <1>1, UserspaceFails DEF Userspace!PrepareTunnel
<1>2. CASE at = "prepare" /\ Userspace!Answered([remote EXCEPT !.tunnel = TRUE])
           /\ session' = [session EXCEPT !.tunnel = TRUE] /\ at' = "connect" /\ UNCHANGED build
    <2>1. UserspaceTypeOK'
        BY <1>2, UserspaceRecords, UserspaceNothing, UserspaceLength DEF UserspaceInv, UserspaceTypeOK,
            SetUpIsInStep, LabSessions, LabRemotes, Userspace!Answered
    <2>2. KeptIsFinished'
        BY <1>2, UserspaceRecords, UserspaceNothing, UserspaceLength DEF UserspaceInv, KeptIsFinished,
            UserspaceTypeOK, LabSessions, LabRemotes, Userspace!Answered
    <2>3. SetUpIsInStep'
        BY <1>2, UserspaceRecords, UserspaceNothing, UserspaceLength DEF UserspaceInv, SetUpIsInStep,
            UserspaceTypeOK, KeptIsFinished, Userspace!Transport, LabSessions, LabRemotes, Userspace!Answered
    <2>4. Userspace!KeptSessionIsConnected'
        BY <1>2, UserspaceRecords, UserspaceNothing, UserspaceLength DEF UserspaceInv,
            Userspace!KeptSessionIsConnected, KeptIsFinished, SetUpIsInStep, UserspaceTypeOK, LabSessions,
            LabRemotes, Userspace!Answered
    <2> QED BY <2>1, <2>2, <2>3, <2>4 DEF UserspaceInv
<1> QED BY <1>1, <1>2 DEF Userspace!PrepareTunnel

LEMMA UserspaceConnectTransport ==
    ASSUME UserspaceInv, Userspace!ConnectTransport PROVE UserspaceInv'
<1>1. CASE Userspace!RequestFails
    BY <1>1, UserspaceFails DEF Userspace!ConnectTransport
<1>2. CASE at = "connect" /\ Userspace!Answered([remote EXCEPT !.active = Userspace!Transport])
           /\ at' = "health" /\ UNCHANGED <<session, build>>
    <2>1. UserspaceTypeOK'
        BY <1>2, UserspaceRecords, UserspaceNothing, UserspaceLength, UserspaceNextCarrier, UserspaceChecks DEF
            UserspaceInv, UserspaceTypeOK, SetUpIsInStep, LabSessions, LabRemotes, Userspace!Answered
    <2>2. KeptIsFinished'
        BY <1>2, UserspaceRecords, UserspaceNothing, UserspaceLength, UserspaceNextCarrier, UserspaceChecks DEF
            UserspaceInv, KeptIsFinished, UserspaceTypeOK, LabSessions, LabRemotes, Userspace!Answered
    <2>3. SetUpIsInStep'
        BY <1>2, UserspaceRecords, UserspaceNothing, UserspaceLength, UserspaceNextCarrier, UserspaceChecks DEF
            UserspaceInv, SetUpIsInStep, UserspaceTypeOK, KeptIsFinished, Userspace!Transport, LabSessions,
            LabRemotes, Userspace!Answered
    <2>4. Userspace!KeptSessionIsConnected'
        BY <1>2, UserspaceRecords, UserspaceNothing, UserspaceLength, UserspaceNextCarrier, UserspaceChecks DEF
            UserspaceInv, Userspace!KeptSessionIsConnected, KeptIsFinished, SetUpIsInStep, UserspaceTypeOK,
            LabSessions, LabRemotes, Userspace!Answered
    <2> QED BY <2>1, <2>2, <2>3, <2>4 DEF UserspaceInv
<1> QED BY <1>1, <1>2 DEF Userspace!ConnectTransport

LEMMA UserspaceSampleHealth ==
    ASSUME UserspaceInv, Userspace!SampleHealth PROVE UserspaceInv'
<1>1. CASE Userspace!RequestFails
    BY <1>1, UserspaceFails DEF Userspace!SampleHealth
<1>2. CASE at = "health" /\ Userspace!Answered(remote) /\ at' = (IF build = "vm_network" THEN "probe"
           ELSE "checked") /\ UNCHANGED <<session, build>>
    <2>1. UserspaceTypeOK'
        BY <1>2, UserspaceRecords, UserspaceNothing, UserspaceLength DEF UserspaceInv, UserspaceTypeOK,
            SetUpIsInStep, LabSessions, LabRemotes, Userspace!Answered
    <2>2. KeptIsFinished'
        BY <1>2, UserspaceRecords, UserspaceNothing, UserspaceLength DEF UserspaceInv, KeptIsFinished,
            UserspaceTypeOK, LabSessions, LabRemotes, Userspace!Answered
    <2>3. SetUpIsInStep'
        BY <1>2, UserspaceRecords, UserspaceNothing, UserspaceLength DEF UserspaceInv, SetUpIsInStep,
            UserspaceTypeOK, KeptIsFinished, Userspace!Transport, LabSessions, LabRemotes, Userspace!Answered
    <2>4. Userspace!KeptSessionIsConnected'
        BY <1>2, UserspaceRecords, UserspaceNothing, UserspaceLength DEF UserspaceInv,
            Userspace!KeptSessionIsConnected, KeptIsFinished, SetUpIsInStep, UserspaceTypeOK, LabSessions,
            LabRemotes, Userspace!Answered
    <2> QED BY <2>1, <2>2, <2>3, <2>4 DEF UserspaceInv
<1> QED BY <1>1, <1>2 DEF Userspace!SampleHealth

LEMMA UserspaceSamplePrivateReachability ==
    ASSUME UserspaceInv, Userspace!SamplePrivateReachability PROVE UserspaceInv'
<1>1. CASE Userspace!RequestFails
    BY <1>1, UserspaceFails DEF Userspace!SamplePrivateReachability
<1>2. CASE at = "probe" /\ Userspace!Answered(remote) /\ at' = "checked"
           /\ session' = [session EXCEPT !.routes = TRUE] /\ UNCHANGED build
    <2>1. UserspaceTypeOK'
        BY <1>2, UserspaceRecords, UserspaceNothing, UserspaceLength DEF UserspaceInv, UserspaceTypeOK,
            SetUpIsInStep, LabSessions, LabRemotes, Userspace!Answered
    <2>2. KeptIsFinished'
        BY <1>2, UserspaceRecords, UserspaceNothing, UserspaceLength DEF UserspaceInv, KeptIsFinished,
            UserspaceTypeOK, LabSessions, LabRemotes, Userspace!Answered
    <2>3. SetUpIsInStep'
        BY <1>2, UserspaceRecords, UserspaceNothing, UserspaceLength DEF UserspaceInv, SetUpIsInStep,
            UserspaceTypeOK, KeptIsFinished, Userspace!Transport, LabSessions, LabRemotes, Userspace!Answered
    <2>4. Userspace!KeptSessionIsConnected'
        BY <1>2, UserspaceRecords, UserspaceNothing, UserspaceLength DEF UserspaceInv,
            Userspace!KeptSessionIsConnected, KeptIsFinished, SetUpIsInStep, UserspaceTypeOK, LabSessions,
            LabRemotes, Userspace!Answered
    <2> QED BY <2>1, <2>2, <2>3, <2>4 DEF UserspaceInv
<1> QED BY <1>1, <1>2 DEF Userspace!SamplePrivateReachability

LEMMA UserspaceDisconnectActive ==
    ASSUME UserspaceInv, Userspace!DisconnectActive PROVE UserspaceInv'
<1>1. CASE Userspace!RequestFails
    BY <1>1, UserspaceFails DEF Userspace!DisconnectActive
<1>2. CASE at = "disconnect" /\ Userspace!Answered([remote EXCEPT !.active = "none"])
           /\ session' = [session EXCEPT !.active = "none"] /\ at' = "connect" /\ UNCHANGED build
    <2>1. UserspaceTypeOK'
        BY <1>2, UserspaceRecords, UserspaceNothing, UserspaceLength DEF UserspaceInv, UserspaceTypeOK,
            SetUpIsInStep, LabSessions, LabRemotes, Userspace!Answered
    <2>2. KeptIsFinished'
        BY <1>2, UserspaceRecords, UserspaceNothing, UserspaceLength DEF UserspaceInv, KeptIsFinished,
            UserspaceTypeOK, LabSessions, LabRemotes, Userspace!Answered
    <2>3. SetUpIsInStep'
        BY <1>2, UserspaceRecords, UserspaceNothing, UserspaceLength DEF UserspaceInv, SetUpIsInStep,
            UserspaceTypeOK, KeptIsFinished, Userspace!Transport, LabSessions, LabRemotes, Userspace!Answered
    <2>4. Userspace!KeptSessionIsConnected'
        BY <1>2, UserspaceRecords, UserspaceNothing, UserspaceLength DEF UserspaceInv,
            Userspace!KeptSessionIsConnected, KeptIsFinished, SetUpIsInStep, UserspaceTypeOK, LabSessions,
            LabRemotes, Userspace!Answered
    <2> QED BY <2>1, <2>2, <2>3, <2>4 DEF UserspaceInv
<1>3. at = "disconnect" /\ Len(session.checks) # Len(Userspace!LabConnectSequence)
    BY UserspaceLength DEF Userspace!DisconnectActive, UserspaceInv, SetUpIsInStep
<1> QED BY <1>1, <1>2, <1>3 DEF Userspace!DisconnectActive

LEMMA UserspaceStartLab ==
    ASSUME UserspaceInv, Userspace!StartLab PROVE UserspaceInv'
<1>1. UserspaceTypeOK'
    BY UserspaceRecords, UserspaceNothing, UserspaceLength DEF UserspaceInv, UserspaceTypeOK, SetUpIsInStep,
        LabSessions, LabRemotes, Userspace!StartLab, Userspace!Answer
<1>2. KeptIsFinished'
    BY UserspaceRecords, UserspaceNothing, UserspaceLength DEF UserspaceInv, KeptIsFinished, UserspaceTypeOK,
        LabSessions, LabRemotes, Userspace!StartLab, Userspace!Answer
<1>3. SetUpIsInStep'
    BY UserspaceRecords, UserspaceNothing, UserspaceLength DEF UserspaceInv, SetUpIsInStep, UserspaceTypeOK,
        KeptIsFinished, Userspace!Transport, LabSessions, LabRemotes, Userspace!StartLab, Userspace!Answer
<1>4. Userspace!KeptSessionIsConnected'
    BY UserspaceRecords, UserspaceNothing, UserspaceLength DEF UserspaceInv, Userspace!KeptSessionIsConnected,
        KeptIsFinished, SetUpIsInStep, UserspaceTypeOK, LabSessions, LabRemotes, Userspace!StartLab,
        Userspace!Answer
<1> QED BY <1>1, <1>2, <1>3, <1>4 DEF UserspaceInv

LEMMA UserspacePushCheck ==
    ASSUME UserspaceInv, Userspace!PushCheck PROVE UserspaceInv'
<1>1. UserspaceTypeOK'
    BY UserspaceRecords, UserspaceNothing, UserspaceLength, UserspaceNextCarrier, UserspaceChecks DEF
        UserspaceInv, UserspaceTypeOK, SetUpIsInStep, LabSessions, LabRemotes, Userspace!PushCheck,
        Userspace!Answer, Userspace!AfterCheck
<1>2. KeptIsFinished'
    BY UserspaceRecords, UserspaceNothing, UserspaceLength, UserspaceNextCarrier, UserspaceChecks DEF
        UserspaceInv, KeptIsFinished, UserspaceTypeOK, LabSessions, LabRemotes, Userspace!PushCheck,
        Userspace!Answer, Userspace!AfterCheck
<1>3. SetUpIsInStep'
    BY UserspaceRecords, UserspaceNothing, UserspaceLength, UserspaceNextCarrier, UserspaceChecks DEF
        UserspaceInv, SetUpIsInStep, UserspaceTypeOK, KeptIsFinished, Userspace!Transport, LabSessions,
        LabRemotes, Userspace!PushCheck, Userspace!Answer, Userspace!AfterCheck
<1>4. Userspace!KeptSessionIsConnected'
    BY UserspaceRecords, UserspaceNothing, UserspaceLength, UserspaceNextCarrier, UserspaceChecks DEF
        UserspaceInv, Userspace!KeptSessionIsConnected, KeptIsFinished, SetUpIsInStep, UserspaceTypeOK,
        LabSessions, LabRemotes, Userspace!PushCheck, Userspace!Answer, Userspace!AfterCheck
<1> QED BY <1>1, <1>2, <1>3, <1>4 DEF UserspaceInv

LEMMA UserspaceKeepSession ==
    ASSUME UserspaceInv, Userspace!KeepSession PROVE UserspaceInv'
<1>1. UserspaceTypeOK'
    BY UserspaceRecords, UserspaceNothing, UserspaceLength DEF UserspaceInv, UserspaceTypeOK, SetUpIsInStep,
        LabSessions, LabRemotes, Userspace!KeepSession, Userspace!Answer, Userspace!AfterCheck
<1>2. KeptIsFinished'
    BY UserspaceRecords, UserspaceNothing, UserspaceLength DEF UserspaceInv, KeptIsFinished, UserspaceTypeOK,
        LabSessions, LabRemotes, Userspace!KeepSession, Userspace!Answer, Userspace!AfterCheck
<1>3. SetUpIsInStep'
    BY UserspaceRecords, UserspaceNothing, UserspaceLength DEF UserspaceInv, SetUpIsInStep, UserspaceTypeOK,
        KeptIsFinished, Userspace!Transport, LabSessions, LabRemotes, Userspace!KeepSession, Userspace!Answer,
        Userspace!AfterCheck
<1>4. Userspace!KeptSessionIsConnected'
    BY UserspaceRecords, UserspaceNothing, UserspaceLength DEF UserspaceInv, Userspace!KeptSessionIsConnected,
        KeptIsFinished, SetUpIsInStep, UserspaceTypeOK, LabSessions, LabRemotes, Userspace!KeepSession,
        Userspace!Answer, Userspace!AfterCheck
<1> QED BY <1>1, <1>2, <1>3, <1>4 DEF UserspaceInv

\* Every step of the commands, and the death of the child, keep UserspaceInv.
LEMMA UserspaceStep == UserspaceInv /\ [Userspace!Next]_(Userspace!lab) => UserspaceInv'
<1> SUFFICES ASSUME UserspaceInv, [Userspace!Next]_(Userspace!lab) PROVE UserspaceInv'
    OBVIOUS
<1>1. CASE Userspace!Next
    BY <1>1, UserspaceBeginStatus, UserspacePollLiveness, UserspaceGetStatus, UserspaceStartLab,
       UserspaceApplyProfile, UserspacePrepareTunnel,
       UserspaceConnectTransport, UserspaceSampleHealth, UserspaceSamplePrivateReachability, UserspacePushCheck,
       UserspaceDisconnectActive,
       UserspaceKeepSession, UserspaceAbortConnect, UserspaceDisconnect, UserspaceChildDies DEF Userspace!Next
<1>2. CASE UNCHANGED Userspace!lab
    BY <1>2 DEF Userspace!lab, UserspaceInv, UserspaceTypeOK, KeptIsFinished, SetUpIsInStep,
       Userspace!KeptSessionIsConnected,
       Userspace!Transport
<1> QED BY <1>1, <1>2

-----------------------------------------------------------------------------
(***************************************************************************)
(* The protocol with the Go sidecar.                                        *)
(*                                                                          *)
(* What the sidecar believes is ordered (profile, tunnel, carrier) and errs *)
(* only to the side of believing in a carrier that is gone; ids grow, so    *)
(* that an answer with the id that is waited for is the answer to this      *)
(* request.                                                                 *)
(***************************************************************************)

IpcTypes == {"get_status", "apply_profile", "prepare_tunnel", "stop_tunnel", "disconnect_transport", "sample_health",
             "sample_private_reachability", "connect", "disconnect", "connect_transport", "cancel"}
IpcSessions == [profile : BOOLEAN, tunnel : BOOLEAN, active : Ipc!Transports \cup {"none"}, lastError : BOOLEAN,
    over : BOOLEAN]
IpcBackends == [tunnel : BOOLEAN, carrier : Ipc!Transports \cup {"none"}]

IpcTypeOK ==
    /\ session \in IpcSessions /\ backend \in IpcBackends
    /\ request.id \in Nat /\ request.type \in IpcTypes \cup {"none"}
    /\ request.type = "connect_transport" => request.arg \in Ipc!Transports
    /\ answer.id \in Nat /\ earlier.id \in Nat
    /\ verdict \in {"none", "accepted", "refused"}

\* A carrier is up over a tunnel, and a tunnel with a profile.
InOrder(s) == (s.active # "none" => s.tunnel) /\ (s.tunnel => s.profile)

\* The sidecar may believe in a carrier that is gone, never the other way round.
CarrierIsKnown(s, b) == s.active = "none" => b.carrier = "none"

\* What a success of a request says of the backend.
IsDone(r, b) ==
    /\ r.type = "connect_transport" => b.carrier = r.arg
    /\ r.type = "disconnect_transport" => b.carrier = "none"
    /\ r.type = "prepare_tunnel" => b.tunnel
    /\ r.type \in {"stop_tunnel", "disconnect"} => b = [tunnel |-> FALSE, carrier |-> "none"]

\* An answer to the request that is waited for is understood, and true.
AnswerIsTrue ==
    request.type # "none" /\ answer.id = request.id =>
        /\ Ipc!ValidateProtocol(request, answer)
        /\ answer.type # "error" => IsDone(request, backend)

\* What an earlier request left in the stream has its own id.
IdsGrow ==
    /\ answer.id <= request.id
    /\ request.type = "none" => request.id = 0 /\ verdict = "none"
    /\ request.type # "none" => earlier.id < request.id

VerdictIsOfAnswer == verdict # "none" => (verdict = "accepted" <=> Ipc!ValidateProtocol(request, answer))

IpcInv ==
    /\ IpcTypeOK /\ InOrder(session) /\ CarrierIsKnown(session, backend) /\ AnswerIsTrue /\ IdsGrow /\ VerdictIsOfAnswer

\* Nothing is asked and nothing is up.
LEMMA IpcInitially == Ipc!Init => IpcInv
<1> SUFFICES ASSUME Ipc!Init PROVE IpcInv
    OBVIOUS
<1>1. /\ session = [profile |-> FALSE, tunnel |-> FALSE, active |-> "none", lastError |-> FALSE, over |-> FALSE]
      /\ backend = [tunnel |-> FALSE, carrier |-> "none"]
      /\ request.type = "none" /\ request.id = 0 /\ answer.id = 0 /\ earlier.id = 0 /\ verdict = "none"
    BY DEF Ipc!Init, Ipc!None, Ipc!NoRequest, Ipc!NoAnswer
<1>2. session \in IpcSessions /\ backend \in IpcBackends
    BY <1>1 DEF IpcSessions, IpcBackends
<1>3. IpcTypeOK
    BY <1>1, <1>2 DEF IpcTypeOK
<1> QED BY <1>1, <1>3 DEF IpcInv, InOrder, CarrierIsKnown, AnswerIsTrue, IdsGrow, VerdictIsOfAnswer

(* What is asked of one outcome of a request.                                *)
OutcomeIsSound(o) ==
    /\ o.session \in IpcSessions /\ o.backend \in IpcBackends
    /\ InOrder(o.session) /\ CarrierIsKnown(o.session, o.backend)
    /\ \/ o.type = "error"
       \/ /\ Ipc!ValidateResponsePayload(request, [id |-> request.id, type |-> o.type, data |-> o.data])
          /\ IsDone(request, o.backend)

\* A refusal is a sound outcome.
LEMMA FailureIsSound == ASSUME IpcInv PROVE OutcomeIsSound(Ipc!Failure)
BY DEF IpcInv, IpcTypeOK, OutcomeIsSound, Ipc!Failure, Ipc!Ok

\* A failure of the backend, after which a carrier may be gone, is a sound outcome.
LEMMA BackendFailureIsSound ==
    ASSUME IpcInv, NEW b \in IpcBackends, b.carrier \in {backend.carrier, "none"}
    PROVE  OutcomeIsSound(Ipc!BackendFailure(b))
<1>1. [session EXCEPT !.lastError = TRUE] \in IpcSessions
    BY DEF IpcInv, IpcTypeOK, IpcSessions
<1>2. InOrder([session EXCEPT !.lastError = TRUE]) /\ CarrierIsKnown([session EXCEPT !.lastError = TRUE], b)
    BY DEF IpcInv, IpcTypeOK, IpcSessions, InOrder, CarrierIsKnown
<1> QED BY <1>1, <1>2 DEF OutcomeIsSound, Ipc!BackendFailure

\* The status of a session in order passes the application's check.
LEMMA StatusIsValid ==
    ASSUME NEW s \in IpcSessions, InOrder(s)
    PROVE  /\ Ipc!ValidateNetworkStatus(Ipc!StatusOf(s))
           /\ Ipc!StatusOf(s).transport = s.active /\ Ipc!StatusOf(s).lastError = s.lastError
           /\ s.active = "none" /\ s.tunnel => Ipc!StatusOf(s).state = "preparing_tunnel"
           /\ s.active = "none" /\ ~s.tunnel => Ipc!StatusOf(s).state = "disconnected"
           /\ s.active # "none" => Ipc!StatusOf(s).state = Ipc!ExpectedState(s.active)
<1>1. s.active \in {"quic", "wss", "tcp", "none"} /\ s.tunnel \in BOOLEAN /\ s.profile \in BOOLEAN
    BY DEF IpcSessions, Ipc!Transports
<1> QED BY <1>1 DEF InOrder, Ipc!ValidateNetworkStatus, Ipc!StatusOf, Ipc!ExpectedState, Ipc!None

\* A status answer is sound when the request may be answered with it.
LEMMA StatusAnswerIsSound ==
    ASSUME NEW s \in IpcSessions, InOrder(s), NEW b \in IpcBackends, CarrierIsKnown(s, b), IsDone(request, b),
           \/ request.type = "get_status"
           \/ request.type = "stop_tunnel" /\ s.active = "none" /\ ~s.tunnel /\ ~s.lastError
           \/ request.type = "connect_transport" /\ s.active = request.arg /\ request.arg # "none" /\ ~s.lastError
           \/ request.type = "disconnect_transport" /\ s.active = "none" /\ s.tunnel /\ ~s.lastError
    PROVE  OutcomeIsSound(Ipc!StatusAnswer(s, b))
<1> DEFINE o == Ipc!StatusAnswer(s, b)
<1>1. o.session = s /\ o.backend = b /\ o.type = "status" /\ o.data = Ipc!StatusOf(s)
    BY DEF Ipc!StatusAnswer
<1> DEFINE a == [id |-> request.id, type |-> o.type, data |-> o.data]
<1>2. a.type = "status" /\ a.data = Ipc!StatusOf(s)
    BY <1>1
<1>3. Ipc!ValidateResponsePayload(request, a)
    <2> HIDE DEF a, o
    <2> QED BY <1>2, StatusIsValid DEF Ipc!ValidateResponsePayload, Ipc!RequireStatus, Ipc!None
<1>4. OutcomeIsSound(o)
    <2> HIDE DEF o
    <2> QED BY <1>1, <1>3 DEF OutcomeIsSound
<1> QED BY <1>4

\* Every outcome of the sidecar's handler is sound.
LEMMA HandleIsSound ==
    ASSUME IpcInv, request.type # "none", NEW o \in Ipc!Handle(request)
    PROVE  OutcomeIsSound(o)
<1> USE DEF Ipc!None
<1>0. session \in IpcSessions /\ backend \in IpcBackends /\ InOrder(session) /\ CarrierIsKnown(session, backend)
      /\ request.type \in IpcTypes /\ (request.type = "connect_transport" => request.arg \in Ipc!Transports)
    BY DEF IpcInv, IpcTypeOK
<1>00. OutcomeIsSound(Ipc!Failure) /\ OutcomeIsSound(Ipc!BackendFailure(backend))
    BY <1>0, FailureIsSound, BackendFailureIsSound
<1> DEFINE clean == [session EXCEPT !.lastError = FALSE]
<1>1. CASE request.type = "get_status"
    <2>1. o = Ipc!StatusAnswer(session, backend)
        BY <1>1 DEF Ipc!Handle
    <2> QED BY <1>0, <1>1, <2>1, StatusAnswerIsSound DEF IsDone
<1>2. CASE request.type = "apply_profile"
    <2> DEFINE p == Ipc!Ok([clean EXCEPT !.profile = TRUE], "acknowledged", Ipc!NoStatus)
    <2>1. o = Ipc!Failure \/ (session.active = "none" /\ ~session.tunnel /\ o = p)
        BY <1>2 DEF Ipc!Handle
    <2>2. ASSUME session.active = "none", ~session.tunnel PROVE OutcomeIsSound(p)
        <3>1. [clean EXCEPT !.profile = TRUE] \in IpcSessions /\ InOrder([clean EXCEPT !.profile = TRUE])
              /\ CarrierIsKnown([clean EXCEPT !.profile = TRUE], backend)
            BY <1>0, <2>2 DEF IpcSessions, InOrder, CarrierIsKnown
        <3> QED BY <1>0, <1>2, <3>1 DEF OutcomeIsSound, Ipc!Ok, IsDone, Ipc!ValidateResponsePayload
    <2> QED BY <1>00, <2>1, <2>2
<1>3. CASE request.type = "prepare_tunnel"
    <2> DEFINE p == [Ipc!Ok([clean EXCEPT !.tunnel = TRUE], "tunnel_prepared",
               Ipc!NoStatus) EXCEPT !.backend.tunnel = TRUE]
    <2>1. o = Ipc!Failure \/ o = Ipc!BackendFailure(backend) \/ (session.profile /\ ~session.tunnel /\ o = p)
        BY <1>3 DEF Ipc!Handle
    <2>2. ASSUME session.profile, ~session.tunnel PROVE OutcomeIsSound(p)
        <3>1. [clean EXCEPT !.tunnel = TRUE] \in IpcSessions /\ InOrder([clean EXCEPT !.tunnel = TRUE])
            BY <1>0, <2>2 DEF IpcSessions, InOrder
        <3>2. p.session = [clean EXCEPT !.tunnel = TRUE] /\ p.type = "tunnel_prepared"
              /\ p.backend = [backend EXCEPT !.tunnel = TRUE]
            BY DEF Ipc!Ok
        <3>3. p.backend \in IpcBackends /\ p.backend.tunnel /\ p.backend.carrier = backend.carrier
            BY <1>0, <3>2, ZenonT(30) DEF IpcBackends
        <3>4. CarrierIsKnown(p.session, p.backend)
            <4>1. [clean EXCEPT !.tunnel = TRUE].active = session.active
                BY <1>0 DEF IpcSessions
            <4> HIDE DEF p, clean
            <4> QED BY <1>0, <3>2, <3>3, <4>1 DEF CarrierIsKnown
        <3> HIDE DEF p
        <3> QED BY <1>3, <3>1, <3>2, <3>3, <3>4 DEF OutcomeIsSound, IsDone, Ipc!ValidateResponsePayload
    <2> QED BY <1>00, <2>1, <2>2
<1>4. CASE request.type = "connect_transport"
    <2> DEFINE s == [clean EXCEPT !.active = request.arg]
               b == [backend EXCEPT !.carrier = request.arg]
    <2>1. \/ o = Ipc!Failure \/ o = Ipc!BackendFailure(backend)
          \/ session.profile /\ session.tunnel /\ o = Ipc!StatusAnswer(s, b)
        BY <1>4 DEF Ipc!Handle
    <2>2. ASSUME session.profile, session.tunnel PROVE OutcomeIsSound(Ipc!StatusAnswer(s, b))
        <3>1. request.arg # "none"
            BY <1>0, <1>4 DEF Ipc!Transports
        <3>2. s \in IpcSessions /\ InOrder(s) /\ s.active = request.arg /\ ~s.lastError
            BY <1>0, <1>4, <2>2 DEF IpcSessions, InOrder
        <3>3. b \in IpcBackends /\ b.carrier = request.arg /\ CarrierIsKnown(s, b) /\ IsDone(request, b)
            BY <1>0, <1>4, <3>1, <3>2 DEF IpcBackends, CarrierIsKnown, IsDone
        <3> HIDE DEF s, b
        <3> QED BY <1>4, <3>1, <3>2, <3>3, StatusAnswerIsSound
    <2> QED BY <1>00, <2>1, <2>2
<1>5. CASE request.type = "disconnect_transport"
    <2> DEFINE s == [clean EXCEPT !.active = "none"]
               b == [backend EXCEPT !.carrier = "none"]
    <2>1. \/ o = Ipc!Failure \/ o = Ipc!BackendFailure(backend)
          \/ session.active # "none" /\ o = Ipc!StatusAnswer(s, b)
        BY <1>5 DEF Ipc!Handle
    <2>2. ASSUME session.active # "none" PROVE OutcomeIsSound(Ipc!StatusAnswer(s, b))
        <3>2. s \in IpcSessions /\ InOrder(s) /\ s.active = "none" /\ s.tunnel /\ ~s.lastError
            BY <1>0, <2>2 DEF IpcSessions, InOrder
        <3>3. b \in IpcBackends /\ b.carrier = "none" /\ CarrierIsKnown(s, b) /\ IsDone(request, b)
            BY <1>0, <1>5, <3>2 DEF IpcBackends, CarrierIsKnown, IsDone
        <3> HIDE DEF s, b
        <3> QED BY <1>5, <3>2, <3>3, StatusAnswerIsSound
    <2> QED BY <1>00, <2>1, <2>2
<1>6. CASE request.type = "stop_tunnel"
    <2> DEFINE s == [clean EXCEPT !.tunnel = FALSE]
               b == [backend EXCEPT !.tunnel = FALSE]
    <2>1. \/ o = Ipc!Failure \/ o = Ipc!BackendFailure(backend)
          \/ session.active = "none" /\ o = Ipc!StatusAnswer(s, b)
        BY <1>6 DEF Ipc!Handle
    <2>2. ASSUME session.active = "none" PROVE OutcomeIsSound(Ipc!StatusAnswer(s, b))
        <3>2. s \in IpcSessions /\ InOrder(s) /\ s.active = "none" /\ ~s.tunnel /\ ~s.lastError
            BY <1>0, <2>2 DEF IpcSessions, InOrder
        <3>3. b \in IpcBackends /\ b = [tunnel |-> FALSE, carrier |-> "none"]
            <4>1. backend.carrier = "none"
                BY <1>0, <2>2 DEF CarrierIsKnown
            <4>2. b \in IpcBackends /\ b.tunnel = FALSE /\ b.carrier = "none"
                BY <1>0, <4>1 DEF IpcBackends
            <4>3. b = [tunnel |-> b.tunnel, carrier |-> b.carrier]
                <5> HIDE DEF b
                <5> QED BY <4>2 DEF IpcBackends
            <4>4. b = [tunnel |-> FALSE, carrier |-> "none"]
                <5> HIDE DEF b
                <5> QED BY <4>2, <4>3
            <4>5. [tunnel |-> FALSE, carrier |-> "none"] \in IpcBackends
                BY DEF IpcBackends
            <4> HIDE DEF b
            <4> QED BY <4>4, <4>5
        <3>4. CarrierIsKnown(s, b) /\ IsDone(request, b)
            BY <1>6, <3>3 DEF CarrierIsKnown, IsDone
        <3> HIDE DEF s, b
        <3> QED BY <1>6, <3>2, <3>3, <3>4, StatusAnswerIsSound
    <2> QED BY <1>00, <2>1, <2>2
<1>7. CASE request.type = "sample_health"
    <2>1. o \in {Ipc!Failure, Ipc!BackendFailure(backend), Ipc!Ok(session, "health", Ipc!NoStatus)}
        BY <1>7 DEF Ipc!Handle
    <2>2. OutcomeIsSound(Ipc!Ok(session, "health", Ipc!NoStatus))
        BY <1>0, <1>7 DEF OutcomeIsSound, Ipc!Ok, IsDone, Ipc!ValidateResponsePayload
    <2> QED BY <1>00, <2>1, <2>2
<1>8. CASE request.type = "sample_private_reachability"
    <2>1. o \in {Ipc!Failure, Ipc!BackendFailure(backend), Ipc!Ok(session, "private_reachability", Ipc!NoStatus)}
        BY <1>8 DEF Ipc!Handle
    <2>2. OutcomeIsSound(Ipc!Ok(session, "private_reachability", Ipc!NoStatus))
        BY <1>0, <1>8 DEF OutcomeIsSound, Ipc!Ok, IsDone, Ipc!ValidateResponsePayload
    <2> QED BY <1>00, <2>1, <2>2
<1>9. CASE request.type = "disconnect"
    <2> DEFINE s == [clean EXCEPT !.profile = FALSE, !.tunnel = FALSE, !.active = "none", !.over = TRUE]
               down == [tunnel |-> FALSE, carrier |-> "none"]
               p == [Ipc!Ok(s, "acknowledged", Ipc!NoStatus) EXCEPT !.backend = down]
               half == [backend EXCEPT !.carrier = "none"]
    <2>1. o \in {p, Ipc!BackendFailure(backend), Ipc!BackendFailure(half), Ipc!BackendFailure(down)}
        BY <1>9 DEF Ipc!Handle
    <2>2. OutcomeIsSound(p)
        <3>1. s \in IpcSessions /\ InOrder(s)
            BY <1>0 DEF IpcSessions, InOrder
        <3>2. p.session = s /\ p.type = "acknowledged" /\ p.backend = down
            BY DEF Ipc!Ok
        <3>3. down \in IpcBackends /\ CarrierIsKnown(s, down) /\ IsDone(request, down)
            BY <1>9 DEF IpcBackends, CarrierIsKnown, IsDone
        <3> HIDE DEF p, s, down
        <3> QED BY <1>9, <3>1, <3>2, <3>3 DEF OutcomeIsSound, Ipc!ValidateResponsePayload
    <2>3. half \in IpcBackends /\ half.carrier = "none" /\ down \in IpcBackends /\ down.carrier = "none"
        BY <1>0 DEF IpcBackends
    <2>4. OutcomeIsSound(Ipc!BackendFailure(half)) /\ OutcomeIsSound(Ipc!BackendFailure(down))
        <3> HIDE DEF half, down
        <3> QED BY <2>3, BackendFailureIsSound
    <2> QED BY <1>00, <2>1, <2>2, <2>4
<1>10. CASE request.type \in {"connect", "cancel"}
    <2>1. o = Ipc!Failure
        BY <1>10 DEF Ipc!Handle
    <2> QED BY <1>00, <2>1
<1> QED BY <1>0, <1>1, <1>2, <1>3, <1>4, <1>5, <1>6, <1>7, <1>8, <1>9, <1>10 DEF IpcTypes

\* A request that is sent keeps IpcInv.
LEMMA IpcAsk == ASSUME IpcInv, NEW r \in Ipc!Requests, Ipc!Ask(r) PROVE IpcInv'
<1>1. r.type \in IpcTypes /\ (r.type = "connect_transport" => r.arg \in Ipc!Transports)
    BY DEF Ipc!Requests, IpcTypes
<1>2. /\ request' = [type |-> r.type, arg |-> r.arg, id |-> request.id + 1] /\ verdict' = "none"
      /\ earlier' = answer /\ answer'.id = 0 /\ UNCHANGED <<session, backend>>
    BY DEF Ipc!Ask, Ipc!None, Ipc!NoAnswer
<1>3. request'.type = r.type /\ request'.arg = r.arg /\ request'.id = request.id + 1 /\ request.id \in Nat
    BY <1>2 DEF IpcInv, IpcTypeOK
<1>4. IpcTypeOK'
    BY <1>1, <1>2, <1>3 DEF IpcInv, IpcTypeOK
<1>5. IdsGrow' /\ AnswerIsTrue' /\ VerdictIsOfAnswer'
    BY <1>1, <1>2, <1>3 DEF IpcInv, IpcTypeOK, IdsGrow, AnswerIsTrue, VerdictIsOfAnswer, IpcTypes
<1> QED BY <1>2, <1>4, <1>5 DEF IpcInv, InOrder, CarrierIsKnown

\* An answer that is written keeps IpcInv.
LEMMA IpcReply == ASSUME IpcInv, Ipc!Reply PROVE IpcInv'
<1>1. PICK o \in Ipc!Handle(request) :
          session' = o.session /\ backend' = o.backend /\ answer' = [id |-> request.id, type |-> o.type,
              data |-> o.data]
    BY DEF Ipc!Reply
<1>2. request.type # "none" /\ verdict = "none" /\ UNCHANGED <<request, earlier, verdict>>
    BY DEF Ipc!Reply, Ipc!None
<1>3. OutcomeIsSound(o)
    BY <1>2, HandleIsSound
<1>4. answer'.id = request.id /\ answer'.type = o.type
    BY <1>1
<1>5. IpcTypeOK' /\ IdsGrow' /\ VerdictIsOfAnswer'
    BY <1>1, <1>2, <1>3, <1>4 DEF IpcInv, IpcTypeOK, OutcomeIsSound, IdsGrow, VerdictIsOfAnswer
<1>6. AnswerIsTrue'
    <2>1. o.type = "error" \/ (Ipc!ValidateResponsePayload(request, answer') /\ IsDone(request, o.backend))
        BY <1>1, <1>3 DEF OutcomeIsSound
    <2>2. Ipc!ValidateProtocol(request, answer')
        BY <1>4, <2>1 DEF Ipc!ValidateProtocol
    <2>3. answer'.type # "error" => IsDone(request, backend')
        BY <1>1, <1>4, <2>1
    <2>4. request' = request
        BY <1>2
    <2> QED BY <2>2, <2>3, <2>4 DEF AnswerIsTrue, IsDone, Ipc!ValidateProtocol, Ipc!ValidateResponsePayload
<1>7. InOrder(session)' /\ CarrierIsKnown(session, backend)'
    BY <1>1, <1>3 DEF OutcomeIsSound, InOrder, CarrierIsKnown
<1> QED BY <1>5, <1>6, <1>7 DEF IpcInv

\* An answer that is read keeps IpcInv.
LEMMA IpcRead == ASSUME IpcInv, Ipc!Read PROVE IpcInv'
<1>1. /\ verdict = "none" /\ request.type # "none" /\ UNCHANGED <<session, backend, request, earlier>>
      /\ answer' = answer \/ answer' = earlier
      /\ verdict' = IF Ipc!ValidateProtocol(request, answer') THEN "accepted" ELSE "refused"
    BY DEF Ipc!Read, Ipc!None
<1>2. IpcTypeOK' /\ IdsGrow'
    BY <1>1 DEF IpcInv, IpcTypeOK, IdsGrow
<1>3. VerdictIsOfAnswer'
    <2>1. Ipc!ValidateProtocol(request, answer)' <=> Ipc!ValidateProtocol(request, answer')
        BY <1>1 DEF Ipc!ValidateProtocol, Ipc!ValidateResponsePayload
    <2> QED BY <1>1, <2>1 DEF VerdictIsOfAnswer
<1>4. AnswerIsTrue'
    <2>1. CASE answer' = answer
        BY <1>1, <2>1 DEF IpcInv, AnswerIsTrue, IsDone, Ipc!ValidateProtocol, Ipc!ValidateResponsePayload
    <2>2. CASE answer' = earlier
        BY <1>1, <2>2 DEF IpcInv, IpcTypeOK, IdsGrow, AnswerIsTrue
    <2> QED BY <1>1, <2>1, <2>2
<1>5. InOrder(session)' /\ CarrierIsKnown(session, backend)'
    BY <1>1 DEF IpcInv, InOrder, CarrierIsKnown
<1> QED BY <1>2, <1>3, <1>4, <1>5 DEF IpcInv

\* Every step of the app, the sidecar and the stream keeps IpcInv.
LEMMA IpcStep == IpcInv /\ [Ipc!Next]_(Ipc!ipc) => IpcInv'
<1> SUFFICES ASSUME IpcInv, [Ipc!Next]_(Ipc!ipc) PROVE IpcInv'
    OBVIOUS
<1>1. CASE Ipc!Next
    BY <1>1, IpcAsk, IpcReply, IpcRead DEF Ipc!Next
<1>2. CASE UNCHANGED Ipc!ipc
    <2>1. Ipc!ValidateProtocol(request, answer)' <=> Ipc!ValidateProtocol(request, answer)
        BY <1>2 DEF Ipc!ipc, Ipc!ValidateProtocol, Ipc!ValidateResponsePayload
    <2> QED BY <1>2, <2>1 DEF Ipc!ipc, IpcInv, IpcTypeOK, InOrder, CarrierIsKnown, AnswerIsTrue, IdsGrow,
               VerdictIsOfAnswer, IsDone
<1> QED BY <1>1, <1>2

\* Both of the protocol's properties follow from IpcInv.
LEMMA IpcAnswersAreTrue == IpcInv => Ipc!AcceptedIsTrue /\ Ipc!SidecarIsUnderstood
<1> SUFFICES ASSUME IpcInv PROVE Ipc!AcceptedIsTrue /\ Ipc!SidecarIsUnderstood
    OBVIOUS
<1>1. Ipc!SidecarIsUnderstood
    BY DEF IpcInv, IdsGrow, VerdictIsOfAnswer, AnswerIsTrue, Ipc!SidecarIsUnderstood, Ipc!None
<1>2. ASSUME verdict = "accepted" PROVE request.type # "none" /\ answer.id = request.id
    BY <1>2 DEF IpcInv, IdsGrow, VerdictIsOfAnswer, Ipc!ValidateProtocol
<1>3. Ipc!AcceptedIsTrue
    BY <1>2 DEF IpcInv, AnswerIsTrue, IsDone, Ipc!AcceptedIsTrue, Ipc!None
<1> QED BY <1>1, <1>3

-----------------------------------------------------------------------------
(***************************************************************************)
(* The native replies.                                                      *)
(*                                                                          *)
(* The decoders are compared with the replies that say the call was done,   *)
(* field by field: a reply is accepted exactly when it is one of these,     *)
(* whatever the codes and texts that the C surface hands over.              *)
(***************************************************************************)

\* Every reply the C surface can hand over, whatever its codes and texts are.
AnyHelperReply ==
    [transport : Nat, version : Nat, state : Nat, error : Nat, transition : Nat, generation : Nat,
     sidecar : Replies!Texts, lease : Replies!Texts, operation : Replies!Texts]
AnyBrokerReply ==
    [transport : Nat, version : Nat, state : Nat, error : Nat, generation : Nat, input : BOOLEAN, output : BOOLEAN,
     sidecar : Replies!Texts]

RepliesTypeOK ==
    /\ tunnel \in {"mine", "other"} /\ verdict \in {"none", "accepted", "refused", "frozen", "failed", "recovery"}
    /\ \/ call \in Replies!HelperCalls /\ reply \in AnyHelperReply
       \/ call \in Replies!BrokerCalls /\ reply \in AnyBrokerReply /\ tunnel = "mine"

RepliesInv == RepliesTypeOK /\ Replies!AcceptedIsExact

\* A reply is on its way and nothing is decided.
LEMMA RepliesInitially == Replies!Init => RepliesInv
<1> SUFFICES ASSUME Replies!Init PROVE RepliesInv
    OBVIOUS
<1>1. verdict = "none" /\ tunnel \in {"mine", "other"}
    BY DEF Replies!Init
<1>2. ASSUME reply \in Replies!HelperReplies PROVE reply \in AnyHelperReply
    <2>1. PICK h \in Replies!Outcomes,
               s \in {0, 2, 3, 5, 6, 8}, n \in {0, 2, 3}, g \in {0, 1, MaxGeneration + 1}, a \in Replies!Texts,
               b \in Replies!Texts \ {"bad"}, c \in Replies!Texts \ {"bad"} :
                   reply = Replies!NativeReplyV3(h[1], h[2], s, h[3], n, g, a, b, c)
        BY <1>2 DEF Replies!HelperReplies
    <2>2. h[1] \in Nat /\ h[2] \in Nat /\ h[3] \in Nat /\ s \in Nat /\ n \in Nat /\ g \in Nat
        BY GenerationsAreNumbers DEF Replies!HelperV3, Replies!Outcomes
    <2> QED BY <2>1, <2>2 DEF Replies!NativeReplyV3, AnyHelperReply
<1>3. ASSUME reply \in Replies!BrokerReplies PROVE reply \in AnyBrokerReply
    <2>1. PICK t \in {0, 1}, v \in {0, 1}, s \in 0..3, e \in {0, Replies!StaleGeneration, 6, 9}, g \in {0, 1,
               MaxGeneration + 1},
               i \in BOOLEAN, o \in BOOLEAN, a \in Replies!Texts :
                   reply = Replies!NativeReply(t, v, s, e, g, i, o, a)
        BY <1>3 DEF Replies!BrokerReplies
    <2>2. t \in Nat /\ v \in Nat /\ s \in Nat /\ e \in Nat /\ g \in Nat
        BY GenerationsAreNumbers DEF Replies!StaleGeneration
    <2> QED BY <2>1, <2>2 DEF Replies!NativeReply, AnyBrokerReply
<1>4. RepliesTypeOK
    BY <1>1, <1>2, <1>3 DEF Replies!Init, RepliesTypeOK
<1> QED BY <1>1, <1>4 DEF RepliesInv, Replies!AcceptedIsExact

(* The codes of the states.                                                  *)
LEMMA HelperStates ==
    /\ DOMAIN Replies!States = 0..7
    /\ Replies!States[0] = "Idle" /\ Replies!States[1] = "HoldPending" /\ Replies!States[2] = "Held"
    /\ Replies!States[3] = "Applied" /\ Replies!States[4] = "RetirementPending" /\ Replies!States[5] = "Released"
    /\ Replies!States[6] = "RecoveryOnly" /\ Replies!States[7] = "FailedClosed"
BY DEF Replies!States

\* The codes the helper uses for its states.
LEMMA HelperStateCodes ==
    ASSUME NEW i \in 0..7
    PROVE  /\ Replies!States[i] = "Idle" <=> i = 0
           /\ Replies!States[i] = "Held" <=> i = 2
           /\ Replies!States[i] = "Applied" <=> i = 3
           /\ Replies!States[i] = "Released" <=> i = 5
<1>1. i \in {0, 1, 2, 3, 4, 5, 6, 7}
    OBVIOUS
<1> QED BY <1>1, HelperStates

\* The codes the broker uses for its states.
LEMMA BrokerStateCodes ==
    /\ DOMAIN Replies!BrokerStates = 0..2
    /\ Replies!BrokerStates[0] = "Idle" /\ Replies!BrokerStates[1] = "Running" /\ Replies!BrokerStates[2] = "RouteHeld"
BY DEF Replies!BrokerStates

\* A reply is its fields.
LEMMA HelperReplyIs ==
    ASSUME NEW r \in AnyHelperReply, NEW s, NEW n, NEW g, NEW t
    PROVE  r = Replies!NativeReplyV3(0, 3, s, 0, n, g, t, t, t) <=>
               /\ r.transport = 0 /\ r.version = 3 /\ r.state = s /\ r.error = 0 /\ r.transition = n
               /\ r.generation = g /\ r.sidecar = t /\ r.lease = t /\ r.operation = t
<1>1. r = Replies!NativeReplyV3(r.transport, r.version, r.state, r.error, r.transition, r.generation, r.sidecar,
      r.lease, r.operation)
    BY DEF AnyHelperReply, Replies!NativeReplyV3
<1>2. ASSUME r = Replies!NativeReplyV3(0, 3, s, 0, n, g, t, t, t)
      PROVE  /\ r.transport = 0 /\ r.version = 3 /\ r.state = s /\ r.error = 0 /\ r.transition = n
             /\ r.generation = g /\ r.sidecar = t /\ r.lease = t /\ r.operation = t
    BY <1>2 DEF Replies!NativeReplyV3
<1> QED BY <1>1, <1>2

\* An answer of the helper is known by its fields.
LEMMA AnswerIs ==
    ASSUME NEW r \in AnyHelperReply, NEW i \in {0, 2, 3, 5}, NEW n, NEW ref, NEW state, state = Replies!States[i],
           NEW g, NEW t, ref = Replies!Reference(g, t, t, t)
    PROVE  r = Replies!Answer(state, n, ref) <=>
               /\ r.transport = 0 /\ r.version = 3 /\ r.state = i /\ r.error = 0 /\ r.transition = n
               /\ r.generation = g /\ r.sidecar = t /\ r.lease = t /\ r.operation = t
<1>1. \A j \in DOMAIN Replies!States : Replies!States[j] = state <=> j = i
    BY HelperStates, HelperStateCodes
<1>2. (CHOOSE j \in DOMAIN Replies!States : Replies!States[j] = state) = i
    <2>1. i \in DOMAIN Replies!States
        BY HelperStates
    <2> QED BY <1>1, <2>1
<1>3. Replies!Answer(state, n, ref) = Replies!NativeReplyV3(0, 3, i, 0, n, g, t, t, t)
    BY <1>2 DEF Replies!Answer, Replies!HelperV3, Replies!Reference
<1> QED BY <1>3, HelperReplyIs

\* What a reply that passes for this lease, and one without a lease, look like.
LEMMA MineIsEchoed ==
    ASSUME NEW r \in AnyHelperReply
    PROVE  /\ Replies!Echoed(r) = Replies!Mine <=>
                  r.generation = 1 /\ r.sidecar = "mine" /\ r.lease = "mine" /\ r.operation = "mine"
           /\ ~Replies!HasAnyIdentity(r) <=>
                  r.generation = 0 /\ r.sidecar = "none" /\ r.lease = "none" /\ r.operation = "none"
           /\ Replies!Mine # Replies!NoReference
           /\ Replies!ValidBinding(Replies!Mine)
<1>1. Replies!ValidBinding(Replies!Mine)
    BY GenerationsAreNumbers DEF Replies!ValidBinding, Replies!ValidSession, Replies!ValidText, Replies!Mine,
       Replies!Reference
<1>2. Replies!Mine # Replies!NoReference
    BY DEF Replies!Mine, Replies!NoReference, Replies!Reference
<1>3. ~Replies!HasAnyIdentity(r) <=>
          r.generation = 0 /\ r.sidecar = "none" /\ r.lease = "none" /\ r.operation = "none"
    BY DEF Replies!HasAnyIdentity
<1>4. Replies!Echoed(r) = Replies!Mine <=>
          r.generation = 1 /\ r.sidecar = "mine" /\ r.lease = "mine" /\ r.operation = "mine"
    BY DEF Replies!Echoed, Replies!Mine, Replies!Reference
<1> QED BY <1>1, <1>2, <1>3, <1>4

\* The decoder lets through a reply of this lease, or of none, with known codes.
LEMMA DecodeForMine ==
    ASSUME NEW r \in AnyHelperReply, Replies!Echoed(r) = Replies!Mine, call \in Replies!HelperCalls
    PROVE  Replies!DecodeNativeReply(r) <=>
               /\ call # "discover" /\ r.transport = 0 /\ r.version = 3 /\ r.state \in 0..7 /\ r.error \in 0..12
               /\ r.transition # 0
<1>1. r.generation = 1 /\ r.sidecar = "mine" /\ r.lease = "mine" /\ r.operation = "mine" /\ Replies!HasAnyIdentity(r)
    BY MineIsEchoed
<1>2. Replies!TextsReadable(r)
    BY <1>1 DEF Replies!TextsReadable, Replies!BoundedText
<1>3. Replies!EchoOk(r) <=> r.transition # 0
    BY <1>1, MineIsEchoed DEF Replies!EchoOk
<1>4. Replies!ExpectedOk(r, IF call = "discover" THEN Replies!NoReference
      ELSE Replies!Mine, call = "rollback") <=> call # "discover"
    BY <1>1, MineIsEchoed DEF Replies!ExpectedOk
<1> QED BY <1>2, <1>3, <1>4, HelperStates DEF Replies!DecodeNativeReply, Replies!TransportOk, Replies!CodesKnown,
           Replies!HelperErrors,
           Replies!HelperV3

\* A reply without any identity is accepted where nobody need be named.
LEMMA DecodeForNone ==
    ASSUME NEW r \in AnyHelperReply, ~Replies!HasAnyIdentity(r), r.error = 0, r.state = 0, r.transition = 0
    PROVE  Replies!DecodeNativeReply(r) <=> r.transport = 0 /\ r.version = 3 /\ call \in {"discover", "rollback"}
<1>1. r.generation = 0 /\ r.sidecar = "none" /\ r.lease = "none" /\ r.operation = "none"
    BY MineIsEchoed
<1>2. Replies!TextsReadable(r) /\ Replies!EchoOk(r) /\ Replies!States[r.state] = "Idle"
    BY <1>1, HelperStates DEF Replies!TextsReadable, Replies!BoundedText, Replies!EchoOk
<1>3. Replies!ExpectedOk(r, IF call = "discover" THEN Replies!NoReference
      ELSE Replies!Mine, call = "rollback") <=> call \in {"discover", "rollback"}
    BY <1>2, MineIsEchoed DEF Replies!ExpectedOk
<1> QED BY <1>2, <1>3, HelperStates DEF Replies!DecodeNativeReply, Replies!TransportOk, Replies!CodesKnown,
           Replies!HelperErrors, Replies!HelperV3
\* Acceptance is exactness, call by call.
LEMMA HelperAcceptsExactly ==
    ASSUME call \in Replies!HelperCalls, reply \in AnyHelperReply
    PROVE  Replies!DecodeNativeReply(reply) /\ Replies!ValidateStatus(reply) <=> Replies!IsExact(reply)
<1> DEFINE r == reply
           accepts == Replies!DecodeNativeReply(reply) /\ Replies!ValidateStatus(reply)
           coded == r.transport = 0 /\ r.version = 3 /\ r.error = 0
           ours == r.generation = 1 /\ r.sidecar = "mine" /\ r.lease = "mine" /\ r.operation = "mine"
           nobodys == r.generation = 0 /\ r.sidecar = "none" /\ r.lease = "none" /\ r.operation = "none"
<1>1. /\ Replies!Echoed(reply) = Replies!Mine <=> ours
      /\ ~Replies!HasAnyIdentity(reply) <=> nobodys
    BY MineIsEchoed
<1>2. Replies!DecodeNativeReply(reply) => r.transport = 0 /\ r.version = 3 /\ r.state \in 0..7
    BY HelperStates DEF Replies!DecodeNativeReply, Replies!TransportOk, Replies!CodesKnown, Replies!HelperV3
<1>3. \A i \in 0..7 : /\ Replies!States[i] = "Idle" <=> i = 0
                      /\ Replies!States[i] = "Held" <=> i = 2
                      /\ Replies!States[i] = "Applied" <=> i = 3
                      /\ Replies!States[i] = "Released" <=> i = 5
    BY HelperStateCodes
<1>4. ours => (Replies!DecodeNativeReply(reply) <=>
          /\ call # "discover" /\ r.transport = 0 /\ r.version = 3 /\ r.state \in 0..7 /\ r.error \in 0..12
              /\ r.transition # 0)
    BY <1>1, DecodeForMine
<1>5. nobodys /\ r.error = 0 /\ r.state = 0 /\ r.transition = 0 =>
          (Replies!DecodeNativeReply(reply) <=> r.transport = 0 /\ r.version = 3 /\ call \in {"discover", "rollback"})
    BY <1>1, DecodeForNone
<1>6. r.state \in Nat /\ r.transition \in Nat
    BY DEF AnyHelperReply
<1>7. \A n : /\ r = Replies!Answer("Idle", n, Replies!NoReference) <=> coded /\ r.state = 0
                   /\ r.transition = n /\ nobodys
             /\ r = Replies!Answer("Held", n, Replies!Mine) <=> coded /\ r.state = 2 /\ r.transition = n /\ ours
             /\ r = Replies!Answer("Applied", n, Replies!Mine) <=> coded /\ r.state = 3 /\ r.transition = n /\ ours
             /\ r = Replies!Answer("Released", n, Replies!Mine) <=> coded /\ r.state = 5 /\ r.transition = n /\ ours
    <2> TAKE n
    <2>1. Replies!NoReference = Replies!Reference(0, "none", "none", "none")
          /\ Replies!Mine = Replies!Reference(1, "mine", "mine", "mine")
        BY DEF Replies!NoReference, Replies!Mine
    <2>2. r = Replies!Answer("Idle", n, Replies!NoReference) <=> coded /\ r.state = 0 /\ r.transition = n /\ nobodys
        BY <2>1, HelperStates, AnswerIs
    <2>3. r = Replies!Answer("Held", n, Replies!Mine) <=> coded /\ r.state = 2 /\ r.transition = n /\ ours
        BY <2>1, HelperStates, AnswerIs
    <2>4. r = Replies!Answer("Applied", n, Replies!Mine) <=> coded /\ r.state = 3 /\ r.transition = n /\ ours
        BY <2>1, HelperStates, AnswerIs
    <2>5. r = Replies!Answer("Released", n, Replies!Mine) <=> coded /\ r.state = 5 /\ r.transition = n /\ ours
        BY <2>1, HelperStates, AnswerIs
    <2> QED BY <2>2, <2>3, <2>4, <2>5
<1>8. CASE call = "discover"
    <2>1. accepts <=> coded /\ r.state = 0 /\ r.transition = 0 /\ nobodys
        BY <1>1, <1>2, <1>3, <1>5, <1>8 DEF Replies!ValidateStatus, Replies!DiscoverStatus
    <2> QED BY <1>7, <1>8, <2>1 DEF Replies!IsExact
<1>9. CASE call = "begin"
    <2>1. accepts <=> coded /\ r.state = 2 /\ r.transition = 2 /\ ours
        BY <1>1, <1>2, <1>3, <1>4, <1>9 DEF Replies!ValidateStatus, Replies!ActiveStatus
    <2> QED BY <1>7, <1>9, <2>1 DEF Replies!IsExact
<1>10. CASE call \in {"apply", "heartbeat"}
    <2>1. accepts <=> coded /\ r.state = 3 /\ r.transition = 3 /\ ours
        BY <1>1, <1>2, <1>3, <1>4, <1>10 DEF Replies!ValidateStatus, Replies!ActiveStatus
    <2> QED BY <1>7, <1>10, <2>1 DEF Replies!IsExact
<1>11. CASE call = "rollback"
    <2>1. accepts <=> \/ coded /\ r.state = 0 /\ r.transition = 0 /\ nobodys
                      \/ coded /\ r.state = 5 /\ r.transition # 0 /\ ours
        BY <1>1, <1>2, <1>3, <1>4, <1>5, <1>6, <1>11 DEF Replies!ValidateStatus, Replies!RollbackStatus
    <2> QED BY <1>7, <1>11, <2>1 DEF Replies!IsExact
<1> QED BY <1>8, <1>9, <1>10, <1>11 DEF Replies!HelperCalls

\* An answer of the broker is known by its fields.
LEMMA BrokerReplyIs ==
    ASSUME NEW r \in AnyBrokerReply, NEW g, NEW t
    PROVE  r = Replies!NativeReply(0, 1, 1, 0, g, TRUE, TRUE, t) <=>
               /\ r.transport = 0 /\ r.version = 1 /\ r.state = 1 /\ r.error = 0 /\ r.generation = g
               /\ r.input = TRUE /\ r.output = TRUE /\ r.sidecar = t
<1>1. r = Replies!NativeReply(r.transport, r.version, r.state, r.error, r.generation, r.input, r.output, r.sidecar)
    BY DEF AnyBrokerReply, Replies!NativeReply
<1>2. ASSUME r = Replies!NativeReply(0, 1, 1, 0, g, TRUE, TRUE, t)
      PROVE  /\ r.transport = 0 /\ r.version = 1 /\ r.state = 1 /\ r.error = 0 /\ r.generation = g
             /\ r.input = TRUE /\ r.output = TRUE /\ r.sidecar = t
    BY <1>2 DEF Replies!NativeReply
<1> QED BY <1>1, <1>2

\* A start is accepted exactly when the reply has a running sidecar and both of its pipes.
LEMMA StartAcceptsExactly ==
    ASSUME call = "start", reply \in AnyBrokerReply
    PROVE  Replies!DecodeStartReply(reply) <=> Replies!IsExact(reply)
<1> DEFINE exact == /\ reply.transport = 0 /\ reply.version = 1 /\ reply.state = 1 /\ reply.error = 0
                    /\ reply.generation \in 1..MaxGeneration /\ reply.input = TRUE /\ reply.output = TRUE
                    /\ reply.sidecar \in {"mine", "other"}
<1>1. reply.input \in BOOLEAN /\ reply.output \in BOOLEAN
    BY DEF AnyBrokerReply
<1>2. Replies!DecodeStatusReply(reply) /\ Replies!BrokerStates[reply.state] = "Running" /\ reply.error = 0 <=>
          reply.transport = 0 /\ reply.version = 1 /\ reply.state = 1 /\ reply.error = 0
    BY BrokerStateCodes DEF Replies!DecodeStatusReply, Replies!BrokerV1, Replies!BrokerErrors
<1>3. Replies!DecodeStartReply(reply) <=> exact
    BY <1>1, <1>2 DEF Replies!DecodeStartReply, Replies!ValidSession, Replies!ValidText, Replies!BoundedText
<1>4. Replies!IsExact(reply) <=> \E g \in 1..MaxGeneration, t \in {"mine", "other"} :
                                     reply = Replies!NativeReply(0, 1, 1, 0, g, TRUE, TRUE, t)
    BY DEF Replies!IsExact, Replies!BrokerV1
<1>5. (\E g \in 1..MaxGeneration, t \in {"mine", "other"} :
           reply = Replies!NativeReply(0, 1, 1, 0, g, TRUE, TRUE, t)) <=> exact
    <2>1. ASSUME NEW g \in 1..MaxGeneration, NEW t \in {"mine", "other"},
                 reply = Replies!NativeReply(0, 1, 1, 0, g, TRUE, TRUE, t)
          PROVE  exact
        <3>1. /\ reply.transport = 0 /\ reply.version = 1 /\ reply.state = 1 /\ reply.error = 0 /\ reply.generation = g
              /\ reply.input = TRUE /\ reply.output = TRUE /\ reply.sidecar = t
            BY <2>1 DEF Replies!NativeReply
        <3> QED BY <3>1
    <2>2. ASSUME exact
          PROVE  \E g \in 1..MaxGeneration, t \in {"mine", "other"} :
                     reply = Replies!NativeReply(0, 1, 1, 0, g, TRUE, TRUE, t)
        <3>1. reply = Replies!NativeReply(0, 1, 1, 0, reply.generation, TRUE, TRUE, reply.sidecar)
            BY <2>2, BrokerReplyIs, ZenonT(30)
        <3> QED BY <2>2, <3>1
    <2> QED BY <2>1, <2>2
<1> QED BY <1>3, <1>4, <1>5

\* A stop and a status are accepted exactly when IsExact says they may be.
LEMMA StopAndStatusAcceptExactly ==
    ASSUME reply \in AnyBrokerReply
    PROVE  /\ call = "stop" => (Replies!KillOwned(reply) = "accepted" <=> Replies!IsExact(reply))
           /\ call = "status" => (Replies!TryWaitStatus(reply) = "accepted" <=> Replies!IsExact(reply))
<1>1. reply.state \in Nat
    BY DEF AnyBrokerReply
<1>2. CASE call = "stop"
    BY <1>1, <1>2, BrokerStateCodes DEF Replies!KillOwned, Replies!RecoveryOnly, Replies!DecodeStatusReply,
       Replies!IsExact,
       Replies!BrokerV1, Replies!BrokerErrors, Replies!StaleGeneration
<1>3. CASE call = "status"
    BY <1>1, <1>3, BrokerStateCodes DEF Replies!TryWaitStatus, Replies!RecoveryOnly, Replies!DecodeStatusReply,
       Replies!IsExact,
       Replies!BrokerV1, Replies!BrokerErrors, Replies!StaleGeneration
<1> QED BY <1>2, <1>3

\* A verdict that is accepted exactly for an exact reply keeps the invariant.
LEMMA RepliesJudge ==
    ASSUME RepliesInv, NEW v \in {"accepted", "refused", "frozen", "failed", "recovery"}, Replies!Judge(v),
           v = "accepted" <=> tunnel = "mine" /\ Replies!IsExact(reply)
    PROVE  RepliesInv'
<1>1. verdict' = v /\ UNCHANGED <<call, tunnel, reply>>
    BY DEF Replies!Judge
<1>2. Replies!IsExact(reply)' <=> Replies!IsExact(reply)
    BY <1>1 DEF Replies!IsExact
<1> QED BY <1>1, <1>2 DEF RepliesInv, RepliesTypeOK, Replies!AcceptedIsExact

\* The one step, the decision, keeps RepliesInv.
LEMMA RepliesStep == RepliesInv /\ [Replies!Next]_(Replies!replies) => RepliesInv'
<1> SUFFICES ASSUME RepliesInv, [Replies!Next]_(Replies!replies) PROVE RepliesInv'
    OBVIOUS
<1>0. Replies!HelperCalls \cap Replies!BrokerCalls = {}
    BY DEF Replies!HelperCalls, Replies!BrokerCalls
<1>1. CASE Replies!HelperCall
    <2>1. reply \in AnyHelperReply /\ call \in Replies!HelperCalls
        BY <1>0, <1>1 DEF RepliesInv, RepliesTypeOK, Replies!HelperCall
    <2>2. Replies!ValidateAuthority <=> tunnel = "mine"
        BY <2>1, MineIsEchoed DEF Replies!ValidateAuthority, Replies!ValidOwner, Replies!Mine, Replies!Reference
    <2> DEFINE v == IF ~Replies!ValidateAuthority THEN "refused"
                    ELSE IF Replies!DecodeNativeReply(reply) /\ Replies!ValidateStatus(reply) THEN "accepted" ELSE "frozen"
    <2>3. v \in {"accepted", "refused", "frozen"} /\ (v = "accepted" <=> tunnel = "mine" /\ Replies!IsExact(reply))
        BY <2>1, <2>2, HelperAcceptsExactly
    <2>4. Replies!Judge(v)
        BY <1>1 DEF Replies!HelperCall
    <2> HIDE DEF v
    <2> QED BY <2>3, <2>4, RepliesJudge
<1>2. CASE Replies!Start
    <2>1. reply \in AnyBrokerReply /\ call = "start" /\ tunnel = "mine"
        BY <1>0, <1>2 DEF RepliesInv, RepliesTypeOK, Replies!Start, Replies!HelperCalls, Replies!BrokerCalls
    <2> DEFINE v == IF Replies!DecodeStartReply(reply) THEN "accepted" ELSE "failed"
    <2>2. v \in {"accepted", "failed"} /\ (v = "accepted" <=> tunnel = "mine" /\ Replies!IsExact(reply))
        BY <2>1, StartAcceptsExactly
    <2>3. Replies!Judge(v)
        BY <1>2 DEF Replies!Start
    <2> HIDE DEF v
    <2> QED BY <2>2, <2>3, RepliesJudge
<1>3. CASE Replies!Stop
    <2>1. reply \in AnyBrokerReply /\ call = "stop" /\ tunnel = "mine"
        BY <1>0, <1>3 DEF RepliesInv, RepliesTypeOK, Replies!Stop, Replies!HelperCalls, Replies!BrokerCalls
    <2>2. Replies!KillOwned(reply) \in {"accepted", "failed", "recovery"}
        BY DEF Replies!KillOwned
    <2>3. Replies!Judge(Replies!KillOwned(reply))
        BY <1>3 DEF Replies!Stop
    <2> QED BY <2>1, <2>2, <2>3, StopAndStatusAcceptExactly, RepliesJudge
<1>4. CASE Replies!Status
    <2>1. reply \in AnyBrokerReply /\ call = "status" /\ tunnel = "mine"
        BY <1>0, <1>4 DEF RepliesInv, RepliesTypeOK, Replies!Status, Replies!HelperCalls, Replies!BrokerCalls
    <2>2. Replies!TryWaitStatus(reply) \in {"accepted", "failed", "recovery"}
        BY DEF Replies!TryWaitStatus
    <2>3. Replies!Judge(Replies!TryWaitStatus(reply))
        BY <1>4 DEF Replies!Status
    <2> QED BY <2>1, <2>2, <2>3, StopAndStatusAcceptExactly, RepliesJudge
<1>5. CASE UNCHANGED Replies!replies
    <2>1. UNCHANGED <<call, tunnel, reply, verdict>>
        BY <1>5 DEF Replies!replies
    <2>2. Replies!IsExact(reply)' <=> Replies!IsExact(reply)
        BY <2>1 DEF Replies!IsExact
    <2> QED BY <2>1, <2>2 DEF RepliesInv, RepliesTypeOK, Replies!AcceptedIsExact
<1> QED BY <1>1, <1>2, <1>3, <1>4, <1>5 DEF Replies!Next

-----------------------------------------------------------------------------
(***************************************************************************)
(* The main window.                                                         *)
(*                                                                          *)
(* A page that died is known to a task or to the flag until its reload is   *)
(* refused, a flag behind a focused window is about to be read by a focus   *)
(* event, the window is missing outside the lightweight mode only after an  *)
(* operation was dropped, and the listeners are on it while the automatic   *)
(* mode is on or being switched on.                                         *)
(***************************************************************************)

WindowTypeOK ==
    /\ window \in Window!WindowState /\ page \in {"loading", "live", "dead", "lost"}
    /\ patching \in {"none", "on", "off"}
    /\ light \in {"Normal", "In", "Exiting"} /\ exitAt \in {"none", "show", "build", "listen"}
    /\ needsReload \in BOOLEAN /\ reloadTask \in BOOLEAN /\ focusEvent \in BOOLEAN
    /\ dropped \in BOOLEAN /\ auto \in BOOLEAN /\ closeListener \in BOOLEAN /\ focusListener \in BOOLEAN

\* A dead page of a window is known: a task reloads it, or the flag says so.
DeadIsKnown == window # "none" /\ page = "dead" => reloadTask \/ needsReload

\* A flag that is up behind a focused window is about to be read.
FlagIsRead == window = "focused" /\ needsReload => focusEvent

\* The lightweight mode is being left exactly while exit_lightweight_mode runs.
ExitIsMarked == light = "Exiting" <=> exitAt # "none"

\* Outside the lightweight mode a window is missing only after a dropped operation.
MissingIsDropped == window = "none" /\ (light = "Normal" \/ exitAt = "listen") => dropped

\* The listeners are on the window before the mode counts as switched on, and until it is being switched off.
ModeIsArmed ==
    patching = "on" \/ (auto /\ patching = "none") =>
        (light = "Normal" /\ window # "none" /\ ~dropped => closeListener /\ focusListener)

WindowInv == WindowTypeOK /\ DeadIsKnown /\ FlagIsRead /\ ExitIsMarked /\ MissingIsDropped /\ ModeIsArmed

\* The application starts with a window, or silently in the lightweight mode.
LEMMA WindowInitially == Window!Init => WindowInv
<1> SUFFICES ASSUME Window!Init PROVE WindowInv
    OBVIOUS
<1>1. closeListener \in BOOLEAN /\ focusListener = closeListener
    BY DEF Window!Init
<1>2. /\ (window = "none" /\ light = "In") \/ (window = "hidden" /\ light = "Normal")
      /\ page = "loading" /\ needsReload = FALSE /\ reloadTask = FALSE /\ focusEvent = FALSE /\ exitAt = "none"
      /\ patching = "none" /\ auto \in BOOLEAN
    BY DEF Window!Init
<1>3. dropped \in BOOLEAN /\ (auto /\ window # "none" /\ ~dropped => closeListener)
    BY DEF Window!Init
<1>4. WindowTypeOK
    BY <1>1, <1>2, <1>3 DEF WindowTypeOK, Window!WindowState
<1>5. ModeIsArmed
    BY <1>1, <1>2, <1>3 DEF ModeIsArmed
<1> QED BY <1>2, <1>4, <1>5 DEF WindowInv, DeadIsKnown, FlagIsRead, ExitIsMarked, MissingIsDropped

\* Every step of the window, the lightweight mode and their events keeps WindowInv.
LEMMA WindowStep == WindowInv /\ [Window!Next]_(Window!main) => WindowInv'
<1> SUFFICES ASSUME WindowInv, [Window!Next]_(Window!main) PROVE WindowInv'
    OBVIOUS
<1> USE DEF WindowInv, WindowTypeOK, Window!WindowState
<1>1. CASE UNCHANGED Window!main
    BY <1>1 DEF Window!main, DeadIsKnown, FlagIsRead, ExitIsMarked, MissingIsDropped,
        ModeIsArmed
<1>2. CASE Window!EntryLightweightMode
    <2> USE <1>2 DEF Window!EntryLightweightMode, Window!EntryLightweight, Window!DestroyMainWindow, Window!Listeners
    <2>1. WindowTypeOK'
        OBVIOUS
    <2>2. DeadIsKnown' /\ FlagIsRead'
        BY DEF DeadIsKnown, FlagIsRead
    <2>3. ExitIsMarked' /\ MissingIsDropped'
        BY DEF ExitIsMarked, MissingIsDropped
    <2>4. ModeIsArmed'
        BY DEF ModeIsArmed, ExitIsMarked, MissingIsDropped
    <2> QED BY <2>1, <2>2, <2>3, <2>4
<1>3. CASE Window!ExitLightweightMode
    <2> USE <1>3 DEF Window!ExitLightweightMode
    <2>1. WindowTypeOK'
        OBVIOUS
    <2>2. DeadIsKnown' /\ FlagIsRead'
        BY DEF DeadIsKnown, FlagIsRead
    <2>3. ExitIsMarked' /\ MissingIsDropped'
        BY DEF ExitIsMarked, MissingIsDropped
    <2>4. ModeIsArmed'
        BY DEF ModeIsArmed, ExitIsMarked, MissingIsDropped
    <2> QED BY <2>1, <2>2, <2>3, <2>4
<1>4. CASE Window!ShowMainWindow
    <2> USE <1>4 DEF Window!ShowMainWindow, Window!ActivateWindow, Window!Reload
    <2>1. WindowTypeOK'
        BY ZenonT(30)
    <2>2. DeadIsKnown' /\ FlagIsRead'
        BY DEF DeadIsKnown, FlagIsRead
    <2>3. ExitIsMarked' /\ MissingIsDropped'
        BY DEF ExitIsMarked, MissingIsDropped
    <2>4. ModeIsArmed'
        BY DEF ModeIsArmed, ExitIsMarked, MissingIsDropped
    <2> QED BY <2>1, <2>2, <2>3, <2>4
<1>5. CASE Window!CreateOnExit
    <2> USE <1>5 DEF Window!CreateOnExit, Window!BuildNewWindow
    <2>1. WindowTypeOK'
        OBVIOUS
    <2>2. DeadIsKnown' /\ FlagIsRead'
        BY DEF DeadIsKnown, FlagIsRead
    <2>3. ExitIsMarked' /\ MissingIsDropped'
        BY DEF ExitIsMarked, MissingIsDropped
    <2>4. ModeIsArmed'
        BY DEF ModeIsArmed, ExitIsMarked, MissingIsDropped
    <2> QED BY <2>1, <2>2, <2>3, <2>4
<1>6. CASE Window!FinishExit
    <2> USE <1>6 DEF Window!FinishExit, Window!Listeners
    <2>1. WindowTypeOK'
        OBVIOUS
    <2>2. DeadIsKnown' /\ FlagIsRead'
        BY DEF DeadIsKnown, FlagIsRead
    <2>3. ExitIsMarked' /\ MissingIsDropped'
        BY DEF ExitIsMarked, MissingIsDropped
    <2>4. ModeIsArmed'
        BY DEF ModeIsArmed, ExitIsMarked, MissingIsDropped
    <2> QED BY <2>1, <2>2, <2>3, <2>4
<1>7. CASE Window!ToggleMainWindow
    <2> USE <1>7 DEF Window!ToggleMainWindow, Window!IsUserVisible, Window!HandleWindowClose, Window!ActivateWindow, Window!Reload
    <2>1. WindowTypeOK'
        BY ZenonT(30)
    <2>2. DeadIsKnown' /\ FlagIsRead'
        BY DEF DeadIsKnown, FlagIsRead
    <2>3. ExitIsMarked' /\ MissingIsDropped'
        BY DEF ExitIsMarked, MissingIsDropped
    <2>4. ModeIsArmed'
        BY DEF ModeIsArmed, ExitIsMarked, MissingIsDropped
    <2> QED BY <2>1, <2>2, <2>3, <2>4
<1>8. CASE Window!CreateOnToggle
    <2> USE <1>8 DEF Window!CreateOnToggle, Window!BuildNewWindow
    <2>1. WindowTypeOK'
        OBVIOUS
    <2>2. DeadIsKnown' /\ FlagIsRead'
        BY DEF DeadIsKnown, FlagIsRead
    <2>3. ExitIsMarked' /\ MissingIsDropped'
        BY DEF ExitIsMarked, MissingIsDropped
    <2>4. ModeIsArmed'
        BY DEF ModeIsArmed, ExitIsMarked, MissingIsDropped
    <2> QED BY <2>1, <2>2, <2>3, <2>4
<1>9. CASE Window!HandleReopen
    <2> USE <1>9 DEF Window!HandleReopen, Window!ActivateWindow, Window!Reload
    <2>1. WindowTypeOK'
        <3>1. page' \in {"loading", "live", "dead", "lost"} /\ window' \in Window!WindowState
            OBVIOUS
        <3>2. focusEvent' \in BOOLEAN /\ needsReload' \in BOOLEAN
            OBVIOUS
        <3>3. UNCHANGED <<patching, light, exitAt, reloadTask, dropped, auto, closeListener, focusListener>>
            OBVIOUS
        <3> HIDE DEF Window!HandleReopen
        <3> QED BY <3>1, <3>2, <3>3
    <2>2. DeadIsKnown' /\ FlagIsRead'
        BY DEF DeadIsKnown, FlagIsRead
    <2>3. ExitIsMarked' /\ MissingIsDropped'
        BY DEF ExitIsMarked, MissingIsDropped
    <2>4. ModeIsArmed'
        BY DEF ModeIsArmed, ExitIsMarked, MissingIsDropped
    <2> QED BY <2>1, <2>2, <2>3, <2>4
<1>10. CASE Window!CloseRequested
    <2> USE <1>10 DEF Window!CloseRequested, Window!IsUserVisible, Window!HandleWindowClose
    <2>1. WindowTypeOK'
        OBVIOUS
    <2>2. DeadIsKnown' /\ FlagIsRead'
        BY DEF DeadIsKnown, FlagIsRead
    <2>3. ExitIsMarked' /\ MissingIsDropped'
        BY DEF ExitIsMarked, MissingIsDropped
    <2>4. ModeIsArmed'
        BY DEF ModeIsArmed, ExitIsMarked, MissingIsDropped
    <2> QED BY <2>1, <2>2, <2>3, <2>4
<1>11. CASE Window!Hide
    <2> USE <1>11 DEF Window!Hide, Window!IsUserVisible
    <2>1. WindowTypeOK'
        OBVIOUS
    <2>2. DeadIsKnown' /\ FlagIsRead'
        BY DEF DeadIsKnown, FlagIsRead
    <2>3. ExitIsMarked' /\ MissingIsDropped'
        BY DEF ExitIsMarked, MissingIsDropped
    <2>4. ModeIsArmed'
        BY DEF ModeIsArmed, ExitIsMarked, MissingIsDropped
    <2> QED BY <2>1, <2>2, <2>3, <2>4
<1>12. CASE Window!Desktop
    <2> USE <1>12 DEF Window!Desktop
    <2>1. WindowTypeOK'
        <3>1. window' \in {"visible", "minimized", "focused"}
            OBVIOUS
        <3>2. focusEvent' \in BOOLEAN
            OBVIOUS
        <3>3. UNCHANGED <<page, patching, light, exitAt, needsReload, reloadTask, dropped, auto, closeListener, focusListener>>
            OBVIOUS
        <3> HIDE DEF Window!Desktop
        <3> QED BY <3>1, <3>2, <3>3
    <2>2. DeadIsKnown' /\ FlagIsRead'
        BY DEF DeadIsKnown, FlagIsRead
    <2>3. ExitIsMarked' /\ MissingIsDropped'
        BY DEF ExitIsMarked, MissingIsDropped
    <2>4. ModeIsArmed'
        BY DEF ModeIsArmed, ExitIsMarked, MissingIsDropped
    <2> QED BY <2>1, <2>2, <2>3, <2>4
<1>13. CASE Window!SetupLightWeightTimer
    <2> USE <1>13 DEF Window!SetupLightWeightTimer
    <2>1. WindowTypeOK'
        OBVIOUS
    <2>2. DeadIsKnown' /\ FlagIsRead'
        BY DEF DeadIsKnown, FlagIsRead
    <2>3. ExitIsMarked' /\ MissingIsDropped'
        BY DEF ExitIsMarked, MissingIsDropped
    <2>4. ModeIsArmed'
        BY DEF ModeIsArmed, ExitIsMarked, MissingIsDropped
    <2> QED BY <2>1, <2>2, <2>3, <2>4
<1>14. CASE Window!TimerFires
    <2> USE <1>14 DEF Window!TimerFires, Window!EntryLightweight, Window!DestroyMainWindow, Window!Listeners
    <2>1. WindowTypeOK'
        BY ZenonT(30)
    <2>2. DeadIsKnown' /\ FlagIsRead'
        BY DEF DeadIsKnown, FlagIsRead
    <2>3. ExitIsMarked' /\ MissingIsDropped'
        BY DEF ExitIsMarked, MissingIsDropped
    <2>4. ModeIsArmed'
        BY DEF ModeIsArmed, ExitIsMarked, MissingIsDropped
    <2> QED BY <2>1, <2>2, <2>3, <2>4
<1>15. CASE Window!SetAuto
    <2> USE <1>15 DEF Window!SetAuto, Window!Listeners
    <2>1. WindowTypeOK'
        <3>1. auto' \in BOOLEAN /\ (~auto) \in BOOLEAN
            OBVIOUS
        <3>2. closeListener' \in BOOLEAN /\ focusListener' \in BOOLEAN
            BY <3>1
        <3> QED BY <3>1, <3>2
    <2>2. DeadIsKnown' /\ FlagIsRead'
        BY DEF DeadIsKnown, FlagIsRead
    <2>3. ExitIsMarked' /\ MissingIsDropped'
        BY DEF ExitIsMarked, MissingIsDropped
    <2>4. ModeIsArmed'
        BY DEF ModeIsArmed, ExitIsMarked, MissingIsDropped
    <2> QED BY <2>1, <2>2, <2>3, <2>4
<1>16. CASE Window!Elapse
    <2> USE <1>16 DEF Window!Elapse
    <2>1. WindowTypeOK'
        OBVIOUS
    <2>2. DeadIsKnown' /\ FlagIsRead'
        BY DEF DeadIsKnown, FlagIsRead
    <2>3. ExitIsMarked' /\ MissingIsDropped'
        BY DEF ExitIsMarked, MissingIsDropped
    <2>4. ModeIsArmed'
        BY DEF ModeIsArmed, ExitIsMarked, MissingIsDropped
    <2> QED BY <2>1, <2>2, <2>3, <2>4
<1>17. CASE Window!PageLoaded
    <2> USE <1>17 DEF Window!PageLoaded
    <2>1. WindowTypeOK'
        OBVIOUS
    <2>2. DeadIsKnown' /\ FlagIsRead'
        BY DEF DeadIsKnown, FlagIsRead
    <2>3. ExitIsMarked' /\ MissingIsDropped'
        BY DEF ExitIsMarked, MissingIsDropped
    <2>4. ModeIsArmed'
        BY DEF ModeIsArmed, ExitIsMarked, MissingIsDropped
    <2> QED BY <2>1, <2>2, <2>3, <2>4
<1>18. CASE Window!OnWebContentProcessTerminated
    <2> USE <1>18 DEF Window!OnWebContentProcessTerminated, Window!IsUserVisible
    <2>1. WindowTypeOK'
        BY ZenonT(30)
    <2>2. DeadIsKnown' /\ FlagIsRead'
        BY DEF DeadIsKnown, FlagIsRead
    <2>3. ExitIsMarked' /\ MissingIsDropped'
        BY DEF ExitIsMarked, MissingIsDropped
    <2>4. ModeIsArmed'
        BY DEF ModeIsArmed, ExitIsMarked, MissingIsDropped
    <2> QED BY <2>1, <2>2, <2>3, <2>4
<1>19. CASE Window!RunReloadTask
    <2> USE <1>19 DEF Window!RunReloadTask, Window!Reload
    <2>1. WindowTypeOK'
        <3>1. page' \in {"loading", "live", "dead", "lost"}
            OBVIOUS
        <3>2. reloadTask' = FALSE /\ UNCHANGED <<window, needsReload, focusEvent, patching, light, exitAt, dropped,
                                                auto, closeListener, focusListener>>
            OBVIOUS
        <3>3. reloadTask' \in BOOLEAN
            BY <3>2
        <3> HIDE DEF Window!RunReloadTask
        <3> QED BY <3>1, <3>2, <3>3
    <2>2. DeadIsKnown' /\ FlagIsRead'
        BY DEF DeadIsKnown, FlagIsRead
    <2>3. ExitIsMarked' /\ MissingIsDropped'
        BY DEF ExitIsMarked, MissingIsDropped
    <2>4. ModeIsArmed'
        BY DEF ModeIsArmed, ExitIsMarked, MissingIsDropped
    <2> QED BY <2>1, <2>2, <2>3, <2>4
<1>20. CASE Window!ReloadMainWindowIfNeeded
    <2> USE <1>20 DEF Window!ReloadMainWindowIfNeeded, Window!Reload
    <2>1. WindowTypeOK'
        BY ZenonT(30)
    <2>2. DeadIsKnown' /\ FlagIsRead'
        BY DEF DeadIsKnown, FlagIsRead
    <2>3. ExitIsMarked' /\ MissingIsDropped'
        BY DEF ExitIsMarked, MissingIsDropped
    <2>4. ModeIsArmed'
        BY DEF ModeIsArmed, ExitIsMarked, MissingIsDropped
    <2> QED BY <2>1, <2>2, <2>3, <2>4
<1>21. CASE Window!CommitAuto
    <2> USE <1>21 DEF Window!CommitAuto
    <2>1. WindowTypeOK'
        <3>1. auto' \in BOOLEAN /\ dropped' \in BOOLEAN
            OBVIOUS
        <3> QED BY <3>1
    <2>2. DeadIsKnown' /\ FlagIsRead'
        BY DEF DeadIsKnown, FlagIsRead
    <2>3. ExitIsMarked' /\ MissingIsDropped'
        BY DEF ExitIsMarked, MissingIsDropped
    <2>4. ModeIsArmed'
        <3>1. CASE auto' = (patching = "on") /\ UNCHANGED dropped
            BY <3>1 DEF ModeIsArmed
        <3>2. CASE dropped' = (dropped \/ patching = "off") /\ UNCHANGED auto
            BY <3>2 DEF ModeIsArmed
        <3> QED BY <3>1, <3>2
    <2> QED BY <2>1, <2>2, <2>3, <2>4
<1> QED BY <1>1, <1>2, <1>3, <1>4, <1>5, <1>6, <1>7, <1>8, <1>9, <1>10, <1>11, <1>12, <1>13, <1>14, <1>15,
    <1>16, <1>17, <1>18, <1>19, <1>20, <1>21 DEF Window!Next

\* Both of the window's properties follow from WindowInv.
LEMMA WindowShows ==
    ASSUME WindowInv
    PROVE  Window!BlankPageIsReloaded /\ Window!AutoLightweightIsArmed
BY DEF WindowInv, WindowTypeOK, DeadIsKnown, FlagIsRead, ModeIsArmed, Window!BlankPageIsReloaded,
       Window!AutoLightweightIsArmed

-----------------------------------------------------------------------------
(***************************************************************************)
(* The system proxy.                                                        *)
(*                                                                          *)
(* Who updates holds update_lock and one quit resets at a time; unless the  *)
(* two overlapped, what is left of an application always ends with what is  *)
(* wanted, in whichever order the desktop takes the two kinds of proxy.     *)
(***************************************************************************)

AnySettings == [proxy : BOOLEAN, pac : BOOLEAN, guard : BOOLEAN, port : Ports \cup {0}]
SysoptPlaces == {"idle", "lock", "read", "apply", "guard", "commit", "reset", "clean", "gone"}
SysProxyFirst == <<"Sysproxy", "Autoproxy">>
AutoProxyFirst == <<"Autoproxy", "Sysproxy">>
StepsLeft == {<<>>, SysProxyFirst, AutoProxyFirst, <<"Sysproxy">>, <<"Autoproxy">>}
AnyJob == [want : AnySettings, steps : StepsLeft]
GuardTypes == [kind : {"None", "Sysproxy", "Autoproxy"}, port : Ports \cup {0}]
Desktops == [sys : Ports \cup {0}, auto : BOOLEAN]

SysoptTypeOK ==
    /\ os \in {"windows", "macos"} /\ saved \in AnySettings /\ draft \in AnySettings
    /\ desktop \in Desktops /\ guardType \in GuardTypes
    /\ at \in [Proxy!Tasks -> SysoptPlaces] /\ job \in [Proxy!Tasks -> AnyJob]
    /\ lock \in Savers \cup {"none"}
    /\ resetting \in BOOLEAN /\ crossed \in BOOLEAN /\ guardOn \in BOOLEAN
    /\ applied \in SUBSET AnySettings

\* Who updates holds update_lock.
UpdatesAreLocked == \A t \in Savers : Proxy!Updating(t) => lock = t

\* One quit resets at a time.
ResetsAreAlone ==
    \A p \in Quitters : Proxy!Resetting(p) => resetting /\ \A q \in Quitters : Proxy!Resetting(q) => p = q

\* An overlap of a reset and an update is remembered.
OverlapIsCrossed == \A t \in Savers, q \in Quitters : Proxy!Updating(t) /\ Proxy!Resetting(q) => crossed

\* Nobody is changing the desktop's proxy.
Settled == \A t \in Proxy!Tasks : ~Proxy!Updating(t) /\ ~Proxy!Resetting(t)

\* What was applied last is what the desktop has, and what the guard puts back.
SettledIsApplied ==
    ~crossed /\ Settled => \A s \in applied : desktop = Proxy!Target(s) /\ guardType = Proxy!GuardTypeFor(s)

\* What is left of an application, given the desktop, ends with what is wanted.
HalfDone(j, d) ==
    \/ j.steps = SysProxyFirst /\ (Proxy!Target(j.want).sys = 0 \/ Proxy!Target(j.want).auto)
    \/ j.steps = AutoProxyFirst /\ ~Proxy!Target(j.want).auto
    \/ j.steps = <<"Sysproxy">> /\ ~Proxy!Target(j.want).auto /\ ~d.auto
    \/ j.steps = <<"Autoproxy">> /\ Proxy!Target(j.want).sys = 0 /\ d.sys = 0

ApplyingIsHalfDone ==
    \A t \in Proxy!Tasks : at[t] = "apply" =>
        /\ job[t].steps # <<>>
        /\ ~crossed => guardType = Proxy!GuardTypeFor(job[t].want) /\ HalfDone(job[t], desktop)

SysoptInv ==
    /\ SysoptTypeOK /\ UpdatesAreLocked /\ ResetsAreAlone /\ OverlapIsCrossed
    /\ SettledIsApplied /\ ApplyingIsHalfDone

\* The two orders of the steps, taken apart.
LEMMA SysoptSteps ==
    /\ Len(SysProxyFirst) = 2 /\ Head(SysProxyFirst) = "Sysproxy" /\ Tail(SysProxyFirst) = <<"Autoproxy">>
    /\ Len(AutoProxyFirst) = 2 /\ Head(AutoProxyFirst) = "Autoproxy" /\ Tail(AutoProxyFirst) = <<"Sysproxy">>
    /\ Len(<<"Sysproxy">>) = 1 /\ Head(<<"Sysproxy">>) = "Sysproxy"
    /\ Len(<<"Autoproxy">>) = 1 /\ Head(<<"Autoproxy">>) = "Autoproxy"
    /\ SysProxyFirst # <<>> /\ AutoProxyFirst # <<>>
<1>1. Tail(SysProxyFirst) = <<"Autoproxy">> /\ Tail(AutoProxyFirst) = <<"Sysproxy">>
    BY DEF SysProxyFirst, AutoProxyFirst
<1>2. Len(SysProxyFirst) = 2 /\ Head(SysProxyFirst) = "Sysproxy"
    BY DEF SysProxyFirst
<1>3. Len(AutoProxyFirst) = 2 /\ Head(AutoProxyFirst) = "Autoproxy"
    BY DEF AutoProxyFirst
<1>4. Len(<<>>) = 0
    OBVIOUS
<1>5. SysProxyFirst # <<>> /\ AutoProxyFirst # <<>>
    BY <1>2, <1>3, <1>4
<1> QED BY <1>1, <1>2, <1>3, <1>5

\* More than one step left is both, in one of the two orders.
LEMMA SysoptLong ==
    ASSUME NEW s \in StepsLeft, Len(s) > 1
    PROVE  s \in {SysProxyFirst, AutoProxyFirst}
<1>1. CASE s = <<>>
    <2>1. Len(<<>>) = 0
        OBVIOUS
    <2> QED BY <1>1, <2>1
<1>2. CASE s = <<"Sysproxy">>
    BY <1>2
<1>3. CASE s = <<"Autoproxy">>
    BY <1>3
<1> QED BY <1>1, <1>2, <1>3 DEF StepsLeft

\* The settings want one kind of proxy of the desktop, or none.
LEMMA SysoptTarget ==
    ASSUME NEW s \in AnySettings
    PROVE  /\ Proxy!Target(s) \in Desktops
           /\ Proxy!Target(s).sys = 0 \/ ~Proxy!Target(s).auto
BY DEF AnySettings, Desktops, Proxy!Target

\* What the settings want of the guard.
LEMMA SysoptGuardType ==
    ASSUME NEW s \in AnySettings
    PROVE  Proxy!GuardTypeFor(s) \in GuardTypes
<1>1. s.proxy \in BOOLEAN /\ s.guard \in BOOLEAN /\ s.pac \in BOOLEAN /\ s.port \in Ports \cup {0}
    BY DEF AnySettings
<1>2. \/ Proxy!GuardTypeFor(s) = [kind |-> "None", port |-> 0]
      \/ Proxy!GuardTypeFor(s) = [kind |-> "Autoproxy", port |-> 0]
      \/ Proxy!GuardTypeFor(s) = [kind |-> "Sysproxy", port |-> s.port]
    BY <1>1 DEF Proxy!GuardTypeFor
<1> QED BY <1>1, <1>2 DEF GuardTypes

\* The settings of a reset want nothing.
LEMMA SysoptOff ==
    /\ Proxy!Off \in AnySettings /\ Proxy!NoJob \in AnyJob
    /\ Proxy!Target(Proxy!Off) = [sys |-> 0, auto |-> FALSE]
    /\ Proxy!GuardTypeFor(Proxy!Off) = [kind |-> "None", port |-> 0]
<1>1. Proxy!Off \in AnySettings
    BY DEF Proxy!Off, AnySettings
<1>2. Proxy!NoJob \in AnyJob
    BY <1>1 DEF Proxy!NoJob, AnyJob, StepsLeft
<1>3. Proxy!Target(Proxy!Off) = [sys |-> 0, auto |-> FALSE]
    BY DEF Proxy!Target, Proxy!Off
<1>4. Proxy!GuardTypeFor(Proxy!Off) = [kind |-> "None", port |-> 0]
    BY DEF Proxy!GuardTypeFor, Proxy!Off
<1> QED BY <1>1, <1>2, <1>3, <1>4

\* The desktop has no proxy and no task has begun.
LEMMA SysoptInitially == Proxy!Init => SysoptInv
<1> SUFFICES ASSUME Proxy!Init PROVE SysoptInv
    OBVIOUS
<1>1. saved \in AnySettings /\ draft = saved
    BY DEF Proxy!Init, Proxy!Settings, AnySettings
<1>2. /\ at = [t \in Proxy!Tasks |-> "idle"] /\ job = [t \in Proxy!Tasks |-> Proxy!NoJob]
      /\ applied = {Proxy!Off} /\ desktop = Proxy!Target(Proxy!Off) /\ guardType = Proxy!GuardTypeFor(Proxy!Off)
      /\ os \in {"windows", "macos"} /\ guardOn = FALSE /\ lock = "none" /\ resetting = FALSE /\ crossed = FALSE
    BY DEF Proxy!Init
<1>3. Proxy!Off \in AnySettings /\ Proxy!NoJob \in AnyJob /\ desktop \in Desktops /\ guardType \in GuardTypes
    BY <1>2, SysoptOff, SysoptTarget, SysoptGuardType
<1>4. SysoptTypeOK
    BY <1>1, <1>2, <1>3 DEF SysoptTypeOK, SysoptPlaces
<1>5. \A t \in Proxy!Tasks : at[t] = "idle"
    BY <1>2
<1>6. UpdatesAreLocked /\ ResetsAreAlone /\ OverlapIsCrossed /\ ApplyingIsHalfDone
    BY <1>5 DEF UpdatesAreLocked, ResetsAreAlone, OverlapIsCrossed, ApplyingIsHalfDone, Proxy!Updating, Proxy!Resetting,
       Proxy!Tasks
<1>7. SettledIsApplied
    BY <1>2 DEF SettledIsApplied
<1> QED BY <1>4, <1>6, <1>7 DEF SysoptInv

\* A task that moves outside an update, and leaves desktop and guard alone, keeps SysoptInv.
LEMMA SysoptQuiet ==
    ASSUME SysoptInv, NEW t \in Proxy!Tasks, NEW l \in SysoptPlaces \ {"read", "apply"},
           at[t] \notin {"read", "apply"}, at' = [at EXCEPT ![t] = l],
           saved' \in AnySettings, draft' \in AnySettings, guardOn' \in BOOLEAN, crossed' \in BOOLEAN,
           crossed => crossed',
           UNCHANGED <<os, desktop, guardType, lock, resetting, job, applied>>
    PROVE  SysoptInv'
<1>1. at \in [Proxy!Tasks -> SysoptPlaces] /\ crossed \in BOOLEAN
    BY DEF SysoptInv, SysoptTypeOK
<1>2. \A u \in Proxy!Tasks : at'[u] = at[u] \/ (at'[u] = l /\ at[u] \notin {"read", "apply"})
    BY <1>1
<1>3. \A u \in Proxy!Tasks : (at'[u] = "read" <=> at[u] = "read") /\ (at'[u] = "apply" <=> at[u] = "apply")
    BY <1>2
<1>4. \A u \in Proxy!Tasks : (Proxy!Updating(u)' <=> Proxy!Updating(u)) /\ (Proxy!Resetting(u)' <=> Proxy!Resetting(u))
    BY <1>3 DEF Proxy!Updating, Proxy!Resetting
<1>5. SysoptTypeOK'
    BY <1>1 DEF SysoptInv, SysoptTypeOK
<1>6. UpdatesAreLocked' /\ ResetsAreAlone' /\ OverlapIsCrossed'
    BY <1>4 DEF SysoptInv, UpdatesAreLocked, ResetsAreAlone, OverlapIsCrossed, Proxy!Tasks
<1>7. SettledIsApplied'
    <2>1. Settled' => Settled
        BY <1>4 DEF Settled
    <2> QED BY <2>1 DEF SysoptInv, SettledIsApplied
<1>8. ApplyingIsHalfDone'
    BY <1>3 DEF SysoptInv, ApplyingIsHalfDone
<1> QED BY <1>5, <1>6, <1>7, <1>8 DEF SysoptInv

\* One lemma for each action: it keeps SysoptInv.
LEMMA SysoptPatchVerge ==
    ASSUME SysoptInv, NEW t \in Savers, NEW s \in AnySettings, Proxy!PatchVerge(t, s) PROVE SysoptInv'
<1>1. t \in Proxy!Tasks
    BY DEF Proxy!Tasks
<1>2. PICK l \in {"lock", "commit"} : at' = [at EXCEPT ![t] = l]
    <2>1. PICK f \in {"proxy", "pac", "guard", "port"} :
              at' = [at EXCEPT ![t] = IF "SYS_PROXY" \in Proxy!UpdateFlags[f] THEN "lock" ELSE "commit"]
        BY DEF Proxy!PatchVerge
    <2> QED BY <2>1
<1>3. /\ at[t] = "idle" /\ draft' = s
      /\ UNCHANGED <<os, saved, desktop, guardType, guardOn, lock, resetting, job, applied, crossed>>
    BY DEF Proxy!PatchVerge
<1>4. l \in SysoptPlaces \ {"read", "apply"}
    BY <1>2 DEF SysoptPlaces
<1>5. saved' \in AnySettings /\ guardOn' \in BOOLEAN /\ crossed' \in BOOLEAN
    BY <1>3 DEF SysoptInv, SysoptTypeOK
<1> QED BY <1>1, <1>2, <1>3, <1>4, <1>5, SysoptQuiet

LEMMA SysoptSaveSettings ==
    ASSUME SysoptInv, NEW t \in Savers, Proxy!SaveSettings(t) \/ Proxy!ToggleSystemProxy(t) PROVE SysoptInv'
<1>1. CASE Proxy!SaveSettings(t)
    <2>1. PICK s \in Proxy!Settings : Proxy!PatchVerge(t, s)
        BY <1>1 DEF Proxy!SaveSettings
    <2>2. s \in AnySettings
        BY <2>1 DEF Proxy!Settings, AnySettings
    <2> QED BY <2>1, <2>2, SysoptPatchVerge
<1>2. CASE Proxy!ToggleSystemProxy(t)
    <2>1. [draft EXCEPT !.proxy = ~@] \in AnySettings
        BY DEF SysoptInv, SysoptTypeOK, AnySettings
    <2> QED BY <1>2, <2>1, SysoptPatchVerge DEF Proxy!ToggleSystemProxy
<1> QED BY <1>1, <1>2

LEMMA SysoptMoves ==
    ASSUME SysoptInv, NEW t \in Proxy!Tasks,
           \/ Proxy!RefreshGuard(t) \/ Proxy!Commit(t) \/ Proxy!Quit(t) \/ Proxy!SkipReset(t)
           \/ Proxy!Exit(t) /\ at[t] # "apply"
    PROVE  SysoptInv'
<1>1. draft \in AnySettings /\ saved \in AnySettings /\ crossed \in BOOLEAN /\ guardOn \in BOOLEAN
    BY DEF SysoptInv, SysoptTypeOK
<1>2. {"commit", "idle", "reset", "clean", "gone"} \subseteq SysoptPlaces \ {"read", "apply"}
    BY DEF SysoptPlaces
<1>3. CASE Proxy!RefreshGuard(t)
    <2>1. draft.proxy \in BOOLEAN /\ draft.guard \in BOOLEAN
        BY <1>1 DEF AnySettings
    <2>2. guardOn' \in BOOLEAN
        BY <1>3, <2>1 DEF Proxy!RefreshGuard
    <2> QED BY <1>1, <1>2, <1>3, <2>2, SysoptQuiet DEF Proxy!RefreshGuard
<1>4. CASE Proxy!Commit(t)
    BY <1>1, <1>2, <1>4, SysoptQuiet DEF Proxy!Commit
<1>5. CASE Proxy!Quit(t)
    BY <1>1, <1>2, <1>5, SysoptQuiet DEF Proxy!Quit
<1>6. CASE Proxy!SkipReset(t)
    <2>1. crossed' \in BOOLEAN /\ (crossed => crossed')
        BY <1>6 DEF Proxy!SkipReset
    <2> QED BY <1>1, <1>2, <1>6, <2>1, SysoptQuiet DEF Proxy!SkipReset
<1>7. CASE Proxy!Exit(t) /\ at[t] # "apply"
    BY <1>1, <1>2, <1>7, SysoptQuiet DEF Proxy!Exit
<1> QED BY <1>3, <1>4, <1>5, <1>6, <1>7

LEMMA SysoptExit ==
    ASSUME SysoptInv, NEW q \in Quitters, Proxy!Exit(q), at[q] = "apply" PROVE SysoptInv'
<1>1. /\ at' = [at EXCEPT ![q] = "gone"] /\ applied' = {}
      /\ UNCHANGED <<os, saved, draft, desktop, guardType, guardOn, lock, resetting, job, crossed, edits>>
    BY DEF Proxy!Exit
<1>2. at \in [Proxy!Tasks -> SysoptPlaces]
    BY DEF SysoptInv, SysoptTypeOK
<1>3. \A u \in Proxy!Tasks : at'[u] \in {"read", "apply"} => at'[u] = at[u]
    BY <1>1, <1>2
<1>4. SysoptTypeOK'
    BY <1>1, <1>2 DEF SysoptInv, SysoptTypeOK, SysoptPlaces
<1>5. UpdatesAreLocked' /\ ResetsAreAlone' /\ OverlapIsCrossed'
    BY <1>1, <1>3 DEF SysoptInv, UpdatesAreLocked, ResetsAreAlone, OverlapIsCrossed, Proxy!Tasks, Proxy!Updating,
       Proxy!Resetting
<1>6. SettledIsApplied' /\ ApplyingIsHalfDone'
    BY <1>1, <1>3 DEF SysoptInv, SettledIsApplied, ApplyingIsHalfDone
<1> QED BY <1>4, <1>5, <1>6 DEF SysoptInv

LEMMA SysoptLockUpdate ==
    ASSUME SysoptInv, NEW t \in Savers, Proxy!LockUpdate(t) PROVE SysoptInv'
<1>1. /\ at[t] = "lock" /\ lock = "none" /\ lock' = t /\ at' = [at EXCEPT ![t] = "read"]
      /\ job' = [job EXCEPT ![t] = [want |-> draft, steps |-> <<>>]]
      /\ crossed' = (crossed \/ \E q \in Quitters : Proxy!Resetting(q))
      /\ UNCHANGED <<os, saved, draft, desktop, guardType, guardOn, resetting, applied, edits>>
    BY DEF Proxy!LockUpdate
<1>2. at \in [Proxy!Tasks -> SysoptPlaces] /\ job \in [Proxy!Tasks -> AnyJob] /\ t \in Proxy!Tasks
    BY DEF SysoptInv, SysoptTypeOK, Proxy!Tasks
<1>3. \A u \in Proxy!Tasks : u # t => at'[u] = at[u] /\ job'[u] = job[u]
    BY <1>1, <1>2
<1>4. at'[t] = "read"
    BY <1>1, <1>2
<1>5. crossed' \in BOOLEAN /\ (crossed => crossed')
    BY <1>1 DEF SysoptInv, SysoptTypeOK
<1>6. [want |-> draft, steps |-> <<>>] \in AnyJob
    BY DEF SysoptInv, SysoptTypeOK, AnyJob, StepsLeft
<1>7. SysoptTypeOK'
    BY <1>1, <1>2, <1>5, <1>6 DEF SysoptInv, SysoptTypeOK, SysoptPlaces
<1>8. UpdatesAreLocked'
    BY <1>1, <1>3, TasksAreApart DEF SysoptInv, UpdatesAreLocked, Proxy!Tasks, Proxy!Updating
<1>9. ResetsAreAlone' /\ OverlapIsCrossed'
    <2>1. \A q \in Quitters : Proxy!Resetting(q)' <=> Proxy!Resetting(q)
        BY <1>3, TasksAreApart DEF Proxy!Tasks, Proxy!Resetting
    <2> QED BY <1>1, <2>1 DEF SysoptInv, ResetsAreAlone, OverlapIsCrossed
<1>10. SettledIsApplied'
    BY <1>2, <1>4 DEF SettledIsApplied, Settled, Proxy!Updating
<1>11. ApplyingIsHalfDone'
    BY <1>1, <1>3, <1>4, <1>5 DEF SysoptInv, ApplyingIsHalfDone
<1> QED BY <1>7, <1>8, <1>9, <1>10, <1>11 DEF SysoptInv

LEMMA SysoptReset ==
    ASSUME SysoptInv, NEW t \in Quitters, Proxy!ResetSysproxy(t) PROVE SysoptInv'
<1>1. /\ at[t] = "reset" /\ ~resetting /\ resetting' = TRUE /\ at' = [at EXCEPT ![t] = "apply"]
      /\ job' = [job EXCEPT ![t] = [want |-> Proxy!Off, steps |-> SysProxyFirst]]
      /\ crossed' = (crossed \/ \E s \in Savers : Proxy!Updating(s))
      /\ guardType' = Proxy!GuardTypeFor(Proxy!Off)
      /\ UNCHANGED <<os, saved, draft, desktop, guardOn, lock, applied, edits>>
    BY DEF Proxy!ResetSysproxy, SysProxyFirst
<1>2. at \in [Proxy!Tasks -> SysoptPlaces] /\ job \in [Proxy!Tasks -> AnyJob] /\ t \in Proxy!Tasks
    BY DEF SysoptInv, SysoptTypeOK, Proxy!Tasks
<1>3. \A u \in Proxy!Tasks : u # t => at'[u] = at[u]
    BY <1>1, <1>2
<1>4. at'[t] = "apply" /\ job'[t] = [want |-> Proxy!Off, steps |-> SysProxyFirst]
    BY <1>1, <1>2
<1>5. crossed' \in BOOLEAN /\ (crossed => crossed')
    BY <1>1 DEF SysoptInv, SysoptTypeOK
<1>6. [want |-> Proxy!Off, steps |-> SysProxyFirst] \in AnyJob
    BY SysoptOff DEF AnyJob, StepsLeft
<1>7. SysoptTypeOK'
    <2>1. guardType' \in GuardTypes
        BY <1>1, SysoptOff, SysoptGuardType
    <2> QED BY <1>1, <1>2, <1>5, <1>6, <2>1 DEF SysoptInv, SysoptTypeOK, SysoptPlaces
<1>8. \A s \in Savers : Proxy!Updating(s)' <=> Proxy!Updating(s)
    BY <1>3, TasksAreApart DEF Proxy!Tasks, Proxy!Updating
<1>9. UpdatesAreLocked' /\ OverlapIsCrossed'
    BY <1>1, <1>8 DEF SysoptInv, UpdatesAreLocked, OverlapIsCrossed
<1>10. \A q \in Quitters : Proxy!Resetting(q)' => q = t
    BY <1>1, <1>3 DEF SysoptInv, ResetsAreAlone, Proxy!Tasks, Proxy!Resetting
<1>11. ResetsAreAlone'
    BY <1>1, <1>10 DEF ResetsAreAlone
<1>12. SettledIsApplied'
    BY <1>2, <1>4 DEF SettledIsApplied, Settled, Proxy!Resetting
<1>13. ApplyingIsHalfDone'
    <2> SUFFICES ASSUME NEW u \in Proxy!Tasks, at'[u] = "apply"
                 PROVE  /\ job'[u].steps # <<>>
                        /\ ~crossed' => guardType' = Proxy!GuardTypeFor(job'[u].want) /\ HalfDone(job'[u], desktop')
        BY DEF ApplyingIsHalfDone
    <2>0. job'[u].steps # <<>>
        <3>1. CASE u = t
            BY <1>4, <3>1, SysoptSteps
        <3>2. CASE u # t
            <4>1. job'[u] = job[u] /\ at[u] = "apply"
                BY <1>1, <1>2, <1>3, <3>2
            <4> QED BY <4>1 DEF SysoptInv, ApplyingIsHalfDone
        <3> QED BY <3>1, <3>2
    <2> SUFFICES ASSUME ~crossed'
                 PROVE  guardType' = Proxy!GuardTypeFor(job'[u].want) /\ HalfDone(job'[u], desktop')
        BY <2>0
    <2>1. u = t
        BY <1>1, <1>5, <1>8, <1>10 DEF Proxy!Tasks, Proxy!Updating, Proxy!Resetting
    <2>2. Proxy!Target(Proxy!Off).sys = 0
        BY SysoptOff
    <2> QED BY <1>1, <1>4, <2>1, <2>2 DEF HalfDone
<1> QED BY <1>7, <1>9, <1>11, <1>12, <1>13 DEF SysoptInv

LEMMA SysoptUpdate ==
    ASSUME SysoptInv, NEW t \in Savers, Proxy!UpdateSysproxy(t) PROVE SysoptInv'
<1> DEFINE w == job[t].want
           d == Proxy!Target(w)
<1>1. at \in [Proxy!Tasks -> SysoptPlaces] /\ job \in [Proxy!Tasks -> AnyJob] /\ t \in Proxy!Tasks
    BY DEF SysoptInv, SysoptTypeOK, Proxy!Tasks
<1>2. job[t] \in AnyJob /\ w \in AnySettings
    BY <1>1 DEF AnyJob
<1>3. /\ at[t] = "read" /\ guardType' = Proxy!GuardTypeFor(w)
      /\ UNCHANGED <<os, saved, draft, desktop, guardOn, resetting, crossed, edits>>
    BY DEF Proxy!UpdateSysproxy
<1>4. lock = t /\ \A u \in Savers : Proxy!Updating(u) => u = t
    BY <1>3 DEF SysoptInv, UpdatesAreLocked, Proxy!Updating
<1>5. ~crossed => \A q \in Quitters : ~Proxy!Resetting(q)
    BY <1>3 DEF SysoptInv, OverlapIsCrossed, Proxy!Updating
<1>6. CASE Proxy!ProxyApplyRequired(d)
    <2>1. /\ at' = [at EXCEPT ![t] = "apply"]
          /\ job' = [job EXCEPT ![t].steps = Proxy!ProxyApplySteps(d)]
          /\ UNCHANGED <<applied, lock>>
        BY <1>6 DEF Proxy!UpdateSysproxy
    <2>2. Proxy!ProxyApplySteps(d) \in {SysProxyFirst, AutoProxyFirst}
        BY DEF Proxy!ProxyApplySteps, SysProxyFirst, AutoProxyFirst
    <2>3. [job[t] EXCEPT !.steps = Proxy!ProxyApplySteps(d)] \in AnyJob
        BY <1>2, <2>2 DEF AnyJob, StepsLeft
    <2>4. job' = [job EXCEPT ![t] = [job[t] EXCEPT !.steps = Proxy!ProxyApplySteps(d)]]
        BY <2>1
    <2>5. /\ \A u \in Proxy!Tasks : u # t => at'[u] = at[u] /\ job'[u] = job[u]
          /\ at'[t] = "apply" /\ job'[t] = [job[t] EXCEPT !.steps = Proxy!ProxyApplySteps(d)]
        BY <1>1, <2>1, <2>4
    <2>6. SysoptTypeOK'
        <3>1. job' \in [Proxy!Tasks -> AnyJob]
            BY <1>1, <2>3, <2>4
        <3>2. guardType' \in GuardTypes
            BY <1>2, <1>3, SysoptGuardType
        <3> HIDE DEF w, d
        <3> QED BY <1>1, <1>3, <2>1, <3>1, <3>2 DEF SysoptInv, SysoptTypeOK, SysoptPlaces
    <2>7. \A u \in Proxy!Tasks : (Proxy!Updating(u)' <=> Proxy!Updating(u))
          /\ (Proxy!Resetting(u)' <=> Proxy!Resetting(u))
        BY <1>3, <2>5, TasksAreApart DEF Proxy!Updating, Proxy!Resetting
    <2>8. UpdatesAreLocked' /\ ResetsAreAlone' /\ OverlapIsCrossed'
        BY <1>3, <2>1, <2>7 DEF SysoptInv, UpdatesAreLocked, ResetsAreAlone, OverlapIsCrossed, Proxy!Tasks
    <2>9. SettledIsApplied'
        BY <1>1, <2>5 DEF SettledIsApplied, Settled, Proxy!Updating
    <2>10. ApplyingIsHalfDone'
        <3> SUFFICES ASSUME NEW u \in Proxy!Tasks, at'[u] = "apply"
                     PROVE  /\ job'[u].steps # <<>>
                            /\ ~crossed' => guardType' = Proxy!GuardTypeFor(job'[u].want) /\ HalfDone(job'[u], desktop')
            BY DEF ApplyingIsHalfDone
        <3>0. job'[u].steps # <<>>
            <4>1. CASE u = t
                <5>1. job'[u].steps = Proxy!ProxyApplySteps(d)
                    BY <1>2, <2>5, <4>1 DEF AnyJob
                <5> QED BY <2>2, <5>1, SysoptSteps
            <4>2. CASE u # t
                <5>1. job'[u] = job[u] /\ at[u] = "apply"
                    BY <2>5, <4>2
                <5> QED BY <5>1 DEF SysoptInv, ApplyingIsHalfDone
            <4> QED BY <4>1, <4>2
        <3> SUFFICES ASSUME ~crossed'
                     PROVE  guardType' = Proxy!GuardTypeFor(job'[u].want) /\ HalfDone(job'[u], desktop')
            BY <3>0
        <3>1. u = t
            BY <1>3, <1>4, <1>5, <2>5 DEF Proxy!Tasks, Proxy!Updating, Proxy!Resetting
        <3>2. job'[t].want = w /\ job'[t].steps = Proxy!ProxyApplySteps(d)
            BY <1>2, <2>5 DEF AnyJob
        <3>3. d.sys = 0 \/ ~d.auto
            BY <1>2, SysoptTarget
        <3>4. \/ Proxy!ProxyApplySteps(d) = SysProxyFirst /\ (d.sys = 0 \/ d.auto)
              \/ Proxy!ProxyApplySteps(d) = AutoProxyFirst /\ ~d.auto
            BY DEF Proxy!ProxyApplySteps, SysProxyFirst, AutoProxyFirst
        <3> HIDE DEF w
        <3> QED BY <1>3, <3>1, <3>2, <3>4 DEF HalfDone
    <2> QED BY <2>6, <2>8, <2>9, <2>10 DEF SysoptInv
<1>7. CASE ~Proxy!ProxyApplyRequired(d)
    <2>1. /\ at' = [at EXCEPT ![t] = "guard"] /\ applied' = {w} /\ lock' = "none"
          /\ job' = [job EXCEPT ![t] = Proxy!NoJob]
        BY <1>4, <1>7 DEF Proxy!UpdateSysproxy, Proxy!Finish
    <2>2. desktop = d
        BY <1>7 DEF Proxy!ProxyApplyRequired
    <2>3. /\ \A u \in Proxy!Tasks : u # t => at'[u] = at[u] /\ job'[u] = job[u]
          /\ at'[t] = "guard"
        BY <1>1, <2>1
    <2>4. SysoptTypeOK'
        <3>1. job' \in [Proxy!Tasks -> AnyJob]
            BY <1>1, <2>1, SysoptOff
        <3>2. guardType' \in GuardTypes
            BY <1>2, <1>3, SysoptGuardType
        <3> HIDE DEF w, d
        <3> QED BY <1>1, <1>2, <1>3, <2>1, <3>1, <3>2 DEF SysoptInv, SysoptTypeOK, SysoptPlaces
    <2>5. \A u \in Savers : ~Proxy!Updating(u)'
        BY <1>4, <2>3 DEF Proxy!Tasks, Proxy!Updating
    <2>6. \A q \in Quitters : Proxy!Resetting(q)' <=> Proxy!Resetting(q)
        BY <2>3, TasksAreApart DEF Proxy!Tasks, Proxy!Resetting
    <2>7. UpdatesAreLocked' /\ ResetsAreAlone' /\ OverlapIsCrossed'
        BY <1>3, <2>5, <2>6 DEF SysoptInv, UpdatesAreLocked, ResetsAreAlone, OverlapIsCrossed
    <2>8. SettledIsApplied'
        <3> HIDE DEF w, d
        <3>1. applied' = {w} /\ desktop' = d /\ guardType' = Proxy!GuardTypeFor(w)
            BY <1>3, <2>1, <2>2
        <3> QED BY <3>1 DEF SettledIsApplied, d
    <2>9. ApplyingIsHalfDone'
        <3>1. \A u \in Proxy!Tasks : at'[u] = "apply" => u # t /\ at[u] = "apply" /\ job'[u] = job[u]
            BY <2>3
        <3>2. \A u \in Proxy!Tasks : at'[u] = "apply" => crossed'
            BY <1>3, <1>5, <2>5, <2>6 DEF Proxy!Tasks, Proxy!Updating, Proxy!Resetting
        <3> QED BY <3>1, <3>2 DEF SysoptInv, ApplyingIsHalfDone
    <2> QED BY <2>4, <2>7, <2>8, <2>9 DEF SysoptInv
<1> QED BY <1>6, <1>7

\* A step of an application: what is left afterwards, and the desktop at its end.
LEMMA SysoptSetProxy ==
    ASSUME NEW j \in AnyJob, HalfDone(j, desktop), desktop \in Desktops, os \in {"windows", "macos"},
           NEW e, e = Proxy!SetProxy(Head(j.steps), Proxy!Target(j.want))
    PROVE  /\ e \in Desktops
           /\ Len(j.steps) > 1 => HalfDone([j EXCEPT !.steps = Tail(@)], e)
           /\ ~(Len(j.steps) > 1) => e = Proxy!Target(j.want)
<1> DEFINE w == j.want
           d == Proxy!Target(w)
<1>1. w \in AnySettings
    BY DEF AnyJob
<1>2. d \in Desktops /\ (d.sys = 0 \/ ~d.auto)
    BY <1>1, SysoptTarget
<1> HIDE DEF w, d
<1>3. d = [sys |-> d.sys, auto |-> d.auto] /\ d.auto \in BOOLEAN /\ d.sys \in Ports \cup {0}
    BY <1>2 DEF Desktops
<1>4. desktop = [sys |-> desktop.sys, auto |-> desktop.auto] /\ desktop.auto \in BOOLEAN
      /\ desktop.sys \in Ports \cup {0}
    BY DEF Desktops
<1>5. ASSUME Head(j.steps) = "Sysproxy" PROVE e = [sys |-> d.sys, auto |-> desktop.auto]
    BY <1>4, <1>5 DEF Proxy!SetProxy, d, w
<1>6. ASSUME Head(j.steps) = "Autoproxy"
      PROVE  e = [auto |-> d.auto, sys |-> IF os = "windows" /\ ~d.auto THEN 0 ELSE desktop.sys]
    BY <1>6 DEF Proxy!SetProxy, d, w
<1>7. CASE j.steps = SysProxyFirst /\ (d.sys = 0 \/ d.auto)
    <2>1. d.sys = 0
        BY <1>2, <1>7
    <2>2. e = [sys |-> 0, auto |-> desktop.auto]
        BY <1>5, <1>7, <2>1, SysoptSteps
    <2>3. [j EXCEPT !.steps = Tail(@)].steps = <<"Autoproxy">> /\ [j EXCEPT !.steps = Tail(@)].want = w
        BY <1>7, SysoptSteps DEF AnyJob, w
    <2>4. HalfDone([j EXCEPT !.steps = Tail(@)], e)
        BY <2>1, <2>2, <2>3 DEF HalfDone, d
    <2>5. e \in Desktops
        BY <1>4, <2>2 DEF Desktops
    <2>6. Len(j.steps) = 2
        BY <1>7, SysoptSteps
    <2> QED BY <2>4, <2>5, <2>6
<1>8. CASE j.steps = AutoProxyFirst /\ ~d.auto
    <2>1. e.auto = FALSE /\ e \in Desktops
        BY <1>3, <1>4, <1>6, <1>8, SysoptSteps DEF Desktops
    <2>3. [j EXCEPT !.steps = Tail(@)].steps = <<"Sysproxy">> /\ [j EXCEPT !.steps = Tail(@)].want = w
        BY <1>8, SysoptSteps DEF AnyJob, w
    <2>4. HalfDone([j EXCEPT !.steps = Tail(@)], e)
        BY <1>8, <2>1, <2>3 DEF HalfDone, d
    <2>6. Len(j.steps) = 2
        BY <1>8, SysoptSteps
    <2> QED BY <2>1, <2>4, <2>6
<1>9. CASE j.steps = <<"Sysproxy">> /\ ~d.auto /\ ~desktop.auto
    <2>1. e = d
        BY <1>3, <1>4, <1>5, <1>9, SysoptSteps
    <2>2. Len(j.steps) = 1
        BY <1>9, SysoptSteps
    <2> QED BY <1>2, <2>1, <2>2 DEF d, w
<1>10. CASE j.steps = <<"Autoproxy">> /\ d.sys = 0 /\ desktop.sys = 0
    <2>1. e = d
        BY <1>3, <1>6, <1>10, SysoptSteps
    <2>2. Len(j.steps) = 1
        BY <1>10, SysoptSteps
    <2> QED BY <1>2, <2>1, <2>2 DEF d, w
<1> QED BY <1>7, <1>8, <1>9, <1>10 DEF HalfDone, d, w

\* Whatever is set, the desktop stays one.
LEMMA SysoptSetProxyType ==
    ASSUME NEW k \in {"Sysproxy", "Autoproxy"}, NEW d \in Desktops, desktop \in Desktops
    PROVE  Proxy!SetProxy(k, d) \in Desktops
<1>1. d.auto \in BOOLEAN /\ d.sys \in Ports \cup {0} /\ desktop.sys \in Ports \cup {0}
    BY DEF Desktops
<1>2. CASE k = "Sysproxy"
    <2>1. Proxy!SetProxy(k, d) = [desktop EXCEPT !.sys = d.sys]
        BY <1>2 DEF Proxy!SetProxy
    <2> QED BY <1>1, <2>1 DEF Desktops
<1>3. CASE k = "Autoproxy"
    <2>1. Proxy!SetProxy(k, d) = [auto |-> d.auto, sys |-> IF os = "windows" /\ ~d.auto THEN 0 ELSE desktop.sys]
        BY <1>3 DEF Proxy!SetProxy
    <2> QED BY <1>1, <2>1 DEF Desktops
<1> QED BY <1>2, <1>3

\* An application that ends, or gives up, leaves the desktop to nobody.
LEMMA SysoptEnds ==
    ASSUME SysoptInv, NEW t \in Proxy!Tasks, at[t] = "apply",
           NEW l \in SysoptPlaces \ {"read", "apply"}, at' = [at EXCEPT ![t] = l],
               job' = [job EXCEPT ![t] = Proxy!NoJob],
           lock' = (IF lock = t THEN "none" ELSE lock), resetting' = (resetting /\ t \notin Quitters),
           desktop' \in Desktops, applied' \in SUBSET AnySettings,
           ~crossed => \A s \in applied' : desktop' = Proxy!Target(s) /\ guardType = Proxy!GuardTypeFor(s),
           UNCHANGED <<os, saved, draft, guardType, guardOn, crossed>>
    PROVE  SysoptInv'
<1>1. /\ at \in [Proxy!Tasks -> SysoptPlaces] /\ job \in [Proxy!Tasks -> AnyJob] /\ lock \in Savers \cup {"none"}
      /\ resetting \in BOOLEAN
    BY DEF SysoptInv, SysoptTypeOK
<1>2. /\ \A u \in Proxy!Tasks : u # t => at'[u] = at[u] /\ job'[u] = job[u]
      /\ at'[t] = l
    BY <1>1
<1>3. SysoptTypeOK'
    <2>1. resetting' \in BOOLEAN /\ lock' \in Savers \cup {"none"}
        BY <1>1
    <2>2. at' \in [Proxy!Tasks -> SysoptPlaces] /\ job' \in [Proxy!Tasks -> AnyJob]
        BY <1>1, SysoptOff
    <2> QED BY <2>1, <2>2 DEF SysoptInv, SysoptTypeOK
<1>4. /\ t \in Savers => lock = t /\ \A u \in Savers : ~Proxy!Updating(u)'
      /\ t \in Quitters => \A q \in Quitters : ~Proxy!Resetting(q)'
    <2>1. \A u \in Proxy!Tasks : at'[u] \in {"read", "apply"} => u # t /\ at'[u] = at[u]
        BY <1>2
    <2> QED BY <2>1 DEF SysoptInv, UpdatesAreLocked, ResetsAreAlone, Proxy!Tasks, Proxy!Updating, Proxy!Resetting
<1>5. \A u \in Proxy!Tasks : (Proxy!Updating(u)' => Proxy!Updating(u)) /\ (Proxy!Resetting(u)' => Proxy!Resetting(u))
    BY <1>2 DEF Proxy!Updating, Proxy!Resetting
<1>6. UpdatesAreLocked'
    <2>1. CASE t \in Savers
        BY <1>4, <2>1 DEF UpdatesAreLocked
    <2>2. CASE t \notin Savers
        <3>1. t \in Quitters
            BY <2>2 DEF Proxy!Tasks
        <3>2. ASSUME NEW u \in Savers, Proxy!Updating(u)' PROVE lock' = u
            <4>1. lock = u
                BY <1>5, <3>2 DEF SysoptInv, UpdatesAreLocked, Proxy!Tasks
            <4> QED BY <2>2, <4>1
        <3> QED BY <3>2 DEF UpdatesAreLocked
    <2> QED BY <2>1, <2>2
<1>7. ResetsAreAlone'
    <2>1. CASE t \in Quitters
        BY <1>4, <2>1 DEF ResetsAreAlone
    <2>2. CASE t \notin Quitters
        <3>1. resetting' = resetting
            BY <1>1, <2>2
        <3>2. \A q \in Quitters : Proxy!Resetting(q)' => Proxy!Resetting(q)
            BY <1>5 DEF Proxy!Tasks
        <3> QED BY <3>1, <3>2 DEF SysoptInv, ResetsAreAlone
    <2> QED BY <2>1, <2>2
<1>8. OverlapIsCrossed'
    BY <1>5 DEF SysoptInv, OverlapIsCrossed, Proxy!Tasks
<1>9. SettledIsApplied'
    BY DEF SettledIsApplied
<1>10. ApplyingIsHalfDone'
    <2> SUFFICES ASSUME NEW u \in Proxy!Tasks, at'[u] = "apply"
                 PROVE  job'[u].steps # <<>> /\ crossed'
        BY DEF ApplyingIsHalfDone
    <2>1. u # t /\ at[u] = "apply" /\ job'[u] = job[u]
        BY <1>2
    <2>2. crossed
        BY <2>1 DEF SysoptInv, UpdatesAreLocked, ResetsAreAlone, OverlapIsCrossed, Proxy!Tasks, Proxy!Updating,
           Proxy!Resetting
    <2> QED BY <2>1, <2>2 DEF SysoptInv, ApplyingIsHalfDone
<1> QED BY <1>3, <1>6, <1>7, <1>8, <1>9, <1>10 DEF SysoptInv

LEMMA SysoptApplyStep ==
    ASSUME SysoptInv, NEW t \in Proxy!Tasks, Proxy!ApplyStep(t) PROVE SysoptInv'
<1> DEFINE j == job[t]
           e == Proxy!SetProxy(Head(j.steps), Proxy!Target(j.want))
<1>1. /\ at \in [Proxy!Tasks -> SysoptPlaces] /\ job \in [Proxy!Tasks -> AnyJob] /\ desktop \in Desktops
      /\ os \in {"windows", "macos"}
    BY DEF SysoptInv, SysoptTypeOK
<1>2. j \in AnyJob /\ j.want \in AnySettings /\ j.steps \in StepsLeft
    BY <1>1 DEF AnyJob
<1>3. at[t] = "apply" /\ UNCHANGED <<os, saved, draft, guardType, guardOn, crossed, edits>>
    BY DEF Proxy!ApplyStep
<1>4. /\ j.steps # <<>>
      /\ ~crossed => guardType = Proxy!GuardTypeFor(j.want) /\ HalfDone(j, desktop)
    BY <1>3 DEF SysoptInv, ApplyingIsHalfDone
<1>5. e \in Desktops
    <2>1. Head(j.steps) \in {"Sysproxy", "Autoproxy"}
        BY <1>2, <1>4, SysoptSteps DEF StepsLeft
    <2> QED BY <1>1, <1>2, <2>1, SysoptTarget, SysoptSetProxyType
<1>6. ~crossed => /\ Len(j.steps) > 1 => HalfDone([j EXCEPT !.steps = Tail(@)], e)
                  /\ ~(Len(j.steps) > 1) => e = Proxy!Target(j.want)
    BY <1>1, <1>2, <1>4, SysoptSetProxy
<1>7. {"clean", "guard", "idle"} \subseteq SysoptPlaces \ {"read", "apply"}
    BY DEF SysoptPlaces
<1>8. CASE /\ desktop' = e /\ Len(j.steps) > 1
           /\ job' = [job EXCEPT ![t].steps = Tail(@)] /\ UNCHANGED <<at, applied, lock, resetting>>
    <2>1. j.steps \in {SysProxyFirst, AutoProxyFirst}
        <3>1. Len(j.steps) > 1
            BY <1>8
        <3> QED BY <1>2, <3>1, SysoptLong
    <2>2. Tail(j.steps) \in StepsLeft /\ Tail(j.steps) # <<>>
        BY <2>1, SysoptSteps DEF StepsLeft
    <2>3. [j EXCEPT !.steps = Tail(@)] \in AnyJob /\ [j EXCEPT !.steps = Tail(@)].want = j.want
        BY <1>2, <2>2 DEF AnyJob
    <2>4. /\ job' \in [Proxy!Tasks -> AnyJob] /\ job'[t] = [j EXCEPT !.steps = Tail(@)]
          /\ \A u \in Proxy!Tasks : u # t => job'[u] = job[u]
        BY <1>1, <1>8, <2>3
    <2>5. UNCHANGED <<at, applied, lock, resetting>> /\ desktop' = e
        BY <1>8
    <2> HIDE DEF j, e
    <2>6. SysoptTypeOK'
        BY <1>3, <1>5, <2>4, <2>5 DEF SysoptInv, SysoptTypeOK
    <2>7. UpdatesAreLocked' /\ ResetsAreAlone' /\ OverlapIsCrossed'
        BY <1>3, <2>5 DEF SysoptInv, UpdatesAreLocked, ResetsAreAlone, OverlapIsCrossed, Proxy!Updating, Proxy!Resetting
    <2>8. SettledIsApplied'
        <3>1. ~Settled'
            BY <1>3, <2>5 DEF Settled, Proxy!Tasks, Proxy!Updating, Proxy!Resetting
        <3> QED BY <3>1 DEF SettledIsApplied
    <2>9. ApplyingIsHalfDone'
        <3> SUFFICES ASSUME NEW u \in Proxy!Tasks, at'[u] = "apply"
                     PROVE  /\ job'[u].steps # <<>>
                            /\ ~crossed' => guardType' = Proxy!GuardTypeFor(job'[u].want) /\ HalfDone(job'[u], desktop')
            BY DEF ApplyingIsHalfDone
        <3>1. CASE u = t
            <4>1. job'[u].steps = Tail(j.steps) /\ job'[u].want = j.want
                BY <1>2, <2>3, <2>4, <3>1 DEF AnyJob
            <4> QED BY <1>3, <1>4, <1>6, <1>8, <2>2, <2>4, <2>5, <3>1, <4>1
        <3>2. CASE u # t
            <4>1. at[u] = "apply" /\ job'[u] = job[u]
                BY <2>4, <2>5, <3>2
            <4>2. crossed
                BY <1>3, <3>2, <4>1 DEF SysoptInv, UpdatesAreLocked, ResetsAreAlone, OverlapIsCrossed, Proxy!Tasks,
                   Proxy!Updating, Proxy!Resetting
            <4> QED BY <1>3, <4>1, <4>2 DEF SysoptInv, ApplyingIsHalfDone
        <3> QED BY <3>1, <3>2
    <2> QED BY <2>6, <2>7, <2>8, <2>9 DEF SysoptInv
<1>9. CASE /\ desktop' = e /\ ~(Len(j.steps) > 1)
           /\ at' = [at EXCEPT ![t] = IF t \in Quitters THEN "clean" ELSE "guard"]
           /\ Proxy!Finish(t, {j.want}) /\ job' = [job EXCEPT ![t] = Proxy!NoJob]
           /\ resetting' = (resetting /\ t \notin Quitters)
    <2>1. PICK l \in {"clean", "guard"} : at' = [at EXCEPT ![t] = l]
        BY <1>9
    <2>2. applied' = {j.want} /\ lock' = (IF lock = t THEN "none" ELSE lock)
        BY <1>9 DEF Proxy!Finish
    <2>3. applied' \in SUBSET AnySettings /\ desktop' \in Desktops
        BY <1>2, <1>5, <1>9, <2>2
    <2>4. ~crossed => \A s \in applied' : desktop' = Proxy!Target(s) /\ guardType = Proxy!GuardTypeFor(s)
        BY <1>4, <1>6, <1>9, <2>2
    <2> HIDE DEF j, e
    <2> QED BY <1>3, <1>7, <1>9, <2>1, <2>2, <2>3, <2>4, SysoptEnds
<1>10. CASE /\ at' = [at EXCEPT ![t] = IF t \in Quitters THEN "clean" ELSE "idle"]
            /\ Proxy!Finish(t, {})
            /\ resetting' = (resetting /\ t \notin Quitters)
            /\ job' = [job EXCEPT ![t] = Proxy!NoJob]
            /\ UNCHANGED desktop
    <2>1. PICK l \in {"clean", "idle"} : at' = [at EXCEPT ![t] = l]
        BY <1>10
    <2>2. applied' = {} /\ lock' = (IF lock = t THEN "none" ELSE lock)
        BY <1>10 DEF Proxy!Finish
    <2>3. applied' \in SUBSET AnySettings /\ desktop' \in Desktops
        BY <1>1, <1>10, <2>2
    <2> HIDE DEF j, e
    <2> QED BY <1>3, <1>7, <1>10, <2>1, <2>2, <2>3, SysoptEnds
<1> QED BY <1>8, <1>9, <1>10 DEF Proxy!ApplyStep

LEMMA SysoptGuardTick ==
    ASSUME SysoptInv, Proxy!GuardTick PROVE SysoptInv'
<1>1. /\ desktop \in Desktops /\ guardType \in GuardTypes /\ applied \in SUBSET AnySettings
      /\ job \in [Proxy!Tasks -> AnyJob]
    BY DEF SysoptInv, SysoptTypeOK
<1>2. desktop' # desktop /\ UNCHANGED <<os, saved, draft, guardType, guardOn, lock, resetting, at, job, applied,
      crossed, edits>>
    BY DEF Proxy!GuardTick
<1>3. \/ guardType.kind = "Sysproxy" /\ desktop' = [sys |-> guardType.port, auto |-> desktop.auto]
      \/ guardType.kind = "Autoproxy" /\ desktop' = [sys |-> desktop.sys, auto |-> TRUE]
    <2>1. CASE guardType.kind = "Sysproxy"
        <3>1. desktop' = [desktop EXCEPT !.sys = guardType.port]
            BY <2>1 DEF Proxy!GuardTick, Proxy!SetProxy
        <3> QED BY <1>1, <2>1, <3>1 DEF Desktops
    <2>2. CASE guardType.kind = "Autoproxy"
        <3>1. desktop' = [auto |-> TRUE, sys |-> desktop.sys]
            BY <2>2 DEF Proxy!GuardTick, Proxy!SetProxy
        <3> QED BY <2>2, <3>1
    <2> QED BY <2>1, <2>2 DEF Proxy!GuardTick
<1>4. desktop' \in Desktops
    <2>1. guardType.port \in Ports \cup {0} /\ desktop.sys \in Ports \cup {0} /\ desktop.auto \in BOOLEAN
        BY <1>1 DEF Desktops, GuardTypes
    <2>2. CASE desktop' = [sys |-> guardType.port, auto |-> desktop.auto]
        BY <2>1, <2>2 DEF Desktops
    <2>3. CASE desktop' = [sys |-> desktop.sys, auto |-> TRUE]
        BY <2>1, <2>3 DEF Desktops
    <2> QED BY <1>3, <2>2, <2>3
<1>5. SysoptTypeOK'
    BY <1>2, <1>4 DEF SysoptInv, SysoptTypeOK
<1>6. UpdatesAreLocked' /\ ResetsAreAlone' /\ OverlapIsCrossed'
    BY <1>2 DEF SysoptInv, UpdatesAreLocked, ResetsAreAlone, OverlapIsCrossed, Proxy!Updating, Proxy!Resetting
<1>7. ASSUME NEW s \in AnySettings, guardType = Proxy!GuardTypeFor(s)
      PROVE  /\ guardType.kind = "Sysproxy" => guardType.port = Proxy!Target(s).sys /\ ~Proxy!Target(s).auto
             /\ guardType.kind = "Autoproxy" => Proxy!Target(s).auto /\ Proxy!Target(s).sys = 0
    <2>1. s.proxy \in BOOLEAN /\ s.guard \in BOOLEAN /\ s.pac \in BOOLEAN
        BY DEF AnySettings
    <2>2. /\ Proxy!Target(s).sys = (IF s.proxy /\ ~s.pac THEN s.port ELSE 0)
          /\ Proxy!Target(s).auto = (s.proxy /\ s.pac)
        BY DEF Proxy!Target
    <2>3. CASE ~s.proxy \/ ~s.guard
        <3>1. guardType = [kind |-> "None", port |-> 0]
            BY <1>7, <2>1, <2>3 DEF Proxy!GuardTypeFor
        <3> QED BY <3>1
    <2>4. CASE ~(~s.proxy \/ ~s.guard) /\ s.pac
        <3>1. guardType = [kind |-> "Autoproxy", port |-> 0]
            BY <1>7, <2>4 DEF Proxy!GuardTypeFor
        <3> QED BY <2>2, <2>4, <3>1
    <2>5. CASE ~(~s.proxy \/ ~s.guard) /\ ~s.pac
        <3>1. guardType = [kind |-> "Sysproxy", port |-> s.port]
            BY <1>7, <2>5 DEF Proxy!GuardTypeFor
        <3> QED BY <2>2, <2>5, <3>1
    <2> QED BY <2>1, <2>3, <2>4, <2>5
<1>8. SettledIsApplied'
    <2> SUFFICES ASSUME ~crossed, Settled, NEW s \in applied
                 PROVE  FALSE
        BY <1>2 DEF SettledIsApplied, Settled, Proxy!Updating, Proxy!Resetting
    <2>1. desktop = Proxy!Target(s) /\ guardType = Proxy!GuardTypeFor(s) /\ s \in AnySettings
        BY <1>1 DEF SysoptInv, SettledIsApplied
    <2>2. desktop = [sys |-> desktop.sys, auto |-> desktop.auto]
        BY <1>1 DEF Desktops
    <2>3. /\ guardType.kind = "Sysproxy" => guardType.port = desktop.sys
          /\ guardType.kind = "Autoproxy" => desktop.auto = TRUE
        <3>1. desktop.auto \in BOOLEAN
            BY <1>1 DEF Desktops
        <3> QED BY <1>7, <2>1, <3>1
    <2> QED BY <1>2, <1>3, <2>2, <2>3
<1>9. ApplyingIsHalfDone'
    <2> SUFFICES ASSUME NEW t \in Proxy!Tasks, at[t] = "apply"
                 PROVE  /\ job[t].steps # <<>>
                        /\ ~crossed => guardType = Proxy!GuardTypeFor(job[t].want) /\ HalfDone(job[t], desktop')
        BY <1>2 DEF ApplyingIsHalfDone
    <2>1. /\ job[t].steps # <<>> /\ job[t].want \in AnySettings
          /\ ~crossed => guardType = Proxy!GuardTypeFor(job[t].want) /\ HalfDone(job[t], desktop)
        BY <1>1 DEF SysoptInv, ApplyingIsHalfDone, AnyJob
    <2> SUFFICES ASSUME ~crossed PROVE HalfDone(job[t], desktop')
        BY <2>1
    <2>2. /\ guardType.kind = "Sysproxy" =>
                 guardType.port = Proxy!Target(job[t].want).sys /\ ~Proxy!Target(job[t].want).auto
          /\ guardType.kind = "Autoproxy" => Proxy!Target(job[t].want).auto /\ Proxy!Target(job[t].want).sys = 0
        BY <1>7, <2>1
    <2>3. \/ desktop'.sys = Proxy!Target(job[t].want).sys /\ desktop'.auto = desktop.auto
          \/ desktop'.sys = desktop.sys /\ Proxy!Target(job[t].want).auto
        BY <1>3, <2>2
    <2> QED BY <2>1, <2>3 DEF HalfDone
<1> QED BY <1>5, <1>6, <1>8, <1>9 DEF SysoptInv

LEMMA SysoptOtherProgram ==
    ASSUME SysoptInv, Proxy!OtherProgram PROVE SysoptInv'
<1>1. /\ desktop' = [sys |-> 0, auto |-> FALSE] /\ applied' = {}
      /\ UNCHANGED <<os, saved, draft, guardType, guardOn, lock, resetting, at, job, crossed>>
    BY SysoptOff DEF Proxy!OtherProgram
<1>2. SysoptTypeOK'
    BY <1>1 DEF SysoptInv, SysoptTypeOK, Desktops
<1>3. UpdatesAreLocked' /\ ResetsAreAlone' /\ OverlapIsCrossed'
    BY <1>1 DEF SysoptInv, UpdatesAreLocked, ResetsAreAlone, OverlapIsCrossed, Proxy!Updating, Proxy!Resetting
<1>4. SettledIsApplied'
    BY <1>1 DEF SettledIsApplied
<1>5. ApplyingIsHalfDone'
    BY <1>1 DEF SysoptInv, ApplyingIsHalfDone, HalfDone
<1> QED BY <1>2, <1>3, <1>4, <1>5 DEF SysoptInv

\* Every step of the savers, the quits, the guard and the desktop keeps SysoptInv.
LEMMA SysoptStep == SysoptInv /\ [Proxy!Next]_(Proxy!sysopt) => SysoptInv'
<1> SUFFICES ASSUME SysoptInv, [Proxy!Next]_(Proxy!sysopt) PROVE SysoptInv'
    OBVIOUS
<1>1. CASE UNCHANGED Proxy!sysopt
    BY <1>1 DEF Proxy!sysopt, SysoptInv, SysoptTypeOK, UpdatesAreLocked, ResetsAreAlone, OverlapIsCrossed,
       SettledIsApplied, Settled, ApplyingIsHalfDone, Proxy!Updating, Proxy!Resetting
<1>2. ASSUME NEW t \in Savers,
             \/ Proxy!SaveSettings(t) \/ Proxy!ToggleSystemProxy(t) \/ Proxy!LockUpdate(t) \/ Proxy!UpdateSysproxy(t)
             \/ Proxy!RefreshGuard(t) \/ Proxy!Commit(t)
      PROVE  SysoptInv'
    <2>1. t \in Proxy!Tasks
        BY DEF Proxy!Tasks
    <2> QED BY <1>2, <2>1, SysoptSaveSettings, SysoptLockUpdate, SysoptUpdate, SysoptMoves
<1>3. ASSUME NEW t \in Proxy!Tasks, Proxy!ApplyStep(t) PROVE SysoptInv'
    BY <1>3, SysoptApplyStep
<1>4. ASSUME NEW q \in Quitters,
             Proxy!Quit(q) \/ Proxy!ResetSysproxy(q) \/ Proxy!SkipReset(q) \/ Proxy!Exit(q)
      PROVE  SysoptInv'
    <2>1. q \in Proxy!Tasks
        BY DEF Proxy!Tasks
    <2> QED BY <1>4, <2>1, SysoptMoves, SysoptReset, SysoptExit
<1> QED BY <1>1, <1>2, <1>3, <1>4, SysoptGuardTick, SysoptOtherProgram DEF Proxy!Next

\* The property follows from SysoptInv.
LEMMA SysoptShows ==
    ASSUME SysoptInv PROVE Proxy!ProxyIsAsApplied
BY DEF SysoptInv, SettledIsApplied, Settled, Proxy!ProxyIsAsApplied

-----------------------------------------------------------------------------
(***************************************************************************)
(* The hotkeys.                                                             *)
(*                                                                          *)
(* Of every key that is not astray: each call of init under way has read    *)
(* its drafted function, what the desktop has is drafted, and between two   *)
(* updates the record of what is registered knows it, or a call of init is  *)
(* about to say so; of the focus tasks that wait, the youngest has the last *)
(* word.                                                                    *)
(***************************************************************************)

KeyFunctions == Functions \cup {"free", "quit"}
KeyMaps == [UserKeys -> KeyFunctions]

HotkeyTypeOK ==
    /\ saved \in KeyMaps /\ draft \in KeyMaps /\ current \in KeyMaps
    /\ registered \in [Shortcuts!AllKeys -> KeyFunctions]
    /\ update \in [at : {"idle", "register"}, del : SUBSET UserKeys, add : SUBSET UserKeys]
    /\ inits \subseteq [list : KeyMaps, todo : SUBSET UserKeys]
    /\ global \in BOOLEAN /\ focused \in BOOLEAN /\ newestTask \in {"waiting", "run", "undone"}
    /\ tasks \in Seq(BOOLEAN)

\* The calls of init under way have read what is drafted, and no more than that is registered.
RegisteredIsDrafted ==
    \A k \in UserKeys \ astray :
        registered[k] \in {"free", draft[k]} /\ \A i \in inits : i.list[k] = draft[k]

\* Between updates there is no draft, and current knows every registered key or soon will.
CurrentIsKnown ==
    update.at = "idle" =>
        \A k \in UserKeys \ astray :
            draft[k] = saved[k] /\ (registered[k] = "free" \/ current[k] = draft[k] \/ inits # {})

\* The youngest focus task, or the registration it has left, follows the focus.
NewestFollowsFocus ==
    /\ newestTask = "waiting" => Len(tasks) > 0 /\ tasks[Len(tasks)] = focused
    /\ newestTask = "run" /\ "cmd_q" \notin astray => (registered["cmd_q"] # "free" <=> focused)

HotkeyInv == HotkeyTypeOK /\ RegisteredIsDrafted /\ CurrentIsKnown /\ NewestFollowsFocus

\* The system key is not one of the user's.
LEMMA HotkeyKeys ==
    /\ Shortcuts!AllKeys = UserKeys \cup {"cmd_q"} /\ Shortcuts!Free = "free" /\ Shortcuts!SystemKey = "cmd_q"
    /\ Shortcuts!SystemFunction = "quit"
BY DEF Shortcuts!AllKeys, Shortcuts!Free, Shortcuts!SystemKey, Shortcuts!SystemFunction

\* The saved keys are registered, when hotkeys are on at all.
LEMMA HotkeyInitially == Shortcuts!Init => HotkeyInv
<1> SUFFICES ASSUME Shortcuts!Init PROVE HotkeyInv
    OBVIOUS
<1>1. saved \in KeyMaps /\ draft = saved
    BY HotkeyKeys DEF Shortcuts!Init, Shortcuts!Maps, KeyFunctions, KeyMaps
<1>2. /\ global \in BOOLEAN /\ focused = FALSE /\ tasks = <<>> /\ newestTask = "run" /\ inits = {}
      /\ current = (IF global THEN saved ELSE Shortcuts!Unset)
      /\ registered = [k \in Shortcuts!AllKeys |-> IF k \in UserKeys /\ global THEN saved[k] ELSE "free"]
      /\ update = [at |-> "idle", del |-> {}, add |-> {}]
    BY HotkeyKeys DEF Shortcuts!Init, Shortcuts!Idle
<1>3. current \in KeyMaps
    BY <1>1, <1>2, HotkeyKeys DEF Shortcuts!Unset, KeyFunctions, KeyMaps
<1>4. registered \in [Shortcuts!AllKeys -> KeyFunctions]
    BY <1>1, <1>2 DEF KeyFunctions, KeyMaps
<1>5. \A k \in UserKeys : registered[k] = (IF global THEN saved[k] ELSE "free")
    BY <1>2, HotkeyKeys
<1>6. registered["cmd_q"] = "free"
    BY <1>2, HotkeyKeys, KeysAreTheUsers
<1>7. HotkeyTypeOK
    <2>1. tasks \in Seq(BOOLEAN)
        BY <1>2
    <2>2. update \in [at : {"idle", "register"}, del : SUBSET UserKeys, add : SUBSET UserKeys]
        BY <1>2
    <2>3. focused \in BOOLEAN /\ global \in BOOLEAN /\ inits \subseteq [list : KeyMaps, todo : SUBSET UserKeys]
        BY <1>2
    <2> QED BY <1>1, <1>2, <1>3, <1>4, <2>1, <2>2, <2>3 DEF HotkeyTypeOK
<1>8. RegisteredIsDrafted /\ CurrentIsKnown
    BY <1>1, <1>2, <1>5 DEF RegisteredIsDrafted, CurrentIsKnown
<1>9. NewestFollowsFocus
    BY <1>2, <1>6 DEF NewestFollowsFocus
<1> QED BY <1>7, <1>8, <1>9 DEF HotkeyInv

\* Keys that are unregistered are free, and the others are as they were.
LEMMA HotkeyUnregister ==
    ASSUME HotkeyTypeOK, NEW ks, Shortcuts!Unregister(ks)
    PROVE  /\ registered' \in [Shortcuts!AllKeys -> KeyFunctions]
           /\ \A k \in Shortcuts!AllKeys : registered'[k] = IF k \in ks THEN "free" ELSE registered[k]
<1>1. registered' = [k \in Shortcuts!AllKeys |-> IF k \in ks THEN "free" ELSE registered[k]]
    BY HotkeyKeys DEF Shortcuts!Unregister
<1> QED BY <1>1 DEF HotkeyTypeOK, KeyFunctions

\* A key that is registered, or refused, has its function, is free, or is as it was; no other key moves.
LEMMA HotkeyRegister ==
    ASSUME HotkeyTypeOK, NEW k \in Shortcuts!AllKeys, NEW f \in KeyFunctions,
           Shortcuts!Register(k, f) \/ Shortcuts!RegisterRefused(k)
    PROVE  /\ registered' \in [Shortcuts!AllKeys -> KeyFunctions]
           /\ registered'[k] \in {"free", f, registered[k]}
           /\ Shortcuts!Register(k, f) => registered'[k] = f
           /\ \A j \in Shortcuts!AllKeys \ {k} : registered'[j] = registered[j]
<1>1. CASE Shortcuts!Register(k, f)
    <2>1. registered' = [registered EXCEPT ![k] = f]
        BY <1>1 DEF Shortcuts!Register
    <2> QED BY <2>1 DEF HotkeyTypeOK
<1>2. CASE Shortcuts!RegisterRefused(k) /\ ~Shortcuts!Register(k, f)
    <2>1. PICK ks \in {{}, {k}} : Shortcuts!Unregister(ks)
        BY <1>2 DEF Shortcuts!RegisterRefused
    <2> QED BY <1>2, <2>1, HotkeyUnregister
<1> QED BY <1>1, <1>2

\* One lemma for each action: it keeps HotkeyInv.
LEMMA HotkeyUpdate ==
    ASSUME HotkeyInv, Shortcuts!Update PROVE HotkeyInv'
<1>1. PICK new \in Shortcuts!Maps :
         \E kept \in SUBSET {k \in Shortcuts!GetDiff(current, new).del : registered[k] # "free"} :
            /\ draft' = new
            /\ update' = [at |-> "register", add |-> Shortcuts!GetDiff(current, new).add,
                          del |-> Shortcuts!GetDiff(current, new).del]
            /\ Shortcuts!Unregister(Shortcuts!GetDiff(current, new).del \ kept)
            /\ astray' = astray \cup kept \cup {k \in UserKeys : \E i \in inits : i.list[k] # new[k]}
    BY HotkeyKeys DEF Shortcuts!Update
<1>2. update.at = "idle" /\ UNCHANGED <<saved, global, current, inits, focused, tasks, newestTask, ran>>
    BY DEF Shortcuts!Update
<1>3. new \in KeyMaps
    BY <1>1, HotkeyKeys DEF Shortcuts!Maps, KeyFunctions, KeyMaps
<1> DEFINE del == {k \in UserKeys : current[k] # "free" /\ new[k] # current[k]}
           add == {k \in UserKeys : new[k] # "free" /\ new[k] # current[k]}
<1>4. Shortcuts!GetDiff(current, new).del = del /\ Shortcuts!GetDiff(current, new).add = add
    BY HotkeyKeys DEF Shortcuts!GetDiff
<1>5. PICK kept \in SUBSET del :
         /\ draft' = new /\ update' = [at |-> "register", add |-> add, del |-> del]
         /\ Shortcuts!Unregister(del \ kept)
         /\ astray' = astray \cup kept \cup {k \in UserKeys : \E i \in inits : i.list[k] # new[k]}
    BY <1>1, <1>4
<1>6. /\ registered' \in [Shortcuts!AllKeys -> KeyFunctions]
      /\ \A k \in Shortcuts!AllKeys : registered'[k] = IF k \in del \ kept THEN "free" ELSE registered[k]
    BY <1>5, HotkeyUnregister DEF HotkeyInv
<1>7. HotkeyTypeOK'
    <2>1. update' \in [at : {"idle", "register"}, del : SUBSET UserKeys, add : SUBSET UserKeys]
        BY <1>5
    <2> QED BY <1>2, <1>3, <1>5, <1>6, <2>1 DEF HotkeyInv, HotkeyTypeOK
<1>8. RegisteredIsDrafted'
    <2> SUFFICES ASSUME NEW k \in UserKeys \ astray'
                 PROVE  registered'[k] \in {"free", new[k]} /\ \A i \in inits : i.list[k] = new[k]
        BY <1>2, <1>5 DEF RegisteredIsDrafted
    <2>1. k \in UserKeys \ astray /\ k \notin kept /\ \A i \in inits : i.list[k] = new[k]
        BY <1>5
    <2>2. registered[k] \in {"free", draft[k]} /\ \A i \in inits : i.list[k] = draft[k]
        BY <2>1 DEF HotkeyInv, RegisteredIsDrafted
    <2>3. registered[k] = "free" \/ current[k] = draft[k] \/ inits # {}
        BY <1>2, <2>1 DEF HotkeyInv, CurrentIsKnown
    <2>4. registered'[k] = IF k \in del THEN "free" ELSE registered[k]
        BY <1>6, <2>1, HotkeyKeys
    <2> QED BY <2>1, <2>2, <2>3, <2>4
<1>9. CurrentIsKnown'
    BY <1>5 DEF CurrentIsKnown
<1>10. registered'["cmd_q"] = registered["cmd_q"] /\ ("cmd_q" \in astray' <=> "cmd_q" \in astray)
    BY <1>5, <1>6, HotkeyKeys, KeysAreTheUsers
<1>11. NewestFollowsFocus'
    BY <1>2, <1>10 DEF HotkeyInv, NewestFollowsFocus
<1> QED BY <1>7, <1>8, <1>9, <1>11 DEF HotkeyInv

LEMMA HotkeyRegisterAdded ==
    ASSUME HotkeyInv, Shortcuts!RegisterAdded PROVE HotkeyInv'
<1>1. PICK k \in update.add :
       \/ /\ Shortcuts!Register(k, draft[k])
          /\ update' = [update EXCEPT !.add = @ \ {k}]
          /\ UNCHANGED astray
       \/ /\ Shortcuts!RegisterRefused(k)
          /\ update' = Shortcuts!Idle
          /\ astray' = astray \cup {j \in UserKeys : draft[j] # saved[j] \/ draft[j] # current[j]}
    BY DEF Shortcuts!RegisterAdded
<1>2. /\ update.at = "register"
      /\ UNCHANGED <<saved, draft, global, current, inits, focused, tasks, newestTask, ran, events>>
    BY DEF Shortcuts!RegisterAdded
<1>3. /\ k \in UserKeys /\ k # "cmd_q" /\ draft[k] \in KeyFunctions
      /\ update \in [at : {"idle", "register"}, del : SUBSET UserKeys, add : SUBSET UserKeys]
    BY KeysAreTheUsers DEF HotkeyInv, HotkeyTypeOK, KeyMaps
<1>4. /\ registered' \in [Shortcuts!AllKeys -> KeyFunctions] /\ registered'[k] \in {"free", draft[k], registered[k]}
      /\ \A j \in Shortcuts!AllKeys \ {k} : registered'[j] = registered[j]
    BY <1>1, <1>3, HotkeyKeys, HotkeyRegister DEF HotkeyInv
<1>5. astray \subseteq astray' /\ ("cmd_q" \in astray' <=> "cmd_q" \in astray)
    BY <1>1, KeysAreTheUsers
<1>6. HotkeyTypeOK'
    <2>1. update' \in [at : {"idle", "register"}, del : SUBSET UserKeys, add : SUBSET UserKeys]
        BY <1>1, <1>3 DEF Shortcuts!Idle
    <2> QED BY <1>2, <1>4, <2>1 DEF HotkeyInv, HotkeyTypeOK
<1>7. RegisteredIsDrafted'
    BY <1>2, <1>3, <1>4, <1>5, HotkeyKeys DEF HotkeyInv, RegisteredIsDrafted
<1>8. CurrentIsKnown'
    <2>1. CASE update' = [update EXCEPT !.add = @ \ {k}]
        <3>1. update'.at = "register"
            BY <1>2, <1>3, <2>1
        <3> QED BY <3>1 DEF CurrentIsKnown
    <2>2. CASE astray' = astray \cup {j \in UserKeys : draft[j] # saved[j] \/ draft[j] # current[j]}
        <3>1. \A j \in UserKeys \ astray' : draft[j] = saved[j] /\ current[j] = draft[j]
            BY <2>2
        <3> QED BY <1>2, <3>1 DEF CurrentIsKnown
    <2> QED BY <1>1, <2>1, <2>2
<1>9. NewestFollowsFocus'
    <2>1. registered'["cmd_q"] = registered["cmd_q"]
        BY <1>3, <1>4, HotkeyKeys
    <2> QED BY <1>2, <1>5, <2>1 DEF HotkeyInv, NewestFollowsFocus
<1> QED BY <1>6, <1>7, <1>8, <1>9 DEF HotkeyInv

LEMMA HotkeyStoreCurrent ==
    ASSUME HotkeyInv, Shortcuts!StoreCurrent PROVE HotkeyInv'
<1>1. /\ current' = draft /\ saved' = draft /\ update' = [at |-> "idle", del |-> {}, add |-> {}]
      /\ UNCHANGED <<draft, global, registered, inits, focused, tasks, newestTask, ran, astray, events>>
    BY DEF Shortcuts!StoreCurrent, Shortcuts!Idle
<1>2. HotkeyTypeOK'
    BY <1>1 DEF HotkeyInv, HotkeyTypeOK
<1>3. RegisteredIsDrafted' /\ CurrentIsKnown'
    BY <1>1 DEF HotkeyInv, RegisteredIsDrafted, CurrentIsKnown
<1>4. NewestFollowsFocus'
    BY <1>1 DEF HotkeyInv, NewestFollowsFocus
<1> QED BY <1>2, <1>3, <1>4 DEF HotkeyInv

LEMMA HotkeyFocus ==
    ASSUME HotkeyInv, Shortcuts!HandleWindowFocus PROVE HotkeyInv'
<1>1. /\ focused' = ~focused /\ tasks' = Append(tasks, ~focused) /\ newestTask' = "waiting"
      /\ UNCHANGED <<saved, draft, global, current, registered, update, inits, ran, astray>>
    BY DEF Shortcuts!HandleWindowFocus
<1>2. tasks \in Seq(BOOLEAN) /\ focused \in BOOLEAN
    BY DEF HotkeyInv, HotkeyTypeOK
<1>3. PICK f \in BOOLEAN : f = ~focused
    BY <1>2
<1>4. tasks' = Append(tasks, f) /\ focused' = f
    BY <1>1, <1>3
<1>5. tasks' \in Seq(BOOLEAN) /\ Len(tasks') > 0 /\ tasks'[Len(tasks')] = f
    BY <1>2, <1>4
<1>6. HotkeyTypeOK'
    BY <1>1, <1>4, <1>5 DEF HotkeyInv, HotkeyTypeOK
<1>7. RegisteredIsDrafted' /\ CurrentIsKnown'
    BY <1>1 DEF HotkeyInv, RegisteredIsDrafted, CurrentIsKnown
<1>8. NewestFollowsFocus'
    BY <1>1, <1>4, <1>5 DEF NewestFollowsFocus
<1> QED BY <1>6, <1>7, <1>8 DEF HotkeyInv

(* A task of a gained focus registers the system's key, and one of a lost    *)
(* focus drops it, or the key is astray.                                     *)
LEMMA HotkeyTaskRuns ==
    ASSUME HotkeyInv, NEW f \in BOOLEAN, IF f THEN Shortcuts!RegisterOnFocus ELSE Shortcuts!UnregisterOnBlur,
           UNCHANGED <<saved, draft, global, current, update, focused>>
    PROVE  /\ registered' \in [Shortcuts!AllKeys -> KeyFunctions]
           /\ inits' \subseteq [list : KeyMaps, todo : SUBSET UserKeys]
           /\ "cmd_q" \notin astray' => (registered'["cmd_q"] # "free" <=> f)
           /\ RegisteredIsDrafted' /\ CurrentIsKnown'
<1>1. /\ registered \in [Shortcuts!AllKeys -> KeyFunctions] /\ draft \in KeyMaps /\ "quit" \in KeyFunctions
      /\ inits \subseteq [list : KeyMaps, todo : SUBSET UserKeys]
    BY DEF HotkeyInv, HotkeyTypeOK, KeyFunctions
<1>2. CASE f = TRUE
    <2>1. /\ \/ Shortcuts!Register("cmd_q", "quit") /\ astray' = astray \ {"cmd_q"}
             \/ Shortcuts!RegisterRefused("cmd_q") /\ astray' = astray \cup {"cmd_q"}
          /\ inits' = IF global THEN inits ELSE inits \cup {[list |-> draft, todo |-> Shortcuts!Listed(draft)]}
        BY <1>2, HotkeyKeys DEF Shortcuts!RegisterOnFocus
    <2>2. /\ registered' \in [Shortcuts!AllKeys -> KeyFunctions]
          /\ Shortcuts!Register("cmd_q", "quit") => registered'["cmd_q"] = "quit"
          /\ \A j \in Shortcuts!AllKeys \ {"cmd_q"} : registered'[j] = registered[j]
        BY <1>1, <2>1, HotkeyKeys, HotkeyRegister DEF HotkeyInv
    <2>3. Shortcuts!Listed(draft) \subseteq UserKeys
        BY DEF Shortcuts!Listed
    <2>4. inits' \subseteq [list : KeyMaps, todo : SUBSET UserKeys]
        BY <1>1, <2>1, <2>3
    <2>5. inits \subseteq inits' /\ \A i \in inits' : i \in inits \/ i.list = draft
        BY <2>1
    <2>6. UserKeys \ astray' = UserKeys \ astray /\ \A k \in UserKeys : registered'[k] = registered[k]
        BY <2>1, <2>2, HotkeyKeys, KeysAreTheUsers
    <2>7. RegisteredIsDrafted' /\ CurrentIsKnown'
        BY <2>5, <2>6 DEF HotkeyInv, RegisteredIsDrafted, CurrentIsKnown
    <2>8. "cmd_q" \notin astray' => registered'["cmd_q"] = "quit"
        BY <2>1, <2>2
    <2> QED BY <1>2, <2>2, <2>4, <2>7, <2>8
<1>3. CASE f = FALSE
    <2>1. PICK kept \in SUBSET {k \in Shortcuts!AllKeys : registered[k] # "free"} :
             /\ Shortcuts!Unregister((IF global THEN {"cmd_q"} ELSE Shortcuts!AllKeys) \ kept)
             /\ astray' = (astray \ {"cmd_q"}) \cup (kept \cap {"cmd_q"})
             /\ inits' = inits
        BY <1>3, HotkeyKeys DEF Shortcuts!UnregisterOnBlur
    <2> DEFINE ks == (IF global THEN {"cmd_q"} ELSE Shortcuts!AllKeys) \ kept
    <2>2. /\ registered' \in [Shortcuts!AllKeys -> KeyFunctions]
          /\ \A k \in Shortcuts!AllKeys : registered'[k] = IF k \in ks THEN "free" ELSE registered[k]
        BY <2>1, HotkeyUnregister DEF HotkeyInv
    <2>3. "cmd_q" \notin astray' => registered'["cmd_q"] = "free"
        BY <2>1, <2>2, HotkeyKeys
    <2>4. /\ UserKeys \ astray' = UserKeys \ astray
          /\ \A k \in UserKeys : registered'[k] = "free" \/ registered'[k] = registered[k]
        BY <2>1, <2>2, HotkeyKeys, KeysAreTheUsers
    <2>5. RegisteredIsDrafted' /\ CurrentIsKnown'
        BY <2>1, <2>4 DEF HotkeyInv, RegisteredIsDrafted, CurrentIsKnown
    <2> QED BY <1>1, <1>3, <2>1, <2>2, <2>3, <2>5
<1> QED BY <1>2, <1>3

Without(s, i) == SubSeq(s, 1, i - 1) \o SubSeq(s, i + 1, Len(s))

\* A queue without one of its entries: it ends as before, unless the last one was taken.
LEMMA QueueWithout ==
    ASSUME NEW S, NEW s \in Seq(S), NEW i \in 1..Len(s)
    PROVE  /\ Without(s, i) \in Seq(S)
           /\ i # Len(s) => Len(Without(s, i)) > 0 /\ Without(s, i)[Len(Without(s, i))] = s[Len(s)]
<1>1. Len(s) \in Nat /\ i \in Nat /\ i >= 1 /\ i <= Len(s)
    OBVIOUS
<1> DEFINE u == SubSeq(s, 1, i - 1)
           v == SubSeq(s, i + 1, Len(s))
           t == Without(s, i)
<1>2. u \in Seq(S) /\ Len(u) = i - 1
    BY <1>1
<1>3. v \in Seq(S) /\ Len(v) = Len(s) - i /\ \A j \in 1..(Len(s) - i) : v[j] = s[i + j]
    <2>1. \A j \in (i + 1)..Len(s) : s[j] \in S
        BY <1>1
    <2>2. i + 1 \in Int /\ Len(s) \in Int
        BY <1>1
    <2>3. /\ v \in Seq(S) /\ Len(v) = IF i + 1 <= Len(s) THEN Len(s) - (i + 1) + 1 ELSE 0
          /\ \A j \in 1..(Len(s) - (i + 1) + 1) : v[j] = s[i + 1 + j - 1]
        BY <2>1, <2>2, SubSeqProperties
    <2>4. Len(v) = Len(s) - i
        <3>1. \A n \in Nat, m \in Nat : m <= n => n - m = IF m + 1 <= n THEN n - (m + 1) + 1 ELSE 0
            OBVIOUS
        <3> QED BY <1>1, <2>3, <3>1, Zenon
    <2>5. \A j \in 1..(Len(s) - i) : j \in 1..(Len(s) - (i + 1) + 1) /\ i + 1 + j - 1 = i + j
        BY <1>1
    <2> QED BY <2>3, <2>4, <2>5
<1>4. t = u \o v
    BY DEF Without
<1> HIDE DEF u, v, t
<1>5. /\ t \in Seq(S) /\ Len(t) = Len(u) + Len(v)
      /\ \A j \in 1..(Len(u) + Len(v)) : t[j] = IF j <= Len(u) THEN u[j] ELSE v[j - Len(u)]
    BY <1>2, <1>3, <1>4, ConcatProperties
<1>6. ASSUME i # Len(s) PROVE Len(t) > 0 /\ t[Len(t)] = s[Len(s)]
    <2>1. Len(t) = Len(s) - 1 /\ Len(v) > 0 /\ Len(t) > 0
        BY <1>1, <1>2, <1>3, <1>5, <1>6
    <2>3. t[Len(t)] = v[Len(v)]
        <3>1. Len(t) \in 1..(Len(u) + Len(v)) /\ ~(Len(t) <= Len(u)) /\ Len(t) - Len(u) = Len(v)
            BY <1>1, <1>2, <1>3, <1>5, <2>1
        <3> QED BY <1>5, <3>1
    <2>4. v[Len(v)] = s[Len(s)]
        <3>1. Len(v) \in 1..(Len(s) - i) /\ i + Len(v) = Len(s)
            BY <1>1, <1>3, <2>1
        <3> QED BY <1>3, <3>1
    <2> QED BY <2>1, <2>3, <2>4
<1> QED BY <1>5, <1>6 DEF t

LEMMA HotkeyRunTask ==
    ASSUME HotkeyInv, Shortcuts!RunFocusTask PROVE HotkeyInv'
<1>1. PICK i \in 1..Len(tasks) :
        /\ IF tasks[i] THEN Shortcuts!RegisterOnFocus ELSE Shortcuts!UnregisterOnBlur
        /\ tasks' = Without(tasks, i)
        /\ newestTask' = IF newestTask # "waiting" THEN "undone" ELSE IF i = Len(tasks) THEN "run" ELSE "waiting"
        /\ UNCHANGED <<saved, draft, global, current, update, focused, ran, events>>
    BY DEF Shortcuts!RunFocusTask, Without
<1>2. tasks \in Seq(BOOLEAN) /\ focused \in BOOLEAN
    BY DEF HotkeyInv, HotkeyTypeOK
<1>3. tasks[i] \in BOOLEAN
    BY <1>1, <1>2
<1>4. /\ registered' \in [Shortcuts!AllKeys -> KeyFunctions]
      /\ inits' \subseteq [list : KeyMaps, todo : SUBSET UserKeys]
      /\ "cmd_q" \notin astray' => (registered'["cmd_q"] # "free" <=> tasks[i])
      /\ RegisteredIsDrafted' /\ CurrentIsKnown'
    BY <1>1, <1>3, HotkeyTaskRuns
<1>5. tasks' \in Seq(BOOLEAN) /\ (i # Len(tasks) => Len(tasks') > 0 /\ tasks'[Len(tasks')] = tasks[Len(tasks)])
    BY <1>1, <1>2, QueueWithout
<1>6. HotkeyTypeOK'
    BY <1>1, <1>4, <1>5 DEF HotkeyInv, HotkeyTypeOK
<1>7. NewestFollowsFocus'
    <2>1. newestTask = "waiting" => tasks[Len(tasks)] = focused
        BY DEF HotkeyInv, NewestFollowsFocus
    <2> QED BY <1>1, <1>4, <1>5, <2>1 DEF NewestFollowsFocus
<1> QED BY <1>4, <1>6, <1>7 DEF HotkeyInv

LEMMA HotkeyInitRegisters ==
    ASSUME HotkeyInv, Shortcuts!InitRegisters PROVE HotkeyInv'
<1> PICK i \in inits : \E k \in i.todo :
        /\ Shortcuts!Register(k, i.list[k]) \/ Shortcuts!RegisterRefused(k)
        /\ inits' = (inits \ {i}) \cup {[i EXCEPT !.todo = @ \ {k}]}
        /\ UNCHANGED <<saved, draft, global, current, update, focused, tasks, newestTask, ran, astray, events>>
    BY DEF Shortcuts!InitRegisters
<1>1. PICK k \in i.todo :
        /\ Shortcuts!Register(k, i.list[k]) \/ Shortcuts!RegisterRefused(k)
        /\ inits' = (inits \ {i}) \cup {[i EXCEPT !.todo = @ \ {k}]}
        /\ UNCHANGED <<saved, draft, global, current, update, focused, tasks, newestTask, ran, astray, events>>
    OBVIOUS
<1>2. i \in [list : KeyMaps, todo : SUBSET UserKeys]
    BY <1>1 DEF HotkeyInv, HotkeyTypeOK
<1>3. k \in UserKeys /\ k # "cmd_q" /\ i.list[k] \in KeyFunctions
    BY <1>1, <1>2, KeysAreTheUsers DEF KeyMaps
<1>4. /\ registered' \in [Shortcuts!AllKeys -> KeyFunctions] /\ registered'[k] \in {"free", i.list[k], registered[k]}
      /\ \A j \in Shortcuts!AllKeys \ {k} : registered'[j] = registered[j]
    BY <1>1, <1>3, HotkeyKeys, HotkeyRegister DEF HotkeyInv
<1>5. PICK r \in [list : KeyMaps, todo : SUBSET UserKeys] : r.list = i.list /\ inits' = (inits \ {i}) \cup {r}
    <2>1. /\ [i EXCEPT !.todo = @ \ {k}] \in [list : KeyMaps, todo : SUBSET UserKeys]
          /\ [i EXCEPT !.todo = @ \ {k}].list = i.list
        BY <1>2
    <2> QED BY <1>1, <2>1
<1>6. HotkeyTypeOK'
    BY <1>1, <1>4, <1>5 DEF HotkeyInv, HotkeyTypeOK
<1>7. RegisteredIsDrafted'
    BY <1>1, <1>3, <1>4, <1>5, HotkeyKeys DEF HotkeyInv, RegisteredIsDrafted
<1>8. CurrentIsKnown'
    <2>1. inits' # {}
        BY <1>5
    <2> QED BY <1>1, <2>1 DEF HotkeyInv, CurrentIsKnown
<1>9. NewestFollowsFocus'
    <2>1. registered'["cmd_q"] = registered["cmd_q"]
        BY <1>3, <1>4, HotkeyKeys
    <2> QED BY <1>1, <2>1 DEF HotkeyInv, NewestFollowsFocus
<1> QED BY <1>6, <1>7, <1>8, <1>9 DEF HotkeyInv

LEMMA HotkeyInitStores ==
    ASSUME HotkeyInv, Shortcuts!InitStores PROVE HotkeyInv'
<1>1. PICK i \in inits :
        /\ current' = i.list /\ inits' = inits \ {i}
        /\ UNCHANGED <<saved, draft, global, registered, update, focused, tasks, newestTask, ran, astray, events>>
    BY DEF Shortcuts!InitStores
<1>2. i \in [list : KeyMaps, todo : SUBSET UserKeys]
    BY <1>1 DEF HotkeyInv, HotkeyTypeOK
<1>3. HotkeyTypeOK'
    BY <1>1, <1>2 DEF HotkeyInv, HotkeyTypeOK
<1>4. RegisteredIsDrafted' /\ CurrentIsKnown'
    BY <1>1 DEF HotkeyInv, RegisteredIsDrafted, CurrentIsKnown
<1>5. NewestFollowsFocus'
    BY <1>1 DEF HotkeyInv, NewestFollowsFocus
<1> QED BY <1>3, <1>4, <1>5 DEF HotkeyInv

LEMMA HotkeyPress ==
    ASSUME HotkeyInv, NEW k, Shortcuts!Press(k) \/ Shortcuts!Release(k) PROVE HotkeyInv'
<1>1. UNCHANGED <<saved, draft, global, current, registered, update, inits, focused, tasks, newestTask, astray>>
    BY DEF Shortcuts!Press, Shortcuts!Release
<1> QED BY <1>1 DEF HotkeyInv, HotkeyTypeOK, RegisteredIsDrafted, CurrentIsKnown, NewestFollowsFocus

\* Every step of an update, of the focus, of init and of a key keeps HotkeyInv.
LEMMA HotkeyStep == HotkeyInv /\ [Shortcuts!Next]_(Shortcuts!hotkey) => HotkeyInv'
<1> SUFFICES ASSUME HotkeyInv, [Shortcuts!Next]_(Shortcuts!hotkey) PROVE HotkeyInv'
    OBVIOUS
<1>1. CASE UNCHANGED Shortcuts!hotkey
    BY <1>1 DEF Shortcuts!hotkey, HotkeyInv, HotkeyTypeOK, RegisteredIsDrafted, CurrentIsKnown, NewestFollowsFocus
<1> QED BY <1>1, HotkeyUpdate, HotkeyRegisterAdded, HotkeyStoreCurrent, HotkeyFocus, HotkeyRunTask,
           HotkeyInitRegisters, HotkeyInitStores, HotkeyPress DEF Shortcuts!Next

\* Both of the hotkeys' properties follow from HotkeyInv.
LEMMA HotkeyShows ==
    ASSUME HotkeyInv PROVE Shortcuts!KeysDoWhatIsSet /\ Shortcuts!SystemKeyFollowsFocus
<1>1. Shortcuts!KeysDoWhatIsSet
    BY HotkeyKeys DEF HotkeyInv, RegisteredIsDrafted, CurrentIsKnown, Shortcuts!KeysDoWhatIsSet
<1>2. Shortcuts!SystemKeyFollowsFocus
    BY HotkeyKeys DEF HotkeyInv, NewestFollowsFocus, Shortcuts!SystemKeyFollowsFocus
<1> QED BY <1>1, <1>2

-----------------------------------------------------------------------------
(***************************************************************************)
(* The updater.                                                             *)
(*                                                                          *)
(* From the question to the installation the application carries the        *)
(* release the user agreed to, and every later comparison is with that one. *)
(***************************************************************************)

Builds == [number : Nat, pre : BOOLEAN]

\* What the user agreed to is newer than what runs.
Agreed(r) == r = offered /\ r.number > running.number

UpdaterInv ==
    /\ installed \in Builds /\ running \in Builds /\ server \in Builds /\ bin \in Builds /\ meta \in Builds
    /\ offered \in Builds /\ bytes \in Builds /\ late \in Builds
    /\ at \in {"start", "ask", "read", "check", "install", "relaunch"} => late = Update!None
    /\ late # Update!None => Agreed(late)
    /\ at = "ask" => meta.number > running.number
    /\ at \in {"read", "check"} => Agreed(meta)
    /\ at = "install" => Agreed(bytes)

\* No release at all is written as one with number 0.
LEMMA NoRelease == Update!None \in Builds
BY DEF Update!None, Builds

\* The first release runs and nothing is offered.
LEMMA UpdaterInitially == Update!Init => UpdaterInv
<1> SUFFICES ASSUME Update!Init PROVE UpdaterInv
    OBVIOUS
<1>1. server \in Builds /\ First \in Builds
    BY ReleasesAreNumbered DEF Update!Init, Builds
<1> QED BY <1>1, NoRelease DEF Update!Init, UpdaterInv

\* Every step of the updater, the server, and a kill keep UpdaterInv.
LEMMA UpdaterStep == UpdaterInv /\ [Update!Next]_(Update!updater) => UpdaterInv'
<1> SUFFICES ASSUME UpdaterInv, [Update!Next]_(Update!updater) PROVE UpdaterInv'
    OBVIOUS
<1>0. CASE UNCHANGED Update!updater
    BY <1>0 DEF Update!updater, UpdaterInv, Agreed
<1>1. CASE Update!ReadCacheMeta
    <2>1. bin' \in Builds /\ meta' \in Builds
        BY <1>1, NoRelease DEF Update!ReadCacheMeta, Update!DeleteCache, UpdaterInv
    <2>2. at = "start" /\ UNCHANGED <<installed, running, server, ready, offered, bytes, late, kills>>
        BY <1>1 DEF Update!ReadCacheMeta
    <2>3. at' = "up" \/ (at' = "ask" /\ meta' = meta /\ meta.number > running.number)
        <3>1. meta.number \in Nat /\ running.number \in Nat
            BY DEF UpdaterInv, Builds
        <3> QED BY <1>1, <3>1 DEF Update!ReadCacheMeta, Update!Goto, Update!VersionLte
    <2> QED BY <2>1, <2>2, <2>3 DEF UpdaterInv, Agreed
<1>2. CASE Update!AskUserToInstall
    BY <1>2 DEF Update!AskUserToInstall, Update!Goto, UpdaterInv, Agreed
<1>3. CASE Update!ReadCacheBytes
    <2>1. bin' \in Builds /\ meta' \in Builds /\ bytes' \in Builds
        BY <1>3, NoRelease DEF Update!ReadCacheBytes, Update!DeleteCache, UpdaterInv
    <2>2. at = "read" /\ UNCHANGED <<installed, running, server, ready, offered, late, kills>>
        BY <1>3 DEF Update!ReadCacheBytes
    <2>3. at' = "up" \/ (at' = "check" /\ meta' = meta)
        BY <1>3 DEF Update!ReadCacheBytes, Update!Goto
    <2> QED BY <2>1, <2>2, <2>3 DEF UpdaterInv, Agreed
<1>4. CASE Update!CheckAtStartup
    <2>1. bin' \in Builds /\ meta' \in Builds /\ bytes' \in Builds
        BY <1>4, NoRelease DEF Update!CheckAtStartup, Update!DeleteCache, UpdaterInv
    <2>2. at = "check" /\ UNCHANGED <<installed, running, server, ready, offered, late, kills>>
        BY <1>4 DEF Update!CheckAtStartup
    <2>3. at' = "up" \/ (at' = "install" /\ bytes' = bytes /\ bytes = meta)
        BY <1>4 DEF Update!CheckAtStartup, Update!Goto, Update!VerifyCachedUpdate
    <2> QED BY <2>1, <2>2, <2>3 DEF UpdaterInv, Agreed
<1>5. CASE Update!Install
    <2>1. bin' \in Builds /\ meta' \in Builds /\ bytes' \in Builds /\ installed' \in Builds /\ late' \in Builds
        BY <1>5, NoRelease DEF Update!Install, Update!DeleteCache, UpdaterInv
    <2>2. at = "install" /\ UNCHANGED <<running, server, ready, offered, kills>>
        BY <1>5 DEF Update!Install
    <2>3. at' \in {"up", "relaunch"} /\ (late' = late \/ (at' = "up" /\ late' = bytes))
        BY <1>5 DEF Update!Install, Update!Goto
    <2>4. late = Update!None /\ Agreed(bytes)
        BY <2>2 DEF UpdaterInv
    <2> QED BY <2>1, <2>2, <2>3, <2>4 DEF UpdaterInv, Agreed
<1>6. CASE Update!LateInstall
    BY <1>6, NoRelease DEF Update!LateInstall, UpdaterInv, Agreed
<1>7. CASE Update!Relaunch
    BY <1>7, NoRelease DEF Update!Relaunch, Update!Goto, UpdaterInv, Agreed
<1>8. CASE Update!CheckAndDownload
    BY <1>8 DEF Update!CheckAndDownload, Update!Goto, UpdaterInv, Agreed
<1>9. CASE Update!WriteBin
    BY <1>9 DEF Update!WriteBin, Update!Goto, UpdaterInv, Agreed
<1>10. CASE Update!WriteMeta
    BY <1>10 DEF Update!WriteMeta, Update!Goto, UpdaterInv, Agreed
<1>11. CASE Update!UpdateReady
    BY <1>11, NoRelease DEF Update!UpdateReady, Update!Goto, UpdaterInv, Agreed
<1>12. CASE Update!Restart
    BY <1>12, NoRelease DEF Update!Restart, Update!Goto, UpdaterInv, Agreed
<1>13. CASE Update!Publish
    BY <1>13, ReleasesAreNumbered DEF Update!Publish, UpdaterInv, Agreed, Builds
<1> QED BY <1>0, <1>1, <1>2, <1>3, <1>4, <1>5, <1>6, <1>7, <1>8, <1>9, <1>10, <1>11, <1>12, <1>13 DEF Update!Next

\* A step that changes the release on disk installs the one that was offered.
LEMMA UpdaterInstalls ==
    ASSUME UpdaterInv, [Update!Next]_(Update!updater) PROVE Update!InstallsOffered
<1>1. CASE UNCHANGED Update!updater
    BY <1>1 DEF Update!updater, Update!InstallsOffered
<1>2. CASE Update!Install
    BY <1>2 DEF Update!Install, Update!InstallsOffered, UpdaterInv, Agreed
<1>3. CASE Update!LateInstall
    BY <1>3 DEF Update!LateInstall, Update!InstallsOffered, UpdaterInv, Agreed
<1>4. CASE Update!Next /\ ~Update!Install /\ ~Update!LateInstall
    <2>1. UNCHANGED installed
        BY <1>4 DEF Update!Next, Update!ReadCacheMeta, Update!AskUserToInstall, Update!ReadCacheBytes,
           Update!CheckAtStartup, Update!Relaunch, Update!CheckAndDownload, Update!WriteBin, Update!WriteMeta,
           Update!UpdateReady, Update!Restart, Update!Publish
    <2> QED BY <2>1 DEF Update!InstallsOffered
<1> QED BY <1>1, <1>2, <1>3, <1>4

-----------------------------------------------------------------------------
(***************************************************************************)
(* The local backups.                                                       *)
(*                                                                          *)
(* An automatic job at work holds exec_lock, and looked at the clock after  *)
(* it had it; a restore that nobody disturbs writes the files, then the     *)
(* stores, then the account, each from the archive.                         *)
(***************************************************************************)

\* An automatic job at work holds exec_lock.
JobsAtWork == {"zip", "index", "move", "cleanup"}
ExecLockIsHeld == \A j \in Local!Auto : at[j] \in JobsAtWork => execLock = j

\* A job that was let in is far enough from the last backup.
LetInIsSpaced == \A j \in Local!Auto : at[j] = "zip" /\ last # 0 => now - last >= MinInterval

AccountIsKept == memory.account # 0 /\ (restore.at # "idle" => restore.account # 0)

\* The files, then the stores, are as the archive has them, unless the user edits them.
FilesAreRestored ==
    restore.at \in {"verge", "stores", "apply", "done"} /\ ~disturbed =>
        disk.index = restore.archive.index /\ disk.clash = restore.archive.clash
AccountIsRestored ==
    restore.at \in {"stores", "apply", "done"} /\ ~disturbed => disk.account = restore.account
StoresAreRestored ==
    restore.at \in {"apply", "done"} /\ ~disturbed => memory.index = disk.index /\ memory.clash = disk.clash
AccountIsBack == restore.at = "done" /\ ~disturbed => memory.account = restore.account

\* The records have their fields.
Shaped ==
    /\ memory = [index |-> memory.index, clash |-> memory.clash, account |-> memory.account]
    /\ disk = [profiles |-> disk.profiles, index |-> disk.index, clash |-> disk.clash, account |-> disk.account]
    /\ restore = [at |-> restore.at, archive |-> restore.archive, account |-> restore.account]
    /\ restore.at \in {"idle", "extract", "verge", "stores", "apply", "done"}

SpacingInv ==
    /\ now \in Nat /\ last \in Nat /\ DOMAIN at = Local!Jobs
    /\ ExecLockIsHeld /\ LetInIsSpaced

RestoreInv ==
    /\ Shaped /\ disturbed \in BOOLEAN
    /\ AccountIsKept /\ FilesAreRestored /\ AccountIsRestored /\ StoresAreRestored /\ AccountIsBack

BackupInv == SpacingInv /\ RestoreInv

\* No job has begun, and stores and files agree.
LEMMA BackupInitially == Local!Init => BackupInv
<1> SUFFICES ASSUME Local!Init PROVE BackupInv
    OBVIOUS
<1>1. SpacingInv
    BY DEF Local!Init, SpacingInv, ExecLockIsHeld, LetInIsSpaced, Local!Auto, Local!Jobs, JobsAtWork
<1>2. /\ memory = [index |-> 1, clash |-> 1, account |-> 1]
      /\ disk = [profiles |-> 1, index |-> 1, clash |-> 1, account |-> 1]
      /\ restore = [at |-> "idle", archive |-> Local!NoArchive, account |-> 0]
      /\ disturbed = FALSE
    BY DEF Local!Init
<1>3. restore.at = "idle" /\ memory.account = 1 /\ disturbed \in BOOLEAN
    BY <1>2
<1>4. Shaped
    BY <1>2 DEF Shaped
<1>5. AccountIsKept /\ FilesAreRestored /\ AccountIsRestored /\ StoresAreRestored /\ AccountIsBack
    BY <1>3 DEF AccountIsKept, FilesAreRestored, AccountIsRestored, StoresAreRestored, AccountIsBack
<1>6. RestoreInv
    BY <1>3, <1>4, <1>5 DEF RestoreInv
<1> QED BY <1>1, <1>6 DEF BackupInv

\* Time that passes only lengthens the distance.
LEMMA SpacingKept ==
    ASSUME SpacingInv, UNCHANGED <<last, at, execLock>>, now' \in Nat, now' >= now PROVE SpacingInv'
<1>1. LetInIsSpaced'
    <2> SUFFICES ASSUME NEW j \in Local!Auto, at[j] = "zip", last # 0 PROVE now' - last >= MinInterval
        BY DEF LetInIsSpaced
    <2>1. now - last >= MinInterval /\ now \in Nat /\ last \in Nat
        BY DEF SpacingInv, LetInIsSpaced
    <2>2. \A m, n, l, k \in Nat : m >= n /\ n - l >= k => m - l >= k
        OBVIOUS
    <2> QED BY <2>1, <2>2, IntervalIsANumber, Zenon
<1> QED BY <1>1 DEF SpacingInv, ExecLockIsHeld

\* A job moves: into the lock, or where it stands, or out of it.
LEMMA SpacingMoves ==
    ASSUME SpacingInv, NEW j \in Local!Jobs, NEW l, at' = [at EXCEPT ![j] = l], UNCHANGED <<now, last>>,
           j \in Local!Auto => (l \in JobsAtWork => execLock' = j /\ (at[j] \in JobsAtWork \/ execLock = "free")),
           j \in Local!Auto => (l = "zip" => Local!ShouldRunNow),
           \/ execLock' = execLock
           \/ execLock = "free" /\ execLock' = j
           \/ execLock' = "free" /\ execLock = j /\ l \notin JobsAtWork
    PROVE  SpacingInv'
<1>1. DOMAIN at = Local!Jobs /\ DOMAIN at' = Local!Jobs /\ at'[j] = l /\ \A i \in Local!Jobs : i # j => at'[i] = at[i]
    BY DEF SpacingInv
<1>2. Local!Auto \subseteq Local!Jobs /\ "free" \notin Local!Auto
    BY DEF Local!Auto, Local!Jobs
<1>3. ExecLockIsHeld'
    <2> SUFFICES ASSUME NEW i \in Local!Auto, at'[i] \in JobsAtWork PROVE execLock' = i
        BY DEF ExecLockIsHeld
    <2>1. CASE i = j
        BY <1>1, <2>1
    <2>2. CASE i # j
        BY <1>1, <1>2, <2>2 DEF SpacingInv, ExecLockIsHeld
    <2> QED BY <2>1, <2>2
<1>4. LetInIsSpaced'
    BY <1>1, <1>2 DEF SpacingInv, LetInIsSpaced, Local!ShouldRunNow
<1> QED BY <1>1, <1>3, <1>4 DEF SpacingInv

\* Every step keeps SpacingInv.
LEMMA BackupSpacing ==
    ASSUME BackupInv, Local!Next PROVE SpacingInv'
<1>1. SpacingInv /\ now \in Nat
    BY DEF BackupInv, SpacingInv
<1>2. Local!Auto \subseteq Local!Jobs /\ {"scheduled", "merge"} = Local!Auto /\ "user" \in Local!Jobs
      /\ "user" \notin Local!Auto
    BY DEF Local!Auto, Local!Jobs
<1> USE DEF JobsAtWork
<1>3. CASE Local!Tick
    <2>1. now' = now + 1 /\ UNCHANGED <<last, at, execLock>>
        BY <1>3 DEF Local!Tick
    <2> QED BY <1>1, <2>1, SpacingKept
<1>4. CASE UNCHANGED <<now, last, at, execLock>>
    BY <1>1, <1>4, SpacingKept
<1>5. CASE Local!RunScheduler
    <2>1. UNCHANGED <<now, last, execLock>> /\ at["scheduled"] = "idle"
          /\ (UNCHANGED at \/ at' = [at EXCEPT !["scheduled"] = "triggered"])
        BY <1>5 DEF Local!RunScheduler
    <2> QED BY <1>1, <1>2, <1>4, <2>1, SpacingMoves
<1>6. CASE Local!TriggerBackup
    BY <1>1, <1>2, <1>6, SpacingMoves DEF Local!TriggerBackup
<1>7. ASSUME NEW j \in Local!Auto, Local!ExecuteTrigger(j) PROVE SpacingInv'
    <2>1. PICK l \in {"queued", "idle"} : at' = [at EXCEPT ![j] = l]
        BY <1>7 DEF Local!ExecuteTrigger, Local!Move
    <2> QED BY <1>1, <1>2, <1>7, <2>1, SpacingMoves DEF Local!ExecuteTrigger
<1>8. ASSUME NEW j \in Local!Auto, Local!LockExec(j) PROVE SpacingInv'
    <2>1. CASE Local!ShouldRunNow
        BY <1>1, <1>2, <1>8, <2>1, SpacingMoves DEF Local!LockExec, Local!Move
    <2>2. CASE ~Local!ShouldRunNow
        BY <1>1, <1>2, <1>8, <2>2, SpacingMoves DEF Local!LockExec, Local!Move
    <2> QED BY <2>1, <2>2
<1>9. ASSUME NEW j \in Local!Auto, Local!CleanupAutoBackups(j) PROVE SpacingInv'
    <2>1. at[j] = "cleanup" /\ at' = [at EXCEPT ![j] = "idle"] /\ execLock' = "free" /\ UNCHANGED <<now, last>>
        BY <1>9 DEF Local!CleanupAutoBackups, Local!Move
    <2>2. execLock = j
        BY <1>1, <2>1 DEF SpacingInv, ExecLockIsHeld
    <2> QED BY <1>1, <1>2, <2>1, <2>2, SpacingMoves
<1>10. CASE Local!CreateLocalBackup
    BY <1>1, <1>2, <1>10, SpacingMoves DEF Local!CreateLocalBackup, Local!Move
<1>11. ASSUME NEW j \in Local!Jobs, Local!ZipProfiles(j) \/ Local!CreateBackup(j) PROVE SpacingInv'
    <2>1. PICK l \in {"index", "move"} : at' = [at EXCEPT ![j] = l]
        BY <1>11 DEF Local!ZipProfiles, Local!CreateBackup, Local!Move
    <2>2. at[j] \in {"zip", "index"} /\ UNCHANGED <<now, last, execLock>>
        BY <1>11 DEF Local!ZipProfiles, Local!CreateBackup
    <2>3. j \in Local!Auto => execLock = j
        BY <1>1, <2>2 DEF SpacingInv, ExecLockIsHeld
    <2> QED BY <1>1, <2>1, <2>2, <2>3, SpacingMoves
<1>12. ASSUME NEW j \in Local!Jobs, Local!MoveFile(j) PROVE SpacingInv'
    <2>1. at[j] = "move" /\ UNCHANGED now
        BY <1>12 DEF Local!MoveFile
    <2>2. j \in Local!Auto => execLock = j
        BY <1>1, <2>1 DEF SpacingInv, ExecLockIsHeld
    <2>3. CASE j \in Local!Auto /\ last' = now /\ Local!Move(j, "cleanup") /\ UNCHANGED execLock
        <3>1. at' = [at EXCEPT ![j] = "cleanup"] /\ DOMAIN at = Local!Jobs /\ "free" \notin Local!Auto
            BY <1>1, <2>3 DEF Local!Move, SpacingInv, Local!Auto
        <3>2. \A i \in Local!Auto : at'[i] \in JobsAtWork => i = j
            BY <1>1, <1>2, <2>2, <2>3, <3>1 DEF SpacingInv, ExecLockIsHeld
        <3>3. at'[j] = "cleanup" /\ DOMAIN at' = Local!Jobs
            BY <3>1
        <3>4. ExecLockIsHeld' /\ LetInIsSpaced'
            BY <2>2, <2>3, <3>2, <3>3 DEF ExecLockIsHeld, LetInIsSpaced
        <3> QED BY <1>1, <2>1, <2>3, <3>3, <3>4 DEF SpacingInv
    <2>4. CASE j \notin Local!Auto /\ Local!Move(j, "idle") /\ UNCHANGED <<last, execLock>>
        BY <1>1, <2>1, <2>4, SpacingMoves DEF Local!Move
    <2>5. CASE Local!Move(j, "idle") /\ execLock' = Local!Unlocked(j) /\ UNCHANGED last
        BY <1>1, <2>1, <2>5, SpacingMoves DEF Local!Move, Local!Unlocked
    <2> QED BY <1>12, <2>3, <2>4, <2>5 DEF Local!MoveFile
<1>13. CASE \/ (\E s \in [schedule: BOOLEAN, change: BOOLEAN] : Local!RefreshSettings(s))
            \/ Local!DeleteLocalBackup \/ Local!ImportLocalBackup \/ Local!RestoreLocalBackup \/ Local!Extract
            \/ Local!FinalizeVerge \/ Local!ReloadStores \/ Local!ApplyVerge \/ Local!UserEdits
    <2>1. UNCHANGED <<now, last, at, execLock>>
        BY <1>13 DEF Local!RefreshSettings, Local!DeleteLocalBackup, Local!ImportLocalBackup, Local!RestoreLocalBackup,
           Local!Extract, Local!FinalizeVerge, Local!ReloadStores, Local!ApplyVerge, Local!UserEdits, Local!others
    <2> QED BY <1>4, <2>1
<1> QED BY <1>3, <1>5, <1>6, <1>7, <1>8, <1>9, <1>10, <1>11, <1>12, <1>13 DEF Local!Next

\* Every step keeps RestoreInv.
LEMMA BackupRestore ==
    ASSUME BackupInv, Local!Next PROVE RestoreInv'
<1> USE DEF BackupInv, RestoreInv
<1>1. CASE UNCHANGED <<memory, disk, restore, disturbed>>
    BY <1>1 DEF Shaped, AccountIsKept, FilesAreRestored, AccountIsRestored, StoresAreRestored, AccountIsBack
<1> USE DEF AccountIsKept, FilesAreRestored, AccountIsRestored, StoresAreRestored, AccountIsBack
<1>2. CASE Local!RestoreLocalBackup
    <2>1. PICK a \in archives : restore' = [at |-> "extract", archive |-> a, account |-> memory.account]
        BY <1>2 DEF Local!RestoreLocalBackup
    <2>2. disturbed' = FALSE /\ UNCHANGED <<memory, disk>>
        BY <1>2 DEF Local!RestoreLocalBackup
    <2>3. Shaped'
        BY <2>1, <2>2 DEF Shaped
    <2>4. restore'.at = "extract" /\ restore'.account = memory.account
        BY <2>1
    <2> QED BY <2>2, <2>3, <2>4
<1>3. CASE Local!Extract
    <2>1. restore.at = "extract" /\ UNCHANGED <<memory, disturbed>>
        BY <1>3 DEF Local!Extract
    <2>2. CASE /\ disk' = [profiles |-> restore.archive.profiles, index |-> restore.archive.index,
                           clash |-> restore.archive.clash, account |-> 0]
               /\ restore' = [restore EXCEPT !.at = "verge"]
        <3>1. Shaped' /\ restore'.at = "verge" /\ restore'.archive = restore.archive
              /\ restore'.account = restore.account
            BY <2>1, <2>2 DEF Shaped
        <3>2. disk'.index = restore.archive.index /\ disk'.clash = restore.archive.clash
            BY <2>2
        <3> QED BY <2>1, <3>1, <3>2
    <2>3. CASE /\ disk' \in {disk, [disk EXCEPT !.profiles = restore.archive.profiles]}
               /\ restore' = [restore EXCEPT !.at = "idle"]
        <3>1. restore'.at = "idle" /\ restore' = [at |-> "idle", archive |-> restore'.archive,
              account |-> restore'.account]
            BY <2>3 DEF Shaped
        <3>2. disk' = [profiles |-> disk'.profiles, index |-> disk'.index, clash |-> disk'.clash,
              account |-> disk'.account]
            <4>1. CASE disk' = disk
                BY <4>1 DEF Shaped
            <4>2. CASE disk' = [disk EXCEPT !.profiles = restore.archive.profiles]
                BY <4>2 DEF Shaped
            <4> QED BY <2>3, <4>1, <4>2
        <3>3. Shaped'
            BY <2>1, <3>1, <3>2 DEF Shaped
        <3> QED BY <2>1, <3>1, <3>3
    <2> QED BY <1>3, <2>2, <2>3 DEF Local!Extract
<1>4. CASE Local!FinalizeVerge
    <2>1. restore.at = "verge" /\ UNCHANGED <<memory, disturbed>>
        BY <1>4 DEF Local!FinalizeVerge
    <2>2. CASE disk' = [disk EXCEPT !.account = restore.account] /\ restore' = [restore EXCEPT !.at = "stores"]
        <3>1. Shaped' /\ restore'.at = "stores" /\ restore'.archive = restore.archive
              /\ restore'.account = restore.account
            BY <2>1, <2>2 DEF Shaped
        <3>2. disk'.index = disk.index /\ disk'.clash = disk.clash /\ disk'.account = restore.account
            BY <2>2 DEF Shaped
        <3> QED BY <2>1, <3>1, <3>2
    <2>3. CASE restore' = [restore EXCEPT !.at = "idle"] /\ UNCHANGED disk
        <3>1. Shaped' /\ restore'.at = "idle"
            BY <2>1, <2>3 DEF Shaped
        <3> QED BY <2>1, <3>1
    <2> QED BY <1>4, <2>2, <2>3 DEF Local!FinalizeVerge
<1>5. CASE Local!ReloadStores
    <2>1. /\ restore.at = "stores" /\ UNCHANGED <<disk, disturbed>>
          /\ memory' = [memory EXCEPT !.index = disk.index, !.clash = disk.clash]
          /\ restore' = [restore EXCEPT !.at = "apply"]
        BY <1>5 DEF Local!ReloadStores
    <2>2. Shaped' /\ restore'.at = "apply" /\ restore'.archive = restore.archive /\ restore'.account = restore.account
        BY <2>1 DEF Shaped
    <2>3. memory'.index = disk.index /\ memory'.clash = disk.clash /\ memory'.account = memory.account
        BY <2>1 DEF Shaped
    <2> QED BY <2>1, <2>2, <2>3
<1>6. CASE Local!ApplyVerge
    <2>1. /\ restore.at = "apply" /\ UNCHANGED <<disk, disturbed>>
          /\ memory' = [memory EXCEPT !.account = restore.account]
          /\ restore' = [restore EXCEPT !.at = "done"]
        BY <1>6 DEF Local!ApplyVerge
    <2>2. Shaped' /\ restore'.at = "done" /\ restore'.archive = restore.archive /\ restore'.account = restore.account
        BY <2>1 DEF Shaped
    <2>3. memory'.index = memory.index /\ memory'.clash = memory.clash /\ memory'.account = restore.account
        BY <2>1 DEF Shaped
    <2> QED BY <2>1, <2>2, <2>3
<1>7. CASE Local!UserEdits
    <2>1. disturbed' = TRUE /\ UNCHANGED restore
        BY <1>7 DEF Local!UserEdits
    <2>2. CASE /\ memory' = [memory EXCEPT !.index = 2]
               /\ disk' = [disk EXCEPT !.index = 2, !.profiles = 2]
        <3>1. Shaped' /\ memory'.account = memory.account
            BY <2>1, <2>2 DEF Shaped
        <3> QED BY <2>1, <3>1
    <2>3. CASE /\ memory' = [memory EXCEPT !.account = 2]
               /\ disk' = [disk EXCEPT !.account = 2]
        <3>1. Shaped' /\ memory'.account = 2
            BY <2>1, <2>3 DEF Shaped
        <3> QED BY <2>1, <3>1
    <2> QED BY <1>7, <2>2, <2>3 DEF Local!UserEdits
<1>8. CASE \/ Local!Tick \/ Local!RunScheduler \/ Local!TriggerBackup \/ Local!CreateLocalBackup
           \/ Local!DeleteLocalBackup \/ Local!ImportLocalBackup
           \/ \E s \in [schedule: BOOLEAN, change: BOOLEAN] : Local!RefreshSettings(s)
           \/ \E j \in Local!Auto : Local!ExecuteTrigger(j) \/ Local!LockExec(j) \/ Local!CleanupAutoBackups(j)
           \/ \E j \in Local!Jobs : Local!ZipProfiles(j) \/ Local!CreateBackup(j) \/ Local!MoveFile(j)
    <2> HIDE DEF BackupInv, RestoreInv
    <2>1. UNCHANGED <<memory, disk, restore, disturbed>>
        BY <1>8 DEF Local!Tick, Local!RunScheduler, Local!TriggerBackup, Local!CreateLocalBackup,
           Local!DeleteLocalBackup,
           Local!ImportLocalBackup, Local!RefreshSettings, Local!ExecuteTrigger, Local!LockExec,
           Local!CleanupAutoBackups,
           Local!ZipProfiles, Local!CreateBackup, Local!MoveFile
    <2> QED BY <1>1, <2>1
<1> HIDE DEF BackupInv, RestoreInv
<1> QED BY <1>2, <1>3, <1>4, <1>5, <1>6, <1>7, <1>8 DEF Local!Next

\* Every step of the jobs, the restore and the user keeps BackupInv.
LEMMA BackupStep == BackupInv /\ [Local!Next]_(Local!backup) => BackupInv'
<1> SUFFICES ASSUME BackupInv, [Local!Next]_(Local!backup) PROVE BackupInv'
    OBVIOUS
<1>1. CASE UNCHANGED Local!backup
    BY <1>1 DEF Local!backup, BackupInv, SpacingInv, ExecLockIsHeld, LetInIsSpaced, RestoreInv, Shaped, AccountIsKept,
       FilesAreRestored, AccountIsRestored, StoresAreRestored, AccountIsBack
<1>2. CASE Local!Next
    BY <1>2, BackupSpacing, BackupRestore DEF BackupInv
<1> QED BY <1>1, <1>2

\* The distance of the backups, and the effect of a restore, follow from BackupInv.
LEMMA BackupShows ==
    ASSUME BackupInv PROVE Local!RestoredIsLive /\ Local!SpacesBackups
<1>1. Local!RestoredIsLive
    BY DEF BackupInv, RestoreInv, Shaped, AccountIsKept, FilesAreRestored, AccountIsRestored, StoresAreRestored,
       AccountIsBack, Local!RestoredIsLive
<1>2. Local!SpacesBackups
    BY DEF BackupInv, SpacingInv, LetInIsSpaced, Local!SpacesBackups
<1> QED BY <1>1, <1>2

-----------------------------------------------------------------------------
(***************************************************************************)
(* The WebDAV client.                                                       *)
(*                                                                          *)
(* Outside a save, the account in use, the cached clients and those being   *)
(* built are of the settings' account, or of one that a change without a    *)
(* reset, or a reset during the building, has let live on.                  *)
(***************************************************************************)

WebDavTypeOK ==
    /\ at \in [Callers -> {"idle", "begun", "failed", "building", "request", "done"}]
    /\ op \in [Callers -> Remote!Operations] /\ used \in [Callers -> Nat] /\ asked \in [Callers -> Nat]
    /\ account \in Nat /\ clients \in [Remote!Operations -> Nat] /\ config \in Nat /\ saving \in BOOLEAN

Known(a) == a \in {0, account} \cup lingering

AccountsAreKnown ==
    ~saving => /\ Known(config)
               /\ \A o \in Remote!Operations : Known(clients[o])
               /\ \A c \in Callers : at[c] = "building" => Known(used[c])

WebDavInv == WebDavTypeOK /\ AccountsAreKnown

\* Nothing is cached.
LEMMA WebDavInitially == Remote!Init => WebDavInv
<1> SUFFICES ASSUME Remote!Init PROVE WebDavInv
    OBVIOUS
<1>1. /\ at = [c \in Callers |-> "idle"] /\ op = [c \in Callers |-> "list"] /\ used = [c \in Callers |-> 0]
      /\ asked = [c \in Callers |-> 0] /\ account = 0 /\ config = 0 /\ saving = FALSE
      /\ clients = [o \in Remote!Operations |-> 0]
    BY DEF Remote!Init, Remote!NoAccount
<1>2. "list" \in Remote!Operations
    BY DEF Remote!Operations
<1> QED BY <1>1, <1>2 DEF WebDavInv, WebDavTypeOK, AccountsAreKnown, Known

(* After a reset, and after a change of the settings without one, every       *)
(* account that is left is known.                                            *)
LEMMA WebDavSettles ==
    ASSUME WebDavInv, (Remote!Reset /\ UNCHANGED account) \/ Remote!NoReset(account'),
           \A b \in Callers : at'[b] = "building" => at[b] = "building" /\ used'[b] = used[b]
    PROVE  config' \in Nat /\ clients' \in [Remote!Operations -> Nat] /\ AccountsAreKnown'
<1>1. \A b \in Callers : at'[b] = "building" => used'[b] \in Remote!Building
    BY DEF Remote!Building
<1>2. CASE Remote!Reset /\ UNCHANGED account
    <2>1. /\ config' = 0 /\ clients' = [o \in Remote!Operations |-> 0] /\ lingering' = Remote!Building \ {account}
          /\ account' = account
        BY <1>2 DEF Remote!Reset, Remote!NoAccount
    <2> QED BY <1>1, <2>1 DEF AccountsAreKnown, Known
<1>3. CASE Remote!NoReset(account')
    <2>1. /\ lingering' = (lingering \cup {config} \cup {clients[o] : o \in Remote!Operations} \cup Remote!Building)
                              \ {0, account'}
          /\ config' = config /\ clients' = clients
        BY <1>3 DEF Remote!NoReset, Remote!NoAccount
    <2>2. \A o \in Remote!Operations : clients[o] \in {clients[p] : p \in Remote!Operations}
        OBVIOUS
    <2> QED BY <1>1, <2>1, <2>2 DEF WebDavInv, WebDavTypeOK, AccountsAreKnown, Known
<1> QED BY <1>2, <1>3

\* One lemma for each action: it keeps WebDavInv.
LEMMA WebDavSave ==
    ASSUME WebDavInv, Remote!SaveWebdavConfig PROVE WebDavInv'
<1>1. saving' = TRUE /\ account' = account + 1 /\ UNCHANGED <<config, clients, at, op, used, asked>>
    BY DEF Remote!SaveWebdavConfig
<1> QED BY <1>1 DEF WebDavInv, WebDavTypeOK, AccountsAreKnown

LEMMA WebDavFinishSave ==
    ASSUME WebDavInv, Remote!FinishSave PROVE WebDavInv'
<1>1. /\ saving' = FALSE /\ UNCHANGED <<account, at, op, used, asked>>
      /\ (Remote!Reset /\ UNCHANGED account) \/ Remote!NoReset(account')
    BY DEF Remote!FinishSave
<1>2. config' \in Nat /\ clients' \in [Remote!Operations -> Nat] /\ AccountsAreKnown'
    BY <1>1, WebDavSettles
<1> QED BY <1>1, <1>2 DEF WebDavInv, WebDavTypeOK

\* A caller that moves and leaves the clients alone keeps WebDavInv.
LEMMA WebDavMoves ==
    ASSUME WebDavInv, NEW c \in Callers, NEW l \in {"idle", "begun", "failed", "request", "done"},
           Remote!Goto(c, l), op' \in [Callers -> Remote!Operations], used' \in [Callers -> Nat],
           \A b \in Callers : b # c => used'[b] = used[b], asked' \in [Callers -> Nat],
           UNCHANGED <<account, saving, config, clients, lingering>>
    PROVE  WebDavInv'
<1>1. at' = [at EXCEPT ![c] = l]
    BY DEF Remote!Goto
<1>2. /\ at' \in [Callers -> {"idle", "begun", "failed", "building", "request", "done"}]
      /\ \A b \in Callers : at'[b] = "building" => b # c /\ at[b] = "building"
    BY <1>1 DEF WebDavInv, WebDavTypeOK
<1>3. AccountsAreKnown'
    BY <1>2 DEF WebDavInv, AccountsAreKnown, Known
<1> QED BY <1>2, <1>3 DEF WebDavInv, WebDavTypeOK

LEMMA WebDavGetClient ==
    ASSUME WebDavInv, NEW c \in Callers, Remote!GetClient(c) PROVE WebDavInv'
<1>1. at[c] = "begun" /\ UNCHANGED <<account, saving, clients, op, asked, lingering>>
    BY DEF Remote!GetClient
<1>2. CASE (Remote!Goto(c, "request") \/ Remote!Goto(c, "failed")) /\ UNCHANGED <<config, used>>
    BY <1>1, <1>2, WebDavMoves DEF WebDavInv, WebDavTypeOK
<1>3. CASE /\ config' = Remote!WebDavConfig
           /\ used' = [used EXCEPT ![c] = Remote!WebDavConfig] /\ Remote!Goto(c, "building")
    <2>1. Remote!WebDavConfig \in Nat /\ (~saving => Known(Remote!WebDavConfig))
        BY DEF WebDavInv, WebDavTypeOK, AccountsAreKnown, Known, Remote!WebDavConfig, Remote!NoAccount
    <2>2. at' = [at EXCEPT ![c] = "building"]
        BY <1>3 DEF Remote!Goto
    <2>3. WebDavTypeOK'
        BY <1>1, <1>3, <2>1, <2>2 DEF WebDavInv, WebDavTypeOK
    <2>4. AccountsAreKnown'
        BY <1>1, <1>3, <2>1, <2>2 DEF WebDavInv, WebDavTypeOK, AccountsAreKnown, Known
    <2> QED BY <2>3, <2>4 DEF WebDavInv
<1> QED BY <1>2, <1>3 DEF Remote!GetClient

LEMMA WebDavMkcol ==
    ASSUME WebDavInv, NEW c \in Callers, Remote!Mkcol(c) PROVE WebDavInv'
<1>1. /\ at[c] = "building" /\ used' = [used EXCEPT ![c] = 0] /\ UNCHANGED <<account, saving, op, asked, tries>>
    BY DEF Remote!Mkcol, Remote!NoAccount
<1>2. used' \in [Callers -> Nat] /\ \A b \in Callers : b # c => used'[b] = used[b]
    BY <1>1 DEF WebDavInv, WebDavTypeOK
<1>3. CASE /\ clients' = [clients EXCEPT ![op[c]] = used[c]] /\ Remote!Goto(c, "request")
           /\ UNCHANGED <<config, lingering>>
    <2>1. at' = [at EXCEPT ![c] = "request"]
        BY <1>3 DEF Remote!Goto
    <2>2. used[c] \in Nat /\ op[c] \in Remote!Operations /\ (~saving => Known(used[c]))
        BY <1>1 DEF WebDavInv, WebDavTypeOK, AccountsAreKnown
    <2>3. WebDavTypeOK'
        BY <1>1, <1>2, <1>3, <2>1, <2>2 DEF WebDavInv, WebDavTypeOK
    <2>4. AccountsAreKnown'
        BY <1>1, <1>2, <1>3, <2>1, <2>2 DEF WebDavInv, WebDavTypeOK, AccountsAreKnown, Known
    <2> QED BY <2>3, <2>4 DEF WebDavInv
<1>4. CASE Remote!Reset /\ Remote!Goto(c, "failed")
    <2>1. at' = [at EXCEPT ![c] = "failed"]
        BY <1>4 DEF Remote!Goto
    <2>2. /\ at' \in [Callers -> {"idle", "begun", "failed", "building", "request", "done"}]
          /\ \A b \in Callers : at'[b] = "building" => at[b] = "building" /\ used'[b] = used[b]
        BY <1>2, <2>1 DEF WebDavInv, WebDavTypeOK
    <2>3. config' \in Nat /\ clients' \in [Remote!Operations -> Nat] /\ AccountsAreKnown'
        BY <1>1, <1>4, <2>2, WebDavSettles
    <2> QED BY <1>1, <1>2, <2>2, <2>3 DEF WebDavInv, WebDavTypeOK
<1>5. CASE Remote!Goto(c, "failed") /\ UNCHANGED <<config, clients, lingering>>
    BY <1>1, <1>2, <1>5, WebDavMoves DEF WebDavInv, WebDavTypeOK
<1> QED BY <1>3, <1>4, <1>5 DEF Remote!Mkcol

LEMMA WebDavOther ==
    ASSUME WebDavInv, NEW c \in Callers,
           Remote!Begin(c) \/ Remote!Upload(c) \/ Remote!Download(c) \/ Remote!List(c) \/ Remote!Delete(c)
    PROVE  WebDavInv'
<1>1. UNCHANGED <<account, saving, config, clients, used, lingering>>
    BY DEF Remote!Begin, Remote!Upload, Remote!Download, Remote!List, Remote!Delete
<1>2. \E l \in {"idle", "begun", "failed", "request", "done"} : Remote!Goto(c, l)
    BY DEF Remote!Begin, Remote!Upload, Remote!Download, Remote!List, Remote!Delete
<1>3. op' \in [Callers -> Remote!Operations] /\ asked' \in [Callers -> Nat]
    <2>1. CASE Remote!Begin(c)
        <3>1. \E o \in Remote!Operations : op' = [op EXCEPT ![c] = o]
            BY <2>1 DEF Remote!Begin, Remote!CreateBackupAndUpload, Remote!RestoreWebdavBackup, Remote!ListWebdavBackup,
               Remote!DeleteWebdavBackup, Remote!Operations
        <3>2. \E a \in {0, account} : asked' = [asked EXCEPT ![c] = a]
            BY <2>1 DEF Remote!Begin, Remote!NoAccount
        <3> QED BY <3>1, <3>2 DEF WebDavInv, WebDavTypeOK
    <2>2. CASE Remote!Upload(c) \/ Remote!Download(c) \/ Remote!List(c) \/ Remote!Delete(c)
        BY <2>2 DEF WebDavInv, WebDavTypeOK, Remote!Upload, Remote!Download, Remote!List, Remote!Delete
    <2> QED BY <2>1, <2>2
<1> QED BY <1>1, <1>2, <1>3, WebDavMoves DEF WebDavInv, WebDavTypeOK

LEMMA WebDavFinish ==
    ASSUME WebDavInv, NEW c \in Callers, Remote!Finish(c) PROVE WebDavInv'
<1>1. /\ Remote!Goto(c, "idle") /\ op' = [op EXCEPT ![c] = "list"] /\ asked' = [asked EXCEPT ![c] = 0]
      /\ UNCHANGED <<saving, used>>
    BY DEF Remote!Finish, Remote!NoAccount
<1>2. "list" \in Remote!Operations
    BY DEF Remote!Operations
<1>3. /\ op' \in [Callers -> Remote!Operations] /\ asked' \in [Callers -> Nat] /\ used' \in [Callers -> Nat]
    BY <1>1, <1>2 DEF WebDavInv, WebDavTypeOK
<1>4. CASE UNCHANGED <<account, config, clients, lingering>>
    BY <1>1, <1>3, <1>4, WebDavMoves
<1>5. CASE (Remote!Reset /\ UNCHANGED account) \/ (account' = asked[c] /\ Remote!NoReset(account'))
    <2>1. account' \in Nat
        BY <1>5 DEF WebDavInv, WebDavTypeOK
    <2>2. at' = [at EXCEPT ![c] = "idle"]
        BY <1>1 DEF Remote!Goto
    <2>3. /\ at' \in [Callers -> {"idle", "begun", "failed", "building", "request", "done"}]
          /\ \A b \in Callers : at'[b] = "building" => at[b] = "building" /\ used'[b] = used[b]
        BY <1>1, <2>2 DEF WebDavInv, WebDavTypeOK
    <2>4. config' \in Nat /\ clients' \in [Remote!Operations -> Nat] /\ AccountsAreKnown'
        BY <1>5, <2>3, WebDavSettles
    <2> QED BY <1>1, <1>3, <2>1, <2>3, <2>4 DEF WebDavInv, WebDavTypeOK
<1> QED BY <1>4, <1>5 DEF Remote!Finish, Remote!FinishUpload, Remote!FinishRestore, Remote!FinishOther

\* Every step of the callers and of the settings keeps WebDavInv.
LEMMA WebDavStep == WebDavInv /\ [Remote!Next]_(Remote!webdav) => WebDavInv'
<1> SUFFICES ASSUME WebDavInv, [Remote!Next]_(Remote!webdav) PROVE WebDavInv'
    OBVIOUS
<1>1. CASE UNCHANGED Remote!webdav
    BY <1>1 DEF Remote!webdav, WebDavInv, WebDavTypeOK, AccountsAreKnown, Known
<1> QED BY <1>1, WebDavSave, WebDavFinishSave, WebDavGetClient, WebDavMkcol, WebDavOther, WebDavFinish DEF Remote!Next

\* The promise follows from WebDavInv.
LEMMA WebDavShows == WebDavInv => Remote!ClientsAreCurrent
BY DEF WebDavInv, AccountsAreKnown, Known, Remote!ClientsAreCurrent, Remote!NoAccount

-----------------------------------------------------------------------------
(***************************************************************************)
(* What the parts promise together, for every value of the constants.      *)
(***************************************************************************)

\* Neither route session loses its lease, for any number of failed, lost, late and
\* repeated calls and of crashes: routes stand only under the broker's hold and a record
\* that resume accepts, and the v2 boundary knows the lease the helper holds for it
\* (prepare, apply, rollback, resume; clear_frozen_owner, try_retire).
THEOREM NoLeaseIsLost == Spec => []LeasesAreNeverLost
<1> DEFINE Inv == (which = "v3" => V3Inv) /\ (which = "boundary" => BoundaryInv)
<1>1. Init => Inv
    BY V3Initially, BoundaryInitially DEF Init
<1>2. Inv /\ [Next]_parts => Inv'
    <2> SUFFICES ASSUME Inv, [Next]_parts PROVE Inv'
        OBVIOUS
    <2>1. ASSUME which' = "v3" PROVE V3Inv'
        <3>1. which = "v3" /\ [SessionV3!Next]_(SessionV3!v3)
            BY <2>1 DEF Next, Unchanged, parts, v3Own, SessionV3!v3
        <3> QED BY <3>1, V3Step
    <2>2. ASSUME which' = "boundary" PROVE BoundaryInv'
        <3>1. which = "boundary" /\ [Boundary!Next]_(Boundary!vars)
            BY <2>2 DEF Next, Unchanged, parts, boundaryOwn, Boundary!vars, Boundary!boundary, Boundary!helper
        <3> QED BY <3>1, BoundaryStep
    <2> QED BY <2>1, <2>2
<1>3. Inv => LeasesAreNeverLost
    BY V3KeepsItsLease DEF BoundaryInv, LeasesAreNeverLost
<1> QED BY <1>1, <1>2, <1>3, PTL DEF Spec

\* A native reply is accepted exactly when it says the call was done for this very lease,
\* and an accepted answer of the sidecar is true of its backend, after any number of
\* requests (decode_native_reply, validate_protocol).
THEOREM AcceptedRepliesAreTrue == Spec => []RepliesAreTrue
<1> DEFINE Inv == (which = "replies" => RepliesInv) /\ (which = "ipc" => IpcInv)
<1>1. Init => Inv
    BY RepliesInitially, IpcInitially DEF Init
<1>2. Inv /\ [Next]_parts => Inv'
    <2> SUFFICES ASSUME Inv, [Next]_parts PROVE Inv'
        OBVIOUS
    <2>1. ASSUME which' = "replies" PROVE RepliesInv'
        <3>1. which = "replies" /\ [Replies!Next]_(Replies!replies)
            BY <2>1 DEF Next, Unchanged, parts, repliesOwn, Replies!replies
        <3> QED BY <3>1, RepliesStep
    <2>2. ASSUME which' = "ipc" PROVE IpcInv'
        <3>1. which = "ipc" /\ [Ipc!Next]_(Ipc!ipc)
            BY <2>2 DEF Next, Unchanged, parts, ipcOwn, Ipc!ipc
        <3> QED BY <3>1, IpcStep
    <2> QED BY <2>1, <2>2
<1>3. Inv => RepliesAreTrue
    BY IpcAnswersAreTrue DEF RepliesInv, RepliesAreTrue
<1> QED BY <1>1, <1>2, <1>3, PTL DEF Spec

\* A stop asked for is shown until the worker is gone, a session this side shut hard is never
\* shown as disconnected, and a session that is kept is connected as shown (update_operation,
\* requested_stop_exit, connect, snapshot_from_sidecar).
THEOREM LabsShowTheTruth == Spec => []LabsAreTrue
<1> DEFINE Inv == (which = "external" => ExternalInv) /\ (which = "userspace" => UserspaceInv)
<1>1. Init => Inv
    BY ExternalInitially, UserspaceInitially DEF Init
<1>2. Inv /\ [Next]_parts => Inv'
    <2> SUFFICES ASSUME Inv, [Next]_parts PROVE Inv'
        OBVIOUS
    <2>1. ASSUME which' = "external" PROVE ExternalInv'
        <3>1. which = "external" /\ [External!Next]_(External!lab)
            BY <2>1 DEF Next, Unchanged, parts, externalOwn, External!lab
        <3> QED BY <3>1, ExternalStep
    <2>2. ASSUME which' = "userspace" PROVE UserspaceInv'
        <3>1. which = "userspace" /\ [Userspace!Next]_(Userspace!lab)
            BY <2>2 DEF Next, Unchanged, parts, userspaceOwn, Userspace!lab
        <3> QED BY <3>1, UserspaceStep
    <2> QED BY <2>1, <2>2
<1>3. Inv => LabsAreTrue
    BY ExternalShowsStops DEF UserspaceInv, LabsAreTrue
<1> QED BY <1>1, <1>2, <1>3, PTL DEF Spec

\* A hotkey runs its function, CMD+Q is taken only under focus, the system proxy is the
\* one applied last, a focused window with a dead page is about to be reloaded, and a
\* window that may go to the lightweight mode has its listeners, for any keys, savers,
\* quits and number of events (Hotkey::update, Hotkey::init, update_sysproxy,
\* reset_sysproxy, reload_main_window_if_needed, exit_lightweight_mode, patch_verge).
\* Excepted are keys gone astray (an update or an init left half way, a refusal of the
\* desktop, an older focus task run last), a reset that crossed an update, a page whose
\* reload was refused, and listeners dropped by a failure or being switched off.
THEOREM TheDesktopFollows == Spec => []DesktopFollows
<1> DEFINE Inv == (which = "hotkey" => HotkeyInv) /\ (which = "sysopt" => SysoptInv) /\ (which = "window" => WindowInv)
<1>1. Init => Inv
    BY HotkeyInitially, SysoptInitially, WindowInitially DEF Init
<1>2. Inv /\ [Next]_parts => Inv'
    <2> SUFFICES ASSUME Inv, [Next]_parts PROVE Inv'
        OBVIOUS
    <2>1. ASSUME which' = "hotkey" PROVE HotkeyInv'
        <3>1. which = "hotkey" /\ [Shortcuts!Next]_(Shortcuts!hotkey)
            BY <2>1 DEF Next, Unchanged, parts, hotkeyOwn, Shortcuts!hotkey
        <3> QED BY <3>1, HotkeyStep
    <2>2. ASSUME which' = "sysopt" PROVE SysoptInv'
        <3>1. which = "sysopt" /\ [Proxy!Next]_(Proxy!sysopt)
            BY <2>2 DEF Next, Unchanged, parts, sysoptOwn, Proxy!sysopt
        <3> QED BY <3>1, SysoptStep
    <2>3. ASSUME which' = "window" PROVE WindowInv'
        <3>1. which = "window" /\ [Window!Next]_(Window!main)
            BY <2>3 DEF Next, Unchanged, parts, windowOwn, Window!main
        <3> QED BY <3>1, WindowStep
    <2> QED BY <2>1, <2>2, <2>3
<1>3. Inv => DesktopFollows
    BY HotkeyShows, SysoptShows, WindowShows DEF DesktopFollows
<1> QED BY <1>1, <1>2, <1>3, PTL DEF Spec

\* The release on disk changes only to the one the user was asked about, whatever releases
\* are published and however often the application is killed
\* (check_and_download, try_install_on_startup).
THEOREM OnlyTheOfferedIsInstalled == Spec => InstallsWhatWasOffered
<1> DEFINE Inv == (which = "updater" => UpdaterInv)
<1>1. Init => Inv
    BY UpdaterInitially DEF Init
<1>2. Inv /\ [Next]_parts => Inv'
    <2> SUFFICES ASSUME Inv, [Next]_parts PROVE Inv'
        OBVIOUS
    <2>1. ASSUME which' = "updater" PROVE UpdaterInv'
        <3>1. which = "updater" /\ [Update!Next]_(Update!updater)
            BY <2>1 DEF Next, Unchanged, parts, updaterOwn, Update!updater
        <3> QED BY <3>1, UpdaterStep
    <2> QED BY <2>1
<1>3. Inv /\ [Next]_parts => [which = "updater" => Update!InstallsOffered]_parts
    <2> SUFFICES ASSUME Inv, [Next]_parts, which = "updater" PROVE Update!InstallsOffered
        OBVIOUS
    <2>1. [Update!Next]_(Update!updater)
        BY DEF Next, Unchanged, parts, updaterOwn, Update!updater
    <2> QED BY <2>1, UpdaterInstalls
<1> QED BY <1>1, <1>2, <1>3, PTL DEF Spec, InstallsWhatWasOffered

\* Automatic backups keep their distance however many triggers wait, a restore nobody
\* disturbed leaves stores and files as the archive has them, and a cached WebDAV client
\* belongs to the account of the settings, unless that is being saved, was changed with no
\* reset (a save that failed, a restore), or the client was being built at the last reset
\* (AutoBackupManager::execute_trigger, restore_local_backup, save_webdav_config,
\* WebDavClient::get_client).
THEOREM TheBackupsAreSound == Spec => BackupsAreSound
<1> DEFINE Inv == (which = "backup" => BackupInv) /\ (which = "webdav" => WebDavInv)
<1>1. Init => Inv
    BY BackupInitially, WebDavInitially DEF Init
<1>2. Inv /\ [Next]_parts => Inv'
    <2> SUFFICES ASSUME Inv, [Next]_parts PROVE Inv'
        OBVIOUS
    <2>1. ASSUME which' = "backup" PROVE BackupInv'
        <3>1. which = "backup" /\ [Local!Next]_(Local!backup)
            BY <2>1 DEF Next, Unchanged, parts, backupOwn, Local!backup
        <3> QED BY <3>1, BackupStep
    <2>2. ASSUME which' = "webdav" PROVE WebDavInv'
        <3>1. which = "webdav" /\ [Remote!Next]_(Remote!webdav)
            BY <2>2 DEF Next, Unchanged, parts, webdavOwn, Remote!webdav
        <3> QED BY <3>1, WebDavStep
    <2> QED BY <2>1, <2>2
<1>3. Inv => (which = "backup" => Local!RestoredIsLive) /\ (which = "webdav" => Remote!ClientsAreCurrent)
    BY BackupShows, WebDavShows
<1>4. Inv /\ [Next]_parts => [which = "backup" => Local!SpacesBackups]_parts
    BY BackupShows
<1> QED BY <1>1, <1>2, <1>3, <1>4, PTL DEF Spec, BackupsAreSound
=============================================================================
