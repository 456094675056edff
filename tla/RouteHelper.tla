---------------------------- MODULE RouteHelper -----------------------------
(***************************************************************************)
(* The v3 coordinator of macos/route-helper/main.swift: a durable journal  *)
(* of at most one lease, the kernel routes the lease owns, and the calls   *)
(* it makes to the broker.                                                 *)
(*                                                                         *)
(* The coordinator works under one lock, so an operation is never          *)
(* interleaved with another operation; it is interleaved with the broker,  *)
(* with the app and with a crash.  Every write of the journal, every route *)
(* change and every broker call is a step of its own.  A write or an       *)
(* unlink that reports failure may have happened.                          *)
(*                                                                         *)
(* CIDRs are 1..N in the owner's order: routes are added in that order and *)
(* removed in the reverse order, so the applied ones are a prefix.         *)
(***************************************************************************)
EXTENDS TunnelBroker

CONSTANT N       \* private CIDRs of a lease

ASSUME CidrAssumption == N \in Nat \ {0}

VARIABLES
    disk,        \* the journal file
    mem,         \* journal
    table,       \* kernel routes: the lease a route was added for, 0 if none
    reg,         \* registeredConnectionIDs: one at most, 0 if none
    act,         \* activeConnectionID, 0 if none
    ronly,       \* recoveryOnly
    hpc,         \* what the helper is about to do
    job,         \* the operation it is executing
    inbox,       \* calls sent to it
    conn,        \* the app's current connection; a smaller one is dead
    reply        \* what the app's call has been answered

helper == <<disk, mem, table, reg, act, ronly, hpc, job>>
link == <<inbox, conn, reply>>

Cidrs == 1..N
RecordStates == {"HoldPending", "Held", "Applied", "RetirementPending", "Released"}
Record(l, s, a, p) == [lease |-> l, state |-> s, applied |-> a, pending |-> p]
NoRecord == Record(0, "None", 0, 0)
Call(op, c, l) == [op |-> op, conn |-> c, lease |-> l]
NoJob == Call("none", 0, 0)

WithPending(r, c) == Record(r.lease, r.state, r.applied, c)
WithAdded(r) == Record(r.lease, r.state, r.pending, 0)
WithState(r, s) == Record(r.lease, s, r.applied, r.pending)

\* The last of the owned CIDRs: an add or a removal in flight, or the last applied.
LastOwned(r) == IF r.pending > r.applied THEN r.pending ELSE r.applied

Without(r, c) == Record(r.lease, r.state, IF c = r.applied THEN c - 1 ELSE r.applied, 0)

HelperInit ==
    /\ disk = NoRecord
    /\ mem = NoRecord
    /\ table = [c \in Cidrs |-> 0]
    /\ reg = 0
    /\ act = 0
    /\ ronly = FALSE
    /\ hpc = "down"
    /\ job = NoJob
    /\ inbox = {}
    /\ conn = 1
    /\ reply = "none"
-----------------------------------------------------------------------------
(* The end of an operation.  A reply to a connection that is gone is lost.   *)
Answer(r) ==
    /\ hpc' = "idle"
    /\ job' = NoJob
    /\ reply' = IF job.conn = conn THEN r ELSE reply

\* Every failed boundary keeps the record and leaves the helper recovery-only.
FailClosed(r) ==
    /\ mem' = r
    /\ ronly' = TRUE
    /\ Answer("error")

GoOn(label) ==
    /\ hpc' = label
    /\ UNCHANGED <<job, reply>>

\* persist() and remove() that report failure may have happened.
Persists(r) == disk' = r /\ NoFault
PersistFails(r) == Fault("persist") /\ disk' \in {disk, r}

\* Where retireLocked starts, and starts again after each removed route.
RetireFrom(r) ==
    CASE r.state = "Released" -> "unlink"
      [] r.state = "RetirementPending" -> "release"
      [] OTHER -> IF LastOwned(r) # 0 THEN "unmark" ELSE "retire"
-----------------------------------------------------------------------------
(* begin: the record is written before the broker is asked to hold.         *)

\* The routes are inspected first: a foreign one refuses the lease.
BeginPersist ==
    /\ hpc = "pend"
    /\ LET r == Record(job.lease, "HoldPending", 0, 0) IN
          \/ /\ Persists(r)
             /\ mem' = r
             /\ act' = job.conn
             /\ GoOn("hold")
          \/ /\ PersistFails(r) \/ (Fault("route") /\ UNCHANGED disk)
             /\ Answer("bare")
             /\ UNCHANGED <<mem, act>>
    /\ UNCHANGED <<table, reg, ronly, inbox, conn, broker>>

BeginHold ==
    /\ hpc = "hold"
    /\ \/ /\ NoFault
          /\ HoldV3(job.lease)
          /\ UNCHANGED late
          /\ IF HoldReply(job.lease) = "ambiguous" THEN FailClosed(mem)
             ELSE /\ GoOn(IF HoldReply(job.lease) = "held" THEN "keep" ELSE "drop")
                  /\ UNCHANGED <<mem, ronly>>
       \/ /\ Fault("xpc")
          /\ late' = late \cup {<<"hold", job.lease>>}
          /\ FailClosed(mem)
          /\ UNCHANGED <<session, tombstone, nextGen, child, exitDue, lossDue, reaping, executed>>
    /\ UNCHANGED <<disk, table, reg, act, inbox, conn>>

BeginHeld ==
    /\ hpc = "keep"
    /\ LET r == WithState(mem, "Held") IN
          \/ Persists(r) /\ mem' = r /\ Answer("ok") /\ UNCHANGED ronly
          \/ PersistFails(r) /\ FailClosed(mem)
    /\ UNCHANGED <<table, reg, act, inbox, conn, broker>>

\* Only a definite rejection removes the record.
BeginRejected ==
    /\ hpc = "drop"
    /\ \/ /\ Persists(NoRecord)
          /\ mem' = NoRecord
          /\ act' = 0
          /\ Answer("bare")
          /\ UNCHANGED ronly
       \/ PersistFails(NoRecord) /\ FailClosed(mem) /\ UNCHANGED act
    /\ UNCHANGED <<table, reg, inbox, conn, broker>>
-----------------------------------------------------------------------------
(* apply: each CIDR is marked, added and recorded.                          *)

\* Mutant: the mark stays in memory.
ApplyMark_unsaved ==
    /\ hpc = "mark"
    /\ mem' = WithPending(mem, mem.applied + 1)
    /\ GoOn("add")
    /\ UNCHANGED <<disk, ronly, table, reg, act, inbox, conn, broker, faults>>

ApplyMark ==
    /\ hpc = "mark"
    /\ LET r == WithPending(mem, mem.applied + 1) IN
          \/ Persists(r) /\ mem' = r /\ GoOn("add") /\ UNCHANGED ronly
          \/ PersistFails(r) /\ FailClosed(r)
    /\ UNCHANGED <<table, reg, act, inbox, conn, broker>>

ApplyAdd ==
    /\ hpc = "add"
    /\ LET added == [table EXCEPT ![mem.pending] = mem.lease] IN
          \/ NoFault /\ table' = added /\ GoOn("save") /\ UNCHANGED <<mem, ronly>>
          \/ Fault("route") /\ table' \in {table, added} /\ FailClosed(mem)
    /\ UNCHANGED <<disk, reg, act, inbox, conn, broker>>

ApplySave ==
    /\ hpc = "save"
    /\ LET r == WithAdded(mem) IN
          \/ /\ Persists(r)
             /\ mem' = r
             /\ GoOn(IF r.applied < N THEN "mark" ELSE "seal")
             /\ UNCHANGED ronly
          \/ PersistFails(r) /\ FailClosed(r)
    /\ UNCHANGED <<table, reg, act, inbox, conn, broker>>

ApplySeal ==
    /\ hpc = "seal"
    /\ LET r == WithState(mem, "Applied") IN
          \/ Persists(r) /\ mem' = r /\ Answer("ok") /\ UNCHANGED ronly
          \/ PersistFails(r) /\ FailClosed(mem)
    /\ UNCHANGED <<table, reg, act, inbox, conn, broker>>

(* heartbeat: only a hold the broker confirms extends the deadline.         *)
BeatQuery ==
    /\ hpc = "query"
    /\ \/ NoFault /\ StatusHeld(job.lease) /\ Answer("ok") /\ UNCHANGED <<mem, ronly>>
       \/ NoFault /\ ~StatusHeld(job.lease) /\ FailClosed(mem)
       \/ Fault("xpc") /\ FailClosed(mem)
    /\ UNCHANGED <<disk, table, reg, act, inbox, conn, broker>>

-----------------------------------------------------------------------------
(* retireLocked: the routes go, last first, then the hold, then the record.  *)

\* The route is inspected; one that is there is marked before it is deleted.
RetireMark ==
    /\ hpc = "unmark"
    /\ LET c == LastOwned(mem)
           r == WithPending(mem, c)
       IN \/ /\ table[c] = mem.lease
             /\ \/ Persists(r) /\ mem' = r /\ GoOn("del") /\ UNCHANGED ronly
                \/ PersistFails(r) /\ FailClosed(r)
          \/ /\ table[c] # mem.lease
             /\ GoOn("unsave")
             /\ UNCHANGED <<disk, mem, ronly, faults>>
          \/ Fault("route") /\ FailClosed(mem) /\ UNCHANGED disk
    /\ UNCHANGED <<table, reg, act, inbox, conn, broker>>

\* Mutant: a failed deletion is taken for a deletion.
RetireDelete_unchecked ==
    /\ hpc = "del"
    /\ LET removed == [table EXCEPT ![mem.pending] = 0] IN
          \/ NoFault /\ table' = removed
          \/ Fault("route") /\ UNCHANGED table
    /\ GoOn("unsave")
    /\ UNCHANGED <<disk, mem, ronly, reg, act, inbox, conn, broker>>

RetireDelete ==
    /\ hpc = "del"
    /\ LET removed == [table EXCEPT ![mem.pending] = 0] IN
          \/ NoFault /\ table' = removed /\ GoOn("unsave") /\ UNCHANGED <<mem, ronly>>
          \/ Fault("route") /\ table' \in {table, removed} /\ FailClosed(mem)
    /\ UNCHANGED <<disk, reg, act, inbox, conn, broker>>

RetireSave ==
    /\ hpc = "unsave"
    /\ LET r == Without(mem, LastOwned(mem)) IN
          \/ Persists(r) /\ mem' = r /\ GoOn(RetireFrom(r)) /\ UNCHANGED ronly
          \/ PersistFails(r) /\ FailClosed(r)
    /\ UNCHANGED <<table, reg, act, inbox, conn, broker>>

RetirePersist ==
    /\ hpc = "retire"
    /\ LET r == Record(mem.lease, "RetirementPending", 0, 0) IN
          \/ Persists(r) /\ mem' = r /\ GoOn("release") /\ UNCHANGED ronly
          \/ PersistFails(r) /\ FailClosed(mem)
    /\ UNCHANGED <<table, reg, act, inbox, conn, broker>>

RetireRelease ==
    /\ hpc = "release"
    /\ \/ /\ NoFault
          /\ ReleaseV3(mem.lease)
          /\ UNCHANGED late
          /\ \/ ReleaseReply(mem.lease) = "released" /\ GoOn("done") /\ UNCHANGED <<mem, ronly>>
             \/ ReleaseReply(mem.lease) = "reaping" /\ GoOn("reaped") /\ UNCHANGED <<mem, ronly>>
             \/ ReleaseReply(mem.lease) = "refused" /\ FailClosed(mem)
       \/ /\ Fault("xpc")
          /\ late' = late \cup {<<"release", mem.lease>>}
          /\ FailClosed(mem)
          /\ UNCHANGED <<session, tombstone, nextGen, child, exitDue, lossDue, reaping, executed>>
    /\ UNCHANGED <<disk, table, reg, act, inbox, conn>>

\* The broker answers when it has reaped the child; the helper may give up first.
AwaitsReap(w, g) == hpc = "reaped" /\ w = "release" /\ g = mem.lease

RetireReaped ==
    /\ hpc = "reaped"
    /\ \/ Reaped("release", mem.lease) /\ GoOn("done") /\ UNCHANGED <<mem, ronly>>
       \/ ReapFails("release", mem.lease) /\ FailClosed(mem)
       \/ Fault("xpc") /\ FailClosed(mem) /\ UNCHANGED broker
    /\ UNCHANGED <<disk, table, reg, act, inbox, conn>>

RetireReleased ==
    /\ hpc = "done"
    /\ LET r == WithState(mem, "Released") IN
          \/ Persists(r) /\ GoOn("unlink") /\ UNCHANGED <<mem, ronly>>
          \/ PersistFails(r) /\ FailClosed(mem)
    /\ UNCHANGED <<table, reg, act, inbox, conn, broker>>

RetireUnlink ==
    /\ hpc = "unlink"
    /\ \/ /\ Persists(NoRecord)
          /\ mem' = NoRecord
          /\ act' = 0
          /\ ronly' = FALSE
          /\ Answer("ok")
       \/ PersistFails(NoRecord) /\ FailClosed(mem) /\ UNCHANGED act
    /\ UNCHANGED <<table, reg, inbox, conn, broker>>
-----------------------------------------------------------------------------
(* The entry points: a call of the app, the end of its connection, the       *)
(* watchdog and the start of the helper.                                     *)
Owns(m) == act = m.conn /\ mem.lease = m.lease

\* The label an admitted call goes to, or the answer of one that ends at once.
Admitted(m) ==
    CASE m.op = "discover" ->
            IF ~ronly /\ mem = NoRecord /\ act = 0 THEN "ok" ELSE "error"
      [] m.op = "begin" ->
            IF ~ronly /\ mem = NoRecord /\ act = 0 /\ \A c \in Cidrs : table[c] = 0
            THEN "pend" ELSE "bare"
      [] m.op = "apply" ->
            IF Owns(m) /\ mem.state \in {"Held", "Applied"} /\ ~ronly
            THEN IF mem.state = "Held" THEN "mark" ELSE "ok"
            ELSE "bare"
      [] m.op = "beat" ->
            IF Owns(m) /\ ~ronly THEN "query" ELSE "bare"
      [] m.op = "undo" ->
            IF mem = NoRecord THEN "ok"
            ELSE IF Owns(m) THEN RetireFrom(mem) ELSE "bare"

Answers == {"ok", "error", "bare"}

\* One connection is registered at a time; connections arrive in order.
Serve(m) ==
    /\ hpc = "idle"
    /\ m \in inbox
    /\ reg \in {0, m.conn}
    /\ \A k \in inbox : m.conn <= k.conn
    /\ inbox' = inbox \ {m}
    /\ reg' = m.conn
    /\ IF Admitted(m) \in Answers
         THEN /\ reply' = IF m.conn = conn THEN Admitted(m) ELSE reply
              /\ UNCHANGED <<hpc, job>>
         ELSE hpc' = Admitted(m) /\ job' = m /\ UNCHANGED reply
    /\ UNCHANGED <<disk, mem, table, act, ronly, conn, broker, faults>>

\* A second connection is refused while one is registered.
Refuse(m) ==
    /\ hpc = "idle"
    /\ m \in inbox
    /\ reg \notin {0, m.conn}
    /\ inbox' = inbox \ {m}
    /\ reply' = IF m.conn = conn THEN "lost" ELSE reply
    /\ UNCHANGED <<helper, conn, broker, faults>>

\* What a dead connection had not delivered may be lost.
Forget(m) ==
    /\ m \in inbox
    /\ m.conn # conn
    /\ inbox' = inbox \ {m}
    /\ UNCHANGED <<helper, conn, reply, broker, faults>>

\* The lease of a connection that ended is retired.
Close ==
    /\ hpc = "idle"
    /\ reg \notin {0, conn}
    /\ reg' = 0
    /\ inbox' = {m \in inbox : m.conn # reg}
    /\ IF mem # NoRecord /\ act = reg
         THEN hpc' = RetireFrom(mem) /\ job' = Call("close", 0, mem.lease)
         ELSE UNCHANGED <<hpc, job>>
    /\ UNCHANGED <<disk, mem, table, act, ronly, conn, reply, broker, faults>>

LeaseExpires ==
    /\ hpc = "idle"
    /\ mem.state \in {"HoldPending", "Held", "Applied"}
    /\ act # 0
    /\ hpc' = RetireFrom(mem)
    /\ job' = Call("expire", 0, mem.lease)
    /\ UNCHANGED <<disk, mem, table, reg, act, ronly, link, broker, faults>>

(* launchd starts the helper for a message; a journal is retired first.  (A  *)
(* journal that cannot be decoded makes the helper refuse every call.  It is *)
(* left out: no step of the helper writes one, its file is replaced whole.)  *)
HelperStarts ==
    /\ hpc = "down"
    /\ inbox # {}
    /\ mem' = disk
    /\ IF disk = NoRecord
         THEN hpc' = "idle" /\ UNCHANGED job
         ELSE hpc' = RetireFrom(disk) /\ job' = Call("startup", 0, disk.lease)
    /\ UNCHANGED <<disk, table, reg, act, ronly, link, broker, faults>>

HelperCrashes ==
    /\ hpc # "down"
    /\ Fault("helper")
    /\ hpc' = "down"
    /\ mem' = NoRecord
    /\ reg' = 0
    /\ act' = 0
    /\ ronly' = FALSE
    /\ job' = NoJob
    /\ inbox' = {}
    /\ reply' = IF conn \in {job.conn} \cup {m.conn : m \in inbox} THEN "lost" ELSE reply
    /\ UNCHANGED <<disk, table, conn, broker>>

HelperStep ==
    \/ BeginPersist \/ BeginHold \/ BeginHeld \/ BeginRejected
    \/ ApplyMark \/ ApplyAdd \/ ApplySave \/ ApplySeal
    \/ BeatQuery
    \/ RetireMark \/ RetireDelete \/ RetireSave \/ RetirePersist
    \/ RetireRelease \/ RetireReaped \/ RetireReleased \/ RetireUnlink
=============================================================================
