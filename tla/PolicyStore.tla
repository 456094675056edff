---------------------------- MODULE PolicyStore ----------------------------
(***************************************************************************)
(* The durable identity of the signed policy catalog.  Several processes   *)
(* of the application run the same transaction: take the file lock and     *)
(* read the record, verify the catalog of the bundle, classify it against  *)
(* the record, verify the bundle again, and publish a new record by an     *)
(* atomic rename that is checked, synchronized and, when something else    *)
(* was replaced, undone.                                                   *)
(*                                                                         *)
(* A record is the catalog it names, whether it has the legacy format      *)
(* (a revision without an identity), and the file that carries it: the     *)
(* snapshot comparisons of the code look at the inode as well as at the    *)
(* bytes.  Every check of files, directories, freshness or signatures may  *)
(* fail and end the transaction.                                           *)
(***************************************************************************)
EXTENDS Naturals

CONSTANTS Procs,        \* processes that run the application
          Catalogs,     \* signed catalogs the bundle may hold: [rev, id]
          MaxOthers,    \* bound on transactions of the processes beside this one
          MaxUpdates,   \* bound on replacements of the bundle
          MaxFaults     \* bound on power losses and on writes by a program
                        \* outside the protocol, together

ASSUME CatalogsAssumption == Catalogs \subseteq [rev : Nat, id : {c.id : c \in Catalogs}]
ASSUME ProcsAssumption == Procs \cap {"none", "legacy", "foreign"} = {}

None == "none"
NoCatalog == [rev |-> 0, id |-> None]

VARIABLES
  bundle,    \* the catalog the application's resources hold
  record,    \* the record file under its name
  durable,   \* the record a power loss would leave
  lock,      \* the process that holds the lock file
  txn,       \* per process, its transaction
  accepted,  \* the catalog whose publication was reported last
  clock      \* how often each bounded event of the environment happened

store == <<bundle, record, durable, lock, txn, accepted, clock>>

NoRecord == [rev |-> 0, id |-> None, legacy |-> FALSE, file |-> None]
Record(c, f) == [rev |-> c.rev, id |-> c.id, legacy |-> FALSE, file |-> f]
Legacy(r) == [rev |-> r, id |-> None, legacy |-> TRUE, file |-> "legacy"]

\* A transaction: where it is, the record it read, its candidate, the
\* decision on it, what lies under the temporary name, and its result.
Txn(label, s, c, d, t, success) ==
  [at |-> label, snap |-> s, cand |-> c, decision |-> d, temp |-> t, ok |-> success]

NoTxn == Txn("idle", NoRecord, NoCatalog, None, NoRecord, FALSE)

Clock(u, o, f, l) == [updates |-> u, others |-> o, foreign |-> f, losses |-> l]

StoreInit ==
  /\ bundle \in Catalogs
  /\ record \in {NoRecord, Legacy(1)}
  /\ durable = record
  /\ lock = None
  /\ txn = [p \in Procs |-> NoTxn]
  /\ accepted = NoCatalog
  /\ clock = Clock(0, 0, 0, 0)

At(p, label) == txn[p].at = label
Update(p, t) == txn' = [txn EXCEPT ![p] = t]
Goto(p, label) ==
  Update(p, Txn(label, txn[p].snap, txn[p].cand, txn[p].decision, txn[p].temp, FALSE))

\* The transaction object is dropped with its result: the lock goes.
Ends(p, success) ==
  /\ Update(p, Txn("done", NoRecord, txn[p].cand, None, NoRecord, success))
  /\ lock' = None

\* A directory or the lock file is no longer the one that was opened, a
\* file is not private, a read or a write fails, a policy has expired.
Refuse(p) == Ends(p, FALSE)

AcquireLock(p) == lock = None /\ lock' = p
LockTimesOut == lock # None /\ UNCHANGED lock

\* The bytes and the identity of the file under the record's name.
ReadRecordSnapshot == record

\* What a snapshot says: nothing, a revision, or a revision and an identity.
ParseRecord(snapshot) == [rev |-> snapshot.rev, id |-> snapshot.id, legacy |-> snapshot.legacy]

Begin(p) ==
  /\ At(p, "idle")
  /\ \/ /\ AcquireLock(p)
        /\ Update(p, Txn("verify", ReadRecordSnapshot, NoCatalog, None, NoRecord, FALSE))
     \/ /\ LockTimesOut
        /\ Update(p, Txn("done", NoRecord, NoCatalog, None, NoRecord, FALSE))
  /\ UNCHANGED <<bundle, record, durable, accepted>>

\* Mutant: an equal revision is idempotent whatever its digest.
Decision_RevisionOnly(c, stored) ==
  IF stored.rev = 0 THEN "new"
  ELSE IF c.rev > stored.rev THEN "advance"
  ELSE IF ~stored.legacy /\ c.rev = stored.rev THEN "idempotent" ELSE "reject"

Decision(c, stored) ==
  IF stored.rev = 0 THEN "new"
  ELSE IF c.rev > stored.rev THEN "advance"
  ELSE IF ~stored.legacy /\ c.rev = stored.rev /\ c.id = stored.id THEN "idempotent" ELSE "reject"

\* Signed by a trusted key, with a revision and within its dates.
Verified(c) == c.rev # 0 /\ c \in Catalogs

\* The bundle's catalog, all of its envelopes verified: no catalog if one fails.
VerifyPolicyCatalog == IF Verified(bundle) THEN bundle ELSE NoCatalog

\* The catalog is verified, compared with the binding the caller expects
\* (a catalog, or NoCatalog for none) and classified.
Verify(p, expected) ==
  /\ At(p, "verify")
  /\ LET c == VerifyPolicyCatalog
         d == Decision(c, ParseRecord(txn[p].snap)) IN
     \/ /\ expected \in {NoCatalog, c}
        /\ c # NoCatalog /\ d # "reject"
        /\ Update(p, Txn("recheck", txn[p].snap, c, d, NoRecord, FALSE))
        /\ UNCHANGED lock
     \/ Refuse(p)
  /\ UNCHANGED <<bundle, record, durable, accepted, clock>>

\* The whole catalog is verified again before the commit.
Recheck(p) ==
  /\ At(p, "recheck")
  /\ \/ /\ VerifyPolicyCatalog = txn[p].cand
        /\ Goto(p, IF txn[p].decision = "idempotent" THEN "same" ELSE "stage")
        /\ UNCHANGED lock
     \/ Refuse(p)
  /\ UNCHANGED <<bundle, record, durable, accepted, clock>>

\* An idempotent commit writes nothing: the record must still be the snapshot.
CommitSame(p) ==
  /\ At(p, "same")
  /\ \/ ReadRecordSnapshot = txn[p].snap /\ Ends(p, TRUE)
     \/ Refuse(p)
  /\ UNCHANGED <<bundle, record, durable, accepted, clock>>

\* The temporary file is written and synchronized; the last look at the
\* record comes before the rename.
Stage(p) ==
  /\ At(p, "stage")
  /\ \/ /\ ReadRecordSnapshot = txn[p].snap
        /\ Update(p, Txn("publish", txn[p].snap, txn[p].cand, txn[p].decision,
                        Record(txn[p].cand, p), FALSE))
        /\ UNCHANGED lock
     \/ Refuse(p)
  /\ UNCHANGED <<bundle, record, durable, accepted, clock>>

\* The rename exchanges the names when a record is replaced and refuses an
\* occupied name when there was none.
PublishRecord(p) ==
  /\ (txn[p].snap = NoRecord) = (record = NoRecord)
  /\ record' = txn[p].temp

Publish(p) ==
  /\ At(p, "publish")
  /\ \/ /\ PublishRecord(p)
        /\ Update(p, Txn("verifyPublished", txn[p].snap, txn[p].cand, txn[p].decision, record, FALSE))
        /\ UNCHANGED lock
     \/ Refuse(p) /\ UNCHANGED record
  /\ UNCHANGED <<bundle, durable, accepted, clock>>

\* The undo: exchange back, or move the record away; then synchronize.  Its
\* own rename may fail.
RollbackPublication(p) ==
  /\ \/ /\ record' = txn[p].temp
        /\ durable' \in {durable, record'}
        /\ Ends(p, FALSE)
     \/ /\ Update(p, Txn("done", NoRecord, txn[p].cand, "stuck", NoRecord, FALSE))
        /\ lock' = None
        /\ UNCHANGED <<record, durable>>
  /\ UNCHANGED <<bundle, accepted, clock>>

\* What was exchanged out is the record that was classified against.
RetiredIsSnapshot(p) == txn[p].temp = txn[p].snap

PublishedIsMine(p) == record = Record(txn[p].cand, p)

VerifyPublished(p) ==
  /\ At(p, "verifyPublished")
  /\ \/ /\ RetiredIsSnapshot(p) /\ PublishedIsMine(p)
        /\ Goto(p, "sync")
        /\ UNCHANGED <<bundle, record, durable, lock, accepted, clock>>
     \/ RollbackPublication(p)

\* Mutant: the directory is not synchronized.
Sync_Skipped(p) ==
  /\ At(p, "sync")
  /\ Goto(p, "report")
  /\ UNCHANGED <<bundle, record, durable, lock, accepted, clock>>

\* Without the synchronization the caller gets an error although the record
\* is published: the outcome is ambiguous.
Sync(p) ==
  /\ At(p, "sync")
  /\ \/ /\ durable' = record
        /\ Goto(p, "report")
        /\ UNCHANGED lock
     \/ Refuse(p) /\ UNCHANGED durable
  /\ UNCHANGED <<bundle, record, accepted, clock>>

Report(p) ==
  /\ At(p, "report")
  /\ \/ /\ PublishedIsMine(p) /\ Ends(p, TRUE)
        /\ accepted' = IF clock.foreign = 0 THEN txn[p].cand ELSE NoCatalog
     \/ Refuse(p) /\ UNCHANGED accepted
  /\ UNCHANGED <<bundle, record, durable, clock>>

Transact(p, expected) ==
  \/ Verify(p, expected) \/ Recheck(p) \/ CommitSame(p) \/ Stage(p)
  \/ Publish(p) \/ VerifyPublished(p) \/ Sync(p) \/ Report(p)

-----------------------------------------------------------------------------
(* The environment *)

\* One more event of a kind.
Ticks(u, o, f, l) ==
  clock' = Clock(clock.updates + u, clock.others + o, clock.foreign + f, clock.losses + l)

\* A new bundle is installed: any signed catalog, older ones included.
BundleUpdate ==
  /\ clock.updates < MaxUpdates
  /\ bundle' \in Catalogs \ {bundle}
  /\ Ticks(1, 0, 0, 0)
  /\ UNCHANGED <<record, durable, lock, txn, accepted>>

Faults == clock.foreign + clock.losses

\* A program outside the protocol (a restored backup) writes the record.
ForeignWrite ==
  /\ Faults < MaxFaults
  /\ \E c \in Catalogs : record' = Record(c, "foreign")
  /\ durable' \in {durable, record'}
  /\ Ticks(0, 0, 1, 0)
  /\ accepted' = NoCatalog
  /\ UNCHANGED <<bundle, lock, txn>>

\* A process dies: the kernel drops its lock, what it renamed stays.
ProcessDies(p) ==
  /\ ~At(p, "idle")
  /\ txn' = [txn EXCEPT ![p] = NoTxn]
  /\ lock' = IF lock = p THEN None ELSE lock
  /\ UNCHANGED <<bundle, record, durable, accepted, clock>>

\* The machine loses power: a rename that was not synchronized may be lost.
PowerLoss ==
  /\ Faults < MaxFaults
  /\ record' \in {record, durable}
  /\ durable' = record'
  /\ lock' = None
  /\ txn' = [p \in Procs |-> NoTxn]
  /\ Ticks(0, 0, 0, 1)
  /\ UNCHANGED <<bundle, accepted>>

-----------------------------------------------------------------------------
(* Properties *)

(* A transaction that found another file where it published, or that it    *)
(* replaced another record than the one it had classified against, does    *)
(* not leave its own record in place: until the last check of the          *)
(* publication succeeded, an error leaves no record of the candidate,      *)
(* unless the rename of the undo fails as well.                            *)
RefusedIsUndone ==
  [][\A p \in Procs :
       /\ txn[p].at \in {"stage", "publish", "verifyPublished"}
       /\ txn'[p].at = "done" /\ txn'[p].decision # "stuck"
       => record' # Record(txn[p].cand, p)]_store

(* The store implements the monotone register: a publication that was      *)
(* reported survives every crash and power loss, later ones have a greater *)
(* revision, and no revision is accepted for two identities.               *)
Register == INSTANCE PolicyRegister WITH last <- accepted
AcceptsMonotonically == Register!Spec
=============================================================================
