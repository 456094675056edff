------------------------- MODULE GenerationsProofs -------------------------
(***************************************************************************)
(* Proofs about the policy store and the generations built from it, for    *)
(* every set of processes and catalogs and any number of updates, foreign  *)
(* writes, power losses and generations.                                   *)
(*                                                                         *)
(* The argument has two layers.  In the store, what a transaction knows at *)
(* each of its steps about the record it read and the one it published,    *)
(* and that no reported catalog is ever above the record a crash could     *)
(* leave.  In the application, that the selection, the factory and the     *)
(* slot move together under the materialize mutex.                         *)
(***************************************************************************)
EXTENDS Generations, TLAPS

Ids == {c.id : c \in Catalogs} \cup {None}
Files == Procs \cup {None, "legacy", "foreign"}
Records == [rev : Nat, id : Ids, legacy : BOOLEAN, file : Files]

Before == {"verify", "recheck", "same", "stage", "publish"}
After == {"verifyPublished", "sync", "report"}
Active == Before \cup After

Transactions ==
  [at : Active \cup {"idle", "done"}, snap : Records, cand : Catalogs \cup {NoCatalog},
   decision : {None, "new", "advance", "idempotent", "reject", "stuck"}, temp : Records,
   ok : BOOLEAN]

StoreTypes ==
  /\ bundle \in Catalogs
  /\ record \in Records /\ durable \in Records
  /\ lock \in Procs \cup {None}
  /\ txn \in [Procs -> Transactions]
  /\ accepted \in Catalogs \cup {NoCatalog}
  /\ clock \in [updates : Nat, others : Nat, foreign : Nat, losses : Nat]

\* The lock file is held by exactly the process that is in a transaction.
Locked == \A p \in Procs : txn[p].at \in Active <=> lock = p

\* A verified catalog.
Signed(c) == c \in Catalogs /\ c.rev # 0

\* What a transaction knows of its candidate.
Classified(t) ==
  /\ t.at \in Active \ {"verify"} => Signed(t.cand)
  /\ t.at \in {"recheck", "same"} /\ t.decision = "idempotent" =>
        t.cand.rev = t.snap.rev /\ t.cand.id = t.snap.id
  /\ t.at = "same" => t.decision = "idempotent"
  /\ t.at \in Active \ {"verify", "same"} /\ t.decision # "idempotent" => t.cand.rev > t.snap.rev
  /\ t.at \in {"stage", "publish"} \cup After => t.decision # "idempotent"

\* What it knows of the record: nobody else of the protocol changes it.
Undisturbed(p) ==
  LET t == txn[p] IN
  /\ t.at \in Before => /\ record = t.snap \/ record.file = "foreign"
                        /\ clock.foreign = 0 => record = t.snap
  /\ t.at = "publish" => t.temp = Record(t.cand, p)
  /\ t.at \in After => /\ t.temp = t.snap \/ t.temp.file = "foreign"
                       /\ clock.foreign = 0 => record = Record(t.cand, p) /\ t.temp = t.snap
  /\ t.at = "report" /\ clock.foreign = 0 => durable = record

Steady == \A p \in Procs : Classified(txn[p]) /\ Undisturbed(p)

\* A record that does not contradict a catalog that was reported.
AtLeast(r, c) == r.rev >= c.rev /\ (r.rev = c.rev => r.id = c.id)

\* The record, and what an undo would put back, are at least the catalog.
Floor(c) ==
  clock.foreign = 0 =>
    /\ AtLeast(record, c)
    /\ \A p \in Procs : txn[p].at \in Active => AtLeast(txn[p].snap, c)

\* A reported catalog survives the loss of everything not synchronized.
AcceptedHolds ==
  accepted # NoCatalog => clock.foreign = 0 /\ Floor(accepted) /\ AtLeast(durable, accepted)

\* A transaction that succeeded has a catalog the record does not contradict.
ResultsHold ==
  \A p \in Procs : txn[p].at = "done" /\ txn[p].ok => Signed(txn[p].cand) /\ Floor(txn[p].cand)

StoreInv == StoreTypes /\ Locked /\ Steady /\ AcceptedHolds /\ ResultsHold
-----------------------------------------------------------------------------
\* A binding of a verified catalog that the record does not contradict.
Proven(b) == Signed(b.cat) /\ Floor(b.cat)

AppTypes ==
  /\ cmd.op \in {None, "initialize", "connect", "select", "disconnect"}
  /\ cmd.at \in {None, "prepare", "retire", "build", "install", "disconnect"}
  /\ svc.st \in {None, "reserved", "busy", "fresh", "spent", "failed", "recovery"}
  /\ svc.gen \in Nat /\ built.gen \in Nat
  /\ gens \in 0..MaxGens

\* The selection is a proven binding, and a factory is prepared for the slot.
Selection ==
  /\ selected = Binding(selected.variant, selected.cat)
  /\ selected # NoBinding => Proven(selected)
  /\ svc # NoService => /\ selected # NoBinding /\ svc.binding = selected
                        /\ factory # NoBinding
                        /\ svc.gen \in 1..gens
  /\ svc.gen # 0 => svc # NoService

\* What the command that holds the mutex has established at each point.
MutexHolder ==
  /\ cmd.op = "initialize" => factory = NoBinding
  /\ cmd.op = "connect" /\ cmd.at = "prepare" =>
        /\ selected # NoBinding
        /\ cmd.variant = selected.variant
        /\ \/ txn[App].at \in Active \ {"verify"}
           \/ txn[App].at = "done" /\ txn[App].ok
           => txn[App].cand = selected.cat
  /\ cmd.at = "retire" =>
        /\ cmd.op \in {"connect", "select"} /\ svc # NoService
        /\ cmd.op = "connect" => factory = selected
        /\ cmd.op = "select" => /\ Proven(built.binding)
                               /\ built.binding = Binding(built.binding.variant, built.binding.cat)
  /\ cmd.at = "disconnect" => svc # NoService
  /\ cmd.at \in {"build", "install"} =>
        /\ cmd.op = "connect" /\ svc = NoService
        /\ selected # NoBinding /\ factory = selected
  /\ built.gen # 0 => cmd.at = "install"
  /\ cmd.at = "install" => built.binding = selected /\ built.gen \in 1..gens /\ built.st = "reserved"

AppInv == AppTypes /\ Selection /\ MutexHolder /\ OneOwner

IInv == StoreInv /\ AppInv
-----------------------------------------------------------------------------
LEMMA CatalogFacts ==
  /\ \A c \in Catalogs : c.rev \in Nat /\ c.id \in Ids
  /\ NoCatalog.rev = 0 /\ NoCatalog.id \in Ids /\ ~Signed(NoCatalog)
BY CatalogsAssumption DEF Ids, NoCatalog, None, Signed

\* The fields of what the steps build.
LEMMA RecordFacts ==
  /\ NoRecord \in Records
  /\ Legacy(1) \in Records
  /\ \A c \in Catalogs \cup {NoCatalog}, f \in Files :
        LET r == Record(c, f)
        IN  r \in Records /\ r.rev = c.rev /\ r.id = c.id /\ r.file = f
<1>1. NoRecord \in Records /\ Legacy(1) \in Records
  BY DEF NoRecord, Legacy, Records, Ids, Files, None
<1>2. ASSUME NEW c \in Catalogs \cup {NoCatalog}, NEW f \in Files
      PROVE  LET r == Record(c, f)
             IN  r \in Records /\ r.rev = c.rev /\ r.id = c.id /\ r.file = f
  <2>1. c.rev \in Nat /\ c.id \in Ids
    BY CatalogFacts
  <2> QED BY <2>1 DEF Record, Records
<1> QED BY <1>1, <1>2

LEMMA TxnTypes ==
  ASSUME NEW t \in Transactions
  PROVE  /\ t.at \in Active \cup {"idle", "done"} /\ t.snap \in Records
         /\ t.cand \in Catalogs \cup {NoCatalog}
         /\ t.decision \in {None, "new", "advance", "idempotent", "reject", "stuck"}
         /\ t.temp \in Records /\ t.ok \in BOOLEAN
BY DEF Transactions

\* A transaction in the file lock's possession takes a step: nobody else is
\* in one, so what it shows of itself is all there is to show.
LEMMA HolderStep ==
  ASSUME StoreInv, NEW p \in Procs, NEW t \in Transactions, lock \in {p, None},
         txn' = [txn EXCEPT ![p] = t], UNCHANGED bundle,
         clock' \in [updates : Nat, others : Nat, foreign : Nat, losses : Nat],
         clock'.foreign = clock.foreign,
         record' \in Records, durable' \in {durable, record, record'},
         lock' = (IF t.at \in Active THEN p ELSE None),
         Classified(t), Undisturbed(p)',
         ASSUME clock.foreign = 0, NEW c \in Catalogs, Floor(c)
         PROVE  AtLeast(record', c) /\ (t.at \in Active => AtLeast(t.snap, c)),
         \/ UNCHANGED accepted
         \/ accepted' = NoCatalog
         \/ /\ accepted' \in Catalogs /\ clock.foreign = 0 /\ t.at \notin Active
            /\ AtLeast(record', accepted') /\ AtLeast(durable', accepted'),
         t.at = "done" /\ t.ok =>
           Signed(t.cand) /\ (clock.foreign = 0 => AtLeast(record', t.cand))
  PROVE  StoreInv' /\ \A c \in Catalogs : Floor(c) => Floor(c)'
<1>0. /\ txn \in [Procs -> Transactions] /\ Locked /\ Steady /\ AcceptedHolds /\ ResultsHold
      /\ bundle \in Catalogs /\ record \in Records /\ durable \in Records
      /\ accepted \in Catalogs \cup {NoCatalog} /\ clock.foreign \in Nat
  BY DEF StoreInv, StoreTypes
<1>1. /\ txn'[p] = t /\ txn' \in [Procs -> Transactions]
      /\ \A q \in Procs \ {p} : txn'[q] = txn[q] /\ txn[q].at \notin Active
  BY <1>0, ProcsAssumption DEF Locked, None
<1>2. StoreTypes'
  BY <1>0, <1>1 DEF StoreTypes
<1>3. Locked'
  BY <1>1, ProcsAssumption DEF Locked, None
<1>4. Steady'
  <2>1. \A q \in Procs \ {p} : Undisturbed(q)'
    BY <1>1 DEF Undisturbed, Active, Before, After
  <2> QED BY <1>0, <1>1, <2>1 DEF Steady
<1>5. ASSUME NEW c \in Catalogs, Floor(c) PROVE Floor(c)'
  BY <1>1, <1>5 DEF Floor
<1>6. AcceptedHolds'
  <2>1. ASSUME accepted' = accepted, accepted # NoCatalog PROVE AcceptedHolds'
    <3>1. /\ clock.foreign = 0 /\ Floor(accepted) /\ AtLeast(durable, accepted)
          /\ accepted \in Catalogs
      BY <1>0, <2>1 DEF AcceptedHolds
    <3>2. Floor(accepted)' /\ AtLeast(record', accepted) /\ AtLeast(record, accepted)
      <4>1. AtLeast(record', accepted) /\ (t.at \in Active => AtLeast(t.snap, accepted))
        BY <3>1
      <4> QED BY <1>1, <2>1, <3>1, <4>1 DEF Floor
    <3> QED BY <2>1, <3>1, <3>2 DEF AcceptedHolds
  <2>2. ASSUME accepted' \in Catalogs, clock.foreign = 0, t.at \notin Active,
               AtLeast(record', accepted'), AtLeast(durable', accepted')
        PROVE  AcceptedHolds'
    BY <1>1, <2>2 DEF AcceptedHolds, Floor
  <2> QED BY <2>1, <2>2 DEF AcceptedHolds
<1>7. ResultsHold'
  <2>1. ASSUME NEW q \in Procs \ {p}, txn'[q].at = "done", txn'[q].ok
        PROVE  Signed(txn'[q].cand) /\ Floor(txn[q].cand)'
    BY <1>0, <1>1, <1>5, <2>1 DEF ResultsHold, Signed
  <2>2. ASSUME t.at = "done", t.ok PROVE Signed(t.cand) /\ Floor(txn[p].cand)'
    BY <1>1, <2>2 DEF Floor, Active, Before, After
  <2> QED BY <1>1, <2>1, <2>2 DEF ResultsHold, Signed
<1> QED BY <1>2, <1>3, <1>4, <1>5, <1>6, <1>7 DEF StoreInv

\* A process that is in no transaction steps aside: the store stays as it is.
LEMMA AsideStep ==
  ASSUME StoreInv, NEW p \in Procs, NEW t \in Transactions,
         txn[p].at \notin Active, t.at \notin Active, ~t.ok,
         txn' = [txn EXCEPT ![p] = t], UNCHANGED <<bundle, record, durable, lock, accepted>>,
         clock' \in [updates : Nat, others : Nat, foreign : Nat, losses : Nat],
         clock'.foreign = clock.foreign
  PROVE  StoreInv' /\ \A c \in Catalogs : Floor(c) => Floor(c)'
<1>0. txn \in [Procs -> Transactions] /\ Locked /\ Steady /\ AcceptedHolds /\ ResultsHold
  BY DEF StoreInv, StoreTypes
<1>1. /\ txn'[p] = t /\ txn' \in [Procs -> Transactions]
      /\ \A q \in Procs \ {p} : txn'[q] = txn[q]
  BY <1>0
<1>2. StoreTypes' /\ Locked'
  BY <1>0, <1>1 DEF StoreInv, StoreTypes, Locked
<1>3. \A c : Floor(c) => Floor(c)'
  BY <1>1 DEF Floor
<1>4. Steady'
  <2>1. Classified(t) /\ Undisturbed(p)'
    BY <1>1 DEF Classified, Undisturbed, Active, Before, After
  <2>2. \A q \in Procs \ {p} : Undisturbed(q)'
    BY <1>0, <1>1 DEF Steady, Undisturbed
  <2> QED BY <1>0, <1>1, <2>1, <2>2 DEF Steady
<1>5. AcceptedHolds' /\ ResultsHold'
  BY <1>0, <1>1, <1>3 DEF AcceptedHolds, ResultsHold
<1> QED BY <1>2, <1>3, <1>4, <1>5 DEF StoreInv
-----------------------------------------------------------------------------
\* What a transaction that is in progress may rely on.
LEMMA InTransaction ==
  ASSUME StoreInv, NEW p \in Procs, txn[p].at \in Active
  PROVE  /\ txn[p] \in Transactions /\ lock = p /\ record \in Records /\ durable \in Records
         /\ txn[p].snap \in Records /\ txn[p].temp \in Records
         /\ txn[p].cand \in Catalogs \cup {NoCatalog}
         /\ txn[p].decision \in {None, "new", "advance", "idempotent", "reject", "stuck"}
         /\ Classified(txn[p]) /\ Undisturbed(p)
         /\ clock \in [updates : Nat, others : Nat, foreign : Nat, losses : Nat]
         /\ p \in Files
BY TxnTypes DEF StoreInv, StoreTypes, Locked, Steady, Files

\* A step that leaves the record alone and stays in its transaction.
LEMMA StaysStep ==
  ASSUME StoreInv, NEW p \in Procs, NEW t \in Transactions, txn[p].at \in Active,
         t.at \in Active, t.snap = txn[p].snap,
         txn' = [txn EXCEPT ![p] = t], UNCHANGED <<bundle, record, durable, lock, accepted, clock>>,
         Classified(t), Undisturbed(p)'
  PROVE  StoreInv' /\ \A c \in Catalogs : Floor(c) => Floor(c)'
<1>1. /\ lock = p /\ record \in Records
      /\ clock \in [updates : Nat, others : Nat, foreign : Nat, losses : Nat]
  BY InTransaction
<1>2. ASSUME clock.foreign = 0, NEW c \in Catalogs, Floor(c)
      PROVE  AtLeast(record', c) /\ (t.at \in Active => AtLeast(t.snap, c))
  BY <1>2 DEF Floor
<1>3. t.at # "done"
  BY DEF Active, Before, After
<1> QED BY <1>1, <1>2, <1>3, HolderStep

\* A transaction that ends without success and leaves the record alone.
LEMMA RefuseStep ==
  ASSUME StoreInv, NEW p \in Procs, txn[p].at \in Active, Refuse(p),
         UNCHANGED <<bundle, record, durable, accepted, clock>>
  PROVE  StoreInv' /\ \A c \in Catalogs : Floor(c) => Floor(c)'
<1> DEFINE t == Txn("done", NoRecord, txn[p].cand, None, NoRecord, FALSE)
<1>1. /\ lock = p /\ record \in Records /\ txn[p].cand \in Catalogs \cup {NoCatalog}
      /\ clock \in [updates : Nat, others : Nat, foreign : Nat, losses : Nat]
  BY InTransaction
<1>2. t \in Transactions /\ t.at = "done" /\ ~t.ok /\ t.at \notin Active
  BY <1>1, RecordFacts DEF Txn, Transactions, Active, Before, After
<1>3. txn' = [txn EXCEPT ![p] = t] /\ lock' = None
  BY DEF Refuse, Ends, Update
<1>4. txn \in [Procs -> Transactions]
  BY DEF StoreInv, StoreTypes
<1> HIDE DEF t
<1>5. Classified(t) /\ Undisturbed(p)'
  BY <1>2, <1>3, <1>4 DEF Classified, Undisturbed, Active, Before, After
<1>6. ASSUME clock.foreign = 0, NEW c \in Catalogs, Floor(c)
      PROVE  AtLeast(record', c) /\ (t.at \in Active => AtLeast(t.snap, c))
  BY <1>2, <1>6 DEF Floor
<1> QED BY <1>1, <1>2, <1>3, <1>5, <1>6, HolderStep

\* The lock is taken and the record read, or the wait for the lock ends.
LEMMA BeginStep ==
  ASSUME StoreInv, NEW p \in Procs, Begin(p),
         clock' \in [updates : Nat, others : Nat, foreign : Nat, losses : Nat],
         clock'.foreign = clock.foreign
  PROVE  StoreInv' /\ \A c \in Catalogs : Floor(c) => Floor(c)'
<1>0. record \in Records /\ txn[p].at = "idle" /\ txn \in [Procs -> Transactions]
  BY DEF StoreInv, StoreTypes, Begin, At
<1>1. CASE lock = None /\ lock' = p /\
           Update(p, Txn("verify", ReadRecordSnapshot, NoCatalog, None, NoRecord, FALSE))
  <2> DEFINE t == Txn("verify", record, NoCatalog, None, NoRecord, FALSE)
  <2>1. t \in Transactions /\ t.at = "verify" /\ t.snap = record /\ t.at \in Active /\ ~t.ok
    BY <1>0, RecordFacts DEF Txn, Transactions, Active, Before
  <2>2. /\ txn' = [txn EXCEPT ![p] = t] /\ lock' = p
        /\ UNCHANGED <<bundle, record, durable, accepted>>
    BY <1>1 DEF Update, Begin, ReadRecordSnapshot
  <2> HIDE DEF t
  <2>3. Classified(t) /\ Undisturbed(p)'
    BY <1>0, <2>1, <2>2 DEF Classified, Undisturbed, Active, Before, After
  <2>4. ASSUME clock.foreign = 0, NEW c \in Catalogs, Floor(c)
        PROVE  AtLeast(record', c) /\ (t.at \in Active => AtLeast(t.snap, c))
    BY <2>1, <2>2, <2>4 DEF Floor
  <2> QED BY <1>0, <1>1, <2>1, <2>2, <2>3, <2>4, HolderStep
<1>2. CASE LockTimesOut /\ Update(p, Txn("done", NoRecord, NoCatalog, None, NoRecord, FALSE))
  <2> DEFINE t == Txn("done", NoRecord, NoCatalog, None, NoRecord, FALSE)
  <2>1. t \in Transactions /\ t.at \notin Active /\ ~t.ok
    BY RecordFacts DEF Txn, Transactions, Active, Before, After
  <2>2. txn[p].at \notin Active
    BY <1>0 DEF Active, Before, After
  <2>3. txn' = [txn EXCEPT ![p] = t] /\ UNCHANGED <<bundle, record, durable, lock, accepted>>
    BY <1>2 DEF Update, Begin, LockTimesOut
  <2> HIDE DEF t
  <2> QED BY <2>1, <2>2, <2>3, AsideStep
<1> QED BY <1>1, <1>2 DEF Begin, AcquireLock

\* What the classification of a candidate says about the two revisions.
LEMMA DecisionFacts ==
  ASSUME NEW c \in Catalogs, c.rev # 0, NEW r \in Records,
         Decision(c, ParseRecord(r)) # "reject"
  PROVE  LET d == Decision(c, ParseRecord(r)) IN
         /\ d \in {"new", "advance", "idempotent"}
         /\ d = "idempotent" => c.rev = r.rev /\ c.id = r.id
         /\ d # "idempotent" => c.rev > r.rev
<1>1. c.rev \in Nat /\ r.rev \in Nat
  BY CatalogFacts DEF Records
<1> QED BY <1>1 DEF Decision, ParseRecord

LEMMA VerifyStep ==
  ASSUME StoreInv, NEW p \in Procs, NEW expected, Verify(p, expected)
  PROVE  StoreInv' /\ \A c \in Catalogs : Floor(c) => Floor(c)'
<1> DEFINE c0 == VerifyPolicyCatalog
           d == Decision(c0, ParseRecord(txn[p].snap))
           t == Txn("recheck", txn[p].snap, c0, d, NoRecord, FALSE)
<1>0. txn[p].at = "verify" /\ txn[p].at \in Active
  BY DEF Verify, At, Active, Before
<1>1. CASE c0 # NoCatalog /\ d # "reject" /\ Update(p, t) /\ UNCHANGED lock
  <2>1. c0 \in Catalogs /\ c0.rev # 0
    BY <1>1 DEF VerifyPolicyCatalog, Verified
  <2>2. txn[p].snap \in Records /\ Undisturbed(p) /\ txn \in [Procs -> Transactions]
    BY <1>0, InTransaction DEF StoreInv, StoreTypes
  <2>3. /\ d \in {"new", "advance", "idempotent"}
        /\ d = "idempotent" => c0.rev = txn[p].snap.rev /\ c0.id = txn[p].snap.id
        /\ d # "idempotent" => c0.rev > txn[p].snap.rev
    BY <1>1, <2>1, <2>2, DecisionFacts
  <2> HIDE DEF c0, d
  <2>4. /\ t \in Transactions /\ t.at = "recheck" /\ t.snap = txn[p].snap /\ t.cand = c0
        /\ t.decision = d /\ t.at \in Active
    BY <2>1, <2>2, <2>3, RecordFacts DEF Txn, Transactions, Active, Before
  <2>5. /\ txn' = [txn EXCEPT ![p] = t]
        /\ UNCHANGED <<bundle, record, durable, lock, accepted, clock>>
    BY <1>1 DEF Verify, Update
  <2> HIDE DEF t
  <2>6. Classified(t)
    BY <2>1, <2>3, <2>4 DEF Classified, Signed, Active, Before, After
  <2>7. Undisturbed(p)'
    BY <1>0, <2>2, <2>4, <2>5 DEF Undisturbed, Before, After
  <2> QED BY <1>0, <2>4, <2>5, <2>6, <2>7, StaysStep
<1>2. CASE Refuse(p)
  BY <1>0, <1>2, RefuseStep DEF Verify
<1> QED BY <1>1, <1>2 DEF Verify

\* A step of a transaction that only moves on.
LEMMA MovesOn ==
  ASSUME StoreInv, NEW p \in Procs, NEW label \in Active, txn[p].at \in Active,
         Goto(p, label), UNCHANGED <<bundle, record, lock, accepted, clock>>
  PROVE  \E t \in Transactions :
           /\ t.at = label /\ t.snap = txn[p].snap /\ t.cand = txn[p].cand
           /\ t.decision = txn[p].decision /\ t.temp = txn[p].temp /\ ~t.ok
           /\ txn' = [txn EXCEPT ![p] = t] /\ txn'[p] = t
<1> DEFINE t == Txn(label, txn[p].snap, txn[p].cand, txn[p].decision, txn[p].temp, FALSE)
<1>1. /\ txn[p].snap \in Records /\ txn[p].cand \in Catalogs \cup {NoCatalog}
      /\ txn[p].decision \in {None, "new", "advance", "idempotent", "reject", "stuck"}
      /\ txn[p].temp \in Records
  BY InTransaction
<1>2. /\ t \in Transactions /\ t.at = label /\ t.snap = txn[p].snap /\ t.cand = txn[p].cand
      /\ t.decision = txn[p].decision /\ t.temp = txn[p].temp /\ ~t.ok
  BY <1>1 DEF Txn, Transactions
<1>3. txn' = [txn EXCEPT ![p] = t] /\ txn \in [Procs -> Transactions]
  BY DEF Goto, Update, StoreInv, StoreTypes
<1> HIDE DEF t
<1> QED BY <1>2, <1>3

LEMMA RecheckStep ==
  ASSUME StoreInv, NEW p \in Procs, Recheck(p)
  PROVE  StoreInv' /\ \A c \in Catalogs : Floor(c) => Floor(c)'
<1>0. txn[p].at = "recheck" /\ txn[p].at \in Active
  BY DEF Recheck, At, Active, Before
<1>1. CASE /\ Goto(p, IF txn[p].decision = "idempotent" THEN "same" ELSE "stage")
           /\ UNCHANGED lock
  <2> DEFINE label == IF txn[p].decision = "idempotent" THEN "same" ELSE "stage"
  <2>1. label \in Active
    BY DEF Active, Before
  <2>2. UNCHANGED <<bundle, record, durable, lock, accepted, clock>>
    BY <1>1 DEF Recheck
  <2>3. PICK t \in Transactions :
           /\ t.at = label /\ t.snap = txn[p].snap /\ t.cand = txn[p].cand
           /\ t.decision = txn[p].decision
           /\ txn' = [txn EXCEPT ![p] = t] /\ txn'[p] = t
    BY <1>0, <1>1, <2>1, <2>2, MovesOn
  <2>4. Classified(txn[p]) /\ Undisturbed(p)
    BY <1>0, InTransaction
  <2>5. Classified(t)
    BY <1>0, <2>3, <2>4 DEF Classified, Active, Before, After
  <2>6. Undisturbed(p)'
    BY <1>0, <2>2, <2>3, <2>4 DEF Undisturbed, Before, After
  <2>7. t.at \in Active
    BY <2>1, <2>3
  <2> QED BY <1>0, <2>2, <2>3, <2>5, <2>6, <2>7, StaysStep
<1>2. CASE Refuse(p)
  BY <1>0, <1>2, RefuseStep DEF Recheck
<1> QED BY <1>1, <1>2 DEF Recheck

\* A transaction that ends with its record, or an equal one, in place.
LEMMA SuccessStep ==
  ASSUME StoreInv, NEW p \in Procs, txn[p].at \in Active \ {"verify"}, Ends(p, TRUE),
         UNCHANGED <<bundle, record, durable, clock>>,
         clock.foreign = 0 => AtLeast(record, txn[p].cand),
         \/ UNCHANGED accepted
         \/ accepted' = NoCatalog
         \/ /\ clock.foreign = 0 /\ accepted' = txn[p].cand
            /\ AtLeast(durable, txn[p].cand)
  PROVE  StoreInv' /\ \A c \in Catalogs : Floor(c) => Floor(c)'
<1> DEFINE t == Txn("done", NoRecord, txn[p].cand, None, NoRecord, TRUE)
<1>1. /\ lock = p /\ record \in Records /\ txn[p].cand \in Catalogs \cup {NoCatalog}
      /\ clock \in [updates : Nat, others : Nat, foreign : Nat, losses : Nat]
      /\ Signed(txn[p].cand)
  BY InTransaction DEF Classified
<1>2. /\ t \in Transactions /\ t.at = "done" /\ t.cand = txn[p].cand /\ t.at \notin Active
  BY <1>1, RecordFacts DEF Txn, Transactions, Active, Before, After
<1>3. txn' = [txn EXCEPT ![p] = t] /\ lock' = None
  BY DEF Ends, Update
<1>4. txn \in [Procs -> Transactions]
  BY DEF StoreInv, StoreTypes
<1> HIDE DEF t
<1>5. Classified(t) /\ Undisturbed(p)'
  BY <1>2, <1>3, <1>4 DEF Classified, Undisturbed, Active, Before, After
<1>6. ASSUME clock.foreign = 0, NEW c \in Catalogs, Floor(c)
      PROVE  AtLeast(record', c) /\ (t.at \in Active => AtLeast(t.snap, c))
  BY <1>2, <1>6 DEF Floor
<1>7. \/ UNCHANGED accepted
      \/ accepted' = NoCatalog
      \/ /\ accepted' \in Catalogs /\ clock.foreign = 0 /\ t.at \notin Active
         /\ AtLeast(record', accepted') /\ AtLeast(durable', accepted')
  BY <1>1, <1>2 DEF Signed
<1>8. t.at = "done" /\ t.ok => Signed(t.cand) /\ (clock.foreign = 0 => AtLeast(record', t.cand))
  BY <1>1, <1>2
<1>9. clock'.foreign = clock.foreign /\ lock' = (IF t.at \in Active THEN p ELSE None)
  BY <1>2, <1>3
<1> QED BY <1>1, <1>2, <1>3, <1>5, <1>6, <1>7, <1>8, <1>9, HolderStep

LEMMA CommitSameStep ==
  ASSUME StoreInv, NEW p \in Procs, CommitSame(p)
  PROVE  StoreInv' /\ \A c \in Catalogs : Floor(c) => Floor(c)'
<1>0. /\ txn[p].at = "same" /\ txn[p].at \in Active /\ txn[p].at # "verify"
      /\ UNCHANGED <<bundle, record, durable, accepted, clock>>
  BY DEF CommitSame, At, Active, Before
<1>1. CASE ReadRecordSnapshot = txn[p].snap /\ Ends(p, TRUE)
  <2>1. txn[p].cand.rev = txn[p].snap.rev /\ txn[p].cand.id = txn[p].snap.id
    BY <1>0, InTransaction DEF Classified
  <2>2. record.rev \in Nat
    BY <1>0, InTransaction DEF Records
  <2>3. AtLeast(record, txn[p].cand)
    BY <1>1, <2>1, <2>2 DEF AtLeast, ReadRecordSnapshot
  <2> QED BY <1>0, <1>1, <2>3, SuccessStep
<1>2. CASE Refuse(p)
  BY <1>0, <1>2, RefuseStep
<1> QED BY <1>1, <1>2 DEF CommitSame

LEMMA StageStep ==
  ASSUME StoreInv, NEW p \in Procs, Stage(p)
  PROVE  StoreInv' /\ \A c \in Catalogs : Floor(c) => Floor(c)'
<1>0. txn[p].at = "stage" /\ txn[p].at \in Active
  BY DEF Stage, At, Active, Before
<1> DEFINE m == Record(txn[p].cand, p)
           t == Txn("publish", txn[p].snap, txn[p].cand, txn[p].decision, m, FALSE)
<1>1. CASE Update(p, t) /\ UNCHANGED lock
  <2>1. /\ txn[p].snap \in Records /\ txn[p].cand \in Catalogs \cup {NoCatalog}
        /\ txn[p].decision \in {None, "new", "advance", "idempotent", "reject", "stuck"}
        /\ m \in Records /\ Classified(txn[p]) /\ Undisturbed(p)
    BY <1>0, InTransaction, RecordFacts
  <2>2. /\ txn' = [txn EXCEPT ![p] = t] /\ txn \in [Procs -> Transactions]
        /\ UNCHANGED <<bundle, record, durable, lock, accepted, clock>>
    BY <1>1 DEF Update, Stage, StoreInv, StoreTypes
  <2> HIDE DEF m
  <2>3. /\ t \in Transactions /\ t.at = "publish" /\ t.snap = txn[p].snap /\ t.temp = m
        /\ t.cand = txn[p].cand /\ t.decision = txn[p].decision /\ t.at \in Active
    BY <2>1 DEF Txn, Transactions, Active, Before
  <2> HIDE DEF t
  <2>4. Classified(t)
    BY <1>0, <2>1, <2>3 DEF Classified, Active, Before, After
  <2>5. Undisturbed(p)'
    BY <1>0, <2>1, <2>2, <2>3 DEF Undisturbed, Before, After, m
  <2> QED BY <1>0, <2>2, <2>3, <2>4, <2>5, StaysStep
<1>2. CASE Refuse(p)
  BY <1>0, <1>2, RefuseStep DEF Stage
<1> QED BY <1>1, <1>2 DEF Stage

LEMMA PublishStep ==
  ASSUME StoreInv, NEW p \in Procs, Publish(p)
  PROVE  StoreInv' /\ \A c \in Catalogs : Floor(c) => Floor(c)'
<1>0. txn[p].at = "publish" /\ txn[p].at \in Active
  BY DEF Publish, At, Active, Before
<1>1. CASE /\ PublishRecord(p) /\ UNCHANGED lock
           /\ Update(p, Txn("verifyPublished", txn[p].snap, txn[p].cand, txn[p].decision, record, FALSE))
  <2> DEFINE m == Record(txn[p].cand, p)
             t == Txn("verifyPublished", txn[p].snap, txn[p].cand, txn[p].decision, record, FALSE)
  <2>1. /\ txn[p].snap \in Records /\ txn[p].cand \in Catalogs \cup {NoCatalog}
        /\ txn[p].decision \in {None, "new", "advance", "idempotent", "reject", "stuck"}
        /\ record \in Records /\ lock = p /\ Classified(txn[p]) /\ Undisturbed(p)
        /\ m \in Records /\ m.rev = txn[p].cand.rev
        /\ clock \in [updates : Nat, others : Nat, foreign : Nat, losses : Nat]
    BY <1>0, InTransaction, RecordFacts
  <2>2. record' = m
    BY <1>0, <1>1, <2>1 DEF PublishRecord, Undisturbed
  <2>3. /\ txn' = [txn EXCEPT ![p] = t] /\ txn \in [Procs -> Transactions]
        /\ UNCHANGED <<bundle, durable, lock, accepted, clock>>
    BY <1>1 DEF Update, Publish, StoreInv, StoreTypes
  <2>4. /\ t \in Transactions /\ t.at = "verifyPublished" /\ t.snap = txn[p].snap /\ t.temp = record
        /\ t.cand = txn[p].cand /\ t.decision = txn[p].decision /\ t.at \in Active /\ t.at # "done"
    BY <2>1 DEF Txn, Transactions, Active, After
  <2> HIDE DEF t
  <2>5. Classified(t)
    BY <1>0, <2>1, <2>4 DEF Classified, Active, Before, After
  <2>6. Undisturbed(p)'
    BY <1>0, <2>1, <2>2, <2>3, <2>4 DEF Undisturbed, Before, After
  <2>7. ASSUME clock.foreign = 0, NEW c \in Catalogs, Floor(c)
        PROVE  AtLeast(record', c) /\ (t.at \in Active => AtLeast(t.snap, c))
    <3>1. AtLeast(txn[p].snap, c)
      BY <1>0, <2>7 DEF Floor
    <3>2. txn[p].cand.rev > txn[p].snap.rev
      BY <1>0, <2>1 DEF Classified, Active, Before, After
    <3>3. txn[p].cand.rev \in Nat /\ txn[p].snap.rev \in Nat /\ c.rev \in Nat
      BY <2>1, CatalogFacts DEF Records
    <3> HIDE DEF m
    <3> QED BY <2>1, <2>2, <2>4, <3>1, <3>2, <3>3 DEF AtLeast
  <2> HIDE DEF m
  <2> QED BY <2>1, <2>2, <2>3, <2>4, <2>5, <2>6, <2>7, HolderStep
<1>2. CASE Refuse(p) /\ UNCHANGED record
  BY <1>0, <1>2, RefuseStep DEF Publish
<1> QED BY <1>1, <1>2 DEF Publish

\* An undo that is itself refused ends the transaction without success.
LEMMA StuckStep ==
  ASSUME StoreInv, NEW p \in Procs, txn[p].at \in Active,
         Update(p, Txn("done", NoRecord, txn[p].cand, "stuck", NoRecord, FALSE)), lock' = None,
         UNCHANGED <<bundle, record, durable, accepted, clock>>
  PROVE  StoreInv' /\ \A c \in Catalogs : Floor(c) => Floor(c)'
<1> DEFINE t == Txn("done", NoRecord, txn[p].cand, "stuck", NoRecord, FALSE)
<1>1. /\ lock = p /\ record \in Records /\ txn[p].cand \in Catalogs \cup {NoCatalog}
      /\ clock \in [updates : Nat, others : Nat, foreign : Nat, losses : Nat]
  BY InTransaction
<1>2. t \in Transactions /\ t.at = "done" /\ ~t.ok /\ t.at \notin Active
  BY <1>1, RecordFacts DEF Txn, Transactions, Active, Before, After
<1>3. txn' = [txn EXCEPT ![p] = t] /\ txn \in [Procs -> Transactions]
  BY DEF Update, StoreInv, StoreTypes
<1> HIDE DEF t
<1>4. Classified(t) /\ Undisturbed(p)'
  BY <1>2, <1>3 DEF Classified, Undisturbed, Active, Before, After
<1>5. ASSUME clock.foreign = 0, NEW c \in Catalogs, Floor(c)
      PROVE  AtLeast(record', c) /\ (t.at \in Active => AtLeast(t.snap, c))
  BY <1>2, <1>5 DEF Floor
<1> QED BY <1>1, <1>2, <1>3, <1>4, <1>5, HolderStep

LEMMA VerifyPublishedStep ==
  ASSUME StoreInv, NEW p \in Procs, VerifyPublished(p)
  PROVE  StoreInv' /\ \A c \in Catalogs : Floor(c) => Floor(c)'
<1>0. txn[p].at = "verifyPublished" /\ txn[p].at \in Active
  BY DEF VerifyPublished, At, Active, After
<1>1. /\ lock = p /\ record \in Records /\ txn[p].temp \in Records
      /\ txn[p].cand \in Catalogs \cup {NoCatalog}
      /\ clock \in [updates : Nat, others : Nat, foreign : Nat, losses : Nat]
      /\ Classified(txn[p]) /\ Undisturbed(p)
  BY <1>0, InTransaction
<1>2. CASE /\ Goto(p, "sync")
           /\ UNCHANGED <<bundle, record, durable, lock, accepted, clock>>
  <2>1. PICK t \in Transactions :
           /\ t.at = "sync" /\ t.snap = txn[p].snap /\ t.cand = txn[p].cand
           /\ t.decision = txn[p].decision /\ t.temp = txn[p].temp
           /\ txn' = [txn EXCEPT ![p] = t] /\ txn'[p] = t
    <3>1. "sync" \in Active
      BY DEF Active, After
    <3> QED BY <1>0, <1>2, <3>1, MovesOn
  <2>2. Classified(t)
    BY <1>0, <1>1, <2>1 DEF Classified, Active, Before, After
  <2>3. Undisturbed(p)'
    BY <1>0, <1>1, <1>2, <2>1 DEF Undisturbed, Before, After
  <2>4. t.at \in Active
    BY <2>1 DEF Active, After
  <2> QED BY <1>0, <1>2, <2>1, <2>2, <2>3, <2>4, StaysStep
<1>3. CASE /\ record' = txn[p].temp /\ durable' \in {durable, record'} /\ Ends(p, FALSE)
           /\ UNCHANGED <<bundle, accepted, clock>>
  <2> DEFINE t == Txn("done", NoRecord, txn[p].cand, None, NoRecord, FALSE)
  <2>2. t \in Transactions /\ t.at = "done" /\ ~t.ok /\ t.at \notin Active
    BY <1>1, RecordFacts DEF Txn, Transactions, Active, Before, After
  <2>3. txn' = [txn EXCEPT ![p] = t] /\ lock' = None /\ txn \in [Procs -> Transactions]
    BY <1>3 DEF Ends, Update, StoreInv, StoreTypes
  <2> HIDE DEF t
  <2>4. Classified(t) /\ Undisturbed(p)'
    BY <2>2, <2>3 DEF Classified, Undisturbed, Active, Before, After
  <2>5. ASSUME clock.foreign = 0, NEW c \in Catalogs, Floor(c)
        PROVE  AtLeast(record', c) /\ (t.at \in Active => AtLeast(t.snap, c))
    <3>1. txn[p].temp = txn[p].snap
      BY <1>0, <1>1, <2>5 DEF Undisturbed, After
    <3> QED BY <1>0, <1>3, <2>2, <2>5, <3>1 DEF Floor
  <2> QED BY <1>1, <1>3, <2>2, <2>3, <2>4, <2>5, HolderStep
<1>4. CASE /\ Update(p, Txn("done", NoRecord, txn[p].cand, "stuck", NoRecord, FALSE))
           /\ lock' = None /\ UNCHANGED <<bundle, record, durable, accepted, clock>>
  BY <1>0, <1>4, StuckStep
<1> QED BY <1>2, <1>3, <1>4 DEF VerifyPublished, RollbackPublication

LEMMA SyncStep ==
  ASSUME StoreInv, NEW p \in Procs, Sync(p)
  PROVE  StoreInv' /\ \A c \in Catalogs : Floor(c) => Floor(c)'
<1>0. txn[p].at = "sync" /\ txn[p].at \in Active
  BY DEF Sync, At, Active, After
<1>1. /\ lock = p /\ record \in Records
      /\ clock \in [updates : Nat, others : Nat, foreign : Nat, losses : Nat]
      /\ Classified(txn[p]) /\ Undisturbed(p)
  BY <1>0, InTransaction
<1>2. CASE durable' = record /\ Goto(p, "report") /\ UNCHANGED lock
  <2>1. UNCHANGED <<bundle, record, lock, accepted, clock>>
    BY <1>2 DEF Sync
  <2>2. PICK t \in Transactions :
           /\ t.at = "report" /\ t.snap = txn[p].snap /\ t.cand = txn[p].cand
           /\ t.decision = txn[p].decision /\ t.temp = txn[p].temp
           /\ txn' = [txn EXCEPT ![p] = t] /\ txn'[p] = t
    <3>1. "report" \in Active
      BY DEF Active, After
    <3> QED BY <1>0, <1>2, <2>1, <3>1, MovesOn
  <2>3. Classified(t)
    BY <1>0, <1>1, <2>2 DEF Classified, Active, Before, After
  <2>4. Undisturbed(p)'
    BY <1>0, <1>1, <1>2, <2>1, <2>2 DEF Undisturbed, Before, After
  <2>5. t.at \in Active /\ t.at # "done"
    BY <2>2 DEF Active, After
  <2>6. ASSUME clock.foreign = 0, NEW c \in Catalogs, Floor(c)
        PROVE  AtLeast(record', c) /\ (t.at \in Active => AtLeast(t.snap, c))
    BY <1>0, <2>1, <2>2, <2>6 DEF Floor
  <2> QED BY <1>1, <1>2, <2>1, <2>2, <2>3, <2>4, <2>5, <2>6, HolderStep
<1>3. CASE Refuse(p) /\ UNCHANGED durable
  BY <1>0, <1>3, RefuseStep DEF Sync
<1> QED BY <1>2, <1>3 DEF Sync

LEMMA ReportStep ==
  ASSUME StoreInv, NEW p \in Procs, Report(p)
  PROVE  StoreInv' /\ \A c \in Catalogs : Floor(c) => Floor(c)'
<1>0. /\ txn[p].at = "report" /\ txn[p].at \in Active /\ txn[p].at # "verify"
      /\ UNCHANGED <<bundle, record, durable, clock>>
  BY DEF Report, At, Active, After
<1>1. CASE /\ PublishedIsMine(p) /\ Ends(p, TRUE)
           /\ accepted' = IF clock.foreign = 0 THEN txn[p].cand ELSE NoCatalog
  <2>1. /\ record = Record(txn[p].cand, p) /\ p \in Files /\ record \in Records
        /\ txn[p].cand \in Catalogs \cup {NoCatalog} /\ Undisturbed(p)
    BY <1>0, <1>1, InTransaction DEF PublishedIsMine
  <2>2. record.rev = txn[p].cand.rev /\ record.id = txn[p].cand.id /\ record.rev \in Nat
    BY <2>1, RecordFacts DEF Records
  <2>3. AtLeast(record, txn[p].cand)
    BY <2>2 DEF AtLeast
  <2>4. clock.foreign = 0 => durable = record
    BY <1>0, <2>1 DEF Undisturbed
  <2> QED BY <1>0, <1>1, <2>3, <2>4, SuccessStep
<1>2. CASE Refuse(p) /\ UNCHANGED accepted
  BY <1>0, <1>2, RefuseStep
<1> QED BY <1>1, <1>2 DEF Report

LEMMA TransactStep ==
  ASSUME StoreInv, NEW p \in Procs, NEW expected, Transact(p, expected)
  PROVE  StoreInv' /\ \A c \in Catalogs : Floor(c) => Floor(c)'
BY VerifyStep, RecheckStep, CommitSameStep, StageStep, PublishStep, VerifyPublishedStep, SyncStep,
   ReportStep DEF Transact
-----------------------------------------------------------------------------
(* The environment *)

LEMMA NoTxnFacts == NoTxn \in Transactions /\ NoTxn.at = "idle" /\ ~NoTxn.ok /\ NoTxn.at \notin Active
BY RecordFacts DEF NoTxn, Txn, Transactions, Active, Before, After

\* The caller takes the result of a transaction that ended.
LEMMA ConsumedStep ==
  ASSUME StoreInv, NEW p \in Procs, At(p, "done"), txn' = [txn EXCEPT ![p] = NoTxn],
         UNCHANGED <<bundle, record, durable, lock, accepted, clock>>
  PROVE  StoreInv' /\ \A c \in Catalogs : Floor(c) => Floor(c)'
<1>1. txn[p].at \notin Active
  BY DEF At, Active, Before, After
<1>2. clock \in [updates : Nat, others : Nat, foreign : Nat, losses : Nat]
  BY DEF StoreInv, StoreTypes
<1> QED BY <1>1, <1>2, NoTxnFacts, AsideStep

LEMMA DiesStep ==
  ASSUME StoreInv, NEW p \in Procs, ProcessDies(p)
  PROVE  StoreInv' /\ \A c \in Catalogs : Floor(c) => Floor(c)'
<1>0. /\ txn' = [txn EXCEPT ![p] = NoTxn] /\ lock' = IF lock = p THEN None ELSE lock
      /\ UNCHANGED <<bundle, record, durable, accepted, clock>>
      /\ clock \in [updates : Nat, others : Nat, foreign : Nat, losses : Nat]
      /\ record \in Records /\ txn \in [Procs -> Transactions]
      /\ txn[p].at \in Active <=> lock = p
  BY DEF ProcessDies, StoreInv, StoreTypes, Locked
<1>1. CASE txn[p].at \in Active
  <2>1. lock = p /\ lock' = None
    BY <1>0, <1>1
  <2>2. Classified(NoTxn) /\ Undisturbed(p)'
    BY <1>0, NoTxnFacts DEF Classified, Undisturbed, Active, Before, After
  <2>3. ASSUME clock.foreign = 0, NEW c \in Catalogs, Floor(c)
        PROVE  AtLeast(record', c) /\ (NoTxn.at \in Active => AtLeast(NoTxn.snap, c))
    BY <1>0, <2>3, NoTxnFacts DEF Floor
  <2> QED BY <1>0, <2>1, <2>2, <2>3, NoTxnFacts, HolderStep
<1>2. CASE txn[p].at \notin Active
  <2>1. UNCHANGED lock
    BY <1>0, <1>2
  <2> QED BY <1>0, <1>2, <2>1, NoTxnFacts, AsideStep
<1> QED BY <1>1, <1>2

\* One tick of the environment's clock.
LEMMA TickFacts ==
  ASSUME StoreInv, NEW u \in {0, 1}, NEW o \in {0, 1}, NEW f \in {0, 1}, NEW l \in {0, 1},
         Ticks(u, o, f, l)
  PROVE  /\ clock' \in [updates : Nat, others : Nat, foreign : Nat, losses : Nat]
         /\ clock'.foreign = clock.foreign + f /\ clock.foreign \in Nat
BY DEF StoreInv, StoreTypes, Ticks, Clock

LEMMA UpdateStep ==
  ASSUME StoreInv, BundleUpdate
  PROVE  StoreInv' /\ \A c \in Catalogs : Floor(c) => Floor(c)'
<1>1. /\ bundle' \in Catalogs /\ UNCHANGED <<record, durable, lock, txn, accepted>>
      /\ Ticks(1, 0, 0, 0)
  BY DEF BundleUpdate
<1>2. /\ clock' \in [updates : Nat, others : Nat, foreign : Nat, losses : Nat]
      /\ clock'.foreign = clock.foreign
  BY <1>1, TickFacts
<1>3. \A c : Floor(c) => Floor(c)'
  BY <1>1, <1>2 DEF Floor
<1>4. StoreTypes' /\ Locked'
  BY <1>1, <1>2 DEF StoreInv, StoreTypes, Locked
<1>5. Steady'
  BY <1>1, <1>2 DEF StoreInv, Steady, Undisturbed
<1>6. AcceptedHolds' /\ ResultsHold'
  BY <1>1, <1>2, <1>3 DEF StoreInv, AcceptedHolds, ResultsHold
<1> QED BY <1>3, <1>4, <1>5, <1>6 DEF StoreInv

\* After a write from outside, nothing is promised of the revisions; what a
\* transaction still knows is that the file it meets is not its own.
LEMMA ForeignStep ==
  ASSUME StoreInv, ForeignWrite
  PROVE  StoreInv' /\ \A c \in Catalogs : Floor(c) => Floor(c)'
<1>1. /\ durable' \in {durable, record'} /\ accepted' = NoCatalog
      /\ UNCHANGED <<bundle, lock, txn>> /\ Ticks(0, 0, 1, 0)
  BY DEF ForeignWrite
<1>2. record' \in Records /\ record'.file = "foreign"
  <2>1. PICK c \in Catalogs : record' = Record(c, "foreign")
    BY DEF ForeignWrite
  <2>2. "foreign" \in Files
    BY DEF Files
  <2> QED BY <2>1, <2>2, RecordFacts
<1>3. /\ clock' \in [updates : Nat, others : Nat, foreign : Nat, losses : Nat]
      /\ clock'.foreign = clock.foreign + 1 /\ clock.foreign \in Nat
  BY <1>1, TickFacts
<1>4. clock'.foreign # 0
  BY <1>3
<1>5. \A c : Floor(c)'
  BY <1>4 DEF Floor
<1>6. StoreTypes' /\ Locked'
  BY <1>1, <1>2, <1>3 DEF StoreInv, StoreTypes, Locked
<1>7. Steady'
  BY <1>1, <1>2, <1>4 DEF StoreInv, Steady, Undisturbed
<1>8. AcceptedHolds' /\ ResultsHold'
  BY <1>1, <1>5 DEF StoreInv, AcceptedHolds, ResultsHold
<1> QED BY <1>5, <1>6, <1>7, <1>8 DEF StoreInv

\* A power loss ends every transaction; what is left is at least what was
\* reported, because it is the record or what was synchronized.
LEMMA LossStep ==
  ASSUME StoreInv, PowerLoss
  PROVE  StoreInv'
<1>1. /\ record' \in {record, durable} /\ durable' = record' /\ lock' = None
      /\ txn' = [p \in Procs |-> NoTxn] /\ UNCHANGED <<bundle, accepted>> /\ Ticks(0, 0, 0, 1)
  BY DEF PowerLoss
<1>2. /\ clock' \in [updates : Nat, others : Nat, foreign : Nat, losses : Nat]
      /\ clock'.foreign = clock.foreign
  BY <1>1, TickFacts
<1>3. \A p \in Procs : txn'[p] = NoTxn
  BY <1>1
<1>4. StoreTypes'
  BY <1>1, <1>2, NoTxnFacts DEF StoreInv, StoreTypes
<1>5. Locked'
  BY <1>1, <1>3, NoTxnFacts, ProcsAssumption DEF Locked, None
<1>6. Steady'
  <2>1. Classified(NoTxn)
    BY NoTxnFacts DEF Classified, Active, Before, After
  <2>2. \A p \in Procs : Undisturbed(p)'
    BY <1>3, NoTxnFacts DEF Undisturbed, Active, Before, After
  <2> QED BY <1>3, <2>1, <2>2 DEF Steady
<1>7. AcceptedHolds'
  BY <1>1, <1>2, <1>3, NoTxnFacts DEF StoreInv, AcceptedHolds, Floor
<1>8. ResultsHold'
  BY <1>3, NoTxnFacts DEF ResultsHold
<1> QED BY <1>4, <1>5, <1>6, <1>7, <1>8 DEF StoreInv

LEMMA StoreStarts == ASSUME StoreInit PROVE StoreInv
<1>1. /\ bundle \in Catalogs /\ record \in {NoRecord, Legacy(1)} /\ durable = record /\ lock = None
      /\ txn = [p \in Procs |-> NoTxn] /\ accepted = NoCatalog /\ clock = Clock(0, 0, 0, 0)
  BY DEF StoreInit
<1>2. \A p \in Procs : txn[p] = NoTxn
  BY <1>1
<1>3. clock \in [updates : Nat, others : Nat, foreign : Nat, losses : Nat]
  BY <1>1 DEF Clock
<1>4. StoreTypes
  BY <1>1, <1>3, NoTxnFacts, RecordFacts DEF StoreTypes
<1>5. Locked
  BY <1>1, <1>2, NoTxnFacts, ProcsAssumption DEF Locked, None
<1>6. Steady
  BY <1>2, NoTxnFacts DEF Steady, Classified, Undisturbed, Active, Before, After
<1>7. AcceptedHolds /\ ResultsHold
  BY <1>1, <1>2, NoTxnFacts DEF AcceptedHolds, ResultsHold
<1> QED BY <1>4, <1>5, <1>6, <1>7 DEF StoreInv
-----------------------------------------------------------------------------
(* The commands of the application *)

\* The step keeps every floor the bindings rest on.
Kept == \A c \in Catalogs : Floor(c) => Floor(c)'

LEMMA ProvenKept ==
  ASSUME Kept, NEW b, Proven(b)
  PROVE  Proven(b)'
BY DEF Kept, Proven, Signed

\* A selection that can connect names a verified catalog.
LEMMA BindingFacts ==
  /\ \A v, c : Binding(v, c).variant = v /\ Binding(v, c).cat = c
  /\ \A b : Proven(b) => b # NoBinding
  /\ NoBinding = Binding(NoBinding.variant, NoBinding.cat)
<1>1. \A v, c : Binding(v, c).variant = v /\ Binding(v, c).cat = c
  BY DEF Binding
<1>2. \A b : Proven(b) => b # NoBinding
  BY CatalogFacts DEF Proven, NoBinding
<1>3. NoBinding = Binding(NoBinding.variant, NoBinding.cat)
  BY DEF Binding, NoBinding
<1> QED BY <1>1, <1>2, <1>3

\* The fields of a command and of a generation.
LEMMA FieldFacts ==
  /\ \A o, v, l : /\ Command(o, v, l).op = o /\ Command(o, v, l).variant = v
                  /\ Command(o, v, l).at = l
  /\ NoCommand.op = None /\ NoCommand.at = None
  /\ \A g, b, s : /\ Service(g, b, s).gen = g /\ Service(g, b, s).binding = b
                  /\ Service(g, b, s).st = s
  /\ NoService.gen = 0 /\ NoService.st = None
BY DEF Command, NoCommand, Service, NoService

\* What the preparation knows of its candidate when it keeps a selection.
Bound(e) ==
  \/ txn[App].at \in Active \ {"verify"}
  \/ txn[App].at = "done" /\ txn[App].ok
  => txn[App].cand = e

LEMMA CandidateKept ==
  ASSUME StoreInv, NEW e, e # NoCatalog, Transact(App, e), Bound(e)
  PROVE  Bound(e)'
<1>0. App \in Procs /\ txn \in [Procs -> Transactions]
  BY AppAssumption DEF StoreInv, StoreTypes
<1>1. ASSUME NEW success, Ends(App, success), txn[App].at \in Active \ {"verify"}
      PROVE  Bound(e)'
  BY <1>0, <1>1 DEF Ends, Update, Txn, Bound
<1>2. ASSUME Refuse(App) PROVE Bound(e)'
  <2>1. txn'[App].at = "done" /\ ~txn'[App].ok
    BY <1>0, <1>2 DEF Refuse, Ends, Update, Txn
  <2> QED BY <2>1 DEF Bound, Active, Before, After
<1>3. ASSUME NEW l, NEW s, NEW d, NEW t,
             Update(App, Txn(l, s, txn[App].cand, d, t, FALSE)), txn[App].at \in Active \ {"verify"}
      PROVE  Bound(e)'
  BY <1>0, <1>3 DEF Update, Txn, Bound
<1>4. ASSUME Verify(App, e) PROVE Bound(e)'
  <2> DEFINE c0 == VerifyPolicyCatalog
             d == Decision(c0, ParseRecord(txn[App].snap))
  <2>1. \/ e \in {NoCatalog, c0} /\ Update(App, Txn("recheck", txn[App].snap, c0, d, NoRecord, FALSE))
        \/ Refuse(App)
    BY <1>4 DEF Verify
  <2> HIDE DEF c0, d
  <2>2. ASSUME e \in {NoCatalog, c0},
               Update(App, Txn("recheck", txn[App].snap, c0, d, NoRecord, FALSE))
        PROVE  Bound(e)'
    BY <1>0, <2>2 DEF Update, Txn, Bound
  <2> QED BY <1>2, <2>1, <2>2
<1>5. \A l \in {"recheck", "same", "stage", "publish", "verifyPublished", "sync", "report"} :
         At(App, l) => txn[App].at \in Active \ {"verify"}
  BY DEF At, Active, Before, After
<1>6. ASSUME Recheck(App) PROVE Bound(e)'
  BY <1>2, <1>3, <1>5, <1>6 DEF Recheck, Goto
<1>7. ASSUME CommitSame(App) PROVE Bound(e)'
  BY <1>1, <1>2, <1>5, <1>7 DEF CommitSame
<1>8. ASSUME Stage(App) PROVE Bound(e)'
  BY <1>2, <1>3, <1>5, <1>8 DEF Stage
<1>9. ASSUME Publish(App) PROVE Bound(e)'
  BY <1>2, <1>3, <1>5, <1>9 DEF Publish
<1>10. ASSUME VerifyPublished(App) PROVE Bound(e)'
  BY <1>1, <1>3, <1>5, <1>10 DEF VerifyPublished, RollbackPublication, Goto
<1>11. ASSUME Sync(App) PROVE Bound(e)'
  BY <1>2, <1>3, <1>5, <1>11 DEF Sync, Goto
<1>12. ASSUME Report(App) PROVE Bound(e)'
  BY <1>1, <1>2, <1>5, <1>12 DEF Report
<1> QED BY <1>4, <1>6, <1>7, <1>8, <1>9, <1>10, <1>11, <1>12 DEF Transact

\* The application's state stays while the store takes a step.
LEMMA AppStays ==
  ASSUME AppInv, Kept, UNCHANGED app,
         cmd.op = "connect" /\ cmd.at = "prepare" => Bound(selected.cat)'
  PROVE  AppInv'
<1>1. UNCHANGED <<cmd, selected, factory, svc, built, gens, live>>
  BY DEF app
<1>2. AppTypes' /\ OneOwner'
  BY <1>1 DEF AppInv, AppTypes, OneOwner
<1>3. Selection'
  BY <1>1, ProvenKept DEF AppInv, Selection
<1>4. MutexHolder'
  BY <1>1, ProvenKept DEF AppInv, MutexHolder, Bound
<1> QED BY <1>2, <1>3, <1>4 DEF AppInv

\* Only the command and perhaps the factory change.
LEMMA SlotStays ==
  ASSUME AppInv, Kept, UNCHANGED <<selected, svc, built, gens, live>>,
         factory' = factory \/ factory' # NoBinding,
         cmd'.op \in {None, "initialize", "connect", "select", "disconnect"},
         cmd'.at \in {None, "prepare", "retire", "build", "install", "disconnect"},
         MutexHolder'
  PROVE  AppInv'
<1>1. AppTypes' /\ OneOwner'
  BY DEF AppInv, AppTypes, OneOwner
<1>2. Selection'
  BY ProvenKept DEF AppInv, Selection
<1> QED BY <1>1, <1>2 DEF AppInv

LEMMA BeginCommand ==
  ASSUME StoreInv, AppInv, Kept, NEW op \in {"initialize", "connect", "select"}, NEW v,
         Free, Prepares(op, v), UNCHANGED <<selected, factory, svc, built, gens, live>>,
         op = "initialize" => factory = NoBinding,
         op = "connect" => selected # NoBinding /\ v = selected.variant
  PROVE  AppInv'
<1>1. cmd' = Command(op, v, "prepare") /\ Begin(App)
  BY DEF Prepares
<1>2. cmd'.op = op /\ cmd'.variant = v /\ cmd'.at = "prepare"
  BY <1>1, FieldFacts
<1>3. cmd.at = None
  BY FieldFacts DEF Free
<1>4. Bound(selected.cat)'
  <2>1. txn'[App].at = "verify" \/ (txn'[App].at = "done" /\ ~txn'[App].ok)
    <3>1. App \in Procs /\ txn \in [Procs -> Transactions]
      BY AppAssumption DEF StoreInv, StoreTypes
    <3> QED BY <1>1, <3>1 DEF Begin, Update, Txn
  <2> QED BY <2>1 DEF Bound, Active, Before, After
<1>5. built.gen = 0
  BY <1>3 DEF AppInv, MutexHolder, None
<1>6. MutexHolder'
  BY <1>2, <1>4, <1>5 DEF MutexHolder, Bound
<1> QED BY <1>2, <1>6, SlotStays

\* A command returns: nothing under the mutex is left.
LEMMA Returns ==
  ASSUME cmd' = NoCommand, built'.gen = 0
  PROVE  MutexHolder'
BY FieldFacts DEF MutexHolder, None

\* The result of the preparation is a proven binding.
LEMMA PreparedFacts ==
  ASSUME StoreInv, AppInv, Kept, Finished, txn[App].ok
  PROVE  /\ Proven(Prepared) /\ Prepared # NoBinding
         /\ Prepared = Binding(Prepared.variant, Prepared.cat)
         /\ cmd.op = "connect" => Prepared = selected
         /\ built.gen = 0
<1>1. Signed(txn[App].cand) /\ Floor(txn[App].cand)
  BY AppAssumption DEF StoreInv, ResultsHold, Finished, At
<1>2. Prepared.cat = txn[App].cand /\ Prepared.variant = cmd.variant
  BY BindingFacts DEF Prepared
<1>3. Proven(Prepared)
  BY <1>1, <1>2 DEF Proven
<1>4. Prepared = Binding(Prepared.variant, Prepared.cat)
  BY <1>2 DEF Prepared
<1>5. cmd.op = "connect" => Prepared = selected
  <2>1. ASSUME cmd.op = "connect" PROVE Prepared = selected
    <3>1. cmd.variant = selected.variant /\ txn[App].cand = selected.cat
      BY <2>1 DEF AppInv, MutexHolder, Finished, At
    <3>2. selected = Binding(selected.variant, selected.cat)
      BY DEF AppInv, Selection
    <3> QED BY <3>1, <3>2 DEF Prepared
  <2> QED BY <2>1
<1>6. built.gen = 0
  BY DEF Finished, AppInv, MutexHolder
<1> QED BY <1>3, <1>4, <1>5, <1>6, BindingFacts

LEMMA PrepareFailedKeeps ==
  ASSUME StoreInv, AppInv, Kept, PrepareFailed PROVE AppInv'
<1>1. cmd' = NoCommand /\ UNCHANGED <<selected, factory, svc, built, gens, live>> /\ cmd.at = "prepare"
  BY DEF PrepareFailed, Return, Finished
<1>2. built.gen = 0
  BY <1>1 DEF AppInv, MutexHolder
<1>3. MutexHolder'
  BY <1>1, <1>2, Returns
<1> QED BY <1>1, <1>3, FieldFacts, SlotStays

\* The selection becomes what was prepared, in an empty slot.
LEMMA NewSelection ==
  ASSUME AppInv, Kept, NEW b, Proven(b), b = Binding(b.variant, b.cat),
         selected' = b, svc' = NoService, built'.gen = 0, gens' = gens, live' = {},
         cmd' = NoCommand
  PROVE  AppInv'
<1>1. AppTypes' /\ OneOwner'
  BY FieldFacts DEF AppInv, AppTypes, OneOwner, None
<1>2. Selection'
  BY ProvenKept, FieldFacts DEF Selection
<1>3. MutexHolder'
  BY FieldFacts, Returns
<1> QED BY <1>1, <1>2, <1>3 DEF AppInv

States == {"reserved", "busy", "fresh", "spent", "failed", "recovery"}

\* The generation in the slot goes to another state.
LEMMA ServiceTurns ==
  ASSUME AppInv, Kept, svc # NoService, NEW st \in States, Turns(st),
         UNCHANGED <<selected, gens, live>>, built'.gen = built.gen,
         factory' = factory \/ factory' # NoBinding,
         cmd' = cmd \/ cmd' = NoCommand, MutexHolder'
  PROVE  AppInv'
<1>1. svc'.gen = svc.gen /\ svc'.binding = svc.binding /\ svc'.st = st
  BY FieldFacts DEF Turns
<1>2. svc.gen \in 1..gens /\ svc.gen # 0
  BY DEF AppInv, Selection
<1>3. AppTypes' /\ OneOwner'
  BY <1>1, FieldFacts DEF AppInv, AppTypes, OneOwner, States
<1>4. svc' # NoService
  BY <1>1, <1>2, FieldFacts
<1>5. Selection'
  BY <1>1, <1>2, <1>4, ProvenKept DEF AppInv, Selection
<1> QED BY <1>3, <1>5 DEF AppInv

LEMMA InitializedKeeps ==
  ASSUME StoreInv, AppInv, Kept, Initialized PROVE AppInv'
<1>1. /\ Finished /\ txn[App].ok /\ cmd.op = "initialize"
      /\ selected' = Prepared /\ cmd' = NoCommand /\ UNCHANGED <<svc, built, gens, live>>
  BY DEF Initialized, Return
<1>2. /\ Proven(Prepared) /\ Prepared = Binding(Prepared.variant, Prepared.cat) /\ built.gen = 0
  BY <1>1, PreparedFacts
<1>3. svc = NoService
  BY <1>1 DEF AppInv, MutexHolder, Selection
<1>4. live = {}
  BY <1>2, <1>3, FieldFacts DEF AppInv, OneOwner
<1> QED BY <1>1, <1>2, <1>3, <1>4, NewSelection

LEMMA SelectionPreparedKeeps ==
  ASSUME StoreInv, AppInv, Kept, SelectionPrepared PROVE AppInv'
<1>1. Finished /\ txn[App].ok /\ cmd.op = "select"
  BY DEF SelectionPrepared
<1>2. /\ Proven(Prepared) /\ Prepared = Binding(Prepared.variant, Prepared.cat) /\ built.gen = 0
  BY <1>1, PreparedFacts
<1>3. CASE svc = NoService
  <2>1. selected' = Prepared /\ cmd' = NoCommand /\ UNCHANGED <<svc, built, gens, live>>
    BY <1>3 DEF SelectionPrepared, Return
  <2>2. live = {}
    BY <1>2, <1>3, FieldFacts DEF AppInv, OneOwner
  <2> QED BY <1>2, <1>3, <2>1, <2>2, NewSelection
<1>4. CASE svc # NoService
  <2>1. /\ cmd' = Command(cmd.op, cmd.variant, "retire") /\ built' = Service(0, Prepared, None)
        /\ UNCHANGED <<selected, factory, svc, gens, live>>
    BY <1>4 DEF SelectionPrepared, Goes
  <2>2. cmd'.op = "select" /\ cmd'.at = "retire" /\ built'.gen = 0 /\ built'.binding = Prepared
    BY <1>1, <2>1, FieldFacts
  <2>3. AppTypes' /\ OneOwner'
    BY <1>2, <2>1, <2>2 DEF AppInv, AppTypes, OneOwner
  <2>4. Selection'
    BY <2>1, ProvenKept DEF AppInv, Selection
  <2>5. Proven(built.binding)'
    BY <1>2, <2>2, ProvenKept
  <2>6. MutexHolder'
    BY <1>2, <1>4, <2>1, <2>2, <2>5 DEF MutexHolder
  <2> QED BY <2>3, <2>4, <2>6 DEF AppInv
<1> QED BY <1>3, <1>4

LEMMA AdmitKeeps ==
  ASSUME StoreInv, AppInv, Kept, Admit PROVE AppInv'
<1>1. /\ Finished /\ txn[App].ok /\ cmd.op = "connect" /\ factory' = Prepared
      /\ selected # NoBinding
  BY DEF Admit, Finished, AppInv, MutexHolder
<1>2. Proven(Prepared) /\ Prepared # NoBinding /\ Prepared = selected /\ built.gen = 0
  BY <1>1, PreparedFacts
<1>3. ASSUME Goes("build"), svc = NoService, UNCHANGED <<selected, svc, built, gens, live>>
      PROVE  AppInv'
  <2>1. cmd'.op = "connect" /\ cmd'.at = "build"
    BY <1>1, <1>3, FieldFacts DEF Goes
  <2>2. MutexHolder'
    BY <1>1, <1>2, <1>3, <2>1 DEF MutexHolder
  <2> QED BY <1>1, <1>2, <1>3, <2>1, <2>2, SlotStays
<1>4. ASSUME Goes("retire"), svc # NoService, UNCHANGED <<selected, svc, built, gens, live>>
      PROVE  AppInv'
  <2>1. cmd'.op = "connect" /\ cmd'.at = "retire"
    BY <1>1, <1>4, FieldFacts DEF Goes
  <2>2. MutexHolder'
    BY <1>1, <1>2, <1>4, <2>1 DEF MutexHolder
  <2> QED BY <1>1, <1>2, <1>4, <2>1, <2>2, SlotStays
<1>5. ASSUME svc # NoService, Turns("reserved"), Return(<<selected, built, gens, live>>)
      PROVE  AppInv'
  <2>1. cmd' = NoCommand /\ UNCHANGED <<selected, built, gens, live>>
    BY <1>5 DEF Return
  <2>2. MutexHolder'
    BY <1>2, <2>1, Returns
  <2> QED BY <1>1, <1>2, <1>5, <2>1, <2>2, ServiceTurns DEF States
<1>6. ASSUME Return(<<selected, svc, built, gens, live>>)
      PROVE  AppInv'
  <2>1. cmd' = NoCommand /\ UNCHANGED <<selected, svc, built, gens, live>>
    BY <1>6 DEF Return
  <2>2. MutexHolder'
    BY <1>2, <2>1, Returns
  <2> QED BY <1>1, <1>2, <2>1, <2>2, FieldFacts, SlotStays
<1>7. svc.st \in {"fresh", "spent", "failed"} => svc # NoService
  BY FieldFacts DEF None
<1> HIDE DEF AppInv
<1>8. CASE svc = NoService
  BY <1>3, <1>8, FieldFacts DEF Admit, None
<1>9. CASE svc # NoService
  BY <1>4, <1>5, <1>6, <1>7, <1>9 DEF Admit
<1> QED BY <1>8, <1>9

LEMMA RetireKeeps ==
  ASSUME AppInv, Kept, Retire PROVE AppInv'
<1>1. /\ cmd.at = "retire" /\ svc' = NoService /\ built' = NoService
      /\ live' = live \ {svc.gen} /\ gens' = gens
  BY DEF Retire, Return
<1>2. built.gen = 0 /\ built'.gen = 0 /\ svc # NoService /\ cmd.op \in {"connect", "select"}
  BY <1>1, FieldFacts DEF AppInv, MutexHolder
<1>3. live' = {}
  BY <1>1, <1>2 DEF AppInv, OneOwner
<1>4. CASE cmd.op = "select"
  <2>1. selected' = built.binding /\ cmd' = NoCommand
    BY <1>4 DEF Retire, Return
  <2>2. Proven(built.binding)
    BY <1>1, <1>4 DEF AppInv, MutexHolder
  <2>3. built.binding = Binding(built.binding.variant, built.binding.cat)
    BY <1>1, <1>4 DEF AppInv, MutexHolder
  <2> QED BY <1>1, <1>2, <1>3, <2>1, <2>2, <2>3, NewSelection
<1>5. CASE cmd.op = "connect"
  <2>1. cmd' = Command(cmd.op, cmd.variant, "build") /\ UNCHANGED <<selected, factory>>
    BY <1>5 DEF Retire, Goes
  <2>2. cmd'.op = "connect" /\ cmd'.at = "build"
    BY <1>5, <2>1, FieldFacts
  <2>3. AppTypes' /\ OneOwner'
    BY <1>1, <1>2, <1>3, <2>2, FieldFacts DEF AppInv, AppTypes, OneOwner
  <2>4. Selection'
    BY <1>1, <2>1, FieldFacts, ProvenKept DEF AppInv, Selection
  <2>5. selected # NoBinding /\ factory = selected
    BY <1>1, <1>2, <1>5 DEF AppInv, MutexHolder, Selection
  <2>6. MutexHolder'
    BY <1>1, <1>2, <2>1, <2>2, <2>5 DEF MutexHolder
  <2> QED BY <2>3, <2>4, <2>6 DEF AppInv
<1> QED BY <1>2, <1>4, <1>5

LEMMA RetireRefusedKeeps ==
  ASSUME AppInv, Kept, RetireRefused PROVE AppInv'
<1> DEFINE st == IF svc.st \in {"reserved", "busy"} THEN svc.st ELSE "recovery"
<1>1. /\ cmd.at = "retire" /\ Turns(st) /\ built' = NoService /\ cmd' = NoCommand
      /\ UNCHANGED <<selected, factory, gens, live>>
  BY DEF RetireRefused, Return
<1>2. built.gen = 0 /\ built'.gen = 0 /\ svc # NoService /\ st \in States
  BY <1>1, FieldFacts DEF AppInv, MutexHolder, States
<1>3. MutexHolder'
  BY <1>1, <1>2, Returns
<1> HIDE DEF st
<1> QED BY <1>1, <1>2, <1>3, ServiceTurns

LEMMA BuildKeeps ==
  ASSUME AppInv, Kept, Build PROVE AppInv'
<1>1. /\ cmd.at = "build" /\ cmd.op = "connect" /\ svc = NoService /\ built.gen = 0
      /\ selected # NoBinding /\ factory = selected /\ gens \in Nat /\ gens \in 0..MaxGens
  BY GensAssumption DEF Build, AppInv, AppTypes, MutexHolder
<1>2. ASSUME gens < MaxGens, gens' = gens + 1, live' = live \cup {gens'},
             built' = Service(gens', factory, "reserved"), Goes("install"),
             UNCHANGED <<selected, factory, svc>>
      PROVE  AppInv'
  <2>1. cmd'.op = "connect" /\ cmd'.at = "install"
    BY <1>1, <1>2, FieldFacts DEF Goes
  <2>2. built'.gen = gens' /\ built'.binding = selected' /\ built'.st = "reserved"
    BY <1>1, <1>2, FieldFacts
  <2>3. gens' \in 0..MaxGens /\ gens' # 0 /\ gens' \in 1..gens'
    BY <1>1, <1>2, GensAssumption
  <2>4. AppTypes'
    BY <1>1, <1>2, <2>1, <2>2, <2>3, FieldFacts DEF AppInv, AppTypes
  <2>5. OneOwner'
    <3>1. live = {}
      BY <1>1, FieldFacts DEF AppInv, OneOwner
    <3>2. live' = {gens'} /\ svc'.gen = 0
      BY <1>1, <1>2, <3>1, FieldFacts
    <3> QED BY <2>2, <2>3, <3>2 DEF OneOwner
  <2>6. Selection'
    BY <1>1, <1>2, FieldFacts, ProvenKept DEF AppInv, Selection
  <2>7. MutexHolder'
    BY <1>1, <1>2, <2>1, <2>2, <2>3 DEF MutexHolder
  <2> QED BY <2>4, <2>5, <2>6, <2>7 DEF AppInv
<1>3. ASSUME Return(<<selected, factory, svc, built, gens, live>>) PROVE AppInv'
  <2>1. cmd' = NoCommand /\ UNCHANGED <<selected, factory, svc, built, gens, live>>
    BY <1>3 DEF Return
  <2>2. MutexHolder'
    BY <1>1, <2>1, Returns
  <2> QED BY <2>1, <2>2, FieldFacts, SlotStays
<1> QED BY <1>2, <1>3 DEF Build

LEMMA InstallKeeps ==
  ASSUME AppInv, Kept, Install PROVE AppInv'
<1>1. /\ cmd.at = "install" /\ svc = NoService /\ selected # NoBinding /\ factory = selected
      /\ built.binding = selected /\ built.gen \in 1..gens /\ built.st = "reserved"
      /\ gens \in Nat
  BY GensAssumption DEF Install, AppInv, AppTypes, MutexHolder
<1>2. /\ svc' = built /\ live' = live /\ built' = NoService /\ cmd' = NoCommand
      /\ UNCHANGED <<selected, factory, gens>>
  BY <1>1 DEF Install, Return
<1>3. built.gen # 0 /\ svc' # NoService /\ built'.gen = 0
  BY <1>1, <1>2, FieldFacts
<1>4. AppTypes' /\ OneOwner'
  BY <1>1, <1>2, <1>3, FieldFacts DEF AppInv, AppTypes, OneOwner
<1>5. Selection'
  BY <1>1, <1>2, <1>3, ProvenKept DEF AppInv, Selection
<1>6. MutexHolder'
  BY <1>2, <1>3, Returns
<1> QED BY <1>4, <1>5, <1>6 DEF AppInv

LEMMA DisconnectKeeps ==
  ASSUME AppInv, Kept, DisconnectExact PROVE AppInv'
<1>1. /\ cmd' = Command("disconnect", None, "disconnect") /\ svc # NoService /\ cmd.at = None
      /\ UNCHANGED <<selected, factory, svc, built, gens, live>>
  BY FieldFacts DEF DisconnectExact, Free
<1>2. cmd'.op = "disconnect" /\ cmd'.at = "disconnect" /\ built.gen = 0
  BY <1>1, FieldFacts DEF AppInv, MutexHolder, None
<1>3. MutexHolder'
  BY <1>1, <1>2 DEF MutexHolder
<1> QED BY <1>1, <1>2, <1>3, SlotStays

LEMMA DisconnectDoneKeeps ==
  ASSUME AppInv, Kept, DisconnectDone PROVE AppInv'
<1>1. /\ cmd.at = "disconnect" /\ cmd' = NoCommand
      /\ UNCHANGED <<selected, factory, built, gens, live>>
  BY DEF DisconnectDone, Return
<1>2. built.gen = 0 /\ svc # NoService
  BY <1>1 DEF AppInv, MutexHolder
<1>3. PICK st \in States : Turns(st)
  BY DEF DisconnectDone, AfterDisconnect, States
<1>4. MutexHolder'
  BY <1>1, <1>2, Returns
<1> QED BY <1>1, <1>2, <1>3, <1>4, ServiceTurns

LEMMA BecomesKeeps ==
  ASSUME AppInv, Kept, NEW from \in States, NEW to \in States, Becomes(from, to) PROVE AppInv'
<1>1. /\ svc.st = from /\ Turns(to) /\ UNCHANGED <<store, cmd, selected, factory, built, gens, live>>
  BY DEF Becomes
<1>2. svc # NoService
  BY <1>1, FieldFacts DEF None, States
<1>3. svc' # NoService
  BY <1>1, <1>2, FieldFacts DEF Turns, AppInv, Selection
<1>4. txn' = txn
  BY <1>1 DEF store
<1>5. MutexHolder'
  BY <1>1, <1>2, <1>3, <1>4, ProvenKept DEF AppInv, MutexHolder
<1> QED BY <1>1, <1>2, <1>5, ServiceTurns

\* The process starts again with nothing in memory.
LEMMA RestartedKeeps ==
  ASSUME AppInv, Restarted PROVE AppInv'
<1>1. /\ cmd' = NoCommand /\ selected' = NoBinding /\ factory' = NoBinding
      /\ svc' = NoService /\ built' = NoService /\ live' = {} /\ gens' = gens
  BY DEF Restarted
<1>2. AppTypes' /\ OneOwner'
  BY <1>1, FieldFacts DEF AppInv, AppTypes, OneOwner, None
<1>3. Selection'
  BY <1>1, FieldFacts, BindingFacts DEF Selection
<1>4. MutexHolder'
  BY <1>1, FieldFacts, Returns
<1> QED BY <1>2, <1>3, <1>4 DEF AppInv
-----------------------------------------------------------------------------
(* Every step *)

\* What a step does to the store.
StoreMoves ==
  \/ UNCHANGED store
  \/ Transact(App, Expected)
  \/ \E p \in Procs : Transact(p, NoCatalog)
  \/ \E p \in Procs : Begin(p) /\ (UNCHANGED clock \/ Ticks(0, 1, 0, 0))
  \/ \E p \in Procs : /\ At(p, "done") /\ txn' = [txn EXCEPT ![p] = NoTxn]
                      /\ UNCHANGED <<bundle, record, durable, lock, accepted, clock>>
  \/ \E p \in Procs : ProcessDies(p)
  \/ BundleUpdate
  \/ ForeignWrite
  \/ PowerLoss /\ Restarted

LEMMA NextMoves == ASSUME Next PROVE StoreMoves
<1>1. ASSUME NEW op, NEW v, Prepares(op, v) PROVE StoreMoves
  BY <1>1, AppAssumption DEF Prepares, StoreMoves
<1>2. CASE Initialize \/ ServiceForConnect \/ (\E v \in Variants : SelectPolicyVariant(v))
  BY <1>1, <1>2 DEF Initialize, ServiceForConnect, SelectPolicyVariant
<1>3. CASE Prepare
  BY <1>3 DEF Prepare, StoreMoves
<1>4. CASE PrepareFailed \/ Initialized \/ SelectionPrepared \/ Admit
  <2>1. Finished /\ Consumed
    BY <1>4 DEF PrepareFailed, Initialized, SelectionPrepared, Admit
  <2> QED BY <2>1, AppAssumption DEF Finished, Consumed, StoreMoves
<1>5. CASE \/ Retire \/ RetireRefused \/ Build \/ Install \/ DisconnectExact \/ DisconnectDone
           \/ TaskStarts \/ TaskDropped \/ TaskEnds
  <2>1. UNCHANGED store
    BY <1>5 DEF Retire, RetireRefused, Build, Install, DisconnectExact, DisconnectDone, TaskStarts,
                TaskDropped, TaskEnds, Becomes
  <2> QED BY <2>1 DEF StoreMoves
<1>6. CASE \E p \in Procs : OtherPrepares(p) \/ OtherDies(p)
  BY <1>6 DEF OtherPrepares, OtherDies, StoreMoves
<1>7. CASE AppDies
  BY <1>7, AppAssumption DEF AppDies, StoreMoves
<1>8. CASE PowerFails \/ Environment
  BY <1>8 DEF PowerFails, Environment, StoreMoves
<1> QED BY <1>2, <1>3, <1>4, <1>5, <1>6, <1>7, <1>8 DEF Next

LEMMA StoreStays ==
  ASSUME StoreInv, UNCHANGED store
  PROVE  StoreInv' /\ \A c \in Catalogs : Floor(c) => Floor(c)'
<1>1. UNCHANGED <<bundle, record, durable, lock, txn, accepted, clock>>
  BY DEF store
<1>2. \A c : Floor(c) => Floor(c)'
  BY <1>1 DEF Floor
<1>3. StoreTypes' /\ Locked' /\ Steady'
  BY <1>1 DEF StoreInv, StoreTypes, Locked, Steady, Undisturbed
<1>4. AcceptedHolds' /\ ResultsHold'
  BY <1>1, <1>2 DEF StoreInv, AcceptedHolds, ResultsHold
<1> QED BY <1>2, <1>3, <1>4 DEF StoreInv

LEMMA StoreStep ==
  ASSUME StoreInv, StoreMoves
  PROVE  StoreInv' /\ (Kept \/ Restarted)
<1>1. CASE UNCHANGED store
  BY <1>1, StoreStays DEF Kept
<1>2. CASE Transact(App, Expected)
  BY <1>2, AppAssumption, TransactStep DEF Kept
<1>3. ASSUME NEW p \in Procs, Transact(p, NoCatalog) PROVE StoreInv' /\ Kept
  BY <1>3, TransactStep DEF Kept
<1>4. ASSUME NEW p \in Procs, Begin(p), UNCHANGED clock \/ Ticks(0, 1, 0, 0) PROVE StoreInv' /\ Kept
  <2>1. /\ clock' \in [updates : Nat, others : Nat, foreign : Nat, losses : Nat]
        /\ clock'.foreign = clock.foreign
    <3>1. CASE UNCHANGED clock
      BY <3>1 DEF StoreInv, StoreTypes
    <3>2. CASE Ticks(0, 1, 0, 0)
      BY <3>2, TickFacts
    <3> QED BY <1>4, <3>1, <3>2
  <2> QED BY <1>4, <2>1, BeginStep DEF Kept
<1>5. ASSUME NEW p \in Procs, At(p, "done"), txn' = [txn EXCEPT ![p] = NoTxn],
             UNCHANGED <<bundle, record, durable, lock, accepted, clock>>
      PROVE  StoreInv' /\ Kept
  BY <1>5, ConsumedStep DEF Kept
<1>6. ASSUME NEW p \in Procs, ProcessDies(p) PROVE StoreInv' /\ Kept
  BY <1>6, DiesStep DEF Kept
<1>7. CASE BundleUpdate
  BY <1>7, UpdateStep DEF Kept
<1>8. CASE ForeignWrite
  BY <1>8, ForeignStep DEF Kept
<1>9. CASE PowerLoss /\ Restarted
  BY <1>9, LossStep
<1> QED BY <1>1, <1>2, <1>3, <1>4, <1>5, <1>6, <1>7, <1>8, <1>9 DEF StoreMoves

LEMMA AppStep ==
  ASSUME IInv, Next, Kept \/ Restarted
  PROVE  AppInv'
<1>0. StoreInv /\ AppInv /\ App \in Procs /\ txn \in [Procs -> Transactions]
  BY AppAssumption DEF IInv, StoreInv, StoreTypes
<1>1. CASE Restarted
  BY <1>0, <1>1, RestartedKeeps
<1> SUFFICES ASSUME Kept PROVE AppInv'
  BY <1>1
<1>2. CASE Initialize
  BY <1>0, <1>2, BeginCommand DEF Initialize
<1>3. CASE ServiceForConnect
  BY <1>0, <1>3, BeginCommand DEF ServiceForConnect
<1>4. CASE \E v \in Variants : SelectPolicyVariant(v)
  BY <1>0, <1>4, BeginCommand DEF SelectPolicyVariant
<1>5. CASE Prepare
  <2>1. cmd.at = "prepare" /\ Transact(App, Expected) /\ UNCHANGED app
    BY <1>5 DEF Prepare
  <2>2. ASSUME cmd.op = "connect" PROVE Bound(selected.cat)'
    <3>1. Proven(selected) /\ Bound(selected.cat)
      BY <1>0, <2>1, <2>2 DEF AppInv, MutexHolder, Selection, Bound
    <3>2. selected.cat # NoCatalog /\ Expected = selected.cat
      BY <2>2, <3>1, CatalogFacts DEF Proven, Expected
    <3>3. selected' = selected
      BY <2>1 DEF app
    <3>4. ASSUME NEW f, f = selected.cat PROVE Bound(f)'
      BY <1>0, <2>1, <3>1, <3>2, <3>4, CandidateKept
    <3> QED BY <3>3, <3>4
  <2> QED BY <1>0, <2>1, <2>2, AppStays
<1>6. CASE PrepareFailed
  BY <1>0, <1>6, PrepareFailedKeeps
<1>7. CASE Initialized
  BY <1>0, <1>7, InitializedKeeps
<1>8. CASE SelectionPrepared
  BY <1>0, <1>8, SelectionPreparedKeeps
<1>9. CASE Admit
  BY <1>0, <1>9, AdmitKeeps
<1>10. CASE Retire \/ RetireRefused \/ Build \/ Install \/ DisconnectExact \/ DisconnectDone
  BY <1>0, <1>10, RetireKeeps, RetireRefusedKeeps, BuildKeeps, InstallKeeps, DisconnectKeeps,
     DisconnectDoneKeeps
<1>11. CASE TaskStarts \/ TaskDropped \/ TaskEnds
  BY <1>0, <1>11, BecomesKeeps DEF TaskStarts, TaskDropped, TaskEnds, States
<1>12. ASSUME UNCHANGED <<app>>, txn'[App] = txn[App] PROVE AppInv'
  <2>1. UNCHANGED app /\ selected' = selected
    BY <1>12 DEF app
  <2>2. cmd.op = "connect" /\ cmd.at = "prepare" => Bound(selected.cat)'
    BY <1>0, <1>12, <2>1 DEF AppInv, MutexHolder, Bound
  <2> QED BY <1>0, <2>1, <2>2, AppStays
<1>13. CASE \E p \in Procs : OtherPrepares(p) \/ OtherDies(p)
  <2>1. PICK p \in Procs : OtherPrepares(p) \/ OtherDies(p)
    BY <1>13
  <2>2. p # App /\ UNCHANGED app
    BY <2>1 DEF OtherPrepares, OtherDies
  <2>3. \E t : txn' = [txn EXCEPT ![p] = t]
    BY <2>1 DEF OtherPrepares, OtherDies, Begin, Transact, Verify, Recheck, CommitSame, Stage, Publish,
       VerifyPublished, RollbackPublication, Sync, Report, Refuse, Ends, Goto, Update, ProcessDies
  <2>4. txn'[App] = txn[App]
    BY <1>0, <2>2, <2>3
  <2> QED BY <1>12, <2>2, <2>4
<1>14. CASE AppDies \/ PowerFails
  BY <1>0, <1>14, RestartedKeeps DEF AppDies, PowerFails
<1>15. CASE Environment
  BY <1>12, <1>15 DEF Environment, BundleUpdate, ForeignWrite
<1> HIDE DEF AppInv
<1> QED BY <1>2, <1>3, <1>4, <1>5, <1>6, <1>7, <1>8, <1>9, <1>10, <1>11, <1>13, <1>14, <1>15 DEF Next

LEMMA InvStarts == Init => IInv
<1> SUFFICES ASSUME Init PROVE IInv
  OBVIOUS
<1>1. StoreInv
  BY StoreStarts DEF Init
<1>2. /\ cmd = NoCommand /\ selected = NoBinding /\ factory = NoBinding /\ svc = NoService
      /\ built = NoService /\ gens = 0 /\ live = {}
  BY DEF Init, AppInit
<1>3. AppTypes /\ OneOwner
  BY <1>2, FieldFacts, GensAssumption DEF AppTypes, OneOwner, None
<1>4. Selection
  BY <1>2, FieldFacts, BindingFacts DEF Selection
<1>5. MutexHolder
  BY <1>2, FieldFacts DEF MutexHolder, None
<1> QED BY <1>1, <1>3, <1>4, <1>5 DEF IInv, AppInv

LEMMA InvStep == IInv /\ [Next]_vars => IInv'
<1> SUFFICES ASSUME IInv, [Next]_vars PROVE IInv'
  OBVIOUS
<1>1. CASE Next
  BY <1>1, NextMoves, StoreStep, AppStep DEF IInv
<1>2. CASE UNCHANGED vars
  <2>1. UNCHANGED store /\ UNCHANGED app
    BY <1>2 DEF vars
  <2>2. StoreInv' /\ Kept
    BY <2>1, StoreStays DEF Kept, IInv
  <2>3. UNCHANGED <<txn, cmd, selected>>
    BY <2>1 DEF store, app
  <2>4. cmd.op = "connect" /\ cmd.at = "prepare" => Bound(selected.cat)'
    BY <2>3 DEF IInv, AppInv, MutexHolder, Bound
  <2> QED BY <2>1, <2>2, <2>4, AppStays DEF IInv
<1> QED BY <1>1, <1>2

\* The inductive invariant holds at every moment: the identity store and
\* the commands of the application keep what the later theorems rest on.
THEOREM StoreInvariant == Spec => []IInv
BY InvStarts, InvStep, PTL DEF Spec
-----------------------------------------------------------------------------
(* A refused publication is undone *)

Publishing == {"stage", "publish", "verifyPublished"}

\* The record a transaction classified against, or one from outside, is not
\* the one it would publish.
LEMMA NotMine ==
  ASSUME StoreInv, NEW p \in Procs, txn[p].at \in Publishing, NEW r \in Records,
         r = txn[p].snap \/ r.file = "foreign"
  PROVE  r # Record(txn[p].cand, p)
<1>1. txn[p].at \in Active
  BY DEF Publishing, Active, Before, After
<1>2. /\ txn[p].snap \in Records /\ txn[p].cand \in Catalogs \cup {NoCatalog}
      /\ Classified(txn[p]) /\ p \in Files
  BY <1>1, InTransaction
<1>3. txn[p].cand.rev > txn[p].snap.rev
  BY <1>2 DEF Classified, Publishing, Active, Before, After
<1>4. /\ Record(txn[p].cand, p).rev = txn[p].cand.rev /\ Record(txn[p].cand, p).file = p
      /\ txn[p].cand.rev \in Nat /\ txn[p].snap.rev \in Nat
  BY <1>2, RecordFacts, CatalogFacts DEF Records
<1>5. p # "foreign"
  BY ProcsAssumption
<1> QED BY <1>3, <1>4, <1>5

Undone(p) ==
  /\ txn[p].at \in Publishing
  /\ txn'[p].at = "done" /\ txn'[p].decision # "stuck"
  => record' # Record(txn[p].cand, p)

LEMMA TransactUndoes ==
  ASSUME StoreInv, NEW p \in Procs, NEW e, Transact(p, e) PROVE Undone(p)
<1> SUFFICES ASSUME txn[p].at \in Publishing, txn'[p].at = "done", txn'[p].decision # "stuck"
             PROVE  record' # Record(txn[p].cand, p)
  BY DEF Undone
<1>0. /\ record \in Records /\ txn[p].temp \in Records /\ Undisturbed(p)
      /\ txn \in [Procs -> Transactions]
  <2>1. txn[p].at \in Active
    BY DEF Publishing, Active, Before, After
  <2> QED BY <2>1, InTransaction DEF StoreInv, StoreTypes
<1>1. ASSUME NEW l, l # "done", NEW u, NEW c, NEW d, NEW t, Update(p, Txn(l, u, c, d, t, FALSE))
      PROVE  FALSE
  BY <1>0, <1>1 DEF Update, Txn
<1>2. ASSUME NEW u, NEW c, NEW t, Update(p, Txn("done", u, c, "stuck", t, FALSE))
      PROVE  FALSE
  BY <1>0, <1>2 DEF Update, Txn
<1>3. CASE txn[p].at \in {"stage", "publish"}
  <2>1. record = txn[p].snap \/ record.file = "foreign"
    BY <1>0, <1>3 DEF Undisturbed, Before
  <2>2. Stage(p) \/ Publish(p)
    BY <1>3 DEF Transact, Verify, Recheck, CommitSame, VerifyPublished, Sync, Report, At
  <2>3. \A s, c, d, t : ~Update(p, Txn("verifyPublished", s, c, d, t, FALSE))
    BY <1>1
  <2>4. record' = record
    BY <2>2, <2>3 DEF Stage, Publish
  <2> QED BY <1>0, <2>1, <2>4, NotMine
<1>4. CASE txn[p].at = "verifyPublished"
  <2>1. txn[p].temp = txn[p].snap \/ txn[p].temp.file = "foreign"
    BY <1>0, <1>4 DEF Undisturbed, After
  <2>2. VerifyPublished(p)
    BY <1>4 DEF Transact, Verify, Recheck, CommitSame, Stage, Publish, Sync, Report, At
  <2>3. record' = txn[p].temp
    BY <1>1, <1>2, <2>2 DEF VerifyPublished, RollbackPublication, Goto
  <2> QED BY <1>0, <2>1, <2>3, NotMine
<1> QED BY <1>3, <1>4 DEF Publishing

LEMMA UndoneStep == ASSUME StoreInv, StoreMoves, NEW p \in Procs PROVE Undone(p)
<1>0. txn \in [Procs -> Transactions] /\ App \in Procs
  BY AppAssumption DEF StoreInv, StoreTypes
<1>1. ASSUME txn'[p] = txn[p] \/ txn'[p] = NoTxn PROVE Undone(p)
  BY <1>1, NoTxnFacts DEF Undone, Publishing
<1>2. ASSUME NEW q \in Procs, NEW e, Transact(q, e) PROVE Undone(p)
  <2>1. CASE q = p
    BY <1>2, <2>1, TransactUndoes
  <2>2. CASE q # p
    <3>1. \E t : txn' = [txn EXCEPT ![q] = t]
      BY <1>2 DEF Transact, Verify, Recheck, CommitSame, Stage, Publish, VerifyPublished,
                  RollbackPublication, Sync, Report, Refuse, Ends, Goto, Update
    <3> QED BY <1>0, <1>1, <2>2, <3>1
  <2> QED BY <2>1, <2>2
<1>3. ASSUME NEW q \in Procs, Begin(q) PROVE Undone(p)
  <2>1. txn[q].at = "idle" /\ \E t : txn' = [txn EXCEPT ![q] = t]
    BY <1>3 DEF Begin, Update, At
  <2>2. CASE q = p
    BY <2>1, <2>2 DEF Undone, Publishing
  <2>3. CASE q # p
    BY <1>0, <1>1, <2>1, <2>3
  <2> QED BY <2>2, <2>3
<1>4. ASSUME NEW q \in Procs, txn' = [txn EXCEPT ![q] = NoTxn] PROVE Undone(p)
  BY <1>0, <1>1, <1>4
<1>5. ASSUME UNCHANGED store \/ BundleUpdate \/ ForeignWrite \/ PowerLoss PROVE Undone(p)
  <2>1. txn'[p] = txn[p] \/ txn'[p] = NoTxn
    BY <1>0, <1>5 DEF store, BundleUpdate, ForeignWrite, PowerLoss
  <2> QED BY <1>1, <2>1
<1> QED BY <1>0, <1>2, <1>3, <1>4, <1>5 DEF StoreMoves, ProcessDies

LEMMA InvImplies == IInv => TypeOK /\ OneOwner /\ SlotIsSelected
<1> SUFFICES ASSUME IInv PROVE TypeOK /\ OneOwner /\ SlotIsSelected
  OBVIOUS
<1>1. OneOwner /\ SlotIsSelected
  BY DEF IInv, AppInv, Selection, SlotIsSelected
<1>2. live \subseteq 1..MaxGens
  <2>1. gens \in 0..MaxGens /\ svc.gen \in Nat /\ built.gen \in Nat
    BY DEF IInv, AppInv, AppTypes
  <2>2. svc.gen # 0 => svc.gen \in 1..gens
    BY DEF IInv, AppInv, Selection
  <2>3. built.gen # 0 => built.gen \in 1..gens
    BY DEF IInv, AppInv, MutexHolder
  <2> QED BY <1>1, <2>1, <2>2, <2>3, GensAssumption DEF OneOwner
<1>3. \A p \in Procs : txn[p].at \in Active \cup {"idle", "done"}
  BY TxnTypes DEF IInv, StoreInv, StoreTypes
<1>4. TypeOK
  BY <1>2, <1>3 DEF TypeOK, IInv, StoreInv, StoreTypes, AppInv, AppTypes, Active, Before, After
<1> QED BY <1>1, <1>4

(* One generation owns the session and it is the selected one, and a       *)
(* refused publication leaves no record of its candidate                   *)
(* (build_install_reserved_locked, select_policy_variant,                  *)
(* rollback_publication), for every number of processes, catalogs,         *)
(* updates, foreign writes, power losses and generations.                  *)
THEOREM ExactOwners == Spec => OwnersAreExact
<1>1. IInv /\ [Next]_vars =>
        [\A p \in Procs : /\ txn[p].at \in {"stage", "publish", "verifyPublished"}
                          /\ txn'[p].at = "done" /\ txn'[p].decision # "stuck"
                          => record' # Record(txn[p].cand, p)]_store
  <2> SUFFICES ASSUME IInv, [Next]_vars, NEW p \in Procs, store' # store
               PROVE  Undone(p)
    BY DEF Undone, Publishing
  <2>1. Next
    BY DEF vars
  <2> QED BY <2>1, NextMoves, UndoneStep DEF IInv
<1>2. Spec => [][Next]_vars
  BY PTL DEF Spec
<1> QED BY <1>1, <1>2, InvImplies, StoreInvariant, PTL DEF OwnersAreExact, RefusedIsUndone
-----------------------------------------------------------------------------
(* The store is a monotone register *)

\* Only a reported publication changes what is accepted, and it advances.
LEMMA ReportAdvances ==
  ASSUME StoreInv, NEW p \in Procs, Report(p)
  PROVE  [Register!Next]_accepted
<1>0. txn[p].at = "report" /\ txn[p].at \in Active
  BY DEF Report, At, Active, After
<1>1. CASE accepted' = accepted \/ accepted' = NoCatalog
  BY <1>1 DEF Register!Next, Register!Forget
<1>2. CASE accepted' = txn[p].cand /\ clock.foreign = 0
  <2>1. /\ txn[p].snap \in Records /\ Classified(txn[p])
    BY <1>0, InTransaction
  <2>2. Signed(txn[p].cand) /\ txn[p].cand.rev > txn[p].snap.rev
    BY <1>0, <2>1 DEF Classified, Active, Before, After
  <2>3. ASSUME accepted # NoCatalog PROVE txn[p].cand.rev > accepted.rev
    <3>1. Floor(accepted) /\ accepted \in Catalogs
      BY <2>3 DEF StoreInv, StoreTypes, AcceptedHolds
    <3>2. AtLeast(txn[p].snap, accepted)
      BY <1>0, <1>2, <3>1 DEF Floor
    <3>3. txn[p].snap.rev \in Nat /\ accepted.rev \in Nat /\ txn[p].cand.rev \in Nat
      BY <2>1, <2>2, <3>1, CatalogFacts DEF Records, Signed
    <3> QED BY <2>2, <3>2, <3>3 DEF AtLeast
  <2>4. Register!Accept(txn[p].cand) /\ txn[p].cand \in Catalogs
    BY <1>2, <2>2, <2>3 DEF Register!Accept, Signed
  <2> QED BY <2>4 DEF Register!Next
<1> QED BY <1>1, <1>2 DEF Report

LEMMA MovesAdvance == ASSUME StoreInv, StoreMoves PROVE [Register!Next]_accepted
<1>0. App \in Procs
  BY AppAssumption
<1>1. ASSUME UNCHANGED accepted PROVE [Register!Next]_accepted
  BY <1>1
<1>2. ASSUME NEW p \in Procs, NEW e, Transact(p, e) PROVE [Register!Next]_accepted
  <2>1. CASE Report(p)
    BY <2>1, ReportAdvances
  <2>2. CASE UNCHANGED accepted
    BY <1>1, <2>2
  <2> QED BY <1>2, <2>1, <2>2 DEF Transact, Verify, Recheck, CommitSame, Stage, Publish,
                                 VerifyPublished, RollbackPublication, Sync
<1>3. ASSUME ForeignWrite PROVE [Register!Next]_accepted
  BY <1>3 DEF ForeignWrite, Register!Next, Register!Forget
<1>4. ASSUME NEW p \in Procs, Begin(p) \/ ProcessDies(p) PROVE [Register!Next]_accepted
  BY <1>1, <1>4 DEF Begin, ProcessDies
<1> QED BY <1>0, <1>1, <1>2, <1>3, <1>4 DEF StoreMoves, store, BundleUpdate, PowerLoss

(* The identity store implements the monotone register: what was reported  *)
(* survives crashes and power losses, later reports have a greater         *)
(* revision (prepare_policy, publish_record, rollback_publication).        *)
THEOREM MonotoneStore == Spec => AcceptsMonotonically
<1>1. Init => Register!Init
  BY DEF Init, StoreInit, Register!Init
<1>2. IInv /\ [Next]_vars => [Register!Next]_accepted
  <2> SUFFICES ASSUME IInv, [Next]_vars PROVE [Register!Next]_accepted
    OBVIOUS
  <2>1. CASE Next
    BY <2>1, NextMoves, MovesAdvance DEF IInv
  <2>2. CASE UNCHANGED vars
    BY <2>2 DEF vars, store
  <2> QED BY <2>1, <2>2
<1> QED BY <1>1, <1>2, StoreInvariant, PTL DEF Spec, AcceptsMonotonically, Register!Spec
-----------------------------------------------------------------------------
(* What connects was accepted *)

LEMMA AdmittedStep ==
  ASSUME IInv, Next, svc'.st = "reserved", svc.st # "reserved", clock.foreign = 0
  PROVE  LET c == svc'.binding.cat IN
         /\ record.rev >= c.rev
         /\ record.rev = c.rev => record.id = c.id
<1>0. StoreInv /\ AppInv
  BY DEF IInv
<1>1. svc' # svc
  OBVIOUS
<1>2. ASSUME svc'.binding = selected, selected # NoBinding PROVE AtLeast(record, svc'.binding.cat)
  <2>1. Proven(selected)
    BY <1>0, <1>2 DEF AppInv, Selection
  <2> QED BY <1>2, <2>1 DEF Proven, Floor
<1>3. CASE Admit
  <2>1. svc # NoService /\ Turns("reserved")
    BY <1>1, <1>3, FieldFacts DEF Admit, Return, None
  <2>2. svc'.binding = selected /\ selected # NoBinding
    BY <1>0, <2>1, FieldFacts DEF AppInv, Selection, Turns
  <2> QED BY <1>2, <2>2 DEF AtLeast
<1>4. CASE Install
  <2>1. svc' = built /\ built.binding = selected /\ selected # NoBinding
    BY <1>0, <1>1, <1>4 DEF Install, AppInv, MutexHolder
  <2> QED BY <1>2, <2>1 DEF AtLeast
<1>5. ASSUME NEW st, Turns(st) PROVE svc'.st = st
  BY <1>5, FieldFacts DEF Turns
<1>6. ~RetireRefused
  BY <1>5 DEF RetireRefused
<1>7. ~DisconnectDone
  BY <1>5 DEF DisconnectDone, AfterDisconnect
<1>8. ~(TaskStarts \/ TaskDropped \/ TaskEnds)
  BY <1>5 DEF TaskStarts, TaskDropped, TaskEnds, Becomes
<1>9. svc' # NoService
  BY FieldFacts DEF None
<1>10. ~(Retire \/ AppDies \/ PowerFails)
  BY <1>9 DEF Retire, AppDies, PowerFails, Restarted
<1>11. Admit \/ Install
  BY <1>1, <1>6, <1>7, <1>8, <1>10 DEF Next, Initialize, ServiceForConnect, SelectPolicyVariant, Prepare,
     PrepareFailed, Initialized, SelectionPrepared, Build, DisconnectExact, OtherPrepares, OtherDies,
     Environment, Return, app
<1> QED BY <1>3, <1>4, <1>11

(* A connect is admitted only for a catalog the record does not            *)
(* contradict: its revision is not above the record's, and at the same     *)
(* revision the identity is the same (service_for_connect,                 *)
(* build_install_reserved_locked).                                         *)
THEOREM AdmissionIsAccepted == Spec => AdmittedIsAccepted
<1>1. IInv /\ [Next]_vars =>
        [svc'.st = "reserved" /\ svc.st # "reserved" /\ clock.foreign = 0 =>
           LET c == svc'.binding.cat IN
           /\ record.rev >= c.rev
           /\ record.rev = c.rev => record.id = c.id]_vars
  BY AdmittedStep
<1>2. Spec => [][Next]_vars
  BY PTL DEF Spec
<1> QED BY <1>1, <1>2, StoreInvariant, PTL DEF AdmittedIsAccepted
=============================================================================
