-------------------------- MODULE RouteLeaseProofs --------------------------
(***************************************************************************)
(* Proofs about the route lease, for every number of sessions and CIDRs,   *)
(* every kind and number of faults.                                        *)
(*                                                                         *)
(* Three orders carry the argument.  The calls of the app have connections *)
(* of their own and are served in that order, so the begin of a lease is   *)
(* served once and before everything that follows it.  The helper writes   *)
(* its record before it asks the broker to hold and removes it after the   *)
(* broker has released, so a hold, a late call that may still become one,  *)
(* and a route have a record.  And a generation is never used twice, so    *)
(* the one tombstone is that of the lease the record names.                *)
(***************************************************************************)
EXTENDS RouteLease, TLAPS

\* The generations handed out so far.
Used == 1..(nextGen - 1)

\* The broker's session, its hold and what it remembers of earlier ones.
Sessional ==
    /\ nextGen \in 1..(Sessions + 1)
    /\ sess \in 0..(nextGen - 1) /\ tombstone \in 0..(nextGen - 1)
    /\ appHere \in BOOLEAN /\ held \in BOOLEAN /\ released \in BOOLEAN /\ recovery \in BOOLEAN
    /\ sess # 0 => tombstone < sess
    /\ held => sess # 0 /\ ~released
    /\ released <=> sess \in executed
    /\ child \subseteq Used /\ exitDue \subseteq Used /\ lossDue \subseteq Used /\ executed \subseteq Used
    /\ reaping \subseteq (Reasons \X Used) /\ late \subseteq ({"hold", "release"} \X Used)
    /\ faults \in 0..MaxFaults
    /\ \A g \in Used : <<"release", g>> \in reaping => sess # g \/ released

\* The app has one lease, the last generation; nobody stops its session
\* before it has seen a failure.
Applicant ==
    /\ apc \in Waiting \cup {"off", "idle", "ready", "up", "frozen", "clear"} /\ term \in BOOLEAN
    /\ lease \in 0..(nextGen - 1) /\ (lease = 0 <=> apc \in {"off", "idle"})
    /\ lease # 0 =>
          /\ nextGen = lease + 1 /\ lease \notin lossDue /\ <<"loss", lease>> \notin reaping
          /\ apc \in {"ready", "discover", "begin"} => <<"stop", lease>> \notin reaping
    /\ conn \in Nat /\ 1 <= conn /\ conn <= faults + nextGen
    /\ apc \notin {"off", "idle", "clear"} => conn < faults + nextGen

\* Every call has a connection of its own, and they are served in that order;
\* the call of the current connection is the one the app waits for.
Calls ==
    /\ \A m \in inbox : /\ m = Call(m.op, m.conn, m.lease)
                        /\ m.op \in Waiting /\ m.conn \in 1..conn /\ m.lease \in Used
                        /\ job.conn < m.conn
                        /\ m.conn = conn => reply = "none" /\ m.op = apc /\ m.lease = lease
    /\ \A m, k \in inbox : m.conn = k.conn => m = k
    /\ job.conn \in 0..conn
    /\ job.conn = conn => reply = "none" /\ job.op = apc /\ job.lease = lease
    /\ reply \in Answers \cup {"none", "lost"}
    /\ reg \in 0..conn /\ act \in 0..conn /\ ronly \in BOOLEAN

Unwinding == {"unmark", "del", "unsave", "retire"}
Releasing == {"release", "reaped", "done", "unlink"}

\* The operation the helper is in the middle of.
Jobs ==
    /\ hpc \in HelperLabels
    /\ hpc \in {"down", "idle"} => job = NoJob
    /\ hpc \in {"pend", "hold", "keep", "drop"} => job.op = "begin" /\ job.lease \in Used
    /\ hpc \in {"mark", "add", "save", "seal"} => job.op = "apply"
    /\ hpc = "query" => job.op = "beat"
    /\ hpc \in Unwinding \cup Releasing => job.op = "undo" \/ job.conn = 0

Owned(r) == {c \in Cidrs : c <= r.applied \/ c = r.pending}

WellFormed(r) ==
    \/ r = NoRecord
    \/ /\ r = Record(r.lease, r.state, r.applied, r.pending)
       /\ r.lease \in Used /\ r.state \in RecordStates /\ r.applied \in 0..N
       /\ r.pending \in 0..N /\ r.pending \in {0, r.applied, r.applied + 1}
       /\ r.state \in {"HoldPending", "RetirementPending", "Released"} => r.applied = 0 /\ r.pending = 0

Ended(r) == r.state \in {"RetirementPending", "Released"}

\* The journal in memory and the one on disk.
Journal ==
    /\ WellFormed(mem) /\ WellFormed(disk)
    /\ hpc = "down" => mem = NoRecord
    /\ mem # NoRecord => disk.lease \in {0, mem.lease}
    /\ Ended(mem) => disk = NoRecord \/ Ended(disk)

\* What each step of an operation may rely on in the journal.
Stages ==
    /\ hpc \notin {"down", "idle", "pend", "query"} => mem # NoRecord
    /\ hpc = "pend" => mem = NoRecord
    /\ hpc \in {"hold", "keep", "drop"} => mem = Record(job.lease, "HoldPending", 0, 0)
    /\ hpc \in {"hold", "keep", "add", "save"} => disk = mem
    /\ hpc \in {"mark", "add", "save", "seal"} => mem.state = "Held"
    /\ hpc = "mark" => mem.pending = 0 /\ mem.applied < N
    /\ hpc \in {"add", "save"} => mem.pending = mem.applied + 1
    /\ hpc \in Unwinding => mem.state \in {"HoldPending", "Held", "Applied"}
    /\ hpc \in {"unmark", "unsave"} => LastOwned(mem) # 0
    /\ hpc = "unsave" => table[LastOwned(mem)] = 0
    /\ hpc = "del" => mem.pending # 0 /\ mem.pending >= mem.applied
    /\ hpc = "retire" => mem.applied = 0 /\ mem.pending = 0
    /\ hpc \in Releasing => Ended(mem)
    /\ hpc \in {"release", "reaped", "done"} => mem.state = "RetirementPending"
    /\ hpc \in {"idle", "query"} /\ mem.state = "Held" /\ ~ronly => mem.applied = 0 /\ mem.pending = 0

\* A lease that is not the session's, or whose release has been executed, is
\* never held again.
Over(l) == sess # l \/ released

\* A hold, and a late call that may still become one, is backed by the record.
Holding ==
    /\ \A l \in Used : (sess = l /\ held) \/ (<<"hold", l>> \in late /\ ~Over(l)) =>
          disk.lease = l /\ (hpc # "down" => mem.lease = l)
    /\ \A r \in {mem, disk} : r.state \in {"Held", "Applied"} => held /\ sess = r.lease
    /\ \A r \in {mem, disk} : r.state = "Released" => Over(r.lease)
    /\ hpc = "keep" => held /\ sess = mem.lease
    /\ hpc \in {"drop", "reaped", "done", "unlink"} => Over(mem.lease)

\* A route belongs to the held session, and both journals name it.
Routed ==
    /\ table \in [Cidrs -> 0..Sessions]
    /\ \A c \in Cidrs : table[c] # 0 =>
          /\ sess = table[c] /\ held
          /\ \A w \in Reasons : <<w, table[c]>> \notin reaping
          /\ disk.lease = table[c] /\ c \in Owned(disk)
          /\ hpc # "down" => mem.lease = table[c] /\ c \in Owned(mem)

\* A lease that was released, or will be by a late call, is at its end; the
\* record is of no earlier lease, and the broker remembers it.
Settled(l) == l \in executed \/ <<"release", l>> \in late

Remembered ==
    /\ \A l \in Used : Settled(l) =>
          \A r \in {mem, disk} : /\ r # NoRecord => l <= r.lease
                                 /\ r.lease = l => Ended(r)
    /\ \A l \in executed : \A r \in {mem, disk} : r.lease = l => tombstone = l \/ sess = l

\* Nothing the helper has done is about lease l or a later one.
Below(l) ==
    /\ mem.lease < l /\ disk.lease < l
    /\ \A x \in executed : x < l
    /\ \A x \in Used : <<"hold", x>> \in late \/ <<"release", x>> \in late => x < l

Begins == {m \in inbox : m.op = "begin"}

\* The begin of a lease comes once, and in the order of the leases.
Ordered ==
    /\ apc \in {"ready", "discover"} =>
          /\ Below(lease)
          /\ \A m \in Begins : m.lease < lease
          /\ hpc = "pend" => job.lease < lease
    /\ \A m \in Begins :
          /\ Below(m.lease)
          /\ hpc = "pend" => job.lease < m.lease
          /\ \A k \in Begins : k.conn < m.conn => k.lease < m.lease
    /\ hpc = "pend" => Below(job.lease)

\* Who may still add routes for a lease.
Applying(l) ==
    \/ \E m \in inbox : m.op = "apply" /\ m.lease = l
    \/ hpc \in {"mark", "add", "save"} /\ mem.lease = l
    \/ apc = "begin" /\ reply = "ok" /\ lease = l

\* Its session is over, or is held and nobody stops it.
Safe(l) == Over(l) \/ (held /\ \A w \in Reasons : <<w, l>> \notin reaping)

\* Nobody can hold this lease any more.
Unheld(l) ==
    \/ Over(l) /\ ~(sess = l /\ held)
    \/ /\ ~held /\ <<"hold", l>> \notin late
       /\ \A m \in Begins : m.lease # l
       /\ ~(hpc \in {"pend", "hold"} /\ job.lease = l)

Promises ==
    /\ \A l \in Used : Applying(l) => Safe(l)
    /\ apc = "clear" \/ (apc = "undo" /\ reply = "ok") => Unheld(lease)

IInv ==
    /\ Sessional /\ Applicant /\ Calls /\ Jobs /\ Journal /\ Stages /\ Holding /\ Routed
    /\ Remembered /\ Ordered /\ Promises
-----------------------------------------------------------------------------
(* The broker *)

LEMMA UsedFacts ==
    ASSUME Sessional
    PROVE  /\ nextGen \in Nat /\ Used \subseteq Gens /\ Used \subseteq Nat \ {0}
           /\ sess \in Nat /\ (sess # 0 => sess \in Used) /\ tombstone \in Nat
           /\ 0 \notin Used /\ Sessions \in Nat /\ faults \in Nat
BY SessionsAssumption, FaultsAssumption DEF Sessional, Used, Gens

\* What a step of the broker does that is not a call of the helper: its
\* session goes on, or ends because nothing holds it.
Subsides ==
    /\ UNCHANGED <<nextGen, late, executed>>
    /\ \/ UNCHANGED <<sess, held, released, tombstone>>
       \/ /\ sess # 0 /\ ~held /\ sess' = 0 /\ held' = FALSE /\ released' = FALSE
          /\ tombstone' = IF released THEN sess ELSE tombstone
    /\ \A w \in Reasons, g \in Used : <<w, g>> \in reaping' =>
          \/ <<w, g>> \in reaping
          \/ w # "release" /\ sess = g /\ ~held

LEMMA SubsidesSessional ==
    ASSUME Sessional, Subsides, appHere' \in BOOLEAN, recovery' \in BOOLEAN,
           child' \subseteq Used, exitDue' \subseteq Used, lossDue' \subseteq Used,
           reaping' \subseteq (Reasons \X Used), faults' \in 0..MaxFaults
    PROVE  Sessional'
<1>0. /\ nextGen \in Nat /\ sess \in Nat /\ (sess # 0 => sess \in Used) /\ 0 \notin Used /\ tombstone \in Nat
    BY UsedFacts
<1>1. /\ UNCHANGED <<nextGen, late, executed>> /\ Used' = Used /\ executed \subseteq Used
    BY DEF Subsides, Used, Sessional
<1>2. /\ held' \in BOOLEAN /\ released' \in BOOLEAN /\ sess' \in 0..(nextGen - 1)
      /\ tombstone' \in 0..(nextGen - 1)
    <2>1. CASE UNCHANGED <<sess, held, released, tombstone>>
        BY <2>1 DEF Sessional
    <2>2. CASE /\ sess # 0 /\ ~held /\ sess' = 0 /\ held' = FALSE /\ released' = FALSE
               /\ tombstone' = IF released THEN sess ELSE tombstone
        <3>1. 0 \in 0..(nextGen - 1) /\ sess \in 0..(nextGen - 1) /\ tombstone \in 0..(nextGen - 1)
            BY UsedFacts DEF Sessional
        <3> QED BY <2>2, <3>1
    <2> QED BY <2>1, <2>2 DEF Subsides
<1>3. /\ sess' # 0 => tombstone' < sess'
      /\ held' => sess' # 0 /\ ~released'
      /\ released' <=> sess' \in executed
    <2>1. CASE UNCHANGED <<sess, held, released, tombstone>>
        BY <2>1 DEF Sessional
    <2>2. CASE sess' = 0 /\ held' = FALSE /\ released' = FALSE
        BY <1>0, <1>1, <2>2
    <2> QED BY <2>1, <2>2 DEF Subsides
<1>4. \A g \in Used : <<"release", g>> \in reaping' => sess' # g \/ released'
    <2> TAKE g \in Used
    <2> HAVE <<"release", g>> \in reaping'
    <2>1. sess # g \/ released
        BY DEF Subsides, Sessional, Reasons
    <2>2. g # 0
        BY <1>0
    <2> QED BY <2>1, <2>2 DEF Subsides
<1> QED BY <1>1, <1>2, <1>3, <1>4 DEF Sessional

\* Seen from a lease: what is over stays over, a hold stays, and nobody
\* begins to stop a held session.
LEMMA SubsidesEffects ==
    ASSUME Sessional, Subsides, NEW l \in Used
    PROVE  /\ Over(l) => Over(l)'
           /\ (sess' = l /\ held') <=> (sess = l /\ held)
           /\ Safe(l) => Safe(l)'
           /\ sess = l /\ held => \A w \in Reasons : <<w, l>> \in reaping' => <<w, l>> \in reaping
           /\ Settled(l)' <=> Settled(l)
<1>0. l # 0 /\ (released => sess # 0)
    BY UsedFacts DEF Sessional
<1>1. Over(l) => Over(l)'
    BY <1>0 DEF Subsides, Over
<1>2. (sess' = l /\ held') <=> (sess = l /\ held)
    BY <1>0 DEF Subsides
<1>3. sess = l /\ held => \A w \in Reasons : <<w, l>> \in reaping' => <<w, l>> \in reaping
    BY DEF Subsides
<1>4. Safe(l) => Safe(l)'
    <2>1. CASE Over(l)
        BY <1>1, <2>1 DEF Safe
    <2>2. CASE ~Over(l)
        <3>1. sess = l
            BY <2>2 DEF Over
        <3> QED BY <1>2, <1>3, <2>2, <3>1 DEF Safe
    <2> QED BY <2>1, <2>2
<1>5. Settled(l)' <=> Settled(l)
    BY DEF Settled, Subsides
<1> QED BY <1>1, <1>2, <1>3, <1>4, <1>5

LEMMA SubsidesHolding ==
    ASSUME Sessional, Journal, Stages, Holding, Subsides, UNCHANGED <<disk, mem>>,
           hpc' = hpc \/ (hpc = "reaped" /\ hpc' \in {"done", "idle"})
    PROVE  Holding'
<1>0. Used' = Used /\ UNCHANGED late
    BY DEF Subsides, Used
<1>1. \A r \in {mem, disk} : r # NoRecord => r.lease \in Used
    BY DEF Journal, WellFormed
<1>2. \A l \in Used : (sess' = l /\ held') \/ (<<"hold", l>> \in late' /\ ~Over(l)') =>
          disk'.lease = l /\ (hpc' # "down" => mem'.lease = l)
    <2> TAKE l \in Used
    <2>1. (sess' = l /\ held' <=> sess = l /\ held) /\ (Over(l) => Over(l)')
        BY SubsidesEffects
    <2> QED BY <1>0, <2>1 DEF Holding
<1>3. \A r \in {mem, disk} : r.state \in {"Held", "Applied"} => held' /\ sess' = r.lease
    <2> TAKE r \in {mem, disk}
    <2> HAVE r.state \in {"Held", "Applied"}
    <2>1. held /\ sess = r.lease /\ r # NoRecord
        BY DEF Holding, NoRecord, Record
    <2> QED BY <2>1, <1>1, SubsidesEffects
<1>4. \A r \in {mem, disk} : r.state = "Released" => Over(r.lease)'
    <2> TAKE r \in {mem, disk}
    <2> HAVE r.state = "Released"
    <2>1. Over(r.lease) /\ r # NoRecord
        BY DEF Holding, NoRecord, Record
    <2> QED BY <2>1, <1>1, SubsidesEffects DEF Over
<1>5. hpc' = "keep" => held' /\ sess' = mem.lease
    <2> HAVE hpc' = "keep"
    <2>1. hpc = "keep" /\ mem # NoRecord /\ held /\ sess = mem.lease
        BY DEF Holding, Stages
    <2> QED BY <2>1, <1>1, SubsidesEffects
<1>6. hpc' \in {"drop", "reaped", "done", "unlink"} => Over(mem.lease)'
    <2> HAVE hpc' \in {"drop", "reaped", "done", "unlink"}
    <2>1. mem # NoRecord /\ Over(mem.lease)
        BY DEF Holding, Stages
    <2> QED BY <2>1, <1>1, SubsidesEffects DEF Over
<1> QED BY <1>0, <1>2, <1>3, <1>4, <1>5, <1>6 DEF Holding

LEMMA SubsidesRouted ==
    ASSUME Sessional, Routed, Subsides, UNCHANGED <<disk, mem, table>>, hpc # "down"  \/ hpc' = "down"
    PROVE  Routed'
<1> SUFFICES ASSUME NEW c \in Cidrs, table[c] # 0
             PROVE  /\ sess' = table[c] /\ held'
                    /\ \A w \in Reasons : <<w, table[c]>> \notin reaping'
    BY DEF Routed, Owned
<1>1. sess = table[c] /\ held /\ \A w \in Reasons : <<w, table[c]>> \notin reaping
    BY DEF Routed
<1>2. table[c] \in Used
    BY <1>1, UsedFacts
<1> QED BY <1>1, <1>2, SubsidesEffects

LEMMA SubsidesRemembered ==
    ASSUME Sessional, Remembered, Subsides, UNCHANGED <<disk, mem>>
    PROVE  Remembered'
<1>0. Used' = Used /\ UNCHANGED <<late, executed>> /\ executed \subseteq Used
    BY DEF Subsides, Used, Sessional
<1>1. \A l \in Used : Settled(l)' => Settled(l)
    BY SubsidesEffects
<1>2. \A l \in executed : \A r \in {mem, disk} : r.lease = l => tombstone' = l \/ sess' = l
    <2> SUFFICES ASSUME NEW l \in executed, NEW r \in {mem, disk}, r.lease = l
                 PROVE  tombstone' = l \/ sess' = l
        OBVIOUS
    <2>1. tombstone = l \/ sess = l
        BY DEF Remembered
    <2>2. CASE UNCHANGED <<sess, tombstone>>
        BY <2>1, <2>2
    <2>3. CASE ~released /\ tombstone' = tombstone
        <3>1. sess # l
            BY <2>3 DEF Sessional
        <3> QED BY <2>1, <2>3, <3>1
    <2>4. CASE sess # 0 /\ released /\ tombstone' = sess
        <3>1. sess \in executed /\ sess \in Used /\ l \in Used
            BY <1>0, <2>4 DEF Sessional
        <3>2. Settled(sess) /\ r # NoRecord
            BY <1>0, <3>1, UsedFacts DEF Settled, NoRecord, Record
        <3>3. sess <= l
            BY <3>1, <3>2 DEF Remembered
        <3>4. tombstone < sess
            BY <2>4 DEF Sessional
        <3>5. sess = l
            BY <2>1, <3>1, <3>3, <3>4, UsedFacts
        <3> QED BY <2>4, <3>5
    <2> QED BY <2>2, <2>3, <2>4 DEF Subsides
<1> QED BY <1>0, <1>1, <1>2 DEF Remembered, Ended

LEMMA SubsidesBelow ==
    ASSUME Subsides, NEW l, UNCHANGED <<disk, mem>>
    PROVE  Below(l)' <=> Below(l)
BY DEF Subsides, Below, Used

LEMMA Slack ==
    ASSUME NEW a \in Nat, NEW b \in Nat, NEW k \in Nat, NEW c \in Nat, a <= b
    PROVE  (c <= a + k => c <= b + k) /\ (c < a + k => c < b + k)
OBVIOUS

LEMMA ApplicantFrame ==
    ASSUME Sessional, Applicant, UNCHANGED <<apc, lease, term, nextGen, conn>>,
           faults' \in {faults, faults + 1}, lease \notin lossDue' \/ lease = 0,
           lease # 0 => <<"loss", lease>> \notin reaping',
           lease # 0 /\ apc \in {"ready", "discover", "begin"} => <<"stop", lease>> \notin reaping'
    PROVE  Applicant'
<1>1. nextGen \in Nat /\ faults \in Nat
    BY UsedFacts
<1>2. /\ conn \in Nat /\ 1 <= conn /\ conn <= faults + nextGen
      /\ apc \notin {"off", "idle", "clear"} => conn < faults + nextGen
    BY DEF Applicant
<1>3. faults' \in Nat /\ faults <= faults'
    BY <1>1
<1>4. /\ conn <= faults + nextGen => conn <= faults' + nextGen
      /\ conn < faults + nextGen => conn < faults' + nextGen
    BY <1>1, <1>2, <1>3, Slack
<1> QED BY <1>2, <1>4 DEF Applicant

LEMMA HelperFrame ==
    ASSUME Calls, Jobs, Journal, Stages, UNCHANGED <<helper, link, app, nextGen>>
    PROVE  Calls' /\ Jobs' /\ Journal' /\ Stages'
<1>1. UNCHANGED <<disk, mem, table, reg, act, ronly, hpc, job, inbox, conn, reply, apc, lease, nextGen>>
    BY DEF helper, link, app
<1>2. Used' = Used
    BY <1>1 DEF Used
<1>3. Calls'
    BY <1>1, <1>2 DEF Calls
<1>4. Jobs'
    BY <1>1, <1>2 DEF Jobs
<1>5. Journal'
    BY <1>1, <1>2 DEF Journal, WellFormed, Ended
<1>6. Stages'
    BY <1>1 DEF Stages, Ended
<1> QED BY <1>3, <1>4, <1>5, <1>6

LEMMA SubsidesOrdered ==
    ASSUME Ordered, Subsides, UNCHANGED <<disk, mem, inbox, apc, lease>>,
           (hpc' = hpc /\ job' = job) \/ hpc' # "pend"
    PROVE  Ordered'
<1>1. Begins' = Begins
    BY DEF Begins
<1>2. \A l : Below(l)' <=> Below(l)
    BY SubsidesBelow
<1>3. hpc' = "pend" => hpc = "pend" /\ job' = job
    OBVIOUS
<1>4. apc \in {"ready", "discover"} =>
          /\ Below(lease)'
          /\ \A m \in Begins' : m.lease < lease
          /\ hpc' = "pend" => job'.lease < lease
    BY <1>1, <1>2, <1>3 DEF Ordered
<1>5. \A m \in Begins' :
          /\ Below(m.lease)'
          /\ hpc' = "pend" => job'.lease < m.lease
          /\ \A k \in Begins' : k.conn < m.conn => k.lease < m.lease
    BY <1>1, <1>2, <1>3 DEF Ordered
<1>6. hpc' = "pend" => Below(job.lease)'
    BY <1>3 DEF Ordered, Below, Subsides, Used
<1> QED BY <1>4, <1>5, <1>6 DEF Ordered

\* The lease of the app is a generation in use.
LEMMA LeaseUsed ==
    ASSUME Sessional, Applicant, apc \notin {"off", "idle"}
    PROVE  lease \in Used /\ lease # 0
BY UsedFacts DEF Applicant, Used

LEMMA SubsidesPromises ==
    ASSUME Sessional, Applicant, Promises, Subsides, UNCHANGED <<mem, inbox, apc, lease>>,
           reply' = "ok" => reply = "ok",
           (hpc' = hpc /\ job' = job) \/ hpc' \notin {"pend", "hold", "mark", "add", "save"}
    PROVE  Promises'
<1>0. Used' = Used /\ UNCHANGED late /\ Begins' = Begins
    BY DEF Subsides, Used, Begins
<1>1. \A l \in Used : Applying(l)' => Safe(l)'
    <2> TAKE l \in Used
    <2> HAVE Applying(l)'
    <2>1. Applying(l)
        BY DEF Applying
    <2> QED BY <2>1, SubsidesEffects DEF Promises
<1>2. ASSUME apc = "clear" \/ (apc = "undo" /\ reply' = "ok") PROVE Unheld(lease)'
    <2>1. lease \in Used /\ Unheld(lease)
        BY <1>2, LeaseUsed DEF Promises
    <2>2. CASE Over(lease) /\ ~(sess = lease /\ held)
        BY <2>1, <2>2, SubsidesEffects DEF Unheld, Over
    <2>3. CASE /\ ~held /\ <<"hold", lease>> \notin late
               /\ \A m \in Begins : m.lease # lease
               /\ ~(hpc \in {"pend", "hold"} /\ job.lease = lease)
        <3>1. ~held'
            BY <2>3 DEF Subsides
        <3> QED BY <1>0, <2>3, <3>1 DEF Unheld
    <2> QED BY <2>1, <2>2, <2>3 DEF Unheld
<1>3. Promises' <=> /\ \A l \in Used' : Applying(l)' => Safe(l)'
                    /\ apc' = "clear" \/ (apc' = "undo" /\ reply' = "ok") => Unheld(lease)'
    BY DEF Promises
<1> QED BY <1>0, <1>1, <1>2, <1>3

\* A step of the broker beside the helper and the app.
LEMMA BrokerKeeps ==
    ASSUME IInv, Subsides, UNCHANGED <<helper, link, app>>,
           appHere' \in BOOLEAN, recovery' \in BOOLEAN,
           child' \subseteq Used, exitDue' \subseteq Used, lossDue' \subseteq lossDue,
           reaping' \subseteq (Reasons \X Used), faults' \in {faults, faults + 1}, faults' <= MaxFaults,
           lease # 0 => <<"loss", lease>> \notin reaping',
           lease # 0 /\ apc \in {"ready", "discover", "begin"} => <<"stop", lease>> \notin reaping'
    PROVE  IInv'
<1>0. /\ Sessional /\ Applicant /\ Calls /\ Jobs /\ Journal /\ Stages /\ Holding /\ Routed
      /\ Remembered /\ Ordered /\ Promises
    BY DEF IInv
<1>1. UNCHANGED <<disk, mem, table, reg, act, ronly, hpc, job, inbox, conn, reply, apc, lease, term>>
    BY DEF helper, link, app
<1>2. UNCHANGED nextGen /\ lossDue' \subseteq Used /\ faults' \in 0..MaxFaults
    BY <1>0, UsedFacts, FaultsAssumption DEF Subsides, Sessional
<1>3. Sessional'
    BY <1>0, <1>2, SubsidesSessional
<1>4. Applicant'
    <2>1. lease \notin lossDue' \/ lease = 0
        BY <1>0 DEF Applicant
    <2> QED BY <1>0, <1>1, <1>2, <2>1, ApplicantFrame
<1>5. Calls' /\ Jobs' /\ Journal' /\ Stages'
    BY <1>0, <1>2, HelperFrame
<1>6. Holding'
    BY <1>0, <1>1, SubsidesHolding
<1>7. Routed'
    BY <1>0, <1>1, SubsidesRouted
<1>8. Remembered'
    BY <1>0, <1>1, SubsidesRemembered
<1>9. Ordered'
    BY <1>0, <1>1, SubsidesOrdered
<1>10. Promises'
    BY <1>0, <1>1, SubsidesPromises
<1> QED BY <1>3, <1>4, <1>5, <1>6, <1>7, <1>8, <1>9, <1>10 DEF IInv

LEMMA ReapedSubsides ==
    ASSUME Sessional, NEW w \in Reasons, NEW g \in Gens, Reaped(w, g)
    PROVE  Subsides /\ appHere' \in BOOLEAN /\ recovery' \in BOOLEAN
<1>1. /\ reaping' = reaping \ {<<w, g>>}
      /\ UNCHANGED <<nextGen, child, exitDue, lossDue, late, executed, faults>>
    BY DEF Reaped
<1>2. CASE KeepSession
    BY <1>1, <1>2 DEF Subsides, KeepSession, session, Sessional
<1>3. CASE sess = g /\ ~held /\ ClearSession
    <2>1. sess # 0
        BY <1>3, SessionsAssumption DEF Gens
    <2>2. /\ sess' = 0 /\ held' = FALSE /\ released' = FALSE /\ appHere' = FALSE /\ recovery' = FALSE
          /\ tombstone' = IF released THEN sess ELSE tombstone
        BY <1>3 DEF ClearSession, NoSession
    <2>3. Subsides
        BY <1>1, <1>3, <2>1, <2>2 DEF Subsides
    <2> QED BY <2>2, <2>3
<1> QED BY <1>2, <1>3 DEF Reaped

LEMMA BrokerStepKeeps == ASSUME IInv, BrokerStep, ~(\E call \in late : LateArrives(call)) PROVE IInv'
<1>0. Sessional /\ Applicant /\ UNCHANGED <<helper, link, app>>
    BY DEF IInv, BrokerStep
<1>1. /\ appHere \in BOOLEAN /\ recovery \in BOOLEAN /\ child \subseteq Used /\ exitDue \subseteq Used
      /\ reaping \subseteq (Reasons \X Used) /\ lossDue \subseteq Used /\ faults \in Nat
      /\ faults <= MaxFaults /\ sess \in Nat /\ 0 \notin Used
      /\ held => sess # 0
    BY <1>0, UsedFacts, FaultsAssumption DEF Sessional
<1>2. /\ lease # 0 => lease \notin lossDue /\ <<"loss", lease>> \notin reaping
      /\ lease # 0 /\ apc \in {"ready", "discover", "begin"} => <<"stop", lease>> \notin reaping
    BY <1>0 DEF Applicant
<1>3. ASSUME NEW kind, Fault(kind) PROVE faults' \in {faults, faults + 1} /\ faults' <= MaxFaults
    BY <1>1, <1>3, FaultsAssumption DEF Fault
<1>4. ASSUME NEW g \in Gens, AppInvalidated(g) PROVE IInv'
    <2>1. /\ g \in lossDue /\ lossDue' = lossDue \ {g} /\ appHere' = (appHere /\ sess # g)
          /\ reaping' = IF sess = g /\ ~held THEN reaping \cup {<<"loss", g>>} ELSE reaping
          /\ UNCHANGED <<sess, held, released, recovery, tombstone, nextGen, child, exitDue, late,
                         executed, faults>>
        BY <1>4 DEF AppInvalidated
    <2>2. g \in Used /\ reaping' \subseteq (Reasons \X Used) /\ appHere' \in BOOLEAN
        BY <1>1, <2>1 DEF Reasons
    <2>3. Subsides
        BY <2>1 DEF Subsides
    <2>4. lease # 0 => lease # g
        BY <1>2, <2>1
    <2> QED BY <1>0, <1>1, <1>2, <2>1, <2>2, <2>3, <2>4, BrokerKeeps
<1>5. ASSUME NEW g \in Gens, ChildDies(g) PROVE IInv'
    <2>1. /\ g \in child /\ child' = child \ {g} /\ exitDue' = exitDue \cup {g}
          /\ UNCHANGED <<session, tombstone, nextGen, lossDue, reaping, late, executed>>
        BY <1>5 DEF ChildDies
    <2>2. faults' \in {faults, faults + 1} /\ faults' <= MaxFaults
        BY <1>1, <1>3, <1>5 DEF ChildDies, NoFault
    <2>3. Subsides /\ UNCHANGED <<appHere, recovery>>
        BY <2>1 DEF Subsides, session
    <2> QED BY <1>0, <1>1, <1>2, <2>1, <2>2, <2>3, BrokerKeeps
<1>6. ASSUME NEW g \in Gens, ChildExited(g) PROVE IInv'
    <2>1. /\ g \in exitDue /\ exitDue' = exitDue \ {g}
          /\ UNCHANGED <<nextGen, child, lossDue, reaping, late, executed, faults>>
        BY <1>6 DEF ChildExited
    <2>2. Subsides /\ appHere' \in BOOLEAN /\ recovery' \in BOOLEAN
        <3>1. CASE KeepSession
            BY <1>1, <2>1, <3>1 DEF Subsides, KeepSession, session
        <3>2. CASE sess = g /\ ~held /\ ClearSession
            BY <1>1, <2>1, <3>2 DEF Subsides, ClearSession, NoSession, Gens
        <3>3. CASE recovery' = TRUE /\ UNCHANGED <<sess, appHere, held, released, tombstone>>
            BY <1>1, <2>1, <3>3 DEF Subsides
        <3> QED BY <1>6, <3>1, <3>2, <3>3 DEF ChildExited
    <2> QED BY <1>0, <1>1, <1>2, <2>1, <2>2, BrokerKeeps
<1>7. ASSUME NEW w \in Reasons, NEW g \in Gens, Reaped(w, g) PROVE IInv'
    <2>1. /\ reaping' = reaping \ {<<w, g>>}
          /\ UNCHANGED <<nextGen, child, exitDue, lossDue, late, executed, faults>>
        BY <1>7 DEF Reaped
    <2>2. Subsides /\ appHere' \in BOOLEAN /\ recovery' \in BOOLEAN
        BY <1>0, <1>1, <1>7, ReapedSubsides
    <2> QED BY <1>0, <1>1, <1>2, <2>1, <2>2, BrokerKeeps
<1>8. ASSUME NEW w \in Reasons, NEW g \in Gens, ReapFails(w, g) PROVE IInv'
    <2>1. /\ reaping' = reaping \ {<<w, g>>} /\ Fault("reap")
          /\ UNCHANGED <<session, tombstone, nextGen, child, exitDue, lossDue, late, executed>>
        BY <1>8 DEF ReapFails
    <2>2. Subsides /\ UNCHANGED <<appHere, recovery>>
        BY <2>1 DEF Subsides, session
    <2> QED BY <1>0, <1>1, <1>2, <1>3, <2>1, <2>2, BrokerKeeps
<1>9. ASSUME HoldExpires PROVE IInv'
    <2>1. /\ recovery' = TRUE
          /\ UNCHANGED <<sess, appHere, held, released, tombstone, nextGen, child, exitDue, lossDue,
                         reaping, late, executed, faults>>
        BY <1>9 DEF HoldExpires
    <2>2. Subsides
        BY <2>1 DEF Subsides
    <2> QED BY <1>0, <1>1, <1>2, <2>1, <2>2, BrokerKeeps
<1> QED BY <1>4, <1>5, <1>6, <1>7, <1>8, <1>9 DEF BrokerStep

-----------------------------------------------------------------------------
(* The helper: what its steps have in common *)

\* No record, release or late call is about a lease that none was about.
Continues ==
    /\ UNCHANGED nextGen
    /\ \A r \in {mem', disk'} :
          r.lease \in {0, mem.lease, disk.lease} \/ (hpc = "pend" /\ r.lease = job.lease)
    /\ \A x \in executed' : x \in executed \/ x = mem.lease \/ (x \in Used /\ <<"release", x>> \in late)
    /\ \A x \in Used : \A k \in {"hold", "release"} :
          <<k, x>> \in late' => <<k, x>> \in late \/ x = mem.lease

LEMMA BelowContinues ==
    ASSUME Sessional, NEW l \in Used, Below(l), hpc = "pend" => job.lease < l, Continues
    PROVE  Below(l)'
<1>0. Used' = Used /\ 0 < l
    BY UsedFacts DEF Continues, Used
<1>1. mem.lease < l /\ disk.lease < l
    BY DEF Below
<1>2. mem'.lease < l /\ disk'.lease < l
    BY <1>0, <1>1 DEF Continues
<1>3. \A x \in executed' : x < l
    BY <1>1 DEF Continues, Below
<1>4. \A x \in Used : <<"hold", x>> \in late' \/ <<"release", x>> \in late' => x < l
    BY <1>1 DEF Continues, Below
<1> QED BY <1>0, <1>2, <1>3, <1>4 DEF Below

LEMMA OrderedContinues ==
    ASSUME Sessional, Applicant, Calls, Ordered, Continues, Begins' \subseteq Begins,
           UNCHANGED <<apc, lease>>, hpc' = "pend" => UNCHANGED <<hpc, job, mem, disk>>
    PROVE  Ordered'
<1>1. \A m \in Begins : m.lease \in Used
    BY DEF Calls, Begins
<1>2. apc \in {"ready", "discover"} => Below(lease)'
    <2> HAVE apc \in {"ready", "discover"}
    <2>1. lease \in Used
        BY LeaseUsed
    <2>2. Below(lease) /\ (hpc = "pend" => job.lease < lease)
        BY DEF Ordered
    <2>3. \A l \in Used : l = lease => Below(l)'
        BY <2>2, BelowContinues
    <2>4. Below(lease)' <=> \A l \in Used : l = lease => Below(l)'
        BY <2>1 DEF Below
    <2> QED BY <2>3, <2>4
<1>3. \A m \in Begins : Below(m.lease)'
    <2> TAKE m \in Begins
    <2>1. Below(m.lease) /\ (hpc = "pend" => job.lease < m.lease)
        BY DEF Ordered
    <2> QED BY <1>1, <2>1, BelowContinues
<1>4. /\ apc' \in {"ready", "discover"} => \A m \in Begins' : m.lease < lease'
      /\ \A m \in Begins' : \A k \in Begins' : k.conn < m.conn => k.lease < m.lease
    BY DEF Ordered
<1>5. (apc' \in {"ready", "discover"} => Below(lease)') /\ \A m \in Begins' : Below(m.lease)'
    BY <1>2, <1>3
<1>6. hpc' = "pend" => Below(job.lease)'
    <2> HAVE hpc' = "pend"
    <2>1. Below(job.lease) /\ UNCHANGED <<hpc, job, mem, disk>>
        BY DEF Ordered
    <2> QED BY <2>1 DEF Continues, Below, Used
<1>7. hpc' = "pend" => /\ apc \in {"ready", "discover"} => job'.lease < lease
                       /\ \A m \in Begins : job'.lease < m.lease
    BY DEF Ordered
<1> QED BY <1>4, <1>5, <1>6, <1>7 DEF Ordered

\* The end of a step: the operation goes on or is answered.
Ends == UNCHANGED <<job, reply>> \/ \E r \in Answers : Answer(r)

LEMMA CallsStep ==
    ASSUME Applicant, Calls, UNCHANGED <<inbox, conn, reg, apc, lease, nextGen>>,
           act' \in 0..conn, ronly' \in BOOLEAN, Ends
    PROVE  Calls'
<1>0. conn \in Nat /\ 1 <= conn /\ Used' = Used
    BY DEF Applicant, Used
<1>1. CASE UNCHANGED <<job, reply>>
    BY <1>0, <1>1 DEF Calls
<1>2. ASSUME NEW r \in Answers, Answer(r) PROVE Calls'
    <2>1. job' = NoJob /\ reply' = IF job.conn = conn THEN r ELSE reply
        BY <1>2 DEF Answer
    <2>2. job'.conn = 0 /\ job'.conn # conn
        BY <1>0, <2>1 DEF NoJob, Call
    <2>3. \A m \in inbox : m.conn = conn => reply' = reply
        BY <1>0, <2>1 DEF Calls
    <2>4. reply' \in Answers \cup {"none", "lost"}
        BY <2>1 DEF Calls
    <2>5. \A m \in inbox : /\ m = Call(m.op, m.conn, m.lease)
                           /\ m.op \in Waiting /\ m.conn \in 1..conn /\ m.lease \in Used
                           /\ job'.conn < m.conn
                           /\ m.conn = conn => reply' = "none" /\ m.op = apc /\ m.lease = lease
        BY <1>0, <2>2, <2>3 DEF Calls
    <2> QED BY <1>0, <2>2, <2>4, <2>5 DEF Calls
<1> QED BY <1>1, <1>2 DEF Ends

\* What a step of an operation writes, in memory or on disk: the record of its
\* lease, which ends and never revives; none, once the lease is over; or the
\* first record of a lease.
Writes(r) ==
    \/ UNCHANGED <<mem, disk>>
    \/ /\ mem' \in {mem, r} /\ disk' \in {disk, r} /\ WellFormed(r)
       /\ \/ /\ mem # NoRecord /\ r # NoRecord /\ r.lease = mem.lease
             /\ Ended(mem) => Ended(r)
             /\ r.state \in {"Held", "Applied"} => mem.state \in {"Held", "Applied"} \/ hpc = "keep"
             /\ r.state = "Released" => hpc = "done"
             /\ mem' # mem => disk' = r \/ r.state = mem.state
             /\ \A c \in Owned(mem) : c \in Owned(r) \/ table[c] = 0
          \/ r = NoRecord /\ hpc \in {"drop", "unlink"}
          \/ hpc = "pend" /\ r = Record(job.lease, "HoldPending", 0, 0) /\ (mem' = r => disk' = r)

LEMMA JournalWrites ==
    ASSUME Journal, Stages, NEW r, Writes(r), UNCHANGED nextGen, hpc' # "down"
    PROVE  Journal'
<1>0. Used' = Used
    BY DEF Used
<1>1. WellFormed(mem)' /\ WellFormed(disk)'
    BY <1>0 DEF Journal, Writes, WellFormed
<1>2. (mem' # NoRecord => disk'.lease \in {0, mem'.lease}) /\ (Ended(mem') => disk' = NoRecord \/ Ended(disk'))
    <2>1. CASE UNCHANGED <<mem, disk>>
        BY <2>1 DEF Journal, Ended
    <2>2. CASE /\ mem' \in {mem, r} /\ disk' \in {disk, r}
               /\ mem # NoRecord /\ r # NoRecord /\ r.lease = mem.lease
               /\ Ended(mem) => Ended(r)
               /\ mem' # mem => disk' = r \/ r.state = mem.state
        BY <2>2 DEF Journal, Ended
    <2>3. CASE mem' \in {mem, r} /\ disk' \in {disk, r} /\ r = NoRecord
        BY <2>3 DEF Journal, Ended, NoRecord, Record
    <2>4. CASE /\ hpc = "pend" /\ mem' \in {mem, r} /\ disk' \in {disk, r}
               /\ r = Record(job.lease, "HoldPending", 0, 0) /\ (mem' = r => disk' = r)
        <3>1. mem = NoRecord
            BY <2>4 DEF Stages
        <3> QED BY <2>4, <3>1 DEF Journal, Ended, NoRecord, Record
    <2> QED BY <2>1, <2>2, <2>3, <2>4 DEF Writes
<1>3. Ended(mem)' <=> Ended(mem')
    BY DEF Ended
<1>4. Ended(disk)' <=> Ended(disk')
    BY DEF Ended
<1> QED BY <1>1, <1>2, <1>3, <1>4 DEF Journal

LEMMA ContinuesWrites ==
    ASSUME NEW r, Writes(r), UNCHANGED <<nextGen, executed, late>>
    PROVE  Continues
<1>1. \A q \in {mem', disk'} :
          q.lease \in {0, mem.lease, disk.lease} \/ (hpc = "pend" /\ q.lease = job.lease)
    BY DEF Writes, NoRecord, Record
<1> QED BY <1>1 DEF Continues

\* While a lease is not over its record is not removed, and there is none
\* while another record is about to be written.
LEMMA HoldingWrites ==
    ASSUME Sessional, Journal, Stages, Holding, NEW r, Writes(r),
           UNCHANGED <<sess, held, released, late, nextGen>>,
           hpc \notin {"down", "idle"}, hpc' \notin {"down", "keep"},
           hpc' \in {"drop", "reaped", "done", "unlink"} =>
                (mem'.lease = mem.lease /\ hpc \in {"drop", "reaped", "done", "unlink"}) \/ Over(mem'.lease)
    PROVE  Holding'
<1>0. Used' = Used /\ 0 \notin Used /\ \A l : Over(l)' <=> Over(l)
    BY UsedFacts DEF Used, Over
<1>1. \A l \in Used : (sess' = l /\ held') \/ (<<"hold", l>> \in late' /\ ~Over(l)) =>
          disk'.lease = l /\ mem'.lease = l
    <2> SUFFICES ASSUME NEW l \in Used, (sess = l /\ held) \/ (<<"hold", l>> \in late /\ ~Over(l))
                 PROVE  disk'.lease = l /\ mem'.lease = l
        OBVIOUS
    <2>1. disk.lease = l /\ mem.lease = l /\ l # 0 /\ ~Over(l)
        BY <1>0 DEF Holding, Sessional, Over
    <2>2. hpc \notin {"drop", "unlink"}
        BY <2>1 DEF Holding
    <2>3. hpc # "pend"
        BY <2>1 DEF Stages, NoRecord, Record
    <2> QED BY <2>1, <2>2, <2>3 DEF Writes
<1>2. \A q \in {mem', disk'} : q.state \in {"Held", "Applied"} => held /\ sess = q.lease
    <2> SUFFICES ASSUME NEW q \in {mem', disk'}, q.state \in {"Held", "Applied"}
                 PROVE  held /\ sess = q.lease
        OBVIOUS
    <2>1. CASE q \in {mem, disk}
        BY <2>1 DEF Holding
    <2>2. CASE q = r /\ q.lease = mem.lease /\ (mem.state \in {"Held", "Applied"} \/ hpc = "keep")
        BY <2>2 DEF Holding
    <2> QED BY <2>1, <2>2 DEF Writes, NoRecord, Record
<1>3. \A q \in {mem', disk'} : q.state = "Released" => Over(q.lease)
    <2> SUFFICES ASSUME NEW q \in {mem', disk'}, q.state = "Released" PROVE Over(q.lease)
        OBVIOUS
    <2>1. CASE q \in {mem, disk}
        BY <2>1 DEF Holding
    <2>2. CASE q = r /\ q.lease = mem.lease /\ hpc = "done"
        BY <2>2 DEF Holding
    <2> QED BY <2>1, <2>2 DEF Writes, NoRecord, Record
<1>4. hpc' \in {"drop", "reaped", "done", "unlink"} => Over(mem'.lease)
    BY DEF Holding
<1>5. /\ Over(mem.lease)' <=> Over(mem'.lease)
      /\ \A q : Over(q.lease)' <=> Over(q.lease)
    BY DEF Over
<1> QED BY <1>0, <1>1, <1>2, <1>3, <1>4, <1>5 DEF Holding

LEMMA RoutedWrites ==
    ASSUME Sessional, Stages, Holding, Routed, NEW r, Writes(r),
           UNCHANGED <<sess, held, reaping, table>>, hpc # "down"
    PROVE  Routed'
<1> SUFFICES ASSUME NEW c \in Cidrs, table[c] # 0
             PROVE  /\ disk'.lease = table[c] /\ c \in Owned(disk')
                    /\ mem'.lease = table[c] /\ c \in Owned(mem')
    BY DEF Routed, Owned
<1>1. /\ sess = table[c] /\ held /\ disk.lease = table[c] /\ c \in Owned(disk)
      /\ mem.lease = table[c] /\ c \in Owned(mem) /\ ~Over(mem.lease)
    BY DEF Routed, Sessional, Over
<1>2. hpc \notin {"drop", "unlink"}
    BY <1>1 DEF Holding
<1>3. hpc # "pend"
    BY <1>1 DEF Stages, NoRecord, Record
<1> QED BY <1>1, <1>2, <1>3 DEF Writes

LEMMA RememberedWrites ==
    ASSUME Sessional, Jobs, Journal, Stages, Remembered, Ordered, NEW r, Writes(r),
           UNCHANGED <<sess, tombstone, late, executed, nextGen>>
    PROVE  Remembered'
<1>0. Used' = Used /\ executed \subseteq Used /\ 0 \notin Used /\ \A l : Settled(l)' <=> Settled(l)
    BY UsedFacts DEF Used, Settled, Sessional
<1>1. \A q : q \in {mem', disk'} =>
          \/ q \in {mem, disk} \/ q = NoRecord
          \/ mem # NoRecord /\ q.lease = mem.lease /\ (Ended(mem) => Ended(q))
          \/ hpc = "pend" /\ q.lease = job.lease
    BY DEF Writes, Record
<1>2. \A l \in Used : Settled(l) =>
          \A q \in {mem', disk'} : /\ q # NoRecord => l <= q.lease
                                   /\ q.lease = l => Ended(q)
    <2> SUFFICES ASSUME NEW l \in Used, Settled(l), NEW q \in {mem', disk'}
                 PROVE  (q # NoRecord => l <= q.lease) /\ (q.lease = l => Ended(q))
        OBVIOUS
    <2>1. CASE q \in {mem, disk}
        BY <2>1 DEF Remembered
    <2>2. CASE q = NoRecord
        BY <1>0, <2>2 DEF NoRecord, Record
    <2>3. CASE mem # NoRecord /\ q.lease = mem.lease /\ (Ended(mem) => Ended(q))
        BY <2>3 DEF Remembered
    <2>4. CASE hpc = "pend" /\ q.lease = job.lease
        <3>1. Below(job.lease)
            BY <2>4 DEF Ordered
        <3>2. l < job.lease
            BY <1>0, <3>1 DEF Below, Settled
        <3>3. l \in Nat /\ job.lease \in Nat
            BY <2>4, UsedFacts DEF Jobs
        <3> QED BY <2>4, <3>2, <3>3
    <2> QED BY <1>1, <2>1, <2>2, <2>3, <2>4
<1>3. \A l \in executed : \A q \in {mem', disk'} : q.lease = l => tombstone = l \/ sess = l
    <2> SUFFICES ASSUME NEW l \in executed, NEW q \in {mem', disk'}, q.lease = l
                 PROVE  tombstone = l \/ sess = l
        OBVIOUS
    <2>1. CASE q \in {mem, disk}
        BY <2>1 DEF Remembered
    <2>2. CASE q = NoRecord
        BY <1>0, <2>2 DEF NoRecord, Record
    <2>3. CASE mem # NoRecord /\ q.lease = mem.lease
        BY <2>3 DEF Remembered
    <2>4. CASE hpc = "pend" /\ q.lease = job.lease
        <3>1. l < l
            BY <2>4 DEF Ordered, Below
        <3>2. l \in Nat
            BY <1>0, UsedFacts
        <3> QED BY <3>1, <3>2
    <2> QED BY <1>1, <2>1, <2>2, <2>3, <2>4
<1> QED BY <1>0, <1>2, <1>3 DEF Remembered, Ended

\* The broker is left alone; who may add routes could do so before, and a
\* successful undo leaves nobody who could take a hold.
LEMMA PromisesStep ==
    ASSUME Promises, UNCHANGED <<sess, held, released, reaping, late, nextGen, apc, lease>>,
           inbox' \subseteq inbox,
           hpc' \in {"mark", "add", "save"} =>
              mem'.lease = mem.lease /\ (hpc \in {"mark", "add", "save"} \/ Applying(mem.lease)),
           hpc' \in {"pend", "hold"} =>
              /\ job'.lease = job.lease /\ hpc \in {"pend", "hold"}
              \/ \E m \in Begins : m.lease = job'.lease,
           apc = "begin" /\ reply' = "ok" => reply = "ok" \/ Safe(lease),
           apc = "undo" /\ reply' = "ok" => reply = "ok" \/ Unheld(lease)'
    PROVE  Promises'
<1>0. Used' = Used /\ Begins' \subseteq Begins /\ (\A l : Safe(l)' <=> Safe(l))
    BY DEF Used, Begins, Safe, Over
<1>1. \A l \in Used : Applying(l)' => Safe(l)
    <2> TAKE l \in Used
    <2> HAVE Applying(l)'
    <2>1. CASE \E m \in inbox' : m.op = "apply" /\ m.lease = l
        BY <2>1 DEF Promises, Applying
    <2>2. CASE hpc' \in {"mark", "add", "save"} /\ mem'.lease = l
        BY <2>2 DEF Promises, Applying
    <2>3. CASE apc = "begin" /\ reply' = "ok" /\ lease = l
        BY <2>3 DEF Promises, Applying
    <2> QED BY <2>1, <2>2, <2>3 DEF Applying
<1>2. ASSUME apc = "clear" \/ (apc = "undo" /\ reply' = "ok") PROVE Unheld(lease)'
    <2>1. CASE Unheld(lease)
        <3>1. CASE Over(lease) /\ ~(sess = lease /\ held)
            BY <3>1 DEF Unheld, Over
        <3>2. CASE /\ ~held /\ <<"hold", lease>> \notin late
                   /\ \A m \in Begins : m.lease # lease
                   /\ ~(hpc \in {"pend", "hold"} /\ job.lease = lease)
            BY <1>0, <3>2 DEF Unheld
        <3> QED BY <2>1, <3>1, <3>2 DEF Unheld
    <2>2. CASE ~Unheld(lease)
        BY <1>2, <2>2 DEF Promises
    <2> QED BY <2>1, <2>2
<1>3. Promises' <=> /\ \A l \in Used' : Applying(l)' => Safe(l)'
                    /\ apc' = "clear" \/ (apc' = "undo" /\ reply' = "ok") => Unheld(lease)'
    BY DEF Promises
<1> QED BY <1>0, <1>1, <1>2, <1>3

\* What a step of the helper leaves alone when it makes no call of the broker.
Frame ==
    /\ UNCHANGED <<broker, app, conn>>
    /\ faults' \in {faults, faults + 1} /\ faults' <= MaxFaults

LEMMA FrameFacts ==
    ASSUME Sessional, Applicant, Frame
    PROVE  /\ UNCHANGED <<sess, appHere, held, released, recovery, tombstone, nextGen, child, exitDue,
                          lossDue, reaping, late, executed, apc, lease, term, conn>>
           /\ Sessional' /\ Applicant'
<1>1. UNCHANGED <<sess, appHere, held, released, recovery, tombstone, nextGen, child, exitDue,
                  lossDue, reaping, late, executed, apc, lease, term, conn>>
    BY DEF Frame, broker, session, app
<1>2. Subsides
    BY <1>1 DEF Subsides
<1>3. /\ appHere' \in BOOLEAN /\ recovery' \in BOOLEAN
      /\ child' \subseteq Used /\ exitDue' \subseteq Used /\ lossDue' \subseteq Used
      /\ reaping' \subseteq (Reasons \X Used) /\ faults' \in 0..MaxFaults
    BY <1>1, UsedFacts, FaultsAssumption DEF Sessional, Frame
<1>4. Sessional'
    BY <1>2, <1>3, SubsidesSessional
<1>5. /\ lease \notin lossDue' \/ lease = 0
      /\ lease # 0 => <<"loss", lease>> \notin reaping'
      /\ lease # 0 /\ apc \in {"ready", "discover", "begin"} => <<"stop", lease>> \notin reaping'
      /\ faults' \in {faults, faults + 1}
    BY <1>1 DEF Applicant, Frame
<1>6. Applicant'
    BY <1>1, <1>5, ApplicantFrame
<1> QED BY <1>1, <1>4, <1>6

\* A step of an operation that makes no call of the broker.
LEMMA StepKeeps ==
    ASSUME IInv, NEW r, Writes(r), Frame, UNCHANGED <<inbox, reg>>, Ends, Routed',
           act' \in 0..conn, ronly' \in BOOLEAN, Jobs', Stages',
           hpc \notin {"down", "idle"}, hpc' \notin {"down", "keep", "pend"},
           hpc' = "hold" => hpc = "pend" /\ job' = job,
           hpc' \in {"drop", "reaped", "done", "unlink"} =>
                (mem'.lease = mem.lease /\ hpc \in {"drop", "reaped", "done", "unlink"}) \/ Over(mem'.lease),
           hpc' \in {"mark", "add", "save"} => mem'.lease = mem.lease /\ hpc \in {"mark", "add", "save"},
           apc = "begin" /\ reply' = "ok" => reply = "ok" \/ Safe(lease),
           apc = "undo" /\ reply' = "ok" => reply = "ok" \/ Unheld(lease)'
    PROVE  IInv'
<1>0. /\ Sessional /\ Applicant /\ Calls /\ Jobs /\ Journal /\ Stages /\ Holding /\ Routed
      /\ Remembered /\ Ordered /\ Promises
    BY DEF IInv
<1>1. UNCHANGED <<sess, appHere, held, released, recovery, tombstone, nextGen, child, exitDue,
                  lossDue, reaping, late, executed, apc, lease, term, conn, reg, inbox>>
    BY <1>0, FrameFacts
<1>2. Sessional' /\ Applicant'
    BY <1>0, FrameFacts
<1>3. Calls'
    BY <1>0, <1>1, CallsStep
<1>4. Journal'
    BY <1>0, <1>1, JournalWrites
<1>5. Holding'
    BY <1>0, <1>1, HoldingWrites
<1>6. Remembered'
    BY <1>0, <1>1, RememberedWrites
<1>7. Ordered'
    <2>1. Continues /\ Begins' \subseteq Begins
        BY <1>1, ContinuesWrites DEF Begins
    <2> QED BY <1>0, <1>1, <2>1, OrderedContinues
<1>8. Promises'
    <2>1. hpc' \in {"pend", "hold"} => job'.lease = job.lease /\ hpc \in {"pend", "hold"}
        OBVIOUS
    <2> QED BY <1>0, <1>1, <2>1, PromisesStep
<1> QED BY <1>2, <1>3, <1>4, <1>5, <1>6, <1>7, <1>8 DEF IInv

\* It leaves the routes alone.
LEMMA WriteKeeps ==
    ASSUME IInv, NEW r, Writes(r), Frame, UNCHANGED <<inbox, reg, table>>, Ends,
           act' \in 0..conn, ronly' \in BOOLEAN, Jobs', Stages',
           hpc \notin {"down", "idle"}, hpc' \notin {"down", "keep", "pend"},
           hpc' = "hold" => hpc = "pend" /\ job' = job,
           hpc' \in {"drop", "reaped", "done", "unlink"} =>
                (mem'.lease = mem.lease /\ hpc \in {"drop", "reaped", "done", "unlink"}) \/ Over(mem'.lease),
           hpc' \in {"mark", "add", "save"} => mem'.lease = mem.lease /\ hpc \in {"mark", "add", "save"},
           apc = "begin" /\ reply' = "ok" => reply = "ok" \/ Safe(lease),
           apc = "undo" /\ reply' = "ok" => reply = "ok" \/ Unheld(lease)'
    PROVE  IInv'
<1>1. UNCHANGED <<sess, held, reaping, table>> /\ Sessional /\ Stages /\ Holding /\ Routed
    BY DEF IInv, Frame, broker, session
<1>2. Routed'
    BY <1>1, RoutedWrites
<1> QED BY <1>2, StepKeeps

LEMMA FaultStep ==
    ASSUME Sessional, NEW kind, Fault(kind)
    PROVE  faults' \in {faults, faults + 1} /\ faults' <= MaxFaults
BY UsedFacts, FaultsAssumption DEF Fault

LEMMA NoFaultStep ==
    ASSUME Sessional, NoFault
    PROVE  faults' \in {faults, faults + 1} /\ faults' <= MaxFaults
BY UsedFacts, FaultsAssumption DEF NoFault, Sessional

\* Where a failed boundary leaves the helper.
LEMMA FailClosedFacts ==
    ASSUME NEW r, FailClosed(r)
    PROVE  /\ mem' = r /\ ronly' = TRUE /\ ronly' \in BOOLEAN /\ hpc' = "idle" /\ job' = NoJob /\ Ends
           /\ reply' = "ok" => reply = "ok"
BY DEF FailClosed, Answer, Ends, Answers

\* The helper waits again.
LEMMA IdleStages ==
    ASSUME hpc' = "idle", job' = NoJob, mem'.state = "Held" /\ ~ronly' => mem'.applied = 0 /\ mem'.pending = 0
    PROVE  Jobs' /\ Stages'
BY DEF Jobs, Stages, HelperLabels, Unwinding, Releasing

\* The answer of an undo that has removed the record: nobody can hold the
\* app's lease any more.
LEMMA UndoneIsUnheld ==
    ASSUME IInv, apc = "undo", hpc # "down", UNCHANGED <<sess, held, released, late, nextGen, lease>>,
           Begins' = {}, hpc' \notin {"pend", "hold"}, mem.lease # lease \/ Over(lease)
    PROVE  Unheld(lease)'
<1>0. lease \in Used /\ (held => ~released)
    BY LeaseUsed DEF IInv, Sessional
<1>1. CASE Over(lease)
    BY <1>0, <1>1 DEF Unheld, Over
<1>2. CASE ~Over(lease) /\ mem.lease # lease
    <2>1. ~held /\ <<"hold", lease>> \notin late
        BY <1>0, <1>2 DEF IInv, Holding, Over
    <2> QED BY <2>1 DEF Unheld
<1> QED BY <1>1, <1>2

LEMMA FailKeeps ==
    ASSUME IInv, hpc \notin {"down", "idle"}, NEW r, Writes(r), Frame, UNCHANGED <<inbox, reg, table, act>>,
           NEW q, FailClosed(q)
    PROVE  IInv'
<1>1. /\ ronly' = TRUE /\ ronly' \in BOOLEAN /\ hpc' = "idle" /\ job' = NoJob /\ Ends
      /\ reply' = "ok" => reply = "ok"
    BY FailClosedFacts
<1>2. Jobs' /\ Stages'
    BY <1>1, IdleStages
<1>3. act' \in 0..conn
    BY DEF IInv, Calls
<1> QED BY <1>1, <1>2, <1>3, WriteKeeps

\* The records the helper writes are well formed.
LEMMA RecordFields ==
    ASSUME NEW l, NEW s, NEW a, NEW p
    PROVE  /\ Record(l, s, a, p).lease = l /\ Record(l, s, a, p).state = s
           /\ Record(l, s, a, p).applied = a /\ Record(l, s, a, p).pending = p
BY DEF Record

\* A record in memory that is one.
LEMMA MemFacts ==
    ASSUME Journal, mem # NoRecord
    PROVE  /\ mem = Record(mem.lease, mem.state, mem.applied, mem.pending)
           /\ mem.lease \in Used /\ mem.state \in RecordStates /\ mem.applied \in 0..N
           /\ mem.pending \in 0..N /\ mem.pending \in {0, mem.applied, mem.applied + 1}
           /\ mem.state \in {"HoldPending", "RetirementPending", "Released"} => mem.applied = 0 /\ mem.pending = 0
BY DEF Journal, WellFormed

LEMMA BeginPersistKeeps == ASSUME IInv, BeginPersist, UNCHANGED app PROVE IInv'
<1> DEFINE r == Record(job.lease, "HoldPending", 0, 0)
<1>0. /\ Sessional /\ Calls /\ Jobs /\ hpc = "pend" /\ UNCHANGED <<table, reg, ronly, inbox, conn, broker, app>>
      /\ job.lease \in Used /\ job.op = "begin" /\ job.conn \in 0..conn /\ act \in 0..conn /\ ronly \in BOOLEAN
      /\ mem = NoRecord
    BY DEF IInv, BeginPersist, Jobs, Calls, Stages
<1>1. WellFormed(r) /\ r # NoRecord /\ r.state = "HoldPending"
    <2>1. r.lease = job.lease /\ r.state = "HoldPending" /\ r.applied = 0 /\ r.pending = 0
        BY RecordFields
    <2> QED BY <1>0, <2>1, CidrAssumption, RecordFields DEF WellFormed, RecordStates, NoRecord
<1>2. CASE Persists(r) /\ mem' = r /\ act' = job.conn /\ GoOn("hold")
    <2>1. hpc' = "hold" /\ UNCHANGED <<job, reply>> /\ disk' = r /\ NoFault
        BY <1>2 DEF GoOn, Persists
    <2>2. Frame
        BY <1>0, <2>1, NoFaultStep DEF Frame
    <2>3. Writes(r)
        BY <1>0, <1>1, <1>2, <2>1 DEF Writes
    <2>4. Jobs'
        <3>1. Used' = Used
            BY <1>0 DEF Used, broker
        <3> QED BY <1>0, <2>1, <3>1 DEF Jobs, HelperLabels, Unwinding, Releasing
    <2>5. Stages'
        BY <1>1, <1>2, <2>1 DEF Stages, Unwinding, Releasing
    <2>6. Ends /\ act' \in 0..conn /\ ronly' \in BOOLEAN
        BY <1>0, <1>2, <2>1 DEF Ends
    <2> HIDE DEF r
    <2> QED BY <1>0, <2>1, <2>2, <2>3, <2>4, <2>5, <2>6, WriteKeeps
<1>3. CASE (PersistFails(r) \/ (Fault("route") /\ UNCHANGED disk)) /\ Answer("bare") /\ UNCHANGED <<mem, act>>
    <2>1. /\ hpc' = "idle" /\ job' = NoJob /\ Ends /\ (reply' = "ok" => reply = "ok")
          /\ disk' \in {disk, r} /\ (Fault("persist") \/ Fault("route"))
        BY <1>3 DEF PersistFails, Answer, Ends, Answers
    <2>2. Frame
        BY <1>0, <2>1, FaultStep DEF Frame
    <2>3. Writes(r)
        BY <1>0, <1>1, <1>3, <2>1 DEF Writes
    <2>4. Jobs' /\ Stages'
        BY <1>0, <1>3, <2>1, IdleStages DEF NoRecord, Record
    <2>5. act' \in 0..conn /\ ronly' \in BOOLEAN
        BY <1>0, <1>3
    <2> HIDE DEF r
    <2> QED BY <1>0, <2>1, <2>2, <2>3, <2>4, <2>5, WriteKeeps
<1> QED BY <1>2, <1>3 DEF BeginPersist

LEMMA BeginHeldKeeps == ASSUME IInv, BeginHeld, UNCHANGED app PROVE IInv'
<1> DEFINE r == WithState(mem, "Held")
<1>0. /\ Sessional /\ Applicant /\ Calls /\ Jobs /\ Holding
      /\ hpc = "keep" /\ UNCHANGED <<table, reg, act, inbox, conn, broker, app>>
      /\ job.lease \in Used /\ job.op = "begin" /\ act \in 0..conn /\ ronly \in BOOLEAN
      /\ mem = Record(job.lease, "HoldPending", 0, 0) /\ mem # NoRecord
    BY DEF IInv, BeginHeld, Jobs, Calls, Stages
<1>1. /\ r.lease = job.lease /\ r.state = "Held" /\ r.applied = 0 /\ r.pending = 0 /\ r # NoRecord
      /\ r = Record(job.lease, "Held", 0, 0)
      /\ mem.lease = job.lease /\ mem.state = "HoldPending"
      /\ mem.applied = 0 /\ mem.pending = 0
    BY <1>0, RecordFields DEF WithState, NoRecord
<1>2. WellFormed(r)
    BY <1>0, <1>1, CidrAssumption DEF WellFormed, RecordStates
<1>3. ASSUME mem' \in {mem, r}, disk' \in {disk, r}, mem' # mem => disk' = r PROVE Writes(r)
    <2>1. Owned(mem) = {} /\ ~Ended(mem)
        BY <1>1 DEF Owned, Cidrs, Ended
    <2> QED BY <1>0, <1>1, <1>2, <1>3, <2>1 DEF Writes
<1>4. CASE Persists(r) /\ mem' = r /\ Answer("ok") /\ UNCHANGED ronly
    <2>1. /\ hpc' = "idle" /\ job' = NoJob /\ Ends /\ disk' = r /\ NoFault
          /\ reply' = IF job.conn = conn THEN "ok" ELSE reply
        BY <1>4 DEF Answer, Persists, Ends, Answers
    <2>2. Frame
        BY <1>0, <2>1, NoFaultStep DEF Frame
    <2>3. Writes(r)
        BY <1>3, <1>4, <2>1
    <2>4. Jobs' /\ Stages'
        BY <1>1, <1>4, <2>1, IdleStages
    <2>5. ronly' \in BOOLEAN /\ act' \in 0..conn
        BY <1>0, <1>4
    <2>6. apc = "begin" /\ reply' = "ok" => reply = "ok" \/ Safe(lease)
        <3> SUFFICES ASSUME apc = "begin", job.conn = conn PROVE Safe(lease)
            BY <2>1
        <3>1. lease = job.lease /\ lease \in Used /\ lease # 0 /\ held /\ sess = lease /\ ~released
            BY <1>0, <1>1, UsedFacts DEF Calls, Holding, Sessional
        <3>2. <<"loss", lease>> \notin reaping /\ <<"stop", lease>> \notin reaping
            BY <1>0, <3>1 DEF Applicant
        <3>3. <<"release", lease>> \notin reaping
            BY <1>0, <3>1 DEF Sessional
        <3> QED BY <3>1, <3>2, <3>3 DEF Safe, Reasons
    <2>7. apc = "undo" /\ reply' = "ok" => reply = "ok"
        BY <1>0, <2>1 DEF Calls
    <2> HIDE DEF r
    <2> QED BY <1>0, <2>1, <2>2, <2>3, <2>4, <2>5, <2>6, <2>7, WriteKeeps
<1>5. CASE PersistFails(r) /\ FailClosed(mem)
    <2>1. Frame
        BY <1>0, <1>5, FaultStep DEF Frame, PersistFails
    <2>2. Writes(r)
        BY <1>3, <1>5 DEF PersistFails, FailClosed
    <2> HIDE DEF r
    <2> QED BY <1>0, <1>5, <2>1, <2>2, FailKeeps
<1> QED BY <1>4, <1>5 DEF BeginHeld

LEMMA BeginRejectedKeeps == ASSUME IInv, BeginRejected, UNCHANGED app PROVE IInv'
<1>0. /\ Sessional /\ Calls /\ hpc = "drop" /\ UNCHANGED <<table, reg, inbox, conn, broker, app>>
      /\ act \in 0..conn /\ ronly \in BOOLEAN /\ conn \in Nat
    BY DEF IInv, BeginRejected, Calls, Applicant
<1>1. ASSUME mem' \in {mem, NoRecord}, disk' \in {disk, NoRecord} PROVE Writes(NoRecord)
    BY <1>0, <1>1 DEF Writes, WellFormed
<1>2. CASE Persists(NoRecord) /\ mem' = NoRecord /\ act' = 0 /\ Answer("bare") /\ UNCHANGED ronly
    <2>1. /\ hpc' = "idle" /\ job' = NoJob /\ Ends /\ disk' = NoRecord /\ NoFault
          /\ reply' = "ok" => reply = "ok"
        BY <1>2 DEF Answer, Persists, Ends, Answers
    <2>2. Frame
        BY <1>0, <2>1, NoFaultStep DEF Frame
    <2>3. Writes(NoRecord)
        BY <1>1, <1>2, <2>1
    <2>4. Jobs' /\ Stages'
        BY <1>2, <2>1, IdleStages DEF NoRecord, Record
    <2>5. ronly' \in BOOLEAN /\ act' \in 0..conn
        BY <1>0, <1>2
    <2> QED BY <1>0, <2>1, <2>2, <2>3, <2>4, <2>5, WriteKeeps
<1>3. CASE PersistFails(NoRecord) /\ FailClosed(mem) /\ UNCHANGED act
    <2>1. Frame
        BY <1>0, <1>3, FaultStep DEF Frame, PersistFails
    <2>2. Writes(NoRecord)
        BY <1>1, <1>3 DEF PersistFails, FailClosed
    <2> QED BY <1>0, <1>3, <2>1, <2>2, FailKeeps
<1> QED BY <1>2, <1>3 DEF BeginRejected

LEMMA ApplyMarkKeeps == ASSUME IInv, ApplyMark, UNCHANGED app PROVE IInv'
<1> DEFINE r == WithPending(mem, mem.applied + 1)
<1>0. /\ Sessional /\ Calls /\ Jobs /\ Journal
      /\ hpc = "mark" /\ UNCHANGED <<table, reg, act, inbox, conn, broker, app>>
      /\ job.op = "apply" /\ act \in 0..conn /\ ronly \in BOOLEAN
      /\ mem # NoRecord /\ mem.state = "Held" /\ mem.pending = 0 /\ mem.applied < N
    BY DEF IInv, ApplyMark, Jobs, Calls, Stages
<1>1. /\ r.lease = mem.lease /\ r.state = "Held" /\ r.applied = mem.applied /\ r.pending = mem.applied + 1
      /\ r = Record(r.lease, r.state, r.applied, r.pending)
    BY <1>0, RecordFields DEF WithPending
<1>2. WellFormed(r) /\ r # NoRecord
    <2>1. mem.lease \in Used /\ mem.applied \in 0..N
        BY <1>0, MemFacts
    <2>2. mem.applied + 1 \in 0..N
        BY <1>0, <2>1, CidrAssumption
    <2>3. r # NoRecord
        BY <1>1, RecordFields DEF NoRecord
    <2> HIDE DEF r
    <2> QED BY <1>1, <2>1, <2>2, <2>3 DEF WellFormed, RecordStates
<1>3. ASSUME mem' \in {mem, r}, disk' \in {disk, r} PROVE Writes(r)
    <2>1. ~Ended(mem) /\ mem.applied \in Nat
        BY <1>0, MemFacts DEF Ended
    <2>2. \A c \in Owned(mem) : c \in Owned(r)
        BY <1>0, <1>1, <2>1 DEF Owned, Cidrs
    <2> HIDE DEF r
    <2> QED BY <1>0, <1>1, <1>2, <1>3, <2>1, <2>2 DEF Writes
<1>4. CASE Persists(r) /\ mem' = r /\ GoOn("add") /\ UNCHANGED ronly
    <2>1. hpc' = "add" /\ UNCHANGED <<job, reply>> /\ Ends /\ disk' = r /\ NoFault
        BY <1>4 DEF GoOn, Persists, Ends
    <2>2. Frame
        BY <1>0, <2>1, NoFaultStep DEF Frame
    <2>3. Writes(r)
        BY <1>3, <1>4, <2>1
    <2>4. Jobs'
        BY <1>0, <2>1 DEF Jobs, HelperLabels, Unwinding, Releasing
    <2> HIDE DEF r
    <2>5. Stages'
        BY <1>1, <1>2, <1>4, <2>1 DEF Stages, Unwinding, Releasing
    <2>6. ronly' \in BOOLEAN /\ act' \in 0..conn /\ mem'.lease = mem.lease
        BY <1>0, <1>1, <1>4
    <2> QED BY <1>0, <2>1, <2>2, <2>3, <2>4, <2>5, <2>6, WriteKeeps
<1>5. CASE PersistFails(r) /\ FailClosed(r)
    <2>1. Frame
        BY <1>0, <1>5, FaultStep DEF Frame, PersistFails
    <2>2. Writes(r)
        BY <1>3, <1>5 DEF PersistFails, FailClosed
    <2> HIDE DEF r
    <2> QED BY <1>0, <1>5, <2>1, <2>2, FailKeeps
<1> QED BY <1>4, <1>5 DEF ApplyMark

LEMMA ApplySaveKeeps == ASSUME IInv, ApplySave, UNCHANGED app PROVE IInv'
<1> DEFINE r == WithAdded(mem)
<1>0. /\ Sessional /\ Calls /\ Jobs /\ Journal
      /\ hpc = "save" /\ UNCHANGED <<table, reg, act, inbox, conn, broker, app>>
      /\ job.op = "apply" /\ act \in 0..conn /\ ronly \in BOOLEAN
      /\ mem # NoRecord /\ mem.state = "Held" /\ mem.pending = mem.applied + 1
    BY DEF IInv, ApplySave, Jobs, Calls, Stages
<1>1. /\ r.lease = mem.lease /\ r.state = "Held" /\ r.applied = mem.pending /\ r.pending = 0
      /\ r = Record(r.lease, r.state, r.applied, r.pending)
    BY <1>0, RecordFields DEF WithAdded
<1>2. WellFormed(r) /\ r # NoRecord
    <2>1. mem.lease \in Used /\ mem.pending \in 0..N /\ 0 \in 0..N
        BY <1>0, MemFacts, CidrAssumption
    <2>2. r # NoRecord
        BY <1>1, RecordFields DEF NoRecord
    <2> HIDE DEF r
    <2> QED BY <1>1, <2>1, <2>2 DEF WellFormed, RecordStates
<1>3. ASSUME mem' \in {mem, r}, disk' \in {disk, r} PROVE Writes(r)
    <2>1. ~Ended(mem) /\ mem.applied \in Nat
        BY <1>0, MemFacts DEF Ended
    <2>2. \A c \in Owned(mem) : c \in Owned(r)
        BY <1>0, <1>1, <2>1 DEF Owned, Cidrs
    <2> HIDE DEF r
    <2> QED BY <1>0, <1>1, <1>2, <1>3, <2>1, <2>2 DEF Writes
<1>4. CASE Persists(r) /\ mem' = r /\ GoOn(IF r.applied < N THEN "mark" ELSE "seal") /\ UNCHANGED ronly
    <2>1. /\ hpc' = (IF r.applied < N THEN "mark" ELSE "seal")
          /\ UNCHANGED <<job, reply>> /\ Ends /\ disk' = r /\ NoFault
        BY <1>4 DEF GoOn, Persists, Ends
    <2>2. Frame
        BY <1>0, <2>1, NoFaultStep DEF Frame
    <2>3. Writes(r)
        BY <1>3, <1>4, <2>1
    <2> HIDE DEF r
    <2>4. Jobs'
        BY <1>0, <2>1 DEF Jobs, HelperLabels, Unwinding, Releasing
    <2>5. Stages'
        BY <1>1, <1>2, <1>4, <2>1 DEF Stages, Unwinding, Releasing
    <2>6. ronly' \in BOOLEAN /\ act' \in 0..conn /\ mem'.lease = mem.lease
        BY <1>0, <1>1, <1>4
    <2> QED BY <1>0, <2>1, <2>2, <2>3, <2>4, <2>5, <2>6, WriteKeeps
<1>5. CASE PersistFails(r) /\ FailClosed(r)
    <2>1. Frame
        BY <1>0, <1>5, FaultStep DEF Frame, PersistFails
    <2>2. Writes(r)
        BY <1>3, <1>5 DEF PersistFails, FailClosed
    <2> HIDE DEF r
    <2> QED BY <1>0, <1>5, <2>1, <2>2, FailKeeps
<1> QED BY <1>4, <1>5 DEF ApplySave

LEMMA ApplySealKeeps == ASSUME IInv, ApplySeal, UNCHANGED app PROVE IInv'
<1> DEFINE r == WithState(mem, "Applied")
<1>0. /\ Sessional /\ Calls /\ Jobs /\ Journal
      /\ hpc = "seal" /\ UNCHANGED <<table, reg, act, inbox, conn, broker, app>>
      /\ job.op = "apply" /\ act \in 0..conn /\ ronly \in BOOLEAN
      /\ mem # NoRecord /\ mem.state = "Held"
    BY DEF IInv, ApplySeal, Jobs, Calls, Stages
<1>1. /\ r.lease = mem.lease /\ r.state = "Applied" /\ r.applied = mem.applied /\ r.pending = mem.pending
      /\ r = Record(r.lease, r.state, r.applied, r.pending)
    BY RecordFields DEF WithState
<1>2. WellFormed(r) /\ r # NoRecord
    <2>1. /\ mem.lease \in Used /\ mem.applied \in 0..N /\ mem.pending \in 0..N
          /\ mem.pending \in {0, mem.applied, mem.applied + 1}
        BY <1>0, MemFacts
    <2>2. r # NoRecord
        BY <1>1, RecordFields DEF NoRecord
    <2> HIDE DEF r
    <2> QED BY <1>1, <2>1, <2>2 DEF WellFormed, RecordStates
<1>3. ASSUME mem' \in {mem, r}, disk' \in {disk, r}, mem' # mem => disk' = r PROVE Writes(r)
    <2>1. ~Ended(mem) /\ \A c \in Owned(mem) : c \in Owned(r)
        BY <1>0, <1>1 DEF Ended, Owned
    <2> HIDE DEF r
    <2> QED BY <1>0, <1>1, <1>2, <1>3, <2>1 DEF Writes
<1>4. CASE Persists(r) /\ mem' = r /\ Answer("ok") /\ UNCHANGED ronly
    <2>1. /\ hpc' = "idle" /\ job' = NoJob /\ Ends /\ disk' = r /\ NoFault
          /\ reply' = IF job.conn = conn THEN "ok" ELSE reply
        BY <1>4 DEF Answer, Persists, Ends, Answers
    <2>2. Frame
        BY <1>0, <2>1, NoFaultStep DEF Frame
    <2>3. Writes(r)
        BY <1>3, <1>4, <2>1
    <2>4. Jobs' /\ Stages'
        BY <1>1, <1>4, <2>1, IdleStages
    <2>5. ronly' \in BOOLEAN /\ act' \in 0..conn
        BY <1>0, <1>4
    <2>6. apc \in {"begin", "undo"} /\ reply' = "ok" => reply = "ok"
        BY <1>0, <2>1 DEF Calls
    <2> HIDE DEF r
    <2> QED BY <1>0, <2>1, <2>2, <2>3, <2>4, <2>5, <2>6, WriteKeeps
<1>5. CASE PersistFails(r) /\ FailClosed(mem)
    <2>1. Frame
        BY <1>0, <1>5, FaultStep DEF Frame, PersistFails
    <2>2. Writes(r)
        BY <1>3, <1>5 DEF PersistFails, FailClosed
    <2> HIDE DEF r
    <2> QED BY <1>0, <1>5, <2>1, <2>2, FailKeeps
<1> QED BY <1>4, <1>5 DEF ApplySeal

LEMMA BeatQueryKeeps == ASSUME IInv, BeatQuery, UNCHANGED app PROVE IInv'
<1>0. /\ Sessional /\ Calls /\ Jobs /\ Stages
      /\ hpc = "query" /\ UNCHANGED <<disk, table, reg, act, inbox, conn, broker, app>>
      /\ job.op = "beat" /\ act \in 0..conn /\ ronly \in BOOLEAN
    BY DEF IInv, BeatQuery, Jobs, Calls
<1>1. ASSUME UNCHANGED mem PROVE Writes(mem)
    BY <1>0, <1>1 DEF Writes
<1>2. CASE NoFault /\ Answer("ok") /\ UNCHANGED <<mem, ronly>>
    <2>1. /\ hpc' = "idle" /\ job' = NoJob /\ Ends
          /\ reply' = IF job.conn = conn THEN "ok" ELSE reply
        BY <1>2 DEF Answer, Ends, Answers
    <2>2. Frame
        BY <1>0, <1>2, NoFaultStep DEF Frame
    <2>3. Jobs' /\ Stages'
        BY <1>0, <1>2, <2>1, IdleStages DEF Stages
    <2>4. ronly' \in BOOLEAN /\ act' \in 0..conn
        BY <1>0, <1>2
    <2>5. apc \in {"begin", "undo"} /\ reply' = "ok" => reply = "ok"
        BY <1>0, <2>1 DEF Calls
    <2> QED BY <1>0, <1>1, <1>2, <2>1, <2>2, <2>3, <2>4, <2>5, WriteKeeps
<1>3. CASE (NoFault \/ Fault("xpc")) /\ FailClosed(mem)
    <2>1. Frame
        BY <1>0, <1>3, FaultStep, NoFaultStep DEF Frame
    <2>2. Writes(mem)
        BY <1>1, <1>3 DEF FailClosed
    <2> QED BY <1>0, <1>3, <2>1, <2>2, FailKeeps
<1> QED BY <1>2, <1>3 DEF BeatQuery

\* The routes while the journal stays: a route that is new is of the session
\* that holds, and owned by both records.
LEMMA TableSteps ==
    ASSUME IInv, Frame, UNCHANGED <<mem, disk, inbox, reg, act>>, hpc \notin {"down", "idle"},
           table' \in [Cidrs -> 0..Sessions],
           \A c \in Cidrs : table'[c] # 0 =>
              \/ table'[c] = table[c]
              \/ /\ table'[c] = mem.lease /\ sess = mem.lease /\ held /\ disk.lease = mem.lease
                 /\ c \in Owned(mem) /\ c \in Owned(disk)
                 /\ \A w \in Reasons : <<w, mem.lease>> \notin reaping
    PROVE  /\ Routed'
           /\ FailClosed(mem) => IInv'
<1>1. UNCHANGED <<sess, held, reaping, disk, mem>> /\ Routed
    BY DEF IInv, Frame, broker, session
<1>2. Routed'
    BY <1>1 DEF Routed, Owned
<1>3. ASSUME FailClosed(mem) PROVE IInv'
    <2>1. /\ ronly' = TRUE /\ ronly' \in BOOLEAN /\ hpc' = "idle" /\ job' = NoJob /\ Ends
          /\ reply' = "ok" => reply = "ok"
        BY <1>3, FailClosedFacts
    <2>2. Jobs' /\ Stages'
        BY <2>1, IdleStages
    <2>3. act' \in 0..conn /\ Writes(mem)
        BY DEF IInv, Calls, Writes
    <2> QED BY <1>2, <2>1, <2>2, <2>3, StepKeeps
<1> QED BY <1>2, <1>3

LEMMA ApplyAddKeeps == ASSUME IInv, ApplyAdd, UNCHANGED app PROVE IInv'
<1> DEFINE added == [table EXCEPT ![mem.pending] = mem.lease]
<1>0. /\ Sessional /\ Calls /\ Jobs /\ Journal /\ Stages /\ Holding /\ Routed /\ Promises
      /\ hpc = "add" /\ UNCHANGED <<disk, reg, act, inbox, conn, broker, app>>
      /\ job.op = "apply" /\ act \in 0..conn /\ ronly \in BOOLEAN
      /\ mem # NoRecord /\ mem.state = "Held" /\ mem.pending = mem.applied + 1 /\ disk = mem
    BY DEF IInv, ApplyAdd, Jobs, Calls, Stages
<1>1. mem.lease \in Used /\ mem.lease \in 0..Sessions /\ mem.pending \in Cidrs /\ mem.pending \in Owned(mem)
    <2>1. mem.lease \in Used /\ mem.applied \in 0..N /\ mem.pending \in 0..N
        BY <1>0, MemFacts
    <2>2. mem.lease \in 0..Sessions
        BY <1>0, <2>1, UsedFacts, SessionsAssumption DEF Gens
    <2>3. mem.pending \in Cidrs
        BY <1>0, <2>1, CidrAssumption DEF Cidrs
    <2> QED BY <2>1, <2>2, <2>3 DEF Owned
<1>2. held /\ sess = mem.lease /\ \A w \in Reasons : <<w, mem.lease>> \notin reaping
    <2>1. held /\ sess = mem.lease /\ ~released
        BY <1>0 DEF Holding, Sessional
    <2>2. Safe(mem.lease)
        BY <1>0, <1>1 DEF Promises, Applying
    <2> QED BY <2>1, <2>2 DEF Safe, Over
<1>3. ASSUME table' \in {table, added}
      PROVE  /\ table' \in [Cidrs -> 0..Sessions]
             /\ \A c \in Cidrs : table'[c] # 0 =>
                  \/ table'[c] = table[c]
                  \/ /\ table'[c] = mem.lease /\ sess = mem.lease /\ held /\ disk.lease = mem.lease
                     /\ c \in Owned(mem) /\ c \in Owned(disk)
                     /\ \A w \in Reasons : <<w, mem.lease>> \notin reaping
    <2>1. table \in [Cidrs -> 0..Sessions]
        BY <1>0 DEF Routed
    <2>2. table' \in [Cidrs -> 0..Sessions]
        BY <1>1, <1>3, <2>1
    <2>3. \A c \in Cidrs : table'[c] = table[c] \/ (c = mem.pending /\ table'[c] = mem.lease)
        BY <1>1, <1>3, <2>1
    <2> QED BY <1>0, <1>1, <1>2, <2>2, <2>3
<1> HIDE DEF added
<1>4. CASE NoFault /\ table' = added /\ GoOn("save") /\ UNCHANGED <<mem, ronly>>
    <2>1. hpc' = "save" /\ UNCHANGED <<job, reply>> /\ Ends
        BY <1>4 DEF GoOn, Ends
    <2>2. Frame
        BY <1>0, <1>4, NoFaultStep DEF Frame
    <2>3. Writes(mem)
        BY <1>0, <1>4 DEF Writes
    <2>4. Jobs'
        BY <1>0, <2>1 DEF Jobs, HelperLabels, Unwinding, Releasing
    <2>5. Stages'
        BY <1>0, <1>4, <2>1 DEF Stages, Unwinding, Releasing
    <2>6. ronly' \in BOOLEAN /\ act' \in 0..conn /\ mem'.lease = mem.lease
        BY <1>0, <1>4
    <2>7. Routed'
        BY <1>0, <1>3, <1>4, <2>2, TableSteps
    <2> QED BY <1>0, <2>1, <2>2, <2>3, <2>4, <2>5, <2>6, <2>7, StepKeeps
<1>5. CASE Fault("route") /\ table' \in {table, added} /\ FailClosed(mem)
    <2>1. Frame
        BY <1>0, <1>5, FaultStep DEF Frame
    <2>2. UNCHANGED mem
        BY <1>5 DEF FailClosed
    <2> QED BY <1>0, <1>3, <1>5, <2>1, <2>2, TableSteps
<1> QED BY <1>4, <1>5 DEF ApplyAdd, added

LEMMA RetireDeleteKeeps == ASSUME IInv, RetireDelete, UNCHANGED app PROVE IInv'
<1> DEFINE removed == [table EXCEPT ![mem.pending] = 0]
<1>0. /\ Sessional /\ Calls /\ Jobs /\ Journal /\ Stages /\ Routed
      /\ hpc = "del" /\ UNCHANGED <<disk, reg, act, inbox, conn, broker, app>>
      /\ job.op = "undo" \/ job.conn = 0
      /\ act \in 0..conn /\ ronly \in BOOLEAN
      /\ mem # NoRecord /\ mem.state \in {"HoldPending", "Held", "Applied"}
      /\ mem.pending # 0 /\ mem.pending >= mem.applied
    BY DEF IInv, RetireDelete, Jobs, Calls, Stages, Unwinding
<1>1. mem.pending \in Cidrs /\ LastOwned(mem) = mem.pending
    <2>1. mem.applied \in 0..N /\ mem.pending \in 0..N
        BY <1>0, MemFacts
    <2> QED BY <1>0, <2>1, CidrAssumption DEF Cidrs, LastOwned
<1>2. table \in [Cidrs -> 0..Sessions] /\ 0 \in 0..Sessions
    BY <1>0, SessionsAssumption DEF Routed
<1>3. ASSUME table' \in {table, removed}
      PROVE  /\ table' \in [Cidrs -> 0..Sessions]
             /\ \A c \in Cidrs : table'[c] # 0 => table'[c] = table[c]
    BY <1>1, <1>2, <1>3
<1>4. removed[mem.pending] = 0
    BY <1>1, <1>2
<1> HIDE DEF removed
<1>5. CASE NoFault /\ table' = removed /\ GoOn("unsave") /\ UNCHANGED <<mem, ronly>>
    <2>1. hpc' = "unsave" /\ UNCHANGED <<job, reply>> /\ Ends
        BY <1>5 DEF GoOn, Ends
    <2>2. Frame
        BY <1>0, <1>5, NoFaultStep DEF Frame
    <2>3. Writes(mem)
        BY <1>0, <1>5 DEF Writes
    <2>4. Jobs'
        BY <1>0, <2>1 DEF Jobs, HelperLabels, Unwinding, Releasing
    <2>5. Stages'
        <3>1. LastOwned(mem)' = mem.pending /\ LastOwned(mem)' # 0 /\ table'[LastOwned(mem)'] = 0
            BY <1>0, <1>1, <1>4, <1>5 DEF LastOwned
        <3> QED BY <1>0, <1>5, <2>1, <3>1 DEF Stages, Unwinding, Releasing
    <2>6. ronly' \in BOOLEAN /\ act' \in 0..conn
        BY <1>0, <1>5
    <2>7. Routed'
        BY <1>0, <1>3, <1>5, <2>2, TableSteps
    <2> QED BY <1>0, <2>1, <2>2, <2>3, <2>4, <2>5, <2>6, <2>7, StepKeeps
<1>6. CASE Fault("route") /\ table' \in {table, removed} /\ FailClosed(mem)
    <2>1. Frame
        BY <1>0, <1>6, FaultStep DEF Frame
    <2>2. UNCHANGED mem
        BY <1>6 DEF FailClosed
    <2> QED BY <1>0, <1>3, <1>6, <2>1, <2>2, TableSteps
<1> QED BY <1>5, <1>6 DEF RetireDelete, removed

\* What the unwinding of a lease may rely on.
LEMMA UnwindFacts ==
    ASSUME IInv, hpc \in Unwinding
    PROVE  /\ Sessional /\ Calls /\ Jobs /\ Journal /\ Stages /\ Routed
           /\ job.op = "undo" \/ job.conn = 0
           /\ act \in 0..conn /\ ronly \in BOOLEAN
           /\ mem # NoRecord /\ mem.state \in {"HoldPending", "Held", "Applied"} /\ ~Ended(mem)
           /\ mem.lease \in Used /\ mem.applied \in 0..N /\ mem.pending \in 0..N
           /\ mem.pending \in {0, mem.applied, mem.applied + 1}
           /\ mem.state = "HoldPending" => mem.applied = 0 /\ mem.pending = 0
<1>1. /\ Sessional /\ Calls /\ Jobs /\ Journal /\ Stages /\ Routed
      /\ job.op = "undo" \/ job.conn = 0
      /\ act \in 0..conn /\ ronly \in BOOLEAN
      /\ mem # NoRecord /\ mem.state \in {"HoldPending", "Held", "Applied"}
    BY DEF IInv, Jobs, Calls, Stages, Unwinding
<1>2. ~Ended(mem)
    BY <1>1 DEF Ended
<1> QED BY <1>1, <1>2, MemFacts

LEMMA RetireMarkKeeps == ASSUME IInv, RetireMark, UNCHANGED app PROVE IInv'
<1> DEFINE c == LastOwned(mem)
           r == WithPending(mem, c)
<1>0. hpc = "unmark" /\ hpc \in Unwinding /\ UNCHANGED <<table, reg, act, inbox, conn, broker, app>> /\ c # 0
    BY DEF IInv, RetireMark, Stages, Unwinding
<1>1. /\ Sessional /\ Calls /\ Jobs /\ Journal /\ Stages /\ Routed
      /\ job.op = "undo" \/ job.conn = 0
      /\ act \in 0..conn /\ ronly \in BOOLEAN
      /\ mem # NoRecord /\ mem.state \in {"HoldPending", "Held", "Applied"} /\ ~Ended(mem)
      /\ mem.lease \in Used /\ mem.applied \in 0..N /\ mem.pending \in 0..N
      /\ mem.pending \in {0, mem.applied, mem.applied + 1}
      /\ mem.state = "HoldPending" => mem.applied = 0 /\ mem.pending = 0
    BY <1>0, UnwindFacts
<1>2. c \in 0..N /\ c \in {mem.applied, mem.applied + 1} /\ c >= mem.applied /\ c \in Cidrs /\ c # 0
    BY <1>0, <1>1, CidrAssumption DEF LastOwned, Cidrs
<1>3. /\ r.lease = mem.lease /\ r.state = mem.state /\ r.applied = mem.applied /\ r.pending = c
      /\ r = Record(r.lease, r.state, r.applied, r.pending)
    BY RecordFields DEF WithPending
<1>4. \A d \in Owned(mem) : d \in Owned(r)
    BY <1>1, <1>2, <1>3 DEF Owned, LastOwned, Cidrs
<1>5. WellFormed(r) /\ r # NoRecord
    <2>1. r # NoRecord
        BY <1>1, <1>3, RecordFields DEF NoRecord
    <2>2. mem.state # "HoldPending"
        BY <1>0, <1>1 DEF LastOwned
    <2> HIDE DEF r, c
    <2> QED BY <1>1, <1>2, <1>3, <2>1, <2>2 DEF WellFormed, RecordStates
<1>6. table[c] = 0 \/ table[c] = mem.lease
    BY <1>0, <1>1, <1>2 DEF Routed
<1>7. LastOwned(mem)' = LastOwned(mem') /\ (UNCHANGED mem => LastOwned(mem)' = c)
    BY DEF LastOwned
<1> HIDE DEF r, c
<1>8. ASSUME mem' \in {mem, r}, disk' \in {disk, r} PROVE Writes(r)
    BY <1>1, <1>3, <1>4, <1>5, <1>8 DEF Writes
<1>9. CASE Persists(r) /\ mem' = r /\ GoOn("del") /\ UNCHANGED ronly
    <2>1. hpc' = "del" /\ UNCHANGED <<job, reply>> /\ Ends /\ disk' = r /\ NoFault
        BY <1>9 DEF GoOn, Persists, Ends
    <2>2. Frame
        BY <1>0, <1>1, <2>1, NoFaultStep DEF Frame
    <2>3. Writes(r)
        BY <1>8, <1>9, <2>1
    <2>4. Jobs'
        BY <1>1, <2>1 DEF Jobs, HelperLabels, Unwinding, Releasing
    <2>5. Stages'
        BY <1>1, <1>2, <1>3, <1>5, <1>9, <2>1 DEF Stages, Unwinding, Releasing
    <2>6. ronly' \in BOOLEAN /\ act' \in 0..conn
        BY <1>0, <1>1, <1>9
    <2> QED BY <1>0, <2>1, <2>2, <2>3, <2>4, <2>5, <2>6, WriteKeeps
<1>10. CASE PersistFails(r) /\ FailClosed(r)
    <2>1. Frame
        BY <1>0, <1>1, <1>10, FaultStep DEF Frame, PersistFails
    <2>2. Writes(r)
        BY <1>8, <1>10 DEF PersistFails, FailClosed
    <2> QED BY <1>0, <1>10, <2>1, <2>2, FailKeeps
<1>11. CASE table[c] # mem.lease /\ GoOn("unsave") /\ UNCHANGED <<disk, mem, ronly, faults>>
    <2>1. hpc' = "unsave" /\ UNCHANGED <<job, reply>> /\ Ends
        BY <1>11 DEF GoOn, Ends
    <2>2. Frame
        BY <1>0, <1>1, <1>11, NoFaultStep DEF Frame, NoFault
    <2>3. Writes(mem)
        BY <1>11 DEF Writes
    <2>4. Jobs'
        BY <1>1, <2>1 DEF Jobs, HelperLabels, Unwinding, Releasing
    <2>5. Stages'
        <3>1. LastOwned(mem)' = c /\ c # 0 /\ table'[c] = 0
            BY <1>0, <1>2, <1>6, <1>7, <1>11
        <3> QED BY <1>1, <1>11, <2>1, <3>1 DEF Stages, Unwinding, Releasing
    <2>6. ronly' \in BOOLEAN /\ act' \in 0..conn
        BY <1>0, <1>1, <1>11
    <2> QED BY <1>0, <2>1, <2>2, <2>3, <2>4, <2>5, <2>6, WriteKeeps
<1>12. CASE Fault("route") /\ FailClosed(mem) /\ UNCHANGED disk
    <2>1. Frame
        BY <1>0, <1>1, <1>12, FaultStep DEF Frame
    <2>2. Writes(mem)
        BY <1>12 DEF Writes, FailClosed
    <2> QED BY <1>0, <1>12, <2>1, <2>2, FailKeeps
<1> QED BY <1>9, <1>10, <1>11, <1>12 DEF RetireMark, r, c

LEMMA RetireSaveKeeps == ASSUME IInv, RetireSave, UNCHANGED app PROVE IInv'
<1> DEFINE c == LastOwned(mem)
           r == Without(mem, c)
<1>0. /\ hpc = "unsave" /\ hpc \in Unwinding /\ UNCHANGED <<table, reg, act, inbox, conn, broker, app>>
      /\ c # 0 /\ table[c] = 0
    BY DEF IInv, RetireSave, Stages, Unwinding
<1>1. /\ Sessional /\ Calls /\ Jobs /\ Journal /\ Stages /\ Routed
      /\ job.op = "undo" \/ job.conn = 0
      /\ act \in 0..conn /\ ronly \in BOOLEAN
      /\ mem # NoRecord /\ mem.state \in {"HoldPending", "Held", "Applied"} /\ ~Ended(mem)
      /\ mem.lease \in Used /\ mem.applied \in 0..N /\ mem.pending \in 0..N
      /\ mem.pending \in {0, mem.applied, mem.applied + 1}
      /\ mem.state = "HoldPending" => mem.applied = 0 /\ mem.pending = 0
    BY <1>0, UnwindFacts
<1>2. /\ r.lease = mem.lease /\ r.state = mem.state /\ r.pending = 0
      /\ r.applied = (IF c = mem.applied THEN c - 1 ELSE mem.applied)
      /\ r = Record(r.lease, r.state, r.applied, r.pending)
    BY RecordFields DEF Without
<1>3. r.applied \in 0..N /\ 0 \in 0..N
    BY <1>0, <1>1, <1>2, CidrAssumption DEF LastOwned
<1>4. \A d \in Owned(mem) : d \in Owned(r) \/ table[d] = 0
    <2> SUFFICES ASSUME NEW d \in Owned(mem), d # c PROVE d \in Owned(r)
        BY <1>0
    <2>1. d \in Cidrs /\ d \in Nat /\ (d <= mem.applied \/ d = mem.pending)
        BY CidrAssumption DEF Owned, Cidrs
    <2>2. d <= r.applied
        BY <1>1, <1>2, <2>1 DEF LastOwned
    <2> QED BY <2>1, <2>2 DEF Owned
<1>5. WellFormed(r) /\ r # NoRecord
    <2>1. r # NoRecord
        BY <1>1, <1>2, RecordFields DEF NoRecord
    <2>2. mem.state # "HoldPending"
        BY <1>0, <1>1 DEF LastOwned
    <2> HIDE DEF r, c
    <2> QED BY <1>1, <1>2, <1>3, <2>1, <2>2 DEF WellFormed, RecordStates
<1> HIDE DEF r, c
<1>6. /\ RetireFrom(r) \in {"unmark", "retire"}
      /\ RetireFrom(r) = "unmark" => LastOwned(r) # 0
      /\ RetireFrom(r) = "retire" => r.applied = 0
    <2>1. r.state # "Released" /\ r.state # "RetirementPending"
        BY <1>1, <1>2
    <2>2. RetireFrom(r) = IF LastOwned(r) # 0 THEN "unmark" ELSE "retire"
        BY <2>1 DEF RetireFrom
    <2>3. LastOwned(r) = r.applied
        BY <1>2, <1>3 DEF LastOwned
    <2> QED BY <2>2, <2>3
<1>7. ASSUME mem' \in {mem, r}, disk' \in {disk, r} PROVE Writes(r)
    BY <1>1, <1>2, <1>4, <1>5, <1>7 DEF Writes
<1>8. CASE Persists(r) /\ mem' = r /\ GoOn(RetireFrom(r)) /\ UNCHANGED ronly
    <2>1. hpc' = RetireFrom(r) /\ UNCHANGED <<job, reply>> /\ Ends /\ disk' = r /\ NoFault
        BY <1>8 DEF GoOn, Persists, Ends
    <2>2. Frame
        BY <1>0, <1>1, <2>1, NoFaultStep DEF Frame
    <2>3. Writes(r)
        BY <1>7, <1>8, <2>1
    <2>4. Jobs'
        BY <1>1, <1>6, <2>1 DEF Jobs, HelperLabels, Unwinding, Releasing
    <2>5. Stages'
        <3>1. LastOwned(mem)' = LastOwned(r)
            BY <1>8 DEF LastOwned
        <3> QED BY <1>1, <1>2, <1>5, <1>6, <1>8, <2>1, <3>1 DEF Stages, Unwinding, Releasing
    <2>6. ronly' \in BOOLEAN /\ act' \in 0..conn
        BY <1>0, <1>1, <1>8
    <2> QED BY <1>0, <1>6, <2>1, <2>2, <2>3, <2>4, <2>5, <2>6, WriteKeeps
<1>9. CASE PersistFails(r) /\ FailClosed(r)
    <2>1. Frame
        BY <1>0, <1>1, <1>9, FaultStep DEF Frame, PersistFails
    <2>2. Writes(r)
        BY <1>7, <1>9 DEF PersistFails, FailClosed
    <2> QED BY <1>0, <1>9, <2>1, <2>2, FailKeeps
<1> QED BY <1>8, <1>9 DEF RetireSave, r, c

LEMMA RetirePersistKeeps == ASSUME IInv, RetirePersist, UNCHANGED app PROVE IInv'
<1> DEFINE r == Record(mem.lease, "RetirementPending", 0, 0)
<1>0. /\ hpc = "retire" /\ hpc \in Unwinding /\ UNCHANGED <<table, reg, act, inbox, conn, broker, app>>
      /\ mem.applied = 0 /\ mem.pending = 0
    BY DEF IInv, RetirePersist, Stages, Unwinding
<1>1. /\ Sessional /\ Calls /\ Jobs /\ Journal /\ Stages /\ Routed
      /\ job.op = "undo" \/ job.conn = 0
      /\ act \in 0..conn /\ ronly \in BOOLEAN
      /\ mem # NoRecord /\ mem.lease \in Used
    BY <1>0, UnwindFacts
<1>2. r.lease = mem.lease /\ r.state = "RetirementPending" /\ r.applied = 0 /\ r.pending = 0
    BY RecordFields
<1>3. WellFormed(r) /\ r # NoRecord /\ Ended(r)
    BY <1>1, <1>2, RecordFields, CidrAssumption DEF WellFormed, RecordStates, NoRecord, Ended
<1>4. Owned(mem) = {}
    BY <1>0 DEF Owned, Cidrs
<1>5. ASSUME mem' \in {mem, r}, disk' \in {disk, r}, mem' # mem => disk' = r PROVE Writes(r)
    BY <1>1, <1>2, <1>3, <1>4, <1>5 DEF Writes
<1>6. CASE Persists(r) /\ mem' = r /\ GoOn("release") /\ UNCHANGED ronly
    <2>1. hpc' = "release" /\ UNCHANGED <<job, reply>> /\ Ends /\ disk' = r /\ NoFault
        BY <1>6 DEF GoOn, Persists, Ends
    <2>2. Frame
        BY <1>0, <1>1, <2>1, NoFaultStep DEF Frame
    <2>3. Writes(r)
        BY <1>5, <1>6, <2>1
    <2>4. Jobs'
        BY <1>1, <1>0, <2>1 DEF Jobs, HelperLabels, Unwinding, Releasing
    <2> HIDE DEF r
    <2>5. Stages'
        BY <1>2, <1>3, <1>6, <2>1 DEF Stages, Unwinding, Releasing, Ended
    <2>6. ronly' \in BOOLEAN /\ act' \in 0..conn
        BY <1>0, <1>1, <1>6
    <2> QED BY <1>0, <2>1, <2>2, <2>3, <2>4, <2>5, <2>6, WriteKeeps
<1>7. CASE PersistFails(r) /\ FailClosed(mem)
    <2>1. Frame
        BY <1>0, <1>1, <1>7, FaultStep DEF Frame, PersistFails
    <2>2. Writes(r)
        BY <1>5, <1>7 DEF PersistFails, FailClosed
    <2> HIDE DEF r
    <2> QED BY <1>0, <1>7, <2>1, <2>2, FailKeeps
<1> QED BY <1>6, <1>7 DEF RetirePersist

\* The record of a lease at its end.
LEMMA ReleaseFacts ==
    ASSUME IInv, hpc \in Releasing
    PROVE  /\ Sessional /\ Applicant /\ Calls /\ Jobs /\ Journal /\ Stages /\ Holding
           /\ job.op = "undo" \/ job.conn = 0
           /\ act \in 0..conn /\ ronly \in BOOLEAN /\ conn \in Nat
           /\ mem # NoRecord /\ Ended(mem) /\ mem.state # "Held" /\ mem.lease \in Used
           /\ mem.applied = 0 /\ mem.pending = 0 /\ Owned(mem) = {}
           /\ hpc # "release" => Over(mem.lease)
<1>1. /\ Sessional /\ Applicant /\ Calls /\ Jobs /\ Journal /\ Stages /\ Holding
      /\ job.op = "undo" \/ job.conn = 0
      /\ act \in 0..conn /\ ronly \in BOOLEAN /\ conn \in Nat
      /\ mem # NoRecord /\ Ended(mem) /\ mem.state # "Held"
      /\ hpc # "release" => Over(mem.lease)
    BY DEF IInv, Jobs, Calls, Stages, Releasing, Holding, Ended, Applicant
<1>2. mem.lease \in Used /\ mem.applied = 0 /\ mem.pending = 0
    BY <1>1, MemFacts DEF Ended
<1>3. Owned(mem) = {}
    BY <1>2 DEF Owned, Cidrs
<1> QED BY <1>1, <1>2, <1>3

LEMMA RetireReleasedKeeps == ASSUME IInv, RetireReleased, UNCHANGED app PROVE IInv'
<1> DEFINE r == WithState(mem, "Released")
<1>0. /\ hpc = "done" /\ hpc \in Releasing /\ UNCHANGED <<table, reg, act, inbox, conn, broker, app>>
    BY DEF IInv, RetireReleased, Releasing
<1>1. /\ Sessional /\ Jobs /\ Stages
      /\ job.op = "undo" \/ job.conn = 0
      /\ act \in 0..conn /\ ronly \in BOOLEAN
      /\ mem # NoRecord /\ Ended(mem) /\ mem.lease \in Used
      /\ mem.applied = 0 /\ mem.pending = 0 /\ Owned(mem) = {}
    BY <1>0, ReleaseFacts
<1>2. /\ r.lease = mem.lease /\ r.state = "Released" /\ r.applied = 0 /\ r.pending = 0
      /\ r = Record(r.lease, r.state, r.applied, r.pending)
    BY <1>1, RecordFields DEF WithState
<1>3. WellFormed(r) /\ r # NoRecord /\ Ended(r)
    <2>1. r # NoRecord
        BY <1>2, RecordFields DEF NoRecord
    <2> HIDE DEF r
    <2> QED BY <1>1, <1>2, <2>1, CidrAssumption DEF WellFormed, RecordStates, Ended
<1> HIDE DEF r
<1>4. ASSUME UNCHANGED mem, disk' \in {disk, r} PROVE Writes(r)
    BY <1>0, <1>1, <1>2, <1>3, <1>4 DEF Writes
<1>5. CASE Persists(r) /\ GoOn("unlink") /\ UNCHANGED <<mem, ronly>>
    <2>1. hpc' = "unlink" /\ UNCHANGED <<job, reply>> /\ Ends /\ disk' = r /\ NoFault
        BY <1>5 DEF GoOn, Persists, Ends
    <2>2. Frame
        BY <1>0, <1>1, <2>1, NoFaultStep DEF Frame
    <2>3. Writes(r)
        BY <1>4, <1>5, <2>1
    <2>4. Jobs'
        BY <1>1, <2>1 DEF Jobs, HelperLabels, Unwinding, Releasing
    <2>5. Stages'
        BY <1>1, <1>5, <2>1 DEF Stages, Unwinding, Releasing, Ended
    <2>6. ronly' \in BOOLEAN /\ act' \in 0..conn /\ mem'.lease = mem.lease
        BY <1>0, <1>1, <1>5
    <2> QED BY <1>0, <2>1, <2>2, <2>3, <2>4, <2>5, <2>6, WriteKeeps
<1>6. CASE PersistFails(r) /\ FailClosed(mem)
    <2>1. Frame
        BY <1>0, <1>1, <1>6, FaultStep DEF Frame, PersistFails
    <2>2. Writes(r)
        BY <1>4, <1>6 DEF PersistFails, FailClosed
    <2> QED BY <1>0, <1>6, <2>1, <2>2, FailKeeps
<1> QED BY <1>5, <1>6 DEF RetireReleased, r

LEMMA RetireUnlinkKeeps == ASSUME IInv, RetireUnlink, UNCHANGED app PROVE IInv'
<1>0. /\ hpc = "unlink" /\ hpc \in Releasing /\ UNCHANGED <<table, reg, inbox, conn, broker, app>>
    BY DEF IInv, RetireUnlink, Releasing
<1>1. /\ Sessional /\ Calls /\ Jobs /\ Stages
      /\ job.op = "undo" \/ job.conn = 0
      /\ act \in 0..conn /\ ronly \in BOOLEAN /\ conn \in Nat /\ 1 <= conn
      /\ Over(mem.lease)
    BY <1>0, ReleaseFacts DEF Applicant
<1>2. ASSUME mem' \in {mem, NoRecord}, disk' \in {disk, NoRecord} PROVE Writes(NoRecord)
    BY <1>0, <1>2 DEF Writes, WellFormed
<1>3. CASE Persists(NoRecord) /\ mem' = NoRecord /\ act' = 0 /\ ronly' = FALSE /\ Answer("ok")
    <2>1. /\ hpc' = "idle" /\ job' = NoJob /\ Ends /\ disk' = NoRecord /\ NoFault
          /\ reply' = IF job.conn = conn THEN "ok" ELSE reply
        BY <1>3 DEF Answer, Persists, Ends, Answers
    <2>2. Frame
        BY <1>0, <1>1, <2>1, NoFaultStep DEF Frame
    <2>3. Writes(NoRecord)
        BY <1>2, <1>3, <2>1
    <2>4. Jobs' /\ Stages'
        BY <1>3, <2>1, IdleStages DEF NoRecord, Record
    <2>5. ronly' \in BOOLEAN /\ act' \in 0..conn
        <3>1. ronly' \in BOOLEAN
            BY <1>3
        <3>2. act' \in 0..conn
            BY <1>1, <1>3
        <3> QED BY <3>1, <3>2
    <2>6. apc = "begin" /\ reply' = "ok" => reply = "ok"
        BY <1>1, <2>1 DEF Calls
    <2>7. apc = "undo" /\ reply' = "ok" => reply = "ok" \/ Unheld(lease)'
        <3> SUFFICES ASSUME apc = "undo", job.conn = conn PROVE Unheld(lease)'
            BY <2>1
        <3>1. inbox = {}
            BY <1>1 DEF Calls
        <3>2. Begins' = {} /\ UNCHANGED <<sess, held, released, late, nextGen, lease>>
            BY <1>0, <3>1 DEF Begins, broker, session, app
        <3>3. mem.lease # lease \/ Over(lease)
            BY <1>1
        <3> QED BY <1>0, <2>1, <3>2, <3>3, UndoneIsUnheld
    <2> QED BY <1>0, <2>1, <2>2, <2>3, <2>4, <2>5, <2>6, <2>7, WriteKeeps
<1>4. CASE PersistFails(NoRecord) /\ FailClosed(mem) /\ UNCHANGED act
    <2>1. Frame
        BY <1>0, <1>1, <1>4, FaultStep DEF Frame, PersistFails
    <2>2. Writes(NoRecord)
        BY <1>2, <1>4 DEF PersistFails, FailClosed
    <2> QED BY <1>0, <1>4, <2>1, <2>2, FailKeeps
<1> QED BY <1>3, <1>4 DEF RetireUnlink

-----------------------------------------------------------------------------
(* The helper's calls of the broker *)

\* The broker takes a hold that it was asked for, now or by a late call.
Takes(l) ==
    /\ MayHold(l) /\ held' = TRUE /\ UNCHANGED <<released, reaping, executed>>
    /\ <<"hold", l>> \in late \/ (hpc = "hold" /\ mem.lease = l)

\* The broker releases a lease whose record says so.
Drops(l) ==
    /\ sess = l /\ held' = FALSE /\ released' = TRUE /\ executed' = executed \cup {l}
    /\ reaping' \in {reaping, reaping \cup {<<"release", l>>}}
    /\ <<"release", l>> \in late \/ (mem.lease = l /\ Ended(mem))

Serves == UNCHANGED <<held, released, reaping, executed>> \/ \E l \in Used : Takes(l) \/ Drops(l)

\* A call that may be executed later is one the helper was making.
Delays ==
    /\ late' \subseteq ({"hold", "release"} \X Used)
    /\ \A x \in Used :
          /\ <<"hold", x>> \in late' => <<"hold", x>> \in late \/ (hpc = "hold" /\ x = mem.lease)
          /\ <<"release", x>> \in late' => <<"release", x>> \in late \/ (x = mem.lease /\ Ended(mem))

\* What a call leaves alone.
Around ==
    /\ UNCHANGED <<sess, tombstone, nextGen, child, exitDue, lossDue, appHere, mem, disk, table, reg,
                   act, inbox, conn, apc, lease, term>>
    /\ recovery' \in BOOLEAN /\ ronly' \in BOOLEAN
    /\ faults' \in {faults, faults + 1} /\ faults' <= MaxFaults

LEMMA DropFacts ==
    ASSUME IInv, NEW l \in Used, Drops(l)
    PROVE  /\ \A r \in {mem, disk} : r.lease = l => Ended(r)
           /\ \A r \in {mem, disk} : r # NoRecord => l <= r.lease
           /\ \A c \in Cidrs : table[c] = 0
<1>0. Sessional /\ Journal /\ Routed /\ Remembered /\ l # 0 /\ sess = l
    BY UsedFacts DEF IInv, Drops
<1>1. /\ \A r \in {mem, disk} : r.lease = l => Ended(r)
      /\ \A r \in {mem, disk} : r # NoRecord => l <= r.lease
    <2>1. CASE <<"release", l>> \in late
        BY <1>0, <2>1 DEF Remembered, Settled
    <2>2. CASE mem.lease = l /\ Ended(mem)
        <3>1. mem # NoRecord
            BY <1>0, <2>2 DEF NoRecord, Record
        <3>2. l \in Nat
            BY <1>0, UsedFacts
        <3>3. disk = NoRecord \/ (Ended(disk) /\ disk.lease \in {0, l})
            BY <1>0, <2>2, <3>1 DEF Journal
        <3>4. disk # NoRecord => disk.lease = l
            BY <1>0, <2>2, <3>1, UsedFacts DEF Journal, WellFormed
        <3> QED BY <1>0, <2>2, <3>2, <3>3, <3>4 DEF NoRecord, Record
    <2> QED BY <2>1, <2>2 DEF Drops
<1>2. \A c \in Cidrs : table[c] = 0
    <2> SUFFICES ASSUME NEW c \in Cidrs, table[c] # 0 PROVE FALSE
        OBVIOUS
    <2>1. disk.lease = l /\ c \in Owned(disk)
        BY <1>0 DEF Routed
    <2>2. disk # NoRecord /\ Ended(disk)
        BY <1>0, <1>1, <2>1 DEF NoRecord, Record
    <2>3. disk.applied = 0 /\ disk.pending = 0
        BY <1>0, <2>2 DEF Journal, WellFormed, Ended
    <2> QED BY <2>1, <2>3 DEF Owned, Cidrs
<1> QED BY <1>1, <1>2

LEMMA ServesSessional ==
    ASSUME IInv, Around, Delays, Serves
    PROVE  Sessional' /\ Applicant'
<1>0. /\ Sessional /\ Applicant
      /\ UNCHANGED <<sess, tombstone, nextGen, child, exitDue, lossDue, appHere, conn, apc, lease, term>>
      /\ recovery' \in BOOLEAN /\ faults' \in {faults, faults + 1} /\ faults' <= MaxFaults
      /\ Used' = Used /\ 0 \notin Used
    BY UsedFacts DEF IInv, Around, Used
<1>1. faults' \in 0..MaxFaults
    BY <1>0, UsedFacts, FaultsAssumption
<1>2. reaping' \subseteq (Reasons \X Used) /\ \A g \in Used, w \in Reasons \ {"release"} : <<w, g>> \in reaping' => <<w, g>> \in reaping
    <2>1. reaping \subseteq (Reasons \X Used) /\ "release" \in Reasons
        BY <1>0 DEF Sessional, Reasons
    <2>2. CASE UNCHANGED reaping
        BY <2>1, <2>2
    <2>3. ASSUME NEW l \in Used, reaping' = reaping \cup {<<"release", l>>} 
          PROVE  reaping' \subseteq (Reasons \X Used) /\ \A g \in Used, w \in Reasons \ {"release"} : <<w, g>> \in reaping' => <<w, g>> \in reaping
        BY <2>1, <2>3
    <2> QED BY <2>2, <2>3 DEF Serves, Takes, Drops
<1> DEFINE Flags == /\ held' \in BOOLEAN /\ released' \in BOOLEAN
                    /\ held' => sess # 0 /\ ~released'
                    /\ released' <=> sess \in executed'
                    /\ executed' \subseteq Used
                    /\ \A g \in Used : <<"release", g>> \in reaping' => sess # g \/ released'
<1>3. Flags
    <2>1. CASE UNCHANGED <<held, released, reaping, executed>>
        BY <1>0, <2>1 DEF Sessional
    <2>2. ASSUME NEW l \in Used, Takes(l) PROVE Flags
        <3>1. sess = l /\ ~held /\ ~released /\ held' = TRUE /\ UNCHANGED <<released, reaping, executed>>
            BY <2>2 DEF Takes, MayHold
        <3>2. held' \in BOOLEAN /\ released' \in BOOLEAN
            BY <1>0, <3>1 DEF Sessional
        <3>3. held' => sess # 0 /\ ~released'
            BY <1>0, <3>1
        <3>4. /\ released' <=> sess \in executed'
              /\ executed' \subseteq Used
              /\ \A g \in Used : <<"release", g>> \in reaping' => sess # g \/ released'
            BY <1>0, <3>1 DEF Sessional
        <3> QED BY <3>2, <3>3, <3>4
    <2>3. ASSUME NEW l \in Used, Drops(l) PROVE Flags
        <3>1. /\ sess = l /\ held' = FALSE /\ released' = TRUE /\ executed' = executed \cup {l}
            BY <2>3 DEF Drops
        <3>2. held' \in BOOLEAN /\ released' \in BOOLEAN
            BY <3>1
        <3> QED BY <1>0, <3>1, <3>2 DEF Sessional
    <2> QED BY <2>1, <2>2, <2>3 DEF Serves
<1>4. Sessional'
    <2>1. /\ nextGen' \in 1..(Sessions + 1)
          /\ sess' \in 0..(nextGen' - 1) /\ tombstone' \in 0..(nextGen' - 1)
          /\ appHere' \in BOOLEAN /\ (sess' # 0 => tombstone' < sess')
          /\ child' \subseteq Used /\ exitDue' \subseteq Used /\ lossDue' \subseteq Used
        BY <1>0 DEF Sessional
    <2>2. late' \subseteq ({"hold", "release"} \X Used)
        BY DEF Delays
    <2> QED BY <1>0, <1>1, <1>2, <1>3, <2>1, <2>2 DEF Sessional
<1>5. Applicant'
    <2>1. /\ lease \notin lossDue' \/ lease = 0
          /\ lease # 0 => <<"loss", lease>> \notin reaping /\ lease \in Used
          /\ lease # 0 /\ apc \in {"ready", "discover", "begin"} => <<"stop", lease>> \notin reaping
        BY <1>0, LeaseUsed DEF Applicant
    <2>2. /\ lease # 0 => <<"loss", lease>> \notin reaping'
          /\ lease # 0 /\ apc \in {"ready", "discover", "begin"} => <<"stop", lease>> \notin reaping'
        BY <1>2, <2>1 DEF Reasons
    <2> QED BY <1>0, <2>1, <2>2, ApplicantFrame
<1> QED BY <1>4, <1>5

\* Seen from a lease: what is over stays over and what is safe stays safe.
LEMMA ServesEffects ==
    ASSUME IInv, UNCHANGED sess, Serves, NEW x \in Used
    PROVE  (Over(x) => Over(x)') /\ (Safe(x) => Safe(x)')
<1> DEFINE Kept == (Over(x) => Over(x)') /\ (Safe(x) => Safe(x)')
<1>1. CASE UNCHANGED <<held, released, reaping, executed>>
    BY <1>1 DEF Over, Safe
<1>2. ASSUME NEW l \in Used, Takes(l) PROVE Kept
    BY <1>2 DEF Over, Safe, Takes
<1>3. ASSUME NEW l \in Used, Drops(l) PROVE Kept
    BY <1>3 DEF Over, Safe, Drops
<1> QED BY <1>1, <1>2, <1>3 DEF Serves

\* Where the helper is after a call: where it was, or at what the answer means.
Returns ==
    /\ \/ UNCHANGED <<hpc, job, reply>>
       \/ /\ hpc' \in {"keep", "drop", "reaped", "done", "idle"} /\ hpc # "down"
          /\ reply' = "ok" => reply = "ok"
    /\ hpc' = "keep" => hpc = "keep" \/ (held' /\ sess = mem.lease)
    /\ hpc' \in {"drop", "reaped", "done", "unlink"} =>
          hpc \in {"drop", "reaped", "done", "unlink"} \/ Over(mem.lease)'

LEMMA ServesHolding ==
    ASSUME IInv, Around, Delays, Serves, Returns
    PROVE  Holding'
<1>0. /\ Sessional /\ Jobs /\ Journal /\ Stages /\ Holding /\ Remembered
      /\ UNCHANGED <<sess, mem, disk, nextGen>> /\ Used' = Used /\ 0 \notin Used
    BY UsedFacts DEF IInv, Around, Used
<1>1. \A r \in {mem, disk} : r # NoRecord => r.lease \in Used
    BY <1>0 DEF Journal, WellFormed
<1>2. \A l \in Used : Over(l) => Over(l)'
    BY <1>0, ServesEffects
<1>3. hpc' # "down" => hpc # "down"
    BY DEF Returns
<1>4. ASSUME NEW l \in Used, (sess = l /\ held') \/ (<<"hold", l>> \in late' /\ ~Over(l)')
      PROVE  disk.lease = l /\ (hpc' # "down" => mem.lease = l)
    <2>1. ~(\E x \in Used : Drops(x))
        BY <1>0, <1>4 DEF Drops, Over
    <2>2. CASE (sess = l /\ held) \/ (<<"hold", l>> \in late /\ ~Over(l))
        BY <1>0, <1>3, <2>2 DEF Holding
    <2>3. CASE hpc = "hold" /\ mem.lease = l
        BY <1>0, <2>3 DEF Stages
    <2>4. CASE <<"hold", l>> \in late' /\ ~Over(l)'
        BY <1>2, <2>2, <2>3, <2>4 DEF Delays
    <2>5. CASE sess = l /\ held' /\ ~held
        <3>1. PICK x \in Used : Takes(x)
            BY <2>1, <2>5 DEF Serves
        <3>2. x = l /\ ~Over(l)
            BY <2>5, <3>1 DEF Takes, MayHold, Over
        <3> QED BY <2>2, <2>3, <3>1, <3>2 DEF Takes
    <2> QED BY <1>4, <2>2, <2>4, <2>5
<1>5. ASSUME NEW r \in {mem, disk}, r.state \in {"Held", "Applied"} PROVE held' /\ sess' = r.lease
    <2>1. held /\ sess = r.lease /\ r # NoRecord /\ r.lease \in Used /\ ~Ended(r)
        BY <1>0, <1>1, <1>5 DEF Holding, NoRecord, Record, Ended
    <2>2. ~(\E x \in Used : Drops(x))
        <3> SUFFICES ASSUME NEW x \in Used, Drops(x) PROVE FALSE
            OBVIOUS
        <3>1. x = r.lease
            BY <2>1 DEF Drops
        <3> QED BY <2>1, <3>1, DropFacts
    <2> QED BY <1>0, <2>1, <2>2 DEF Serves, Takes
<1>6. ASSUME NEW r \in {mem, disk}, r.state = "Released" PROVE Over(r.lease)'
    <2>1. Over(r.lease) /\ r # NoRecord
        BY <1>0, <1>6 DEF Holding, NoRecord, Record
    <2> QED BY <1>1, <1>2, <2>1
<1>7. hpc' = "keep" => held' /\ sess' = mem.lease
    <2> SUFFICES ASSUME hpc' = "keep", hpc = "keep" PROVE held' /\ sess' = mem.lease
        BY <1>0 DEF Returns
    <2>1. held /\ sess = mem.lease /\ mem # NoRecord /\ mem.state = "HoldPending"
        BY <1>0 DEF Holding, Stages, Record
    <2>2. ~(\E x \in Used : Drops(x))
        <3> SUFFICES ASSUME NEW x \in Used, Drops(x) PROVE FALSE
            OBVIOUS
        <3>1. x = mem.lease /\ ~Ended(mem)
            BY <2>1 DEF Drops, Ended
        <3> QED BY <3>1, DropFacts
    <2> QED BY <1>0, <2>1, <2>2 DEF Serves, Takes
<1>8. hpc' \in {"drop", "reaped", "done", "unlink"} => Over(mem.lease)'
    <2> SUFFICES ASSUME hpc \in {"drop", "reaped", "done", "unlink"} PROVE Over(mem.lease)'
        BY DEF Returns
    <2>1. Over(mem.lease) /\ mem # NoRecord
        BY <1>0 DEF Holding, Stages
    <2>2. mem.lease \in Used /\ UNCHANGED mem
        BY <1>0, <1>1, <2>1
    <2> QED BY <1>2, <2>1, <2>2 DEF Over
<1> QED BY <1>0, <1>4, <1>5, <1>6, <1>7, <1>8 DEF Holding

LEMMA ServesRouted ==
    ASSUME IInv, Around, Serves, Returns
    PROVE  Routed'
<1>0. Routed /\ UNCHANGED <<sess, mem, disk, table>> /\ (hpc' # "down" => hpc # "down")
    BY DEF IInv, Around, Returns
<1>1. CASE UNCHANGED <<held, released, reaping, executed>>
    BY <1>0, <1>1 DEF Routed, Owned
<1>2. ASSUME NEW l \in Used, Takes(l) PROVE Routed'
    BY <1>0, <1>2 DEF Routed, Owned, Takes
<1>3. ASSUME NEW l \in Used, Drops(l) PROVE Routed'
    <2>1. \A c \in Cidrs : table'[c] = 0
        BY <1>0, <1>3, DropFacts
    <2> QED BY <1>0, <2>1 DEF Routed
<1> QED BY <1>1, <1>2, <1>3 DEF Serves

LEMMA ServesRemembered ==
    ASSUME IInv, Around, Delays, Serves
    PROVE  Remembered'
<1>0. /\ Sessional /\ Journal /\ Remembered /\ UNCHANGED <<sess, tombstone, mem, disk, nextGen>> /\ Used' = Used
      /\ 0 \notin Used /\ Used \subseteq Nat
    BY UsedFacts DEF IInv, Around, Used
<1>1. ASSUME NEW l \in Used, l = mem.lease, Ended(mem), NEW r \in {mem, disk}
      PROVE  (r # NoRecord => l <= r.lease) /\ (r.lease = l => Ended(r))
    <2>1. mem # NoRecord
        BY <1>0, <1>1 DEF NoRecord, Record
    <2>2. disk # NoRecord => disk.lease = l /\ Ended(disk)
        BY <1>0, <1>1, <2>1 DEF Journal, WellFormed
    <2>3. disk = NoRecord => disk.lease = 0
        BY DEF NoRecord, Record
    <2> QED BY <1>0, <1>1, <2>2, <2>3
<1>2. ASSUME NEW l \in Used, Settled(l)', NEW r \in {mem, disk}
      PROVE  (r # NoRecord => l <= r.lease) /\ (r.lease = l => Ended(r))
    <2>1. CASE Settled(l)
        BY <1>0, <2>1 DEF Remembered
    <2>2. CASE l = mem.lease /\ Ended(mem)
        BY <1>1, <2>2
    <2>3. CASE Drops(l)
        BY <2>3, DropFacts
    <2>4. l \in executed' => l \in executed \/ Drops(l)
        BY DEF Serves, Takes, Drops
    <2> QED BY <1>2, <2>1, <2>2, <2>3, <2>4 DEF Settled, Delays
<1>3. ASSUME NEW l \in executed', NEW r \in {mem, disk}, r.lease = l PROVE tombstone = l \/ sess = l
    <2>1. l \in executed \/ sess = l
        BY DEF Serves, Takes, Drops
    <2> QED BY <1>0, <1>3, <2>1 DEF Remembered
<1> QED BY <1>0, <1>2, <1>3 DEF Remembered, Ended

LEMMA ServesContinues ==
    ASSUME Sessional, Around, Delays, Serves
    PROVE  Continues
<1>1. \A x \in executed' : x \in executed \/ x = mem.lease \/ (x \in Used /\ <<"release", x>> \in late)
    BY DEF Serves, Takes, Drops
<1> QED BY <1>1 DEF Continues, Around, Delays

LEMMA ServesPromises ==
    ASSUME IInv, Around, Delays, Serves, Returns, UNCHANGED job \/ hpc' # hpc
    PROVE  Promises'
<1>0. /\ Sessional /\ Applicant /\ Stages /\ Promises
      /\ UNCHANGED <<sess, mem, inbox, apc, lease, nextGen>> /\ Used' = Used /\ Begins' = Begins
      /\ reply' = "ok" => reply = "ok"
      /\ hpc' \in {"pend", "hold", "mark", "add", "save"} => UNCHANGED <<hpc, job>>
    BY DEF IInv, Around, Returns, Used, Begins
<1>1. \A l \in Used : Applying(l)' => Safe(l)'
    <2> TAKE l \in Used
    <2> HAVE Applying(l)'
    <2>1. Applying(l)
        BY <1>0 DEF Applying
    <2> QED BY <1>0, <2>1, ServesEffects DEF Promises
<1>2. ASSUME apc = "clear" \/ (apc = "undo" /\ reply' = "ok") PROVE Unheld(lease)'
    <2>1. lease \in Used /\ Unheld(lease) /\ (held => ~released)
        BY <1>0, <1>2, LeaseUsed DEF Promises, Sessional
    <2>2. <<"hold", lease>> \in late' => <<"hold", lease>> \in late \/ (hpc = "hold" /\ lease = job.lease)
        <3>1. hpc = "hold" => mem.lease = job.lease
            BY <1>0 DEF Stages, Record
        <3> QED BY <2>1, <3>1 DEF Delays
    <2>3. CASE UNCHANGED <<held, released, reaping, executed>>
        <3>1. CASE Over(lease) /\ ~(sess = lease /\ held)
            BY <1>0, <2>3, <3>1 DEF Unheld, Over
        <3>2. CASE /\ ~held /\ <<"hold", lease>> \notin late
                   /\ \A m \in Begins : m.lease # lease
                   /\ ~(hpc \in {"pend", "hold"} /\ job.lease = lease)
            BY <1>0, <2>2, <2>3, <3>2 DEF Unheld
        <3> QED BY <2>1, <3>1, <3>2 DEF Unheld
    <2>4. ASSUME NEW l \in Used, Takes(l) PROVE Unheld(lease)'
        <3>1. sess = l /\ ~released /\ l # lease
            <4>1. sess = l /\ ~released
                BY <2>4 DEF Takes, MayHold
            <4>2. hpc = "hold" => mem.lease = job.lease
                BY <1>0 DEF Stages, Record
            <4> QED BY <2>1, <2>4, <4>1, <4>2 DEF Takes, Unheld, Over
        <3> QED BY <1>0, <3>1 DEF Unheld, Over
    <2>5. ASSUME NEW l \in Used, Drops(l) PROVE Unheld(lease)'
        BY <1>0, <2>5 DEF Unheld, Over, Drops
    <2> QED BY <2>3, <2>4, <2>5 DEF Serves
<1>3. Promises' <=> /\ \A l \in Used' : Applying(l)' => Safe(l)'
                    /\ apc' = "clear" \/ (apc' = "undo" /\ reply' = "ok") => Unheld(lease)'
    BY DEF Promises
<1> QED BY <1>0, <1>1, <1>2, <1>3

LEMMA CallKeeps ==
    ASSUME IInv, Around, Delays, Serves, Returns, Ends, Jobs', Stages', UNCHANGED job \/ hpc' # hpc
    PROVE  IInv'
<1>0. /\ Sessional /\ Applicant /\ Calls /\ Journal /\ Ordered /\ act \in 0..conn
      /\ UNCHANGED <<mem, disk, inbox, conn, reg, act, apc, lease, nextGen>> /\ ronly' \in BOOLEAN
      /\ Used' = Used /\ Begins' = Begins
    BY DEF IInv, Around, Calls, Used, Begins
<1>1. Sessional' /\ Applicant'
    BY ServesSessional
<1>2. Calls'
    BY <1>0, CallsStep
<1>3. Journal'
    BY <1>0 DEF Journal, WellFormed, Ended, Returns
<1>4. Holding' /\ Routed' /\ Remembered'
    BY ServesHolding, ServesRouted, ServesRemembered
<1>5. Ordered'
    <2>1. Continues
        BY <1>0, ServesContinues
    <2>2. hpc' = "pend" => UNCHANGED <<hpc, job, mem, disk>>
        BY <1>0 DEF Returns
    <2> QED BY <1>0, <2>1, <2>2, OrderedContinues
<1>6. Promises'
    BY ServesPromises
<1> QED BY <1>1, <1>2, <1>3, <1>4, <1>5, <1>6 DEF IInv

LEMMA HoldServes ==
    ASSUME Sessional, NEW l \in Used, HoldV3(l), <<"hold", l>> \in late \/ (hpc = "hold" /\ mem.lease = l)
    PROVE  /\ Serves /\ recovery' \in BOOLEAN
           /\ UNCHANGED <<sess, appHere, tombstone, nextGen, child, exitDue, lossDue>>
           /\ HoldReply(l) = "held" => held' /\ sess = l
           /\ HoldReply(l) = "rejected" => Over(l)'
<1>1. /\ held' = (held \/ MayHold(l)) /\ recovery' = (recovery /\ ~MayHold(l))
      /\ UNCHANGED <<sess, appHere, released, tombstone, nextGen, child, exitDue, lossDue, reaping, executed>>
    BY DEF HoldV3
<1>2. recovery' \in BOOLEAN
    BY <1>1
<1>3. Serves
    <2>1. CASE MayHold(l)
        <3>1. held' = TRUE
            BY <1>1, <2>1
        <3> QED BY <1>1, <2>1, <3>1 DEF Serves, Takes
    <2>2. CASE ~MayHold(l)
        <3>1. held' = held
            BY <1>1, <2>2 DEF Sessional
        <3> QED BY <1>1, <3>1 DEF Serves
    <2> QED BY <2>1, <2>2
<1>4. HoldReply(l) = "held" => held' /\ sess = l
    BY <1>1 DEF HoldReply, MayHold
<1>5. HoldReply(l) = "rejected" => Over(l)'
    BY <1>1 DEF HoldReply, MayHold, Over
<1> QED BY <1>1, <1>2, <1>3, <1>4, <1>5

LEMMA ReleaseServes ==
    ASSUME Sessional, NEW l \in Used, ReleaseV3(l),
           <<"release", l>> \in late \/ (mem.lease = l /\ Ended(mem))
    PROVE  /\ Serves /\ recovery' \in BOOLEAN
           /\ UNCHANGED <<sess, appHere, tombstone, nextGen, child, exitDue, lossDue>>
           /\ ReleaseReply(l) # "refused" => Over(l)'
<1>0. UNCHANGED <<sess, appHere, tombstone, nextGen, child, exitDue, lossDue>>
    BY DEF ReleaseV3
<1>1. tombstone = l => sess # l
    BY UsedFacts DEF Sessional
<1>2. CASE tombstone # l /\ sess = l
    <2>1. /\ held' = FALSE /\ released' = TRUE /\ recovery' = FALSE /\ executed' = executed \cup {l}
          /\ reaping' = IF appHere THEN reaping ELSE reaping \cup {<<"release", l>>}
        BY <1>2 DEF ReleaseV3
    <2>2. Serves
        BY <1>2, <2>1 DEF Serves, Drops
    <2>3. Over(l)' /\ recovery' \in BOOLEAN
        BY <2>1 DEF Over
    <2> QED BY <1>0, <2>2, <2>3
<1>3. CASE ~(tombstone # l /\ sess = l)
    <2>1. UNCHANGED <<held, released, recovery, reaping, executed>>
        BY <1>3 DEF ReleaseV3
    <2>2. sess # l /\ Over(l)'
        BY <1>0, <1>1, <1>3 DEF Over
    <2>3. Serves /\ recovery' \in BOOLEAN
        BY <2>1 DEF Serves, Sessional
    <2> QED BY <1>0, <2>2, <2>3
<1> QED BY <1>2, <1>3

LEMMA LateKeeps == ASSUME IInv, NEW call \in late, LateArrives(call), UNCHANGED <<helper, link, app>> PROVE IInv'
<1>0. /\ Sessional /\ Jobs /\ Stages /\ Calls /\ late' = late \ {call} /\ NoFault
      /\ UNCHANGED <<disk, mem, table, reg, act, ronly, hpc, job, inbox, conn, reply, apc, lease, term>>
    BY DEF IInv, LateArrives, helper, link, app
<1>1. PICK k \in {"hold", "release"}, l \in Used : call = <<k, l>>
    BY <1>0 DEF Sessional
<1>2. Delays
    <2>1. late' \subseteq ({"hold", "release"} \X Used)
        BY <1>0 DEF Sessional
    <2> QED BY <1>0, <2>1 DEF Delays
<1>3. Serves /\ recovery' \in BOOLEAN /\ UNCHANGED <<sess, appHere, tombstone, nextGen, child, exitDue, lossDue>>
    <2>1. CASE call[1] = "hold" /\ HoldV3(call[2])
        BY <1>0, <1>1, <2>1, HoldServes
    <2>2. CASE call[1] = "release" /\ ReleaseV3(call[2])
        BY <1>0, <1>1, <2>2, ReleaseServes
    <2>3. CASE UNCHANGED <<session, tombstone, nextGen, child, exitDue, lossDue, reaping, executed>>
        BY <1>0, <2>3 DEF Serves, session, Sessional
    <2> QED BY <2>1, <2>2, <2>3 DEF LateArrives
<1>4. Around
    <2>1. ronly' \in BOOLEAN /\ faults' \in {faults, faults + 1} /\ faults' <= MaxFaults
        BY <1>0, NoFaultStep DEF Calls
    <2> QED BY <1>0, <1>3, <2>1 DEF Around
<1>5. Returns /\ Ends
    BY <1>0 DEF Returns, Ends
<1>6. Jobs' /\ Stages'
    <2>1. Used' = Used
        BY <1>3 DEF Used
    <2>2. Jobs'
        BY <1>0, <2>1 DEF Jobs
    <2>3. Stages'
        BY <1>0 DEF Stages, Ended
    <2> QED BY <2>2, <2>3
<1> QED BY <1>0, <1>2, <1>3, <1>4, <1>5, <1>6, CallKeeps

LEMMA BeginHoldKeeps == ASSUME IInv, BeginHold, UNCHANGED app PROVE IInv'
<1>0. /\ Sessional /\ Jobs /\ Stages /\ Calls
      /\ hpc = "hold" /\ UNCHANGED <<disk, table, reg, act, inbox, conn, apc, lease, term>>
      /\ job.op = "begin" /\ job.lease \in Used /\ ronly \in BOOLEAN
      /\ mem = Record(job.lease, "HoldPending", 0, 0) /\ mem # NoRecord /\ disk = mem
    BY DEF IInv, BeginHold, Jobs, Stages, Calls, app
<1>1. PICK l \in Used : l = job.lease /\ mem.lease = l
    BY <1>0, RecordFields
<1>2. ASSUME FailClosed(mem)
      PROVE  /\ UNCHANGED mem /\ ronly' \in BOOLEAN /\ Returns /\ Ends /\ Jobs' /\ Stages' /\ hpc' = "idle"
    <2>1. /\ UNCHANGED mem /\ ronly' = TRUE /\ ronly' \in BOOLEAN /\ hpc' = "idle" /\ job' = NoJob /\ Ends
          /\ reply' = "ok" => reply = "ok"
        BY <1>2, FailClosedFacts
    <2>2. Returns
        BY <1>0, <2>1 DEF Returns
    <2> QED BY <2>1, <2>2, IdleStages
<1>3. CASE /\ NoFault /\ HoldV3(l) /\ UNCHANGED late
           /\ IF HoldReply(l) = "ambiguous" THEN FailClosed(mem)
              ELSE /\ GoOn(IF HoldReply(l) = "held" THEN "keep" ELSE "drop")
                   /\ UNCHANGED <<mem, ronly>>
    <2>0. /\ Serves /\ recovery' \in BOOLEAN
          /\ UNCHANGED <<sess, appHere, tombstone, nextGen, child, exitDue, lossDue>>
          /\ HoldReply(l) = "held" => held' /\ sess = l
          /\ HoldReply(l) = "rejected" => Over(l)'
        BY <1>0, <1>1, <1>3, HoldServes
    <2>1. Delays
        BY <1>0, <1>3 DEF Delays, Sessional
    <2>2. faults' \in {faults, faults + 1} /\ faults' <= MaxFaults
        BY <1>0, <1>3, NoFaultStep
    <2>3. CASE FailClosed(mem)
        <3>1. Around
            BY <1>0, <1>2, <2>0, <2>2, <2>3 DEF Around
        <3> QED BY <1>0, <1>2, <2>0, <2>1, <2>3, <3>1, CallKeeps
    <2>4. CASE /\ HoldReply(l) # "ambiguous"
               /\ GoOn(IF HoldReply(l) = "held" THEN "keep" ELSE "drop")
               /\ UNCHANGED <<mem, ronly>>
        <3>1. /\ HoldReply(l) \in {"held", "rejected"} /\ UNCHANGED <<job, reply, mem, ronly>> /\ Ends
              /\ hpc' = IF HoldReply(l) = "held" THEN "keep" ELSE "drop"
            BY <2>4 DEF GoOn, HoldReply, Ends
        <3>2. Around
            BY <1>0, <2>0, <2>2, <3>1 DEF Around
        <3>3. Returns
            <4>1. HoldReply(l) = "rejected" => Over(mem.lease)'
                BY <1>1, <2>0, <3>1 DEF Over
            <4> QED BY <1>0, <1>1, <2>0, <3>1, <4>1 DEF Returns
        <3>4. Jobs'
            <4>1. Used' = Used
                BY <2>0 DEF Used
            <4> QED BY <1>0, <3>1, <4>1 DEF Jobs, HelperLabels, Unwinding, Releasing
        <3>5. Stages'
            BY <1>0, <3>1 DEF Stages, Unwinding, Releasing
        <3> QED BY <1>0, <2>0, <2>1, <3>1, <3>2, <3>3, <3>4, <3>5, CallKeeps
    <2> QED BY <1>3, <2>3, <2>4
<1>4. CASE /\ Fault("xpc") /\ late' = late \cup {<<"hold", job.lease>>} /\ FailClosed(mem)
           /\ UNCHANGED <<session, tombstone, nextGen, child, exitDue, lossDue, reaping, executed>>
    <2>1. UNCHANGED <<sess, appHere, held, released, recovery>>
        BY <1>4 DEF session
    <2>2. Delays
        <3>1. late' \subseteq ({"hold", "release"} \X Used)
            BY <1>0, <1>4 DEF Sessional
        <3> QED BY <1>0, <1>1, <1>4, <3>1 DEF Delays
    <2>3. Serves /\ recovery' \in BOOLEAN
        BY <1>0, <1>4, <2>1 DEF Serves, Sessional
    <2>4. Around
        BY <1>0, <1>2, <1>4, <2>1, <2>3, FaultStep DEF Around
    <2> QED BY <1>0, <1>2, <1>4, <2>2, <2>3, <2>4, CallKeeps
<1> QED BY <1>1, <1>3, <1>4 DEF BeginHold

LEMMA RetireReleaseKeeps == ASSUME IInv, RetireRelease, UNCHANGED app PROVE IInv'
<1>0. /\ hpc = "release" /\ hpc \in Releasing /\ UNCHANGED <<disk, table, reg, act, inbox, conn, apc, lease, term>>
      /\ mem.state = "RetirementPending"
    BY DEF IInv, RetireRelease, Releasing, Stages, app
<1>1. /\ Sessional /\ Jobs /\ Stages /\ ronly \in BOOLEAN /\ Ended(mem) /\ mem # NoRecord
      /\ job.op = "undo" \/ job.conn = 0
    BY <1>0, ReleaseFacts
<1>2. PICK l \in Used : mem.lease = l
    BY <1>0, ReleaseFacts
<1>3. ASSUME FailClosed(mem)
      PROVE  /\ UNCHANGED mem /\ ronly' \in BOOLEAN /\ Returns /\ Ends /\ Jobs' /\ Stages' /\ hpc' = "idle"
    <2>1. /\ UNCHANGED mem /\ ronly' = TRUE /\ ronly' \in BOOLEAN /\ hpc' = "idle" /\ job' = NoJob /\ Ends
          /\ reply' = "ok" => reply = "ok"
        BY <1>3, FailClosedFacts
    <2>2. Returns
        BY <1>0, <2>1 DEF Returns
    <2> QED BY <2>1, <2>2, IdleStages
<1>4. CASE /\ NoFault /\ ReleaseV3(l) /\ UNCHANGED late
           /\ \/ ReleaseReply(l) = "released" /\ GoOn("done") /\ UNCHANGED <<mem, ronly>>
              \/ ReleaseReply(l) = "reaping" /\ GoOn("reaped") /\ UNCHANGED <<mem, ronly>>
              \/ ReleaseReply(l) = "refused" /\ FailClosed(mem)
    <2>0. /\ Serves /\ recovery' \in BOOLEAN
          /\ UNCHANGED <<sess, appHere, tombstone, nextGen, child, exitDue, lossDue>>
          /\ ReleaseReply(l) # "refused" => Over(l)'
        BY <1>1, <1>2, <1>4, ReleaseServes
    <2>1. Delays
        BY <1>1, <1>4 DEF Delays, Sessional
    <2>2. faults' \in {faults, faults + 1} /\ faults' <= MaxFaults
        BY <1>1, <1>4, NoFaultStep
    <2>3. CASE FailClosed(mem)
        <3>1. Around
            BY <1>0, <1>3, <2>0, <2>2, <2>3 DEF Around
        <3> QED BY <1>0, <1>3, <2>0, <2>1, <2>3, <3>1, CallKeeps
    <2>4. ASSUME NEW to \in {"done", "reaped"}, ReleaseReply(l) # "refused", GoOn(to), UNCHANGED <<mem, ronly>>
          PROVE  IInv'
        <3>1. UNCHANGED <<job, reply, mem, ronly>> /\ Ends /\ hpc' = to
            BY <2>4 DEF GoOn, Ends
        <3>2. Around
            BY <1>0, <1>1, <2>0, <2>2, <3>1 DEF Around
        <3>3. Returns
            <4>1. Over(mem.lease)'
                BY <1>2, <2>0, <2>4, <3>1 DEF Over
            <4> QED BY <1>0, <3>1, <4>1 DEF Returns
        <3>4. Jobs'
            BY <1>1, <3>1 DEF Jobs, HelperLabels, Unwinding, Releasing
        <3>5. Stages'
            BY <1>0, <1>1, <3>1 DEF Stages, Unwinding, Releasing, Ended
        <3> QED BY <1>0, <2>0, <2>1, <3>1, <3>2, <3>3, <3>4, <3>5, CallKeeps
    <2> QED BY <1>4, <2>3, <2>4
<1>5. CASE /\ Fault("xpc") /\ late' = late \cup {<<"release", l>>} /\ FailClosed(mem)
           /\ UNCHANGED <<session, tombstone, nextGen, child, exitDue, lossDue, reaping, executed>>
    <2>1. UNCHANGED <<sess, appHere, held, released, recovery>>
        BY <1>5 DEF session
    <2>2. Delays
        <3>1. late' \subseteq ({"hold", "release"} \X Used)
            BY <1>1, <1>5 DEF Sessional
        <3> QED BY <1>1, <1>2, <1>5, <3>1 DEF Delays
    <2>3. Serves /\ recovery' \in BOOLEAN
        BY <1>1, <1>5, <2>1 DEF Serves, Sessional
    <2>4. Around
        BY <1>0, <1>1, <1>3, <1>5, <2>1, <2>3, FaultStep DEF Around
    <2> QED BY <1>0, <1>3, <1>5, <2>2, <2>3, <2>4, CallKeeps
<1> QED BY <1>2, <1>4, <1>5 DEF RetireRelease

\* The broker has answered a release, or the helper gives up on the answer.
LEMMA ReapKeeps ==
    ASSUME IInv, hpc = "reaped", hpc' \in {"done", "idle"}, Subsides, Ends, Jobs', Stages', ronly' \in BOOLEAN,
           UNCHANGED <<disk, mem, table, reg, act, inbox, conn, apc, lease, term, child, exitDue, lossDue>>,
           appHere' \in BOOLEAN, recovery' \in BOOLEAN, reply' = "ok" => reply = "ok",
           reaping' \subseteq reaping, faults' \in {faults, faults + 1}, faults' <= MaxFaults
    PROVE  IInv'
<1>0. /\ Sessional /\ Applicant /\ Calls /\ Jobs /\ Journal /\ Stages /\ Holding /\ Routed
      /\ Remembered /\ Ordered /\ Promises /\ UNCHANGED nextGen /\ act \in 0..conn
    BY DEF IInv, Subsides, Calls
<1>1. /\ child' \subseteq Used /\ exitDue' \subseteq Used /\ lossDue' \subseteq Used
      /\ reaping' \subseteq (Reasons \X Used) /\ faults' \in 0..MaxFaults
    BY <1>0, UsedFacts, FaultsAssumption DEF Sessional
<1>2. Sessional'
    BY <1>0, <1>1, SubsidesSessional
<1>3. Applicant'
    <2>1. /\ lease \notin lossDue' \/ lease = 0
          /\ lease # 0 => <<"loss", lease>> \notin reaping'
          /\ lease # 0 /\ apc \in {"ready", "discover", "begin"} => <<"stop", lease>> \notin reaping'
        BY <1>0 DEF Applicant
    <2> QED BY <1>0, <2>1, ApplicantFrame
<1>4. Calls'
    BY <1>0, CallsStep
<1>5. Journal'
    <2>1. Used' = Used
        BY <1>0 DEF Used
    <2> QED BY <1>0, <2>1 DEF Journal, WellFormed, Ended
<1>6. Holding'
    BY <1>0, SubsidesHolding
<1>7. Routed'
    BY <1>0, SubsidesRouted
<1>8. Remembered'
    BY <1>0, SubsidesRemembered
<1>9. Ordered'
    BY <1>0, SubsidesOrdered
<1>10. Promises'
    BY <1>0, SubsidesPromises
<1> QED BY <1>2, <1>3, <1>4, <1>5, <1>6, <1>7, <1>8, <1>9, <1>10 DEF IInv

LEMMA RetireReapedKeeps == ASSUME IInv, RetireReaped, UNCHANGED app PROVE IInv'
<1>0. /\ hpc = "reaped" /\ hpc \in Releasing /\ UNCHANGED <<disk, table, reg, act, inbox, conn, app>>
      /\ mem.state = "RetirementPending" /\ UNCHANGED <<apc, lease, term>>
    BY DEF IInv, RetireReaped, Releasing, Stages, app
<1>1. /\ Sessional /\ Jobs /\ Stages /\ ronly \in BOOLEAN /\ Ended(mem) /\ mem # NoRecord
      /\ job.op = "undo" \/ job.conn = 0
    BY <1>0, ReleaseFacts
<1>2. PICK l \in Used : mem.lease = l
    BY <1>0, ReleaseFacts
<1>3. l \in Gens /\ "release" \in Reasons /\ faults \in Nat /\ faults <= MaxFaults
    BY <1>1, UsedFacts, FaultsAssumption DEF Reasons, Sessional
<1>4. CASE Reaped("release", l) /\ GoOn("done") /\ UNCHANGED <<mem, ronly>>
    <2>1. /\ reaping' = reaping \ {<<"release", l>>}
          /\ UNCHANGED <<nextGen, child, exitDue, lossDue, late, executed, faults>>
        BY <1>4 DEF Reaped
    <2>2. Subsides /\ appHere' \in BOOLEAN /\ recovery' \in BOOLEAN
        BY <1>1, <1>3, <1>4, ReapedSubsides
    <2>3. hpc' = "done" /\ UNCHANGED <<job, reply>> /\ Ends /\ ronly' \in BOOLEAN
        BY <1>1, <1>4 DEF GoOn, Ends
    <2>4. Jobs'
        BY <1>1, <2>3 DEF Jobs, HelperLabels, Unwinding, Releasing
    <2>5. Stages'
        BY <1>0, <1>1, <1>4, <2>3 DEF Stages, Unwinding, Releasing, Ended
    <2> QED BY <1>0, <1>3, <1>4, <2>1, <2>2, <2>3, <2>4, <2>5, ReapKeeps
<1>5. CASE ReapFails("release", l) /\ FailClosed(mem)
    <2>1. /\ reaping' = reaping \ {<<"release", l>>} /\ Fault("reap")
          /\ UNCHANGED <<session, tombstone, nextGen, child, exitDue, lossDue, late, executed>>
        BY <1>5 DEF ReapFails
    <2>2. Subsides /\ appHere' \in BOOLEAN /\ recovery' \in BOOLEAN
        BY <1>1, <2>1 DEF Subsides, session, Sessional
    <2>3. /\ UNCHANGED mem /\ ronly' = TRUE /\ ronly' \in BOOLEAN /\ hpc' = "idle" /\ job' = NoJob /\ Ends
          /\ reply' = "ok" => reply = "ok"
        BY <1>5, FailClosedFacts
    <2>4. Jobs' /\ Stages'
        BY <2>3, IdleStages
    <2>5. faults' \in {faults, faults + 1} /\ faults' <= MaxFaults
        BY <1>1, <2>1, FaultStep
    <2> QED BY <1>0, <2>1, <2>2, <2>3, <2>4, <2>5, ReapKeeps
<1>6. CASE Fault("xpc") /\ FailClosed(mem) /\ UNCHANGED broker
    <2>1. Frame
        BY <1>0, <1>1, <1>6, FaultStep DEF Frame
    <2>2. Writes(mem)
        BY <1>0, <1>6 DEF Writes, FailClosed
    <2> QED BY <1>0, <1>6, <2>1, <2>2, FailKeeps
<1> QED BY <1>2, <1>4, <1>5, <1>6 DEF RetireReaped

LEMMA HelperStepKeeps == ASSUME IInv, HelperStep, UNCHANGED app PROVE IInv'
BY BeginPersistKeeps, BeginHoldKeeps, BeginHeldKeeps, BeginRejectedKeeps, ApplyMarkKeeps, ApplyAddKeeps,
   ApplySaveKeeps, ApplySealKeeps, BeatQueryKeeps, RetireMarkKeeps, RetireDeleteKeeps, RetireSaveKeeps,
   RetirePersistKeeps, RetireReleaseKeeps, RetireReapedKeeps, RetireReleasedKeeps, RetireUnlinkKeeps
   DEF HelperStep

-----------------------------------------------------------------------------
(* The helper's entry points *)

LEMMA CallsEntry ==
    ASSUME Applicant, Calls, UNCHANGED <<conn, apc, lease, nextGen>>, inbox' \subseteq inbox,
           reg' \in 0..conn, act' \in 0..conn, ronly' \in BOOLEAN,
           job' = job \/ job'.conn = 0,
           \/ reply' = reply
           \/ /\ reply' \in Answers \cup {"none", "lost"} /\ job'.conn = 0
              /\ \A m \in inbox' : m.conn # conn
    PROVE  Calls'
<1>0. conn \in Nat /\ 1 <= conn /\ Used' = Used
    BY DEF Applicant, Used
<1>1. reply' \in Answers \cup {"none", "lost"} /\ job'.conn \in 0..conn
    BY <1>0 DEF Calls
<1>2. \A m \in inbox' : /\ m = Call(m.op, m.conn, m.lease)
                        /\ m.op \in Waiting /\ m.conn \in 1..conn /\ m.lease \in Used
                        /\ job'.conn < m.conn
    BY <1>0 DEF Calls
<1>3. \A m \in inbox' : m.conn = conn => reply' = "none" /\ m.op = apc /\ m.lease = lease
    BY DEF Calls
<1>4. job'.conn = conn => reply' = "none" /\ job'.op = apc /\ job'.lease = lease
    BY <1>0 DEF Calls
<1>5. \A m, k \in inbox' : m.conn = k.conn => m = k
    BY DEF Calls
<1> QED BY <1>0, <1>1, <1>2, <1>3, <1>4, <1>5 DEF Calls

LEMMA RetireFromFacts ==
    ASSUME NEW r, WellFormed(r), r # NoRecord
    PROVE  \/ RetireFrom(r) = "unlink" /\ r.state = "Released"
           \/ RetireFrom(r) = "release" /\ r.state = "RetirementPending"
           \/ RetireFrom(r) = "unmark" /\ LastOwned(r) # 0 /\ r.state \in {"HoldPending", "Held", "Applied"}
           \/ /\ RetireFrom(r) = "retire" /\ r.applied = 0 /\ r.pending = 0
              /\ r.state \in {"HoldPending", "Held", "Applied"}
<1>1. r.state \in RecordStates /\ r.applied \in 0..N /\ r.pending \in 0..N
    BY DEF WellFormed
<1>2. CASE r.state = "Released"
    BY <1>2 DEF RetireFrom
<1>3. CASE r.state = "RetirementPending"
    BY <1>3 DEF RetireFrom
<1>4. CASE r.state \in {"HoldPending", "Held", "Applied"}
    <2>1. RetireFrom(r) = IF LastOwned(r) # 0 THEN "unmark" ELSE "retire"
        BY <1>4 DEF RetireFrom
    <2>2. LastOwned(r) = 0 => r.applied = 0 /\ r.pending = 0
        BY <1>1 DEF LastOwned
    <2> QED BY <1>4, <2>1, <2>2
<1> QED BY <1>1, <1>2, <1>3, <1>4 DEF RecordStates

\* The retirement of the record in memory begins.
LEMMA RetireStages ==
    ASSUME NEW r, WellFormed(r), r # NoRecord, mem' = r, hpc' = RetireFrom(r),
           job'.op = "undo" \/ job'.conn = 0
    PROVE  /\ Jobs' /\ Stages' /\ hpc' \in {"unlink", "release", "unmark", "retire"}
           /\ hpc' = "unlink" => mem'.state = "Released"
<1>1. LastOwned(mem)' = LastOwned(r) /\ Ended(mem)' = Ended(r)
    BY DEF LastOwned, Ended
<1>2. CASE hpc' = "unlink" /\ r.state = "Released"
    BY <1>1, <1>2 DEF Jobs, Stages, HelperLabels, Unwinding, Releasing, Ended
<1>3. CASE hpc' = "release" /\ r.state = "RetirementPending"
    BY <1>1, <1>3 DEF Jobs, Stages, HelperLabels, Unwinding, Releasing, Ended
<1>4. CASE hpc' = "unmark" /\ LastOwned(r) # 0 /\ r.state \in {"HoldPending", "Held", "Applied"}
    BY <1>1, <1>4 DEF Jobs, Stages, HelperLabels, Unwinding, Releasing, Ended
<1>5. CASE hpc' = "retire" /\ r.applied = 0 /\ r.pending = 0 /\ r.state \in {"HoldPending", "Held", "Applied"}
    BY <1>1, <1>5 DEF Jobs, Stages, HelperLabels, Unwinding, Releasing, Ended
<1> QED BY <1>2, <1>3, <1>4, <1>5, RetireFromFacts

\* An entry point leaves the broker, the journals and the routes alone.
LEMMA EntryKeeps ==
    ASSUME IInv, Frame, UNCHANGED <<disk, mem, table>>, Calls', Jobs', Stages', Ordered', Promises',
           \/ hpc' = hpc
           \/ hpc = "idle" /\ hpc' \notin {"down", "keep", "drop", "reaped", "done"},
           hpc' = "unlink" => hpc = "unlink" \/ mem.state = "Released"
    PROVE  IInv'
<1>0. Sessional /\ Applicant /\ Journal /\ Holding /\ Routed /\ Remembered
    BY DEF IInv
<1>1. UNCHANGED <<sess, held, released, tombstone, nextGen, reaping, late, executed>> /\ Used' = Used
    BY <1>0, FrameFacts DEF Used
<1>2. Sessional' /\ Applicant'
    BY <1>0, FrameFacts
<1>3. Journal'
    BY <1>0, <1>1 DEF Journal, WellFormed, Ended
<1>4. Holding'
    BY <1>0, <1>1 DEF Holding, Over
<1>5. Routed'
    BY <1>0, <1>1 DEF Routed, Owned
<1>6. Remembered'
    BY <1>0, <1>1 DEF Remembered, Settled, Ended
<1> QED BY <1>2, <1>3, <1>4, <1>5, <1>6 DEF IInv

\* One that serves no call: who may begin or apply could before.
LEMMA EventKeeps ==
    ASSUME IInv, Frame, UNCHANGED <<disk, mem, table>>, inbox' \subseteq inbox, Calls', Jobs', Stages',
           (hpc' = hpc /\ job' = job) \/ (hpc = "idle" /\ hpc' \in {"unlink", "release", "unmark", "retire"}),
           hpc' = "unlink" => hpc = "unlink" \/ mem.state = "Released",
           reply' = "ok" => reply = "ok"
    PROVE  IInv'
<1>0. /\ Sessional /\ Applicant /\ Calls /\ Ordered /\ Promises
      /\ UNCHANGED <<sess, held, released, nextGen, reaping, late, executed, apc, lease>>
    BY FrameFacts DEF IInv
<1>1. Continues /\ Begins' \subseteq Begins
    BY <1>0 DEF Continues, Begins
<1>2. Ordered'
    BY <1>0, <1>1, OrderedContinues
<1>3. Promises'
    BY <1>0, PromisesStep
<1> QED BY <1>2, <1>3, EntryKeeps

LEMMA RefuseKeeps == ASSUME IInv, NEW m \in inbox, Refuse(m), UNCHANGED app PROVE IInv'
<1>0. /\ Sessional /\ Applicant /\ Calls /\ Jobs /\ Stages /\ hpc = "idle" /\ inbox' = inbox \ {m}
      /\ reply' = IF m.conn = conn THEN "lost" ELSE reply
      /\ UNCHANGED <<disk, mem, table, reg, act, ronly, hpc, job, conn, broker, faults, apc, lease>>
      /\ job.conn = 0 /\ Used' = Used
    BY DEF IInv, Refuse, helper, app, Jobs, NoJob, Call, Used, broker
<1>1. Frame
    BY <1>0, NoFaultStep DEF Frame, NoFault
<1>2. Calls'
    <2>1. \A k \in inbox' : m.conn = conn => k.conn # conn
        BY <1>0 DEF Calls
    <2>2. reg' \in 0..conn /\ act' \in 0..conn /\ ronly' \in BOOLEAN /\ UNCHANGED nextGen
        BY <1>0 DEF Calls, broker
    <2> QED BY <1>0, <2>1, <2>2, CallsEntry
<1>3. Jobs' /\ Stages'
    <2>1. Jobs'
        BY <1>0 DEF Jobs
    <2>2. Stages'
        BY <1>0 DEF Stages, Ended
    <2> QED BY <2>1, <2>2
<1>4. inbox' \subseteq inbox /\ (reply' = "ok" => reply = "ok")
    BY <1>0
<1> QED BY <1>0, <1>1, <1>2, <1>3, <1>4, EventKeeps

LEMMA ForgetKeeps == ASSUME IInv, NEW m \in inbox, Forget(m), UNCHANGED app PROVE IInv'
<1>0. /\ Sessional /\ Applicant /\ Calls /\ Jobs /\ Stages /\ inbox' = inbox \ {m}
      /\ UNCHANGED <<disk, mem, table, reg, act, ronly, hpc, job, conn, reply, broker, faults, apc, lease>>
      /\ Used' = Used
    BY DEF IInv, Forget, helper, app, Used, broker
<1>1. Frame
    BY <1>0, NoFaultStep DEF Frame, NoFault
<1>2. Calls'
    <2>1. reg' \in 0..conn /\ act' \in 0..conn /\ ronly' \in BOOLEAN /\ UNCHANGED nextGen
        BY <1>0 DEF Calls, broker
    <2> QED BY <1>0, <2>1, CallsEntry
<1>3. Jobs' /\ Stages'
    <2>1. Jobs'
        BY <1>0 DEF Jobs
    <2>2. Stages'
        BY <1>0 DEF Stages, Ended
    <2> QED BY <2>1, <2>2
<1>4. inbox' \subseteq inbox
    BY <1>0
<1> QED BY <1>0, <1>1, <1>2, <1>3, <1>4, EventKeeps

LEMMA CloseKeeps == ASSUME IInv, Close, UNCHANGED app PROVE IInv'
<1>0. /\ Sessional /\ Applicant /\ Calls /\ Jobs /\ Journal /\ Stages /\ hpc = "idle" /\ reg' = 0
      /\ inbox' = {m \in inbox : m.conn # reg}
      /\ UNCHANGED <<disk, mem, table, act, ronly, conn, reply, broker, faults, apc, lease>> /\ Used' = Used
    BY DEF IInv, Close, app, Used, broker
<1>1. Frame
    BY <1>0, NoFaultStep DEF Frame, NoFault
<1>2. /\ reg' \in 0..conn /\ act' \in 0..conn /\ ronly' \in BOOLEAN /\ UNCHANGED nextGen
      /\ inbox' \subseteq inbox
    BY <1>0 DEF Calls, broker, Applicant
<1>3. CASE mem # NoRecord /\ hpc' = RetireFrom(mem) /\ job' = Call("close", 0, mem.lease)
    <2>1. job'.conn = 0
        BY <1>3 DEF Call
    <2>2. Calls'
        BY <1>0, <1>2, <2>1, CallsEntry
    <2>3. PICK r : r = mem
        OBVIOUS
    <2>4. WellFormed(r) /\ r # NoRecord /\ mem' = r /\ hpc' = RetireFrom(r)
        BY <1>0, <1>3, <2>3 DEF Journal
    <2>5. /\ Jobs' /\ Stages' /\ hpc' \in {"unlink", "release", "unmark", "retire"}
          /\ hpc' = "unlink" => mem'.state = "Released"
        BY <2>1, <2>4, RetireStages
    <2> QED BY <1>0, <1>1, <1>2, <2>2, <2>5, EventKeeps
<1>4. CASE UNCHANGED <<hpc, job>>
    <2>1. Calls'
        BY <1>0, <1>2, <1>4, CallsEntry
    <2>2. Jobs'
        BY <1>0, <1>4 DEF Jobs
    <2>3. Stages'
        BY <1>0, <1>4 DEF Stages, Ended
    <2> QED BY <1>0, <1>1, <1>2, <1>4, <2>1, <2>2, <2>3, EventKeeps
<1> QED BY <1>3, <1>4 DEF Close

LEMMA LeaseExpiresKeeps == ASSUME IInv, LeaseExpires, UNCHANGED app PROVE IInv'
<1>0. /\ Sessional /\ Applicant /\ Calls /\ Journal /\ hpc = "idle"
      /\ mem.state \in {"HoldPending", "Held", "Applied"}
      /\ hpc' = RetireFrom(mem) /\ job' = Call("expire", 0, mem.lease)
      /\ UNCHANGED <<disk, mem, table, reg, act, ronly, inbox, conn, reply, broker, faults, apc, lease>>
    BY DEF IInv, LeaseExpires, app, link
<1>1. Frame
    BY <1>0, NoFaultStep DEF Frame, NoFault
<1>2. /\ reg' \in 0..conn /\ act' \in 0..conn /\ ronly' \in BOOLEAN /\ UNCHANGED nextGen
      /\ inbox' \subseteq inbox /\ job'.conn = 0
    BY <1>0 DEF Calls, broker, Call
<1>3. Calls'
    BY <1>0, <1>2, CallsEntry
<1>4. PICK r : r = mem
    OBVIOUS
<1>5. WellFormed(r) /\ r # NoRecord /\ mem' = r /\ hpc' = RetireFrom(r)
    BY <1>0, <1>4 DEF Journal, NoRecord, Record
<1>6. /\ Jobs' /\ Stages' /\ hpc' \in {"unlink", "release", "unmark", "retire"}
      /\ hpc' = "unlink" => mem'.state = "Released"
    BY <1>2, <1>5, RetireStages
<1> QED BY <1>0, <1>1, <1>2, <1>3, <1>6, EventKeeps

LEMMA HelperStartsKeeps == ASSUME IInv, HelperStarts, UNCHANGED app PROVE IInv'
<1>0. /\ Sessional /\ Applicant /\ Calls /\ Jobs /\ Journal /\ Stages /\ Holding /\ Routed
      /\ Remembered /\ Ordered /\ Promises
      /\ hpc = "down" /\ mem = NoRecord /\ job = NoJob /\ mem' = disk
      /\ UNCHANGED <<disk, table, reg, act, ronly, inbox, conn, reply, broker, faults, apc, lease, app>>
    BY DEF IInv, HelperStarts, app, link, Jobs, Journal
<1>1. Frame
    BY <1>0, NoFaultStep DEF Frame, NoFault
<1>2. /\ UNCHANGED <<sess, held, released, tombstone, nextGen, reaping, late, executed>> /\ Used' = Used
      /\ Sessional' /\ Applicant'
    BY <1>0, <1>1, FrameFacts DEF Used
<1>3. /\ job'.conn = 0 /\ Jobs' /\ Stages' /\ hpc' \in {"idle", "unlink", "release", "unmark", "retire"}
      /\ hpc' = "unlink" => mem'.state = "Released"
    <2>1. CASE disk = NoRecord
        <3>1. hpc' = "idle" /\ job' = NoJob
            BY <1>0, <2>1 DEF HelperStarts
        <3>2. mem'.state # "Held"
            BY <1>0, <2>1 DEF NoRecord, Record
        <3> QED BY <3>1, <3>2, IdleStages DEF NoJob, Call
    <2>2. CASE disk # NoRecord
        <3>1. hpc' = RetireFrom(disk) /\ job'.conn = 0
            BY <2>2 DEF HelperStarts, Call
        <3>2. PICK r : r = disk
            OBVIOUS
        <3>3. WellFormed(r) /\ r # NoRecord /\ mem' = r /\ hpc' = RetireFrom(r)
            BY <1>0, <2>2, <3>1, <3>2 DEF Journal
        <3> QED BY <3>1, <3>3, RetireStages
    <2> QED BY <2>1, <2>2
<1>4. Calls'
    <2>1. reg' \in 0..conn /\ act' \in 0..conn /\ ronly' \in BOOLEAN /\ inbox' \subseteq inbox
        BY <1>0 DEF Calls
    <2> QED BY <1>0, <1>2, <1>3, <2>1, CallsEntry
<1>5. Journal'
    BY <1>0, <1>2, <1>3 DEF Journal, WellFormed, Ended
<1>6. Holding'
    BY <1>0, <1>2, <1>3 DEF Holding, Over
<1>7. Routed'
    BY <1>0, <1>2 DEF Routed, Owned
<1>8. Remembered'
    BY <1>0, <1>2 DEF Remembered, Settled, Ended
<1>9. Ordered'
    <2>1. Continues /\ Begins' \subseteq Begins
        BY <1>0, <1>2 DEF Continues, Begins
    <2> QED BY <1>0, <1>3, <2>1, OrderedContinues
<1>10. Promises'
    BY <1>0, <1>2, <1>3, PromisesStep
<1> QED BY <1>2, <1>3, <1>4, <1>5, <1>6, <1>7, <1>8, <1>9, <1>10 DEF IInv

LEMMA HelperCrashesKeeps == ASSUME IInv, HelperCrashes, UNCHANGED app PROVE IInv'
<1>0. /\ Sessional /\ Applicant /\ Calls /\ Journal /\ Holding /\ Routed
      /\ Remembered /\ Ordered /\ Promises
      /\ Fault("helper") /\ hpc' = "down" /\ mem' = NoRecord /\ reg' = 0 /\ act' = 0 /\ job' = NoJob
      /\ inbox' = {} /\ ronly' = FALSE
      /\ reply' = IF conn \in {job.conn} \cup {m.conn : m \in inbox} THEN "lost" ELSE reply
      /\ UNCHANGED <<disk, table, conn, broker, apc, lease, app>>
    BY DEF IInv, HelperCrashes, app
<1>1. Frame
    BY <1>0, FaultStep DEF Frame
<1>2. /\ UNCHANGED <<sess, held, released, tombstone, nextGen, reaping, late, executed>> /\ Used' = Used
      /\ Sessional' /\ Applicant'
    BY <1>0, <1>1, FrameFacts DEF Used
<1>3. mem'.lease = 0 /\ mem'.state = "None" /\ job'.conn = 0 /\ inbox' \subseteq inbox /\ (reply' = "ok" => reply = "ok")
    BY <1>0 DEF NoRecord, Record, NoJob, Call
<1>4. Calls'
    <2>1. reg' \in 0..conn /\ act' \in 0..conn
        BY <1>0 DEF Applicant
    <2>2. ronly' \in BOOLEAN
        BY <1>0
    <2>3. reply' \in Answers \cup {"none", "lost"} /\ \A m \in inbox' : m.conn # conn
        BY <1>0 DEF Calls
    <2> QED BY <1>0, <1>2, <1>3, <2>1, <2>2, <2>3, CallsEntry
<1>5. Jobs'
    BY <1>0 DEF Jobs, HelperLabels, Unwinding, Releasing
<1>6. Stages'
    BY <1>0 DEF Stages, Unwinding, Releasing
<1>7. Journal'
    BY <1>0, <1>2, <1>3 DEF Journal, WellFormed, Ended
<1>8. Holding'
    BY <1>0, <1>2, <1>3 DEF Holding, Over
<1>9. Routed'
    BY <1>0, <1>2 DEF Routed, Owned
<1>10. Remembered'
    <2>1. \A l \in Used : l # mem'.lease
        BY <1>0, <1>3, UsedFacts
    <2> QED BY <1>0, <1>2, <2>1 DEF Remembered, Settled, Ended, Sessional
<1>11. Ordered'
    <2>1. Continues /\ Begins' \subseteq Begins
        BY <1>0, <1>2, <1>3 DEF Continues, Begins
    <2> QED BY <1>0, <2>1, OrderedContinues
<1>12. Promises'
    BY <1>0, <1>2, <1>3, PromisesStep
<1> QED BY <1>2, <1>4, <1>5, <1>6, <1>7, <1>8, <1>9, <1>10, <1>11, <1>12 DEF IInv

\* Where an admitted call goes, and what an answer given at once says.
LEMMA AdmittedFacts ==
    ASSUME Journal, NEW m, m.op \in Waiting, m.lease \in Used, 0 \notin Used
    PROVE  /\ \/ Admitted(m) \in Answers
              \/ Admitted(m) = "pend" /\ m.op = "begin" /\ mem = NoRecord
              \/ Admitted(m) = "mark" /\ m.op = "apply" /\ mem.state = "Held" /\ ~ronly /\ mem.lease = m.lease
              \/ Admitted(m) = "query" /\ m.op = "beat" /\ mem # NoRecord
              \/ /\ Admitted(m) = RetireFrom(mem) /\ m.op = "undo" /\ mem # NoRecord
                 /\ RetireFrom(mem) \notin Answers
           /\ Admitted(m) = "ok" => m.op # "begin" /\ (m.op = "undo" => mem = NoRecord)
<1>1. mem # NoRecord => RetireFrom(mem) \in {"unlink", "release", "unmark", "retire"}
    BY RetireFromFacts DEF Journal
<1>2. mem.lease = m.lease => mem # NoRecord
    BY DEF NoRecord, Record
<1>3. CASE m.op = "discover"
    BY <1>3 DEF Admitted, Answers
<1>4. CASE m.op = "begin"
    BY <1>4 DEF Admitted, Answers
<1>5. CASE m.op = "apply"
    BY <1>5 DEF Admitted, Answers, Owns
<1>6. CASE m.op = "beat"
    BY <1>2, <1>6 DEF Admitted, Answers, Owns
<1>7. CASE m.op = "undo"
    BY <1>1, <1>7 DEF Admitted, Answers
<1> QED BY <1>3, <1>4, <1>5, <1>6, <1>7 DEF Waiting

LEMMA ServeKeeps == ASSUME IInv, NEW m \in inbox, Serve(m), UNCHANGED app PROVE IInv'
<1>0. /\ Sessional /\ Applicant /\ Calls /\ Jobs /\ Journal /\ Stages /\ Holding /\ Ordered /\ Promises
      /\ hpc = "idle" /\ job = NoJob /\ job.conn = 0 /\ inbox' = inbox \ {m} /\ reg' = m.conn
      /\ UNCHANGED <<disk, mem, table, act, ronly, conn, broker, faults, apc, lease>> /\ Used' = Used
      /\ 0 \notin Used /\ conn \in Nat /\ 1 <= conn
    BY UsedFacts DEF IInv, Serve, app, Used, broker, Jobs, NoJob, Call, Applicant
<1>1. Frame
    BY <1>0, NoFaultStep DEF Frame, NoFault
<1>2. /\ m.op \in Waiting /\ m.lease \in Used /\ m.conn \in 1..conn
      /\ m.conn = conn => reply = "none" /\ m.op = apc /\ m.lease = lease
      /\ \A k \in inbox' : k \in inbox /\ m.conn < k.conn
    <2>1. /\ m.op \in Waiting /\ m.lease \in Used /\ m.conn \in 1..conn
          /\ m.conn = conn => reply = "none" /\ m.op = apc /\ m.lease = lease
        BY <1>0 DEF Calls
    <2>2. \A k \in inbox' : m.conn <= k.conn /\ m.conn # k.conn /\ k.conn \in 1..conn
        BY <1>0 DEF Calls, Serve
    <2>3. \A k \in inbox' : m.conn < k.conn
        BY <2>1, <2>2
    <2> QED BY <1>0, <2>1, <2>3
<1>3. UNCHANGED <<sess, held, released, nextGen, reaping, late, executed>>
    BY <1>0, <1>1, FrameFacts
<1>4. /\ reg' \in 0..conn /\ act' \in 0..conn /\ ronly' \in BOOLEAN /\ inbox' \subseteq inbox
      /\ Begins' \subseteq Begins
    BY <1>0, <1>2 DEF Calls, Begins
<1>5. CASE Admitted(m) \in Answers
    <2>1. reply' = (IF m.conn = conn THEN Admitted(m) ELSE reply) /\ UNCHANGED <<hpc, job>>
        BY <1>5 DEF Serve
    <2>2. Calls'
        <3>1. m.conn = conn => \A k \in inbox' : k.conn # conn
            BY <1>0, <1>2
        <3>2. CASE m.conn = conn
            BY <1>0, <1>3, <1>4, <1>5, <2>1, <3>1, <3>2, CallsEntry
        <3>3. CASE m.conn # conn
            BY <1>0, <1>3, <1>4, <2>1, <3>3, CallsEntry
        <3> QED BY <3>2, <3>3
    <2>3. Jobs'
        BY <1>0, <2>1 DEF Jobs
    <2>4. Stages'
        BY <1>0, <2>1 DEF Stages, Ended
    <2>5. Ordered'
        <3>1. Continues
            BY <1>0, <1>3 DEF Continues
        <3> QED BY <1>0, <1>4, <2>1, <3>1, OrderedContinues
    <2>6. apc = "begin" /\ reply' = "ok" => reply = "ok"
        BY <1>0, <1>2, <2>1, AdmittedFacts
    <2>7. apc = "undo" /\ reply' = "ok" => reply = "ok" \/ Unheld(lease)'
        <3> SUFFICES ASSUME apc = "undo", m.conn = conn, Admitted(m) = "ok" PROVE Unheld(lease)'
            BY <2>1
        <3>1. mem = NoRecord /\ lease \in Used
            BY <1>0, <1>2, AdmittedFacts
        <3>2. mem.lease # lease
            BY <1>0, <3>1 DEF NoRecord, Record
        <3>3. inbox' = {}
            <4> SUFFICES ASSUME NEW k \in inbox' PROVE FALSE
                OBVIOUS
            <4>1. k.conn \in 1..conn /\ conn < k.conn
                BY <1>0, <1>2 DEF Calls
            <4> QED BY <1>0, <4>1
        <3>4. Begins' = {} /\ hpc' = "idle"
            BY <1>0, <2>1, <3>3 DEF Begins
        <3> QED BY <1>0, <1>3, <3>2, <3>4, UndoneIsUnheld
    <2>8. Promises'
        BY <1>0, <1>3, <1>4, <2>1, <2>6, <2>7, PromisesStep
    <2> QED BY <1>0, <1>1, <2>1, <2>2, <2>3, <2>4, <2>5, <2>8, EntryKeeps
<1>6. ASSUME Admitted(m) \notin Answers
      PROVE  /\ hpc' = Admitted(m) /\ job' = m /\ UNCHANGED reply /\ Calls'
    <2>1. hpc' = Admitted(m) /\ job' = m /\ UNCHANGED reply
        BY <1>6 DEF Serve
    <2>2. \A k \in inbox' : /\ k = Call(k.op, k.conn, k.lease)
                            /\ k.op \in Waiting /\ k.conn \in 1..conn /\ k.lease \in Used
                            /\ job'.conn < k.conn
                            /\ k.conn = conn => reply' = "none" /\ k.op = apc /\ k.lease = lease
        BY <1>0, <1>2, <2>1 DEF Calls
    <2>3. \A k, n \in inbox' : k.conn = n.conn => k = n
        BY <1>0 DEF Calls
    <2>4. /\ job'.conn \in 0..conn
          /\ job'.conn = conn => reply' = "none" /\ job'.op = apc /\ job'.lease = lease
          /\ reply' \in Answers \cup {"none", "lost"}
        BY <1>0, <1>2, <2>1 DEF Calls
    <2>5. Calls'
        BY <1>0, <1>4, <2>2, <2>3, <2>4 DEF Calls
    <2> QED BY <2>1, <2>5
<1>7. ASSUME Admitted(m) \notin Answers, Admitted(m) # "pend" PROVE Ordered'
    <2>1. Continues
        BY <1>0, <1>3 DEF Continues
    <2> QED BY <1>0, <1>4, <1>6, <1>7, <2>1, OrderedContinues
<1>8. CASE Admitted(m) = "pend" /\ m.op = "begin" /\ mem = NoRecord
    <2>1. hpc' = "pend" /\ job' = m /\ UNCHANGED reply /\ Calls'
        BY <1>6, <1>8 DEF Answers
    <2>2. Jobs'
        BY <1>0, <1>2, <1>8, <2>1 DEF Jobs, HelperLabels, Unwinding, Releasing
    <2>3. Stages'
        BY <1>0, <1>8, <2>1 DEF Stages, Unwinding, Releasing
    <2>4. m \in Begins /\ \A k \in Begins' : k \in Begins /\ m.conn < k.conn
        BY <1>2, <1>4, <1>8 DEF Begins
    <2>5. \A l : Below(l)' <=> Below(l)
        BY <1>0, <1>3 DEF Below
    <2>6. /\ apc \in {"ready", "discover"} =>
                Below(lease) /\ (\A k \in Begins' : k.lease < lease) /\ m.lease < lease
          /\ \A k \in Begins' : /\ Below(k.lease) /\ m.lease < k.lease
                                /\ \A n \in Begins' : n.conn < k.conn => n.lease < k.lease
          /\ Below(m.lease)
        BY <1>0, <2>4 DEF Ordered
    <2>7. Below(job.lease)' /\ (apc \in {"ready", "discover"} => Below(lease)')
        BY <1>0, <1>3, <2>1, <2>6 DEF Below
    <2>8. Ordered'
        BY <1>0, <2>1, <2>5, <2>6, <2>7 DEF Ordered
    <2>9. Promises'
        BY <1>0, <1>3, <1>4, <2>1, <2>4, PromisesStep
    <2> QED BY <1>0, <1>1, <2>1, <2>2, <2>3, <2>8, <2>9, EntryKeeps
<1>9. CASE Admitted(m) = "mark" /\ m.op = "apply" /\ mem.state = "Held" /\ ~ronly /\ mem.lease = m.lease
    <2>1. hpc' = "mark" /\ job' = m /\ UNCHANGED reply /\ Calls' /\ Ordered'
        BY <1>6, <1>7, <1>9 DEF Answers
    <2>2. Jobs'
        BY <1>9, <2>1 DEF Jobs, HelperLabels, Unwinding, Releasing
    <2>3. Stages'
        <3>1. mem.applied = 0 /\ mem.pending = 0 /\ mem # NoRecord
            BY <1>0, <1>9 DEF Stages, NoRecord, Record
        <3> QED BY <1>0, <1>9, <2>1, <3>1, CidrAssumption DEF Stages, Unwinding, Releasing
    <2>4. Applying(mem.lease)
        BY <1>9 DEF Applying
    <2>5. Promises'
        BY <1>0, <1>3, <1>4, <2>1, <2>4, PromisesStep
    <2> QED BY <1>0, <1>1, <2>1, <2>2, <2>3, <2>5, EntryKeeps
<1>10. CASE Admitted(m) = "query" /\ m.op = "beat" /\ mem # NoRecord
    <2>1. hpc' = "query" /\ job' = m /\ UNCHANGED reply /\ Calls' /\ Ordered'
        BY <1>6, <1>7, <1>10 DEF Answers
    <2>2. Jobs'
        BY <1>10, <2>1 DEF Jobs, HelperLabels, Unwinding, Releasing
    <2>3. Stages'
        BY <1>0, <1>10, <2>1 DEF Stages, Unwinding, Releasing
    <2>4. Promises'
        BY <1>0, <1>3, <1>4, <2>1, PromisesStep
    <2> QED BY <1>0, <1>1, <2>1, <2>2, <2>3, <2>4, EntryKeeps
<1>11. CASE Admitted(m) = RetireFrom(mem) /\ m.op = "undo" /\ mem # NoRecord /\ RetireFrom(mem) \notin Answers
    <2>1. hpc' = RetireFrom(mem) /\ job' = m /\ UNCHANGED reply /\ Calls'
        BY <1>6, <1>11
    <2>2. PICK r : r = mem
        OBVIOUS
    <2>3. WellFormed(r) /\ r # NoRecord /\ mem' = r /\ hpc' = RetireFrom(r)
        BY <1>0, <1>11, <2>1, <2>2 DEF Journal
    <2>4. /\ Jobs' /\ Stages' /\ hpc' \in {"unlink", "release", "unmark", "retire"}
          /\ hpc' = "unlink" => mem'.state = "Released"
        BY <1>11, <2>1, <2>3, RetireStages
    <2>5. Ordered'
        BY <1>7, <1>11, <2>1, <2>4
    <2>6. Promises'
        BY <1>0, <1>3, <1>4, <2>1, <2>4, PromisesStep
    <2> QED BY <1>0, <1>1, <2>1, <2>4, <2>5, <2>6, EntryKeeps
<1> QED BY <1>0, <1>2, <1>5, <1>8, <1>9, <1>10, <1>11, AdmittedFacts

LEMMA HelperNextKeeps == ASSUME IInv, HelperNext PROVE IInv'
BY HelperStepKeeps, ServeKeeps, RefuseKeeps, ForgetKeeps, CloseKeeps, LeaseExpiresKeeps, HelperStartsKeeps,
   HelperCrashesKeeps DEF HelperNext

-----------------------------------------------------------------------------
(* The app *)

\* A step of the app that leaves the broker and the helper alone.
Apart ==
    /\ UNCHANGED <<sess, appHere, held, released, recovery, tombstone, nextGen, child, exitDue, reaping,
                   late, executed, helper>>
    /\ lossDue' \subseteq Used /\ faults' \in {faults, faults + 1} /\ faults' <= MaxFaults

LEMMA ApartKeeps ==
    ASSUME IInv, Apart, Applicant', Calls', Ordered', Promises'
    PROVE  IInv'
<1>0. /\ Sessional /\ Jobs /\ Journal /\ Stages /\ Holding /\ Routed /\ Remembered
      /\ UNCHANGED <<sess, appHere, held, released, recovery, tombstone, nextGen, child, exitDue, reaping,
                     late, executed, disk, mem, table, reg, act, ronly, hpc, job>>
      /\ Used' = Used
    BY DEF IInv, Apart, helper, Used
<1>1. Sessional'
    <2>1. Subsides
        BY <1>0 DEF Subsides
    <2>2. /\ appHere' \in BOOLEAN /\ recovery' \in BOOLEAN /\ child' \subseteq Used /\ exitDue' \subseteq Used
          /\ lossDue' \subseteq Used /\ reaping' \subseteq (Reasons \X Used) /\ faults' \in 0..MaxFaults
        BY <1>0, UsedFacts, FaultsAssumption DEF Sessional, Apart
    <2> QED BY <1>0, <2>1, <2>2, SubsidesSessional
<1>2. Jobs'
    BY <1>0 DEF Jobs
<1>3. Journal'
    BY <1>0 DEF Journal, WellFormed, Ended
<1>4. Stages'
    BY <1>0 DEF Stages, Ended
<1>5. Holding'
    BY <1>0 DEF Holding, Over
<1>6. Routed'
    BY <1>0 DEF Routed, Owned
<1>7. Remembered'
    BY <1>0 DEF Remembered, Settled, Ended
<1> QED BY <1>1, <1>2, <1>3, <1>4, <1>5, <1>6, <1>7 DEF IInv

\* No call of the current connection is under way.
Quiet == job.conn < conn /\ \A m \in inbox : m.conn < conn

LEMMA QuietFacts ==
    ASSUME Applicant, Calls, Jobs, apc \notin Waiting \/ reply # "none"
    PROVE  Quiet
<1>1. conn \in Nat /\ 1 <= conn /\ job.conn \in 0..conn
    BY DEF Applicant, Calls
<1>2. \A m \in inbox : m.conn \in 1..conn /\ m.conn # conn
    BY DEF Calls
<1>3. job.conn # conn
    <2> SUFFICES ASSUME job.conn = conn PROVE FALSE
        OBVIOUS
    <2>1. reply = "none" /\ job.op = apc
        BY DEF Calls
    <2>2. job # NoJob
        BY <1>1 DEF NoJob, Call
    <2>3. job.op \in Waiting
        BY <1>1, <2>2 DEF Jobs, HelperLabels, Unwinding, Releasing, Waiting
    <2> QED BY <2>1, <2>3
<1> QED BY <1>1, <1>2, <1>3 DEF Quiet

\* The calls that are under way stay those of earlier connections.
LEMMA CallsQuiet ==
    ASSUME Sessional, Applicant, Calls, UNCHANGED <<inbox, helper>>, Used \subseteq Used',
           reply' \in Answers \cup {"none", "lost"},
           conn' = conn + 1 \/ (conn' = conn /\ Quiet)
    PROVE  Calls'
<1>0. /\ conn \in Nat /\ 1 <= conn /\ job.conn \in 0..conn /\ reg \in 0..conn /\ act \in 0..conn /\ ronly \in BOOLEAN
      /\ \A m \in inbox : m.conn \in 1..conn
      /\ UNCHANGED <<job, reg, act, ronly>>
    BY DEF Applicant, Calls, helper
<1>1. /\ job.conn < conn' /\ job.conn \in 0..conn' /\ reg \in 0..conn' /\ act \in 0..conn' /\ conn' \in Nat
      /\ \A m \in inbox : m.conn \in 1..conn' /\ m.conn < conn'
    BY <1>0 DEF Quiet
<1>2. /\ job'.conn # conn' /\ job'.conn \in 0..conn' /\ reg' \in 0..conn' /\ act' \in 0..conn'
      /\ \A m \in inbox : m.conn \in 1..conn' /\ m.conn # conn'
    BY <1>0, <1>1
<1>3. \A m \in inbox : /\ m = Call(m.op, m.conn, m.lease) /\ m.op \in Waiting
                       /\ m.lease \in Used' /\ job'.conn < m.conn
    BY <1>0 DEF Calls
<1>4. \A m, k \in inbox : m.conn = k.conn => m = k
    BY DEF Calls
<1> QED BY <1>0, <1>2, <1>3, <1>4 DEF Calls

LEMMA CallsSend ==
    ASSUME Sessional, Applicant, Calls, Quiet, UNCHANGED <<helper, conn, lease, nextGen>>,
           NEW op \in Waiting, Send(op), lease \in Used
    PROVE  Calls'
<1>0. /\ conn \in Nat /\ 1 <= conn /\ inbox' = inbox \cup {Call(op, conn, lease)} /\ reply' = "none" /\ apc' = op
      /\ UNCHANGED <<job, reg, act, ronly>> /\ Used' = Used
    BY DEF Applicant, Send, helper, Used
<1>1. /\ Call(op, conn, lease).op = op /\ Call(op, conn, lease).conn = conn /\ Call(op, conn, lease).lease = lease
    BY DEF Call
<1>2. ASSUME NEW m \in inbox' 
      PROVE  /\ m = Call(m.op, m.conn, m.lease)
             /\ m.op \in Waiting /\ m.conn \in 1..conn /\ m.lease \in Used
             /\ job.conn < m.conn
             /\ m.conn = conn => m.op = op /\ m.lease = lease
    <2>1. CASE m \in inbox
        BY <1>0, <2>1 DEF Calls, Quiet
    <2>2. CASE m = Call(op, conn, lease)
        <3>1. m.op = op /\ m.conn = conn /\ m.lease = lease
            BY <1>1, <2>2
        <3> QED BY <1>0, <2>2, <3>1 DEF Quiet
    <2> QED BY <1>0, <2>1, <2>2
<1>3. ASSUME NEW m \in inbox', NEW k \in inbox', m.conn = k.conn PROVE m = k
    <2>1. \A n \in inbox : n.conn # conn
        BY <1>0 DEF Quiet, Calls
    <2> QED BY <1>0, <1>1, <1>3, <2>1 DEF Calls
<1>4. job'.conn \in 0..conn /\ job'.conn # conn
    BY <1>0 DEF Calls, Quiet
<1>5. reply' \in Answers \cup {"none", "lost"} /\ reg' \in 0..conn /\ act' \in 0..conn /\ ronly' \in BOOLEAN
    BY <1>0 DEF Calls
<1> QED BY <1>0, <1>2, <1>3, <1>4, <1>5 DEF Calls

\* What the app has not begun stays ahead of everything the helper has done.
LEMMA OrderedApart ==
    ASSUME Ordered, Apart, UNCHANGED inbox, apc' \in {"ready", "discover"} => apc \in {"ready", "discover"} /\ UNCHANGED lease
    PROVE  Ordered'
<1>0. UNCHANGED <<mem, disk, hpc, job, executed, late, nextGen>> /\ Begins' = Begins /\ Used' = Used
    BY DEF Apart, helper, Begins, Used
<1>1. \A l : Below(l)' <=> Below(l)
    BY <1>0 DEF Below
<1>2. (hpc' = "pend" => Below(job.lease)') /\ (apc' \in {"ready", "discover"} => Below(lease)')
    BY <1>0 DEF Ordered, Below
<1> QED BY <1>0, <1>1, <1>2 DEF Ordered

LEMMA PromisesApart ==
    ASSUME Promises, Apart,
           \A m \in inbox' : m \in inbox \/ m.op # "apply" \/ Applying(m.lease),
           apc' = "begin" => reply' # "ok" \/ (apc = "begin" /\ reply = "ok" /\ UNCHANGED lease),
           apc' = "clear" \/ (apc' = "undo" /\ reply' = "ok") => Begins' = Begins /\ UNCHANGED lease /\ Unheld(lease)
    PROVE  Promises'
<1>0. UNCHANGED <<sess, held, released, reaping, late, nextGen, mem, hpc, job>> /\ Used' = Used
    BY DEF Apart, helper, Used
<1>1. \A l \in Used : Applying(l)' => Safe(l)'
    <2> TAKE l \in Used
    <2> HAVE Applying(l)'
    <2>1. Applying(l)
        BY <1>0 DEF Applying
    <2> QED BY <1>0, <2>1 DEF Promises, Safe, Over
<1>2. apc' = "clear" \/ (apc' = "undo" /\ reply' = "ok") => Unheld(lease)'
    <2> HAVE apc' = "clear" \/ (apc' = "undo" /\ reply' = "ok")
    <2>1. Begins' = Begins /\ UNCHANGED lease /\ Unheld(lease)
        OBVIOUS
    <2> QED BY <1>0, <2>1 DEF Unheld, Over
<1>3. Promises' <=> /\ \A l \in Used' : Applying(l)' => Safe(l)'
                    /\ apc' = "clear" \/ (apc' = "undo" /\ reply' = "ok") => Unheld(lease)'
    BY DEF Promises
<1> QED BY <1>0, <1>1, <1>2, <1>3

LEMMA ApplicantMoves ==
    ASSUME Sessional, Applicant, UNCHANGED <<nextGen, lossDue, reaping, faults, lease>>,
           apc \notin {"off", "idle"}, apc' \in Waiting \cup {"ready", "up", "frozen", "clear"}, term' \in BOOLEAN,
           apc' \in {"ready", "discover", "begin"} => apc \in {"ready", "discover", "begin"},
           \/ conn' = conn /\ (apc' = "clear" \/ apc # "clear")
           \/ conn' = conn + 1 /\ apc # "clear" /\ apc' = "clear"
    PROVE  Applicant'
<1>0. nextGen \in Nat /\ faults \in Nat /\ lease # 0
    BY UsedFacts, LeaseUsed
<1>1. apc' \notin {"off", "idle"} /\ apc' \in Waiting \cup {"off", "idle", "ready", "up", "frozen", "clear"}
    BY DEF Waiting
<1>2. /\ conn' \in Nat /\ 1 <= conn' /\ conn' <= faults' + nextGen'
      /\ apc' \notin {"off", "idle", "clear"} => conn' < faults' + nextGen'
    <2>1. /\ conn \in Nat /\ 1 <= conn /\ conn <= faults + nextGen
          /\ apc \notin {"off", "idle", "clear"} => conn < faults + nextGen
        BY DEF Applicant
    <2> QED BY <1>0, <2>1
<1>3. /\ lease' \in 0..(nextGen' - 1)
      /\ nextGen' = lease' + 1 /\ lease' \notin lossDue' /\ <<"loss", lease'>> \notin reaping'
      /\ apc' \in {"ready", "discover", "begin"} => <<"stop", lease'>> \notin reaping'
    BY <1>0 DEF Applicant
<1> QED BY <1>0, <1>1, <1>2, <1>3 DEF Applicant

\* What the steps of the app start from.
LEMMA AppFacts ==
    ASSUME IInv
    PROVE  /\ Sessional /\ Applicant /\ Calls /\ Jobs /\ Stages /\ Holding /\ Ordered /\ Promises
           /\ apc \notin Waiting \/ reply # "none" => Quiet
           /\ apc \notin {"off", "idle"} => lease \in Used /\ lease # 0
           /\ term \in BOOLEAN /\ lossDue \subseteq Used
           /\ UNCHANGED <<broker, faults, helper>> => Apart
<1>1. Sessional /\ Applicant /\ Calls /\ Jobs /\ Stages /\ Holding /\ Ordered /\ Promises
    BY DEF IInv
<1>2. apc \notin Waiting \/ reply # "none" => Quiet
    BY <1>1, QuietFacts
<1>3. term \in BOOLEAN /\ lossDue \subseteq Used
    BY <1>1 DEF Applicant, Sessional
<1>4. UNCHANGED <<broker, faults, helper>> => Apart
    <2> HAVE UNCHANGED <<broker, faults, helper>>
    <2>1. faults' \in {faults, faults + 1} /\ faults' <= MaxFaults
        BY <1>1, NoFaultStep DEF NoFault
    <2> QED BY <1>3, <2>1 DEF Apart, broker, session
<1> QED BY <1>1, <1>2, <1>3, <1>4, LeaseUsed

\* The app asks the helper.
LEMMA SendKeeps ==
    ASSUME IInv, NEW op \in Waiting, Send(op), UNCHANGED <<lease, term, helper, conn, broker, faults>>,
           apc \in {"ready", "up", "frozen"} \/ reply # "none",
           apc \notin {"off", "idle", "clear"},
           op = "discover" => apc = "ready", op = "begin" => apc = "discover",
           op = "apply" => apc = "begin" /\ reply = "ok"
    PROVE  IInv'
<1>0. /\ Sessional /\ Applicant /\ Calls /\ Ordered /\ Promises /\ Quiet /\ lease \in Used /\ term \in BOOLEAN /\ Apart
      /\ conn \in Nat
    BY AppFacts DEF Waiting, Applicant
<1>1. UNCHANGED <<nextGen, lossDue, reaping>>
    BY DEF broker
<1>2. inbox' = inbox \cup {Call(op, conn, lease)} /\ reply' = "none" /\ apc' = op
    BY DEF Send
<1>3. Applicant'
    <2>1. /\ term' \in BOOLEAN /\ apc' \in Waiting \cup {"ready", "up", "frozen", "clear"}
          /\ apc' \in {"ready", "discover", "begin"} => apc \in {"ready", "discover", "begin"}
        BY <1>0, <1>2 DEF Waiting
    <2> QED BY <1>0, <1>1, <2>1, ApplicantMoves
<1>4. Calls'
    BY <1>0, <1>1, CallsSend
<1> DEFINE new == Call(op, conn, lease)
<1>5. new.op = op /\ new.conn = conn /\ new.lease = lease
    BY DEF Call
<1> HIDE DEF new
<1>6. inbox' = inbox \cup {new}
    BY <1>2 DEF new
<1>7. Ordered'
    <2>0. /\ UNCHANGED <<mem, disk, hpc, job, executed, late, nextGen, lease>> /\ Used' = Used
          /\ apc' \in {"ready", "discover"} => apc = "ready"
        BY <1>0, <1>2 DEF Apart, helper, Used, Waiting
    <2>1. \A l : Below(l)' <=> Below(l)
        BY <2>0 DEF Below
    <2>2. (hpc' = "pend" => Below(job.lease)') /\ (apc' \in {"ready", "discover"} => Below(lease)')
        BY <1>0, <1>2, <2>0 DEF Ordered, Below
    <2>3. CASE op # "begin"
        <3>1. Begins' = Begins
            BY <1>5, <1>6, <2>3 DEF Begins
        <3> QED BY <1>0, <1>2, <2>0, <2>1, <2>2, <3>1 DEF Ordered
    <2>4. CASE op = "begin"
        <3>1. Begins' = Begins \cup {new} /\ \A m \in Begins : m.conn < conn
            BY <1>0, <1>5, <1>6, <2>4 DEF Begins, Quiet
        <3>2. /\ Below(lease) /\ (\A m \in Begins : m.lease < lease)
              /\ hpc = "pend" => job.lease < lease
            BY <1>0, <2>4 DEF Ordered
        <3>3. \A m \in Begins' : /\ Below(m.lease) /\ (hpc = "pend" => job.lease < m.lease)
                                 /\ \A k \in Begins' : k.conn < m.conn => k.lease < m.lease
            <4>1. \A m \in Begins : m.conn \in Nat
                BY <1>0 DEF Calls, Begins
            <4> QED BY <1>0, <1>5, <3>1, <3>2, <4>1 DEF Ordered
        <3>4. apc' \notin {"ready", "discover"}
            BY <1>2, <2>4
        <3> QED BY <2>0, <2>1, <2>2, <3>3, <3>4 DEF Ordered
    <2> QED BY <2>3, <2>4
<1>8. Promises'
    <2>1. \A m \in inbox' : m \in inbox \/ m.op # "apply" \/ Applying(m.lease)
        BY <1>5, <1>6 DEF Applying
    <2>2. reply' # "ok" /\ apc' # "clear"
        BY <1>2 DEF Waiting
    <2> QED BY <1>0, <2>1, <2>2, PromisesApart
<1> QED BY <1>0, <1>3, <1>4, <1>7, <1>8, ApartKeeps

\* The app moves on without a call.
LEMMA MoveKeeps ==
    ASSUME IInv, UNCHANGED <<lease, helper, inbox, broker, faults>>, Quiet, apc \notin {"off", "idle"},
           apc' \in {"up", "frozen", "clear"}, term' \in BOOLEAN, reply' \in Answers \cup {"none", "lost"},
           \/ conn' = conn /\ (apc' = "clear" \/ apc # "clear")
           \/ conn' = conn + 1 /\ apc # "clear" /\ apc' = "clear",
           apc' = "clear" => Unheld(lease)
    PROVE  IInv'
<1>0. /\ Sessional /\ Applicant /\ Calls /\ Ordered /\ Promises /\ lease \in Used /\ Apart
    BY AppFacts
<1>1. UNCHANGED <<nextGen, lossDue, reaping>> /\ Used' = Used /\ Begins' = Begins
    BY DEF broker, Used, Begins
<1>2. Applicant'
    BY <1>0, <1>1, ApplicantMoves DEF Waiting
<1>3. Calls'
    BY <1>0, <1>1, CallsQuiet
<1>4. Ordered'
    BY <1>0, OrderedApart
<1>5. Promises'
    BY <1>0, <1>1, PromisesApart
<1> QED BY <1>0, <1>2, <1>3, <1>4, <1>5, ApartKeeps

\* freeze() with an answer of the helper in hand.
LEMMA FreezeKeeps ==
    ASSUME IInv, apc \in Waiting, reply # "none", Freeze, UNCHANGED <<lease, helper, inbox, conn, broker, faults>>
    PROVE  IInv'
<1>1. Quiet /\ apc \notin {"off", "idle", "clear"}
    BY AppFacts DEF Waiting
<1>2. apc' = "frozen" /\ reply' = "none"
    BY DEF Freeze
<1>3. term' \in BOOLEAN
    BY DEF Freeze
<1> QED BY <1>1, <1>2, <1>3, MoveKeeps

LEMMA AppStartsKeeps == ASSUME IInv, AppStarts PROVE IInv'
<1>0. /\ Sessional /\ Applicant /\ Calls /\ Ordered /\ Promises /\ Quiet /\ Apart
      /\ apc = "off" /\ apc' = "idle" /\ UNCHANGED <<lease, term, helper, inbox, conn, reply, broker, faults>>
      /\ reply \in Answers \cup {"none", "lost"}
    BY AppFacts DEF AppStarts, link, Waiting, Calls
<1>1. UNCHANGED <<nextGen, lossDue, reaping>> /\ Used' = Used /\ Begins' = Begins
    BY <1>0 DEF broker, Used, Begins
<1>2. Applicant'
    BY <1>0, <1>1 DEF Applicant
<1>3. Calls'
    BY <1>0, <1>1, CallsQuiet
<1>4. Ordered'
    BY <1>0, OrderedApart
<1>5. Promises'
    BY <1>0, <1>1, PromisesApart
<1> QED BY <1>0, <1>2, <1>3, <1>4, <1>5, ApartKeeps

LEMMA SessionEndsKeeps == ASSUME IInv, SessionEnds PROVE IInv'
<1>0. /\ Sessional /\ Applicant /\ Calls /\ Ordered /\ Promises /\ Quiet /\ Apart
      /\ apc = "clear" /\ apc' = "idle" /\ lease' = 0
      /\ UNCHANGED <<term, helper, inbox, conn, reply, broker, faults>>
      /\ reply \in Answers \cup {"none", "lost"}
    BY AppFacts DEF SessionEnds, link, Waiting, Calls
<1>1. UNCHANGED <<nextGen, lossDue, reaping>> /\ Used' = Used /\ Begins' = Begins
    BY <1>0 DEF broker, Used, Begins
<1>2. Applicant'
    <2>1. 0 \in 0..(nextGen' - 1)
        BY <1>0, <1>1 DEF Sessional
    <2> QED BY <1>0, <1>1, <2>1 DEF Applicant
<1>3. Calls'
    BY <1>0, <1>1, CallsQuiet
<1>4. Ordered'
    BY <1>0, OrderedApart
<1>5. Promises'
    BY <1>0, <1>1, PromisesApart
<1> QED BY <1>0, <1>2, <1>3, <1>4, <1>5, ApartKeeps

LEMMA CallTimesOutKeeps == ASSUME IInv, CallTimesOut PROVE IInv'
<1>0. /\ Sessional /\ Applicant /\ Calls /\ Ordered /\ Promises /\ lossDue \subseteq Used
      /\ apc \in Waiting /\ Fault("timeout") /\ reply' = "lost" /\ conn' = conn + 1
      /\ UNCHANGED <<apc, lease, term, helper, inbox, broker>>
    BY AppFacts DEF CallTimesOut, app
<1>1. UNCHANGED <<nextGen, lossDue, reaping>> /\ Used' = Used /\ Begins' = Begins
    BY <1>0 DEF broker, Used, Begins
<1>2. faults' = faults + 1 /\ faults \in Nat /\ faults' <= MaxFaults /\ nextGen \in Nat
    BY <1>0, FaultStep, UsedFacts DEF Fault
<1>3. Apart
    BY <1>0, <1>1, <1>2 DEF Apart, broker, session
<1>4. Applicant'
    <2>1. /\ conn \in Nat /\ 1 <= conn /\ conn <= faults + nextGen
          /\ apc \notin {"off", "idle", "clear"} => conn < faults + nextGen
        BY <1>0 DEF Applicant
    <2>2. /\ conn' \in Nat /\ 1 <= conn' /\ conn' <= faults' + nextGen'
          /\ apc' \notin {"off", "idle", "clear"} => conn' < faults' + nextGen'
        BY <1>0, <1>1, <1>2, <2>1
    <2> QED BY <1>0, <1>1, <2>2 DEF Applicant
<1>5. Calls'
    BY <1>0, <1>1, CallsQuiet
<1>6. Ordered'
    BY <1>0, <1>3, OrderedApart
<1>7. Promises'
    <2>1. apc' # "clear"
        BY <1>0 DEF Waiting
    <2> QED BY <1>0, <1>3, <2>1, PromisesApart
<1> QED BY <1>3, <1>4, <1>5, <1>6, <1>7, ApartKeeps

LEMMA AppCrashesKeeps == ASSUME IInv, AppCrashes PROVE IInv'
<1>0. /\ Sessional /\ Applicant /\ Calls /\ Ordered /\ Promises /\ lossDue \subseteq Used
      /\ Fault("app") /\ apc' = "off" /\ lease' = 0 /\ term' = FALSE /\ conn' = conn + 1 /\ reply' = "none"
      /\ lossDue' = (IF lease = 0 THEN lossDue ELSE lossDue \cup {lease})
      /\ UNCHANGED <<helper, inbox, session, tombstone, nextGen, child, exitDue, reaping, late, executed>>
    BY AppFacts DEF AppCrashes
<1>1. Used' = Used /\ Begins' = Begins /\ lossDue' \subseteq Used
    <2>1. lease # 0 => lease \in Used
        BY <1>0, UsedFacts DEF Applicant, Used
    <2> QED BY <1>0, <2>1 DEF Used, Begins
<1>2. faults' = faults + 1 /\ faults \in Nat /\ faults' <= MaxFaults /\ nextGen \in Nat
    BY <1>0, FaultStep, UsedFacts DEF Fault
<1>3. Apart
    BY <1>0, <1>1, <1>2 DEF Apart, session
<1>4. Applicant'
    <2>1. conn \in Nat /\ 1 <= conn /\ conn <= faults + nextGen
        BY <1>0 DEF Applicant
    <2>2. conn' \in Nat /\ 1 <= conn' /\ conn' <= faults' + nextGen'
        BY <1>0, <1>2, <2>1
    <2>3. term' \in BOOLEAN
        BY <1>0
    <2>4. lease' \in 0..(nextGen' - 1)
        BY <1>0 DEF Sessional
    <2> QED BY <1>0, <2>2, <2>3, <2>4 DEF Applicant
<1>5. Calls'
    BY <1>0, <1>1, CallsQuiet
<1>6. Ordered'
    BY <1>0, <1>3, OrderedApart
<1>7. Promises'
    BY <1>0, <1>3, PromisesApart
<1> QED BY <1>3, <1>4, <1>5, <1>6, <1>7, ApartKeeps

\* A session that never began its lease holds nothing.
LEMMA AbandonKeeps == ASSUME IInv, Abandon PROVE IInv'
<1>0. /\ Sessional /\ Calls /\ Jobs /\ Stages /\ Holding /\ Ordered /\ Quiet /\ apc = "ready" /\ apc' = "clear"
      /\ UNCHANGED <<lease, term, helper, inbox, conn, reply, broker, faults>>
      /\ reply \in Answers \cup {"none", "lost"} /\ term \in BOOLEAN /\ lease \in Used
    BY AppFacts DEF Abandon, link, Waiting, Calls
<1>1. lease \in Nat
    BY <1>0, UsedFacts
<1>2. /\ mem.lease < lease /\ disk.lease < lease
      /\ \A m \in Begins : m.lease < lease
      /\ hpc = "pend" => job.lease < lease
      /\ <<"hold", lease>> \in late => lease < lease
    BY <1>0 DEF Ordered, Below
<1>3. ~(sess = lease /\ held)
    BY <1>0, <1>1, <1>2 DEF Holding
<1>4. ~(hpc \in {"pend", "hold"} /\ job.lease = lease)
    <2>1. hpc = "hold" => mem.lease = job.lease
        BY <1>0 DEF Stages, Record
    <2> QED BY <1>1, <1>2, <2>1
<1>5. Unheld(lease)
    BY <1>1, <1>2, <1>3, <1>4 DEF Unheld, Over
<1> QED BY <1>0, <1>5, MoveKeeps

LEMMA Room ==
    ASSUME NEW a \in Nat, NEW b \in Nat, NEW k \in Nat, NEW c \in Nat, a <= b, c <= a + k
    PROVE  c < b + (k + 1) /\ c <= b + (k + 1)
OBVIOUS

LEMMA StartSessionKeeps == ASSUME IInv, StartSession PROVE IInv'
<1>0. /\ Sessional /\ Applicant /\ Calls /\ Jobs /\ Journal /\ Stages /\ Holding /\ Routed /\ Remembered
      /\ Ordered /\ Promises /\ Quiet
      /\ apc = "idle" /\ lease = 0 /\ sess = 0 /\ ~held /\ ~released /\ nextGen' = nextGen + 1 /\ nextGen <= Sessions
      /\ UNCHANGED <<held, released, recovery, tombstone, exitDue, lossDue, reaping, late, executed,
                     term, helper, inbox, conn, reply>>
    BY AppFacts, UsedFacts DEF IInv, StartSession, Start, link, Waiting, Applicant, Sessional
<1>1. /\ UNCHANGED <<disk, mem, table, reg, act, ronly, hpc, job>> /\ Begins' = Begins
      /\ nextGen \in Nat \ {0} /\ faults \in Nat /\ 0 \notin Used /\ Used \subseteq Nat /\ nextGen \notin Used
      /\ Used' = Used \cup {nextGen} /\ \A l \in Used : l < nextGen
    BY <1>0, UsedFacts DEF helper, Begins, Used, Sessional
<1>2. /\ faults' \in {faults, faults + 1} /\ faults' \in 0..MaxFaults
      /\ \/ /\ sess' = nextGen /\ child' = child \cup {nextGen} /\ appHere' = TRUE
            /\ apc' = "ready" /\ lease' = nextGen
         \/ UNCHANGED <<sess, appHere, child, apc, lease>>
    <2>1. CASE sess' = nextGen /\ child' = child \cup {nextGen} /\ appHere' = TRUE /\ NoFault
        <3>1. sess' # 0 /\ apc' = "ready" /\ lease' = nextGen
            BY <1>1, <2>1 DEF StartSession
        <3>2. faults' \in {faults, faults + 1} /\ faults' \in 0..MaxFaults
            BY <1>0, <2>1 DEF NoFault, Sessional
        <3> QED BY <2>1, <3>1, <3>2
    <2>2. CASE Fault("child") /\ UNCHANGED <<sess, appHere, child>>
        <3>1. UNCHANGED <<apc, lease>>
            BY <1>0, <2>2 DEF StartSession
        <3>2. faults' \in {faults, faults + 1} /\ faults' \in 0..MaxFaults
            BY <1>0, <1>1, <2>2, FaultStep, FaultsAssumption
        <3> QED BY <2>2, <3>1, <3>2
    <2> QED BY <2>1, <2>2 DEF StartSession, Start
<1>3. sess' \in {0, nextGen} /\ appHere' \in BOOLEAN /\ child' \subseteq Used'
    <2>1. appHere \in BOOLEAN /\ child \subseteq Used
        BY <1>0 DEF Sessional
    <2>2. appHere' \in BOOLEAN
        BY <1>2, <2>1
    <2> QED BY <1>0, <1>1, <1>2, <2>1, <2>2
<1>4. Sessional'
    <2>1. /\ nextGen' \in 1..(Sessions + 1) /\ sess' \in 0..(nextGen' - 1) /\ tombstone' \in 0..(nextGen' - 1)
          /\ sess' # 0 => tombstone' < sess'
        BY <1>0, <1>1, <1>3, SessionsAssumption DEF Sessional
    <2>2. ~held' /\ ~released' /\ sess' \notin executed' /\ held' \in BOOLEAN /\ released' \in BOOLEAN /\ recovery' \in BOOLEAN
        BY <1>0, <1>1, <1>3 DEF Sessional
    <2>3. /\ exitDue' \subseteq Used' /\ lossDue' \subseteq Used' /\ executed' \subseteq Used'
          /\ reaping' \subseteq (Reasons \X Used') /\ late' \subseteq ({"hold", "release"} \X Used')
        BY <1>0, <1>1 DEF Sessional
    <2>4. \A g \in Used' : <<"release", g>> \in reaping' => sess' # g \/ released'
        <3> SUFFICES ASSUME NEW g \in Used', <<"release", g>> \in reaping PROVE sess' # g
            BY <1>0
        <3>1. g \in Used
            BY <1>0 DEF Sessional
        <3> QED BY <1>1, <1>3, <3>1
    <2> QED BY <1>2, <1>3, <2>1, <2>2, <2>3, <2>4 DEF Sessional
<1>5. Applicant'
    <2>1. conn \in Nat /\ 1 <= conn /\ conn <= faults + nextGen
        BY <1>0 DEF Applicant
    <2>2. conn' \in Nat /\ 1 <= conn' /\ conn' < faults' + nextGen' /\ conn' <= faults' + nextGen'
        <3>1. faults' \in Nat /\ faults <= faults' /\ nextGen \in Nat
            BY <1>1, <1>2
        <3>2. conn < faults' + (nextGen + 1) /\ conn <= faults' + (nextGen + 1)
            BY <1>1, <2>1, <3>1, Room
        <3> QED BY <1>0, <2>1, <3>2
    <2>3. CASE apc' = "ready" /\ lease' = nextGen
        <3>1. lease' \notin lossDue' /\ <<"loss", lease'>> \notin reaping' /\ <<"stop", lease'>> \notin reaping'
            BY <1>0, <1>1, <2>3 DEF Sessional
        <3>2. lease' \in 0..(nextGen' - 1) /\ nextGen' = lease' + 1 /\ lease' # 0
            BY <1>0, <1>1, <2>3
        <3>3. term' \in BOOLEAN /\ apc' \in Waiting \cup {"off", "idle", "ready", "up", "frozen", "clear"}
            BY <1>0, <2>3 DEF Applicant
        <3> QED BY <2>2, <2>3, <3>1, <3>2, <3>3 DEF Applicant
    <2>4. CASE UNCHANGED <<apc, lease>>
        <3>1. lease' \in 0..(nextGen' - 1)
            BY <1>0, <1>1, <2>4
        <3> QED BY <1>0, <2>2, <2>4, <3>1 DEF Applicant
    <2> QED BY <1>2, <2>3, <2>4
<1>6. Calls'
    <2>1. Used \subseteq Used' /\ reply' \in Answers \cup {"none", "lost"}
        BY <1>0, <1>1 DEF Calls
    <2> QED BY <1>0, <2>1, CallsQuiet
<1>7. Jobs'
    BY <1>0, <1>1 DEF Jobs
<1>8. Journal'
    BY <1>0, <1>1 DEF Journal, WellFormed, Ended
<1>9. Stages'
    BY <1>0, <1>1 DEF Stages, Ended
<1>10. \A r \in {mem, disk} : r.lease \in Used \cup {0} /\ r.lease < nextGen
    <2>1. \A r \in {mem, disk} : r.lease \in Used \cup {0}
        BY <1>0 DEF Journal, WellFormed, NoRecord, Record
    <2>2. 0 < nextGen
        BY <1>1
    <2>3. \A l \in Used \cup {0} : l < nextGen
        BY <1>1, <2>2
    <2> QED BY <2>1, <2>3
<1>11. Holding'
    <2>1. \A r \in {mem, disk} : r.state \notin {"Held", "Applied"}
        BY <1>0 DEF Holding
    <2>2. \A l \in Used : Over(l)'
        BY <1>1, <1>3 DEF Over
    <2>3. \A l \in Used' : ~(<<"hold", l>> \in late' /\ ~Over(l)')
        BY <1>0, <1>1, <2>2 DEF Sessional
    <2>4. \A r \in {mem, disk} : r.state = "Released" => Over(r.lease)'
        <3>1. \A r \in {mem, disk} : r.state = "Released" => r.lease \in Used
            BY <1>0 DEF Journal, WellFormed, NoRecord, Record
        <3> QED BY <2>2, <3>1
    <2>5. hpc' \in {"drop", "reaped", "done", "unlink"} => Over(mem.lease)'
        <3> HAVE hpc' \in {"drop", "reaped", "done", "unlink"}
        <3>1. mem # NoRecord
            BY <1>0, <1>1 DEF Stages
        <3>2. mem.lease \in Used
            BY <1>0, <3>1, MemFacts
        <3> QED BY <1>1, <2>2, <3>2 DEF Over
    <2>6. hpc' # "keep"
        BY <1>0, <1>1 DEF Holding
    <2> QED BY <1>0, <1>1, <2>1, <2>3, <2>4, <2>5, <2>6 DEF Holding
<1>12. Routed'
    <2>1. \A c \in Cidrs : table'[c] = 0
        BY <1>0, <1>1 DEF Routed
    <2> QED BY <1>0, <1>1, <2>1 DEF Routed
<1>13. Remembered'
    <2>1. \A l \in Used' : Settled(l)' => l \in Used /\ Settled(l)
        BY <1>0, <1>1 DEF Settled, Sessional
    <2>2. \A l \in executed : \A r \in {mem, disk} : r.lease = l => tombstone = l
        BY <1>0, <1>1 DEF Remembered, Sessional
    <2> QED BY <1>0, <1>1, <2>1, <2>2 DEF Remembered, Ended
<1>14. Ordered'
    <2>1. \A l : Below(l)' <=> Below(l)
        BY <1>0, <1>1 DEF Below, Sessional
    <2>2. hpc' = "pend" => Below(job.lease)'
        BY <1>0, <1>1 DEF Ordered, Below, Sessional
    <2>3. ASSUME apc' = "ready", lease' = nextGen
          PROVE  /\ Below(lease)'
                 /\ \A m \in Begins' : m.lease < lease'
                 /\ hpc' = "pend" => job'.lease < lease'
        <3>1. Below(lease)'
            BY <1>0, <1>1, <1>10, <2>3 DEF Below, Sessional
        <3>2. \A m \in Begins' : m.lease < lease'
            BY <1>0, <1>1, <2>3 DEF Calls, Begins
        <3>3. hpc' = "pend" => job'.lease < lease'
            BY <1>0, <1>1, <2>3 DEF Jobs
        <3> QED BY <3>1, <3>2, <3>3
    <2>4. \A m \in Begins' :
              /\ Below(m.lease)'
              /\ hpc' = "pend" => job'.lease < m.lease
              /\ \A k \in Begins' : k.conn < m.conn => k.lease < m.lease
        BY <1>0, <1>1, <2>1 DEF Ordered
    <2>5. apc' \in {"ready", "discover"} => apc' = "ready" /\ lease' = nextGen
        BY <1>0, <1>2
    <2> QED BY <2>2, <2>3, <2>4, <2>5 DEF Ordered
<1>15. Promises'
    <2>1. apc' \in {"ready", "idle"}
        BY <1>0, <1>2
    <2>2. ASSUME NEW l \in Used', Applying(l)' PROVE Safe(l)'
        <3>1. l \in Used \cup {0}
            BY <1>0, <1>1, <1>10, <2>1, <2>2 DEF Applying, Calls
        <3> QED BY <1>1, <1>3, <3>1 DEF Safe, Over
    <2>3. Promises' <=> /\ \A l \in Used' : Applying(l)' => Safe(l)'
                        /\ apc' = "clear" \/ (apc' = "undo" /\ reply' = "ok") => Unheld(lease)'
        BY DEF Promises
    <2> QED BY <2>1, <2>2, <2>3
<1> QED BY <1>4, <1>5, <1>6, <1>7, <1>8, <1>9, <1>11, <1>12, <1>13, <1>14, <1>15 DEF IInv

LEMMA StopSessionKeeps == ASSUME IInv, StopSession PROVE IInv'
<1>0. /\ Sessional /\ Applicant /\ UNCHANGED <<helper, link, app>> /\ apc \notin {"ready", "discover", "begin"}
      /\ sess = lease /\ ~held /\ reaping' = reaping \cup {<<"stop", lease>>}
      /\ UNCHANGED <<session, tombstone, nextGen, child, exitDue, lossDue, late, executed, faults>>
      /\ lease \in Used /\ lease # 0
    BY AppFacts DEF StopSession, Stop, MayStop
<1>1. UNCHANGED <<sess, appHere, held, released, recovery>>
    BY <1>0 DEF session
<1>2. Subsides
    BY <1>0, <1>1 DEF Subsides
<1>3. /\ appHere' \in BOOLEAN /\ recovery' \in BOOLEAN /\ child' \subseteq Used /\ exitDue' \subseteq Used
      /\ lossDue' \subseteq lossDue /\ faults' \in {faults, faults + 1} /\ faults' <= MaxFaults
    BY <1>0, <1>1, UsedFacts, FaultsAssumption DEF Sessional
<1>4. reaping' \subseteq (Reasons \X Used)
    BY <1>0 DEF Sessional, Reasons
<1>5. <<"loss", lease>> \notin reaping'
    BY <1>0 DEF Applicant
<1> QED BY <1>0, <1>2, <1>3, <1>4, <1>5, BrokerKeeps

LEMMA AdvanceKeeps ==
    ASSUME IInv, NEW op \in {"discover", "begin"}, NEW next \in {"begin", "apply"}, Advance(op, next),
           (op = "discover" /\ next = "begin") \/ (op = "begin" /\ next = "apply")
    PROVE  IInv'
<1>0. apc = op /\ reply # "none" /\ UNCHANGED <<lease, helper, conn, broker, faults>> /\ next \in Waiting
    BY DEF Advance, Waiting
<1>1. CASE reply = "ok" /\ Send(next) /\ UNCHANGED term
    BY <1>0, <1>1, SendKeeps
<1>2. CASE Freeze /\ UNCHANGED inbox
    BY <1>0, <1>2, FreezeKeeps DEF Waiting
<1> QED BY <1>1, <1>2 DEF Advance

LEMMA SettleKeeps == ASSUME IInv, Settle PROVE IInv'
<1>0. /\ apc \in {"apply", "beat"} /\ apc \in Waiting /\ reply # "none"
      /\ UNCHANGED <<lease, helper, inbox, conn, broker, faults>>
    BY DEF Settle, Waiting
<1>1. CASE apc' = "up" /\ reply' = "none" /\ UNCHANGED term
    <2>1. Quiet /\ term' \in BOOLEAN
        BY <1>0, <1>1, AppFacts
    <2> QED BY <1>0, <1>1, <2>1, MoveKeeps
<1>2. CASE Freeze
    BY <1>0, <1>2, FreezeKeeps
<1> QED BY <1>1, <1>2 DEF Settle

LEMMA UndoneKeeps == ASSUME IInv, Undone PROVE IInv'
<1>0. /\ apc = "undo" /\ apc \in Waiting /\ reply # "none"
      /\ UNCHANGED <<lease, helper, inbox, broker, faults>>
    BY DEF Undone, Waiting
<1>1. CASE reply = "ok" /\ apc' = "clear" /\ reply' = "none" /\ conn' = conn + 1 /\ UNCHANGED term
    <2>1. Quiet /\ term' \in BOOLEAN /\ Unheld(lease)
        BY <1>0, <1>1, AppFacts DEF Promises
    <2> QED BY <1>0, <1>1, <2>1, MoveKeeps
<1>2. CASE Freeze /\ UNCHANGED conn
    BY <1>0, <1>2, FreezeKeeps
<1> QED BY <1>1, <1>2 DEF Undone

LEMMA AppNextKeeps == ASSUME IInv, AppNext PROVE IInv'
<1>1. ASSUME Connect PROVE IInv'
    <2>1. apc = "ready" /\ Send("discover") /\ UNCHANGED <<lease, term, helper, conn, broker, faults>>
        BY <1>1 DEF Connect
    <2>2. "discover" \in Waiting
        BY DEF Waiting
    <2> QED BY <2>1, <2>2, SendKeeps
<1>2. ASSUME Heartbeat PROVE IInv'
    <2>1. apc = "up" /\ Send("beat") /\ UNCHANGED <<lease, term, helper, conn, broker, faults>>
        BY <1>2 DEF Heartbeat
    <2>2. "beat" \in Waiting
        BY DEF Waiting
    <2> QED BY <2>1, <2>2, SendKeeps
<1>3. ASSUME Rollback PROVE IInv'
    <2>1. apc \in {"up", "frozen"} /\ Send("undo") /\ UNCHANGED <<lease, term, helper, conn, broker, faults>>
        BY <1>3 DEF Rollback
    <2>2. "undo" \in Waiting
        BY DEF Waiting
    <2> QED BY <2>1, <2>2, SendKeeps
<1>4. ASSUME Discovered \/ Begun PROVE IInv'
    BY <1>4, AdvanceKeeps DEF Discovered, Begun
<1> QED BY <1>1, <1>2, <1>3, <1>4, AppStartsKeeps, StartSessionKeeps, SettleKeeps, UndoneKeeps, AbandonKeeps,
       StopSessionKeeps, SessionEndsKeeps, CallTimesOutKeeps, AppCrashesKeeps DEF AppNext

LEMMA NextKeeps == ASSUME IInv, Next PROVE IInv'
<1>1. ASSUME BrokerStep PROVE IInv'
    <2>1. UNCHANGED <<helper, link, app>>
        BY <1>1 DEF BrokerStep
    <2> QED BY <1>1, <2>1, BrokerStepKeeps, LateKeeps
<1> QED BY <1>1, HelperNextKeeps, AppNextKeeps DEF Next

LEMMA StutterKeeps == ASSUME IInv, UNCHANGED vars PROVE IInv'
<1>1. /\ UNCHANGED <<broker, faults, helper, inbox, conn, reply, apc, lease, term>> /\ Apart
      /\ Sessional /\ Applicant /\ Calls /\ Jobs /\ Ordered /\ Promises
    <2>1. UNCHANGED <<broker, faults, helper, inbox, conn, reply, apc, lease, term>>
        BY DEF vars, link, app
    <2> QED BY <2>1, AppFacts
<1>2. /\ UNCHANGED <<nextGen, lossDue, reaping, job, reg, act, ronly>> /\ Used' = Used /\ Begins' = Begins
    BY <1>1 DEF broker, helper, Used, Begins
<1>3. Applicant'
    BY <1>1, <1>2 DEF Applicant
<1>4. Calls'
    BY <1>1, <1>2 DEF Calls
<1>5. Ordered'
    BY <1>1, OrderedApart
<1>6. Promises'
    BY <1>1, <1>2, PromisesApart DEF Promises
<1> QED BY <1>1, <1>3, <1>4, <1>5, <1>6, ApartKeeps

LEMMA InitKeeps == ASSUME Init PROVE IInv
<1>0. /\ BrokerInit /\ HelperInit /\ apc = "off" /\ lease = 0 /\ term = FALSE
    BY DEF Init
<1>1. Used = {}
    BY <1>0 DEF BrokerInit, Used
<1>2. Sessional
    <2>1. nextGen \in 1..(Sessions + 1) /\ faults \in 0..MaxFaults /\ 0 \in 0..(nextGen - 1)
        BY <1>0, SessionsAssumption, FaultsAssumption DEF BrokerInit
    <2> QED BY <1>0, <1>1, <2>1 DEF BrokerInit, Sessional
<1>3. Applicant
    <2>1. 0 \in 0..(nextGen - 1) /\ conn \in Nat /\ 1 <= conn /\ conn <= faults + nextGen
        BY <1>0 DEF BrokerInit, HelperInit
    <2>2. term \in BOOLEAN
        BY <1>0
    <2> QED BY <1>0, <2>1, <2>2 DEF Applicant
<1>4. Calls
    <2>1. inbox = {} /\ conn = 1 /\ job.conn = 0 /\ reply = "none" /\ reg = 0 /\ act = 0 /\ ronly = FALSE
        BY <1>0 DEF HelperInit, NoJob, Call
    <2>2. ronly \in BOOLEAN
        BY <2>1
    <2>3. job.conn \in 0..conn /\ job.conn # conn /\ reg \in 0..conn /\ act \in 0..conn
        BY <2>1
    <2> QED BY <2>1, <2>2, <2>3 DEF Calls
<1>5. Jobs
    BY <1>0 DEF HelperInit, Jobs, HelperLabels, Unwinding, Releasing
<1>6. Journal
    BY <1>0 DEF HelperInit, Journal, WellFormed, Ended, NoRecord, Record
<1>7. Stages
    BY <1>0 DEF HelperInit, Stages, Unwinding, Releasing
<1>8. Holding
    BY <1>0, <1>1 DEF BrokerInit, HelperInit, Holding, NoRecord, Record
<1>9. Routed
    BY <1>0, SessionsAssumption DEF HelperInit, Routed
<1>10. Remembered
    BY <1>0, <1>1 DEF BrokerInit, Remembered
<1>11. Ordered
    BY <1>0 DEF HelperInit, Ordered, Begins
<1>12. Promises
    BY <1>0, <1>1 DEF Promises
<1> QED BY <1>2, <1>3, <1>4, <1>5, <1>6, <1>7, <1>8, <1>9, <1>10, <1>11, <1>12 DEF IInv

-----------------------------------------------------------------------------
(* The theorems *)

\* In every reachable state of the app, the helper and the broker the orders
\* between calls, journal, hold and routes are kept, whatever fails.
THEOREM LeaseInvariant == Spec => []IInv
<1>1. Init => IInv
    BY InitKeeps
<1>2. IInv /\ [Next]_vars => IInv'
    BY NextKeeps, StutterKeeps
<1> QED BY <1>1, <1>2, PTL DEF Spec

LEMMA RoutedUnderLease == ASSUME IInv PROVE RoutesAreUnderLease
<1>0. Sessional /\ Applicant /\ Routed /\ Promises
    BY DEF IInv
<1>1. RoutesAreHeld
    BY <1>0 DEF RoutesAreHeld, Routed
<1>2. NoReapUnderRoutes
    <2> SUFFICES ASSUME NEW w \in Reasons, NEW g \in Gens, <<w, g>> \in reaping, NEW c \in Cidrs, table[c] = g
                 PROVE  FALSE
        BY DEF NoReapUnderRoutes
    <2>1. table[c] # 0
        BY SessionsAssumption DEF Gens
    <2> QED BY <1>0, <2>1 DEF Routed
<1>3. RollbackOkIsClean
    <2> SUFFICES ASSUME apc = "clear"
                 PROVE  (\A c \in Cidrs : table[c] # lease) /\ ~(held /\ sess = lease)
        BY DEF RollbackOkIsClean
    <2>1. Unheld(lease) /\ lease # 0
        BY <1>0, LeaseUsed DEF Promises
    <2>2. ~(held /\ sess = lease)
        BY <2>1 DEF Unheld
    <2> QED BY <1>0, <2>1, <2>2 DEF Routed
<1> QED BY <1>1, <1>2, <1>3 DEF RoutesAreUnderLease

\* A route is in the kernel only while the broker holds its session, no child
\* is stopped under a route, and a rollback that succeeded left neither route
\* nor hold, for every number of sessions, CIDRs and faults (stopSession,
\* holdRoute, rollback).
THEOREM UnderLease == Spec => []RoutesAreUnderLease
BY LeaseInvariant, RoutedUnderLease, PTL

LEMMA TypesOK == ASSUME IInv PROVE TypeOK
<1>0. Sessional /\ Applicant /\ Calls /\ Jobs /\ Journal /\ Routed
    BY DEF IInv
<1>1. /\ Used \subseteq Gens /\ nextGen \in Nat /\ faults \in Nat /\ nextGen <= Sessions + 1
      /\ faults <= MaxFaults /\ conn \in Nat /\ 1 <= conn /\ conn <= faults + nextGen
    BY <1>0, UsedFacts, SessionsAssumption, FaultsAssumption DEF Sessional, Applicant
<1>2. conn \in Conns
    BY <1>1, SessionsAssumption, FaultsAssumption DEF Conns
<1>3. disk \in Records /\ mem \in Records
    <2>1. ASSUME NEW r, WellFormed(r) PROVE r \in Records
        BY <1>1, <2>1 DEF WellFormed, Records, Record
    <2> QED BY <1>0, <2>1 DEF Journal
<1>4. /\ nextGen \in 1..(Sessions + 1)
      /\ sess \in 0..(nextGen - 1) /\ lease \in 0..(nextGen - 1) /\ tombstone \in 0..(nextGen - 1)
      /\ faults \in 0..MaxFaults
    BY <1>0 DEF Sessional, Applicant
<1>5. {appHere, held, released, recovery, ronly, term} \subseteq BOOLEAN
    BY <1>0 DEF Sessional, Calls, Applicant
<1>6. /\ child \subseteq Gens /\ exitDue \subseteq Gens /\ lossDue \subseteq Gens /\ executed \subseteq Gens
      /\ reaping \subseteq (Reasons \X Gens) /\ late \subseteq ({"hold", "release"} \X Gens)
    BY <1>0, <1>1 DEF Sessional
<1>7. /\ table \in [Cidrs -> 0..Sessions] /\ reg \in 0..conn /\ act \in 0..conn /\ hpc \in HelperLabels
      /\ reply \in Answers \cup {"none", "lost"}
      /\ apc \in Waiting \cup {"off", "idle", "ready", "up", "frozen", "clear"}
    BY <1>0 DEF Routed, Calls, Jobs, Applicant
<1> QED BY <1>2, <1>3, <1>4, <1>5, <1>6, <1>7 DEF TypeOK

LEMMA Recorded == ASSUME IInv PROVE LeaseIsRecorded
<1>0. Sessional /\ Holding /\ Routed /\ Remembered
    BY DEF IInv
<1>1. RoutesAreJournaled
    BY <1>0 DEF RoutesAreJournaled, Routed, Owned
<1>2. HoldIsJournaled
    BY <1>0, UsedFacts DEF HoldIsJournaled, Holding, Sessional
<1>3. ReleaseIsRemembered
    BY <1>0 DEF ReleaseIsRemembered, Remembered
<1> QED BY <1>1, <1>2, <1>3, TypesOK DEF LeaseIsRecorded

\* The journal on disk names every route, every hold and every release that is
\* not yet forgotten, so a restarted helper can undo them, for every number of
\* sessions, CIDRs and faults (persist, retire, releaseRoute).
THEOREM RecordedLease == Spec => []LeaseIsRecorded
BY LeaseInvariant, Recorded, PTL
=============================================================================
