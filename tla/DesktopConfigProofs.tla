------------------------ MODULE DesktopConfigProofs ------------------------
(***************************************************************************)
(* Proofs about the desktop's configuration, for every set of tasks, every *)
(* list and every number of commands and faults.                           *)
(*                                                                         *)
(* The list: a change is made on a copy under the one permit and loses     *)
(* nothing that was committed; a draft belongs to the one switch under     *)
(* way.  The core: what it runs follows the generated file, the file       *)
(* follows the runtime register, and the register follows the list, each   *)
(* but for a task that is about to make it so.                             *)
(***************************************************************************)
EXTENDS DesktopConfig, SequenceTheorems, TLAPS

Names == Uids \cup SwitchTo \cup Deletable \cup {None}
             \cup {p[1] : p \in Reordered} \cup {p[2] : p \in Reordered}
Stored == Contents \cup {Missing}

Lists == [current : Uids \cup {None}, items : Seq(Uids)]
Cfgs == [uid : Uids \cup {None}, content : Stored \cup {"default"}, verge : Int]
Registers(S) == [data : S, draft : {<<>>} \cup {<<v>> : v \in S}]

Pcs == Pipeline \cup {"done", "after", "modify", "commit", "save", "saved", "check_file", "download",
                    "restore", "apply"}
Ops == {"idle", "switch", "create", "delete", "reorder", "update", "auto", "save_file",
        "patch_restart", "patch_reload", "restart", "chain"}
Outs == {None, "valid", "busy", "error", "invalid", "timeout"}
TaskRecords ==
    [op : Ops, uid : Names, pc : Pcs, arg : Names \cup Stored, refresh : BOOLEAN,
     mod : Lists, cfg : Cfgs, out : Outs]

Types ==
    /\ profiles \in Registers(Lists) /\ verge \in Registers(Int) /\ runtime \in Registers(Cfgs)
    /\ file \in [Uids -> Stored]
    /\ runFile \in Cfgs /\ core \in Cfgs
    /\ switching \in BOOLEAN /\ moved \in BOOLEAN /\ booted \in BOOLEAN
    /\ exiting \in BOOLEAN /\ clouded \in BOOLEAN
    /\ {updating, validating, lifecycle, permit} \subseteq Tasks \cup {None}
    /\ task \in [Tasks -> TaskRecords]
    /\ \A t \in Tasks : task[t].op = "idle" => task[t].pc = "done"

\* A list has its current profile, and every profile that was added, until a
\* reorder has emptied it.
Sound(p) == ~emptied => (p.current # None => p.current \in ItemsOf(p))
Kept(p) == ~exiting /\ ~emptied => kept \ late \subseteq ItemsOf(p)

\* A reorder that found one of its two profiles gone: the list is taken out.
Empties(t) == task[t].op = "reorder" /\ task[t].mod.items = <<>>

\* What the tasks work with: a command names what it may name, a change is made
\* under the permit, and it loses nothing that was committed.
Named(t) ==
    /\ task[t].op = "delete" => task[t].uid \in Deletable
    /\ task[t].op = "create" => task[t].uid \in Uids
    /\ task[t].op \in {"create", "update", "auto"} /\ task[t].pc = "modify" => task[t].arg \in Contents
    /\ task[t].op = "save_file" => task[t].uid \in Uids /\ task[t].arg \in Stored
    /\ task[t].pc = "check_file" => task[t].op = "save_file"
    /\ task[t].pc = "download" => task[t].op \in {"update", "auto"}
    /\ task[t].pc \in {"restore", "apply"} => task[t].op = "switch" /\ task[t].out # "valid"
Held(t) ==
    /\ task[t].pc \in {"commit", "saved"} => permit = t
    /\ task[t].pc = "commit" => Empties(t) \/ (Sound(task[t].mod) /\ (~moved => Kept(task[t].mod)))
    /\ task[t].pc = "commit" /\ task[t].op = "create" => task[t].uid \in ItemsOf(task[t].mod)

\* The committed list and its draft, and the draft a refused switch is about to apply.
Whole ==
    /\ Sound(profiles.data) /\ Sound(Latest(profiles))
    /\ Kept(profiles.data)
    /\ Restoring => Kept(Latest(profiles))
Listed == Whole /\ \A t \in Tasks : Named(t) /\ Held(t)

\* The one switch that is under way, and the draft it owns: the target's at first,
\* and the previous profile's once the switch is refused.
Drafting(t) == task[t].op = "switch" /\ task[t].pc \in Pipeline \cup {"after"}
Owns(t) == task[t].op = "switch" /\ task[t].pc \in Pipeline \cup {"after", "restore", "apply"}
Active(t) == Owns(t) \/ (task[t].op = "switch" /\ task[t].out = "valid")
Switches ==
    /\ \A t \in Tasks : Active(t) => switching
    /\ \A s, t \in Tasks : Active(s) /\ Active(t) => s = t
    /\ profiles.draft # <<>> => \E t \in Tasks : Owns(t)
    /\ \A t \in Tasks : task[t].op = "switch" /\ task[t].pc \in {"modify", "commit"} => task[t].out = "valid"
    /\ \A t \in Tasks : task[t].op = "switch" /\ task[t].pc = "restore" => profiles.draft = <<>>

ListInv == Types /\ Listed /\ Switches

\* Nothing has gone wrong and nothing is about to be reported as such.
Fine == ~clouded /\ \A t \in Tasks : task[t].pc = "after" => task[t].out = "valid"

\* Who is past the start of an update has the flag; a settings change that restarts
\* the core and a plain restart go without it.  No switch is being taken back.
Unflagged == {"patch_restart", "restart"}
Flagged ==
    \A t \in Tasks :
        /\ task[t].op \notin Unflagged /\ task[t].pc \in Pipeline \ {"update"} => updating = t
        /\ updating = t => task[t].op \notin Unflagged /\ task[t].pc \in Pipeline \ {"update"}
        /\ task[t].op = "patch_restart" => task[t].pc \in {"generate", "edit", "restart", "start", "after"}
        /\ task[t].op = "restart" => task[t].pc \in {"restart", "start", "after"}
        /\ task[t].pc \notin {"restore", "apply"}

\* A settings change without the flag runs beside no switch and no deletion.
Apart == \A s, t \in Tasks : task[s].op = "patch_restart" => task[t].op \notin {"switch", "delete"}

\* The core runs the Run file and the Run file is the runtime register's, but for
\* a task that is about to write or to load it.
Written ==
    /\ Latest(runtime) # NoCfg
    /\ \A t \in Tasks : task[t].pc = "edit" => task[t].cfg # NoCfg
    /\ (\A t \in Tasks : task[t].pc \notin {"validate", "check", "write", "restart"})
          => runFile.uid = Latest(runtime).uid
    /\ (\A t \in Tasks : task[t].pc \notin {"reload", "restart", "start"})
          => core = NoCfg \/ core.uid = runFile.uid

\* A switch that has not committed its choice; one whose configuration is in the
\* register; a deletion that has yet to put the new current profile there.
Settling(t) == task[t].op = "switch" /\ task[t].pc \in Pipeline \cup {"after", "modify", "commit"}
Begun(t) == Settling(t) /\ task[t].pc \notin {"update", "generate", "edit"}
Owing(t) == task[t].op = "delete" /\ task[t].refresh /\ task[t].pc \in {"save", "saved", "update", "generate", "edit"}

\* What a switch names, and what a commit will make of the list.
Pending(t) ==
    /\ Drafting(t) => profiles.draft # <<>> /\ Latest(profiles).current = task[t].uid
    /\ Settling(t) => task[t].uid \in ItemsOf(profiles.data)
Copying(t) ==
    task[t].pc = "commit" /\ ~moved /\ ~Empties(t) =>
        /\ ItemsOf(profiles.data) \ {u \in {task[t].uid} : task[t].op = "delete"} \subseteq ItemsOf(task[t].mod)
        /\ task[t].op = "switch" => task[t].mod.current = task[t].uid
        /\ task[t].op # "switch" =>
              task[t].mod.current = profiles.data.current \/ (task[t].op = "delete" /\ task[t].refresh)
Targets == \A t \in Tasks : Pending(t) /\ Copying(t)

\* During a switch the register has, or a task is about to give it, its target.
Chosen ==
    \A t \in Tasks :
        /\ Begun(t) =>
              /\ Latest(runtime).uid = task[t].uid
              /\ \A s \in Tasks : task[s].pc = "edit" => task[s].cfg.uid = task[t].uid
        /\ Settling(t) /\ task[t].pc = "edit" => task[t].cfg.uid = task[t].uid

\* Outside a switch it has the current profile, or a deletion will give it.
Resting ==
    (\A t \in Tasks : ~Settling(t)) =>
        /\ Latest(runtime).uid = profiles.data.current \/ \E t \in Tasks : Owing(t)
        /\ \A s \in Tasks : task[s].pc = "edit" =>
              task[s].cfg.uid = profiles.data.current \/ \E t \in Tasks \ {s} : Owing(t)

Good == Flagged /\ Apart /\ Written /\ Targets /\ Chosen /\ Resting
RunInv ==
    /\ ~booted => ~clouded /\ ~exiting /\ Quiet /\ profiles.draft = <<>> /\ updating = None
    /\ booted /\ Fine => ~exiting /\ Good
-----------------------------------------------------------------------------
(* The list's operations *)

LEMMA RemoveAtFacts ==
    ASSUME NEW S, NEW s \in Seq(S), NEW i \in 1..Len(s)
    PROVE  /\ RemoveAt(s, i) \in Seq(S) /\ Len(RemoveAt(s, i)) = Len(s) - 1
           /\ \A j \in 1..(Len(s) - 1) : RemoveAt(s, i)[j] = IF j < i THEN s[j] ELSE s[j + 1]
<1> DEFINE a == SubSeq(s, 1, i - 1)  b == SubSeq(s, i + 1, Len(s))
<1>1. a \in Seq(S) /\ Len(a) = i - 1 /\ \A j \in 1..(i - 1) : a[j] = s[j]
    BY SubSeqProperties
<1>2. b \in Seq(S) /\ Len(b) = Len(s) - i /\ \A j \in 1..(Len(s) - i) : b[j] = s[i + j]
    BY SubSeqProperties
<1>3. RemoveAt(s, i) = a \o b
    BY DEF RemoveAt
<1> HIDE DEF a, b
<1>4. a \o b \in Seq(S) /\ Len(a \o b) = Len(a) + Len(b)
    BY <1>1, <1>2, ConcatProperties
<1>5. Len(a \o b) = Len(s) - 1
    BY <1>1, <1>2, <1>4
<1>6. ASSUME NEW j \in 1..(Len(s) - 1) PROVE (a \o b)[j] = IF j < i THEN s[j] ELSE s[j + 1]
    <2>1. (a \o b)[j] = IF j <= Len(a) THEN a[j] ELSE b[j - Len(a)]
        BY <1>1, <1>2, ConcatProperties
    <2> QED BY <1>1, <1>2, <2>1
<1> QED BY <1>3, <1>4, <1>5, <1>6

LEMMA InsertAtFacts ==
    ASSUME NEW S, NEW s \in Seq(S), NEW i \in 1..(Len(s) + 1), NEW e \in S
    PROVE  /\ InsertAt(s, i, e) \in Seq(S) /\ Len(InsertAt(s, i, e)) = Len(s) + 1
           /\ InsertAt(s, i, e)[i] = e
           /\ \A j \in 1..Len(s) : InsertAt(s, i, e)[IF j < i THEN j ELSE j + 1] = s[j]
<1> DEFINE a == SubSeq(s, 1, i - 1)  b == SubSeq(s, i, Len(s))  c == a \o <<e>>
<1>1. a \in Seq(S) /\ Len(a) = i - 1 /\ \A j \in 1..(i - 1) : a[j] = s[j]
    BY SubSeqProperties
<1>2. b \in Seq(S) /\ Len(b) = Len(s) - i + 1 /\ \A j \in 1..(Len(s) - i + 1) : b[j] = s[i + j - 1]
    BY SubSeqProperties
<1>3. InsertAt(s, i, e) = c \o b
    BY DEF InsertAt
<1>4. c \in Seq(S) /\ Len(c) = i /\ c[i] = e /\ \A j \in 1..(i - 1) : c[j] = s[j]
    <2>1. <<e>> \in Seq(S) /\ Len(<<e>>) = 1 /\ <<e>>[1] = e
        OBVIOUS
    <2> HIDE DEF a
    <2>2. c \in Seq(S) /\ Len(c) = Len(a) + Len(<<e>>)
        BY <1>1, <2>1, ConcatProperties
    <2>3. \A j \in 1..i : c[j] = IF j <= Len(a) THEN a[j] ELSE <<e>>[j - Len(a)]
        BY <1>1, <2>1, ConcatProperties
    <2>4. i \in 1..i /\ ~(i <= Len(a)) /\ i - Len(a) = 1
        BY <1>1
    <2>5. c[i] = e
        BY <2>1, <2>3, <2>4
    <2>6. \A j \in 1..(i - 1) : c[j] = s[j]
        BY <1>1, <2>3
    <2> QED BY <1>1, <2>1, <2>2, <2>5, <2>6
<1> HIDE DEF a, b, c
<1>5. c \o b \in Seq(S) /\ Len(c \o b) = Len(c) + Len(b)
    BY <1>2, <1>4, ConcatProperties
<1>6. \A j \in 1..(Len(s) + 1) : (c \o b)[j] = IF j <= i THEN c[j] ELSE b[j - i]
    BY <1>2, <1>4, ConcatProperties
<1>7. Len(c \o b) = Len(s) + 1
    BY <1>2, <1>4, <1>5
<1>8. (c \o b)[i] = e
    BY <1>4, <1>6
<1>9. ASSUME NEW j \in 1..Len(s) PROVE (c \o b)[IF j < i THEN j ELSE j + 1] = s[j]
    <2>1. CASE j < i
        BY <1>4, <1>6, <2>1
    <2>2. CASE ~(j < i)
        <3>1. j + 1 \in 1..(Len(s) + 1) /\ ~(j + 1 <= i) /\ j + 1 - i \in 1..(Len(s) - i + 1)
              /\ i + (j + 1 - i) - 1 = j
            BY <2>2
        <3>2. (c \o b)[j + 1] = b[j + 1 - i]
            <4>1. PICK m \in 1..(Len(s) + 1) : m = j + 1
                BY <3>1
            <4>2. ~(m <= i) /\ m - i = j + 1 - i
                BY <3>1, <4>1
            <4>3. (c \o b)[m] = b[m - i]
                BY <1>6, <4>2
            <4> QED BY <4>1, <4>2, <4>3
        <3>3. b[j + 1 - i] = s[i + (j + 1 - i) - 1]
            BY <1>2, <3>1
        <3> QED BY <2>2, <3>1, <3>2, <3>3
    <2> QED BY <2>1, <2>2
<1> QED BY <1>3, <1>5, <1>7, <1>8, <1>9

LEMMA ItemsFacts ==
    ASSUME NEW p \in Lists
    PROVE  /\ p.items \in Seq(Uids) /\ DOMAIN p.items = 1..Len(p.items) /\ Len(p.items) \in Nat
           /\ \A u : u \in ItemsOf(p) <=> \E i \in 1..Len(p.items) : p.items[i] = u
           /\ ItemsOf(p) \subseteq Uids /\ p.current \in Uids \cup {None}
<1>1. p.items \in Seq(Uids) /\ p.current \in Uids \cup {None}
    BY DEF Lists
<1>2. DOMAIN p.items = 1..Len(p.items) /\ Len(p.items) \in Nat
    BY <1>1, LenProperties
<1>3. \A i \in 1..Len(p.items) : p.items[i] \in Uids
    BY <1>1, <1>2, ElementOfSeq
<1>4. \A u : u \in ItemsOf(p) <=> \E i \in 1..Len(p.items) : p.items[i] = u
    BY <1>2 DEF ItemsOf
<1> QED BY <1>1, <1>2, <1>3, <1>4

LEMMA IndexFacts ==
    ASSUME NEW p \in Lists, NEW u \in ItemsOf(p)
    PROVE  Index(p, u) \in 1..Len(p.items) /\ p.items[Index(p, u)] = u
<1>1. \E i \in DOMAIN p.items : p.items[i] = u
    BY DEF ItemsOf
<1> QED BY <1>1, ItemsFacts DEF Index

LEMMA PatchFacts ==
    ASSUME NEW p \in Lists, NEW u, Sound(p)
    PROVE  /\ PatchConfig(p, u) \in Lists /\ Sound(PatchConfig(p, u))
           /\ ItemsOf(PatchConfig(p, u)) = ItemsOf(p)
           /\ u \in ItemsOf(p) => PatchConfig(p, u).current = u
<1>1. CASE u \notin ItemsOf(p)
    BY <1>1 DEF PatchConfig
<1>2. CASE u \in ItemsOf(p)
    <2>1. u \in Uids
        BY <1>2, ItemsFacts
    <2>2. PatchConfig(p, u) = [p EXCEPT !.current = u]
        BY <1>2 DEF PatchConfig
    <2>3. PatchConfig(p, u) \in Lists
        BY <2>1, <2>2, Zenon DEF Lists
    <2>4. PatchConfig(p, u).items = p.items /\ PatchConfig(p, u).current = u
        BY <2>2 DEF Lists
    <2>5. ItemsOf(PatchConfig(p, u)) = ItemsOf(p)
        BY <2>4 DEF ItemsOf
    <2> QED BY <1>2, <2>3, <2>4, <2>5 DEF Sound
<1> QED BY <1>1, <1>2

LEMMA AppendFacts ==
    ASSUME NEW p \in Lists, NEW u \in Uids, Sound(p)
    PROVE  /\ AppendItem(p, u) \in Lists /\ Sound(AppendItem(p, u))
           /\ ItemsOf(p) \cup {u} \subseteq ItemsOf(AppendItem(p, u))
           /\ p.current # None => AppendItem(p, u).current = p.current
<1> DEFINE q == AppendItem(p, u)
<1>1. q.items = Append(p.items, u) /\ q.current = IF p.current = None THEN u ELSE p.current
    BY DEF AppendItem
<1>2. /\ p.items \in Seq(Uids) /\ Len(p.items) \in Nat /\ p.current \in Uids \cup {None}
      /\ \A x : x \in ItemsOf(p) => \E i \in 1..Len(p.items) : p.items[i] = x
    BY ItemsFacts
<1>3. /\ Append(p.items, u) \in Seq(Uids) /\ Len(Append(p.items, u)) = Len(p.items) + 1
      /\ \A i \in 1..Len(p.items) : Append(p.items, u)[i] = p.items[i]
      /\ Append(p.items, u)[Len(p.items) + 1] = u
    BY <1>2, AppendProperties
<1>4. q \in Lists
    BY <1>2, <1>3 DEF AppendItem, Lists
<1>5. \A x : x \in ItemsOf(q) <=> \E i \in 1..Len(q.items) : q.items[i] = x
    <2> HIDE DEF q
    <2> QED BY <1>4, ItemsFacts
<1>6. ItemsOf(p) \cup {u} \subseteq ItemsOf(q)
    <2> HIDE DEF q
    <2>1. u \in ItemsOf(q)
        BY <1>1, <1>2, <1>3, <1>5
    <2>2. ASSUME NEW x \in ItemsOf(p) PROVE x \in ItemsOf(q)
        <3>1. PICK i \in 1..Len(p.items) : p.items[i] = x
            BY <1>2
        <3> QED BY <1>1, <1>2, <1>3, <1>5, <3>1
    <2> QED BY <2>1, <2>2
<1> HIDE DEF q
<1>7. Sound(q) /\ (p.current # None => q.current = p.current)
    BY <1>1, <1>6 DEF Sound
<1> QED BY <1>4, <1>6, <1>7 DEF q

LEMMA DeleteFacts ==
    ASSUME NEW p \in Lists, NEW u \in ItemsOf(p), Sound(p)
    PROVE  /\ DeleteItem(p, u) \in Lists /\ Sound(DeleteItem(p, u))
           /\ ItemsOf(p) \ {u} \subseteq ItemsOf(DeleteItem(p, u))
           /\ p.current \notin {u, None} => DeleteItem(p, u).current = p.current
<1> DEFINE k == Index(p, u)  rest == RemoveAt(p.items, k)  q == DeleteItem(p, u)
<1>1. k \in 1..Len(p.items) /\ p.items[k] = u
    BY IndexFacts
<1>2. /\ p.items \in Seq(Uids) /\ Len(p.items) \in Nat /\ p.current \in Uids \cup {None}
      /\ \A x : x \in ItemsOf(p) => \E i \in 1..Len(p.items) : p.items[i] = x
    BY ItemsFacts
<1>3. /\ rest \in Seq(Uids) /\ Len(rest) = Len(p.items) - 1
      /\ \A j \in 1..(Len(p.items) - 1) : rest[j] = IF j < k THEN p.items[j] ELSE p.items[j + 1]
    <2> HIDE DEF k
    <2> QED BY <1>1, <1>2, RemoveAtFacts
<1>4. /\ q.items = rest
      /\ q.current = IF p.current \in {u, None} THEN IF rest = <<>> THEN None ELSE rest[1] ELSE p.current
    BY DEF DeleteItem
<1>5. rest # <<>> => 1 \in 1..Len(rest) /\ rest[1] \in Uids
    <2> HIDE DEF rest
    <2>1. rest # <<>> => Len(rest) # 0
        BY <1>3, EmptySeq
    <2>2. rest # <<>> => 1 \in 1..Len(rest)
        BY <1>1, <1>2, <1>3, <2>1
    <2> QED BY <1>3, <2>2, ElementOfSeq
<1>6. q \in Lists
    <2>1. q = [current |-> IF p.current \in {u, None} THEN IF rest = <<>> THEN None ELSE rest[1] ELSE p.current,
               items |-> rest]
        BY DEF DeleteItem
    <2> HIDE DEF q, rest
    <2> QED BY <1>2, <1>3, <1>5, <2>1 DEF Lists
<1> HIDE DEF k, q, rest
<1>7. \A x : x \in ItemsOf(q) <=> \E i \in 1..Len(q.items) : q.items[i] = x
    BY <1>6, ItemsFacts
<1>8. ItemsOf(p) \ {u} \subseteq ItemsOf(q)
    <2>1. ASSUME NEW x \in ItemsOf(p), x # u PROVE x \in ItemsOf(q)
        <3>1. PICK i \in 1..Len(p.items) : p.items[i] = x
            BY <1>2
        <3>2. CASE i < k
            BY <1>1, <1>2, <1>3, <1>4, <1>7, <3>1, <3>2
        <3>3. CASE i > k
            <4>1. i - 1 \in 1..(Len(p.items) - 1) /\ ~(i - 1 < k) /\ i - 1 + 1 = i
                BY <1>1, <1>2, <3>3
            <4>2. rest[i - 1] = x
                BY <1>3, <3>1, <4>1
            <4> QED BY <1>3, <1>4, <1>7, <4>1, <4>2
        <3> QED BY <1>1, <1>2, <2>1, <3>1, <3>2, <3>3
    <2> QED BY <2>1
<1>9. ~emptied => (q.current # None => q.current \in ItemsOf(q))
    <2>1. CASE p.current \in {u, None}
        BY <1>4, <1>5, <1>7, <2>1
    <2>2. CASE p.current \notin {u, None}
        BY <1>4, <1>8, <2>2 DEF Sound
    <2> QED BY <2>1, <2>2
<1>10. Sound(q)
    BY <1>8, <1>9 DEF Sound
<1>11. p.current \notin {u, None} => q.current = p.current
    BY <1>4
<1> QED BY <1>6, <1>8, <1>10, <1>11 DEF q

LEMMA ReorderFacts ==
    ASSUME NEW p \in Lists, NEW x, NEW y, {x, y} \subseteq ItemsOf(p), Sound(p)
    PROVE  /\ Reorder(p, x, y) \in Lists /\ Sound(Reorder(p, x, y))
           /\ ItemsOf(p) \subseteq ItemsOf(Reorder(p, x, y)) /\ Reorder(p, x, y).current = p.current
<1> DEFINE k == Index(p, x)  n == Index(p, y)  rest == RemoveAt(p.items, k)  all == InsertAt(rest, n, x)
           q == Reorder(p, x, y)
<1>1. k \in 1..Len(p.items) /\ p.items[k] = x /\ n \in 1..Len(p.items)
    BY IndexFacts
<1>2. /\ p.items \in Seq(Uids) /\ Len(p.items) \in Nat /\ x \in Uids
      /\ \A z : z \in ItemsOf(p) => \E i \in 1..Len(p.items) : p.items[i] = z
    BY ItemsFacts
<1>3. /\ rest \in Seq(Uids) /\ Len(rest) = Len(p.items) - 1
      /\ \A j \in 1..(Len(p.items) - 1) : rest[j] = IF j < k THEN p.items[j] ELSE p.items[j + 1]
    <2> HIDE DEF k
    <2> QED BY <1>1, <1>2, RemoveAtFacts
<1>4. /\ all \in Seq(Uids) /\ Len(all) = Len(rest) + 1 /\ all[n] = x
      /\ \A j \in 1..Len(rest) : all[IF j < n THEN j ELSE j + 1] = rest[j]
    <2> HIDE DEF n, rest
    <2>1. n \in 1..(Len(rest) + 1)
        BY <1>1, <1>2, <1>3
    <2> QED BY <1>2, <1>3, <2>1, InsertAtFacts
<1>5. q = [p EXCEPT !.items = all]
    BY DEF Reorder
<1> HIDE DEF k, n, q, rest, all
<1>6. q \in Lists
    BY <1>4, <1>5, Zenon DEF Lists
<1>7. q.items = all /\ q.current = p.current
    BY <1>5 DEF Lists
<1>8. \A z : z \in ItemsOf(q) <=> \E i \in 1..Len(q.items) : q.items[i] = z
    BY <1>6, ItemsFacts
<1>9. Len(all) = Len(p.items)
    BY <1>1, <1>2, <1>3, <1>4
<1>10. ASSUME NEW j \in 1..(Len(p.items) - 1) PROVE rest[j] \in ItemsOf(q)
    <2>1. (IF j < n THEN j ELSE j + 1) \in 1..Len(all)
        BY <1>2, <1>9
    <2> QED BY <1>3, <1>4, <1>7, <1>8, <2>1
<1>11. ItemsOf(p) \subseteq ItemsOf(q)
    <2>1. ASSUME NEW z \in ItemsOf(p) PROVE z \in ItemsOf(q)
        <3>1. PICK i \in 1..Len(p.items) : p.items[i] = z
            BY <1>2
        <3>2. CASE i = k
            BY <1>1, <1>4, <1>7, <1>8, <1>9, <3>1, <3>2
        <3>3. CASE i < k
            <4>1. i \in 1..(Len(p.items) - 1) /\ rest[i] = z
                BY <1>1, <1>2, <1>3, <3>1, <3>3
            <4> QED BY <1>10, <4>1
        <3>4. CASE i > k
            <4>1. i - 1 \in 1..(Len(p.items) - 1) /\ ~(i - 1 < k) /\ i - 1 + 1 = i
                BY <1>1, <1>2, <3>4
            <4>2. rest[i - 1] = z
                BY <1>3, <3>1, <4>1
            <4> QED BY <1>10, <4>1, <4>2
        <3> QED BY <1>1, <1>2, <3>1, <3>2, <3>3, <3>4
    <2> QED BY <2>1
<1>12. Sound(q)
    BY <1>7, <1>11 DEF Sound
<1> QED BY <1>6, <1>7, <1>11, <1>12 DEF q
LEMMA ReorderEmpties ==
    ASSUME NEW p \in Lists, NEW x, NEW y, ~({x, y} \subseteq ItemsOf(p))
    PROVE  Reorder(p, x, y) \in Lists /\ Reorder(p, x, y).items = <<>> /\ Reorder(p, x, y).current = p.current
<1>1. Reorder(p, x, y) = [p EXCEPT !.items = <<>>] /\ <<>> \in Seq(Uids)
    BY DEF Reorder
<1>2. Reorder(p, x, y) \in Lists
    BY <1>1, Zenon DEF Lists
<1> QED BY <1>1, <1>2 DEF Lists
-----------------------------------------------------------------------------
(* The steps of a task *)

\* Only task t moves.
Moves(t) == task' \in [Tasks -> TaskRecords] /\ \A s \in Tasks \ {t} : task'[s] = task[s]

\* It goes on with the same command.
GoesOn(t) ==
    /\ task'[t].op = task[t].op /\ task'[t].uid = task[t].uid /\ task'[t].arg = task[t].arg
    /\ task'[t].refresh = task[t].refresh /\ task'[t].mod = task[t].mod

LEMMA Replaced ==
    ASSUME Types, NEW t \in Tasks, NEW r \in TaskRecords, task' = [task EXCEPT ![t] = r]
    PROVE  Moves(t) /\ task'[t] = r
<1>1. task \in [Tasks -> TaskRecords]
    BY DEF Types
<1>2. task' \in [Tasks -> TaskRecords] /\ task'[t] = r /\ \A s \in Tasks \ {t} : task'[s] = task[s]
    BY <1>1
<1> QED BY <1>2 DEF Moves

LEMMA GotoFacts ==
    ASSUME Types, NEW t \in Tasks, NEW pc \in Pcs, Goto(t, pc)
    PROVE  /\ Moves(t) /\ GoesOn(t) /\ task'[t].pc = pc
           /\ task'[t].cfg = task[t].cfg /\ task'[t].out = task[t].out
<1>1. task[t] \in TaskRecords
    BY DEF Types
<1>2. PICK r : r = [task[t] EXCEPT !.pc = pc]
    OBVIOUS
<1>3. r \in TaskRecords
    BY <1>1, <1>2, Zenon DEF TaskRecords
<1>4. task' = [task EXCEPT ![t] = r]
    BY <1>2 DEF Goto
<1>5. Moves(t) /\ task'[t] = r
    BY <1>3, <1>4, Replaced
<1>6. /\ r.op = task[t].op /\ r.uid = task[t].uid /\ r.arg = task[t].arg /\ r.refresh = task[t].refresh
      /\ r.mod = task[t].mod /\ r.pc = pc /\ r.cfg = task[t].cfg /\ r.out = task[t].out
    BY <1>1, <1>2 DEF TaskRecords
<1> QED BY <1>5, <1>6 DEF GoesOn

LEMMA AnsweredFacts ==
    ASSUME Types, NEW t \in Tasks, NEW out \in Outs, Answered(t, out)
    PROVE  /\ Moves(t) /\ GoesOn(t) /\ task'[t].pc = "after"
           /\ task'[t].cfg = task[t].cfg /\ task'[t].out = out
<1>1. task[t] \in TaskRecords /\ "after" \in Pcs
    BY DEF Types, Pcs
<1>2. PICK r : r = [task[t] EXCEPT !.pc = "after", !.out = out]
    OBVIOUS
<1>3. r \in TaskRecords
    BY <1>1, <1>2, Zenon DEF TaskRecords
<1>4. task' = [task EXCEPT ![t] = r]
    <2>1. task \in [Tasks -> TaskRecords]
        BY DEF Types
    <2> QED BY <1>2, <2>1 DEF Answered
<1>5. Moves(t) /\ task'[t] = r
    BY <1>3, <1>4, Replaced
<1>6. /\ r.op = task[t].op /\ r.uid = task[t].uid /\ r.arg = task[t].arg /\ r.refresh = task[t].refresh
      /\ r.mod = task[t].mod /\ r.pc = "after" /\ r.cfg = task[t].cfg /\ r.out = out
    BY <1>1, <1>2 DEF TaskRecords
<1> QED BY <1>5, <1>6 DEF GoesOn

LEMMA ConfiguredFacts ==
    ASSUME Types, NEW t \in Tasks, NEW pc \in Pcs, NEW c \in Cfgs,
           task' = [task EXCEPT ![t].cfg = c, ![t].pc = pc]
    PROVE  /\ Moves(t) /\ GoesOn(t) /\ task'[t].pc = pc
           /\ task'[t].cfg = c /\ task'[t].out = task[t].out
<1>1. task[t] \in TaskRecords
    BY DEF Types
<1>2. PICK r : r = [task[t] EXCEPT !.cfg = c, !.pc = pc]
    OBVIOUS
<1>3. r \in TaskRecords
    BY <1>1, <1>2, Zenon DEF TaskRecords
<1>4. task' = [task EXCEPT ![t] = r]
    <2>1. task \in [Tasks -> TaskRecords]
        BY DEF Types
    <2> QED BY <1>2, <2>1
<1>5. Moves(t) /\ task'[t] = r
    BY <1>3, <1>4, Replaced
<1>6. /\ r.op = task[t].op /\ r.uid = task[t].uid /\ r.arg = task[t].arg /\ r.refresh = task[t].refresh
      /\ r.mod = task[t].mod /\ r.pc = pc /\ r.cfg = c /\ r.out = task[t].out
    BY <1>1, <1>2 DEF TaskRecords
<1> QED BY <1>5, <1>6 DEF GoesOn

LEMMA NoCfgTypes == NoCfg \in Cfgs /\ None \in Names /\ None \in Outs /\ NoP \in Lists
<1>1. <<>> \in Seq(Uids)
    OBVIOUS
<1> QED BY <1>1 DEF NoCfg, Cfg, Cfgs, Names, Outs, NoP, Lists, Stored

Starts(t, op, u, pc, arg) == task' = [task EXCEPT ![t] = Task(op, u, pc, arg)]

LEMMA GivenTask ==
    ASSUME Types, NEW t \in Tasks, NEW op \in Ops, NEW u \in Names, NEW pc \in Pcs,
           NEW arg \in Names \cup Stored, Starts(t, op, u, pc, arg)
    PROVE  /\ Moves(t) /\ task'[t].op = op /\ task'[t].uid = u /\ task'[t].pc = pc
           /\ task'[t].arg = arg /\ task'[t].refresh = FALSE /\ task'[t].mod = NoP
           /\ task'[t].out = None /\ task'[t].cfg = NoCfg
<1>1. Task(op, u, pc, arg) \in TaskRecords
    BY NoCfgTypes DEF Task, TaskRecords
<1>2. Moves(t) /\ task'[t] = Task(op, u, pc, arg)
    BY <1>1, Replaced DEF Starts
<1> QED BY <1>2 DEF Task

Begins(t, op, u, pc, arg, x) == task' = [task EXCEPT ![t] = [Task(op, u, pc, arg) EXCEPT !.refresh = x = u]]

LEMMA GivenRefreshing ==
    ASSUME Types, NEW t \in Tasks, NEW op \in Ops, NEW u \in Names, NEW pc \in Pcs,
           NEW arg \in Names \cup Stored, NEW x, Begins(t, op, u, pc, arg, x)
    PROVE  /\ Moves(t) /\ task'[t].op = op /\ task'[t].uid = u /\ task'[t].pc = pc
           /\ task'[t].arg = arg /\ task'[t].out = None
<1>1. PICK y \in TaskRecords : y = Task(op, u, pc, arg)
    BY NoCfgTypes DEF Task, TaskRecords
<1>2. PICK r : r = [y EXCEPT !.refresh = x = u]
    OBVIOUS
<1>3. r \in TaskRecords
    <2>1. (x = u) \in BOOLEAN
        OBVIOUS
    <2> QED BY <1>1, <1>2, <2>1, Zenon DEF TaskRecords
<1>4. task' = [task EXCEPT ![t] = r]
    BY <1>1, <1>2, Zenon DEF Begins
<1>5. Moves(t) /\ task'[t] = r
    BY <1>3, <1>4, Replaced
<1>6. r.op = y.op /\ r.uid = y.uid /\ r.pc = y.pc /\ r.arg = y.arg /\ r.out = y.out
    BY <1>1, <1>2 DEF TaskRecords
<1> QED BY <1>1, <1>5, <1>6 DEF Task

LEMMA EndedFacts ==
    ASSUME Types, NEW t \in Tasks, Ended(t)
    PROVE  Moves(t) /\ task'[t].op = "idle" /\ task'[t].pc = "done" /\ task'[t].out = None
<1>1. IdleTask \in TaskRecords
    BY NoCfgTypes DEF IdleTask, Task, TaskRecords, Ops, Pcs
<1>2. Moves(t) /\ task'[t] = IdleTask
    BY <1>1, Replaced DEF Ended
<1> QED BY <1>2 DEF IdleTask, Task

LEMMA LatestFacts ==
    ASSUME NEW S, NEW r \in Registers(S)
    PROVE  /\ Latest(r) \in S /\ r.data \in S
           /\ r.draft = <<>> => Latest(r) = r.data
           /\ Discard(r) \in Registers(S) /\ Apply(r) \in Registers(S)
           /\ Discard(r).data = r.data /\ Discard(r).draft = <<>> /\ Latest(Discard(r)) = r.data
           /\ Apply(r).data = Latest(r) /\ Apply(r).draft = <<>> /\ Latest(Apply(r)) = Latest(r)
<1>1. r.data \in S /\ (r.draft = <<>> \/ \E v \in S : r.draft = <<v>>)
    BY DEF Registers
<1>2. Latest(r) \in S /\ (r.draft = <<>> => Latest(r) = r.data)
    BY <1>1 DEF Latest
<1>3. Discard(r) \in Registers(S) /\ Apply(r) \in Registers(S)
    BY <1>1, <1>2 DEF Registers, Discard, Apply
<1> QED BY <1>1, <1>2, <1>3 DEF Latest, Discard, Apply

LEMMA EditFacts ==
    ASSUME NEW S, NEW r \in Registers(S), NEW v \in S
    PROVE  /\ EditDraft(r, v) \in Registers(S) /\ EditDraft(r, v).data = r.data
           /\ EditDraft(r, v).draft # <<>> /\ Latest(EditDraft(r, v)) = v
           /\ New(v) \in Registers(S) /\ New(v).data = v /\ New(v).draft = <<>> /\ Latest(New(v)) = v
<1>1. r.data \in S
    BY DEF Registers
<1> QED BY <1>1 DEF Registers, EditDraft, New, Latest
-----------------------------------------------------------------------------
(* The list stays sound *)

LEMMA ListInit == Init => ListInv
<1> SUFFICES ASSUME Init PROVE ListInv
    OBVIOUS
<1>1. InitialItems \in Seq(Uids) /\ InitialItems # <<>>
    BY ItemsAssumption
<1>2. 1 \in DOMAIN InitialItems /\ InitialItems[1] \in Uids
    <2>1. Len(InitialItems) # 0 /\ Len(InitialItems) \in Nat /\ DOMAIN InitialItems = 1..Len(InitialItems)
        BY <1>1, EmptySeq, LenProperties
    <2>2. 1 \in 1..Len(InitialItems)
        BY <2>1
    <2> QED BY <1>1, <2>1, <2>2, ElementOfSeq
<1>3. PICK p \in Lists : p = saved
    BY <1>1, <1>2 DEF Init, Lists
<1>4. p.current = InitialItems[1] /\ p.items = InitialItems
    BY <1>3 DEF Init
<1>5. ItemsOf(p) = {InitialItems[i] : i \in DOMAIN InitialItems}
    BY <1>4 DEF ItemsOf
<1>6. Sound(p)
    BY <1>2, <1>4, <1>5 DEF Sound
<1>7. /\ profiles \in Registers(Lists) /\ profiles.data = p /\ profiles.draft = <<>> /\ Latest(profiles) = p
      /\ verge \in Registers(Int) /\ runtime \in Registers(Cfgs)
    <2>1. profiles = New(p) /\ verge = New(0) /\ runtime = New(NoCfg)
        BY <1>3 DEF Init
    <2> QED BY <1>3, <2>1, NoCfgTypes DEF New, Registers, Latest
<1>8. file \in [Uids -> Stored]
    <2>1. PICK c \in InitialContents :
              file = [u \in Uids |-> IF u = InitialItems[1] THEN c
                                      ELSE IF u \in NewUids THEN Missing ELSE "v1"]
        BY Zenon DEF Init
    <2>2. c \in Stored /\ Missing \in Stored /\ "v1" \in Stored
        BY ContentsAssumption DEF Stored, Contents
    <2> QED BY <2>1, <2>2
<1>9. IdleTask \in TaskRecords /\ IdleTask.op = "idle" /\ IdleTask.pc = "done"
    BY NoCfgTypes DEF IdleTask, Task, TaskRecords, Ops, Pcs
<1>10. \A t \in Tasks : task[t] = IdleTask
    BY DEF Init
<1>11. Types
    BY <1>7, <1>8, <1>9, <1>10, NoCfgTypes DEF Types, Init
<1>12. Listed
    <2>1. Whole
        BY <1>5, <1>6, <1>7 DEF Whole, Kept, Init, Restoring, At
    <2> QED BY <1>9, <1>10, <2>1 DEF Listed, Named, Held
<1>13. Switches
    BY <1>7, <1>9, <1>10 DEF Switches, Active, Owns, Drafting
<1> QED BY <1>11, <1>12, <1>13 DEF ListInv

LEMMA RestoringKept ==
    ASSUME NEW t \in Tasks, Moves(t), task'[t].pc # "apply"
    PROVE  Restoring' => Restoring
BY DEF Restoring, At, Moves

\* The list stays as it is, and the draft too, or is dropped.
LEMMA WholeKept ==
    ASSUME Whole, UNCHANGED <<exiting, late, emptied>>, kept' \subseteq kept, profiles'.data = profiles.data,
           \/ profiles'.draft = <<>>
           \/ profiles'.draft = profiles.draft /\ (Restoring' => Restoring)
    PROVE  Whole'
<1>1. /\ ItemsOf(profiles.data)' = ItemsOf(profiles.data)
      /\ Latest(profiles)' = Latest(profiles) \/ Latest(profiles)' = profiles.data
    BY DEF ItemsOf, Latest
<1>2. Sound(profiles.data)' /\ Kept(profiles.data)'
    BY <1>1 DEF Whole, Sound, Kept
<1>3. CASE Latest(profiles)' = profiles.data
    BY <1>1, <1>2, <1>3 DEF Whole, Sound, Kept, ItemsOf
<1>4. CASE Latest(profiles)' = Latest(profiles) /\ (Restoring' => Restoring)
    BY <1>1, <1>2, <1>4 DEF Whole, Sound, Kept, ItemsOf
<1> QED BY <1>1, <1>3, <1>4 DEF Latest

\* A step of the update pipeline, or of the restart, touches neither list nor switch.
LEMMA PipelineKeeps ==
    ASSUME ListInv, NEW t \in Tasks, task[t].pc \in Pipeline, Moves(t), GoesOn(t),
           task'[t].pc \in Pipeline \cup {"after"},
           UNCHANGED <<profiles, switching, permit, moved, exiting, kept, late, emptied>>
    PROVE  Listed' /\ Switches'
<1>0. Types /\ Listed /\ Switches
    BY DEF ListInv
<1>1. {"commit", "saved", "modify", "check_file", "download", "restore", "apply"} \cap (Pipeline \cup {"after"}) = {}
    BY DEF Pipeline
<1>2. Listed'
    <2>1. Whole'
        <3>1. Restoring' => Restoring
            BY <1>1, RestoringKept
        <3> QED BY <1>0, <3>1, WholeKept DEF Listed
    <2>2. ASSUME NEW s \in Tasks PROVE Named(s)' /\ Held(s)'
        <3>1. CASE s = t
            BY <1>0, <1>1, <3>1 DEF Listed, Named, Held, GoesOn
        <3>2. CASE s # t
            BY <1>0, <3>2 DEF Listed, Named, Held, Moves, Sound, Kept, Empties, ItemsOf
        <3> QED BY <3>1, <3>2
    <2> QED BY <2>1, <2>2 DEF Listed
<1>3. (Owns(t)' <=> Owns(t)) /\ (Active(t)' <=> Active(t))
    BY <1>1 DEF Owns, Active, GoesOn
<1>4. \A s \in Tasks : (Owns(s)' <=> Owns(s)) /\ (Active(s)' <=> Active(s))
    BY <1>3 DEF Owns, Active, Moves
<1>5. /\ \A s \in Tasks : task'[s].op = "switch" /\ task'[s].pc \in {"modify", "commit"} => task'[s].out = "valid"
      /\ \A s \in Tasks : task'[s].op = "switch" /\ task'[s].pc = "restore" => profiles.draft = <<>>
    BY <1>0, <1>1 DEF Switches, Moves
<1>6. Switches'
    BY <1>0, <1>4, <1>5 DEF Switches
<1> QED BY <1>2, <1>6
-----------------------------------------------------------------------------
(* The steps of an update and of a restart *)

\* A step that goes on in the pipeline, or is answered with a failure.
Doomed(t) == task[t].pc = "after" /\ task[t].out # "valid"
Works(t, from, to) == Moves(t) /\ GoesOn(t) /\ task[t].pc = from /\ task'[t].pc = to /\ task'[t].cfg = task[t].cfg
Fails(t, from) == Moves(t) /\ GoesOn(t) /\ task[t].pc = from /\ Doomed(t)'

LEMMA GotoWorks ==
    ASSUME Types, NEW t \in Tasks, NEW from, At(t, from), NEW to \in Pipeline, Goto(t, to)
    PROVE  Works(t, from, to)
<1>1. to \in Pcs
    BY DEF Pcs
<1> QED BY <1>1, GotoFacts DEF Works, At

LEMMA AnsweredFails ==
    ASSUME Types, NEW t \in Tasks, NEW from, At(t, from), NEW out \in Outs \ {"valid"}, Answered(t, out)
    PROVE  Fails(t, from)
BY AnsweredFacts DEF Fails, Doomed, At

LEMMA AnsweredWorks ==
    ASSUME Types, NEW t \in Tasks, NEW from, At(t, from), Answered(t, "valid")
    PROVE  Works(t, from, "after") /\ task'[t].out = "valid"
<1>1. "valid" \in Outs
    BY DEF Outs
<1> QED BY <1>1, AnsweredFacts DEF Works, At

LEMMA ReleaseTypes ==
    ASSUME NEW t \in Tasks, NEW owner \in Tasks \cup {None}
    PROVE  Release(owner, t) \in Tasks \cup {None} /\ (owner # t => Release(owner, t) = owner)
BY DEF Release

LEMMA FileConfigFacts ==
    ASSUME Types
    PROVE  FileConfig \in Cfgs /\ (Latest(runtime) # NoCfg => FileConfig = Latest(runtime))
BY LatestFacts DEF Types, FileConfig

LEMMA GeneratedFacts ==
    ASSUME Types
    PROVE  /\ Generated \in Cfgs /\ Generated.uid = Latest(profiles).current
           /\ CurrentContent # Missing => Generated # NoCfg
<1>1. Latest(profiles) \in Lists /\ Latest(verge) \in Int
    BY LatestFacts DEF Types
<1>2. Latest(profiles).current \in Uids \cup {None} /\ ItemsOf(Latest(profiles)) \subseteq Uids
    BY <1>1, ItemsFacts
<1>3. CurrentContent \in Stored \cup {"default"}
    BY <1>2 DEF CurrentContent, Types, Stored
<1>4. Generated.content = CurrentContent /\ NoCfg.content = Missing
    BY DEF Generated, NoCfg, Cfg
<1>5. Generated \in Cfgs /\ Generated.uid = Latest(profiles).current
    BY <1>1, <1>2, <1>3 DEF Generated, Cfg, Cfgs
<1> QED BY <1>4, <1>5

\* The rest of the type invariant follows a task's step.
LEMMA TypesKept ==
    ASSUME Types, NEW t \in Tasks, Moves(t), task'[t].op = "idle" => task'[t].pc = "done",
           profiles' \in Registers(Lists), verge' \in Registers(Int), runtime' \in Registers(Cfgs),
           file' \in [Uids -> Stored], runFile' \in Cfgs, core' \in Cfgs, switching' \in BOOLEAN,
           moved' \in BOOLEAN, booted' \in BOOLEAN, exiting' \in BOOLEAN, clouded' \in BOOLEAN,
           updating' \in Tasks \cup {None}, validating' \in Tasks \cup {None},
           lifecycle' \in Tasks \cup {None}, permit' \in Tasks \cup {None}
    PROVE  Types'
BY DEF Types, Moves

\* A task on its way through the pipeline is given to a command.
LEMMA NotIdle ==
    ASSUME Types, NEW t \in Tasks, task[t].pc # "done"
    PROVE  task[t].op # "idle"
BY DEF Types

\* What every step of the pipeline leaves alone.
Rest == <<profiles, verge, file, switching, permit, moved, booted, exiting, kept, late, emptied>>

LEMMA PipelineListed ==
    ASSUME ListInv, NEW t \in Tasks, task[t].pc \in Pipeline, Moves(t), GoesOn(t),
           task'[t].pc \in Pipeline \cup {"after"}, UNCHANGED Rest,
           runtime' \in Registers(Cfgs), runFile' \in Cfgs, core' \in Cfgs, clouded' \in BOOLEAN,
           updating' \in Tasks \cup {None}, validating' \in Tasks \cup {None}, lifecycle' \in Tasks \cup {None}
    PROVE  ListInv'
<1>0. Types /\ UNCHANGED <<profiles, verge, file, switching, permit, moved, booted, exiting, kept, late, emptied>>
    BY DEF ListInv, Rest
<1>1. task[t].op # "idle"
    BY <1>0, NotIdle DEF Pipeline
<1>2. task'[t].op # "idle"
    BY <1>1 DEF GoesOn
<1>3. /\ profiles' \in Registers(Lists) /\ verge' \in Registers(Int) /\ file' \in [Uids -> Stored]
      /\ switching' \in BOOLEAN /\ moved' \in BOOLEAN /\ booted' \in BOOLEAN /\ exiting' \in BOOLEAN
      /\ permit' \in Tasks \cup {None}
    BY <1>0 DEF Types
<1>4. Types'
    BY <1>0, <1>2, <1>3, TypesKept
<1>5. Listed' /\ Switches'
    BY <1>0, PipelineKeeps
<1> QED BY <1>4, <1>5 DEF ListInv

\* The updating flag, the validator's and the lifecycle lock change hands, the
\* registers change values, and no more than that.
Handed ==
    /\ runtime' \in Registers(Cfgs) /\ runFile' \in Cfgs /\ core' \in Cfgs /\ clouded' \in BOOLEAN
    /\ updating' \in Tasks \cup {None} /\ validating' \in Tasks \cup {None} /\ lifecycle' \in Tasks \cup {None}
    /\ clouded => clouded'
    /\ UNCHANGED Rest

LEMMA HandedSame ==
    ASSUME Types
    PROVE  /\ runtime \in Registers(Cfgs) /\ Discard(runtime) \in Registers(Cfgs)
           /\ Apply(runtime) \in Registers(Cfgs) /\ runFile \in Cfgs /\ core \in Cfgs
           /\ NoCfg \in Cfgs /\ FileConfig \in Cfgs
           /\ clouded \in BOOLEAN /\ updating \in Tasks \cup {None} /\ validating \in Tasks \cup {None}
           /\ lifecycle \in Tasks \cup {None}
           /\ \A t \in Tasks : Release(updating, t) \in Tasks \cup {None}
<1>1. Discard(runtime) \in Registers(Cfgs) /\ Apply(runtime) \in Registers(Cfgs)
    BY LatestFacts DEF Types
<1>2. updating \in Tasks \cup {None}
    BY DEF Types
<1>3. \A t \in Tasks : Release(updating, t) \in Tasks \cup {None}
    BY <1>2, ReleaseTypes
<1> QED BY <1>1, <1>3, NoCfgTypes, FileConfigFacts DEF Types

LEMMA UpdateStartFacts ==
    ASSUME Types, NEW t \in Tasks, UpdateStart(t)
    PROVE  /\ Handed /\ UNCHANGED <<runtime, runFile, core>>
           /\ \/ Fails(t, "update") /\ updating' = updating
              \/ Works(t, "update", "generate") /\ updating = None /\ updating' = t
<1>1. At(t, "update") /\ "generate" \in Pipeline /\ {"error", "busy"} \subseteq Outs \ {"valid"}
    BY DEF UpdateStart, Pipeline, Outs
<1>2. Handed /\ UNCHANGED <<runtime, runFile, core>>
    BY HandedSame DEF UpdateStart, Handed, Rest, shared, past
<1> QED BY <1>1, <1>2, GotoWorks, AnsweredFails DEF UpdateStart

LEMMA GenerateFacts ==
    ASSUME Types, NEW t \in Tasks, Generate(t)
    PROVE  /\ Handed /\ UNCHANGED <<runFile, core>>
           /\ \/ Fails(t, "generate") /\ updating' = Release(updating, t)
              \/ /\ Moves(t) /\ GoesOn(t) /\ task[t].pc = "generate" /\ task'[t].pc = "edit"
                 /\ task'[t].cfg.uid = Latest(profiles).current /\ task'[t].cfg # NoCfg
                 /\ UNCHANGED <<runtime, updating>>
                 /\ \A s \in Tasks \ {t} :
                       task[s].op = "switch" /\ task[s].pc \in {"modify", "commit"} => clouded'
<1>1. At(t, "generate") /\ "edit" \in Pcs /\ "invalid" \in Outs \ {"valid"}
    BY DEF Generate, Pcs, Pipeline, Outs
<1>2. Handed /\ UNCHANGED <<runFile, core>>
    BY HandedSame DEF Generate, Handed, Rest, shared, past
<1>3. PICK c \in Cfgs : c = Generated
    BY GeneratedFacts
<1>4. CASE /\ CurrentContent # Missing /\ UNCHANGED <<runtime, updating>>
           /\ task' = [task EXCEPT ![t].cfg = Generated, ![t].pc = "edit"]
    <2>0. task' = [task EXCEPT ![t].cfg = c, ![t].pc = "edit"]
        BY <1>3, <1>4, Zenon
    <2>1. Moves(t) /\ GoesOn(t) /\ task'[t].pc = "edit" /\ task'[t].cfg = c
        BY <1>1, <2>0, ConfiguredFacts
    <2>2. \A s \in Tasks \ {t} : task[s].op = "switch" /\ task[s].pc \in {"modify", "commit"} => clouded'
        BY DEF Generate
    <2> QED BY <1>1, <1>2, <1>3, <1>4, <2>1, <2>2, GeneratedFacts DEF At
<1>5. CASE Answered(t, "invalid") /\ updating' = Release(updating, t)
    BY <1>1, <1>2, <1>5, AnsweredFails
<1> QED BY <1>4, <1>5 DEF Generate

LEMMA EditRuntimeFacts ==
    ASSUME Types, NEW t \in Tasks, EditRuntime(t)
    PROVE  /\ Handed /\ UNCHANGED <<runFile, core, updating>>
           /\ Works(t, "edit", IF updating = t THEN "validate" ELSE "restart")
           /\ Latest(runtime)' = task[t].cfg
<1>1. At(t, "edit") /\ (IF updating = t THEN "validate" ELSE "restart") \in Pipeline
    BY DEF EditRuntime, Pipeline
<1>2. task[t].cfg \in Cfgs
    BY DEF Types, TaskRecords
<1>3. runtime' \in Registers(Cfgs) /\ Latest(runtime)' = task[t].cfg
    <2>1. runtime' = EditDraft(runtime, task[t].cfg) /\ runtime \in Registers(Cfgs)
        BY DEF EditRuntime, Types
    <2>2. PICK r : r = EditDraft(runtime, task[t].cfg)
        OBVIOUS
    <2>3. r \in Registers(Cfgs) /\ Latest(r) = task[t].cfg
        BY <1>2, <2>1, <2>2, EditFacts
    <2>4. Latest(runtime)' = Latest(r)
        BY <2>1, <2>2 DEF Latest
    <2> QED BY <2>1, <2>2, <2>3, <2>4
<1>4. Handed /\ UNCHANGED <<runFile, core, updating>>
    BY <1>3, HandedSame DEF EditRuntime, Handed, Rest, shared, past, locks
<1>5. Works(t, "edit", IF updating = t THEN "validate" ELSE "restart")
    BY <1>1, GotoWorks DEF EditRuntime
<1> QED BY <1>3, <1>4, <1>5

LEMMA GiveUpFails ==
    ASSUME Types, NEW t \in Tasks, NEW from, At(t, from), NEW out \in Outs \ {"valid"}, GiveUp(t, out)
    PROVE  /\ Fails(t, from) /\ updating' = Release(updating, t) /\ runtime' = Discard(runtime)
BY AnsweredFails DEF GiveUp

LEMMA ValidateFacts ==
    ASSUME Types, NEW t \in Tasks, Validate(t)
    PROVE  /\ Handed /\ UNCHANGED <<runFile, core>>
           /\ \/ Fails(t, "validate") /\ updating' = Release(updating, t)
              \/ /\ Moves(t) /\ GoesOn(t) /\ task[t].pc = "validate" /\ task'[t].pc = "check"
                 /\ UNCHANGED <<runtime, updating>>
<1>1. At(t, "validate") /\ "check" \in Pcs /\ {"busy", "error"} \subseteq Outs \ {"valid"}
    BY DEF Validate, Pcs, Pipeline, Outs
<1>2. CASE \E out \in {"busy", "error"} : GiveUp(t, out) /\ UNCHANGED validating
    <2>1. PICK out \in {"busy", "error"} : GiveUp(t, out) /\ UNCHANGED validating
        BY <1>2
    <2>2. Fails(t, "validate") /\ updating' = Release(updating, t) /\ runtime' = Discard(runtime)
        BY <1>1, <2>1, GiveUpFails
    <2>3. Handed /\ UNCHANGED <<runFile, core>>
        BY <2>1, <2>2, HandedSame DEF Validate, Handed, Rest, shared, past
    <2> QED BY <2>2, <2>3
<1>3. CASE /\ validating' = t /\ task' = [task EXCEPT ![t].cfg = FileConfig, ![t].pc = "check"]
           /\ UNCHANGED <<runtime, updating>>
    <2>1. FileConfig \in Cfgs
        BY HandedSame
    <2>2. Moves(t) /\ GoesOn(t) /\ task'[t].pc = "check"
        BY <1>1, <1>3, <2>1, ConfiguredFacts
    <2>3. Handed /\ UNCHANGED <<runFile, core>>
        BY <1>3, HandedSame DEF Validate, Handed, Rest, shared, past
    <2> QED BY <1>1, <1>3, <2>2, <2>3 DEF At
<1> QED BY <1>2, <1>3 DEF Validate

LEMMA CheckFacts ==
    ASSUME Types, NEW t \in Tasks, Check(t)
    PROVE  /\ Handed /\ UNCHANGED <<runFile, core>>
           /\ \/ Fails(t, "check") /\ updating' = Release(updating, t)
              \/ Works(t, "check", "write") /\ UNCHANGED <<runtime, updating>>
<1>1. At(t, "check") /\ "write" \in Pipeline /\ {"invalid", "error"} \subseteq Outs \ {"valid"}
    BY DEF Check, Pipeline, Outs
<1>2. CASE \E out \in {"invalid", "error"} : GiveUp(t, out)
    <2>1. PICK out \in {"invalid", "error"} : GiveUp(t, out)
        BY <1>2
    <2>2. Fails(t, "check") /\ updating' = Release(updating, t) /\ runtime' = Discard(runtime)
        BY <1>1, <2>1, GiveUpFails
    <2>3. Handed /\ UNCHANGED <<runFile, core>>
        BY <2>2, HandedSame DEF Check, Handed, Rest, shared, past
    <2> QED BY <2>2, <2>3
<1>3. CASE Goto(t, "write") /\ UNCHANGED <<runtime, updating>>
    <2>1. Works(t, "check", "write")
        BY <1>1, <1>3, GotoWorks
    <2>2. Handed /\ UNCHANGED <<runFile, core>>
        BY <1>3, HandedSame DEF Check, Handed, Rest, shared, past
    <2> QED BY <1>3, <2>1, <2>2
<1> QED BY <1>2, <1>3 DEF Check

LEMMA WriteRunFacts ==
    ASSUME Types, NEW t \in Tasks, WriteRun(t)
    PROVE  /\ Handed /\ UNCHANGED <<runtime, core>>
           /\ \/ Fails(t, "write") /\ updating' = Release(updating, t)
              \/ Works(t, "write", "reload") /\ updating' = updating /\ runFile' = FileConfig
<1>1. At(t, "write") /\ "reload" \in Pipeline /\ "error" \in Outs \ {"valid"}
    BY DEF WriteRun, Pipeline, Outs
<1>2. Handed /\ UNCHANGED <<runtime, core>>
    BY HandedSame DEF WriteRun, Handed, Rest, shared, past
<1> QED BY <1>1, <1>2, GotoWorks, AnsweredFails DEF WriteRun

LEMMA ReloadFacts ==
    ASSUME Types, NEW t \in Tasks, Reload(t)
    PROVE  /\ Handed /\ UNCHANGED <<runtime, runFile, updating>>
           /\ \/ Works(t, "reload", "reloaded") /\ core' = runFile
              \/ Works(t, "reload", "restart") /\ core' = core
<1>1. At(t, "reload") /\ "reloaded" \in Pipeline /\ "restart" \in Pipeline
    BY DEF Reload, Pipeline
<1>2. Handed /\ UNCHANGED <<runtime, runFile, updating>>
    BY HandedSame DEF Reload, Handed, Rest, shared, past, locks
<1> QED BY <1>1, <1>2, GotoWorks DEF Reload

LEMMA ReloadedFacts ==
    ASSUME Types, NEW t \in Tasks, Reloaded(t)
    PROVE  /\ Handed /\ UNCHANGED <<runFile, core>> /\ updating' = None
           /\ Works(t, "reloaded", "after") /\ task'[t].out = "valid"
           /\ Latest(runtime)' = Latest(runtime)
<1>1. At(t, "reloaded") /\ updating' = None /\ runtime' = Apply(runtime)
    BY DEF Reloaded
<1>2. Handed /\ UNCHANGED <<runFile, core>>
    BY HandedSame DEF Reloaded, Handed, Rest, shared, past
<1>3. Works(t, "reloaded", "after") /\ task'[t].out = "valid"
    BY <1>1, AnsweredWorks DEF Reloaded
<1>4. Latest(runtime)' = Latest(runtime)
    <2>1. PICK r : r = Apply(runtime)
        OBVIOUS
    <2>2. Latest(r) = Latest(runtime)
        BY <2>1, LatestFacts DEF Types
    <2> QED BY <1>1, <2>1, <2>2 DEF Latest
<1> QED BY <1>1, <1>2, <1>3, <1>4

LEMMA RestartFailedFacts ==
    ASSUME Types, NEW t \in Tasks, NEW from, At(t, from), RestartFailed(t)
    PROVE  /\ Fails(t, from) /\ updating' = Release(updating, t) /\ lifecycle' = None
           /\ runtime' \in Registers(Cfgs)
<1>1. "error" \in Outs \ {"valid"}
    BY DEF Outs
<1>2. CASE updating = t
    BY <1>1, <1>2, GiveUpFails, HandedSame DEF RestartFailed
<1>3. CASE updating # t
    <2>1. Answered(t, "error") /\ UNCHANGED <<runtime, updating>> /\ lifecycle' = None
        BY <1>3 DEF RestartFailed
    <2>2. updating' = Release(updating, t)
        BY <1>3, <2>1 DEF Release
    <2> QED BY <1>1, <2>1, <2>2, AnsweredFails, HandedSame
<1> QED BY <1>2, <1>3

LEMMA RestartFacts ==
    ASSUME Types, NEW t \in Tasks, Restart(t)
    PROVE  /\ Handed
           /\ \/ Fails(t, "restart") /\ updating' = Release(updating, t)
              \/ /\ Works(t, "restart", "start") /\ UNCHANGED <<runtime, updating>>
                 /\ runFile' = FileConfig /\ core' = NoCfg
              \/ exiting /\ Works(t, "restart", "reloaded")
<1>1. At(t, "restart") /\ "start" \in Pipeline /\ "reloaded" \in Pipeline
    BY DEF Restart, Pipeline
<1>2. CASE RestartFailed(t) /\ UNCHANGED runFile
    <2>1. /\ Fails(t, "restart") /\ updating' = Release(updating, t) /\ lifecycle' = None
          /\ runtime' \in Registers(Cfgs)
        BY <1>1, <1>2, RestartFailedFacts
    <2>2. Handed
        BY <1>2, <2>1, HandedSame DEF Restart, Handed, Rest, shared, past
    <2> QED BY <2>1, <2>2
<1>3. CASE /\ runFile' = FileConfig /\ lifecycle' = t /\ Goto(t, "start")
           /\ UNCHANGED <<runtime, updating>> /\ core' = NoCfg
    <2>1. Works(t, "restart", "start")
        BY <1>1, <1>3, GotoWorks
    <2>2. Handed /\ core' = NoCfg
        BY <1>3, HandedSame DEF Restart, Handed, Rest, shared, past
    <2> QED BY <1>3, <2>1, <2>2
<1>4. CASE exiting /\ Goto(t, "reloaded") /\ UNCHANGED <<runFile, lifecycle, runtime, updating>> /\ core' = NoCfg
    <2>1. Works(t, "restart", "reloaded")
        BY <1>1, <1>4, GotoWorks
    <2>2. Handed /\ core' = NoCfg
        BY <1>4, HandedSame DEF Restart, Handed, Rest, shared, past
    <2> QED BY <1>4, <2>1, <2>2
<1> QED BY <1>2, <1>3, <1>4 DEF Restart

LEMMA StartCoreFacts ==
    ASSUME Types, NEW t \in Tasks, StartCore(t)
    PROVE  /\ Handed /\ UNCHANGED runFile
           /\ \/ Fails(t, "start") /\ updating' = Release(updating, t)
              \/ /\ core' = runFile /\ UNCHANGED <<runtime, updating>>
                 /\ IF updating = t THEN Works(t, "start", "reloaded")
                    ELSE Works(t, "start", "after") /\ task'[t].out = "valid"
<1>1. At(t, "start") /\ "reloaded" \in Pipeline /\ UNCHANGED runFile
    BY DEF StartCore, Pipeline
<1>2. CASE RestartFailed(t) /\ UNCHANGED core
    <2>1. /\ Fails(t, "start") /\ updating' = Release(updating, t) /\ lifecycle' = None
          /\ runtime' \in Registers(Cfgs)
        BY <1>1, <1>2, RestartFailedFacts
    <2>2. Handed
        BY <1>2, <2>1, HandedSame DEF StartCore, Handed, Rest, shared, past
    <2> QED BY <1>1, <2>1, <2>2
<1>3. CASE /\ core' = runFile /\ lifecycle' = None /\ UNCHANGED <<runtime, updating>>
           /\ IF updating = t THEN Goto(t, "reloaded") ELSE Answered(t, "valid")
    <2>1. IF updating = t THEN Works(t, "start", "reloaded")
          ELSE Works(t, "start", "after") /\ task'[t].out = "valid"
        BY <1>1, <1>3, GotoWorks, AnsweredWorks
    <2>2. Handed
        BY <1>3, HandedSame DEF StartCore, Handed, Rest, shared, past
    <2> QED BY <1>1, <1>3, <2>1, <2>2
<1> QED BY <1>2, <1>3 DEF StartCore

\* Every step of the pipeline keeps the list sound.
Advances(t) ==
    \/ UpdateStart(t) \/ Generate(t) \/ EditRuntime(t) \/ Validate(t) \/ Check(t) \/ WriteRun(t)
    \/ Reload(t) \/ Reloaded(t) \/ Restart(t) \/ StartCore(t)

LEMMA AdvancesListed ==
    ASSUME ListInv, NEW t \in Tasks, Advances(t)
    PROVE  /\ ListInv' /\ Handed /\ Moves(t) /\ GoesOn(t) /\ task[t].pc \in Pipeline
           /\ task'[t].pc \in Pipeline \cup {"after"}
<1>0. Types
    BY DEF ListInv
<1>1. /\ Handed /\ Moves(t) /\ GoesOn(t) /\ task[t].pc \in Pipeline
      /\ task'[t].pc \in Pipeline \cup {"after"}
    <2>1. CASE UpdateStart(t) \/ Generate(t) \/ EditRuntime(t)
        BY <1>0, <2>1, UpdateStartFacts, GenerateFacts, EditRuntimeFacts DEF Works, Fails, Doomed, Pipeline
    <2>2. CASE Validate(t) \/ Check(t) \/ WriteRun(t)
        BY <1>0, <2>2, ValidateFacts, CheckFacts, WriteRunFacts DEF Works, Fails, Doomed, Pipeline
    <2>3. CASE Reload(t) \/ Reloaded(t) \/ Restart(t) \/ StartCore(t)
        BY <1>0, <2>3, ReloadFacts, ReloadedFacts, RestartFacts, StartCoreFacts DEF Works, Fails, Doomed, Pipeline
    <2> QED BY <2>1, <2>2, <2>3 DEF Advances
<1> QED BY <1>1, PipelineListed DEF Handed
-----------------------------------------------------------------------------
(* The steps that change the list *)

LEMMA CloneFacts ==
    ASSUME Types, NEW t \in Tasks, NEW p \in Lists, NEW pc \in Pcs, Clone(t, p, pc)
    PROVE  /\ Moves(t) /\ task'[t].op = task[t].op /\ task'[t].uid = task[t].uid
           /\ task'[t].arg = task[t].arg /\ task'[t].refresh = task[t].refresh
           /\ task'[t].mod = p /\ task'[t].pc = pc /\ task'[t].out = task[t].out
           /\ permit = None /\ permit' = t /\ moved' = FALSE
<1>1. task[t] \in TaskRecords /\ task \in [Tasks -> TaskRecords]
    BY DEF Types
<1>2. PICK r : r = [task[t] EXCEPT !.mod = p, !.pc = pc]
    OBVIOUS
<1>3. r \in TaskRecords
    BY <1>1, <1>2, Zenon DEF TaskRecords
<1>4. task' = [task EXCEPT ![t] = r]
    BY <1>1, <1>2 DEF Clone
<1>5. Moves(t) /\ task'[t] = r
    BY <1>3, <1>4, Replaced
<1>6. /\ r.op = task[t].op /\ r.uid = task[t].uid /\ r.arg = task[t].arg /\ r.refresh = task[t].refresh
      /\ r.mod = p /\ r.pc = pc /\ r.out = task[t].out
    BY <1>1, <1>2 DEF TaskRecords
<1> QED BY <1>5, <1>6 DEF Clone

Refreshes(t, p, pc, x, S) == task' = [task EXCEPT ![t].mod = p, ![t].pc = pc, ![t].refresh = x \in S]

LEMMA CloneRefreshing ==
    ASSUME Types, NEW t \in Tasks, NEW p \in Lists, NEW pc \in Pcs, NEW x, NEW S,
           Refreshes(t, p, pc, x, S)
    PROVE  /\ Moves(t) /\ task'[t].op = task[t].op /\ task'[t].uid = task[t].uid
           /\ task'[t].arg = task[t].arg /\ (task'[t].refresh <=> x \in S)
           /\ task'[t].mod = p /\ task'[t].pc = pc /\ task'[t].out = task[t].out
<1>1. task[t] \in TaskRecords /\ task \in [Tasks -> TaskRecords]
    BY DEF Types
<1>2. PICK r : r = [task[t] EXCEPT !.mod = p, !.pc = pc, !.refresh = x \in S]
    OBVIOUS
<1>3. r \in TaskRecords
    <2>1. (x \in S) \in BOOLEAN
        OBVIOUS
    <2> QED BY <1>1, <1>2, <2>1, Zenon DEF TaskRecords
<1>4. task' = [task EXCEPT ![t] = r]
    BY <1>1, <1>2 DEF Refreshes
<1>5. Moves(t) /\ task'[t] = r
    BY <1>3, <1>4, Replaced
<1>6. /\ r.op = task[t].op /\ r.uid = task[t].uid /\ r.arg = task[t].arg /\ (r.refresh <=> x \in S)
      /\ r.mod = p /\ r.pc = pc /\ r.out = task[t].out
    BY <1>1, <1>2 DEF TaskRecords
<1> QED BY <1>5, <1>6

\* What the copy has become when its closure is done.
Copied(t) ==
    /\ Moves(t) /\ task[t].pc = "modify" /\ task'[t].pc = "commit"
    /\ task'[t].op = task[t].op /\ task'[t].uid = task[t].uid /\ task'[t].arg = task[t].arg
    /\ task'[t].out = task[t].out
    /\ permit = None /\ permit' = t /\ ~moved' /\ moved' \in BOOLEAN
    /\ \/ task[t].op = "reorder" /\ task'[t].mod.items = <<>>
       \/ /\ Sound(task'[t].mod)
          /\ ItemsOf(profiles.data) \ {u \in {task[t].uid} : task[t].op = "delete"} \subseteq ItemsOf(task'[t].mod)
    /\ task[t].op = "create" => task[t].uid \in ItemsOf(task'[t].mod)
    /\ file' \in [Uids -> Stored]
    /\ \/ task[t].op = "switch" /\ (task[t].uid \in ItemsOf(profiles.data) => task'[t].mod.current = task[t].uid)
       \/ task[t].op # "switch" /\ task'[t].mod.current = profiles.data.current
       \/ task[t].op = "delete" /\ task'[t].refresh
       \/ task[t].op = "create" /\ clouded'

LEMMA FileChange ==
    ASSUME Types, NEW u \in Uids, NEW c \in Stored, file' = [file EXCEPT ![u] = c]
    PROVE  file' \in [Uids -> Stored]
BY DEF Types

LEMMA ModifyFacts ==
    ASSUME ListInv, NEW t \in Tasks, Modify(t)
    PROVE  /\ UNCHANGED <<profiles, verge, runtime, runFile, core, switching, updating, validating, lifecycle,
                          booted, exiting, late, emptied>>
           /\ kept' = IF task[t].op = "delete" THEN kept \ {task[t].uid} ELSE kept
           /\ clouded' \in BOOLEAN /\ (clouded => clouded')
           /\ \/ Copied(t)
              \/ /\ Moves(t) /\ task[t].pc = "modify" /\ task'[t].op = "idle" /\ task'[t].pc = "done"
                 /\ task[t].op # "switch" /\ UNCHANGED <<permit, moved, file>> /\ clouded'
<1> DEFINE u == task[t].uid
           d == profiles.data
<1>0. Types /\ Listed /\ task[t].pc = "modify" /\ Named(t) /\ Sound(d) /\ d \in Lists
    BY LatestFacts DEF ListInv, Modify, At, Listed, Whole, Types
<1>1. /\ UNCHANGED <<profiles, verge, runtime, runFile, core, switching, updating, validating, lifecycle,
                     booted, exiting, late, emptied>>
      /\ kept' = IF task[t].op = "delete" THEN kept \ {u} ELSE kept
      /\ clouded' \in BOOLEAN /\ (clouded => clouded')
    BY <1>0 DEF Modify, Types
<1>2. "commit" \in Pcs /\ task[t].refresh \in BOOLEAN /\ Contents \subseteq Stored /\ Missing \in Stored
    BY <1>0 DEF Pcs, Types, TaskRecords, Stored
<1>3. ItemsOf(d) \subseteq Uids
    BY <1>0, ItemsFacts
<1>4. CASE task[t].op = "create" /\ Clone(t, AppendItem(d, u), "commit")
           /\ file' = [file EXCEPT ![u] = task[t].arg]
    <2>1. u \in Uids /\ task[t].arg \in Stored
        BY <1>0, <1>2, <1>4 DEF Named
    <2>2. PICK p \in Lists : p = AppendItem(d, u)
        BY <1>0, <2>1, AppendFacts
    <2>3. Sound(p) /\ ItemsOf(d) \cup {u} \subseteq ItemsOf(p) /\ (d.current # None => p.current = d.current)
        BY <1>0, <2>1, <2>2, AppendFacts
    <2>4. /\ Moves(t) /\ task'[t].op = task[t].op /\ task'[t].uid = u /\ task'[t].arg = task[t].arg
          /\ task'[t].mod = p /\ task'[t].pc = "commit" /\ task'[t].out = task[t].out
        BY <1>0, <1>2, <1>4, <2>2, CloneFacts
    <2>5. file' \in [Uids -> Stored]
        BY <1>0, <1>4, <2>1, FileChange
    <2>6. permit = None /\ permit' = t /\ moved' = FALSE /\ (d.current = None => clouded')
        BY <1>4 DEF Clone, Modify
    <2>7. Copied(t)
        BY <1>0, <1>4, <2>3, <2>4, <2>5, <2>6 DEF Copied
    <2> QED BY <1>1, <2>7
<1>5. CASE /\ task[t].op = "delete" /\ u \in ItemsOf(d) /\ permit = None /\ permit' = t /\ moved' = FALSE
           /\ task' = [task EXCEPT ![t].mod = DeleteItem(d, u), ![t].pc = "commit",
                                   ![t].refresh = d.current \in {u, None}]
           /\ file' = [file EXCEPT ![u] = Missing]
    <2>1. u \in ItemsOf(d) /\ u \in Uids
        BY <1>0, <1>3, <1>5 DEF Named
    <2>2. PICK p \in Lists : p = DeleteItem(d, u)
        BY <1>0, <2>1, DeleteFacts
    <2>3. /\ Sound(p) /\ ItemsOf(d) \ {u} \subseteq ItemsOf(p)
          /\ d.current \notin {u, None} => p.current = d.current
        BY <1>0, <2>1, <2>2, DeleteFacts
    <2>4. PICK x, S : x = d.current /\ S = {u, None}
        OBVIOUS
    <2>5. /\ Moves(t) /\ task'[t].op = task[t].op /\ task'[t].uid = u /\ task'[t].arg = task[t].arg
          /\ task'[t].mod = p /\ task'[t].pc = "commit" /\ task'[t].out = task[t].out 
          /\ task'[t].refresh <=> x \in S
        <3>1. Refreshes(t, p, "commit", x, S)
            BY <1>5, <2>2, <2>4, Zenon DEF Refreshes
        <3> QED BY <1>0, <1>2, <3>1, CloneRefreshing
    <2>6. file' \in [Uids -> Stored]
        BY <1>0, <1>2, <1>5, <2>1, FileChange
    <2>7. Copied(t)
        BY <1>0, <1>5, <2>3, <2>4, <2>5, <2>6 DEF Copied
    <2> QED BY <1>1, <2>7
<1>6. CASE /\ task[t].op \in {"update", "auto"} /\ u \in ItemsOf(d) /\ Clone(t, d, "commit")
           /\ file' = [file EXCEPT ![u] = task[t].arg]
    <2>1. u \in Uids /\ task[t].arg \in Stored
        BY <1>0, <1>2, <1>3, <1>6 DEF Named
    <2>2. /\ Moves(t) /\ task'[t].op = task[t].op /\ task'[t].uid = u /\ task'[t].arg = task[t].arg
          /\ task'[t].mod = d /\ task'[t].pc = "commit" /\ task'[t].out = task[t].out
        BY <1>0, <1>2, <1>6, CloneFacts
    <2>3. file' \in [Uids -> Stored]
        BY <1>0, <1>6, <2>1, FileChange
    <2>4. Copied(t)
        BY <1>0, <1>6, <2>2, <2>3 DEF Copied, Clone
    <2> QED BY <1>1, <2>4
<1>7. CASE task[t].op = "reorder" /\ Clone(t, Reorder(d, u, task[t].arg), "commit") /\ file' = file
    <2>1. PICK y : y = task[t].arg
        OBVIOUS
    <2>2. PICK p \in Lists : p = Reorder(d, u, y)
        BY <1>0, ReorderFacts, ReorderEmpties
    <2>3. /\ p.items = <<>> \/ (Sound(p) /\ ItemsOf(d) \subseteq ItemsOf(p))
          /\ p.current = d.current
        BY <1>0, <2>2, ReorderFacts, ReorderEmpties
    <2>4. /\ Moves(t) /\ task'[t].op = task[t].op /\ task'[t].uid = u /\ task'[t].arg = task[t].arg
          /\ task'[t].mod = p /\ task'[t].pc = "commit" /\ task'[t].out = task[t].out
        BY <1>0, <1>2, <1>7, <2>1, <2>2, CloneFacts
    <2>5. file' \in [Uids -> Stored]
        BY <1>0, <1>7 DEF Types
    <2>6. Copied(t)
        BY <1>0, <1>7, <2>3, <2>4, <2>5 DEF Copied, Clone
    <2> QED BY <1>1, <2>6
<1>8. CASE task[t].op = "switch" /\ Clone(t, PatchConfig(d, u), "commit") /\ file' = file
    <2>1. PICK p \in Lists : p = PatchConfig(d, u)
        BY <1>0, PatchFacts
    <2>2. Sound(p) /\ ItemsOf(d) = ItemsOf(p) /\ (u \in ItemsOf(d) => p.current = u)
        BY <1>0, <2>1, PatchFacts
    <2>3. /\ Moves(t) /\ task'[t].op = task[t].op /\ task'[t].uid = u /\ task'[t].arg = task[t].arg
          /\ task'[t].mod = p /\ task'[t].pc = "commit" /\ task'[t].out = task[t].out
        BY <1>0, <1>2, <1>8, <2>1, CloneFacts
    <2>4. file' \in [Uids -> Stored]
        BY <1>0, <1>8 DEF Types
    <2>5. Copied(t)
        BY <1>0, <1>8, <2>2, <2>3, <2>4 DEF Copied, Clone
    <2> QED BY <1>1, <2>5
<1>9. CASE /\ task[t].op \in {"delete", "update", "auto"} /\ u \notin ItemsOf(d)
           /\ Ended(t) /\ UNCHANGED <<permit, moved, file, saved>>
    <2>1. Moves(t) /\ task'[t].op = "idle" /\ task'[t].pc = "done"
        BY <1>0, <1>9, EndedFacts
    <2>2. clouded'
        BY <1>9 DEF Modify
    <2> QED BY <1>0, <1>1, <1>9, <2>1, <2>2
<1> QED BY <1>4, <1>5, <1>6, <1>7, <1>8, <1>9 DEF Modify
-----------------------------------------------------------------------------
(* The list stays sound in the steps that are not the pipeline's *)

LEMMA ListedKept ==
    ASSUME ListInv, NEW t \in Tasks, Moves(t), Named(t)', Held(t)',
           Whole',
           \/ permit \in {t, None}
           \/ /\ permit' = permit /\ kept' \subseteq kept /\ (moved => moved') /\ (exiting => exiting')
              /\ UNCHANGED <<late, emptied>>
    PROVE  Listed'
<1>0. \A s \in Tasks : Named(s) /\ Held(s)
    BY DEF ListInv, Listed
<1>1. ASSUME NEW s \in Tasks, s # t PROVE Named(s)' /\ Held(s)'
    <2>1. task'[s] = task[s] /\ s # None
        BY <1>1, TasksAssumption DEF Moves
    <2>2. Named(s)'
        BY <1>0, <2>1 DEF Named
    <2>3. CASE permit \in {t, None}
        <3>1. task[s].pc \notin {"commit", "saved"}
            BY <1>0, <1>1, <2>1, <2>3 DEF Held
        <3> QED BY <2>1, <2>2, <3>1 DEF Held
    <2>4. CASE /\ permit' = permit /\ kept' \subseteq kept /\ (moved => moved') /\ (exiting => exiting')
               /\ UNCHANGED <<late, emptied>>
        <3>1. Held(s)
            BY <1>0
        <3>2. ItemsOf(task[s].mod)' = ItemsOf(task[s].mod)
            BY <2>1 DEF ItemsOf
        <3>3. Sound(task[s].mod)' <=> Sound(task[s].mod)
            BY <2>1, <2>4, <3>2 DEF Sound
        <3>4. (Kept(task[s].mod) => Kept(task[s].mod)') /\ (Empties(s)' <=> Empties(s))
            BY <2>1, <2>4, <3>2 DEF Kept, Empties
        <3> QED BY <2>1, <2>2, <2>4, <3>1, <3>2, <3>3, <3>4 DEF Held
    <2> QED BY <2>3, <2>4
<1> QED BY <1>1 DEF Listed

LEMMA SwitchesKept ==
    ASSUME ListInv, NEW t \in Tasks, Moves(t),
           Active(t)' => switching' /\ (Active(t) \/ ~switching),
           switching => switching' \/ Active(t),
           profiles'.draft # <<>> => Owns(t)' \/ (profiles.draft # <<>> /\ ~Owns(t)),
           task'[t].op = "switch" /\ task'[t].pc \in {"modify", "commit"} => task'[t].out = "valid",
           task'[t].op = "switch" /\ task'[t].pc = "restore" => profiles'.draft = <<>>
    PROVE  Switches'
<1>0. Switches
    BY DEF ListInv
<1>1. \A s \in Tasks \ {t} : (Active(s)' <=> Active(s)) /\ (Owns(s)' <=> Owns(s)) /\ task'[s] = task[s]
    BY DEF Moves, Active, Owns
<1>2. \A s \in Tasks : Active(s)' => switching'
    BY <1>0, <1>1 DEF Switches
<1>3. \A r, s \in Tasks : Active(r)' /\ Active(s)' => r = s
    BY <1>0, <1>1 DEF Switches
<1>4. profiles'.draft # <<>> => \E s \in Tasks : Owns(s)'
    BY <1>0, <1>1 DEF Switches
<1>5. \A s \in Tasks : task'[s].op = "switch" /\ task'[s].pc \in {"modify", "commit"} => task'[s].out = "valid"
    BY <1>0, <1>1 DEF Switches
<1>6. ASSUME NEW s \in Tasks, s # t, task[s].op = "switch", task[s].pc = "restore" PROVE profiles'.draft = <<>>
    <2>1. Owns(s) /\ Active(s)' /\ profiles.draft = <<>>
        BY <1>0, <1>1, <1>6 DEF Owns, Active, Switches
    <2>2. ~Owns(t)'
        BY <1>3, <1>6, <2>1 DEF Active
    <2> QED BY <2>1, <2>2
<1>7. \A s \in Tasks : task'[s].op = "switch" /\ task'[s].pc = "restore" => profiles'.draft = <<>>
    BY <1>1, <1>6
<1> QED BY <1>2, <1>3, <1>4, <1>5, <1>7 DEF Switches

\* A task that is no switch leaves the one that is under way alone.
LEMMA SwitchesUntouched ==
    ASSUME ListInv, NEW t \in Tasks, Moves(t), task[t].op # "switch", task'[t].op # "switch",
           switching' = switching, profiles'.draft \in {profiles.draft, <<>>}
    PROVE  Switches'
<1>1. ~Active(t) /\ ~Active(t)' /\ ~Owns(t)
    BY DEF Active, Owns
<1> QED BY <1>1, SwitchesKept

\* A step that changes neither list nor permit, of a task that is no switch.
LEMMA Bystander ==
    ASSUME ListInv, NEW t \in Tasks, Moves(t), Types', Named(t)', task'[t].pc \notin {"commit", "saved", "apply"},
           task[t].op # "switch", task'[t].op # "switch", permit' = permit \/ permit = t,
           UNCHANGED <<profiles, switching, moved, exiting, kept, late, emptied>>
    PROVE  ListInv'
<1>1. Held(t)'
    BY DEF Held
<1>2. Whole'
    BY RestoringKept, WholeKept DEF ListInv, Listed
<1>3. Listed'
    BY <1>1, <1>2, ListedKept
<1>4. Switches'
    BY SwitchesUntouched
<1> QED BY <1>3, <1>4 DEF ListInv

LEMMA ModifyListed ==
    ASSUME ListInv, NEW t \in Tasks, Modify(t)
    PROVE  ListInv'
<1>0. Types /\ Listed /\ Switches /\ Named(t)
    BY DEF ListInv, Listed
<1>1. /\ UNCHANGED <<profiles, verge, runtime, runFile, core, switching, updating, validating, lifecycle,
                     booted, exiting, late, emptied>>
      /\ kept' \subseteq kept /\ clouded' \in BOOLEAN
      /\ kept' = IF task[t].op = "delete" THEN kept \ {task[t].uid} ELSE kept
    BY ModifyFacts
<1>2. Whole'
    <2>1. Moves(t) /\ task'[t].pc \in {"commit", "done"}
        BY ModifyFacts DEF Copied
    <2> QED BY <1>0, <1>1, <2>1, RestoringKept, WholeKept DEF Listed
<1>3. /\ profiles' \in Registers(Lists) /\ verge' \in Registers(Int) /\ runtime' \in Registers(Cfgs)
      /\ runFile' \in Cfgs /\ core' \in Cfgs /\ switching' \in BOOLEAN /\ booted' \in BOOLEAN
      /\ exiting' \in BOOLEAN /\ updating' \in Tasks \cup {None} /\ validating' \in Tasks \cup {None}
      /\ lifecycle' \in Tasks \cup {None}
    BY <1>0, <1>1 DEF Types
<1>4. CASE Copied(t)
    <2>1. task[t].op # "idle"
        BY <1>0, <1>4, NotIdle DEF Copied
    <2>2. Types'
        BY <1>0, <1>1, <1>3, <1>4, <2>1, TypesKept DEF Copied
    <2>3. Named(t)'
        BY <1>0, <1>4 DEF Named, Copied
    <2>4. Held(t)'
        <3>1. ItemsOf(task[t].mod)' = ItemsOf(task'[t].mod)
            BY DEF ItemsOf
        <3>2. Sound(task[t].mod)' <=> Sound(task'[t].mod)
            BY <1>1, <3>1 DEF Sound
        <3>3. CASE Empties(t)'
            BY <1>4, <3>1, <3>3 DEF Held, Copied
        <3>4. CASE ~Empties(t)'
            <4>1. /\ Sound(task'[t].mod)
                  /\ ItemsOf(profiles.data) \ {u \in {task[t].uid} : task[t].op = "delete"} \subseteq ItemsOf(task'[t].mod)
                BY <1>4, <3>4 DEF Copied, Empties
            <4>2. Kept(task[t].mod)'
                BY <1>0, <1>1, <3>1, <4>1 DEF Kept, Listed, Whole
            <4> QED BY <1>4, <3>1, <3>2, <4>1, <4>2 DEF Held, Copied
        <3> QED BY <3>3, <3>4
    <2>5. Listed'
        BY <1>2, <1>4, <2>3, <2>4, ListedKept DEF Copied
    <2>6. Switches'
        <3>1. ~Owns(t) /\ (Active(t)' <=> Active(t)) /\ Moves(t) /\ task'[t].pc = "commit"
            BY <1>4 DEF Copied, Owns, Active, Pipeline
        <3>2. task[t].op = "switch" => task[t].out = "valid"
            BY <1>0, <1>4 DEF Switches, Copied
        <3>3. task'[t].op = "switch" => task'[t].out = "valid"
            BY <1>4, <3>2 DEF Copied
        <3>4. Active(t)' => switching'
            BY <1>0, <1>1, <3>1 DEF Switches
        <3> QED BY <1>1, <3>1, <3>3, <3>4, SwitchesKept
    <2> QED BY <2>2, <2>5, <2>6 DEF ListInv
<1>5. CASE /\ Moves(t) /\ task[t].pc = "modify" /\ task'[t].op = "idle" /\ task'[t].pc = "done"
           /\ task[t].op # "switch" /\ UNCHANGED <<permit, moved, file>>
    <2>1. file' \in [Uids -> Stored] /\ permit' \in Tasks \cup {None} /\ moved' \in BOOLEAN
        BY <1>0, <1>5 DEF Types
    <2>2. Types'
        BY <1>0, <1>1, <1>3, <1>5, <2>1, TypesKept
    <2>3. Named(t)' /\ Held(t)'
        BY <1>5 DEF Named, Held
    <2>4. Listed'
        BY <1>1, <1>2, <1>5, <2>3, ListedKept
    <2>5. Switches'
        BY <1>1, <1>5, SwitchesUntouched
    <2> QED BY <2>2, <2>4, <2>5 DEF ListInv
<1> QED BY <1>4, <1>5, ModifyFacts

\* What a commit does: nothing when the list was replaced meanwhile; else the
\* copy becomes the list.
Frame == <<verge, runtime, file, runFile, core, updating, validating, lifecycle, booted, exiting>>

Dropped(t) ==
    /\ moved /\ clouded' /\ UNCHANGED <<profiles, kept, late, emptied>>
    /\ switching' = (switching /\ task[t].op # "switch")
    /\ task'[t].op = "idle" /\ task'[t].pc = "done"

Committed(t) ==
    /\ ~moved /\ UNCHANGED switching
    /\ profiles' \in Registers(Lists) /\ profiles'.data = task[t].mod /\ profiles'.draft = profiles.draft
    /\ kept' = IF task[t].op = "create" THEN kept \cup {task[t].uid} ELSE kept
    /\ late' = IF task[t].op = "create" /\ Restoring THEN late \cup {task[t].uid} ELSE late
    /\ emptied' <=> emptied \/ Empties(t)
    /\ Empties(t) => clouded'
    /\ task[t].op = "delete" => ~Switching(task[t].uid) \/ clouded'
    /\ \/ task'[t].op = "idle" /\ task'[t].pc = "done" /\ task[t].op \in {"update", "auto", "reorder"}
       \/ /\ GoesOn(t) /\ task'[t].out = task[t].out
          /\ \/ task[t].op \in {"update", "auto"} /\ task'[t].pc = "update"
             \/ task[t].op \notin {"update", "auto", "reorder"} /\ task'[t].pc = "save"

LEMMA CommitFacts ==
    ASSUME ListInv, NEW t \in Tasks, CommitModify(t)
    PROVE  /\ Moves(t) /\ task[t].pc = "commit" /\ permit' = None /\ UNCHANGED moved /\ UNCHANGED Frame
           /\ clouded' \in BOOLEAN /\ (clouded => clouded')
           /\ Dropped(t) \/ Committed(t)
<1>0. Types /\ task[t].pc = "commit"
    BY DEF ListInv, CommitModify, At
<1>1. /\ permit' = None /\ UNCHANGED moved /\ UNCHANGED Frame
      /\ clouded' \in BOOLEAN /\ (clouded => clouded')
    BY <1>0 DEF CommitModify, Frame, Types
<1>2. CASE moved
    <2>1. Ended(t) /\ UNCHANGED <<profiles, kept, late, emptied>> /\ switching' = (switching /\ task[t].op # "switch") /\ clouded'
        BY <1>2 DEF CommitModify, past
    <2>2. Moves(t) /\ task'[t].op = "idle" /\ task'[t].pc = "done"
        BY <1>0, <2>1, EndedFacts
    <2> QED BY <1>0, <1>1, <1>2, <2>1, <2>2 DEF Dropped
<1>3. CASE ~moved
    <2>1. /\ profiles' = [profiles EXCEPT !.data = task[t].mod]
          /\ IF AfterCommit(t) = "done" THEN Ended(t) ELSE Goto(t, AfterCommit(t))
          /\ kept' = IF task[t].op = "create" THEN kept \cup {task[t].uid} ELSE kept
          /\ late' = IF task[t].op = "create" /\ Restoring THEN late \cup {task[t].uid} ELSE late
          /\ emptied' <=> emptied \/ Empties(t)
          /\ Empties(t) => clouded'
          /\ task[t].op = "delete" => ~Switching(task[t].uid) \/ clouded'
          /\ UNCHANGED switching
        BY <1>3 DEF CommitModify, Empties
    <2>2. profiles \in Registers(Lists) /\ task[t].mod \in Lists
        BY <1>0 DEF Types, TaskRecords
    <2>3. profiles' \in Registers(Lists)
        BY <2>1, <2>2, Zenon DEF Registers
    <2>4. profiles'.data = task[t].mod /\ profiles'.draft = profiles.draft
        BY <2>1, <2>2 DEF Registers
    <2>5. /\ Moves(t)
          /\ \/ task'[t].op = "idle" /\ task'[t].pc = "done" /\ task[t].op \in {"update", "auto", "reorder"}
             \/ /\ GoesOn(t) /\ task'[t].out = task[t].out
                /\ \/ task[t].op \in {"update", "auto"} /\ task'[t].pc = "update"
                   \/ task[t].op \notin {"update", "auto", "reorder"} /\ task'[t].pc = "save"
        <3>1. {"update", "save"} \subseteq Pcs
            BY DEF Pcs, Pipeline
        <3>2. CASE AfterCommit(t) = "done"
            <4>1. task[t].op \in {"update", "auto", "reorder"}
                BY <3>2 DEF AfterCommit
            <4> QED BY <1>0, <2>1, <3>2, <4>1, EndedFacts
        <3>3. CASE AfterCommit(t) = "update"
            <4>1. task[t].op \in {"update", "auto"}
                BY <3>3 DEF AfterCommit
            <4> QED BY <1>0, <2>1, <3>1, <3>3, <4>1, GotoFacts
        <3>4. CASE AfterCommit(t) = "save"
            <4>1. task[t].op \notin {"update", "auto", "reorder"}
                BY <3>4 DEF AfterCommit
            <4> QED BY <1>0, <2>1, <3>1, <3>4, <4>1, GotoFacts
        <3> QED BY <3>2, <3>3, <3>4 DEF AfterCommit
    <2> QED BY <1>0, <1>1, <1>3, <2>1, <2>3, <2>4, <2>5 DEF Committed
<1> QED BY <1>2, <1>3

LEMMA FrameTypes ==
    ASSUME Types, UNCHANGED Frame
    PROVE  /\ verge' \in Registers(Int) /\ runtime' \in Registers(Cfgs) /\ file' \in [Uids -> Stored]
           /\ runFile' \in Cfgs /\ core' \in Cfgs /\ updating' \in Tasks \cup {None}
           /\ validating' \in Tasks \cup {None} /\ lifecycle' \in Tasks \cup {None}
           /\ booted' \in BOOLEAN /\ exiting' \in BOOLEAN /\ exiting' = exiting
BY DEF Types, Frame

LEMMA CommitListed ==
    ASSUME ListInv, NEW t \in Tasks, CommitModify(t)
    PROVE  ListInv'
<1>0. Types /\ Listed /\ Switches /\ Named(t) /\ Held(t)
    BY DEF ListInv, Listed
<1>1. /\ Moves(t) /\ task[t].pc = "commit" /\ permit' = None /\ moved' = moved /\ UNCHANGED Frame
      /\ clouded' \in BOOLEAN
    BY CommitFacts
<1>2. /\ permit = t /\ permit' \in Tasks \cup {None} /\ moved' \in BOOLEAN /\ exiting' = exiting
      /\ task[t].op # "idle" /\ ~Owns(t)
    BY <1>0, <1>1, FrameTypes, NotIdle DEF Held, Types, Owns, Pipeline
<1>3. CASE Dropped(t)
    <2>1. profiles' \in Registers(Lists) /\ switching' \in BOOLEAN
        BY <1>0, <1>3 DEF Types, Dropped
    <2>2. Types'
        BY <1>0, <1>1, <1>2, <1>3, <2>1, FrameTypes, TypesKept DEF Dropped
    <2>3. Whole'
        BY <1>0, <1>1, <1>2, <1>3, RestoringKept, WholeKept DEF Listed, Dropped
    <2>4. Named(t)' /\ Held(t)'
        BY <1>3 DEF Named, Held, Dropped
    <2>5. Listed'
        BY <1>1, <1>2, <2>3, <2>4, ListedKept
    <2>6. ~Active(t)' /\ (task[t].op = "switch" => Active(t))
        BY <1>0, <1>1, <1>3 DEF Active, Owns, Dropped, Switches
    <2>7. switching => switching' \/ Active(t)
        BY <1>3, <2>6 DEF Dropped
    <2>8. Switches'
        BY <1>1, <1>2, <1>3, <2>6, <2>7, SwitchesKept DEF Dropped
    <2> QED BY <2>2, <2>5, <2>8 DEF ListInv
<1>4. CASE Committed(t)
    <2>1. switching' \in BOOLEAN
        BY <1>0, <1>4 DEF Types, Committed
    <2>2. Types'
        <3>1. task'[t].op = "idle" => task'[t].pc = "done"
            BY <1>2, <1>4 DEF Committed, GoesOn
        <3> QED BY <1>0, <1>1, <1>2, <1>4, <2>1, <3>1, FrameTypes, TypesKept DEF Committed
    <2>3. ItemsOf(profiles.data)' = ItemsOf(task[t].mod)
        BY <1>4 DEF Committed, ItemsOf
    <2>4. Restoring' => Restoring
        <3>1. task'[t].pc # "apply"
            BY <1>4 DEF Committed
        <3> QED BY <1>1, <3>1, RestoringKept
    <2>5. Whole'
        <3>1. CASE emptied'
            BY <3>1 DEF Whole, Sound, Kept
        <3>2. CASE ~emptied'
            <4>1. Sound(task[t].mod) /\ Kept(task[t].mod) /\ ~emptied
                BY <1>0, <1>1, <1>4, <3>2 DEF Held, Committed
            <4>2. Sound(profiles.data)' /\ Kept(profiles.data)'
                BY <1>0, <1>1, <1>2, <1>4, <2>3, <4>1 DEF Committed, Sound, Kept, Held
            <4>3. CASE profiles.draft = <<>>
                <5>1. Latest(profiles)' = profiles'.data
                    BY <1>4, <4>3 DEF Committed, Latest
                <5> QED BY <4>2, <5>1 DEF Whole, Sound, Kept, ItemsOf
            <4>4. CASE profiles.draft # <<>>
                <5>1. Latest(profiles)' = Latest(profiles)
                    BY <1>4, <4>4 DEF Committed, Latest
                <5>2. ItemsOf(Latest(profiles))' = ItemsOf(Latest(profiles))
                    BY <5>1 DEF ItemsOf
                <5>3. Sound(Latest(profiles))'
                    BY <1>0, <4>1, <5>1, <5>2 DEF Listed, Whole, Sound
                <5>4. Restoring => Kept(Latest(profiles))'
                    BY <1>0, <1>2, <1>4, <4>1, <5>2 DEF Listed, Whole, Kept, Committed
                <5> QED BY <2>4, <4>2, <5>3, <5>4 DEF Whole
            <4> QED BY <4>3, <4>4
        <3> QED BY <3>1, <3>2
    <2>6. Named(t)' /\ Held(t)'
        BY <1>0, <1>4 DEF Named, Held, Committed, GoesOn
    <2>7. Listed'
        BY <1>1, <1>2, <2>5, <2>6, ListedKept
    <2>8. Active(t)' => Active(t) /\ ~Owns(t)'
        BY <1>0, <1>1, <1>4 DEF Active, Owns, Committed, Switches, GoesOn, Pipeline
    <2>9. Active(t)' => switching'
        BY <1>0, <1>4, <2>8 DEF Switches, Committed
    <2>10. task'[t].pc \notin {"modify", "commit", "restore"}
        BY <1>4 DEF Committed
    <2>11. Switches'
        BY <1>1, <1>2, <1>4, <2>8, <2>9, <2>10, SwitchesKept DEF Committed
    <2> QED BY <2>2, <2>7, <2>11 DEF ListInv
<1> QED BY <1>3, <1>4, CommitFacts

LEMMA SaveFacts ==
    ASSUME ListInv, NEW t \in Tasks, Save(t)
    PROVE  /\ Moves(t) /\ task[t].pc = "save" /\ task'[t].pc = "saved"
           /\ task'[t].op = task[t].op /\ task'[t].uid = task[t].uid /\ task'[t].arg = task[t].arg
           /\ task'[t].refresh = task[t].refresh /\ task'[t].out = task[t].out
           /\ permit = None /\ permit' = t /\ moved' = FALSE
           /\ UNCHANGED Frame /\ UNCHANGED <<profiles, switching, kept, late, emptied, clouded>>
<1>1. Types /\ profiles.data \in Lists /\ "saved" \in Pcs
    BY LatestFacts DEF ListInv, Types, Pcs
<1>2. PICK p \in Lists : p = profiles.data
    BY <1>1
<1>3. Clone(t, p, "saved")
    BY <1>2 DEF Save
<1> QED BY <1>1, <1>3, CloneFacts DEF Save, At, Frame, past

LEMMA SaveListed ==
    ASSUME ListInv, NEW t \in Tasks, Save(t)
    PROVE  ListInv'
<1>0. Types /\ Listed /\ Switches /\ Named(t)
    BY DEF ListInv, Listed
<1>1. /\ Moves(t) /\ task[t].pc = "save" /\ task'[t].pc = "saved"
      /\ task'[t].op = task[t].op /\ task'[t].uid = task[t].uid /\ task'[t].arg = task[t].arg
      /\ task'[t].out = task[t].out /\ permit = None /\ permit' = t /\ moved' = FALSE
      /\ UNCHANGED Frame /\ UNCHANGED <<profiles, switching, kept, late, emptied, clouded>>
    BY SaveFacts
<1>2. task[t].op # "idle" /\ exiting' = exiting
    BY <1>0, <1>1, NotIdle, FrameTypes
<1>3. profiles' \in Registers(Lists) /\ switching' \in BOOLEAN /\ clouded' \in BOOLEAN
    BY <1>0, <1>1 DEF Types
<1>4. Types'
    BY <1>0, <1>1, <1>2, <1>3, FrameTypes, TypesKept
<1>5. Whole'
    BY <1>0, <1>1, <1>2, RestoringKept, WholeKept DEF Listed
<1>6. Named(t)' /\ Held(t)'
    BY <1>0, <1>1 DEF Named, Held
<1>7. Listed'
    BY <1>1, <1>5, <1>6, ListedKept
<1>8. ~Owns(t) /\ (Active(t)' <=> Active(t))
    BY <1>1 DEF Owns, Active, Pipeline
<1>9. Active(t)' => switching'
    BY <1>0, <1>1, <1>8 DEF Switches
<1>10. Switches'
    BY <1>1, <1>8, <1>9, SwitchesKept
<1> QED BY <1>4, <1>7, <1>10 DEF ListInv

LEMMA SaveEndFacts ==
    ASSUME ListInv, NEW t \in Tasks, SaveEnd(t)
    PROVE  /\ Moves(t) /\ task[t].pc = "saved" /\ permit' = None /\ moved' = moved /\ UNCHANGED Frame
           /\ UNCHANGED <<profiles, kept, late, emptied>>
           /\ clouded' \in BOOLEAN /\ (clouded => clouded') /\ (moved /\ task[t].op # "switch" => clouded')
           /\ switching' = (switching /\ ~(task[t].op = "switch" /\ task[t].out = "valid"))
           /\ \/ /\ task[t].op = "delete" /\ task[t].refresh
                 /\ GoesOn(t) /\ task'[t].pc = "update" /\ task'[t].out = task[t].out
              \/ /\ task[t].op # "delete" \/ ~task[t].refresh \/ moved
                 /\ task'[t].op = "idle" /\ task'[t].pc = "done"
<1>0. Types /\ task[t].pc = "saved"
    BY DEF ListInv, SaveEnd, At
<1>1. /\ permit' = None /\ moved' = moved /\ UNCHANGED Frame /\ UNCHANGED <<profiles, kept, late, emptied>>
      /\ clouded' \in BOOLEAN /\ (clouded => clouded') /\ (moved /\ task[t].op # "switch" => clouded')
      /\ switching' = (switching /\ ~(task[t].op = "switch" /\ task[t].out = "valid"))
    BY <1>0 DEF SaveEnd, Frame, shared, past, Types
<1>2. CASE task[t].op = "delete" /\ task[t].refresh /\ ~moved
    <2>1. Goto(t, "update") /\ "update" \in Pcs
        BY <1>2 DEF SaveEnd, Pcs, Pipeline
    <2> QED BY <1>0, <1>1, <1>2, <2>1, GotoFacts
<1>3. CASE ~(task[t].op = "delete" /\ task[t].refresh /\ ~moved)
    <2>1. Ended(t)
        BY <1>3 DEF SaveEnd
    <2> QED BY <1>0, <1>1, <1>3, <2>1, EndedFacts
<1> QED BY <1>2, <1>3

LEMMA SaveEndListed ==
    ASSUME ListInv, NEW t \in Tasks, SaveEnd(t)
    PROVE  ListInv'
<1>0. Types /\ Listed /\ Switches /\ Named(t) /\ Held(t)
    BY DEF ListInv, Listed
<1>1. /\ Moves(t) /\ task[t].pc = "saved" /\ permit' = None /\ moved' = moved /\ UNCHANGED Frame
      /\ UNCHANGED <<profiles, kept, late, emptied>> /\ clouded' \in BOOLEAN
      /\ switching' = (switching /\ ~(task[t].op = "switch" /\ task[t].out = "valid"))
    BY SaveEndFacts
<1>2. \/ task[t].op = "delete" /\ task'[t].op = "delete" /\ task'[t].uid = task[t].uid /\ task'[t].pc = "update"
      \/ task'[t].op = "idle" /\ task'[t].pc = "done"
    BY SaveEndFacts DEF GoesOn
<1>3. permit = t /\ exiting' = exiting
    BY <1>0, <1>1, FrameTypes DEF Held
<1>4. profiles' \in Registers(Lists) /\ switching' \in BOOLEAN /\ permit' \in Tasks \cup {None} /\ moved' \in BOOLEAN
    BY <1>0, <1>1 DEF Types
<1>5. Types'
    BY <1>0, <1>1, <1>2, <1>4, FrameTypes, TypesKept
<1>6. Whole'
    BY <1>0, <1>1, <1>2, <1>3, RestoringKept, WholeKept DEF Listed
<1>7. Named(t)' /\ Held(t)'
    BY <1>0, <1>2 DEF Named, Held
<1>8. Listed'
    BY <1>1, <1>3, <1>6, <1>7, ListedKept
<1>9. ~Owns(t) /\ ~Active(t)'
    BY <1>1, <1>2 DEF Owns, Active, Pipeline
<1>10. switching => switching' \/ Active(t)
    BY <1>1 DEF Active
<1>11. Switches'
    BY <1>1, <1>2, <1>9, <1>10, SwitchesKept
<1> QED BY <1>5, <1>8, <1>11 DEF ListInv

LEMMA SwitchOkFacts ==
    ASSUME ListInv, NEW t \in Tasks, SwitchOk(t)
    PROVE  /\ Moves(t) /\ GoesOn(t) /\ task[t].op = "switch" /\ task[t].pc = "after" /\ task[t].out = "valid"
           /\ task'[t].pc = "modify" /\ task'[t].out = "valid"
           /\ profiles' \in Registers(Lists) /\ profiles'.data = profiles.data /\ profiles'.draft = <<>>
           /\ UNCHANGED Frame /\ UNCHANGED <<switching, permit, moved, kept, late, emptied, clouded>>
<1>0. Types /\ profiles' = Discard(profiles) /\ profiles \in Registers(Lists)
    BY DEF ListInv, SwitchOk, Types
<1>1. profiles' \in Registers(Lists) /\ profiles'.data = profiles.data /\ profiles'.draft = <<>>
    BY <1>0, LatestFacts
<1>2. Goto(t, "modify") /\ "modify" \in Pcs
    BY DEF SwitchOk, Pcs
<1>3. UNCHANGED Frame /\ UNCHANGED <<switching, permit, moved, kept, late, emptied, clouded>>
    BY DEF SwitchOk, Frame, shared, past, locks
<1> QED BY <1>0, <1>1, <1>2, <1>3, GotoFacts DEF SwitchOk, At

LEMMA SwitchOkListed ==
    ASSUME ListInv, NEW t \in Tasks, SwitchOk(t)
    PROVE  ListInv'
<1>0. Types /\ Listed /\ Switches /\ Named(t)
    BY DEF ListInv, Listed
<1>1. /\ Moves(t) /\ GoesOn(t) /\ task[t].op = "switch" /\ task[t].pc = "after" /\ task[t].out = "valid"
      /\ task'[t].pc = "modify" /\ task'[t].out = "valid"
      /\ profiles' \in Registers(Lists) /\ profiles'.data = profiles.data /\ profiles'.draft = <<>>
      /\ UNCHANGED Frame /\ UNCHANGED <<switching, permit, moved, kept, late, emptied, clouded>>
    BY SwitchOkFacts
<1>2. /\ switching' \in BOOLEAN /\ clouded' \in BOOLEAN /\ permit' \in Tasks \cup {None} /\ moved' \in BOOLEAN
      /\ task'[t].op = "switch" /\ exiting' = exiting
    BY <1>0, <1>1, FrameTypes DEF Types, GoesOn
<1>3. Types'
    BY <1>0, <1>1, <1>2, FrameTypes, TypesKept
<1>4. Whole'
    BY <1>0, <1>1, <1>2, RestoringKept, WholeKept DEF Listed
<1>5. Named(t)' /\ Held(t)'
    BY <1>0, <1>1, <1>2 DEF Named, Held
<1>6. Listed'
    BY <1>1, <1>2, <1>4, <1>5, ListedKept
<1>7. Active(t) /\ Owns(t) /\ Active(t)'
    BY <1>1, <1>2 DEF Active, Owns
<1>8. switching'
    BY <1>0, <1>1, <1>7 DEF Switches
<1>9. Switches'
    BY <1>1, <1>2, <1>7, <1>8, SwitchesKept
<1> QED BY <1>3, <1>6, <1>9 DEF ListInv

\* The steps that take a refused switch back.
LEMMA SwitchRefusedListed ==
    ASSUME ListInv, NEW t \in Tasks, SwitchRefused(t)
    PROVE  ListInv' /\ clouded' /\ booted' = booted
<1>0. Types /\ Listed /\ Switches /\ Named(t) /\ profiles \in Registers(Lists) /\ profiles' = Discard(profiles)
    BY DEF ListInv, Listed, Types, SwitchRefused
<1>1. /\ task[t].pc = "after" /\ task[t].op = "switch" /\ task[t].out # "valid"
      /\ clouded' = TRUE /\ moved' = moved /\ moved' \in BOOLEAN
      /\ UNCHANGED Frame /\ UNCHANGED <<permit, kept, late, emptied>>
    BY <1>0 DEF SwitchRefused, At, Frame, shared, past, Types
<1>2. /\ Moves(t)
      /\ \/ task'[t].op = "idle" /\ task'[t].pc = "done" /\ switching' = FALSE
         \/ task'[t].op = "switch" /\ task'[t].out # "valid" /\ task'[t].pc = "restore" /\ switching' = switching
    <2>1. CASE task[t].arg = None
        <3>1. Ended(t) /\ switching' = FALSE
            BY <2>1 DEF SwitchRefused
        <3> QED BY <1>0, <3>1, EndedFacts
    <2>2. CASE task[t].arg # None
        <3>1. Goto(t, "restore") /\ "restore" \in Pcs /\ switching' = switching
            BY <2>2 DEF SwitchRefused, Pcs
        <3> QED BY <1>0, <1>1, <3>1, GotoFacts DEF GoesOn
    <2> QED BY <2>1, <2>2
<1>3. profiles' \in Registers(Lists) /\ profiles'.data = profiles.data /\ profiles'.draft = <<>>
    BY <1>0, LatestFacts
<1>4. Active(t) /\ Owns(t) /\ switching /\ (task'[t].op # "switch" => ~Active(t)')
    BY <1>0, <1>1 DEF Active, Owns, Switches
<1>5. switching' \in BOOLEAN /\ clouded' \in BOOLEAN /\ permit' \in Tasks \cup {None} /\ exiting' = exiting
    BY <1>0, <1>1, <1>2, FrameTypes DEF Types
<1>6. Types'
    BY <1>0, <1>1, <1>2, <1>3, <1>5, FrameTypes, TypesKept
<1>7. Whole'
    BY <1>0, <1>1, <1>3, <1>5, WholeKept DEF Listed
<1>8. Named(t)' /\ Held(t)'
    BY <1>2 DEF Named, Held
<1>9. Listed'
    BY <1>1, <1>2, <1>5, <1>7, <1>8, ListedKept
<1>10. Switches'
    BY <1>2, <1>3, <1>4, SwitchesKept
<1> QED BY <1>1, <1>6, <1>9, <1>10 DEF ListInv, Frame

LEMMA RestorePreviousListed ==
    ASSUME ListInv, NEW t \in Tasks, RestorePrevious(t)
    PROVE  ListInv' /\ clouded' /\ booted' = booted
<1>0. Types /\ Listed /\ Switches /\ Named(t) /\ Whole
    BY DEF ListInv, Listed
<1>1. /\ task[t].pc = "restore" /\ task[t].op = "switch" /\ task[t].out # "valid"
      /\ clouded' = TRUE /\ UNCHANGED Frame /\ UNCHANGED <<switching, permit, moved, kept, late, emptied>>
    BY <1>0 DEF RestorePrevious, At, Frame, shared, past, locks, Named
<1>2. Moves(t) /\ task'[t].op = "switch" /\ task'[t].out # "valid" /\ task'[t].pc = "apply"
    <2>1. Goto(t, "apply") /\ "apply" \in Pcs
        BY DEF RestorePrevious, Pcs
    <2> QED BY <1>0, <1>1, <2>1, GotoFacts DEF GoesOn
<1>3. /\ profiles \in Registers(Lists) /\ profiles.data \in Lists /\ profiles.draft = <<>>
      /\ Latest(profiles) = profiles.data
    BY <1>0, <1>1, LatestFacts DEF Types, Switches
<1>4. PICK back : back = PatchConfig(profiles.data, task[t].arg)
    OBVIOUS
<1>5. back \in Lists /\ Sound(back) /\ ItemsOf(back) = ItemsOf(profiles.data)
    <2>1. PICK a : a = task[t].arg
        OBVIOUS
    <2> QED BY <1>0, <1>3, <1>4, <2>1, PatchFacts DEF Whole
<1>6. /\ profiles' \in Registers(Lists) /\ profiles'.data = profiles.data /\ Latest(profiles') = back
    <2>1. profiles' = EditDraft(profiles, back)
        BY <1>3, <1>4 DEF RestorePrevious
    <2> QED BY <1>3, <1>5, <2>1, EditFacts
<1>7. /\ switching' \in BOOLEAN /\ clouded' \in BOOLEAN /\ permit' \in Tasks \cup {None} /\ exiting' = exiting
      /\ moved' \in BOOLEAN
    BY <1>0, <1>1, FrameTypes DEF Types
<1>8. Types'
    BY <1>0, <1>1, <1>2, <1>6, <1>7, FrameTypes, TypesKept
<1>9. Latest(profiles)' = back
    BY <1>6 DEF Latest
<1>10. Whole'
    <2>1. ItemsOf(profiles.data)' = ItemsOf(profiles.data) /\ ItemsOf(Latest(profiles))' = ItemsOf(profiles.data)
        BY <1>5, <1>6, <1>9 DEF ItemsOf
    <2>2. Sound(profiles.data)' /\ Kept(profiles.data)' /\ Kept(Latest(profiles))'
        BY <1>0, <1>1, <1>6, <1>7, <2>1 DEF Whole, Sound, Kept
    <2>3. Sound(Latest(profiles))'
        BY <1>1, <1>5, <1>9, <2>1 DEF Sound
    <2> QED BY <2>2, <2>3 DEF Whole
<1>11. Named(t)' /\ Held(t)'
    BY <1>2 DEF Named, Held
<1>12. Listed'
    BY <1>1, <1>2, <1>7, <1>10, <1>11, ListedKept
<1>13. Active(t) /\ Owns(t)' /\ switching'
    BY <1>0, <1>1, <1>2 DEF Active, Owns, Switches
<1>14. Switches'
    BY <1>1, <1>2, <1>13, SwitchesKept
<1> QED BY <1>1, <1>8, <1>12, <1>14 DEF ListInv, Frame

LEMMA ApplyPreviousListed ==
    ASSUME ListInv, NEW t \in Tasks, ApplyPrevious(t)
    PROVE  ListInv' /\ clouded' /\ booted' = booted
<1>0. Types /\ Listed /\ Switches /\ Named(t) /\ Whole /\ profiles \in Registers(Lists) /\ profiles' = Apply(profiles)
    BY DEF ListInv, Listed, Types, ApplyPrevious
<1>1. /\ task[t].pc = "apply" /\ task[t].op = "switch" /\ task[t].out # "valid"
      /\ clouded' = TRUE /\ switching' = FALSE /\ (moved => moved') /\ moved' \in BOOLEAN
      /\ UNCHANGED Frame /\ UNCHANGED <<permit, kept, late, emptied>>
    BY <1>0 DEF ApplyPrevious, At, Frame, shared, past, Named, Types
<1>2. Moves(t) /\ task'[t].op = "switch" /\ task'[t].out # "valid" /\ task'[t].pc = "save"
    <2>1. Goto(t, "save") /\ "save" \in Pcs
        BY DEF ApplyPrevious, Pcs
    <2> QED BY <1>0, <1>1, <2>1, GotoFacts DEF GoesOn
<1>3. /\ profiles' \in Registers(Lists) /\ profiles'.data = Latest(profiles) /\ profiles'.draft = <<>>
    BY <1>0, LatestFacts
<1>4. switching' \in BOOLEAN /\ clouded' \in BOOLEAN /\ permit' \in Tasks \cup {None} /\ exiting' = exiting
    BY <1>0, <1>1, FrameTypes DEF Types
<1>5. Types'
    BY <1>0, <1>1, <1>2, <1>3, <1>4, FrameTypes, TypesKept
<1>6. Whole'
    <2>1. Kept(Latest(profiles)) /\ Sound(Latest(profiles))
        BY <1>0, <1>1 DEF Whole, Restoring, At
    <2>2. /\ ItemsOf(profiles.data)' = ItemsOf(Latest(profiles)) /\ profiles'.data.current = Latest(profiles).current
          /\ Latest(profiles)' = profiles'.data
        BY <1>3 DEF ItemsOf, Latest
    <2>3. Sound(profiles.data)' /\ Kept(profiles.data)'
        BY <1>1, <1>4, <2>1, <2>2 DEF Sound, Kept
    <2> QED BY <2>2, <2>3 DEF Whole, Sound, Kept, ItemsOf
<1>7. Named(t)' /\ Held(t)'
    BY <1>2 DEF Named, Held
<1>8. Listed'
    BY <1>1, <1>2, <1>4, <1>6, <1>7, ListedKept
<1>9. Active(t) /\ ~Active(t)'
    BY <1>1, <1>2 DEF Active, Owns, Pipeline
<1>10. Switches'
    BY <1>1, <1>2, <1>3, <1>9, SwitchesKept
<1> QED BY <1>1, <1>5, <1>8, <1>10 DEF ListInv, Frame

\* The runtime register keeps its profile, if some of its keys change.
RuntimeKept ==
    /\ runtime' \in Registers(Cfgs) /\ Latest(runtime)'.uid = Latest(runtime).uid
    /\ Latest(runtime) # NoCfg => Latest(runtime)' # NoCfg

LEMMA RuntimeSame ==
    ASSUME Types, UNCHANGED runtime
    PROVE  RuntimeKept
BY DEF RuntimeKept, Types, Latest

\* A step beside the list: a command is given, waits for a file or ends.
Aside(t) ==
    /\ Moves(t) /\ Types' /\ Named(t)' /\ task[t].op # "switch" /\ task'[t].op # "switch"
    /\ UNCHANGED <<profiles, runFile, core, switching, updating, permit, moved, booted, exiting, kept, late, emptied>>
    /\ RuntimeKept
    /\ task[t].op # "idle" \/ booted
    /\ clouded => clouded'
    /\ Doomed(t) => clouded'
    /\ task[t].pc \in {"done", "after", "check_file", "download"}
    /\ task'[t].pc \in {"done", "modify", "update", "check_file", "download", "generate", "restart"}
    /\ task'[t].pc = "generate" <=> task'[t].op = "patch_restart"
    /\ task'[t].pc = "restart" <=> task'[t].op = "restart"
    /\ task'[t].op = "patch_restart" => clouded' \/ ~Running({"switch", "delete"})
    /\ task'[t].op = "delete" => task'[t].pc = "modify" /\ (clouded' \/ ~Running({"patch_restart"}))

LEMMA AsideListed ==
    ASSUME ListInv, NEW t \in Tasks, Aside(t)
    PROVE  ListInv'
<1>1. task'[t].pc \notin {"commit", "saved", "apply"}
    BY DEF Aside
<1> QED BY <1>1, Bystander DEF Aside

LEMMA SameTypes ==
    ASSUME Types
    PROVE  /\ profiles \in Registers(Lists) /\ verge \in Registers(Int) /\ runtime \in Registers(Cfgs)
           /\ file \in [Uids -> Stored] /\ runFile \in Cfgs /\ core \in Cfgs /\ switching \in BOOLEAN
           /\ moved \in BOOLEAN /\ booted \in BOOLEAN /\ exiting \in BOOLEAN /\ clouded \in BOOLEAN
           /\ updating \in Tasks \cup {None} /\ validating \in Tasks \cup {None}
           /\ lifecycle \in Tasks \cup {None} /\ permit \in Tasks \cup {None}
BY DEF Types

LEMMA IdleFacts ==
    ASSUME ListInv, NEW t \in Tasks, NEW op, Given(t, op)
    PROVE  Types /\ task[t].op = "idle" /\ task[t].pc = "done" /\ ~Doomed(t) /\ booted /\ ~exiting
BY DEF ListInv, Types, Given, Idle, Doomed

LEMMA CheckFileAside ==
    ASSUME ListInv, NEW t \in Tasks, CheckFile(t)
    PROVE  Aside(t)
<1>0. Types /\ Named(t) /\ task[t].pc = "check_file"
    BY DEF ListInv, Listed, CheckFile, At
<1>1. task[t].op = "save_file" /\ task[t].uid \in Uids /\ task[t].arg \in Stored
    BY <1>0 DEF Named
<1>2. file' \in [Uids -> Stored] /\ clouded' \in BOOLEAN /\ (clouded => clouded')
    BY <1>0, <1>1 DEF CheckFile, RestoreOriginal, Types
<1>3. UNCHANGED <<profiles, verge, runtime, runFile, core, switching, updating, validating, lifecycle, permit,
                  moved, booted, exiting, kept, late, emptied>>
    BY DEF CheckFile, locks, past
<1>4. CASE Goto(t, "update")
    <2>1. "update" \in Pcs
        BY DEF Pcs, Pipeline
    <2>2. /\ Moves(t) /\ task'[t].pc = "update" /\ task'[t].op = "save_file"
          /\ task'[t].uid = task[t].uid /\ task'[t].arg = task[t].arg
        BY <1>0, <1>1, <1>4, <2>1, GotoFacts DEF GoesOn
    <2>3. Types'
        BY <1>0, <1>2, <1>3, <2>2, SameTypes, TypesKept
    <2> QED BY <1>0, <1>1, <1>2, <1>3, <2>2, <2>3, RuntimeSame DEF Aside, Named, Doomed
<1>5. CASE Ended(t)
    <2>2. Moves(t) /\ task'[t].pc = "done" /\ task'[t].op = "idle"
        BY <1>0, <1>5, EndedFacts
    <2>3. Types'
        BY <1>0, <1>2, <1>3, <2>2, SameTypes, TypesKept
    <2> QED BY <1>0, <1>1, <1>2, <1>3, <2>2, <2>3, RuntimeSame DEF Aside, Named, Doomed
<1> QED BY <1>4, <1>5 DEF CheckFile

LEMMA DownloadAside ==
    ASSUME ListInv, NEW t \in Tasks, Download(t)
    PROVE  Aside(t)
<1>0. Types /\ Named(t) /\ task[t].pc = "download"
    BY DEF ListInv, Listed, Download, At
<1>1. task[t].op \in {"update", "auto"}
    BY <1>0 DEF Named
<1>2. UNCHANGED <<profiles, verge, runtime, file, runFile, core, switching, updating, validating, lifecycle, permit,
                  moved, booted, exiting, kept, late, emptied, clouded>>
    BY DEF Download, locks, shared, past
<1>3. CASE Goto(t, "update")
    <2>1. "update" \in Pcs
        BY DEF Pcs, Pipeline
    <2>2. Moves(t) /\ task'[t].pc = "update" /\ task'[t].op = task[t].op
        BY <1>0, <1>3, <2>1, GotoFacts DEF GoesOn
    <2>3. Types'
        BY <1>0, <1>1, <1>2, <2>2, SameTypes, TypesKept
    <2> QED BY <1>0, <1>1, <1>2, <2>2, <2>3, RuntimeSame DEF Aside, Named, Doomed
<1>4. CASE Ended(t)
    <2>2. Moves(t) /\ task'[t].pc = "done" /\ task'[t].op = "idle"
        BY <1>0, <1>4, EndedFacts
    <2>3. Types'
        BY <1>0, <1>2, <2>2, SameTypes, TypesKept
    <2> QED BY <1>0, <1>1, <1>2, <2>2, <2>3, RuntimeSame DEF Aside, Named, Doomed
<1>5. CASE \E c \in Contents : task' = [task EXCEPT ![t].arg = c, ![t].pc = "modify"]
    <2>1. PICK c \in Contents : task' = [task EXCEPT ![t].arg = c, ![t].pc = "modify"]
        BY <1>5
    <2>2. PICK r : r = [task[t] EXCEPT !.arg = c, !.pc = "modify"]
        OBVIOUS
    <2>3. task[t] \in TaskRecords /\ c \in Names \cup Stored /\ "modify" \in Pcs /\ task \in [Tasks -> TaskRecords]
        BY <1>0 DEF Types, Stored, Pcs
    <2>4. r \in TaskRecords
        BY <2>2, <2>3, Zenon DEF TaskRecords
    <2>5. task' = [task EXCEPT ![t] = r]
        BY <2>1, <2>2, <2>3
    <2>6. Moves(t) /\ task'[t] = r
        BY <1>0, <2>4, <2>5, Replaced
    <2>7. r.op = task[t].op /\ r.pc = "modify" /\ r.arg = c
        BY <2>2, <2>3 DEF TaskRecords
    <2>8. Types'
        BY <1>0, <1>1, <1>2, <2>6, <2>7, SameTypes, TypesKept
    <2> QED BY <1>0, <1>1, <1>2, <2>6, <2>7, <2>8, RuntimeSame DEF Aside, Named, Doomed
<1> QED BY <1>3, <1>4, <1>5 DEF Download

LEMMA EndAside ==
    ASSUME ListInv, NEW t \in Tasks, PatchEnd(t) \/ CommandEnd(t)
    PROVE  Aside(t)
<1>0. Types /\ Named(t) /\ task[t].pc = "after" /\ task[t].op \notin {"switch", "idle"}
    BY DEF ListInv, Listed, PatchEnd, CommandEnd, At
<1>1. UNCHANGED <<profiles, runtime, runFile, core, switching, updating, validating, lifecycle, permit,
                  moved, booted, exiting, kept, late, emptied>>
    BY DEF PatchEnd, CommandEnd, locks, shared, past
<1>2. clouded' = (clouded \/ task[t].out # "valid") /\ Ended(t)
    BY DEF PatchEnd, CommandEnd
<1>3. verge' \in Registers(Int) /\ file' \in [Uids -> Stored]
    <2>1. verge \in Registers(Int) /\ Apply(verge) \in Registers(Int) /\ file \in [Uids -> Stored]
        BY <1>0, LatestFacts DEF Types
    <2>2. CASE PatchEnd(t)
        BY <2>1, <2>2 DEF PatchEnd, shared, past
    <2>3. CASE CommandEnd(t)
        <3>1. task[t].op = "save_file" => task[t].uid \in Uids /\ task[t].arg \in Stored
            BY <1>0 DEF Named
        <3> QED BY <2>1, <2>3, <3>1 DEF CommandEnd, RestoreOriginal
    <2> QED BY <2>2, <2>3
<1>4. Moves(t) /\ task'[t].pc = "done" /\ task'[t].op = "idle"
    BY <1>0, <1>2, EndedFacts
<1>5. clouded' \in BOOLEAN /\ (clouded => clouded') /\ (Doomed(t) => clouded')
    BY <1>0, <1>2 DEF Types, Doomed
<1>6. Types'
    BY <1>0, <1>1, <1>3, <1>4, <1>5, SameTypes, TypesKept
<1> QED BY <1>0, <1>1, <1>4, <1>5, <1>6, RuntimeSame DEF Aside, Named

\* The commands that are given while the list stays as it is.
LEMMA GivenAside ==
    ASSUME ListInv, NEW t \in Tasks, NEW op0, Given(t, op0), Moves(t),
           task'[t].op \in Ops \ {"idle", "switch"}, Named(t)',
           UNCHANGED <<profiles, runFile, core, switching, updating, validating, lifecycle, permit,
                       moved, booted, exiting, kept, late, emptied>>, RuntimeKept,
           verge' \in Registers(Int), file' \in [Uids -> Stored], clouded' \in BOOLEAN, clouded => clouded',
           task'[t].pc \in {"modify", "update", "check_file", "download", "generate", "restart"},
           task'[t].pc = "generate" <=> task'[t].op = "patch_restart",
           task'[t].pc = "restart" <=> task'[t].op = "restart",
           task'[t].op = "patch_restart" => clouded' \/ ~Running({"switch", "delete"}),
           task'[t].op = "delete" => task'[t].pc = "modify" /\ (clouded' \/ ~Running({"patch_restart"}))
    PROVE  Aside(t)
<1>1. Types /\ task[t].op = "idle" /\ task[t].pc = "done" /\ ~Doomed(t) /\ booted
    BY IdleFacts
<1>2. Types'
    BY <1>1, SameTypes, TypesKept DEF RuntimeKept
<1> QED BY <1>1, <1>2 DEF Aside

LEMMA CreateAside ==
    ASSUME ListInv, NEW t \in Tasks, NEW u \in NewUids, NEW c \in {"v1"}, Create(t, u, c)
    PROVE  Aside(t)
<1>0. Types
    BY DEF ListInv
<1>1. u \in Uids /\ u \in Names /\ c \in Contents /\ c \in Names \cup Stored /\ "create" \in Ops /\ "modify" \in Pcs
    BY DEF Uids, Names, Contents, Stored, Ops, Pcs
<1>2. Moves(t) /\ task'[t].op = "create" /\ task'[t].uid = u /\ task'[t].pc = "modify" /\ task'[t].arg = c
    <2>1. Starts(t, "create", u, "modify", c)
        BY DEF Create, Starts
    <2> QED BY <1>0, <1>1, <2>1, GivenTask
<1>3. UNCHANGED <<profiles, verge, runtime, file, runFile, core, switching, updating, validating, lifecycle, permit,
                  moved, booted, exiting, kept, late, emptied, clouded>> /\ Given(t, "create")
    BY DEF Create, shared, past, locks
<1>4. Named(t)'
    BY <1>1, <1>2 DEF Named
<1>5. verge' \in Registers(Int) /\ file' \in [Uids -> Stored] /\ clouded' \in BOOLEAN
    BY <1>0, <1>3, SameTypes
<1>6. RuntimeKept
    BY <1>0, <1>1, <1>2, <1>3, <1>4, <1>5, RuntimeSame
<1> QED BY <1>1, <1>2, <1>3, <1>4, <1>5, <1>6, GivenAside

LEMMA DeleteAside ==
    ASSUME ListInv, NEW t \in Tasks, NEW u \in Deletable, Delete(t, u)
    PROVE  Aside(t)
<1>0. Types
    BY DEF ListInv
<1>1. u \in Names /\ None \in Names \cup Stored /\ "delete" \in Ops /\ "modify" \in Pcs
    BY DEF Names, Ops, Pcs
<1>2. Moves(t) /\ task'[t].op = "delete" /\ task'[t].uid = u /\ task'[t].pc = "modify"
    <2>1. Starts(t, "delete", u, "modify", None)
        BY DEF Delete, Starts
    <2> QED BY <1>0, <1>1, <2>1, GivenTask
<1>3. UNCHANGED <<profiles, verge, runtime, file, runFile, core, switching, updating, validating, lifecycle, permit,
                  moved, booted, exiting, kept, late, emptied>> /\ Given(t, "delete")
    BY DEF Delete, shared, past, locks
<1>4. Named(t)'
    BY <1>1, <1>2 DEF Named
<1>5. /\ verge' \in Registers(Int) /\ file' \in [Uids -> Stored] /\ clouded' \in BOOLEAN /\ (clouded => clouded')
      /\ clouded' \/ ~Running({"patch_restart"})
    BY <1>0, <1>3, SameTypes DEF Delete
<1>6. RuntimeKept
    BY <1>0, <1>1, <1>2, <1>3, <1>4, <1>5, RuntimeSame
<1> QED BY <1>1, <1>2, <1>3, <1>4, <1>5, <1>6, GivenAside

LEMMA ReorderAside ==
    ASSUME ListInv, NEW t \in Tasks, NEW p \in Reordered, ReorderItems(t, p[1], p[2])
    PROVE  Aside(t)
<1>0. Types
    BY DEF ListInv
<1>1. PICK x, y : x = p[1] /\ y = p[2]
    OBVIOUS
<1>2. x \in Names /\ y \in Names \cup Stored /\ "reorder" \in Ops /\ "modify" \in Pcs
    BY <1>1 DEF Names, Ops, Pcs
<1>3. Moves(t) /\ task'[t].op = "reorder" /\ task'[t].uid = x /\ task'[t].pc = "modify" /\ task'[t].arg = y
    <2>1. Starts(t, "reorder", x, "modify", y)
        BY <1>1 DEF ReorderItems, Starts
    <2> QED BY <1>0, <1>2, <2>1, GivenTask
<1>4. UNCHANGED <<profiles, verge, runtime, file, runFile, core, switching, updating, validating, lifecycle, permit,
                  moved, booted, exiting, kept, late, emptied, clouded>> /\ Given(t, "reorder")
    BY DEF ReorderItems, shared, past, locks
<1>5. Named(t)'
    BY <1>3 DEF Named
<1>6. verge' \in Registers(Int) /\ file' \in [Uids -> Stored] /\ clouded' \in BOOLEAN
    BY <1>0, <1>4, SameTypes
<1>7. RuntimeKept
    BY <1>0, <1>2, <1>3, <1>4, <1>5, <1>6, RuntimeSame
<1> QED BY <1>2, <1>3, <1>4, <1>5, <1>6, <1>7, GivenAside

LEMMA UpdateProfileAside ==
    ASSUME ListInv, NEW t \in Tasks, NEW u \in SwitchTo, NEW op \in {"update", "auto"}, UpdateProfile(t, op, u)
    PROVE  Aside(t)
<1>0. Types
    BY DEF ListInv
<1>1. u \in Names /\ None \in Names \cup Stored /\ op \in Ops /\ "download" \in Pcs
    BY DEF Names, Ops, Pcs
<1>2. PICK x : x = Latest(profiles).current
    OBVIOUS
<1>3. Moves(t) /\ task'[t].op = op /\ task'[t].uid = u /\ task'[t].pc = "download"
    <2>1. Begins(t, op, u, "download", None, x)
        BY <1>2, Zenon DEF UpdateProfile, Begins
    <2> QED BY <1>0, <1>1, <2>1, GivenRefreshing
<1>4. UNCHANGED <<profiles, verge, runtime, file, runFile, core, switching, updating, validating, lifecycle, permit,
                  moved, booted, exiting, kept, late, emptied, clouded>> /\ Given(t, op)
    BY DEF UpdateProfile, shared, past, locks
<1>5. Named(t)'
    BY <1>3 DEF Named
<1>6. verge' \in Registers(Int) /\ file' \in [Uids -> Stored] /\ clouded' \in BOOLEAN
    BY <1>0, <1>4, SameTypes
<1>7. RuntimeKept
    BY <1>0, <1>1, <1>3, <1>4, <1>5, <1>6, RuntimeSame
<1> QED BY <1>1, <1>3, <1>4, <1>5, <1>6, <1>7, GivenAside

LEMMA SaveProfileAside ==
    ASSUME ListInv, NEW t \in Tasks, NEW u \in SwitchTo, NEW c \in Contents, SaveProfile(t, u, c)
    PROVE  Aside(t)
<1>0. Types
    BY DEF ListInv
<1>1. u \in Names /\ c \in Stored /\ "save_file" \in Ops /\ "check_file" \in Pcs
    BY DEF Names, Ops, Pcs, Stored
<1>2. u \in Uids
    <2>1. Latest(profiles) \in Lists
        BY <1>0, LatestFacts DEF Types
    <2> QED BY <2>1, ItemsFacts DEF SaveProfile
<1>3. PICK x, old : x = Latest(profiles).current /\ old = file[u]
    OBVIOUS
<1>4. old \in Stored /\ old \in Names \cup Stored
    BY <1>0, <1>2, <1>3 DEF Types
<1>5. Moves(t) /\ task'[t].op = "save_file" /\ task'[t].uid = u /\ task'[t].pc = "check_file" /\ task'[t].arg = old
    <2>1. Begins(t, "save_file", u, "check_file", old, x)
        BY <1>3, Zenon DEF SaveProfile, Begins
    <2> QED BY <1>0, <1>1, <1>4, <2>1, GivenRefreshing
<1>6. UNCHANGED <<profiles, verge, runtime, runFile, core, switching, updating, validating, lifecycle, permit,
                  moved, booted, exiting, kept, late, emptied, clouded>> /\ Given(t, "save_file")
    BY DEF SaveProfile, locks, past
<1>7. Named(t)'
    BY <1>2, <1>4, <1>5 DEF Named
<1>8. file' \in [Uids -> Stored]
    BY <1>0, <1>1, <1>2, FileChange DEF SaveProfile
<1>9. verge' \in Registers(Int) /\ clouded' \in BOOLEAN
    BY <1>0, <1>6, SameTypes
<1>10. RuntimeKept
    BY <1>0, <1>1, <1>5, <1>6, <1>7, <1>8, <1>9, RuntimeSame
<1> QED BY <1>1, <1>5, <1>6, <1>7, <1>8, <1>9, <1>10, GivenAside

LEMMA PatchSettingsAside ==
    ASSUME ListInv, NEW t \in Tasks, NEW how \in {"patch_restart", "patch_reload"}, PatchSettings(t, 1, how)
    PROVE  Aside(t)
<1>0. Types
    BY DEF ListInv
<1>1. PICK pc : pc = IF how = "patch_restart" THEN "generate" ELSE "update"
    OBVIOUS
<1>2. None \in Names /\ None \in Names \cup Stored /\ how \in Ops /\ pc \in Pcs
    BY <1>1 DEF Names, Ops, Pcs, Pipeline
<1>3. Moves(t) /\ task'[t].op = how /\ task'[t].pc = pc
    <2>1. Starts(t, how, None, pc, None)
        BY <1>1 DEF PatchSettings, Starts
    <2> QED BY <1>0, <1>1, <1>2, <2>1, GivenTask
<1>4. UNCHANGED <<profiles, file, runFile, core, switching, updating, validating, lifecycle, permit,
                  moved, booted, exiting, kept, late, emptied>> /\ Given(t, how)
    BY DEF PatchSettings, shared, past, locks
<1>5. Named(t)'
    BY <1>1, <1>3 DEF Named
<1>6. verge' \in Registers(Int)
    <2>1. 1 \in Int /\ verge \in Registers(Int)
        BY <1>0 DEF Types
    <2> QED BY <2>1, EditFacts DEF PatchSettings
<1>7. file' \in [Uids -> Stored]
    BY <1>0, <1>4, SameTypes
<1>8. clouded' \in BOOLEAN /\ (clouded => clouded') /\ (how = "patch_restart" => clouded' \/ ~Running({"switch", "delete"}))
    BY <1>0 DEF Types, PatchSettings
<1>9. RuntimeKept
    <2>1. CASE UNCHANGED runtime
        BY <1>0, <2>1, RuntimeSame
    <2>2. CASE PatchRuntime(1)
        <3>1. runtime \in Registers(Cfgs) /\ Latest(runtime) \in Cfgs
            BY <1>0, LatestFacts DEF Types
        <3>2. PICK c : c = IF Latest(runtime) = NoCfg THEN NoCfg ELSE [Latest(runtime) EXCEPT !.verge = 1]
            OBVIOUS
        <3>3. c \in Cfgs /\ c.uid = Latest(runtime).uid /\ (Latest(runtime) # NoCfg => c # NoCfg)
            <4>1. CASE Latest(runtime) = NoCfg
                BY <3>1, <3>2, <4>1
            <4>2. CASE Latest(runtime) # NoCfg
                <5>1. c = [Latest(runtime) EXCEPT !.verge = 1]
                    BY <3>2, <4>2
                <5>2. c \in Cfgs
                    BY <3>1, <5>1 DEF Cfgs
                <5>3. c.uid = Latest(runtime).uid /\ c.verge = 1 /\ NoCfg.verge = 0
                    BY <3>1, <5>1 DEF Cfgs, NoCfg, Cfg
                <5> QED BY <5>2, <5>3
            <4> QED BY <4>1, <4>2
        <3>4. runtime' = EditDraft(runtime, c)
            BY <2>2, <3>2 DEF PatchRuntime
        <3>5. runtime' \in Registers(Cfgs) /\ Latest(runtime') = c
            BY <3>1, <3>3, <3>4, EditFacts
        <3>6. Latest(runtime)' = c
            BY <3>5 DEF Latest
        <3> QED BY <3>3, <3>5, <3>6 DEF RuntimeKept
    <2> QED BY <2>1, <2>2 DEF PatchSettings
<1> QED BY <1>1, <1>2, <1>3, <1>4, <1>5, <1>6, <1>7, <1>8, <1>9, GivenAside

LEMMA RestartCommandAside ==
    ASSUME ListInv, NEW t \in Tasks, RestartCommand(t)
    PROVE  Aside(t)
<1>0. Types
    BY DEF ListInv
<1>1. None \in Names /\ None \in Names \cup Stored /\ "restart" \in Ops /\ "restart" \in Pcs
    BY DEF Names, Ops, Pcs, Pipeline
<1>2. Moves(t) /\ task'[t].op = "restart" /\ task'[t].pc = "restart"
    BY <1>0, <1>1, GivenTask DEF RestartCommand, Starts
<1>3. UNCHANGED <<profiles, verge, runtime, file, runFile, core, switching, updating, validating, lifecycle, permit,
                  moved, booted, exiting, kept, late, emptied, clouded>> /\ Given(t, "restart")
    BY DEF RestartCommand, locks, past
<1>4. Named(t)'
    BY <1>2 DEF Named
<1>5. verge' \in Registers(Int) /\ file' \in [Uids -> Stored] /\ clouded' \in BOOLEAN
    BY <1>0, <1>3, SameTypes
<1>6. RuntimeKept
    BY <1>0, <1>1, <1>2, <1>3, <1>4, <1>5, RuntimeSame
<1> QED BY <1>1, <1>2, <1>3, <1>4, <1>5, <1>6, GivenAside

LEMMA SwitchFacts ==
    ASSUME ListInv, NEW t \in Tasks, NEW u \in SwitchTo, Switch(t, u)
    PROVE  /\ Moves(t) /\ task[t].op = "idle" /\ task[t].pc = "done" /\ ~Doomed(t)
           /\ task'[t].op = "switch" /\ task'[t].uid = u /\ task'[t].pc = "update"
           /\ profiles' \in Registers(Lists) /\ profiles'.data = profiles.data /\ profiles'.draft # <<>>
           /\ Sound(Latest(profiles)') /\ (~clouded' => Latest(profiles)'.current = u)
           /\ ~clouded' => u \in ItemsOf(Latest(profiles)) /\ ~Running({"patch_restart"}) /\ ~clouded
           /\ ~switching /\ switching' = TRUE /\ clouded' \in BOOLEAN
           /\ UNCHANGED Frame /\ UNCHANGED <<permit, moved, kept, late, emptied>>
<1>0. Types /\ Listed /\ Given(t, "switch")
    BY DEF ListInv, Switch
<1>1. profiles \in Registers(Lists) /\ profiles.data \in Lists /\ Latest(profiles) \in Lists /\ Sound(Latest(profiles))
    BY <1>0, LatestFacts DEF Types, Listed, Whole
<1>2. PICK old : old = profiles.data.current
    OBVIOUS
<1>3. old \in Names \cup Stored /\ u \in Names /\ "switch" \in Ops /\ "update" \in Pcs
    BY <1>1, <1>2, ItemsFacts DEF Names, Ops, Pcs, Pipeline
<1>4. Starts(t, "switch", u, "update", old)
    BY <1>2 DEF Switch, Starts
<1>5. Moves(t) /\ task'[t].op = "switch" /\ task'[t].uid = u /\ task'[t].pc = "update"
    BY <1>0, <1>3, <1>4, GivenTask
<1>6. PICK p : p = PatchConfig(Latest(profiles), u)
    OBVIOUS
<1>7. p \in Lists /\ Sound(p) /\ (u \in ItemsOf(Latest(profiles)) => p.current = u)
    BY <1>1, <1>6, PatchFacts
<1>8. profiles' = EditDraft(profiles, p)
    BY <1>6 DEF Switch
<1>9. /\ profiles' \in Registers(Lists) /\ profiles'.data = profiles.data /\ profiles'.draft # <<>>
      /\ Latest(profiles') = p
    BY <1>1, <1>7, <1>8, EditFacts
<1>10. Latest(profiles)' = p
    BY <1>9 DEF Latest
<1>11. /\ ~switching /\ switching' = TRUE /\ clouded' \in BOOLEAN
       /\ ~clouded' => u \in ItemsOf(Latest(profiles)) /\ ~Running({"patch_restart"}) /\ ~clouded
       /\ UNCHANGED Frame /\ UNCHANGED <<permit, moved, kept, late, emptied>>
    BY <1>0 DEF Switch, Frame, shared, past, Types
<1>12. task[t].op = "idle" /\ task[t].pc = "done" /\ ~Doomed(t)
    BY <1>0, IdleFacts
<1> QED BY <1>5, <1>7, <1>9, <1>10, <1>11, <1>12

LEMMA SwitchListed ==
    ASSUME ListInv, NEW t \in Tasks, NEW u \in SwitchTo, Switch(t, u)
    PROVE  ListInv'
<1>0. Types /\ Listed /\ Switches
    BY DEF ListInv
<1>1. /\ Moves(t) /\ task[t].op = "idle" /\ task[t].pc = "done"
      /\ task'[t].op = "switch" /\ task'[t].uid = u /\ task'[t].pc = "update"
      /\ profiles' \in Registers(Lists) /\ profiles'.data = profiles.data /\ profiles'.draft # <<>>
      /\ Sound(Latest(profiles)') /\ ~switching /\ switching' = TRUE /\ clouded' \in BOOLEAN
      /\ UNCHANGED Frame /\ UNCHANGED <<permit, moved, kept, late, emptied>>
    BY SwitchFacts
<1>2. permit' \in Tasks \cup {None} /\ moved' \in BOOLEAN /\ exiting' = exiting /\ switching' \in BOOLEAN
    BY <1>0, <1>1, FrameTypes DEF Types
<1>3. Types'
    BY <1>0, <1>1, <1>2, FrameTypes, TypesKept
<1>4. Whole'
    <2>1. ~Restoring'
        <3>1. \A s \in Tasks : task[s].pc # "apply"
            BY <1>0, <1>1 DEF Switches, Active, Owns, Listed, Named
        <3> QED BY <1>1, <3>1 DEF Restoring, At, Moves
    <2>2. ItemsOf(profiles.data)' = ItemsOf(profiles.data) /\ ItemsOf(Latest(profiles))' = ItemsOf(Latest(profiles)')
        BY <1>1 DEF ItemsOf
    <2>3. Sound(profiles.data)' /\ Kept(profiles.data)'
        BY <1>0, <1>1, <1>2, <2>2 DEF Listed, Whole, Sound, Kept
    <2>4. Sound(Latest(profiles))'
        BY <1>1, <2>2 DEF Sound
    <2> QED BY <2>1, <2>3, <2>4 DEF Whole
<1>5. Named(t)' /\ Held(t)'
    BY <1>1 DEF Named, Held
<1>6. Listed'
    BY <1>1, <1>2, <1>4, <1>5, ListedKept
<1>7. Owns(t)'
    BY <1>1 DEF Owns, Pipeline
<1>8. Switches'
    BY <1>1, <1>7, SwitchesKept
<1> QED BY <1>3, <1>6, <1>8 DEF ListInv

LEMMA UpdateRuntimeFacts ==
    ASSUME ListInv, NEW t \in Tasks, UpdateRuntime(t)
    PROVE  /\ Moves(t) /\ task[t].op = "idle" /\ task[t].pc = "done" /\ ~Doomed(t)
           /\ task'[t].op = "chain" /\ task'[t].pc = "validate"
           /\ runtime' \in Registers(Cfgs) /\ Latest(runtime)' = Latest(runtime)
           /\ updating = None /\ updating' = t
           /\ UNCHANGED <<profiles, verge, file, runFile, core, switching, validating, lifecycle, permit, moved,
                          booted, exiting, kept, late, emptied, clouded>>
<1>0. Types /\ Given(t, "chain")
    BY DEF ListInv, UpdateRuntime
<1>1. task[t].op = "idle" /\ task[t].pc = "done" /\ ~Doomed(t)
    BY <1>0, IdleFacts
<1>2. None \in Names /\ None \in Names \cup Stored /\ "chain" \in Ops /\ "validate" \in Pcs
    BY DEF Names, Ops, Pcs, Pipeline
<1>3. Starts(t, "chain", None, "validate", None)
    BY DEF UpdateRuntime, Starts
<1>4. Moves(t) /\ task'[t].op = "chain" /\ task'[t].pc = "validate"
    BY <1>0, <1>2, <1>3, GivenTask
<1>5. PICK c : c = Latest(runtime)
    OBVIOUS
<1>6. c \in Cfgs /\ runtime \in Registers(Cfgs) /\ runtime' = EditDraft(runtime, c)
    BY <1>0, <1>5, LatestFacts DEF UpdateRuntime, Types
<1>7. runtime' \in Registers(Cfgs) /\ Latest(runtime') = c
    BY <1>6, EditFacts
<1>8. Latest(runtime)' = Latest(runtime)
    BY <1>5, <1>7 DEF Latest
<1>9. /\ updating = None /\ updating' = t
      /\ UNCHANGED <<profiles, verge, file, runFile, core, switching, validating, lifecycle, permit, moved,
                     booted, exiting, kept, late, emptied, clouded>>
    BY DEF UpdateRuntime, shared, past
<1> QED BY <1>1, <1>4, <1>7, <1>8, <1>9

LEMMA UpdateRuntimeListed ==
    ASSUME ListInv, NEW t \in Tasks, UpdateRuntime(t)
    PROVE  ListInv'
<1>0. Types
    BY DEF ListInv
<1>1. /\ Moves(t) /\ task[t].op = "idle" /\ task'[t].op = "chain" /\ task'[t].pc = "validate"
      /\ runtime' \in Registers(Cfgs) /\ updating' = t
      /\ UNCHANGED <<profiles, verge, file, runFile, core, switching, validating, lifecycle, permit, moved,
                     booted, exiting, kept, late, emptied, clouded>>
    BY UpdateRuntimeFacts
<1>2. Types'
    BY <1>0, <1>1, SameTypes, TypesKept
<1>3. Named(t)'
    BY <1>1 DEF Named
<1> QED BY <1>1, <1>2, <1>3, Bystander

LEMMA ExpireListed ==
    ASSUME ListInv, NEW t \in Tasks, Expire(t)
    PROVE  ListInv' /\ clouded' /\ booted' = booted
<1>0. Types /\ Listed /\ Switches /\ Named(t)
    BY DEF ListInv, Listed
<1>1. /\ updating' = Release(updating, t) /\ validating' = Release(validating, t)
      /\ lifecycle' = Release(lifecycle, t) /\ permit' = Release(permit, t) /\ clouded' = TRUE
      /\ UNCHANGED <<profiles, verge, runtime, file, runFile, core, switching, moved, booted, exiting, kept, late, emptied>>
    BY DEF Expire, shared, past
<1>2. /\ updating' \in Tasks \cup {None} /\ validating' \in Tasks \cup {None} /\ clouded' \in BOOLEAN
      /\ lifecycle' \in Tasks \cup {None} /\ permit' \in Tasks \cup {None} /\ (permit' = permit \/ permit = t)
    BY <1>0, <1>1, ReleaseTypes DEF Types
<1>3. CASE task[t].op = "switch" /\ task[t].pc \in Pipeline /\ Answered(t, "timeout")
    <2>1. "timeout" \in Outs
        BY DEF Outs
    <2>2. Moves(t) /\ GoesOn(t) /\ task'[t].pc = "after" /\ task'[t].op = "switch"
        BY <1>0, <1>3, <2>1, AnsweredFacts DEF GoesOn
    <2>3. Types'
        BY <1>0, <1>1, <1>2, <2>2, SameTypes, TypesKept
    <2>4. Whole'
        BY <1>0, <1>1, <2>2, RestoringKept, WholeKept DEF Listed
    <2>5. Named(t)' /\ Held(t)'
        BY <2>2 DEF Named, Held
    <2>6. Listed'
        BY <1>1, <1>2, <2>2, <2>4, <2>5, ListedKept
    <2>7. Owns(t) /\ Active(t) /\ Owns(t)'
        BY <1>3, <2>2 DEF Active, Owns
    <2>8. switching'
        BY <1>0, <1>1, <2>7 DEF Switches
    <2>9. Switches'
        BY <2>2, <2>7, <2>8, SwitchesKept
    <2> QED BY <1>1, <2>3, <2>6, <2>9 DEF ListInv
<1>4. CASE task[t].op = "auto" /\ Ended(t)
    <2>1. Moves(t) /\ task'[t].op = "idle" /\ task'[t].pc = "done"
        BY <1>0, <1>4, EndedFacts
    <2>2. Types'
        BY <1>0, <1>1, <1>2, <2>1, SameTypes, TypesKept
    <2>3. Named(t)'
        BY <2>1 DEF Named
    <2>4. ListInv'
        BY <1>1, <1>2, <1>4, <2>1, <2>2, <2>3, Bystander
    <2> QED BY <1>1, <2>4
<1> QED BY <1>3, <1>4 DEF Expire

\* A step of no task.
LEMMA Standing ==
    ASSUME ListInv, UNCHANGED <<task, switching, permit, kept, late, emptied>>, moved => moved', exiting => exiting',
           Whole', profiles'.draft \in {profiles.draft, <<>>}
    PROVE  Listed' /\ Switches'
<1>0. Listed /\ Switches
    BY DEF ListInv
<1>1. \A s \in Tasks : /\ ItemsOf(task[s].mod)' = ItemsOf(task[s].mod)
                       /\ Sound(task[s].mod)' <=> Sound(task[s].mod)
                       /\ Kept(task[s].mod) => Kept(task[s].mod)'
                       /\ Empties(s)' <=> Empties(s)
    BY DEF ItemsOf, Sound, Kept, Empties
<1>2. \A s \in Tasks : Named(s)' /\ Held(s)'
    BY <1>0, <1>1 DEF Listed, Named, Held
<1>3. Listed'
    BY <1>2 DEF Listed
<1>4. \A s \in Tasks : (Active(s)' <=> Active(s)) /\ (Owns(s)' <=> Owns(s))
    BY DEF Active, Owns
<1>5. Switches'
    BY <1>0, <1>4 DEF Switches
<1> QED BY <1>3, <1>5

LEMMA ImportFailedListed ==
    ASSUME ListInv, NEW t \in Tasks, ImportFailed(t)
    PROVE  /\ ListInv' /\ profiles'.data = profiles.data
           /\ profiles'.draft = <<>> /\ (~clouded' => ~clouded /\ ~switching)
           /\ UNCHANGED Frame /\ UNCHANGED <<task, switching, permit, moved, kept, late, emptied>>
<1>0. Types /\ Listed /\ profiles \in Registers(Lists) /\ profiles' = Discard(profiles)
    BY DEF ListInv, Types, ImportFailed
<1>1. /\ UNCHANGED Frame /\ UNCHANGED <<task, switching, permit, moved, kept, late, emptied>> /\ clouded' \in BOOLEAN
      /\ ~clouded' => ~clouded /\ ~switching
    BY <1>0 DEF ImportFailed, Frame, shared, past, locks, Types
<1>2. profiles' \in Registers(Lists) /\ profiles'.data = profiles.data /\ profiles'.draft = <<>>
    BY <1>0, LatestFacts
<1>3. exiting' = exiting
    BY <1>0, <1>1, FrameTypes
<1>4. Whole'
    BY <1>0, <1>1, <1>2, <1>3, WholeKept DEF Listed
<1>5. Listed' /\ Switches'
    BY <1>1, <1>2, <1>3, <1>4, Standing
<1>6. Types'
    BY <1>0, <1>1, <1>2 DEF Types, Frame
<1> QED BY <1>1, <1>2, <1>5, <1>6 DEF ListInv

LEMMA QuitListed ==
    ASSUME ListInv, Quit
    PROVE  ListInv' /\ clouded' /\ booted' = booted
<1>0. Types /\ Listed /\ profiles \in Registers(Lists) /\ profiles' = Apply(profiles)
      /\ verge \in Registers(Int) /\ verge' = Apply(verge)
    BY DEF ListInv, Types, Quit
<1>1. /\ exiting' = TRUE /\ moved' = TRUE /\ core' = NoCfg /\ clouded' = TRUE
      /\ UNCHANGED <<runtime, file, kept, late, emptied, runFile, switching, updating, validating, lifecycle, permit, task, booted>>
    BY DEF Quit, past
<1>2. /\ profiles' \in Registers(Lists) /\ profiles'.data = Latest(profiles) /\ profiles'.draft = <<>>
      /\ verge' \in Registers(Int)
    BY <1>0, LatestFacts
<1>3. Whole'
    BY <1>0, <1>1, <1>2 DEF Listed, Whole, Sound, Kept, ItemsOf, Latest
<1>4. Listed' /\ Switches'
    BY <1>1, <1>2, <1>3, Standing
<1>5. Types'
    BY <1>0, <1>1, <1>2, NoCfgTypes DEF Types
<1> QED BY <1>1, <1>4, <1>5 DEF ListInv

LEMMA BootFacts ==
    ASSUME ListInv, Boot
    PROVE  /\ ListInv' /\ ~booted /\ booted' /\ UNCHANGED <<profiles, updating, task, exiting, moved>>
           /\ core' = NoCfg \/ core' = runFile'
           /\ runFile' = Latest(runtime)' /\ runFile' # NoCfg
           /\ ~clouded' => runFile'.uid = Latest(profiles).current
<1>0. Types /\ Listed
    BY DEF ListInv
<1>1. /\ UNCHANGED <<profiles, verge, file, switching, updating, validating, lifecycle, permit, moved, task,
                     exiting, kept, late, emptied>> /\ ~booted /\ booted' = TRUE
    BY DEF Boot, shared, past, locks
<1>2. PICK c : /\ runtime' = EditDraft(runtime, c) /\ runFile' = c
               /\ \/ c = Generated /\ CurrentContent # Missing /\ clouded' = FALSE
                  \/ c = DefaultCfg(Latest(verge)) /\ clouded' = TRUE
               /\ core' = c \/ core' = NoCfg
    BY DEF Boot
<1>3. c \in Cfgs /\ c # NoCfg /\ (~clouded' => c.uid = Latest(profiles).current)
    <2>1. CASE c = Generated /\ CurrentContent # Missing
        BY <1>0, <2>1, GeneratedFacts
    <2>2. CASE c = DefaultCfg(Latest(verge)) /\ clouded' = TRUE
        <3>1. Latest(verge) \in Int
            BY <1>0, LatestFacts DEF Types
        <3>2. c \in Cfgs
            BY <2>2, <3>1 DEF DefaultCfg, Cfg, Cfgs
        <3>3. c.content = "default" /\ NoCfg.content = "missing"
            BY <2>2 DEF DefaultCfg, Cfg, NoCfg, Missing
        <3> QED BY <2>2, <3>2, <3>3
    <2> QED BY <1>2, <2>1, <2>2
<1>4. runtime' \in Registers(Cfgs) /\ Latest(runtime') = c
    <2>1. runtime \in Registers(Cfgs)
        BY <1>0 DEF Types
    <2> QED BY <1>2, <1>3, <2>1, EditFacts
<1>5. Latest(runtime)' = c
    BY <1>4 DEF Latest
<1>6. Whole'
    BY <1>0, <1>1, WholeKept DEF Listed, Restoring, At
<1>7. Listed' /\ Switches'
    BY <1>1, <1>6, Standing
<1>8. Types'
    BY <1>0, <1>1, <1>2, <1>3, <1>4, NoCfgTypes DEF Types
<1> QED BY <1>1, <1>2, <1>3, <1>5, <1>7, <1>8 DEF ListInv

LEMMA Unchanged ==
    ASSUME ListInv, UNCHANGED vars
    PROVE  ListInv'
<1>0. /\ UNCHANGED <<profiles, verge, runtime, file, runFile, core, switching, updating, validating, lifecycle>>
      /\ UNCHANGED <<permit, moved, task, booted, exiting, kept, late, emptied, clouded>>
    BY DEF vars, locks
<1>1. Types'
    BY <1>0 DEF ListInv, Types
<1>2. Whole'
    BY <1>0, WholeKept DEF ListInv, Listed, Restoring, At
<1>3. Listed' /\ Switches'
    BY <1>0, <1>2, Standing
<1> QED BY <1>1, <1>3 DEF ListInv

LEMMA GivenListed ==
    ASSUME ListInv, NEW t \in Tasks, Command(t)
    PROVE  \/ Aside(t) \/ UpdateRuntime(t) \/ ImportFailed(t) \/ \E u \in SwitchTo : Switch(t, u)
BY CreateAside, DeleteAside, ReorderAside, UpdateProfileAside, SaveProfileAside, PatchSettingsAside,
   RestartCommandAside DEF Command

\* Every step is one of these.
LEMMA Steps ==
    ASSUME ListInv, [Next]_vars
    PROVE  \/ Boot \/ Quit \/ UNCHANGED vars
           \/ \E t \in Tasks : \/ Advances(t) \/ Modify(t) \/ CommitModify(t) \/ Save(t) \/ SaveEnd(t)
                               \/ SwitchOk(t) \/ SwitchRefused(t) \/ RestorePrevious(t) \/ ApplyPrevious(t)
                               \/ Expire(t) \/ Aside(t) \/ UpdateRuntime(t)
                               \/ ImportFailed(t) \/ \E u \in SwitchTo : Switch(t, u)
<1>1. ASSUME NEW t \in Tasks, Own(t) \/ Outside(t)
      PROVE  \/ Advances(t) \/ Modify(t) \/ CommitModify(t) \/ Save(t) \/ SaveEnd(t)
             \/ SwitchOk(t) \/ SwitchRefused(t) \/ RestorePrevious(t) \/ ApplyPrevious(t) \/ Aside(t)
    BY <1>1, CheckFileAside, DownloadAside, EndAside DEF Own, Outside, Advances
<1> QED BY <1>1, GivenListed DEF Next, Settled

LEMMA ListStep ==
    ASSUME ListInv, [Next]_vars
    PROVE  ListInv'
<1>1. CASE Boot \/ Quit \/ UNCHANGED vars
    BY <1>1, BootFacts, QuitListed, Unchanged
<1>2. ASSUME NEW t \in Tasks,
             \/ Advances(t) \/ Modify(t) \/ CommitModify(t) \/ Save(t) \/ SaveEnd(t)
             \/ SwitchOk(t) \/ SwitchRefused(t) \/ RestorePrevious(t) \/ ApplyPrevious(t)
             \/ Expire(t) \/ Aside(t) \/ UpdateRuntime(t)
             \/ ImportFailed(t) \/ \E u \in SwitchTo : Switch(t, u)
      PROVE  ListInv'
    BY <1>2, AdvancesListed, ModifyListed, CommitListed, SaveListed, SaveEndListed, SwitchOkListed,
       SwitchRefusedListed, RestorePreviousListed, ApplyPreviousListed, ExpireListed, AsideListed, UpdateRuntimeListed, ImportFailedListed, SwitchListed
<1> QED BY <1>1, <1>2, Steps

LEMMA ListSound == ListInv => ListIsSound
<1> SUFFICES ASSUME ListInv PROVE ListIsSound
    OBVIOUS
<1>0. Types /\ Listed /\ Switches
    BY DEF ListInv
<1>1. profiles.data \in Lists
    BY <1>0, LatestFacts DEF Types
<1>2. profiles.data.current \in Uids \cup {None} /\ ItemsOf(profiles.data) \subseteq Uids
    BY <1>1, ItemsFacts
<1>3. \A t \in Tasks : task[t].pc \in Pcs
    BY <1>0 DEF Types, TaskRecords
<1>4. TypeOK
    BY <1>0, <1>2, <1>3 DEF TypeOK, Types, Pcs
<1>5. CurrentExists /\ AddedIsKept
    BY <1>0 DEF CurrentExists, AddedIsKept, Listed, Whole, Sound, Kept
<1>6. NoStrayDraft
    BY <1>0 DEF NoStrayDraft, Switches, Active
<1> QED BY <1>4, <1>5, <1>6 DEF ListIsSound

\* The profile list survives everything that runs into a switch (ListIsSound), for
\* every set of tasks, every list, every choice of what the commands name and every
\* number of commands and faults: the current profile is one of the list's and no
\* committed profile is lost until a reorder naming a profile that is gone empties
\* the list, but for profiles added between the edit_draft and the apply of a
\* refused switch; and outside a switch no draft is left (patch_profiles_config,
\* restore_previous_profile, with_data_modify, Draft).
THEOREM SoundList == Spec => []ListIsSound
<1>1. Init => ListInv
    BY ListInit
<1>2. ListInv /\ [Next]_vars => ListInv'
    BY ListStep
<1>3. ListInv => ListIsSound
    BY ListSound
<1> QED BY <1>1, <1>2, <1>3, PTL DEF Spec
-----------------------------------------------------------------------------
(* What the core runs *)

\* A step that leaves nothing to complain of was taken where there was nothing.
LEMMA FineBefore ==
    ASSUME NEW t \in Tasks, Moves(t), clouded => clouded', Doomed(t) => clouded' \/ Doomed(t)', Fine'
    PROVE  Fine
<1>1. ASSUME NEW s \in Tasks, task[s].pc = "after", task[s].out # "valid" PROVE FALSE
    <2>1. CASE s = t
        BY <1>1, <2>1 DEF Fine, Doomed
    <2>2. CASE s # t
        BY <1>1, <2>2 DEF Fine, Moves
    <2> QED BY <2>1, <2>2
<1> QED BY <1>1 DEF Fine

LEMMA NotFailed ==
    ASSUME NEW t \in Tasks, NEW from, Fails(t, from), Fine'
    PROVE  FALSE
BY DEF Fails, Fine, Doomed

\* The parts of the invariant that only the moving task's own state can disturb.
LEMMA FlaggedKept ==
    ASSUME Flagged, NEW t \in Tasks, Moves(t),
           \/ updating' = updating
           \/ updating' = t /\ updating = None
           \/ updating' = None /\ updating = t,
           task'[t].op \notin Unflagged /\ task'[t].pc \in Pipeline \ {"update"} => updating' = t,
           updating' = t => task'[t].op \notin Unflagged /\ task'[t].pc \in Pipeline \ {"update"},
           task'[t].op = "patch_restart" => task'[t].pc \in {"generate", "edit", "restart", "start", "after"},
           task'[t].op = "restart" => task'[t].pc \in {"restart", "start", "after"},
           task'[t].pc \notin {"restore", "apply"}
    PROVE  Flagged'
<1>1. ASSUME NEW s \in Tasks, s # t
      PROVE  /\ task'[s] = task[s] /\ s # None
             /\ updating' = s <=> updating = s
    BY <1>1, TasksAssumption DEF Moves
<1> QED BY <1>1 DEF Flagged

LEMMA ApartKept ==
    ASSUME Apart, NEW t \in Tasks, Moves(t), task'[t].op \in {task[t].op, "idle"}
    PROVE  Apart'
<1>1. \A s \in Tasks : task'[s].op \in {task[s].op, "idle"}
    BY DEF Moves
<1> QED BY <1>1 DEF Apart

\* A step that leaves list and draft alone.
LEMMA TargetsKept ==
    ASSUME Targets, NEW t \in Tasks, Moves(t), UNCHANGED <<profiles, moved>>, Pending(t)', Copying(t)'
    PROVE  Targets'
<1>1. ASSUME NEW s \in Tasks, s # t PROVE Pending(s)' /\ Copying(s)'
    <2>1. task'[s] = task[s] /\ Pending(s) /\ Copying(s)
        BY <1>1 DEF Moves, Targets
    <2>2. Pending(s)'
        BY <2>1 DEF Pending, Drafting, Settling, Latest, ItemsOf
    <2>3. Copying(s)'
        BY <2>1 DEF Copying, ItemsOf, Empties
    <2> QED BY <2>2, <2>3
<1> QED BY <1>1 DEF Targets


LEMMA ChosenKept ==
    ASSUME Chosen, NEW t \in Tasks, Moves(t), Begun(t)' => Begun(t) /\ task'[t].uid = task[t].uid,
           task'[t].pc # "edit", Latest(runtime)'.uid = Latest(runtime).uid
    PROVE  Chosen'
<1>1. \A s \in Tasks : /\ Begun(s)' => Begun(s) /\ task'[s].uid = task[s].uid
                       /\ task'[s].pc = "edit" => task'[s] = task[s]
                       /\ Settling(s)' /\ task'[s].pc = "edit" => Settling(s) /\ task[s].pc = "edit"
    BY DEF Moves, Begun, Settling
<1> QED BY <1>1 DEF Chosen

LEMMA RestingKept ==
    ASSUME Resting, NEW t \in Tasks, Moves(t), Settling(t) => Settling(t)', Owing(t) => Owing(t)',
           task'[t].pc # "edit", Latest(runtime)'.uid = Latest(runtime).uid, profiles'.data = profiles.data
    PROVE  Resting'
<1>1. \A s \in Tasks : /\ Settling(s) => Settling(s)'
                       /\ Owing(s) => Owing(s)'
                       /\ task'[s].pc = "edit" => task'[s] = task[s]
    BY DEF Moves, Owing, Settling
<1> SUFFICES ASSUME \A s \in Tasks : ~Settling(s)' PROVE
        /\ Latest(runtime)'.uid = profiles'.data.current \/ \E s \in Tasks : Owing(s)'
        /\ \A s \in Tasks : task'[s].pc = "edit" =>
              task'[s].cfg.uid = profiles'.data.current \/ \E r \in Tasks \ {s} : Owing(r)'
    BY DEF Resting
<1>2. /\ Latest(runtime).uid = profiles.data.current \/ \E s \in Tasks : Owing(s)
      /\ \A s \in Tasks : task[s].pc = "edit" =>
            task[s].cfg.uid = profiles.data.current \/ \E r \in Tasks \ {s} : Owing(r)
    BY <1>1 DEF Resting
<1> QED BY <1>1, <1>2

Writing == {"validate", "check", "write", "restart"}
Loading == {"reload", "restart", "start"}
LEMMA WrittenKept ==
    ASSUME Written, NEW t \in Tasks, Moves(t), task'[t].pc # "edit", UNCHANGED <<runFile, core>>,
           Latest(runtime)'.uid = Latest(runtime).uid, Latest(runtime) # NoCfg => Latest(runtime)' # NoCfg,
           task[t].pc \in Writing => task'[t].pc \in Writing,
           task[t].pc \in Loading => task'[t].pc \in Loading
    PROVE  Written'
<1>1. \A s \in Tasks : /\ task'[s].pc = "edit" => task'[s] = task[s]
                       /\ task[s].pc \in Writing => task'[s].pc \in Writing
                       /\ task[s].pc \in Loading => task'[s].pc \in Loading
    BY DEF Moves
<1>2. \A s \in Tasks : task'[s].pc = "edit" => task'[s].cfg # NoCfg
    BY <1>1 DEF Written
<1>3. ASSUME \A s \in Tasks : task'[s].pc \notin Writing PROVE runFile.uid = Latest(runtime).uid
    BY <1>1, <1>3 DEF Written, Writing
<1>4. ASSUME \A s \in Tasks : task'[s].pc \notin Loading PROVE core = NoCfg \/ core.uid = runFile.uid
    BY <1>1, <1>4 DEF Written, Loading
<1> QED BY <1>2, <1>3, <1>4 DEF Written, Writing, Loading

LEMMA AsideRuns ==
    ASSUME Good, NEW t \in Tasks, Aside(t), ~clouded'
    PROVE  Good'
<1>0. Flagged /\ Apart /\ Written /\ Targets /\ Chosen /\ Resting /\ Moves(t)
    BY DEF Good, Aside
<1>1. /\ UNCHANGED <<profiles, runFile, core, updating, moved>> /\ Latest(runtime)'.uid = Latest(runtime).uid
      /\ Latest(runtime) # NoCfg => Latest(runtime)' # NoCfg
      /\ task[t].op # "switch" /\ task'[t].op # "switch"
      /\ task[t].pc \in {"done", "after", "check_file", "download"}
      /\ task'[t].pc \in {"done", "modify", "update", "check_file", "download", "generate", "restart"}
      /\ task'[t].pc = "generate" <=> task'[t].op = "patch_restart"
      /\ task'[t].pc = "restart" <=> task'[t].op = "restart"
      /\ task'[t].op = "patch_restart" => ~Running({"switch", "delete"})
      /\ task'[t].op = "delete" => task'[t].pc = "modify" /\ ~Running({"patch_restart"})
    BY DEF Aside, RuntimeKept
<1>2. updating # t
    BY <1>0, <1>1 DEF Flagged, Pipeline
<1>3. Flagged'
    BY <1>0, <1>1, <1>2, FlaggedKept DEF Unflagged, Pipeline
<1>4. Apart'
    <2>1. \A s \in Tasks \ {t} : task'[s] = task[s]
        BY <1>0 DEF Moves
    <2>2. task'[t].op = "patch_restart" => \A s \in Tasks \ {t} : task[s].op \notin {"switch", "delete"}
        BY <1>1 DEF Running
    <2>3. task'[t].op = "delete" => \A s \in Tasks \ {t} : task[s].op # "patch_restart"
        BY <1>1 DEF Running
    <2> QED BY <1>0, <1>1, <2>1, <2>2, <2>3 DEF Apart
<1>5. Written'
    BY <1>0, <1>1, WrittenKept DEF Writing, Loading
<1>6. ~Settling(t) /\ ~Settling(t)' /\ ~Drafting(t)' /\ ~Begun(t)' /\ ~Owing(t)
    BY <1>1 DEF Settling, Drafting, Begun, Owing
<1>7. Targets'
    BY <1>0, <1>1, <1>6, TargetsKept DEF Pending, Copying
<1>8. Chosen' /\ Resting'
    BY <1>0, <1>1, <1>6, ChosenKept, RestingKept
<1> QED BY <1>3, <1>4, <1>5, <1>7, <1>8 DEF Good

\* What every step of the pipeline keeps.
LEMMA PipelineRuns ==
    ASSUME Good, NEW t \in Tasks, Moves(t), GoesOn(t), task[t].pc \in Pipeline,
           task'[t].pc \in Pipeline \cup {"after"}, UNCHANGED Rest
    PROVE  Apart' /\ Targets'
<1>0. Apart /\ Targets /\ UNCHANGED <<profiles, moved>>
    BY DEF Good, Rest
<1>1. Apart'
    BY <1>0, ApartKept DEF GoesOn
<1>2. (Drafting(t)' <=> Drafting(t)) /\ (Settling(t)' <=> Settling(t))
    BY DEF Drafting, Settling, GoesOn
<1>3. Pending(t)'
    BY <1>0, <1>2 DEF Pending, Targets, Latest, ItemsOf, GoesOn
<1>4. task'[t].pc # "commit"
    BY DEF Pipeline
<1>5. Copying(t)'
    BY <1>4 DEF Copying
<1>6. Targets'
    BY <1>0, <1>3, <1>5, TargetsKept
<1> QED BY <1>1, <1>6

Later == Pipeline \ {"update", "generate", "edit"}
LEMMA LaterRuns ==
    ASSUME Good, NEW t \in Tasks, Moves(t), GoesOn(t), task[t].pc \in Later,
           task'[t].pc \in Later \cup {"after"}, UNCHANGED Rest, Latest(runtime)' = Latest(runtime)
    PROVE  Apart' /\ Targets' /\ Chosen' /\ Resting'
<1>0. Chosen /\ Resting /\ profiles' = profiles
    BY DEF Good, Rest
<1>1. task[t].pc \in Pipeline /\ task'[t].pc \in Pipeline \cup {"after"} /\ task'[t].pc # "edit"
    BY DEF Later
<1>2. Apart' /\ Targets'
    BY <1>1, PipelineRuns
<1>3. (Settling(t)' <=> Settling(t)) /\ (Begun(t)' <=> Begun(t)) /\ ~Owing(t) /\ task'[t].uid = task[t].uid
    BY DEF Settling, Begun, Owing, GoesOn, Later, Pipeline
<1>4. Chosen' /\ Resting'
    BY <1>0, <1>1, <1>3, ChosenKept, RestingKept
<1> QED BY <1>2, <1>4

LEMMA UpdateStartRuns ==
    ASSUME Types, Good, NEW t \in Tasks, UpdateStart(t), Fine'
    PROVE  Good'
<1>0. Flagged /\ Written /\ Chosen /\ Resting
    BY DEF Good
<1>1. /\ Works(t, "update", "generate") /\ updating = None /\ updating' = t /\ UNCHANGED Rest
      /\ UNCHANGED <<runtime, runFile, core>>
    BY UpdateStartFacts, NotFailed DEF Handed
<1>2. /\ Moves(t) /\ GoesOn(t) /\ task[t].pc = "update" /\ task'[t].pc = "generate"
      /\ Latest(runtime)' = Latest(runtime) /\ profiles' = profiles
    BY <1>1 DEF Works, Rest, Latest
<1>3. task[t].op \notin Unflagged /\ task'[t].op = task[t].op
    BY <1>0, <1>2 DEF Flagged, Unflagged, GoesOn
<1>4. Flagged'
    BY <1>0, <1>1, <1>2, <1>3, FlaggedKept DEF Unflagged, Pipeline
<1>5. Apart' /\ Targets'
    BY <1>1, <1>2, PipelineRuns DEF Pipeline
<1>6. Written'
    BY <1>0, <1>1, <1>2, WrittenKept DEF Writing, Loading
<1>7. (Settling(t) => Settling(t)') /\ ~Begun(t)' /\ (Owing(t) => Owing(t)')
    BY <1>2 DEF Settling, Begun, Owing, GoesOn, Pipeline
<1>8. Chosen' /\ Resting'
    BY <1>0, <1>2, <1>7, ChosenKept, RestingKept
<1> QED BY <1>4, <1>5, <1>6, <1>8 DEF Good

\* Who generates reads the switch's draft, or the list when there is none.
LEMMA GenerateRuns ==
    ASSUME ListInv, Good, NEW t \in Tasks, Generate(t), Fine'
    PROVE  Good'
<1>0. Types /\ Switches /\ Flagged /\ Written /\ Targets /\ Chosen /\ Resting /\ ~clouded'
    BY DEF ListInv, Good, Fine
<1>1. /\ Moves(t) /\ GoesOn(t) /\ task[t].pc = "generate" /\ task'[t].pc = "edit"
      /\ task'[t].cfg.uid = Latest(profiles).current /\ task'[t].cfg # NoCfg
      /\ UNCHANGED <<runtime, updating, runFile, core>> /\ UNCHANGED Rest
      /\ \A s \in Tasks \ {t} : ~(task[s].op = "switch" /\ task[s].pc \in {"modify", "commit"})
    BY <1>0, GenerateFacts, NotFailed DEF Handed
<1>2. /\ Latest(runtime)' = Latest(runtime) /\ profiles' = profiles
      /\ task'[t].op = task[t].op /\ task'[t].uid = task[t].uid /\ task'[t].refresh = task[t].refresh
      /\ \A s \in Tasks \ {t} : task'[s] = task[s]
    BY <1>1 DEF Rest, Latest, GoesOn, Moves
<1>3. Flagged'
    <2>1. task[t].op \in Unflagged => task[t].op = "patch_restart"
        BY <1>0, <1>1 DEF Flagged, Unflagged
    <2> QED BY <1>0, <1>1, <1>2, <2>1, FlaggedKept DEF Flagged, Unflagged, Pipeline
<1>4. Apart' /\ Targets'
    BY <1>1, PipelineRuns DEF Pipeline
<1>5. Written'
    <2>1. \A s \in Tasks : task'[s].pc = "edit" => task'[s].cfg # NoCfg
        BY <1>0, <1>1, <1>2 DEF Written
    <2>2. \A s \in Tasks : /\ task[s].pc \in Writing => task'[s].pc \in Writing
                           /\ task[s].pc \in Loading => task'[s].pc \in Loading
        BY <1>1, <1>2 DEF Writing, Loading
    <2>3. ASSUME \A s \in Tasks : task'[s].pc \notin Writing PROVE runFile.uid = Latest(runtime).uid
        BY <1>0, <2>2, <2>3 DEF Written, Writing
    <2>4. ASSUME \A s \in Tasks : task'[s].pc \notin Loading PROVE core = NoCfg \/ core.uid = runFile.uid
        BY <1>0, <2>2, <2>4 DEF Written, Loading
    <2> QED BY <1>0, <1>1, <1>2, <2>1, <2>3, <2>4 DEF Written, Writing, Loading
<1>6. \A s \in Tasks : (Settling(s)' <=> Settling(s)) /\ (Begun(s)' <=> Begun(s)) /\ (Owing(s)' <=> Owing(s))
    BY <1>1, <1>2 DEF Settling, Begun, Owing, Pipeline
<1>7. Chosen'
    <2>1. ASSUME NEW s \in Tasks, Begun(s) PROVE Latest(profiles).current = task[s].uid /\ s # t
        <3>1. s # t
            BY <1>1, <2>1 DEF Begun
        <3>2. Drafting(s)
            BY <1>1, <2>1, <3>1 DEF Begun, Settling, Drafting
        <3> QED BY <1>0, <3>1, <3>2 DEF Targets, Pending
    <2>2. Settling(t) => Latest(profiles).current = task[t].uid
        <3>1. Settling(t) => Drafting(t)
            BY <1>1 DEF Settling, Drafting, Pipeline
        <3> QED BY <1>0, <3>1 DEF Targets, Pending
    <2>3. ASSUME NEW s \in Tasks, Begun(s)'
          PROVE  /\ Latest(runtime)'.uid = task'[s].uid
                 /\ \A r \in Tasks : task'[r].pc = "edit" => task'[r].cfg.uid = task'[s].uid
        BY <1>0, <1>1, <1>2, <1>6, <2>1, <2>3 DEF Chosen
    <2>4. ASSUME NEW s \in Tasks, Settling(s)', task'[s].pc = "edit" PROVE task'[s].cfg.uid = task'[s].uid
        BY <1>0, <1>1, <1>2, <1>6, <2>2, <2>4 DEF Chosen
    <2> QED BY <2>3, <2>4 DEF Chosen
<1>8. Resting'
    <2> SUFFICES ASSUME \A s \in Tasks : ~Settling(s)' PROVE
            /\ Latest(runtime)'.uid = profiles'.data.current \/ \E s \in Tasks : Owing(s)'
            /\ \A s \in Tasks : task'[s].pc = "edit" =>
                  task'[s].cfg.uid = profiles'.data.current \/ \E r \in Tasks \ {s} : Owing(r)'
        BY DEF Resting
    <2>1. profiles.draft = <<>>
        BY <1>0, <1>6 DEF Switches, Settling, Owns, Flagged
    <2>2. Latest(profiles) = profiles.data
        BY <2>1 DEF Latest
    <2>3. /\ Latest(runtime).uid = profiles.data.current \/ \E s \in Tasks : Owing(s)
          /\ \A s \in Tasks : task[s].pc = "edit" =>
                task[s].cfg.uid = profiles.data.current \/ \E r \in Tasks \ {s} : Owing(r)
        BY <1>0, <1>6 DEF Resting
    <2> QED BY <1>1, <1>2, <1>6, <2>2, <2>3
<1> QED BY <1>3, <1>4, <1>5, <1>7, <1>8 DEF Good

\* Who edits the register is alone with what it generated during a switch or a deletion.
LEMMA EditRuntimeRuns ==
    ASSUME ListInv, Good, NEW t \in Tasks, EditRuntime(t), Fine'
    PROVE  Good'
<1>0. Types /\ Flagged /\ Apart /\ Written /\ Chosen /\ Resting
    BY DEF ListInv, Good
<1>1. /\ Moves(t) /\ GoesOn(t) /\ task[t].pc = "edit" /\ Latest(runtime)' = task[t].cfg
      /\ task'[t].pc = IF updating = t THEN "validate" ELSE "restart"
      /\ UNCHANGED <<updating, runFile, core>> /\ UNCHANGED Rest
    BY <1>0, EditRuntimeFacts DEF Handed, Works
<1>2. /\ profiles' = profiles
      /\ task'[t].op = task[t].op /\ task'[t].uid = task[t].uid /\ task'[t].refresh = task[t].refresh
      /\ \A s \in Tasks \ {t} : task'[s] = task[s]
    BY <1>1 DEF Rest, GoesOn, Moves
<1>3. updating # t => task[t].op = "patch_restart"
    BY <1>0, <1>1 DEF Flagged, Unflagged, Pipeline
<1>4. Flagged'
    <2>1. updating = t => task[t].op \notin Unflagged
        BY <1>0 DEF Flagged
    <2> QED BY <1>0, <1>1, <1>2, <1>3, <2>1, FlaggedKept DEF Unflagged, Pipeline
<1>5. Apart' /\ Targets'
    BY <1>1, PipelineRuns DEF Pipeline
<1>6. Written'
    <2>1. task[t].cfg # NoCfg /\ \A s \in Tasks : task'[s].pc = "edit" => task'[s].cfg # NoCfg
        BY <1>0, <1>1, <1>2 DEF Written
    <2>2. ~(\A s \in Tasks : task'[s].pc \notin Writing)
        BY <1>1 DEF Writing
    <2>3. \A s \in Tasks : task[s].pc \in Loading => task'[s].pc \in Loading
        BY <1>1, <1>2 DEF Loading
    <2>4. ASSUME \A s \in Tasks : task'[s].pc \notin Loading PROVE core = NoCfg \/ core.uid = runFile.uid
        BY <1>0, <2>3, <2>4 DEF Written, Loading
    <2> QED BY <1>1, <2>1, <2>2, <2>4 DEF Written, Writing, Loading
<1>7. ASSUME task[t].op \in {"switch", "delete"} PROVE \A s \in Tasks \ {t} : task[s].pc # "edit"
    BY <1>0, <1>1, <1>3, <1>7 DEF Flagged, Apart, Unflagged, Pipeline
<1>8. /\ \A s \in Tasks : Settling(s)' <=> Settling(s)
      /\ \A s \in Tasks \ {t} : (Begun(s)' <=> Begun(s)) /\ (Owing(s)' <=> Owing(s))
    BY <1>1, <1>2 DEF Settling, Begun, Owing, Pipeline
<1>9. Chosen'
    <2>1. ASSUME NEW s \in Tasks, Begun(s)'
          PROVE  /\ Latest(runtime)'.uid = task'[s].uid
                 /\ \A r \in Tasks : task'[r].pc = "edit" => task'[r].cfg.uid = task'[s].uid
        <3>1. CASE s = t
            <4>1. Settling(t) /\ task[t].op = "switch"
                BY <1>2, <1>8, <2>1, <3>1 DEF Begun, Settling
            <4> QED BY <1>0, <1>1, <1>2, <1>7, <3>1, <4>1 DEF Chosen
        <3>2. CASE s # t
            BY <1>0, <1>1, <1>2, <1>8, <2>1, <3>2 DEF Chosen
        <3> QED BY <3>1, <3>2
    <2>2. ASSUME NEW s \in Tasks, Settling(s)', task'[s].pc = "edit" PROVE task'[s].cfg.uid = task'[s].uid
        BY <1>0, <1>1, <1>2, <1>8, <2>2 DEF Chosen
    <2> QED BY <2>1, <2>2 DEF Chosen
<1>10. Resting'
    <2> SUFFICES ASSUME \A s \in Tasks : ~Settling(s)' PROVE
            /\ Latest(runtime)'.uid = profiles'.data.current \/ \E s \in Tasks : Owing(s)'
            /\ \A s \in Tasks : task'[s].pc = "edit" =>
                  task'[s].cfg.uid = profiles'.data.current \/ \E r \in Tasks \ {s} : Owing(r)'
        BY DEF Resting
    <2>1. \A s \in Tasks : task[s].pc = "edit" =>
              task[s].cfg.uid = profiles.data.current \/ \E r \in Tasks \ {s} : Owing(r)
        BY <1>0, <1>8 DEF Resting
    <2>2. Latest(runtime)'.uid = profiles'.data.current \/ \E s \in Tasks : Owing(s)'
        BY <1>1, <1>2, <1>8, <2>1
    <2>3. ASSUME NEW s \in Tasks, task'[s].pc = "edit"
          PROVE  task'[s].cfg.uid = profiles'.data.current \/ \E r \in Tasks \ {s} : Owing(r)'
        <3>1. s # t /\ task[s].pc = "edit" /\ task'[s] = task[s]
            BY <1>1, <1>2, <2>3
        <3>2. ~Owing(t)
            BY <1>7, <3>1 DEF Owing
        <3> QED BY <1>2, <1>8, <2>1, <3>1, <3>2
    <2> QED BY <2>2, <2>3
<1> QED BY <1>4, <1>5, <1>6, <1>9, <1>10 DEF Good

\* The rest of an update: check, write, load.
LEMMA ValidateRuns ==
    ASSUME ListInv, Good, NEW t \in Tasks, Validate(t) \/ Check(t), Fine'
    PROVE  Good'
<1>0. Types /\ Flagged /\ Written
    BY DEF ListInv, Good
<1>1. /\ Moves(t) /\ GoesOn(t) /\ UNCHANGED Rest /\ UNCHANGED <<runtime, updating, runFile, core>>
      /\ \/ task[t].pc = "validate" /\ task'[t].pc = "check"
         \/ task[t].pc = "check" /\ task'[t].pc = "write"
    <2>1. CASE Validate(t)
        BY <1>0, <2>1, ValidateFacts, NotFailed DEF Handed
    <2>2. CASE Check(t)
        BY <1>0, <2>2, CheckFacts, NotFailed DEF Handed, Works
    <2> QED BY <2>1, <2>2
<1>2. Latest(runtime)' = Latest(runtime) /\ task'[t].op = task[t].op
    BY <1>1 DEF Latest, GoesOn
<1>3. Apart' /\ Targets' /\ Chosen' /\ Resting'
    BY <1>1, <1>2, LaterRuns DEF Later, Pipeline
<1>4. task[t].op \notin Unflagged /\ updating = t
    BY <1>0, <1>1 DEF Flagged, Unflagged, Pipeline
<1>5. Flagged'
    BY <1>0, <1>1, <1>2, <1>4, FlaggedKept DEF Unflagged, Pipeline
<1>6. Written'
    BY <1>0, <1>1, <1>2, WrittenKept DEF Writing, Loading
<1> QED BY <1>3, <1>5, <1>6 DEF Good

\* The Run file is, or the core runs, what the register has.
LEMMA WrittenNow ==
    ASSUME Written, NEW t \in Tasks, Moves(t), task'[t].pc # "edit", Latest(runtime)' = Latest(runtime),
           \/ runFile'.uid = Latest(runtime).uid
           \/ runFile' = runFile /\ (task[t].pc \in Writing => task'[t].pc \in Writing),
           \/ core' = NoCfg \/ core' = runFile' \/ task'[t].pc \in Loading
    PROVE  Written'
<1>1. \A s \in Tasks : /\ task'[s].pc = "edit" => task'[s] = task[s]
                       /\ s # t => task'[s] = task[s]
    BY DEF Moves
<1>2. \A s \in Tasks : task'[s].pc = "edit" => task'[s].cfg # NoCfg
    BY <1>1 DEF Written
<1>3. ASSUME \A s \in Tasks : task'[s].pc \notin Writing PROVE runFile'.uid = Latest(runtime).uid
    <2>1. CASE runFile' = runFile /\ (task[t].pc \in Writing => task'[t].pc \in Writing)
        <3>1. \A s \in Tasks : task[s].pc \notin Writing
            BY <1>1, <1>3, <2>1
        <3> QED BY <2>1, <3>1 DEF Written, Writing
    <2> QED BY <2>1
<1>4. ASSUME \A s \in Tasks : task'[s].pc \notin Loading PROVE core' = NoCfg \/ core'.uid = runFile'.uid
    BY <1>4
<1> QED BY <1>2, <1>3, <1>4 DEF Written, Writing, Loading

LEMMA WriteRunRuns ==
    ASSUME ListInv, Good, NEW t \in Tasks, WriteRun(t), Fine'
    PROVE  Good'
<1>0. Types /\ Flagged /\ Written
    BY DEF ListInv, Good
<1>1. /\ Moves(t) /\ GoesOn(t) /\ UNCHANGED Rest /\ UNCHANGED <<runtime, updating, core>>
      /\ task[t].pc = "write" /\ task'[t].pc = "reload" /\ runFile' = FileConfig
    BY <1>0, WriteRunFacts, NotFailed DEF Handed, Works
<1>2. Latest(runtime)' = Latest(runtime) /\ task'[t].op = task[t].op /\ runFile' = Latest(runtime)
    BY <1>0, <1>1, FileConfigFacts DEF Latest, GoesOn, Written
<1>3. Apart' /\ Targets' /\ Chosen' /\ Resting'
    BY <1>1, <1>2, LaterRuns DEF Later, Pipeline
<1>4. task[t].op \notin Unflagged /\ updating = t
    BY <1>0, <1>1 DEF Flagged, Unflagged, Pipeline
<1>5. Flagged'
    BY <1>0, <1>1, <1>2, <1>4, FlaggedKept DEF Unflagged, Pipeline
<1>6. Written'
    BY <1>0, <1>1, <1>2, WrittenNow DEF Loading
<1> QED BY <1>3, <1>5, <1>6 DEF Good

LEMMA ReloadRuns ==
    ASSUME ListInv, Good, NEW t \in Tasks, Reload(t), Fine'
    PROVE  Good'
<1>0. Types /\ Flagged /\ Written
    BY DEF ListInv, Good
<1>1. /\ Moves(t) /\ GoesOn(t) /\ UNCHANGED Rest /\ UNCHANGED <<runtime, runFile, updating>> /\ task[t].pc = "reload"
      /\ \/ task'[t].pc = "reloaded" /\ core' = runFile
         \/ task'[t].pc = "restart"
    BY <1>0, ReloadFacts DEF Handed, Works
<1>2. Latest(runtime)' = Latest(runtime) /\ task'[t].op = task[t].op
    BY <1>1 DEF Latest, GoesOn
<1>3. Apart' /\ Targets' /\ Chosen' /\ Resting'
    BY <1>1, <1>2, LaterRuns DEF Later, Pipeline
<1>4. task[t].op \notin Unflagged /\ updating = t
    BY <1>0, <1>1 DEF Flagged, Unflagged, Pipeline
<1>5. Flagged'
    BY <1>0, <1>1, <1>2, <1>4, FlaggedKept DEF Unflagged, Pipeline
<1>6. Written'
    BY <1>0, <1>1, <1>2, WrittenNow DEF Loading, Writing
<1> QED BY <1>3, <1>5, <1>6 DEF Good

LEMMA ReloadedRuns ==
    ASSUME ListInv, Good, NEW t \in Tasks, Reloaded(t), Fine'
    PROVE  Good'
<1>0. Types /\ Flagged /\ Written
    BY DEF ListInv, Good
<1>1. /\ Moves(t) /\ GoesOn(t) /\ UNCHANGED Rest /\ UNCHANGED <<runFile, core>> /\ updating' = None
      /\ task[t].pc = "reloaded" /\ task'[t].pc = "after" /\ Latest(runtime)' = Latest(runtime)
    BY <1>0, ReloadedFacts DEF Handed, Works
<1>2. task'[t].op = task[t].op /\ t # None
    BY <1>1, TasksAssumption DEF GoesOn
<1>3. Apart' /\ Targets' /\ Chosen' /\ Resting'
    BY <1>1, <1>2, LaterRuns DEF Later, Pipeline
<1>4. task[t].op \notin Unflagged /\ updating = t
    BY <1>0, <1>1 DEF Flagged, Unflagged, Pipeline
<1>5. Flagged'
    BY <1>0, <1>1, <1>2, <1>4, FlaggedKept DEF Unflagged, Pipeline
<1>6. Written'
    BY <1>0, <1>1, <1>2, WrittenKept DEF Loading, Writing
<1> QED BY <1>3, <1>5, <1>6 DEF Good

LEMMA RestartRuns ==
    ASSUME ListInv, Good, ~exiting, NEW t \in Tasks, Restart(t), Fine'
    PROVE  Good'
<1>0. Types /\ Flagged /\ Written
    BY DEF ListInv, Good
<1>1. /\ Moves(t) /\ GoesOn(t) /\ UNCHANGED Rest /\ UNCHANGED <<runtime, updating>> /\ core' = NoCfg
      /\ task[t].pc = "restart" /\ task'[t].pc = "start" /\ runFile' = FileConfig
    BY <1>0, RestartFacts, NotFailed DEF Handed, Works
<1>2. Latest(runtime)' = Latest(runtime) /\ task'[t].op = task[t].op /\ runFile' = Latest(runtime)
    BY <1>0, <1>1, FileConfigFacts DEF Latest, GoesOn, Written
<1>3. Apart' /\ Targets' /\ Chosen' /\ Resting'
    BY <1>1, <1>2, LaterRuns DEF Later, Pipeline
<1>4. task[t].op \notin Unflagged <=> updating = t
    BY <1>0, <1>1 DEF Flagged, Unflagged, Pipeline
<1>5. Flagged'
    BY <1>0, <1>1, <1>2, <1>4, FlaggedKept DEF Unflagged, Pipeline
<1>6. Written'
    BY <1>0, <1>1, <1>2, WrittenNow DEF Loading
<1> QED BY <1>3, <1>5, <1>6 DEF Good

LEMMA StartCoreRuns ==
    ASSUME ListInv, Good, NEW t \in Tasks, StartCore(t), Fine'
    PROVE  Good'
<1>0. Types /\ Flagged /\ Written
    BY DEF ListInv, Good
<1>1. /\ Moves(t) /\ GoesOn(t) /\ UNCHANGED Rest /\ UNCHANGED <<runtime, updating, runFile>> /\ core' = runFile
      /\ task[t].pc = "start" /\ task'[t].pc = IF updating = t THEN "reloaded" ELSE "after"
    BY <1>0, StartCoreFacts, NotFailed DEF Handed, Works
<1>2. Latest(runtime)' = Latest(runtime) /\ task'[t].op = task[t].op
    BY <1>1 DEF Latest, GoesOn
<1>3. Apart' /\ Targets' /\ Chosen' /\ Resting'
    BY <1>1, <1>2, LaterRuns DEF Later, Pipeline
<1>4. task[t].op \notin Unflagged <=> updating = t
    BY <1>0, <1>1 DEF Flagged, Unflagged, Pipeline
<1>5. Flagged'
    BY <1>0, <1>1, <1>2, <1>4, FlaggedKept DEF Unflagged, Pipeline
<1>6. Written'
    BY <1>0, <1>1, <1>2, WrittenNow DEF Loading, Writing
<1> QED BY <1>3, <1>5, <1>6 DEF Good

LEMMA AdvancesRuns ==
    ASSUME ListInv, Good, ~exiting, NEW t \in Tasks, Advances(t), Fine'
    PROVE  Good'
<1>0. Types
    BY DEF ListInv
<1> QED BY <1>0, UpdateStartRuns, GenerateRuns, EditRuntimeRuns, ValidateRuns, WriteRunRuns, ReloadRuns,
           ReloadedRuns, RestartRuns, StartCoreRuns DEF Advances

\* The steps of a change of the list.
LEMMA ModifyRuns ==
    ASSUME ListInv, Good, NEW t \in Tasks, Modify(t), ~clouded'
    PROVE  Good'
<1>0. Types /\ Listed /\ Flagged /\ Apart /\ Written /\ Targets /\ Chosen /\ Resting
    BY DEF ListInv, Good
<1>1. Copied(t) /\ UNCHANGED <<profiles, runtime, runFile, core, updating>>
    BY ModifyFacts
<1>2. /\ Moves(t) /\ task[t].pc = "modify" /\ task'[t].pc = "commit" /\ task'[t].op = task[t].op
      /\ task'[t].uid = task[t].uid /\ permit = None /\ Latest(runtime)' = Latest(runtime)
    BY <1>1 DEF Copied, Latest
<1>3. updating # t /\ task[t].op \notin Unflagged
    BY <1>0, <1>2 DEF Flagged, Unflagged, Pipeline
<1>4. Flagged'
    BY <1>0, <1>1, <1>2, <1>3, FlaggedKept DEF Unflagged, Pipeline
<1>5. Apart' /\ Written'
    BY <1>0, <1>1, <1>2, ApartKept, WrittenKept DEF Writing, Loading
<1>6. (Settling(t)' <=> Settling(t)) /\ (Begun(t)' <=> Begun(t)) /\ ~Owing(t) /\ ~Drafting(t)'
    BY <1>2 DEF Settling, Begun, Owing, Drafting, Pipeline
<1>7. Chosen' /\ Resting'
    BY <1>0, <1>1, <1>2, <1>6, ChosenKept, RestingKept
<1>8. Targets'
    <2>1. ASSUME NEW s \in Tasks, s # t PROVE Pending(s)' /\ Copying(s)'
        <3>1. task'[s] = task[s] /\ Pending(s) /\ Held(s) /\ s # None
            BY <1>0, <1>2, <2>1, TasksAssumption DEF Moves, Targets, Listed
        <3>2. task[s].pc # "commit"
            BY <1>2, <3>1 DEF Held
        <3>3. Pending(s)'
            BY <1>1, <3>1 DEF Pending, Drafting, Settling, Latest, ItemsOf
        <3> QED BY <3>1, <3>2, <3>3 DEF Copying
    <2>2. Settling(t) => task[t].uid \in ItemsOf(profiles.data)
        BY <1>0 DEF Targets, Pending
    <2>3. Pending(t)'
        BY <1>1, <1>2, <1>6, <2>2 DEF Pending, ItemsOf
    <2>4. task[t].op = "switch" => Settling(t)
        BY <1>2 DEF Settling
    <2>5. ItemsOf(task[t].mod)' = ItemsOf(task'[t].mod) /\ ItemsOf(profiles.data)' = ItemsOf(profiles.data)
        BY <1>1 DEF ItemsOf
    <2>6. Copying(t)'
        BY <1>1, <1>2, <2>2, <2>4, <2>5 DEF Copying, Copied, Empties
    <2> QED BY <2>1, <2>3, <2>6 DEF Targets
<1> QED BY <1>4, <1>5, <1>7, <1>8 DEF Good

LEMMA CommitRuns ==
    ASSUME ListInv, Good, NEW t \in Tasks, CommitModify(t), ~clouded'
    PROVE  Good'
<1>0. Types /\ Listed /\ Flagged /\ Apart /\ Written /\ Targets /\ Chosen /\ Resting /\ Held(t)
    BY DEF ListInv, Good, Listed
<1>1. Committed(t) /\ Moves(t) /\ task[t].pc = "commit" /\ UNCHANGED moved /\ UNCHANGED Frame
    BY CommitFacts DEF Dropped
<1>2. /\ UNCHANGED <<runtime, runFile, core, updating>> /\ Latest(runtime)' = Latest(runtime) /\ ~moved /\ permit = t
      /\ \A s \in Tasks \ {t} : task'[s] = task[s]
    BY <1>0, <1>1 DEF Frame, Latest, Committed, Held, Moves
<1>3. /\ task'[t].op \in {task[t].op, "idle"} /\ task'[t].pc \in {"done", "update", "save"}
      /\ task'[t].pc = "update" => task'[t].op # "switch"
    BY <1>1 DEF Committed, GoesOn
<1>4. updating # t /\ task[t].op \notin Unflagged
    BY <1>0, <1>1 DEF Flagged, Unflagged, Pipeline
<1>5. Flagged'
    BY <1>0, <1>1, <1>2, <1>3, <1>4, FlaggedKept DEF Unflagged, Pipeline
<1>6. Apart' /\ Written'
    BY <1>0, <1>1, <1>2, <1>3, ApartKept, WrittenKept DEF Writing, Loading
<1>7. ~Settling(t)' /\ ~Begun(t)' /\ ~Drafting(t)' /\ ~Owing(t)
    BY <1>1, <1>3 DEF Settling, Begun, Drafting, Owing, Pipeline
<1>8. Chosen'
    BY <1>0, <1>1, <1>2, <1>3, <1>7, ChosenKept
<1>9. /\ ItemsOf(profiles.data) \ {u \in {task[t].uid} : task[t].op = "delete"} \subseteq ItemsOf(task[t].mod)
      /\ task[t].op = "switch" => task[t].mod.current = task[t].uid
      /\ task[t].op # "switch" =>
            task[t].mod.current = profiles.data.current \/ (task[t].op = "delete" /\ task[t].refresh)
    BY <1>0, <1>1, <1>2 DEF Targets, Copying, Committed
<1>10. Targets'
    <2>1. ASSUME NEW s \in Tasks, s # t PROVE Pending(s)' /\ Copying(s)'
        <3>1. task'[s] = task[s] /\ Pending(s) /\ Held(s)
            BY <1>0, <1>2, <2>1 DEF Targets, Listed
        <3>2. task[s].pc # "commit"
            BY <1>2, <2>1, <3>1 DEF Held
        <3>3. Settling(s) => task[s].uid \in ItemsOf(task[t].mod)
            <4>1. ASSUME Settling(s), task[t].op = "delete" PROVE task[s].uid # task[t].uid
                BY <1>1, <4>1 DEF Committed, Switching, Settling
            <4> QED BY <1>9, <3>1, <4>1 DEF Pending
        <3>4. ItemsOf(profiles.data)' = ItemsOf(task[t].mod)
            BY <1>1 DEF Committed, ItemsOf
        <3>5. Drafting(s) => profiles'.draft # <<>> /\ Latest(profiles)'.current = task[s].uid
            BY <1>1, <3>1 DEF Committed, Pending, Latest
        <3>6. Pending(s)'
            BY <3>1, <3>3, <3>4, <3>5 DEF Pending, Drafting, Settling
        <3> QED BY <3>1, <3>2, <3>6 DEF Copying
    <2>2. Pending(t)' /\ Copying(t)'
        BY <1>3, <1>7 DEF Pending, Copying
    <2> QED BY <2>1, <2>2 DEF Targets
<1>11. Resting'
    <2> SUFFICES ASSUME \A s \in Tasks : ~Settling(s)' PROVE
            /\ Latest(runtime)'.uid = profiles'.data.current \/ \E s \in Tasks : Owing(s)'
            /\ \A s \in Tasks : task'[s].pc = "edit" =>
                  task'[s].cfg.uid = profiles'.data.current \/ \E r \in Tasks \ {s} : Owing(r)'
        BY DEF Resting
    <2>1. \A s \in Tasks \ {t} : ~Settling(s) /\ (Owing(s)' <=> Owing(s))
        BY <1>2 DEF Settling, Owing
    <2>2. profiles'.data = task[t].mod /\ task'[t].pc # "edit"
        BY <1>1, <1>3 DEF Committed
    <2>3. CASE task[t].op = "switch"
        <3>1. Begun(t)
            BY <1>1, <2>3 DEF Begun, Settling
        <3> QED BY <1>0, <1>2, <1>9, <2>2, <2>3, <3>1 DEF Chosen
    <2>4. CASE task[t].op # "switch"
        <3>1. /\ Latest(runtime).uid = profiles.data.current \/ \E s \in Tasks : Owing(s)
              /\ \A s \in Tasks : task[s].pc = "edit" =>
                    task[s].cfg.uid = profiles.data.current \/ \E r \in Tasks \ {s} : Owing(r)
            BY <1>0, <2>1, <2>4 DEF Resting, Settling
        <3>2. CASE task[t].mod.current = profiles.data.current
            BY <1>2, <1>7, <2>1, <2>2, <3>1, <3>2
        <3>3. CASE task[t].op = "delete" /\ task[t].refresh
            <4>1. Owing(t)'
                BY <1>1, <3>3 DEF Committed, GoesOn, Owing
            <4> QED BY <2>2, <4>1
        <3> QED BY <1>9, <2>4, <3>2, <3>3
    <2> QED BY <2>3, <2>4
<1> QED BY <1>5, <1>6, <1>8, <1>10, <1>11 DEF Good

LEMMA SaveRuns ==
    ASSUME ListInv, Good, NEW t \in Tasks, Save(t)
    PROVE  Good'
<1>0. Types /\ Listed /\ Flagged /\ Apart /\ Written /\ Targets /\ Chosen /\ Resting
    BY DEF ListInv, Good
<1>1. /\ Moves(t) /\ task[t].pc = "save" /\ task'[t].pc = "saved" /\ task'[t].op = task[t].op
      /\ task'[t].uid = task[t].uid /\ task'[t].refresh = task[t].refresh /\ permit = None
      /\ UNCHANGED <<profiles, runtime, runFile, core, updating>> /\ Latest(runtime)' = Latest(runtime)
    BY SaveFacts DEF Frame, Latest
<1>2. updating # t /\ task[t].op \notin Unflagged
    BY <1>0, <1>1 DEF Flagged, Unflagged, Pipeline
<1>3. Flagged'
    BY <1>0, <1>1, <1>2, FlaggedKept DEF Unflagged, Pipeline
<1>4. Apart' /\ Written'
    BY <1>0, <1>1, ApartKept, WrittenKept DEF Writing, Loading
<1>5. ~Settling(t) /\ ~Settling(t)' /\ ~Begun(t)' /\ (Owing(t) => Owing(t)') /\ ~Drafting(t)'
    BY <1>1 DEF Settling, Begun, Owing, Drafting, Pipeline
<1>6. Chosen' /\ Resting'
    BY <1>0, <1>1, <1>5, ChosenKept, RestingKept
<1>7. Targets'
    <2>1. ASSUME NEW s \in Tasks, s # t PROVE Pending(s)' /\ Copying(s)'
        <3>1. task'[s] = task[s] /\ Pending(s) /\ Held(s) /\ s # None
            BY <1>0, <1>1, <2>1, TasksAssumption DEF Moves, Targets, Listed
        <3>2. task[s].pc # "commit"
            BY <1>1, <3>1 DEF Held
        <3>3. Pending(s)'
            BY <1>1, <3>1 DEF Pending, Drafting, Settling, Latest, ItemsOf
        <3> QED BY <3>1, <3>2, <3>3 DEF Copying
    <2>2. Pending(t)' /\ Copying(t)'
        BY <1>1, <1>5 DEF Pending, Copying
    <2> QED BY <2>1, <2>2 DEF Targets
<1> QED BY <1>3, <1>4, <1>6, <1>7 DEF Good

LEMMA SaveEndRuns ==
    ASSUME ListInv, Good, NEW t \in Tasks, SaveEnd(t), ~clouded'
    PROVE  Good'
<1>0. Types /\ Flagged /\ Apart /\ Written /\ Targets /\ Chosen /\ Resting
    BY DEF ListInv, Good
<1>1. /\ Moves(t) /\ task[t].pc = "saved" /\ UNCHANGED <<profiles, moved>>
      /\ UNCHANGED <<runtime, runFile, core, updating>> /\ Latest(runtime)' = Latest(runtime)
    BY SaveEndFacts DEF Frame, Latest
<1>2. \/ /\ task[t].op = "delete" /\ task[t].refresh /\ task'[t].op = "delete" /\ task'[t].refresh
         /\ task'[t].pc = "update"
      \/ task'[t].op = "idle" /\ task'[t].pc = "done" /\ ~Owing(t)
    BY SaveEndFacts DEF GoesOn, Owing
<1>3. updating # t
    BY <1>0, <1>1 DEF Flagged, Pipeline
<1>4. Flagged'
    BY <1>0, <1>1, <1>2, <1>3, FlaggedKept DEF Unflagged, Pipeline
<1>5. Apart' /\ Written'
    BY <1>0, <1>1, <1>2, ApartKept, WrittenKept DEF Writing, Loading
<1>6. ~Settling(t) /\ ~Settling(t)' /\ ~Begun(t)' /\ (Owing(t) => Owing(t)') /\ ~Drafting(t)'
    BY <1>1, <1>2 DEF Settling, Begun, Owing, Drafting, Pipeline
<1>7. Chosen' /\ Resting'
    BY <1>0, <1>1, <1>2, <1>6, ChosenKept, RestingKept
<1>8. Targets'
    BY <1>0, <1>1, <1>2, <1>6, TargetsKept DEF Pending, Copying
<1> QED BY <1>4, <1>5, <1>7, <1>8 DEF Good

LEMMA SwitchOkRuns ==
    ASSUME ListInv, Good, NEW t \in Tasks, SwitchOk(t)
    PROVE  Good'
<1>0. Types /\ Switches /\ Flagged /\ Apart /\ Written /\ Targets /\ Chosen /\ Resting
    BY DEF ListInv, Good
<1>1. /\ Moves(t) /\ task[t].op = "switch" /\ task'[t].op = "switch" /\ task'[t].uid = task[t].uid
      /\ task[t].pc = "after" /\ task'[t].pc = "modify"
      /\ profiles'.data = profiles.data /\ profiles'.draft = <<>> /\ UNCHANGED moved
      /\ UNCHANGED <<runtime, runFile, core, updating>> /\ Latest(runtime)' = Latest(runtime)
    BY SwitchOkFacts DEF Frame, Latest, GoesOn
<1>2. updating # t
    BY <1>0, <1>1 DEF Flagged, Pipeline
<1>3. Flagged'
    BY <1>0, <1>1, <1>2, FlaggedKept DEF Unflagged, Pipeline
<1>4. Apart' /\ Written'
    BY <1>0, <1>1, ApartKept, WrittenKept DEF Writing, Loading
<1>5. Settling(t) /\ Settling(t)' /\ (Begun(t)' => Begun(t)) /\ ~Owing(t) /\ ~Drafting(t)' /\ Active(t)
    BY <1>1 DEF Settling, Begun, Owing, Drafting, Pipeline, Active, Owns
<1>6. Chosen' /\ Resting'
    BY <1>0, <1>1, <1>5, ChosenKept, RestingKept
<1>7. Targets'
    <2>1. ItemsOf(profiles.data)' = ItemsOf(profiles.data)
        BY <1>1 DEF ItemsOf
    <2>2. ASSUME NEW s \in Tasks, s # t PROVE Pending(s)' /\ Copying(s)'
        <3>1. task'[s] = task[s] /\ Pending(s) /\ Copying(s)
            BY <1>0, <1>1, <2>2 DEF Moves, Targets
        <3>2. ~Drafting(s)
            BY <1>0, <1>5, <2>2 DEF Switches, Active, Owns, Drafting
        <3>3. Pending(s)'
            BY <2>1, <3>1, <3>2 DEF Pending, Drafting, Settling
        <3>4. Copying(s)'
            BY <1>1, <2>1, <3>1 DEF Copying, ItemsOf, Empties
        <3> QED BY <3>3, <3>4
    <2>3. Pending(t)' /\ Copying(t)'
        BY <1>0, <1>1, <1>5, <2>1 DEF Pending, Copying, Targets
    <2> QED BY <2>2, <2>3 DEF Targets
<1> QED BY <1>3, <1>4, <1>6, <1>7 DEF Good

LEMMA SwitchRuns ==
    ASSUME ListInv, Good, NEW t \in Tasks, NEW u \in SwitchTo, Switch(t, u), ~clouded'
    PROVE  Good'
<1>0. Types /\ Switches /\ Flagged /\ Apart /\ Written /\ Targets /\ Chosen /\ Resting
    BY DEF ListInv, Good
<1>1. /\ Moves(t) /\ task[t].op = "idle" /\ task[t].pc = "done"
      /\ task'[t].op = "switch" /\ task'[t].uid = u /\ task'[t].pc = "update"
      /\ profiles'.data = profiles.data /\ profiles'.draft # <<>> /\ Latest(profiles)'.current = u
      /\ u \in ItemsOf(Latest(profiles)) /\ ~Running({"patch_restart"}) /\ ~switching /\ UNCHANGED moved
      /\ UNCHANGED <<runtime, runFile, core, updating>> /\ Latest(runtime)' = Latest(runtime)
    BY SwitchFacts DEF Frame, Latest
<1>2. \A s \in Tasks : ~Active(s) /\ ~Settling(s)
    BY <1>0, <1>1 DEF Switches, Active, Owns, Settling
<1>3. Latest(profiles) = profiles.data
    BY <1>0, <1>2 DEF Switches, Active, Latest
<1>4. updating # t
    BY <1>0, <1>1 DEF Flagged, Pipeline
<1>5. Flagged'
    BY <1>0, <1>1, <1>4, FlaggedKept DEF Unflagged, Pipeline
<1>6. Apart'
    BY <1>0, <1>1 DEF Apart, Moves, Running
<1>7. Written'
    BY <1>0, <1>1, WrittenKept DEF Writing, Loading
<1>8. Settling(t)' /\ ~Begun(t)' /\ ~Owing(t)
    BY <1>1 DEF Settling, Begun, Owing, Pipeline
<1>9. Chosen' /\ Resting'
    BY <1>0, <1>1, <1>2, <1>8, ChosenKept, RestingKept
<1>10. Targets'
    <2>1. ItemsOf(profiles.data)' = ItemsOf(profiles.data)
        BY <1>1 DEF ItemsOf
    <2>2. ASSUME NEW s \in Tasks, s # t PROVE Pending(s)' /\ Copying(s)'
        <3>1. task'[s] = task[s] /\ Copying(s) /\ ~Active(s) /\ ~Settling(s)
            BY <1>0, <1>1, <1>2, <2>2 DEF Moves, Targets
        <3>2. Pending(s)'
            BY <3>1 DEF Pending, Drafting, Settling, Active, Owns
        <3>3. Copying(s)'
            BY <1>1, <2>1, <3>1 DEF Copying, ItemsOf, Empties
        <3> QED BY <3>2, <3>3
    <2>3. Pending(t)' /\ Copying(t)'
        BY <1>1, <1>3, <2>1 DEF Pending, Copying
    <2> QED BY <2>2, <2>3 DEF Targets
<1> QED BY <1>5, <1>6, <1>7, <1>9, <1>10 DEF Good

LEMMA UpdateRuntimeRuns ==
    ASSUME ListInv, Good, NEW t \in Tasks, UpdateRuntime(t)
    PROVE  Good'
<1>0. Flagged /\ Apart /\ Written /\ Targets /\ Chosen /\ Resting
    BY DEF Good
<1>1. /\ Moves(t) /\ task[t].op = "idle" /\ task[t].pc = "done" /\ task'[t].op = "chain"
      /\ task'[t].pc = "validate" /\ Latest(runtime)' = Latest(runtime) /\ updating = None /\ updating' = t
      /\ UNCHANGED <<profiles, moved, runFile, core>>
    BY UpdateRuntimeFacts
<1>2. Flagged'
    BY <1>0, <1>1, FlaggedKept DEF Unflagged, Pipeline
<1>3. Apart'
    BY <1>0, <1>1 DEF Apart, Moves
<1>4. Written'
    BY <1>0, <1>1, WrittenKept DEF Writing, Loading
<1>5. ~Settling(t) /\ ~Settling(t)' /\ ~Begun(t)' /\ ~Owing(t) /\ ~Drafting(t)'
    BY <1>1 DEF Settling, Begun, Owing, Drafting
<1>6. Chosen' /\ Resting'
    BY <1>0, <1>1, <1>5, ChosenKept, RestingKept
<1>7. Targets'
    BY <1>0, <1>1, <1>5, TargetsKept DEF Pending, Copying
<1> QED BY <1>2, <1>3, <1>4, <1>6, <1>7 DEF Good

\* A step in which no task moves and the list stays: a failed import beside no switch.
LEMMA StandingRuns ==
    ASSUME Good, UNCHANGED <<task, moved, runFile, core, updating>>, profiles'.data = profiles.data,
           Latest(runtime)' = Latest(runtime),
           profiles' = profiles \/ \A s \in Tasks : ~Drafting(s)
    PROVE  Good'
<1>0. Flagged /\ Apart /\ Written /\ Targets /\ Chosen /\ Resting
    BY DEF Good
<1>1. \A s \in Tasks : /\ Settling(s)' <=> Settling(s)
                       /\ Begun(s)' <=> Begun(s)
                       /\ Owing(s)' <=> Owing(s)
                       /\ Drafting(s)' <=> Drafting(s)
    BY DEF Settling, Begun, Owing, Drafting
<1>2. Flagged' /\ Apart' /\ Written'
    BY <1>0 DEF Flagged, Apart, Written
<1>3. Chosen'
    BY <1>0, <1>1 DEF Chosen
<1>4. Resting'
    BY <1>0, <1>1 DEF Resting
<1>5. ASSUME NEW s \in Tasks PROVE Pending(s)' /\ Copying(s)'
    <2>1. Pending(s) /\ Copying(s) /\ ItemsOf(profiles.data)' = ItemsOf(profiles.data)
          /\ ItemsOf(task[s].mod)' = ItemsOf(task[s].mod)
        BY <1>0 DEF Targets, ItemsOf
    <2>2. Pending(s)'
        BY <1>1, <2>1 DEF Pending, Latest
    <2>3. Copying(s)'
        BY <2>1 DEF Copying, Empties
    <2> QED BY <2>2, <2>3
<1>6. Targets'
    BY <1>5 DEF Targets
<1> QED BY <1>2, <1>3, <1>4, <1>6 DEF Good
\* A task's step, once the application has started.
LEMMA TaskRuns ==
    ASSUME ListInv, Good, ~exiting, Fine, NEW t \in Tasks, Fine',
           \/ Advances(t) \/ Modify(t) \/ CommitModify(t) \/ Save(t) \/ SaveEnd(t) \/ SwitchOk(t)
           \/ Aside(t) \/ UpdateRuntime(t) \/ \E u \in SwitchTo : Switch(t, u)
    PROVE  Good'
<1>1. ~clouded'
    BY DEF Fine
<1> QED BY <1>1, AdvancesRuns, ModifyRuns, CommitRuns, SaveRuns, SaveEndRuns, SwitchOkRuns, AsideRuns,
           UpdateRuntimeRuns, SwitchRuns

LEMMA TaskFine ==
    ASSUME ListInv, NEW t \in Tasks,
           \/ Advances(t) \/ Modify(t) \/ CommitModify(t) \/ Save(t) \/ SaveEnd(t) \/ SwitchOk(t)
           \/ Aside(t) \/ UpdateRuntime(t) \/ \E u \in SwitchTo : Switch(t, u)
    PROVE  /\ booted' = booted /\ exiting' = exiting /\ (Fine' => Fine)
           /\ task[t].pc # "done" \/ task[t].op # "idle" \/ booted
<1> DEFINE Goal == /\ booted' = booted /\ exiting' = exiting /\ Moves(t) /\ (clouded => clouded')
                   /\ Doomed(t) => clouded' \/ Doomed(t)'
                   /\ task[t].pc # "done" \/ task[t].op # "idle" \/ booted
<1>1. ASSUME Advances(t) PROVE Goal
    <2>1. Handed /\ Moves(t) /\ task[t].pc \in Pipeline
        BY <1>1, AdvancesListed
    <2> QED BY <2>1 DEF Handed, Rest, Doomed, Pipeline
<1>2. ASSUME Modify(t) PROVE Goal
    <2>1. /\ UNCHANGED <<booted, exiting>> /\ (clouded => clouded') /\ Moves(t) /\ task[t].pc = "modify"
        BY <1>2, ModifyFacts DEF Copied
    <2> QED BY <2>1 DEF Doomed
<1>3. ASSUME CommitModify(t) PROVE Goal
    <2>1. UNCHANGED Frame /\ (clouded => clouded') /\ Moves(t) /\ task[t].pc = "commit"
        BY <1>3, CommitFacts
    <2> QED BY <2>1 DEF Doomed, Frame
<1>4. ASSUME Save(t) PROVE Goal
    <2>1. UNCHANGED Frame /\ clouded' = clouded /\ Moves(t) /\ task[t].pc = "save"
        BY <1>4, SaveFacts
    <2> QED BY <2>1 DEF Doomed, Frame
<1>5. ASSUME SaveEnd(t) PROVE Goal
    <2>1. UNCHANGED Frame /\ (clouded => clouded') /\ Moves(t) /\ task[t].pc = "saved"
        BY <1>5, SaveEndFacts
    <2> QED BY <2>1 DEF Doomed, Frame
<1>6. ASSUME SwitchOk(t) PROVE Goal
    <2>1. UNCHANGED Frame /\ clouded' = clouded /\ Moves(t) /\ task[t].pc = "after" /\ task[t].out = "valid"
        BY <1>6, SwitchOkFacts
    <2> QED BY <2>1 DEF Doomed, Frame
<1>7. ASSUME Aside(t) PROVE Goal
    BY <1>7 DEF Aside
<1>8. ASSUME UpdateRuntime(t) PROVE Goal
    <2>1. UNCHANGED <<booted, exiting, clouded>> /\ Moves(t) /\ ~Doomed(t)
        BY <1>8, UpdateRuntimeFacts
    <2> QED BY <1>8, <2>1 DEF UpdateRuntime, Given
<1>9. ASSUME NEW u \in SwitchTo, Switch(t, u) PROVE Goal
    <2>1. UNCHANGED Frame /\ (~clouded' => ~clouded) /\ Moves(t) /\ ~Doomed(t)
        BY <1>9, SwitchFacts
    <2> QED BY <1>9, <2>1 DEF Frame, Switch, Given
<1>10. Goal
    BY <1>1, <1>2, <1>3, <1>4, <1>5, <1>6, <1>7, <1>8, <1>9
<1>11. Fine' => Fine
    BY <1>10, FineBefore
<1> QED BY <1>10, <1>11

\* Before the application has started there is nothing to take a step.
LEMMA NotYet ==
    ASSUME ListInv, RunInv, ~booted, NEW t \in Tasks
    PROVE  task[t].op = "idle" /\ task[t].pc = "done"
BY DEF ListInv, Types, RunInv, Quiet, Idle

\* The application starts with what it generated from the list, or complains.
LEMMA BootRuns ==
    ASSUME ListInv, RunInv, Boot
    PROVE  RunInv'
<1>1. /\ ~booted /\ booted' /\ UNCHANGED <<profiles, updating, task, exiting, moved>>
      /\ core' = NoCfg \/ core' = runFile'
      /\ runFile' = Latest(runtime)' /\ runFile' # NoCfg
      /\ ~clouded' => runFile'.uid = Latest(profiles).current
    BY BootFacts
<1>2. /\ ~exiting /\ profiles.draft = <<>> /\ updating = None
      /\ \A t \in Tasks : task'[t].op = "idle" /\ task'[t].pc = "done" /\ t # None
    BY <1>1, NotYet, TasksAssumption DEF RunInv
<1>3. Latest(profiles) = profiles.data
    BY <1>2 DEF Latest
<1>4. \A t \in Tasks : ~Settling(t)' /\ ~Drafting(t)' /\ ~Begun(t)'
    BY <1>2 DEF Settling, Drafting, Begun
<1>5. Flagged' /\ Apart' /\ Written' /\ Targets' /\ Chosen'
    BY <1>1, <1>2, <1>4 DEF Flagged, Unflagged, Pipeline, Apart, Written, Targets, Pending, Copying, Chosen
<1>6. ~clouded' => Resting'
    BY <1>1, <1>2, <1>3 DEF Resting
<1> QED BY <1>1, <1>2, <1>5, <1>6 DEF RunInv, Good, Fine

LEMMA RunStep ==
    ASSUME ListInv, RunInv, [Next]_vars
    PROVE  RunInv'
<1>1. CASE Boot
    BY <1>1, BootRuns
<1>2. CASE Quit
    BY <1>2, QuitListed DEF Quit, RunInv, Fine
<1>3. CASE UNCHANGED vars
    <2>1. /\ UNCHANGED <<profiles, runtime, runFile, core, updating, moved, task, booted, exiting, clouded>>
          /\ Latest(runtime)' = Latest(runtime)
        BY <1>3 DEF vars, locks, Latest
    <2>2. Good => Good'
        BY <2>1, StandingRuns
    <2> QED BY <2>1, <2>2 DEF RunInv, Fine, Quiet, Idle
<1>4. ASSUME NEW t \in Tasks, SwitchRefused(t) \/ RestorePrevious(t) \/ ApplyPrevious(t) \/ Expire(t) PROVE RunInv'
    <2>1. clouded' /\ booted' = booted
        BY <1>4, SwitchRefusedListed, RestorePreviousListed, ApplyPreviousListed, ExpireListed
    <2>2. task[t].op # "idle" \/ task[t].pc # "done"
        BY <1>4 DEF SwitchRefused, RestorePrevious, ApplyPrevious, Expire, At
    <2>3. booted
        BY <2>2, NotYet
    <2> QED BY <2>1, <2>3 DEF RunInv, Fine
<1>5. ASSUME NEW t \in Tasks, ImportFailed(t) PROVE RunInv'
    <2>1. /\ profiles'.data = profiles.data /\ (~clouded' => ~clouded /\ ~switching)
          /\ UNCHANGED <<runtime, runFile, core, updating, moved, task, booted, exiting>>
        BY <1>5, ImportFailedListed DEF Frame
    <2>2. booted
        BY <1>5 DEF ImportFailed, Given
    <2>3. ASSUME Fine' PROVE ~exiting' /\ Good'
        <3>1. Fine /\ ~switching
            BY <2>1, <2>3 DEF Fine
        <3>2. Good /\ ~exiting
            BY <2>2, <3>1 DEF RunInv
        <3>3. \A s \in Tasks : ~Drafting(s)
            BY <3>1 DEF ListInv, Switches, Active, Owns, Drafting
        <3>4. Latest(runtime)' = Latest(runtime)
            BY <2>1 DEF Latest
        <3> QED BY <2>1, <3>2, <3>3, <3>4, StandingRuns
    <2> QED BY <2>1, <2>2, <2>3 DEF RunInv
<1>6. ASSUME NEW t \in Tasks,
             \/ Advances(t) \/ Modify(t) \/ CommitModify(t) \/ Save(t) \/ SaveEnd(t) \/ SwitchOk(t)
             \/ Aside(t) \/ UpdateRuntime(t) \/ \E u \in SwitchTo : Switch(t, u)
      PROVE  RunInv'
    <2>1. booted' = booted /\ exiting' = exiting /\ (Fine' => Fine)
        BY <1>6, TaskFine
    <2>2. booted
        BY <1>6, TaskFine, NotYet
    <2>3. ASSUME Fine' PROVE ~exiting' /\ Good'
        <3>1. Fine /\ Good /\ ~exiting
            BY <2>1, <2>2, <2>3 DEF RunInv
        <3> QED BY <1>6, <2>1, <2>3, <3>1, TaskRuns
    <2> QED BY <2>1, <2>2, <2>3 DEF RunInv
<1> QED BY <1>1, <1>2, <1>3, <1>4, <1>5, <1>6, Steps

LEMMA RunInit == Init => RunInv
<1> SUFFICES ASSUME Init PROVE RunInv
    OBVIOUS
<1>1. Quiet
    BY DEF Init, Quiet, Idle, IdleTask, Task
<1>2. profiles.draft = <<>>
    BY DEF Init, New
<1> QED BY <1>1, <1>2 DEF Init, RunInv

LEMMA RunCurrent == ListInv /\ RunInv => RunningIsCurrent
<1> SUFFICES ASSUME ListInv, RunInv, Quiet, booted, ~clouded, core # NoCfg
             PROVE  core.uid = profiles.data.current
    BY DEF RunningIsCurrent
<1>1. \A t \in Tasks : task[t].op = "idle" /\ task[t].pc = "done"
    BY DEF ListInv, Types, Quiet, Idle
<1>2. Fine
    BY <1>1 DEF Fine
<1>3. Written /\ Resting
    BY <1>2 DEF RunInv, Good
<1>4. \A t \in Tasks : ~Settling(t) /\ ~Owing(t)
    BY <1>1 DEF Settling, Owing
<1>5. Latest(runtime).uid = profiles.data.current
    BY <1>3, <1>4 DEF Resting
<1> QED BY <1>1, <1>3, <1>5 DEF Written

\* When nothing is under way the core runs the profile the list calls current,
\* unless a command was refused or one of the races named there has happened
\* (RunningIsCurrent), for every set of tasks and every number of commands: the
\* switch, the deletion, the update and the settings change leave register, Run
\* file, core and list agreeing (patch_profiles_config, update_config, restart_core).
THEOREM CurrentRuns == Spec => []RunningIsCurrent
<1>1. Init => ListInv /\ RunInv
    BY ListInit, RunInit
<1>2. (ListInv /\ RunInv) /\ [Next]_vars => (ListInv /\ RunInv)'
    BY ListStep, RunStep
<1>3. ListInv /\ RunInv => RunningIsCurrent
    BY RunCurrent
<1> QED BY <1>1, <1>2, <1>3, PTL DEF Spec
=============================================================================
