------------------------ MODULE SidecarRuntimeProofs ------------------------
(***************************************************************************)
(* Proofs about the stream between the app and its sidecar, for every set  *)
(* of launchers and requests and every number of calls and faults.         *)
(*                                                                         *)
(* The argument follows the one request that may be under way.  It is      *)
(* unread, worked on or answered, and its cancel is unsent, unread, taken  *)
(* or too late; each combination fixes both directions of the stream, so   *)
(* that the record which settles the request is the last one.  What the    *)
(* carrier is follows the request in the same way.                         *)
(***************************************************************************)
EXTENDS SidecarRuntime, SequenceTheorems, TLAPS

Requests == Kinds \cup {"none", "bootstrap", "cancel", "disconnect"}

Results == {"none", "invalid", "unavailable", "timed_out", "unauthenticated"}

Runtimes == [gen : Nat, next : Nat, stdin : BOOLEAN, records : BOOLEAN]
Handles ==
    [at : {"none", "launcher", "runtime"}, gen : Nat, open : BOOLEAN, reaped : BOOLEAN, recovery : BOOLEAN]
CallRecords ==
    [op : {"none", "start", "stop", "request"}, kind : Requests, id : Nat, cancelId : Nat,
     primary : Opts, control : Opts, again : BOOLEAN, result : Results, before : BOOLEAN]
Sidecars ==
    [alive : BOOLEAN, serving : BOOLEAN, op : Int, kind : Requests,
     winner : {"running", "completion", "cancel"}, done : {"no", "ok", "err"}, posted : BOOLEAN,
     seen : BOOLEAN, late : Int, carrier : BOOLEAN, transport : BOOLEAN, quit : BOOLEAN, killed : BOOLEAN]
Inputs == [id : Int, kind : Requests]
Outputs == [id : Int, res : Opts]

\* The shape of every variable.
Types ==
    /\ launcher \in {"local", "broker"}
    /\ rt \in Runtimes
    /\ proc \in Handles
    /\ pc \in {"idle", "terminate", "reap", "kill", "poll", "handshake", "graceful", "wait"}
    /\ call \in CallRecords
    /\ toChild \in Seq(Inputs)
    /\ fromChild \in Seq(Outputs)
    /\ go \in Sidecars
    /\ calls \in Nat /\ faults \in Nat

\* The handle is let go of only when the child is gone; the stream is the one
\* of the child the runtime has, and it is dropped before the child is reaped.
Handle ==
    /\ proc.at = "none" => ~go.alive
    /\ proc.reaped => ~go.alive /\ launcher = "broker"
    /\ rt.stdin = rt.records
    /\ rt.records => proc.at = "runtime"
    /\ pc \in {"reap", "kill", "poll"} => ~rt.records
    /\ proc.at = "launcher" => toChild = <<>> /\ ~go.serving /\ go.op = 0

\* The sidecar by itself: its carrier is what its serve loop believes, but for
\* a connect that has succeeded and is not yet completed or undone.
Carrier ==
    /\ go.op = 0 => ~go.posted
    /\ go.posted => go.done # "no" /\ go.winner # "running"
    /\ go.op # 0 /\ ~go.posted => go.winner # "completion"
    /\ go.alive =>
         IF go.op = 0 \/ go.kind # "connect" THEN go.carrier => go.transport
         ELSE ~go.transport /\ go.carrier = (go.done = "ok" /\ ~(go.posted /\ go.winner = "cancel"))

\* The records of the call under way.
Asked == [id |-> call.id, kind |-> call.kind]
Cancelling == [id |-> -call.id, kind |-> "cancel"]
Primary(r) == [id |-> call.id, res |-> r]
Control(r) == [id |-> -call.id, res |-> r]

Silent == fromChild = <<>> /\ call.primary = "none" /\ call.control = "none"

\* The request has not been read.
Unread ==
    /\ toChild = IF call.cancelId = 0 THEN <<Asked>> ELSE <<Asked, Cancelling>>
    /\ Silent /\ go.op = 0
    /\ go.alive => go.carrier = call.before

\* It is worked on, and its cancel not sent or not read, accepted, or too late.
Uncancelled ==
    /\ toChild = IF call.cancelId = 0 THEN <<>> ELSE <<Cancelling>>
    /\ Silent /\ ~go.seen /\ go.late = 0 /\ go.winner # "cancel"

Accepted ==
    /\ call.cancelId # 0 /\ toChild = <<>> /\ go.winner = "cancel" /\ go.seen
    /\ \/ fromChild = <<Control("accepted")>> /\ call.control = "none"
       \/ fromChild = <<>> /\ call.control = "accepted"

TooLate ==
    /\ call.cancelId # 0 /\ toChild = <<>> /\ Silent
    /\ go.winner = "completion" /\ go.seen /\ go.late = -call.id

Working ==
    /\ go.op = call.id /\ go.kind = call.kind /\ call.primary = "none"
    /\ call.kind = "connect" => ~call.before
    /\ Uncancelled \/ Accepted \/ TooLate

\* It is answered with r: alone, before its cancel is read, before a late
\* cancel's answer, or after an accepted one's.
AnsweredAlone(r) ==
    /\ call.cancelId = 0 /\ toChild = <<>> /\ fromChild = <<Primary(r)>>
    /\ call.primary = "none" /\ call.control = "none"

AnsweredFirst(r) ==
    /\ call.cancelId # 0 /\ toChild = <<Cancelling>> /\ call.control = "none"
    /\ \/ fromChild = <<Primary(r)>> /\ call.primary = "none"
       \/ fromChild = <<>> /\ call.primary = r

AnsweredBoth(r) ==
    /\ call.cancelId # 0 /\ toChild = <<>> /\ call.control = "none"
    /\ \/ fromChild = <<Primary(r), Control("late")>> /\ call.primary = "none"
       \/ fromChild = <<Control("late")>> /\ call.primary = r

AnsweredCancelled ==
    /\ call.cancelId # 0 /\ toChild = <<>> /\ call.primary = "none"
    /\ \/ fromChild = <<Control("accepted"), Primary("cancelled")>> /\ call.control = "none"
       \/ fromChild = <<Primary("cancelled")>> /\ call.control = "accepted"

Answered(r) ==
    /\ go.op = 0
    /\ call.kind = "connect" /\ go.alive => go.carrier = (r = "ok" \/ call.before)
    /\ \/ r # "cancelled" /\ (AnsweredAlone(r) \/ AnsweredFirst(r) \/ AnsweredBoth(r))
       \/ r = "cancelled" /\ AnsweredCancelled

\* What a wait for an answer knows.
Waiting ==
    pc = "wait" =>
        /\ rt.records /\ call.id # 0
        /\ go.alive => go.serving
        /\ Unread \/ Working \/ \E r \in {"ok", "err", "late", "cancelled"} : Answered(r)

\* What the handshake knows: the sidecar has not read its bootstrap record, or
\* its one answer is on the way.
Booting ==
    pc = "handshake" =>
        /\ go.op = 0
        /\ \/ fromChild = <<>> /\ ~go.serving /\ Len(toChild) = 1
           \/ Len(fromChild) = 1 /\ toChild = <<>> /\ (go.alive => go.serving)

\* Between calls a stream that is kept is clean.
Resting ==
    pc = "idle" /\ rt.records =>
        toChild = <<>> /\ fromChild = <<>> /\ go.op = 0 /\ (go.alive => go.serving)

IInv == Types /\ Handle /\ Carrier /\ Waiting /\ Booting /\ Resting
-----------------------------------------------------------------------------
(* Sequences and records *)

LEMMA PairIs ==
    ASSUME NEW S, NEW s \in Seq(S), NEW a, NEW b, Len(s) = 2, s[1] = a, s[2] = b
    PROVE  s = <<a, b>>
<1>1. a \in S /\ b \in S
    <2>1. 1 \in 1..Len(s) /\ 2 \in 1..Len(s)
        OBVIOUS
    <2> QED BY <2>1, ElementOfSeq
<1>2. <<a, b>> \in Seq(S) /\ Len(<<a, b>>) = 2 /\ <<a, b>>[1] = a /\ <<a, b>>[2] = b
    BY <1>1
<1>3. \A i \in 1..Len(s) : s[i] = <<a, b>>[i]
    BY <1>2
<1> QED BY <1>2, <1>3, SeqEqual

LEMMA Pairs ==
    ASSUME NEW a, NEW b
    PROVE  /\ Head(<<a>>) = a /\ Tail(<<a>>) = <<>> /\ <<a>> # <<>> /\ Len(<<a>>) = 1
           /\ Head(<<a, b>>) = a /\ Tail(<<a, b>>) = <<b>> /\ <<a, b>> # <<>>
           /\ Append(<<>>, a) = <<a>> /\ Append(<<a>>, b) = <<a, b>>
<1>1. Append(<<a>>, b) = <<a, b>>
    <2>1. <<a>> \in Seq({a, b}) /\ b \in {a, b} /\ <<a, b>> \in Seq({a, b})
        OBVIOUS
    <2>2. Append(<<a>>, b) \in Seq({a, b})
        BY <2>1, AppendProperties
    <2>3. PICK s \in Seq({a, b}) : s = Append(<<a>>, b)
        BY <2>2
    <2>4. Len(s) = 2 /\ s[1] = a /\ s[2] = b
        BY <2>1, <2>3, AppendProperties
    <2>5. s = <<a, b>>
        BY <2>4, PairIs
    <2> QED BY <2>3, <2>5, Zenon
<1> QED BY <1>1

LEMMA Single ==
    ASSUME NEW S, NEW s \in Seq(S), Len(s) = 1
    PROVE  s # <<>> /\ Tail(s) = <<>> /\ Head(s) \in S
<1>1. s # <<>>
    BY EmptySeq
<1>2. Tail(s) \in Seq(S) /\ Len(Tail(s)) = 0 /\ Head(s) \in S
    BY <1>1, HeadTailProperties
<1> QED BY <1>1, <1>2, EmptySeq

LEMMA Grows ==
    ASSUME NEW S, NEW s \in Seq(S), NEW x \in S
    PROVE  Append(s, x) \in Seq(S) /\ Append(s, x) # <<>>
BY AppendProperties

LEMMA Shrinks ==
    ASSUME NEW S, NEW s \in Seq(S), s # <<>>
    PROVE  Tail(s) \in Seq(S) /\ Head(s) \in S
BY HeadTailProperties

LEMMA CallFields ==
    ASSUME NEW c \in CallRecords, NEW r \in Results, NEW b \in BOOLEAN, NEW o \in Opts, NEW n \in Nat
    PROVE  /\ [c EXCEPT !.result = r, !.again = b] \in CallRecords
           /\ [c EXCEPT !.result = r] \in CallRecords
           /\ [c EXCEPT !.again = b] \in CallRecords
           /\ [c EXCEPT !.primary = o] \in CallRecords
           /\ [c EXCEPT !.control = o] \in CallRecords
           /\ [c EXCEPT !.cancelId = n] \in CallRecords
BY Zenon DEF CallRecords

LEMMA CallStarts ==
    ASSUME Types, NEW op \in {"start", "stop", "request"}, NEW kind \in Requests
    PROVE  /\ Call(op, kind) \in CallRecords
           /\ Call(op, kind).op = op /\ Call(op, kind).kind = kind /\ Call(op, kind).id = calls + 1
           /\ Call(op, kind).cancelId = 0 /\ Call(op, kind).primary = "none"
           /\ Call(op, kind).control = "none" /\ Call(op, kind).before = go.carrier
<1>1. calls + 1 \in Nat /\ 0 \in Nat /\ go.carrier \in BOOLEAN /\ "none" \in Opts /\ "none" \in Results
    BY DEF Types, Sidecars, Opts, Results
<1>2. NoCall \in CallRecords
    BY <1>1 DEF NoCall, CallRecords, Requests
<1>3. Call(op, kind) \in CallRecords
    BY <1>1, <1>2, Zenon DEF Call, CallRecords
<1>4. /\ Call(op, kind).op = op /\ Call(op, kind).kind = kind /\ Call(op, kind).id = calls + 1
      /\ Call(op, kind).before = go.carrier
    BY <1>2 DEF Call, CallRecords
<1>5. /\ Call(op, kind).cancelId = NoCall.cancelId /\ Call(op, kind).primary = NoCall.primary
      /\ Call(op, kind).control = NoCall.control
    BY <1>2 DEF Call, CallRecords
<1> QED BY <1>3, <1>4, <1>5 DEF NoCall

LEMMA NoCallTypes == NoCall \in CallRecords
BY DEF NoCall, CallRecords, Opts, Results, Requests
-----------------------------------------------------------------------------
(* The process handle *)

LEMMA InitKeeps == Init => IInv
<1> SUFFICES ASSUME Init PROVE IInv
    OBVIOUS
<1>1. launcher \in {"local", "broker"}
    BY LaunchersAssumption DEF Init
<1>2. Spawned \in Sidecars /\ (launcher = "broker") \in BOOLEAN
    BY DEF Spawned, Sidecars, Requests
<1>3. go \in Sidecars
    BY <1>2, Zenon DEF Init, Sidecars
<1>4. /\ go.alive = (launcher = "broker") /\ go.serving = Spawned.serving /\ go.op = Spawned.op
      /\ go.posted = Spawned.posted /\ go.carrier = Spawned.carrier /\ go.transport = Spawned.transport
    BY <1>2 DEF Init, Sidecars
<1>5. ~go.serving /\ go.op = 0 /\ ~go.posted /\ go.carrier = go.transport
    BY <1>4 DEF Spawned
<1>6. rt \in Runtimes /\ proc \in Handles
    BY <1>1 DEF Init, Runtimes, Handles, Prepared
<1>7. toChild \in Seq(Inputs) /\ fromChild \in Seq(Outputs)
    BY EmptySeq DEF Init
<1>8. Types
    BY <1>1, <1>3, <1>6, <1>7, NoCallTypes DEF Init, Types
<1>9. Handle
    BY <1>1, <1>4, <1>5 DEF Init, Handle, Prepared
<1>10. Carrier
    BY <1>5 DEF Carrier
<1> QED BY <1>5, <1>8, <1>9, <1>10 DEF IInv, Init, Waiting, Booting, Resting

\* What an answer of the process handle leaves as it was.
LEMMA TryWaitFacts ==
    ASSUME Types, Handle, NEW w \in TryWait(proc)
    PROVE  /\ w.p \in Handles /\ w.p.at = proc.at /\ w.p.reaped = proc.reaped
           /\ w.r = "some" => ~go.alive
           /\ w.f \in Nat
<1>1. CASE launcher = "local"
    BY <1>1 DEF TryWait, LocalTryWait, Types
<1>2. CASE launcher # "local"
    <2>1. /\ EnterRecoveryOnly(proc) \in Handles /\ EnterRecoveryOnly(proc).at = proc.at
          /\ EnterRecoveryOnly(proc).reaped = proc.reaped
        <3>1. EnterRecoveryOnly(proc) \in Handles
            BY Zenon DEF EnterRecoveryOnly, Types, Handles
        <3> QED BY <3>1 DEF EnterRecoveryOnly, Types, Handles
    <2>2. CASE proc.reaped
        <3>1. w.r = "some" /\ w.p = proc /\ w.f = 0
            BY <1>2, <2>2 DEF TryWait, BrokerTryWait
        <3>2. ~go.alive
            BY <2>2 DEF Handle
        <3> QED BY <3>1, <3>2 DEF Types
    <2>3. CASE ~proc.reaped /\ proc.recovery
        BY <1>2, <2>3 DEF TryWait, BrokerTryWait, Types
    <2>4. CASE ~proc.reaped /\ ~proc.recovery
        <3>1. PICK reply \in StatusReplies :
                /\ w.r = IF Ambiguous(reply) THEN "err" ELSE "none"
                /\ w.p = IF Ambiguous(reply) THEN EnterRecoveryOnly(proc) ELSE proc
                /\ w.f = reply.f
            BY <1>2, <2>4 DEF TryWait, BrokerTryWait
        <3>2. reply.f \in Nat
            BY DEF StatusReplies, Lost, Reply
        <3> QED BY <2>1, <3>1, <3>2 DEF Types
    <2> QED BY <2>2, <2>3, <2>4
<1> QED BY <1>1, <1>2

\* A kill counts the child as reaped only when the broker says that it ended.
LEMMA KillFacts ==
    ASSUME Types, Handle, NEW k \in KillOwned(proc)
    PROVE  /\ k.p \in Handles /\ k.p.at = proc.at /\ k.ended \in BOOLEAN /\ k.f \in Nat
           /\ k.p.reaped => launcher = "broker" /\ (~go.alive \/ k.ended)
<1>1. CASE launcher = "local"
    <2>1. k = [p |-> proc, f |-> 0, ended |-> FALSE]
        BY <1>1 DEF KillOwned, LocalKill
    <2>2. k.p = proc /\ k.f = 0
        BY <2>1
    <2>3. k.ended \in BOOLEAN
        BY <2>1
    <2>4. proc.reaped => ~go.alive /\ launcher = "broker"
        BY DEF Handle
    <2>5. proc \in Handles
        BY DEF Types
    <2> QED BY <2>2, <2>3, <2>4, <2>5
<1>2. CASE launcher # "local" /\ (proc.recovery \/ proc.reaped)
    <2>1. k = [p |-> proc, f |-> 0, ended |-> FALSE]
        BY <1>2 DEF KillOwned, BrokerKill
    <2>2. k.p = proc /\ k.f = 0
        BY <2>1
    <2>3. k.ended \in BOOLEAN
        BY <2>1
    <2>4. proc.reaped => ~go.alive /\ launcher = "broker"
        BY DEF Handle
    <2>5. proc \in Handles
        BY DEF Types
    <2> QED BY <2>2, <2>3, <2>4, <2>5
<1>3. CASE launcher # "local" /\ ~(proc.recovery \/ proc.reaped)
    <2>1. PICK reply \in StopReplies :
            /\ k.p = IF Ambiguous(reply) THEN EnterRecoveryOnly(proc)
                     ELSE [proc EXCEPT !.open = FALSE, !.reaped = (reply.error = "none")]
            /\ k.f = reply.f
            /\ k.ended \in IF reply.state = "lost" THEN {FALSE, StateNow = "running"}
                           ELSE {reply.error = "none"}
        <3> DEFINE Handled(reply) == IF Ambiguous(reply) THEN EnterRecoveryOnly(proc)
                                     ELSE [proc EXCEPT !.open = FALSE, !.reaped = (reply.error = "none")]
                   Ends(reply) == IF reply.state = "lost" THEN {FALSE, StateNow = "running"}
                                  ELSE {reply.error = "none"}
                   Outcomes(reply) == {[p |-> Handled(reply), f |-> reply.f, ended |-> e] : e \in Ends(reply)}
        <3>1. k \in UNION {Outcomes(reply) : reply \in StopReplies}
            BY <1>3 DEF KillOwned, BrokerKill
        <3>2. PICK reply \in StopReplies : k \in Outcomes(reply)
            BY <3>1
        <3>3. PICK e \in Ends(reply) : k = [p |-> Handled(reply), f |-> reply.f, ended |-> e]
            BY <3>2
        <3>4. k.p = Handled(reply) /\ k.f = reply.f /\ k.ended = e
            BY <3>3
        <3> QED BY <3>3, <3>4
    <2>2. reply.f \in Nat /\ (reply.state = "lost" => Ambiguous(reply))
        BY DEF StopReplies, Lost, Reply, Ambiguous
    <2>3. CASE Ambiguous(reply)
        <3>1. EnterRecoveryOnly(proc) \in Handles
            BY Zenon DEF EnterRecoveryOnly, Types, Handles
        <3>2. EnterRecoveryOnly(proc).at = proc.at /\ EnterRecoveryOnly(proc).reaped = proc.reaped
            BY DEF EnterRecoveryOnly, Types, Handles
        <3> QED BY <1>3, <2>1, <2>2, <2>3, <3>1, <3>2
    <2>4. CASE ~Ambiguous(reply)
        <3>1. (reply.error = "none") \in BOOLEAN
            OBVIOUS
        <3>2. k.p \in Handles
            BY <2>1, <2>4, <3>1, Zenon DEF Types, Handles
        <3>3. k.p.at = proc.at /\ k.p.reaped = (reply.error = "none")
            BY <2>1, <2>4 DEF Types, Handles
        <3> QED BY <1>3, <2>1, <2>2, <2>4, <3>2, <3>3 DEF Types
    <2> QED BY <2>3, <2>4
<1> QED BY <1>1, <1>2, <1>3

LEMMA KilledFacts ==
    ASSUME Types, NEW k, k.ended \in BOOLEAN, k.f \in Nat, Killed(k)
    PROVE  /\ go' \in Sidecars /\ faults' \in Nat
           /\ go'.alive = (go.alive /\ ~k.ended)
           /\ go'.op = go.op /\ go'.serving = go.serving /\ go'.posted = go.posted
           /\ go'.done = go.done /\ go'.winner = go.winner /\ go'.kind = go.kind
           /\ go'.transport = go.transport /\ (go'.alive => go.alive /\ go'.carrier = go.carrier)
<1>0. faults' \in Nat
    BY DEF Killed, Types
<1>1. CASE k.ended
    <2>1. go' \in Sidecars
        BY <1>1, Zenon DEF Killed, Types, Sidecars
    <2> QED BY <1>0, <1>1, <2>1 DEF Killed, Types, Sidecars
<1>2. CASE ~k.ended
    <2>1. (launcher = "local") \in BOOLEAN
        OBVIOUS
    <2>2. go' \in Sidecars
        BY <1>2, <2>1, Zenon DEF Killed, Types, Sidecars
    <2> QED BY <1>0, <1>2, <2>2 DEF Killed, Types, Sidecars
<1> QED BY <1>1, <1>2
-----------------------------------------------------------------------------
(* The runtime: terminating the child *)

LEMMA CarrierSame ==
    ASSUME Carrier, UNCHANGED go
    PROVE  Carrier'
BY DEF Carrier

\* A step that leaves no request under way and no stream between calls.
LEMMA Leaves ==
    ASSUME Types', Handle', Carrier', pc' \notin {"wait", "handshake"}, pc' = "idle" => ~rt'.records
    PROVE  IInv'
BY DEF IInv, Waiting, Booting, Resting

LEMMA TerminatedFacts ==
    ASSUME Types, NEW ok, Terminated(ok)
    PROVE  pc' \in {"idle", "terminate"} /\ call' \in CallRecords
<1>1. [call EXCEPT !.again = FALSE] \in CallRecords
    BY Zenon DEF Types, CallRecords
<1> QED BY <1>1, NoCallTypes DEF Terminated, Return

LEMMA ReleasedFacts ==
    ASSUME Types, Handle, Released, ~go.alive, ~rt.records, UNCHANGED <<launcher, go, toChild>>
    PROVE  rt' \in Runtimes /\ proc' \in Handles /\ Handle'
<1>1. 0 \in Nat /\ "none" \in {"none", "launcher", "runtime"}
    OBVIOUS
<1>2. rt' \in Runtimes /\ proc' \in Handles
    BY <1>1, Zenon DEF Released, Types, Runtimes, Handles
<1>3. rt'.stdin = rt.stdin /\ rt'.records = rt.records /\ proc'.at = "none" /\ proc'.reaped = proc.reaped
    BY DEF Released, Types, Runtimes, Handles
<1> QED BY <1>2, <1>3 DEF Handle

LEMMA KeptFacts ==
    ASSUME Handle, UNCHANGED <<launcher, go, toChild, rt>>, proc'.at = proc.at, proc'.reaped = proc.reaped,
           pc' \in {"reap", "kill", "poll"} => ~rt.records
    PROVE  Handle'
BY DEF Handle

LEMMA ReapFirstKeeps == ASSUME IInv, ReapFirst PROVE IInv'
<1>0. Types /\ Handle /\ Carrier /\ ~rt.records /\ UNCHANGED <<launcher, toChild, fromChild, go, calls>>
    BY DEF IInv, ReapFirst, Handle
<1>1. PICK w \in TryWait(proc) :
        /\ faults' = faults + w.f
        /\ IF w.r = "some" THEN Released /\ Terminated(TRUE)
           ELSE proc' = w.p /\ pc' = "kill" /\ UNCHANGED <<rt, call, cancel, last>>
    BY DEF ReapFirst
<1>2. w.p \in Handles /\ w.p.at = proc.at /\ w.p.reaped = proc.reaped /\ (w.r = "some" => ~go.alive) /\ w.f \in Nat
    BY <1>0, TryWaitFacts
<1>3. CASE w.r = "some"
    <2>1. rt' \in Runtimes /\ proc' \in Handles /\ Handle'
        BY <1>0, <1>1, <1>2, <1>3, ReleasedFacts
    <2>2. pc' \in {"idle", "terminate"} /\ call' \in CallRecords
        BY <1>0, <1>1, <1>3, TerminatedFacts
    <2>3. Types'
        BY <1>0, <1>1, <1>2, <2>1, <2>2 DEF Types
    <2>4. rt'.records = rt.records
        BY <1>0, <1>1, <1>3 DEF Released, Types, Runtimes
    <2> QED BY <1>0, <2>1, <2>2, <2>3, <2>4, CarrierSame, Leaves
<1>4. CASE w.r # "some"
    <2>1. proc' = w.p /\ pc' = "kill" /\ UNCHANGED <<rt, call>>
        BY <1>1, <1>4
    <2>2. Types'
        BY <1>0, <1>1, <1>2, <2>1 DEF Types
    <2>3. Handle'
        BY <1>0, <1>2, <2>1, KeptFacts
    <2> QED BY <1>0, <2>1, <2>2, <2>3, CarrierSame, Leaves
<1> QED BY <1>3, <1>4

LEMMA PollKeeps == ASSUME IInv, Poll PROVE IInv'
<1>0. Types /\ Handle /\ Carrier /\ ~rt.records /\ pc = "poll" /\ UNCHANGED <<launcher, toChild, fromChild, go, calls>>
    BY DEF IInv, Poll, Handle
<1>1. PICK w \in TryWait(proc) :
        /\ faults' = faults + w.f
        /\ \/ w.r = "some" /\ Released /\ Terminated(TRUE)
           \/ w.r # "some" /\ proc' = w.p /\ Terminated(FALSE) /\ UNCHANGED rt
           \/ w.r # "some" /\ proc' = w.p /\ UNCHANGED <<pc, call, cancel, last, rt>>
    BY DEF Poll
<1>2. w.p \in Handles /\ w.p.at = proc.at /\ w.p.reaped = proc.reaped /\ (w.r = "some" => ~go.alive) /\ w.f \in Nat
    BY <1>0, TryWaitFacts
<1>3. CASE w.r = "some" /\ Released /\ Terminated(TRUE)
    <2>1. rt' \in Runtimes /\ proc' \in Handles /\ Handle'
        BY <1>0, <1>2, <1>3, ReleasedFacts
    <2>2. pc' \in {"idle", "terminate"} /\ call' \in CallRecords
        BY <1>0, <1>3, TerminatedFacts
    <2>3. Types'
        BY <1>0, <1>1, <1>2, <2>1, <2>2 DEF Types
    <2>4. rt'.records = rt.records
        BY <1>0, <1>3 DEF Released, Types, Runtimes
    <2> QED BY <1>0, <2>1, <2>2, <2>3, <2>4, CarrierSame, Leaves
<1>4. CASE proc' = w.p /\ Terminated(FALSE) /\ UNCHANGED rt
    <2>1. pc' \in {"idle", "terminate"} /\ call' \in CallRecords
        BY <1>0, <1>4, TerminatedFacts
    <2>2. Types'
        BY <1>0, <1>1, <1>2, <1>4, <2>1 DEF Types
    <2>3. Handle'
        BY <1>0, <1>2, <1>4, KeptFacts
    <2> QED BY <1>0, <1>4, <2>1, <2>2, <2>3, CarrierSame, Leaves
<1>5. CASE proc' = w.p /\ UNCHANGED <<pc, call, cancel, last, rt>>
    <2>1. Types'
        BY <1>0, <1>1, <1>2, <1>5 DEF Types
    <2>2. Handle'
        BY <1>0, <1>2, <1>5, KeptFacts
    <2> QED BY <1>0, <1>5, <2>1, <2>2, CarrierSame, Leaves
<1> QED BY <1>1, <1>3, <1>4, <1>5

\* A kill that ended the child, or left it alone.
LEMMA CarrierKilled ==
    ASSUME Carrier, go'.op = go.op, go'.posted = go.posted, go'.done = go.done, go'.winner = go.winner,
           go'.kind = go.kind, go'.transport = go.transport, go'.alive => go.alive /\ go'.carrier = go.carrier
    PROVE  Carrier'
BY DEF Carrier

LEMMA KillKeeps == ASSUME IInv, Kill PROVE IInv'
<1>0. Types /\ Handle /\ Carrier /\ ~rt.records /\ pc' = "poll"
      /\ UNCHANGED <<launcher, rt, call, toChild, fromChild, calls>>
    BY DEF IInv, Kill, Handle
<1>1. PICK k \in KillOwned(proc) : Killed(k) /\ proc' = k.p
    BY DEF Kill
<1>2. /\ k.p \in Handles /\ k.p.at = proc.at /\ k.ended \in BOOLEAN /\ k.f \in Nat
      /\ k.p.reaped => launcher = "broker" /\ (~go.alive \/ k.ended)
    BY <1>0, KillFacts
<1>3. /\ go' \in Sidecars /\ faults' \in Nat
      /\ go'.alive = (go.alive /\ ~k.ended) /\ go'.op = go.op /\ go'.serving = go.serving
    BY <1>0, <1>1, <1>2, KilledFacts
<1>4. Carrier'
    <2>1. /\ go'.op = go.op /\ go'.posted = go.posted /\ go'.done = go.done /\ go'.winner = go.winner
          /\ go'.kind = go.kind /\ go'.transport = go.transport
          /\ go'.alive => go.alive /\ go'.carrier = go.carrier
        BY <1>0, <1>1, <1>2, KilledFacts
    <2> QED BY <1>0, <2>1, CarrierKilled
<1>5. Types'
    BY <1>0, <1>1, <1>2, <1>3 DEF Types
<1>6. Handle'
    BY <1>0, <1>1, <1>2, <1>3 DEF Handle
<1> QED BY <1>0, <1>4, <1>5, <1>6, Leaves

LEMMA TerminateChildKeeps == ASSUME IInv, TerminateChild PROVE IInv'
<1>0. Types /\ Handle /\ Carrier /\ UNCHANGED <<launcher, toChild, fromChild, calls>>
      /\ rt' = [rt EXCEPT !.stdin = FALSE, !.records = FALSE]
    BY DEF IInv, TerminateChild
<1>1. rt' \in Runtimes
    BY <1>0, Zenon DEF Types, Runtimes
<1>2. ~rt'.records /\ ~rt'.stdin /\ rt'.stdin = rt'.records
    BY <1>0 DEF Types, Runtimes
<1>3. CASE rt.gen = 0 /\ CancelPrepared /\ proc.at # "launcher"
    <2>1. Terminated(TRUE) /\ UNCHANGED <<proc, go, broker>> /\ NoFault
        BY <1>3 DEF CancelPrepared
    <2>2. pc' \in {"idle", "terminate"} /\ call' \in CallRecords
        BY <1>0, <2>1, TerminatedFacts
    <2>3. Types'
        BY <1>0, <1>1, <2>1, <2>2 DEF Types, NoFault
    <2>4. Handle'
        BY <1>0, <1>2, <2>1, <2>2 DEF Handle
    <2> QED BY <1>0, <1>2, <2>1, <2>2, <2>3, <2>4, CarrierSame, Leaves
<1>4. CASE rt.gen = 0 /\ CancelPrepared /\ proc.at = "launcher"
    <2>1. PICK k \in KillOwned(proc) :
            /\ Killed(k)
            /\ proc' = IF k.p.reaped THEN [k.p EXCEPT !.at = "none"] ELSE k.p
            /\ Terminated(k.p.reaped)
        BY <1>4 DEF CancelPrepared
    <2>2. pc' \in {"idle", "terminate"} /\ call' \in CallRecords
        BY <1>0, <2>1, TerminatedFacts
    <2>3. /\ k.p \in Handles /\ k.p.at = proc.at /\ k.ended \in BOOLEAN /\ k.f \in Nat
          /\ k.p.reaped => launcher = "broker" /\ (~go.alive \/ k.ended)
        BY <1>0, KillFacts
    <2>4. /\ go' \in Sidecars /\ faults' \in Nat
          /\ go'.alive = (go.alive /\ ~k.ended) /\ go'.op = go.op /\ go'.serving = go.serving
        BY <1>0, <2>1, <2>3, KilledFacts
    <2>5. Carrier'
        <3>1. /\ go'.op = go.op /\ go'.posted = go.posted /\ go'.done = go.done /\ go'.winner = go.winner
              /\ go'.kind = go.kind /\ go'.transport = go.transport
              /\ go'.alive => go.alive /\ go'.carrier = go.carrier
            BY <1>0, <2>1, <2>3, KilledFacts
        <3> QED BY <1>0, <3>1, CarrierKilled
    <2>6. proc' \in Handles
        BY <2>1, <2>3, Zenon DEF Handles
    <2>7. proc'.reaped = k.p.reaped /\ proc'.at = (IF k.p.reaped THEN "none" ELSE proc.at)
        BY <2>1, <2>3 DEF Handles
    <2>8. Types'
        BY <1>0, <1>1, <2>2, <2>4, <2>6 DEF Types
    <2>9. Handle'
        BY <1>0, <1>2, <1>4, <2>2, <2>3, <2>4, <2>7 DEF Handle
    <2> QED BY <1>2, <2>2, <2>5, <2>8, <2>9, Leaves
<1>5. CASE rt.gen # 0
    <2>1. pc' = "reap" /\ UNCHANGED <<proc, go, broker, call>> /\ NoFault
        BY <1>5 DEF TerminateChild
    <2>2. Types'
        BY <1>0, <1>1, <2>1 DEF Types, NoFault
    <2>3. Handle'
        BY <1>0, <1>2, <2>1 DEF Handle
    <2> QED BY <1>0, <1>2, <2>1, <2>2, <2>3, CarrierSame, Leaves
<1> QED BY <1>3, <1>4, <1>5 DEF TerminateChild
-----------------------------------------------------------------------------
(* The runtime: start, status and stop *)

\* A call that gives up its stream.
LEMMA Abandons ==
    ASSUME IInv, pc' = "terminate", call' \in CallRecords, fromChild' \in Seq(Outputs), calls' \in Nat,
           UNCHANGED <<launcher, rt, proc, toChild, go, faults>>
    PROVE  IInv'
<1>1. Types /\ Handle /\ Carrier
    BY DEF IInv
<1>2. Types'
    BY <1>1 DEF Types
<1>3. Handle'
    BY <1>1 DEF Handle
<1> QED BY <1>1, <1>2, <1>3, CarrierSame, Leaves

LEMMA TerminatingFacts ==
    ASSUME NEW c \in CallRecords, NEW r \in Results, Terminating(c, r)
    PROVE  pc' = "terminate" /\ call' \in CallRecords
<1>1. (c.op \in {"start", "stop"}) \in BOOLEAN
    OBVIOUS
<1>2. [c EXCEPT !.result = r, !.again = c.op \in {"start", "stop"}] \in CallRecords
    BY <1>1, Zenon DEF CallRecords
<1> QED BY <1>2 DEF Terminating

LEMMA StartRefusedKeeps == ASSUME IInv, StartRefused PROVE IInv'
<1>0. /\ Types /\ Handle /\ Carrier /\ UNCHANGED <<launcher, proc, go, broker, toChild, fromChild>>
      /\ pc' = "terminate"
    BY DEF IInv, StartRefused
<1>1. calls' \in Nat /\ faults' \in Nat
    BY <1>0 DEF Types, StartRefused, Enter, Fault
<1>2. PICK c \in CallRecords : c = Call("start", "none")
    BY <1>0, CallStarts DEF Requests
<1>3. /\ [c EXCEPT !.result = "unauthenticated"] \in CallRecords
      /\ [c EXCEPT !.result = "unavailable"] \in CallRecords
    BY Zenon DEF CallRecords, Results
<1>4. call' \in CallRecords
    BY <1>2, <1>3 DEF StartRefused
<1>5. rt.next + 1 \in Nat
    BY <1>0 DEF Types, Runtimes
<1>6. [rt EXCEPT !.next = rt.next + 1] \in Runtimes
    BY <1>0, <1>5, Zenon DEF Types, Runtimes
<1>7. rt' \in Runtimes /\ rt'.stdin = rt.stdin /\ rt'.records = rt.records
    BY <1>0, <1>6 DEF StartRefused, Types, Runtimes
<1>8. Types'
    BY <1>0, <1>1, <1>4, <1>7 DEF Types
<1>9. Handle'
    BY <1>0, <1>7 DEF Handle
<1> QED BY <1>0, <1>8, <1>9, CarrierSame, Leaves

LEMMA StartKeeps == ASSUME IInv, Start PROVE IInv'
<1>0. Types /\ Handle /\ Carrier /\ UNCHANGED <<launcher, broker, faults>> /\ pc = "idle" /\ calls' = calls + 1
    BY DEF IInv, Start, Enter
<1>1. calls' \in Nat
    BY <1>0 DEF Types
<1>2. PICK c \in CallRecords : c = Call("start", "none")
    BY <1>0, CallStarts DEF Requests
<1>3. [c EXCEPT !.result = "invalid"] \in CallRecords
    BY Zenon DEF CallRecords, Results
<1>4. CASE proc.at = "runtime"
    <2>1. /\ pc' = "terminate" /\ call' = [c EXCEPT !.result = "invalid"]
          /\ UNCHANGED <<rt, proc, go, toChild, fromChild>>
        BY <1>2, <1>4 DEF Start
    <2>2. fromChild' \in Seq(Outputs)
        BY <1>0, <2>1 DEF Types
    <2> QED BY <1>0, <1>1, <1>3, <2>1, <2>2, Abandons
<1>5. CASE proc.at # "runtime" /\ ~MayLaunch
    <2>1. /\ rt' = [rt EXCEPT !.next = rt.next + 1]
          /\ pc' = "terminate" /\ call' = [c EXCEPT !.result = "invalid"]
          /\ UNCHANGED <<proc, go, toChild, fromChild>>
        BY <1>2, <1>5 DEF Start
    <2>2. rt.next + 1 \in Nat
        BY <1>0 DEF Types, Runtimes
    <2>3. rt' \in Runtimes
        BY <1>0, <2>1, <2>2, Zenon DEF Types, Runtimes
    <2>4. rt'.stdin = rt.stdin /\ rt'.records = rt.records
        BY <1>0, <2>1 DEF Types, Runtimes
    <2>5. Types'
        BY <1>0, <1>1, <1>3, <2>1, <2>3 DEF Types
    <2>6. Handle'
        BY <1>0, <2>1, <2>4 DEF Handle
    <2> QED BY <1>0, <2>1, <2>5, <2>6, CarrierSame, Leaves
<1>6. CASE proc.at # "runtime" /\ MayLaunch
    <2>1. /\ rt' = [gen |-> rt.next + 1, next |-> rt.next + 1, stdin |-> proc.open, records |-> proc.open]
          /\ proc' = [proc EXCEPT !.at = "runtime", !.gen = rt.next + 1]
          /\ go' = IF launcher = "local" THEN Spawned ELSE go
          /\ fromChild' = <<>>
          /\ IF go'.alive /\ proc.open
               THEN toChild' = <<[id |-> 0, kind |-> "bootstrap"]>> /\ pc' = "handshake" /\ call' = c
               ELSE toChild' = <<>> /\ Terminating(c, "unavailable")
        BY <1>2, <1>6 DEF Start
    <2>2. rt.next + 1 \in Nat /\ proc.open \in BOOLEAN
        BY <1>0 DEF Types, Runtimes, Handles
    <2>3. rt' \in Runtimes /\ rt'.stdin = rt'.records
        BY <2>1, <2>2 DEF Runtimes
    <2>4. proc' \in Handles
        BY <1>0, <2>1, <2>2, Zenon DEF Types, Handles
    <2>5. proc'.at = "runtime" /\ proc'.reaped = proc.reaped
        BY <1>0, <2>1 DEF Types, Handles
    <2>6. Spawned \in Sidecars
        BY DEF Spawned, Sidecars, Requests
    <2>7. /\ go' \in Sidecars /\ ~go'.serving /\ go'.op = 0
          /\ proc.reaped => ~go'.alive /\ launcher = "broker"
        <3>1. CASE launcher = "local"
            <4>1. ~proc.reaped
                BY <1>0, <3>1 DEF Handle
            <4>2. go' = Spawned
                BY <2>1, <3>1
            <4> QED BY <2>6, <4>1, <4>2 DEF Spawned
        <3>2. CASE launcher # "local"
            <4>1. go' = go /\ proc.at = "launcher" /\ ~proc.reaped
                BY <1>6, <2>1, <3>2 DEF MayLaunch
            <4> QED BY <1>0, <4>1 DEF Types, Handle
        <3> QED BY <3>1, <3>2
    <2>8. Carrier'
        <3>1. CASE launcher = "local"
            <4>1. go' = Spawned
                BY <2>1, <3>1
            <4>2. go'.op = 0 /\ ~go'.posted /\ go'.carrier = go'.transport
                BY <4>1 DEF Spawned
            <4> QED BY <4>2 DEF Carrier
        <3>2. CASE launcher # "local"
            BY <1>0, <2>1, <3>2, CarrierSame
        <3> QED BY <3>1, <3>2
    <2>9. CASE go'.alive /\ proc.open
        <3>1. toChild' = <<[id |-> 0, kind |-> "bootstrap"]>> /\ pc' = "handshake" /\ call' = c
            BY <2>1, <2>9
        <3>2. [id |-> 0, kind |-> "bootstrap"] \in Inputs
            BY DEF Inputs, Requests
        <3>3. toChild' \in Seq(Inputs) /\ Len(toChild') = 1
            BY <3>1, <3>2
        <3>4. fromChild' \in Seq(Outputs)
            BY <2>1, EmptySeq
        <3>5. Types'
            BY <1>0, <1>1, <2>3, <2>4, <2>7, <3>1, <3>3, <3>4 DEF Types
        <3>6. Handle'
            BY <1>0, <2>3, <2>5, <2>7, <3>1 DEF Handle
        <3>7. Waiting' /\ Resting'
            BY <3>1 DEF Waiting, Resting
        <3>8. Booting'
            BY <2>1, <2>7, <3>3 DEF Booting
        <3> QED BY <2>8, <3>5, <3>6, <3>7, <3>8 DEF IInv
    <2>10. CASE ~(go'.alive /\ proc.open)
        <3>1. toChild' = <<>> /\ Terminating(c, "unavailable")
            BY <2>1, <2>10
        <3>2. "unavailable" \in Results
            BY DEF Results
        <3>3. pc' = "terminate" /\ call' \in CallRecords
            BY <3>1, <3>2, TerminatingFacts
        <3>4. toChild' \in Seq(Inputs) /\ fromChild' \in Seq(Outputs)
            BY <2>1, <3>1, EmptySeq
        <3>5. Types'
            BY <1>0, <1>1, <2>3, <2>4, <2>7, <3>3, <3>4 DEF Types
        <3>6. Handle'
            BY <1>0, <2>3, <2>5, <2>7, <3>3 DEF Handle
        <3> QED BY <2>8, <3>3, <3>5, <3>6, Leaves
    <2> QED BY <2>9, <2>10
<1> QED BY <1>4, <1>5, <1>6

LEMMA HandshakeKeeps == ASSUME IInv, Handshake PROVE IInv'
<1>0. Types /\ Handle /\ Carrier /\ Booting /\ pc = "handshake"
      /\ UNCHANGED <<launcher, rt, proc, toChild, go, broker, calls, faults>>
    BY DEF IInv, Handshake
<1>1. call \in CallRecords /\ calls' \in Nat /\ fromChild \in Seq(Outputs)
    BY <1>0 DEF Types
<1>2. CASE fromChild = <<>>
    <2>1. Terminating(call, IF go.alive THEN "timed_out" ELSE "unavailable") /\ fromChild' = fromChild
        BY <1>2 DEF Handshake
    <2>2. (IF go.alive THEN "timed_out" ELSE "unavailable") \in Results
        BY DEF Results
    <2>3. pc' = "terminate" /\ call' \in CallRecords
        BY <1>1, <2>1, <2>2, TerminatingFacts
    <2> QED BY <1>0, <1>1, <2>1, <2>3, Abandons
<1>3. CASE fromChild # <<>>
    <2>1. Len(fromChild) = 1 /\ toChild = <<>> /\ (go.alive => go.serving) /\ go.op = 0
        BY <1>0, <1>3 DEF Booting
    <2>2. fromChild' = Tail(fromChild) /\ fromChild' = <<>>
        BY <1>1, <1>3, <2>1, Single DEF Handshake
    <2>3. fromChild' \in Seq(Outputs)
        BY <2>2, EmptySeq
    <2>4. CASE Head(fromChild).res = "handshake"
        <3>1. pc' = "idle" /\ call' = NoCall
            BY <1>3, <2>4 DEF Handshake, Return
        <3>2. Types'
            BY <1>0, <2>3, <3>1, NoCallTypes DEF Types
        <3>3. Handle'
            BY <1>0, <3>1 DEF Handle
        <3>4. Waiting' /\ Booting'
            BY <3>1 DEF Waiting, Booting
        <3>5. Resting'
            BY <1>0, <2>1, <2>2 DEF Resting
        <3> QED BY <1>0, <3>2, <3>3, <3>4, <3>5, CarrierSame DEF IInv
    <2>5. CASE Head(fromChild).res # "handshake"
        <3>1. pc' = "terminate" /\ call' = [call EXCEPT !.result = "unauthenticated"]
            BY <1>3, <2>5 DEF Handshake
        <3>2. call' \in CallRecords
            BY <1>1, <3>1, Zenon DEF CallRecords, Results
        <3> QED BY <1>0, <1>1, <2>3, <3>1, <3>2, Abandons
    <2> QED BY <2>4, <2>5
<1> QED BY <1>2, <1>3

\* An exit that is seen releases the child and the stream.
LEMMA ExitSeen ==
    ASSUME Types, Handle, ~go.alive, UNCHANGED <<launcher, go, toChild>>, pc' = "idle",
           proc' = [proc EXCEPT !.at = "none"],
           rt' = [rt EXCEPT !.gen = 0, !.stdin = FALSE, !.records = FALSE]
    PROVE  proc' \in Handles /\ rt' \in Runtimes /\ ~rt'.records /\ Handle'
<1>1. 0 \in Nat
    OBVIOUS
<1>2. proc' \in Handles /\ rt' \in Runtimes
    BY <1>1, Zenon DEF Types, Handles, Runtimes
<1>3. proc'.at = "none" /\ proc'.reaped = proc.reaped /\ ~rt'.records /\ rt'.stdin = rt'.records
    BY DEF Types, Handles, Runtimes
<1> QED BY <1>2, <1>3 DEF Handle

LEMMA RestingSame ==
    ASSUME Resting, UNCHANGED <<pc, rt, toChild, fromChild, go>>
    PROVE  Resting'
BY DEF Resting

LEMMA StatusKeeps == ASSUME IInv, Status PROVE IInv'
<1>0. Types /\ Handle /\ Carrier /\ Resting /\ pc = "idle" /\ calls' = calls + 1
      /\ UNCHANGED <<launcher, pc, call, cancel, toChild, fromChild, go, broker>>
    BY DEF IInv, Status, Enter
<1>1. PICK w \in TryWait(proc) :
        /\ faults' = faults + w.f
        /\ IF w.r = "some"
             THEN /\ proc' = [proc EXCEPT !.at = "none"]
                  /\ rt' = [rt EXCEPT !.gen = 0, !.stdin = FALSE, !.records = FALSE]
             ELSE proc' = w.p /\ UNCHANGED rt
    BY DEF Status
<1>2. w.p \in Handles /\ w.p.at = proc.at /\ w.p.reaped = proc.reaped /\ (w.r = "some" => ~go.alive) /\ w.f \in Nat
    BY <1>0, TryWaitFacts
<1>3. calls' \in Nat /\ faults' \in Nat /\ pc' = "idle"
    BY <1>0, <1>1, <1>2 DEF Types
<1>4. CASE w.r = "some"
    <2>1. proc' \in Handles /\ rt' \in Runtimes /\ ~rt'.records /\ Handle'
        BY <1>0, <1>1, <1>2, <1>3, <1>4, ExitSeen
    <2>2. Types'
        BY <1>0, <1>3, <2>1 DEF Types
    <2> QED BY <1>0, <1>3, <2>1, <2>2, CarrierSame, Leaves
<1>5. CASE w.r # "some"
    <2>1. proc' = w.p /\ UNCHANGED rt
        BY <1>1, <1>5
    <2>2. Types'
        BY <1>0, <1>2, <1>3, <2>1 DEF Types
    <2>3. Handle'
        BY <1>0, <1>2, <1>3, <2>1, KeptFacts
    <2>4. Resting'
        BY <1>0, <2>1, RestingSame
    <2> QED BY <1>0, <1>3, <2>2, <2>3, <2>4, CarrierSame DEF IInv, Waiting, Booting
<1> QED BY <1>4, <1>5

LEMMA AwaitExitKeeps == ASSUME IInv, AwaitExit PROVE IInv'
<1>0. Types /\ Handle /\ Carrier /\ pc = "graceful" /\ UNCHANGED <<launcher, toChild, fromChild, go, broker, calls>>
    BY DEF IInv, AwaitExit
<1>1. PICK w \in TryWait(proc) :
        /\ faults' = faults + w.f
        /\ \/ /\ w.r = "some"
              /\ proc' = [proc EXCEPT !.at = "none"]
              /\ rt' = [rt EXCEPT !.gen = 0, !.stdin = FALSE, !.records = FALSE]
              /\ Return(call, "ok")
           \/ proc' = w.p /\ pc' \in {"graceful", "terminate"} /\ UNCHANGED <<call, rt>>
    BY <1>0 DEF AwaitExit
<1>2. w.p \in Handles /\ w.p.at = proc.at /\ w.p.reaped = proc.reaped /\ (w.r = "some" => ~go.alive) /\ w.f \in Nat
    BY <1>0, TryWaitFacts
<1>3. faults' \in Nat
    BY <1>0, <1>1, <1>2 DEF Types
<1>4. CASE /\ w.r = "some"
           /\ proc' = [proc EXCEPT !.at = "none"]
           /\ rt' = [rt EXCEPT !.gen = 0, !.stdin = FALSE, !.records = FALSE]
           /\ Return(call, "ok")
    <2>0. pc' = "idle" /\ call' = NoCall
        BY <1>4 DEF Return
    <2>1. proc' \in Handles /\ rt' \in Runtimes /\ ~rt'.records /\ Handle'
        BY <1>0, <1>2, <1>4, <2>0, ExitSeen
    <2>2. Types'
        BY <1>0, <1>3, <2>0, <2>1, NoCallTypes DEF Types
    <2> QED BY <1>0, <2>0, <2>1, <2>2, CarrierSame, Leaves
<1>5. CASE proc' = w.p /\ pc' \in {"graceful", "terminate"} /\ UNCHANGED <<call, rt>>
    <2>1. Types'
        BY <1>0, <1>2, <1>3, <1>5 DEF Types
    <2>2. Handle'
        BY <1>0, <1>2, <1>5, KeptFacts
    <2> QED BY <1>0, <1>5, <2>1, <2>2, CarrierSame, Leaves
<1> QED BY <1>1, <1>4, <1>5
-----------------------------------------------------------------------------
(* The runtime: requests *)

\* A request that is sent between calls, or fails.
LEMMA RequestSent ==
    ASSUME IInv, pc = "idle", NEW c \in CallRecords, c.id = calls + 1, c.cancelId = 0, c.primary = "none",
           c.control = "none", c.before = go.carrier,
           SendRequest(c, [id |-> c.id, kind |-> c.kind]), calls' = calls + 1,
           UNCHANGED <<launcher, rt, proc, fromChild, go, broker, faults>>
    PROVE  IInv'
<1>0. Types /\ Handle /\ Carrier /\ Resting /\ calls' \in Nat /\ calls + 1 # 0
    BY DEF IInv, Types
<1>1. CASE rt.stdin /\ go.alive
    <2>1. toChild' = Append(toChild, [id |-> c.id, kind |-> c.kind]) /\ pc' = "wait" /\ call' = c
        BY <1>1 DEF SendRequest
    <2>2. rt.records /\ toChild = <<>> /\ fromChild = <<>> /\ go.op = 0 /\ go.serving
        BY <1>0, <1>1 DEF Handle, Resting
    <2>3. toChild' = <<[id |-> c.id, kind |-> c.kind]>>
        BY <2>1, <2>2, Pairs
    <2>4. [id |-> c.id, kind |-> c.kind] \in Inputs
        BY DEF CallRecords, Inputs
    <2>5. toChild' \in Seq(Inputs)
        BY <2>3, <2>4
    <2>6. Types'
        BY <1>0, <2>1, <2>5 DEF Types
    <2>7. Handle'
        BY <1>0, <2>1, <2>2 DEF Handle
    <2>8. Booting' /\ Resting'
        BY <2>1 DEF Booting, Resting
    <2>9. Unread'
        BY <2>1, <2>2, <2>3 DEF Unread, Silent, Asked
    <2>10. Waiting'
        BY <1>0, <2>1, <2>2, <2>9 DEF Waiting
    <2> QED BY <1>0, <2>6, <2>7, <2>8, <2>10, CarrierSame DEF IInv
<1>2. CASE ~(rt.stdin /\ go.alive)
    <2>1. Terminating(c, "unavailable") /\ toChild' = toChild
        BY <1>2 DEF SendRequest
    <2>2. "unavailable" \in Results
        BY DEF Results
    <2>3. pc' = "terminate" /\ call' \in CallRecords
        BY <2>1, <2>2, TerminatingFacts
    <2>4. fromChild' \in Seq(Outputs)
        BY <1>0 DEF Types
    <2> QED BY <1>0, <2>1, <2>3, <2>4, Abandons
<1> QED BY <1>1, <1>2

LEMMA StopKeeps == ASSUME IInv, Stop PROVE IInv'
<1>0. Types /\ pc = "idle" /\ calls' = calls + 1 /\ UNCHANGED <<launcher, rt, proc, fromChild, go, broker, faults>>
    BY DEF IInv, Stop, Enter
<1>1. "disconnect" \in Requests
    BY DEF Requests
<1>2. PICK c \in CallRecords : c = Call("stop", "disconnect")
    BY <1>0, <1>1, CallStarts
<1>3. /\ c.kind = "disconnect" /\ c.id = calls + 1 /\ c.cancelId = 0 /\ c.primary = "none"
      /\ c.control = "none" /\ c.before = go.carrier
    BY <1>0, <1>1, <1>2, CallStarts
<1>4. CASE proc.at # "runtime"
    <2>1. pc' = "terminate" /\ call' = c /\ UNCHANGED toChild
        BY <1>2, <1>4 DEF Stop
    <2>2. fromChild' \in Seq(Outputs) /\ calls' \in Nat
        BY <1>0 DEF Types
    <2> QED BY <1>0, <2>1, <2>2, Abandons
<1>5. CASE proc.at = "runtime"
    <2>1. SendRequest(c, [id |-> c.id, kind |-> c.kind])
        BY <1>2, <1>3, <1>5 DEF Stop
    <2> QED BY <1>0, <1>3, <2>1, RequestSent
<1> QED BY <1>4, <1>5

LEMMA RequestKeeps == ASSUME IInv, NEW kind \in Kinds, Request(kind) PROVE IInv'
<1>0. Types /\ pc = "idle" /\ calls' = calls + 1 /\ UNCHANGED <<launcher, rt, proc, fromChild, go, broker, faults>>
    BY DEF IInv, Request, Enter
<1>1. kind \in Requests
    BY DEF Requests
<1>2. PICK c \in CallRecords : c = Call("request", kind)
    BY <1>0, <1>1, CallStarts
<1>3. /\ c.kind = kind /\ c.id = calls + 1 /\ c.cancelId = 0 /\ c.primary = "none"
      /\ c.control = "none" /\ c.before = go.carrier
    BY <1>0, <1>1, <1>2, CallStarts
<1>4. SendRequest(c, [id |-> c.id, kind |-> c.kind])
    BY <1>2, <1>3 DEF Request
<1> QED BY <1>0, <1>3, <1>4, RequestSent

\* Everything the invariant speaks of stays.
LEMMA Same ==
    ASSUME IInv, UNCHANGED <<launcher, rt, proc, pc, call, toChild, fromChild, go>>, calls' \in Nat,
           faults' \in Nat
    PROVE  IInv'
<1>0. Types /\ Handle /\ Carrier /\ Waiting /\ Booting /\ Resting
    BY DEF IInv
<1>1. Types'
    BY <1>0 DEF Types
<1>2. Handle'
    BY <1>0 DEF Handle
<1>3. Unread' = Unread /\ Working' = Working /\ \A r : Answered(r)' = Answered(r)
    <2>1. Asked' = Asked /\ Cancelling' = Cancelling /\ Silent' = Silent
        BY DEF Asked, Cancelling, Silent
    <2>2. \A r : Primary(r)' = Primary(r) /\ Control(r)' = Control(r)
        BY DEF Primary, Control
    <2>3. Unread' = Unread
        BY <2>1 DEF Unread
    <2>4. Uncancelled' = Uncancelled /\ Accepted' = Accepted /\ TooLate' = TooLate
        BY <2>1, <2>2 DEF Uncancelled, Accepted, TooLate
    <2>5. Working' = Working
        BY <2>4 DEF Working
    <2>6. \A r : AnsweredAlone(r)' = AnsweredAlone(r)
        BY <2>2 DEF AnsweredAlone
    <2>7. \A r : AnsweredFirst(r)' = AnsweredFirst(r)
        BY <2>1, <2>2 DEF AnsweredFirst
    <2>8. \A r : AnsweredBoth(r)' = AnsweredBoth(r)
        BY <2>2 DEF AnsweredBoth
    <2>9. AnsweredCancelled' = AnsweredCancelled
        BY <2>2 DEF AnsweredCancelled
    <2>10. \A r : Answered(r)' = Answered(r)
        BY <2>6, <2>7, <2>8, <2>9 DEF Answered
    <2> QED BY <2>3, <2>5, <2>10
<1>4. Waiting'
    BY <1>0, <1>3 DEF Waiting
<1>5. Booting'
    BY <1>0 DEF Booting
<1> QED BY <1>0, <1>1, <1>2, <1>4, <1>5, CarrierSame, RestingSame DEF IInv

LEMMA PrecancelledKeeps == ASSUME IInv, NEW kind \in Kinds, RequestPrecancelled(kind) PROVE IInv'
<1>1. calls' \in Nat /\ faults' \in Nat
    BY DEF IInv, Types, RequestPrecancelled, Enter
<1> QED BY <1>1, Same DEF RequestPrecancelled

LEMMA SetCancelKeeps == ASSUME IInv, SetCancel PROVE IInv'
<1>1. calls' \in Nat /\ faults' \in Nat
    BY DEF IInv, Types, SetCancel
<1> QED BY <1>1, Same DEF SetCancel

LEMMA TimeOutKeeps == ASSUME IInv, TimeOut \/ StreamEnds PROVE IInv'
<1>0. Types /\ UNCHANGED <<launcher, rt, proc, toChild, fromChild, go, broker, calls, faults>>
    BY DEF IInv, TimeOut, StreamEnds
<1>1. PICK r \in Results : Terminating(call, r)
    BY DEF TimeOut, StreamEnds, Results
<1>2. pc' = "terminate" /\ call' \in CallRecords /\ calls' \in Nat /\ fromChild' \in Seq(Outputs)
    BY <1>0, <1>1, TerminatingFacts DEF Types
<1> QED BY <1>0, <1>2, Abandons
-----------------------------------------------------------------------------
(* The runtime: a cancel, and the answers *)

LEMMA SendCancelKeeps == ASSUME IInv, SendCancel PROVE IInv'
<1>0. Types /\ Handle /\ Carrier /\ Waiting /\ pc = "wait" /\ call.cancelId = 0 /\ calls' \in Nat
      /\ UNCHANGED <<launcher, rt, proc, fromChild, go, broker, calls, faults>>
    BY DEF IInv, SendCancel, MayCancel, Types
<1>1. /\ rt.records /\ call.id # 0 /\ (go.alive => go.serving)
      /\ Unread \/ Working \/ \E r \in {"ok", "err", "late", "cancelled"} : Answered(r)
    BY <1>0 DEF Waiting
<1>2. call.id \in Nat /\ call \in CallRecords /\ -call.id \in Int
    BY <1>0 DEF Types, CallRecords
<1>3. PICK c \in CallRecords : c = [call EXCEPT !.cancelId = call.id]
    BY <1>2, Zenon DEF CallRecords
<1>4. /\ c.cancelId = call.id /\ c.id = call.id /\ c.kind = call.kind /\ c.primary = call.primary
      /\ c.control = call.control /\ c.before = call.before
    BY <1>2, <1>3 DEF CallRecords
<1>5. SendRequest(c, [id |-> -c.id, kind |-> "cancel"])
    BY <1>3 DEF SendCancel
<1>6. CASE rt.stdin /\ go.alive
    <2>1. toChild' = Append(toChild, Cancelling) /\ pc' = "wait" /\ call' = c
        BY <1>4, <1>5, <1>6 DEF SendRequest, Cancelling
    <2>2. Cancelling \in Inputs
        BY <1>2 DEF Cancelling, Inputs, Requests
    <2>3. toChild' \in Seq(Inputs)
        BY <1>0, <2>1, <2>2, Grows DEF Types
    <2>4. Types'
        BY <1>0, <2>1, <2>3 DEF Types
    <2>5. Handle'
        BY <1>0, <1>1, <2>1 DEF Handle
    <2>6. /\ Cancelling' = Cancelling /\ Asked' = Asked /\ \A r : Primary(r)' = Primary(r)
          /\ call'.cancelId # 0 /\ call'.primary = call.primary /\ call'.control = call.control
        BY <1>1, <1>4, <2>1 DEF Cancelling, Asked, Primary
    <2>7. ASSUME Unread PROVE Unread'
        <3>1. toChild' = <<Asked, Cancelling>>
            BY <1>0, <2>1, <2>7, Pairs DEF Unread
        <3> QED BY <1>0, <1>4, <2>1, <2>6, <2>7, <3>1 DEF Unread, Silent
    <2>8. ASSUME Working PROVE Working'
        <3>1. Uncancelled /\ toChild = <<>>
            BY <1>0, <2>8 DEF Working, Uncancelled, Accepted, TooLate
        <3>2. toChild' = <<Cancelling>>
            BY <2>1, <3>1, Pairs
        <3>3. Uncancelled'
            BY <1>0, <2>6, <3>1, <3>2 DEF Uncancelled, Silent
        <3> QED BY <1>0, <1>4, <2>1, <2>8, <3>3 DEF Working
    <2>9. ASSUME NEW r \in {"ok", "err", "late", "cancelled"}, Answered(r) PROVE Answered(r)'
        <3>1. AnsweredAlone(r) /\ r # "cancelled"
            BY <1>0, <2>9 DEF Answered, AnsweredFirst, AnsweredBoth, AnsweredCancelled
        <3>2. toChild' = <<Cancelling>>
            BY <2>1, <3>1, Pairs DEF AnsweredAlone
        <3>3. AnsweredFirst(r)'
            BY <1>0, <2>6, <3>1, <3>2 DEF AnsweredAlone, AnsweredFirst
        <3> QED BY <1>0, <1>4, <2>1, <2>9, <3>1, <3>3 DEF Answered
    <2>10. Waiting'
        <3>1. Unread' \/ Working' \/ \E r \in {"ok", "err", "late", "cancelled"} : Answered(r)'
            BY <1>1, <2>7, <2>8, <2>9
        <3> QED BY <1>0, <1>1, <1>4, <2>1, <3>1 DEF Waiting
    <2> QED BY <1>0, <2>1, <2>4, <2>5, <2>10, CarrierSame DEF IInv, Booting, Resting
<1>7. CASE ~(rt.stdin /\ go.alive)
    <2>1. Terminating(c, "unavailable") /\ toChild' = toChild
        BY <1>5, <1>7 DEF SendRequest
    <2>2. "unavailable" \in Results
        BY DEF Results
    <2>3. pc' = "terminate" /\ call' \in CallRecords
        BY <2>1, <2>2, TerminatingFacts
    <2>4. fromChild' \in Seq(Outputs)
        BY <1>0 DEF Types
    <2> QED BY <1>0, <2>1, <2>3, <2>4, Abandons
<1> QED BY <1>6, <1>7

\* The record that is received answers the request: what the call becomes.
LEMMA PrimaryTaken ==
    ASSUME Types, Receive, call.id # 0, NEW r \in Opts, Head(fromChild) = Primary(r), call.primary = "none"
    PROVE  \E c \in CallRecords :
             /\ c.primary = r /\ c.control = call.control /\ c.id = call.id /\ c.cancelId = call.cancelId
             /\ c.kind = call.kind /\ c.before = call.before /\ c.op = call.op
             /\ IF call.cancelId = 0 THEN FinishPrimary(c)
                ELSE IF CancelPairDone(c) THEN FinishCancelPair(c)
                ELSE call' = c /\ UNCHANGED <<pc, last, cancel>>
<1>1. Head(fromChild).id = call.id /\ Head(fromChild).res = r
    BY DEF Primary
<1>2. PICK c \in CallRecords : c = [call EXCEPT !.primary = Head(fromChild).res]
    BY <1>1, Zenon DEF Types, CallRecords
<1>3. /\ c.primary = r /\ c.control = call.control /\ c.id = call.id /\ c.cancelId = call.cancelId
      /\ c.kind = call.kind /\ c.before = call.before /\ c.op = call.op
    BY <1>1, <1>2 DEF Types, CallRecords
<1>4. IF call.cancelId = 0 THEN FinishPrimary(c)
      ELSE IF CancelPairDone(c) THEN FinishCancelPair(c)
      ELSE call' = c /\ UNCHANGED <<pc, last, cancel>>
    BY <1>1, <1>2 DEF Receive
<1> QED BY <1>3, <1>4

LEMMA ControlTaken ==
    ASSUME Types, Receive, call.id # 0, NEW r \in Opts, Head(fromChild) = Control(r), call.control = "none",
           call.cancelId # 0
    PROVE  \E c \in CallRecords :
             /\ c.control = r /\ c.primary = call.primary /\ c.id = call.id /\ c.cancelId = call.cancelId
             /\ c.kind = call.kind /\ c.before = call.before /\ c.op = call.op
             /\ IF CancelPairDone(c) THEN FinishCancelPair(c)
                ELSE call' = c /\ UNCHANGED <<pc, last, cancel>>
<1>1. Head(fromChild).id = -call.id /\ Head(fromChild).res = r
    BY DEF Control
<1>2. -call.id # call.id
    BY DEF Types, CallRecords
<1>3. PICK c \in CallRecords : c = [call EXCEPT !.control = Head(fromChild).res]
    BY <1>1, Zenon DEF Types, CallRecords
<1>4. /\ c.control = r /\ c.primary = call.primary /\ c.id = call.id /\ c.cancelId = call.cancelId
      /\ c.kind = call.kind /\ c.before = call.before /\ c.op = call.op
    BY <1>1, <1>3 DEF Types, CallRecords
<1>5. IF CancelPairDone(c) THEN FinishCancelPair(c)
      ELSE call' = c /\ UNCHANGED <<pc, last, cancel>>
    BY <1>1, <1>2, <1>3 DEF Receive
<1> QED BY <1>4, <1>5

\* A record that is received is one of the call's own: it is waited on for the
\* other one, or the stream is clean and the answer is true of the carrier.
LEMMA ReceiveFacts ==
    ASSUME IInv, Receive
    PROVE  /\ call' \in CallRecords /\ fromChild' \in Seq(Outputs)
           /\ \/ pc' = "wait" /\ Waiting'
              \/ pc' = "graceful"
              \/ /\ pc' = "idle" /\ toChild = <<>> /\ fromChild' = <<>> /\ go.op = 0
                 /\ call.kind = "connect" /\ go.alive => go.carrier = (last'.result = "ok" \/ call.before)
<1> DEFINE Goal == /\ call' \in CallRecords
                   /\ \/ pc' = "wait" /\ Waiting'
                      \/ pc' = "graceful"
                      \/ /\ pc' = "idle" /\ toChild = <<>> /\ fromChild' = <<>> /\ go.op = 0
                         /\ call.kind = "connect" /\ go.alive =>
                               go.carrier = (last'.result = "ok" \/ call.before)
<1>0. Types /\ Waiting /\ pc = "wait" /\ fromChild # <<>> /\ fromChild' = Tail(fromChild)
      /\ UNCHANGED <<launcher, rt, proc, toChild, go, broker, calls, faults>>
    BY DEF IInv, Receive
<1>1. /\ rt.records /\ call.id # 0 /\ (go.alive => go.serving)
      /\ Unread \/ Working \/ \E r \in {"ok", "err", "late", "cancelled"} : Answered(r)
    BY <1>0 DEF Waiting
<1>2. {"ok", "err", "late", "cancelled", "accepted"} \subseteq Opts
    BY DEF Opts
<1>3. fromChild' \in Seq(Outputs)
    BY <1>0, Shrinks DEF Types
<1>4. ASSUME pc' = "wait", NEW c \in CallRecords, call' = c, c.id = call.id, c.cancelId = call.cancelId,
             c.kind = call.kind, c.before = call.before,
             Working' \/ \E r \in {"ok", "err", "late", "cancelled"} : Answered(r)'
      PROVE  Goal
    <2>1. Waiting'
        BY <1>0, <1>1, <1>4 DEF Waiting
    <2> QED BY <1>4, <2>1
<1>5. ASSUME NEW c \in CallRecords, NEW res, Return(c, res), toChild = <<>>, fromChild' = <<>>, go.op = 0,
             call.kind = "connect" /\ go.alive => go.carrier = (res = "ok" \/ call.before)
      PROVE  Goal
    <2>1. pc' = "idle" /\ call' \in CallRecords /\ last'.result = res
        BY <1>5, NoCallTypes DEF Return
    <2> QED BY <1>5, <2>1
<1> HIDE DEF Goal
<1>6. ASSUME Working PROVE Goal
    <2>1. /\ call.cancelId # 0 /\ toChild = <<>> /\ go.winner = "cancel" /\ go.seen
          /\ fromChild = <<Control("accepted")>> /\ call.control = "none" /\ call.primary = "none"
        BY <1>0, <1>6 DEF Working, Uncancelled, Accepted, TooLate, Silent
    <2>2. Head(fromChild) = Control("accepted") /\ fromChild' = <<>>
        BY <1>0, <2>1, Pairs
    <2>3. PICK c \in CallRecords :
             /\ c.control = "accepted" /\ c.primary = call.primary /\ c.id = call.id
             /\ c.cancelId = call.cancelId /\ c.kind = call.kind /\ c.before = call.before /\ c.op = call.op
             /\ IF CancelPairDone(c) THEN FinishCancelPair(c)
                ELSE call' = c /\ UNCHANGED <<pc, last, cancel>>
        BY <1>0, <1>1, <1>2, <2>1, <2>2, ControlTaken
    <2>4. call' = c /\ pc' = "wait"
        BY <1>0, <2>1, <2>3 DEF CancelPairDone
    <2>5. Working'
        <3>1. Accepted'
            BY <1>0, <2>1, <2>2, <2>3, <2>4 DEF Accepted
        <3> QED BY <1>0, <1>6, <2>1, <2>3, <2>4, <3>1 DEF Working
    <2> QED BY <1>4, <2>3, <2>4, <2>5
<1>7. ASSUME NEW r \in {"ok", "err", "late", "cancelled"}, Answered(r) PROVE Goal
    <2>0. go.op = 0 /\ (call.kind = "connect" /\ go.alive => go.carrier = (r = "ok" \/ call.before)) /\ r \in Opts
        BY <1>2, <1>7 DEF Answered
    <2>1. CASE AnsweredAlone(r) /\ r # "cancelled"
        <3>1. /\ call.cancelId = 0 /\ toChild = <<>> /\ fromChild = <<Primary(r)>> /\ call.primary = "none"
            BY <2>1 DEF AnsweredAlone
        <3>2. Head(fromChild) = Primary(r) /\ fromChild' = <<>>
            BY <1>0, <3>1, Pairs
        <3>3. PICK c \in CallRecords : c.primary = r /\ FinishPrimary(c)
            BY <1>0, <1>1, <2>0, <3>1, <3>2, PrimaryTaken
        <3>4. CASE c.op = "stop"
            <4>1. pc' = "graceful" /\ call' = c
                BY <2>1, <3>3, <3>4 DEF FinishPrimary
            <4> QED BY <4>1 DEF Goal
        <3>5. CASE c.op # "stop"
            <4>1. Return(c, r)
                BY <2>1, <3>3, <3>5 DEF FinishPrimary
            <4> QED BY <1>5, <2>0, <3>1, <3>2, <4>1
        <3> QED BY <3>4, <3>5
    <2>2. CASE AnsweredFirst(r) /\ r # "cancelled"
        <3>1. /\ call.cancelId # 0 /\ toChild = <<Cancelling>> /\ call.control = "none"
              /\ fromChild = <<Primary(r)>> /\ call.primary = "none"
            BY <1>0, <2>2 DEF AnsweredFirst
        <3>2. Head(fromChild) = Primary(r) /\ fromChild' = <<>>
            BY <1>0, <3>1, Pairs
        <3>3. PICK c \in CallRecords :
                 /\ c.primary = r /\ c.control = call.control /\ c.id = call.id /\ c.cancelId = call.cancelId
                 /\ c.kind = call.kind /\ c.before = call.before
                 /\ IF CancelPairDone(c) THEN FinishCancelPair(c)
                    ELSE call' = c /\ UNCHANGED <<pc, last, cancel>>
            BY <1>0, <1>1, <2>0, <3>1, <3>2, PrimaryTaken
        <3>4. call' = c /\ pc' = "wait"
            BY <1>0, <3>1, <3>3 DEF CancelPairDone
        <3>5. Answered(r)'
            <4>1. AnsweredFirst(r)'
                BY <1>0, <3>1, <3>2, <3>3, <3>4 DEF AnsweredFirst, Cancelling
            <4> QED BY <1>0, <2>0, <2>2, <3>3, <3>4, <4>1 DEF Answered
        <3> QED BY <1>4, <3>3, <3>4, <3>5
    <2>3. CASE AnsweredBoth(r) /\ r # "cancelled" /\ fromChild = <<Primary(r), Control("late")>>
        <3>1. call.cancelId # 0 /\ toChild = <<>> /\ call.control = "none" /\ call.primary = "none"
            <4>1. <<Primary(r), Control("late")>> # <<Control("late")>>
                OBVIOUS
            <4> QED BY <2>3, <4>1 DEF AnsweredBoth
        <3>2. Head(fromChild) = Primary(r) /\ fromChild' = <<Control("late")>>
            BY <1>0, <2>3, Pairs
        <3>3. PICK c \in CallRecords :
                 /\ c.primary = r /\ c.control = call.control /\ c.id = call.id /\ c.cancelId = call.cancelId
                 /\ c.kind = call.kind /\ c.before = call.before
                 /\ IF CancelPairDone(c) THEN FinishCancelPair(c)
                    ELSE call' = c /\ UNCHANGED <<pc, last, cancel>>
            BY <1>0, <1>1, <2>0, <3>1, <3>2, PrimaryTaken
        <3>4. call' = c /\ pc' = "wait"
            BY <1>0, <3>1, <3>3 DEF CancelPairDone
        <3>5. Answered(r)'
            <4>1. AnsweredBoth(r)'
                BY <1>0, <3>1, <3>2, <3>3, <3>4 DEF AnsweredBoth, Control
            <4> QED BY <1>0, <2>0, <2>3, <3>3, <3>4, <4>1 DEF Answered
        <3> QED BY <1>4, <3>3, <3>4, <3>5
    <2>4. CASE AnsweredBoth(r) /\ r # "cancelled" /\ fromChild = <<Control("late")>> /\ call.primary = r
        <3>1. call.cancelId # 0 /\ toChild = <<>> /\ call.control = "none"
            BY <2>4 DEF AnsweredBoth
        <3>2. Head(fromChild) = Control("late") /\ fromChild' = <<>>
            BY <1>0, <2>4, Pairs
        <3>3. PICK c \in CallRecords :
                 /\ c.control = "late" /\ c.primary = call.primary
                 /\ IF CancelPairDone(c) THEN FinishCancelPair(c)
                    ELSE call' = c /\ UNCHANGED <<pc, last, cancel>>
            BY <1>0, <1>1, <1>2, <3>1, <3>2, ControlTaken
        <3>4. Return(c, r)
            BY <2>4, <3>3 DEF CancelPairDone, FinishCancelPair
        <3> QED BY <1>5, <2>0, <3>1, <3>2, <3>4
    <2>5. CASE /\ AnsweredCancelled /\ r = "cancelled"
               /\ fromChild = <<Control("accepted"), Primary("cancelled")>>
        <3>1. call.cancelId # 0 /\ toChild = <<>> /\ call.control = "none" /\ call.primary = "none"
            <4>1. <<Control("accepted"), Primary("cancelled")>> # <<Primary("cancelled")>>
                OBVIOUS
            <4> QED BY <2>5, <4>1 DEF AnsweredCancelled
        <3>2. Head(fromChild) = Control("accepted") /\ fromChild' = <<Primary("cancelled")>>
            BY <1>0, <2>5, Pairs
        <3>3. PICK c \in CallRecords :
                 /\ c.control = "accepted" /\ c.primary = call.primary /\ c.id = call.id
                 /\ c.cancelId = call.cancelId /\ c.kind = call.kind /\ c.before = call.before
                 /\ IF CancelPairDone(c) THEN FinishCancelPair(c)
                    ELSE call' = c /\ UNCHANGED <<pc, last, cancel>>
            BY <1>0, <1>1, <1>2, <3>1, <3>2, ControlTaken
        <3>4. call' = c /\ pc' = "wait"
            BY <1>0, <3>1, <3>3 DEF CancelPairDone
        <3>5. Answered(r)'
            <4>1. AnsweredCancelled'
                BY <1>0, <3>1, <3>2, <3>3, <3>4 DEF AnsweredCancelled, Primary
            <4> QED BY <1>0, <2>0, <2>5, <3>3, <3>4, <4>1 DEF Answered
        <3> QED BY <1>4, <3>3, <3>4, <3>5
    <2>6. CASE /\ AnsweredCancelled /\ r = "cancelled"
               /\ fromChild = <<Primary("cancelled")>> /\ call.control = "accepted"
        <3>1. call.cancelId # 0 /\ toChild = <<>> /\ call.primary = "none"
            BY <2>6 DEF AnsweredCancelled
        <3>2. Head(fromChild) = Primary(r) /\ fromChild' = <<>>
            BY <1>0, <2>6, Pairs
        <3>3. PICK c \in CallRecords :
                 /\ c.primary = r /\ c.control = call.control
                 /\ IF CancelPairDone(c) THEN FinishCancelPair(c)
                    ELSE call' = c /\ UNCHANGED <<pc, last, cancel>>
            BY <1>0, <1>1, <2>0, <3>1, <3>2, PrimaryTaken
        <3>4. Return(c, r)
            BY <2>6, <3>3 DEF CancelPairDone, FinishCancelPair
        <3> QED BY <1>5, <2>0, <3>1, <3>2, <3>4
    <2> QED BY <1>7, <2>1, <2>2, <2>3, <2>4, <2>5, <2>6 DEF Answered, AnsweredBoth, AnsweredCancelled
<1>8. Goal
    BY <1>0, <1>1, <1>6, <1>7 DEF Unread, Silent
<1> QED BY <1>3, <1>8 DEF Goal

LEMMA ReceiveKeeps == ASSUME IInv, Receive PROVE IInv'
<1>0. Types /\ Handle /\ Carrier /\ Waiting /\ pc = "wait"
      /\ UNCHANGED <<launcher, rt, proc, toChild, go, broker, calls, faults>>
    BY DEF IInv, Receive
<1>1. /\ call' \in CallRecords /\ fromChild' \in Seq(Outputs)
      /\ \/ pc' = "wait" /\ Waiting'
         \/ pc' = "graceful"
         \/ pc' = "idle" /\ toChild = <<>> /\ fromChild' = <<>> /\ go.op = 0
    BY ReceiveFacts
<1>2. Types'
    BY <1>0, <1>1 DEF Types
<1>3. Handle'
    BY <1>0, <1>1 DEF Handle
<1>4. Waiting'
    BY <1>1 DEF Waiting
<1>5. Booting'
    BY <1>1 DEF Booting
<1>6. Resting'
    BY <1>0, <1>1 DEF Resting, Waiting
<1> QED BY <1>0, <1>2, <1>3, <1>4, <1>5, <1>6, CarrierSame DEF IInv
-----------------------------------------------------------------------------
(* The sidecar *)

\* A step of the serve loop is one of a child whose call is under way, or whose
\* stream has been given up.
LEMMA SidecarStep ==
    ASSUME IInv, go.alive, (go.serving /\ toChild # <<>>) \/ go.op # 0, UNCHANGED <<launcher, app>>,
           Types', Carrier', go'.alive => go'.serving = go.serving,
           pc = "wait" => Unread' \/ Working' \/ \E r \in {"ok", "err", "late", "cancelled"} : Answered(r)'
    PROVE  IInv'
<1>0. Types /\ Handle /\ Waiting /\ Booting /\ Resting /\ UNCHANGED <<rt, proc, pc, call>>
    BY DEF IInv, app
<1>1. proc.at = "runtime" /\ ~proc.reaped
    BY <1>0 DEF Handle, Types, Handles
<1>2. pc # "handshake" /\ ~(pc = "idle" /\ rt.records)
    <2>1. pc # "handshake"
        BY <1>0 DEF Booting
    <2>2. ~(pc = "idle" /\ rt.records)
        BY <1>0 DEF Resting
    <2> QED BY <2>1, <2>2
<1>3. Handle'
    BY <1>0, <1>1 DEF Handle
<1>4. Waiting'
    BY <1>0 DEF Waiting
<1>5. Booting' /\ Resting'
    BY <1>0, <1>2 DEF Booting, Resting
<1> QED BY <1>3, <1>4, <1>5 DEF IInv

\* The sidecar ends: whatever was under way stays as it is.
LEMMA Dies ==
    ASSUME IInv, UNCHANGED <<launcher, app, toChild, fromChild>>, go' = Exited(go), faults' \in Nat
    PROVE  IInv'
<1>0. Types /\ Handle /\ Carrier /\ Waiting /\ Booting /\ Resting /\ UNCHANGED <<rt, proc, pc, call, calls>>
    BY DEF IInv, app
<1>1. go' \in Sidecars
    BY <1>0, Zenon DEF Exited, Types, Sidecars
<1>2. /\ ~go'.alive /\ ~go'.serving /\ go'.op = go.op /\ go'.posted = go.posted /\ go'.done = go.done
      /\ go'.winner = go.winner /\ go'.kind = go.kind /\ go'.seen = go.seen /\ go'.late = go.late
      /\ go'.transport = go.transport
    BY <1>0 DEF Exited, Types, Sidecars
<1>3. Types'
    BY <1>0, <1>1 DEF Types
<1>4. Handle'
    BY <1>0, <1>2 DEF Handle
<1>5. Carrier'
    BY <1>0, <1>2, CarrierKilled
<1>6. Waiting'
    <2>0. Asked' = Asked /\ Cancelling' = Cancelling /\ \A r : Primary(r)' = Primary(r) /\ Control(r)' = Control(r)
        BY <1>0 DEF Asked, Cancelling, Primary, Control
    <2>1. Silent => Silent'
        BY <1>0 DEF Silent
    <2>2. Unread => Unread'
        BY <1>0, <1>2, <2>0, <2>1 DEF Unread
    <2>3. Uncancelled => Uncancelled'
        BY <1>0, <1>2, <2>0, <2>1 DEF Uncancelled
    <2>4. Accepted => Accepted'
        BY <1>0, <1>2, <2>0 DEF Accepted
    <2>5. TooLate => TooLate'
        BY <1>0, <1>2, <2>1 DEF TooLate
    <2>6. Working => Working'
        BY <1>0, <1>2, <2>3, <2>4, <2>5 DEF Working
    <2>7. ASSUME NEW r \in {"ok", "err", "late", "cancelled"}, Answered(r) PROVE Answered(r)'
        <3>1. AnsweredAlone(r) => AnsweredAlone(r)'
            BY <1>0, <2>0 DEF AnsweredAlone
        <3>2. AnsweredFirst(r) => AnsweredFirst(r)'
            BY <1>0, <2>0 DEF AnsweredFirst
        <3>3. AnsweredBoth(r) => AnsweredBoth(r)'
            BY <1>0, <2>0 DEF AnsweredBoth
        <3>4. AnsweredCancelled => AnsweredCancelled'
            BY <1>0, <2>0 DEF AnsweredCancelled
        <3> QED BY <1>0, <1>2, <2>7, <3>1, <3>2, <3>3, <3>4 DEF Answered
    <2> QED BY <1>0, <1>2, <2>2, <2>6, <2>7 DEF Waiting
<1>7. Booting' /\ Resting'
    BY <1>0, <1>2 DEF Booting, Resting
<1> QED BY <1>3, <1>4, <1>5, <1>6, <1>7 DEF IInv

LEMMA GoEndsKeeps == ASSUME IInv, GoEnds PROVE IInv'
<1>1. faults' \in Nat
    BY DEF IInv, Types, GoEnds, Fault, NoFault
<1> QED BY <1>1, Dies DEF GoEnds, GoExits

LEMMA BrokerKeeps == ASSUME IInv, ChildExited \/ RouteHold PROVE IInv'
<1>1. UNCHANGED <<launcher, rt, proc, pc, call, toChild, fromChild, go, calls, faults>>
    BY DEF ChildExited, RouteHold, app
<1>2. calls' \in Nat /\ faults' \in Nat
    BY <1>1 DEF IInv, Types
<1> QED BY <1>1, <1>2, Same

LEMMA AnswerTyped ==
    ASSUME Types, NEW i \in Int, NEW r \in Opts
    PROVE  Answer(i, r) \in Seq(Outputs)
<1>1. [id |-> i, res |-> r] \in Outputs
    BY DEF Outputs
<1> QED BY <1>1, Grows DEF Types, Answer

LEMMA GoBootKeeps == ASSUME IInv, GoBoot PROVE IInv'
<1>0. Types /\ Handle /\ Carrier /\ Waiting /\ Booting /\ Resting /\ go.alive /\ ~go.serving /\ toChild # <<>>
      /\ toChild' = Tail(toChild) /\ go' = [go EXCEPT !.serving = TRUE]
      /\ UNCHANGED <<launcher, rt, proc, pc, call, calls, broker>>
    BY DEF IInv, GoBoot, app
<1>1. go' \in Sidecars
    BY <1>0, Zenon DEF Types, Sidecars
<1>2. /\ go'.alive = go.alive /\ go'.serving /\ go'.op = go.op /\ go'.posted = go.posted
      /\ go'.done = go.done /\ go'.winner = go.winner /\ go'.kind = go.kind
      /\ go'.transport = go.transport /\ go'.carrier = go.carrier
    BY <1>0 DEF Types, Sidecars
<1>3. PICK r \in {"handshake", "garbage"} : fromChild' = Answer(0, r)
    BY DEF GoBoot
<1>4. 0 \in Int /\ r \in Opts /\ faults' \in Nat
    BY DEF Opts, GoBoot, Fault, NoFault, IInv, Types
<1>5. fromChild' \in Seq(Outputs) /\ toChild' \in Seq(Inputs)
    BY <1>0, <1>3, <1>4, AnswerTyped, Shrinks DEF Types
<1>6. Types'
    BY <1>0, <1>1, <1>4, <1>5 DEF Types
<1>7. proc.at = "runtime" /\ ~proc.reaped
    BY <1>0 DEF Handle, Types, Handles
<1>8. Handle'
    BY <1>0, <1>7 DEF Handle
<1>9. Carrier'
    BY <1>0, <1>2, CarrierKilled
<1>10. pc # "wait" /\ ~(pc = "idle" /\ rt.records)
    <2>1. pc # "wait"
        BY <1>0 DEF Waiting
    <2>2. ~(pc = "idle" /\ rt.records)
        BY <1>0 DEF Resting
    <2> QED BY <2>1, <2>2
<1>11. Booting'
    <2>1. ASSUME pc = "handshake" PROVE Len(fromChild') = 1 /\ toChild' = <<>> /\ go'.op = 0
        <3>1. fromChild = <<>> /\ Len(toChild) = 1 /\ go.op = 0
            BY <1>0, <2>1 DEF Booting
        <3>2. fromChild' = <<[id |-> 0, res |-> r]>>
            BY <1>3, <3>1, Pairs DEF Answer
        <3>3. Len(fromChild') = 1
            BY <3>2
        <3>4. toChild' = <<>>
            BY <1>0, <3>1, Single DEF Types
        <3> QED BY <1>2, <3>1, <3>3, <3>4
    <2> QED BY <1>0, <1>2, <2>1 DEF Booting
<1> QED BY <1>0, <1>6, <1>8, <1>9, <1>10, <1>11 DEF IInv, Waiting, Resting
-----------------------------------------------------------------------------
(* The serve loop *)

\* The request is answered at once.
LEMMA AnswersAsked ==
    ASSUME Unread, Types, call' = call, toChild' = Tail(toChild), NEW r, r # "cancelled",
           fromChild' = Answer(call.id, r), go'.op = 0,
           call.kind = "connect" /\ go'.alive => go'.carrier = (r = "ok" \/ call.before)
    PROVE  Answered(r)'
<1>1. /\ Cancelling' = Cancelling /\ Primary(r)' = Primary(r) /\ fromChild = <<>>
      /\ call.primary = "none" /\ call.control = "none"
    BY DEF Cancelling, Primary, Unread, Silent
<1>2. fromChild' = <<Primary(r)>>
    BY <1>1, Pairs DEF Answer, Primary
<1>3. CASE call.cancelId = 0
    <2>1. toChild' = <<>>
        BY <1>3, Pairs DEF Unread
    <2>2. AnsweredAlone(r)'
        BY <1>1, <1>2, <1>3, <2>1 DEF AnsweredAlone
    <2> QED BY <2>2 DEF Answered
<1>4. CASE call.cancelId # 0
    <2>1. toChild' = <<Cancelling>>
        BY <1>4, Pairs DEF Unread
    <2>2. AnsweredFirst(r)'
        BY <1>1, <1>2, <1>4, <2>1 DEF AnsweredFirst
    <2> QED BY <2>2 DEF Answered
<1> QED BY <1>3, <1>4

LEMMA GoHandleFacts ==
    ASSUME Types, Carrier, go.alive, go.op = 0, NEW m \in Inputs, GoHandle(m)
    PROVE  /\ go' \in Sidecars /\ Carrier' /\ fromChild' \in Seq(Outputs) /\ faults' \in Nat
           /\ go'.op = 0 /\ go'.serving = go.serving
           /\ m.kind \notin {"connect", "cancel"}
           /\ \E r \in {"ok", "err"} : fromChild' = Answer(m.id, r)
<1>0. m.id \in Int /\ {"ok", "err"} \subseteq Opts
    BY DEF Inputs, Opts
<1>1. m.kind \notin {"connect", "cancel"} /\ faults' \in Nat /\ \E r \in {"ok", "err"} : fromChild' = Answer(m.id, r)
    BY DEF GoHandle, Types, Fault, NoFault
<1>2. fromChild' \in Seq(Outputs)
    BY <1>0, <1>1, AnswerTyped
<1>3. \/ go' = go
      \/ go' = [go EXCEPT !.carrier = FALSE]
      \/ go' = [go EXCEPT !.carrier = FALSE, !.transport = FALSE]
      \/ go' = [go EXCEPT !.carrier = FALSE, !.transport = FALSE, !.quit = TRUE]
    BY DEF GoHandle
<1>4. go' \in Sidecars
    BY <1>3, Zenon DEF Types, Sidecars
<1>5. go'.op = go.op /\ go'.serving = go.serving /\ go'.posted = go.posted
    BY <1>3 DEF Types, Sidecars
<1>6. Carrier'
    <2>1. CASE go' = go
        BY <2>1, CarrierSame
    <2>2. CASE go' # go
        <3>1. go'.carrier = FALSE
            BY <1>3, <2>2 DEF Types, Sidecars
        <3>2. ~go'.posted /\ go'.op = 0
            BY <1>5 DEF Carrier
        <3> QED BY <3>1, <3>2 DEF Carrier
    <2> QED BY <2>1, <2>2
<1> QED BY <1>1, <1>2, <1>4, <1>5, <1>6

LEMMA StartFacts ==
    ASSUME Types, Carrier, go.op = 0, NEW m \in Inputs, go' = GoStartOperation(m), PrepareCancellable(m)
    PROVE  /\ go' \in Sidecars /\ Carrier'
           /\ go'.alive = go.alive /\ go'.serving = go.serving /\ go'.op = m.id /\ go'.kind = m.kind
           /\ ~go'.seen /\ go'.late = 0 /\ go'.winner # "cancel" /\ go'.carrier = go.carrier
           /\ m.kind = "connect" /\ go.alive => ~go.carrier
<1>0. m.id \in Int /\ m.kind \in Requests /\ 0 \in Int
    BY DEF Inputs
<1>1. go' \in Sidecars
    BY <1>0, Zenon DEF GoStartOperation, Types, Sidecars
<1>2. /\ go'.alive = go.alive /\ go'.serving = go.serving /\ go'.op = m.id /\ go'.kind = m.kind
      /\ ~go'.seen /\ go'.late = 0 /\ go'.winner = "running" /\ ~go'.posted /\ go'.done = "no"
      /\ go'.carrier = go.carrier /\ go'.transport = go.transport
    BY DEF GoStartOperation, Types, Sidecars
<1>3. m.kind = "connect" <=> ~go.transport
    BY DEF PrepareCancellable, Types, Sidecars
<1>4. go.carrier \in BOOLEAN /\ go.transport \in BOOLEAN /\ (go.alive /\ go.carrier => go.transport)
    BY DEF Types, Sidecars, Carrier
<1>5. Carrier'
    BY <1>2, <1>3, <1>4 DEF Carrier
<1> QED BY <1>1, <1>2, <1>3, <1>4, <1>5

LEMMA CancelFacts ==
    ASSUME Types, Carrier, go.alive, go.op # 0, NEW m \in Inputs, GoCancel(m)
    PROVE  /\ go' \in Sidecars /\ Carrier' /\ fromChild' \in Seq(Outputs)
           /\ go'.alive = go.alive /\ go'.serving = go.serving /\ go'.op = go.op /\ go'.kind = go.kind
           /\ go'.seen
           /\ \/ go'.winner = "cancel" /\ fromChild' = Answer(m.id, "accepted")
              \/ go.winner # "running" /\ go'.winner = go.winner /\ go'.late = m.id /\ fromChild' = fromChild
<1>0. m.id \in Int /\ "accepted" \in Opts /\ "cancel" \in {"running", "completion", "cancel"}
    BY DEF Inputs, Opts
<1>1. CASE go.winner = "running"
    <2>1. go' = [go EXCEPT !.seen = TRUE, !.winner = "cancel"] /\ fromChild' = Answer(m.id, "accepted")
        BY <1>1 DEF GoCancel
    <2>2. go' \in Sidecars
        BY <1>0, <2>1, Zenon DEF Types, Sidecars
    <2>3. fromChild' \in Seq(Outputs)
        BY <1>0, <2>1, AnswerTyped
    <2>4. /\ go'.alive = go.alive /\ go'.serving = go.serving /\ go'.op = go.op /\ go'.kind = go.kind
          /\ go'.seen /\ go'.winner = "cancel" /\ go'.posted = go.posted /\ go'.done = go.done
          /\ go'.carrier = go.carrier /\ go'.transport = go.transport
        BY <2>1 DEF Types, Sidecars
    <2>5. ~go.posted
        BY <1>1 DEF Carrier
    <2>6. Carrier'
        BY <1>1, <2>4, <2>5 DEF Carrier
    <2> QED BY <2>1, <2>2, <2>3, <2>4, <2>6
<1>2. CASE go.winner # "running"
    <2>1. go' = [go EXCEPT !.seen = TRUE, !.late = m.id] /\ fromChild' = fromChild
        BY <1>2 DEF GoCancel
    <2>2. go' \in Sidecars
        BY <1>0, <2>1, Zenon DEF Types, Sidecars
    <2>3. fromChild' \in Seq(Outputs)
        BY <2>1 DEF Types
    <2>4. /\ go'.alive = go.alive /\ go'.serving = go.serving /\ go'.op = go.op /\ go'.kind = go.kind
          /\ go'.seen /\ go'.late = m.id /\ go'.winner = go.winner /\ go'.posted = go.posted
          /\ go'.done = go.done /\ go'.carrier = go.carrier /\ go'.transport = go.transport
        BY <2>1 DEF Types, Sidecars
    <2>5. Carrier'
        BY <2>4, CarrierKilled
    <2> QED BY <1>2, <2>1, <2>2, <2>3, <2>4, <2>5
<1> QED BY <1>1, <1>2

\* What the first record of the sidecar's input is while a call waits.
LEMMA FirstInput ==
    ASSUME IInv, pc = "wait", toChild # <<>>
    PROVE  /\ call.id # 0 /\ call.id \in Nat
           /\ \/ Unread /\ Head(toChild) = Asked /\ go.op = 0
              \/ /\ Working /\ Uncancelled /\ call.cancelId # 0 /\ go.op # 0
                 /\ Head(toChild) = Cancelling /\ Tail(toChild) = <<>>
              \/ /\ go.op = 0 /\ Head(toChild) = Cancelling /\ Tail(toChild) = <<>>
                 /\ \E r \in {"ok", "err", "late"} : Answered(r) /\ AnsweredFirst(r)
<1>1. Waiting /\ call.id # 0 /\ call.id \in Nat
    BY DEF IInv, Waiting, Types, CallRecords
<1>2. CASE Unread
    BY <1>1, <1>2, Pairs DEF Unread
<1>3. CASE Working
    <2>1. Uncancelled /\ call.cancelId # 0 /\ toChild = <<Cancelling>> /\ go.op # 0
        BY <1>1, <1>3 DEF Working, Uncancelled, Accepted, TooLate
    <2> QED BY <1>1, <1>3, <2>1, Pairs
<1>4. ASSUME NEW r \in {"ok", "err", "late", "cancelled"}, Answered(r)
      PROVE  /\ go.op = 0 /\ Head(toChild) = Cancelling /\ Tail(toChild) = <<>>
             /\ r # "cancelled" /\ AnsweredFirst(r)
    <2>1. go.op = 0 /\ r # "cancelled" /\ AnsweredFirst(r)
        BY <1>4 DEF Answered, AnsweredAlone, AnsweredBoth, AnsweredCancelled
    <2> QED BY <2>1, Pairs DEF AnsweredFirst
<1> QED BY <1>1, <1>2, <1>3, <1>4 DEF Waiting

LEMMA GoReceiveKeeps == ASSUME IInv, GoReceive PROVE IInv'
<1>0. Types /\ Handle /\ Carrier /\ Waiting /\ go.alive /\ go.serving /\ toChild # <<>>
      /\ toChild' = Tail(toChild) /\ UNCHANGED <<launcher, app>> /\ UNCHANGED <<rt, proc, pc, call, calls>>
    BY DEF IInv, GoReceive, app
<1>1. toChild' \in Seq(Inputs) /\ Head(toChild) \in Inputs
    BY <1>0, Shrinks DEF Types
<1>2. PICK m \in Inputs : m = Head(toChild)
    BY <1>1
<1>3. m.id \in Int /\ m.kind \in Requests /\ {"err", "late"} \subseteq Opts
    BY DEF Inputs, Opts
<1> DEFINE Goal == /\ go' \in Sidecars /\ Carrier' /\ fromChild' \in Seq(Outputs) /\ faults' \in Nat
                   /\ go'.alive => go'.serving = go.serving
                   /\ pc = "wait" => Unread' \/ Working' \/ \E r \in {"ok", "err", "late", "cancelled"} : Answered(r)'
<1>4. ASSUME go.op # 0 /\ GoCancel(m) /\ NoFault
     PROVE  Goal
    <2>1. /\ go' \in Sidecars /\ Carrier' /\ fromChild' \in Seq(Outputs)
          /\ go'.alive = go.alive /\ go'.serving = go.serving /\ go'.op = go.op /\ go'.kind = go.kind
          /\ go'.seen
          /\ \/ go'.winner = "cancel" /\ fromChild' = Answer(m.id, "accepted")
             \/ go.winner # "running" /\ go'.winner = go.winner /\ go'.late = m.id /\ fromChild' = fromChild
        BY <1>0, <1>4, CancelFacts
    <2>2. ASSUME pc = "wait" PROVE Working'
        <3>1. /\ Working /\ Uncancelled /\ call.cancelId # 0 /\ m = Cancelling /\ toChild' = <<>>
            BY <1>0, <1>2, <1>4, <2>2, FirstInput
        <3>2. m.id = -call.id /\ fromChild = <<>> /\ call.control = "none" /\ call.primary = "none"
              /\ Control("accepted")' = Control("accepted")
            BY <1>0, <3>1 DEF Cancelling, Uncancelled, Silent, Control
        <3>3. CASE go'.winner = "cancel" /\ fromChild' = Answer(m.id, "accepted")
            <4>1. fromChild' = <<Control("accepted")>>
                BY <3>2, <3>3, Pairs DEF Answer, Control
            <4>2. Accepted'
                BY <1>0, <2>1, <3>1, <3>2, <3>3, <4>1 DEF Accepted
            <4> QED BY <1>0, <2>1, <3>1, <4>2 DEF Working
        <3>4. CASE go.winner # "running" /\ go'.winner = go.winner /\ go'.late = m.id /\ fromChild' = fromChild
            <4>1. go.winner = "completion"
                BY <1>0, <3>1, <3>4 DEF Uncancelled, Types, Sidecars
            <4>2. TooLate'
                BY <1>0, <2>1, <3>1, <3>2, <3>4, <4>1 DEF TooLate, Silent
            <4> QED BY <1>0, <2>1, <3>1, <4>2 DEF Working
        <3> QED BY <2>1, <3>3, <3>4
    <2>3. faults' \in Nat
        BY <1>0, <1>4 DEF NoFault, Types
    <2> QED BY <2>1, <2>2, <2>3
<1>5. ASSUME go.op = 0 /\ m.kind = "cancel" /\ fromChild' = Answer(m.id, "late") /\ UNCHANGED <<go, broker>> /\ NoFault
     PROVE  Goal
    <2>1. go' \in Sidecars /\ faults' \in Nat /\ fromChild' \in Seq(Outputs) /\ Carrier'
        BY <1>0, <1>3, <1>5, AnswerTyped, CarrierSame DEF Types, NoFault
    <2>2. ASSUME pc = "wait" PROVE \E r \in {"ok", "err", "late", "cancelled"} : Answered(r)'
        <3>1. CASE Unread /\ m = Asked
            <4>1. m.id = call.id /\ call.kind # "connect"
                BY <1>5, <3>1 DEF Asked
            <4>2. Answered("late")'
                BY <1>0, <1>5, <3>1, <4>1, AnswersAsked
            <4> QED BY <4>2
        <3>2. CASE /\ m = Cancelling /\ toChild' = <<>>
                   /\ \E r \in {"ok", "err", "late"} : Answered(r) /\ AnsweredFirst(r)
            <4>1. PICK r \in {"ok", "err", "late"} : Answered(r) /\ AnsweredFirst(r)
                BY <3>2
            <4>2. /\ m.id = -call.id /\ Control("late")' = Control("late") /\ Primary(r)' = Primary(r)
                  /\ call.control = "none" /\ call.cancelId # 0
                BY <1>0, <3>2, <4>1 DEF Cancelling, Control, Primary, AnsweredFirst
            <4>3. CASE fromChild = <<Primary(r)>> /\ call.primary = "none"
                <5>0. fromChild' = Append(<<Primary(r)>>, Control("late"))
                    BY <1>5, <4>2, <4>3 DEF Answer, Control
                <5>1. fromChild' = <<Primary(r), Control("late")>>
                    BY <5>0, Pairs
                <5>2. AnsweredBoth(r)'
                    BY <1>0, <3>2, <4>2, <4>3, <5>1 DEF AnsweredBoth
                <5>3. Answered(r)'
                    BY <1>0, <1>5, <4>1, <5>2 DEF Answered
                <5> QED BY <5>3
            <4>4. CASE fromChild = <<>> /\ call.primary = r
                <5>1. fromChild' = <<Control("late")>>
                    BY <1>5, <4>2, <4>4, Pairs DEF Answer, Control
                <5>2. AnsweredBoth(r)'
                    BY <1>0, <3>2, <4>2, <4>4, <5>1 DEF AnsweredBoth
                <5>3. Answered(r)'
                    BY <1>0, <1>5, <4>1, <5>2 DEF Answered
                <5> QED BY <5>3
            <4> QED BY <4>1, <4>3, <4>4 DEF AnsweredFirst
        <3> QED BY <1>0, <1>2, <1>5, <2>2, <3>1, <3>2, FirstInput
    <2> QED BY <1>5, <2>1, <2>2
<1>6. ASSUME /\ go.op = 0 /\ m.kind \in Cancellable
           /\ PrepareCancellable(m) /\ go' = GoStartOperation(m) /\ UNCHANGED fromChild
           /\ NoFault
     PROVE  Goal
    <2>1. /\ go' \in Sidecars /\ Carrier'
          /\ go'.alive = go.alive /\ go'.serving = go.serving /\ go'.op = m.id /\ go'.kind = m.kind
          /\ ~go'.seen /\ go'.late = 0 /\ go'.winner # "cancel" /\ go'.carrier = go.carrier
          /\ m.kind = "connect" /\ go.alive => ~go.carrier
        BY <1>0, <1>6, StartFacts
    <2>2. ASSUME pc = "wait" PROVE Working'
        <3>1. Unread /\ m = Asked
            BY <1>0, <1>2, <1>6, <2>2, FirstInput DEF Cancelling, Cancellable
        <3>2. m.id = call.id /\ m.kind = call.kind /\ Cancelling' = Cancelling /\ Silent'
            BY <1>0, <1>6, <3>1 DEF Asked, Cancelling, Unread, Silent
        <3>3. toChild' = IF call.cancelId = 0 THEN <<>> ELSE <<Cancelling>>
            BY <1>0, <3>1, Pairs DEF Unread
        <3>4. Uncancelled'
            BY <1>0, <2>1, <3>2, <3>3 DEF Uncancelled
        <3>5. call.kind = "connect" => ~call.before
            BY <1>0, <2>1, <3>1, <3>2 DEF Unread
        <3>6. call.primary = "none"
            BY <3>1 DEF Unread, Silent
        <3> QED BY <1>0, <2>1, <3>2, <3>4, <3>5, <3>6 DEF Working
    <2>3. faults' \in Nat /\ fromChild' \in Seq(Outputs)
        BY <1>0, <1>6 DEF NoFault, Types
    <2> QED BY <2>1, <2>2, <2>3
<1>7. ASSUME /\ go.op = 0 /\ m.kind \in Cancellable
           /\ fromChild' = Answer(m.id, "err") /\ UNCHANGED go
           /\ NoFault
     PROVE  Goal
    <2>1. go' \in Sidecars /\ faults' \in Nat /\ fromChild' \in Seq(Outputs) /\ Carrier'
        BY <1>0, <1>3, <1>7, AnswerTyped, CarrierSame DEF Types, NoFault
    <2>2. ASSUME pc = "wait" PROVE Answered("err")'
        <3>1. Unread /\ m = Asked
            BY <1>0, <1>2, <1>7, <2>2, FirstInput DEF Cancelling, Cancellable
        <3>2. m.id = call.id /\ (go.alive => go.carrier = call.before)
            BY <3>1 DEF Asked, Unread
        <3>3. go.carrier \in BOOLEAN /\ call.before \in BOOLEAN
            BY <1>0 DEF Types, Sidecars, CallRecords
        <3>4. call.kind = "connect" /\ go'.alive => go'.carrier = ("err" = "ok" \/ call.before)
            BY <1>7, <3>2, <3>3
        <3>5. go'.op = 0 /\ fromChild' = Answer(call.id, "err")
            BY <1>7, <3>2
        <3> QED BY <1>0, <3>1, <3>4, <3>5, AnswersAsked
    <2> QED BY <1>7, <2>1, <2>2
<1>8. ASSUME go.op = 0 /\ GoHandle(m)
     PROVE  Goal
    <2>1. /\ go' \in Sidecars /\ Carrier' /\ fromChild' \in Seq(Outputs) /\ faults' \in Nat
          /\ go'.op = 0 /\ go'.serving = go.serving
          /\ m.kind \notin {"connect", "cancel"}
          /\ \E r \in {"ok", "err"} : fromChild' = Answer(m.id, r)
        BY <1>0, <1>8, GoHandleFacts
    <2>2. ASSUME pc = "wait" PROVE \E r \in {"ok", "err", "late", "cancelled"} : Answered(r)'
        <3>1. Unread /\ m = Asked
            BY <1>0, <1>2, <1>8, <2>1, <2>2, FirstInput DEF Cancelling
        <3>2. m.id = call.id /\ call.kind # "connect"
            BY <2>1, <3>1 DEF Asked
        <3>3. PICK r \in {"ok", "err"} : fromChild' = Answer(call.id, r)
            BY <2>1, <3>2
        <3>4. Answered(r)'
            BY <1>0, <2>1, <3>1, <3>2, <3>3, AnswersAsked
        <3> QED BY <3>4
    <2> QED BY <2>1, <2>2
<1>9. Goal
    BY <1>2, <1>4, <1>5, <1>6, <1>7, <1>8 DEF GoReceive
<1>10. Types'
    BY <1>0, <1>1, <1>9 DEF Types
<1> QED BY <1>0, <1>9, <1>10, SidecarStep

\* A request that is worked on stays so while its records do not move.
LEMMA WorkingStays ==
    ASSUME Working, UNCHANGED <<call, toChild, fromChild>>, go'.op = go.op, go'.kind = go.kind,
           go'.seen = go.seen, go'.late = go.late,
           \/ go'.winner = go.winner
           \/ go.winner = "running" /\ go'.winner = "completion"
    PROVE  Working'
<1>1. Silent' = Silent /\ Cancelling' = Cancelling /\ \A r : Control(r)' = Control(r)
    BY DEF Silent, Cancelling, Control
<1>2. Uncancelled => Uncancelled'
    BY <1>1 DEF Uncancelled
<1>3. Accepted => Accepted'
    BY <1>1 DEF Accepted
<1>4. TooLate => TooLate'
    BY <1>1 DEF TooLate
<1> QED BY <1>2, <1>3, <1>4 DEF Working

LEMMA BusyIsWorking ==
    ASSUME IInv, pc = "wait", go.op # 0
    PROVE  Working
BY DEF IInv, Waiting, Unread, Answered

LEMMA GoBackendDoneKeeps == ASSUME IInv, GoBackendDone PROVE IInv'
<1>0. Types /\ Carrier /\ go.alive /\ go.op # 0 /\ go.done = "no"
      /\ UNCHANGED <<launcher, app>> /\ UNCHANGED <<rt, proc, pc, call, calls, toChild, fromChild, faults>>
    BY DEF IInv, GoBackendDone, app
<1>1. PICK r \in {"ok", "err"} :
        go' = [go EXCEPT !.done = r, !.carrier = go.carrier \/ (r = "ok" /\ go.kind = "connect")]
    BY DEF GoBackendDone
<1>2. (go.carrier \/ (r = "ok" /\ go.kind = "connect")) \in BOOLEAN /\ r \in {"no", "ok", "err"}
    OBVIOUS
<1>3. go' \in Sidecars
    BY <1>0, <1>1, <1>2, Zenon DEF Types, Sidecars
<1>4. /\ go'.alive = go.alive /\ go'.serving = go.serving /\ go'.op = go.op /\ go'.kind = go.kind
      /\ go'.winner = go.winner /\ go'.posted = go.posted /\ go'.seen = go.seen /\ go'.late = go.late
      /\ go'.transport = go.transport /\ go'.done = r
      /\ go'.carrier = (go.carrier \/ (r = "ok" /\ go.kind = "connect"))
    BY <1>0, <1>1 DEF Types, Sidecars
<1>5. ~go.posted /\ go.carrier \in BOOLEAN
    BY <1>0 DEF Carrier, Types, Sidecars
<1>6. Carrier'
    BY <1>0, <1>4, <1>5 DEF Carrier
<1>7. Types'
    BY <1>0, <1>3 DEF Types
<1>8. ASSUME pc = "wait" PROVE Working'
    BY <1>0, <1>4, <1>8, BusyIsWorking, WorkingStays
<1> QED BY <1>0, <1>4, <1>6, <1>7, <1>8, SidecarStep

LEMMA GoRaceKeeps == ASSUME IInv, GoRace PROVE IInv'
<1>0. Types /\ Carrier /\ go.alive /\ go.op # 0 /\ go.done # "no" /\ ~go.posted
      /\ UNCHANGED <<launcher, app>> /\ UNCHANGED <<rt, proc, pc, call, calls, toChild, fromChild>>
    BY DEF IInv, GoRace, app
<1>1. faults' \in Nat
    BY <1>0 DEF GoRace, CancelCancellable, Types, Fault, NoFault
<1>2. CASE GoExits
    BY <1>0, <1>1, <1>2, Dies DEF GoExits
<1>3. CASE \/ go.winner = "running" /\ go' = [go EXCEPT !.winner = "completion", !.posted = TRUE]
           \/ /\ go.winner # "running" /\ go.kind = "connect" /\ go.done = "ok"
              /\ go' = [go EXCEPT !.posted = TRUE, !.carrier = FALSE]
           \/ /\ go.winner # "running" /\ ~(go.kind = "connect" /\ go.done = "ok")
              /\ go' = [go EXCEPT !.posted = TRUE]
    <2>1. go' \in Sidecars
        BY <1>0, <1>3, Zenon DEF Types, Sidecars
    <2>2. /\ go'.alive = go.alive /\ go'.serving = go.serving /\ go'.op = go.op /\ go'.kind = go.kind
          /\ go'.posted /\ go'.seen = go.seen /\ go'.late = go.late
          /\ go'.transport = go.transport /\ go'.done = go.done
          /\ go'.winner = IF go.winner = "running" THEN "completion" ELSE go.winner
        BY <1>0, <1>3 DEF Types, Sidecars
    <2>3. go.carrier \in BOOLEAN /\ go'.carrier \in BOOLEAN /\ go.transport \in BOOLEAN
        BY <1>0, <2>1 DEF Types, Sidecars
    <2>4. go'.carrier <=> go.carrier /\ ~(go.winner # "running" /\ go.kind = "connect" /\ go.done = "ok")
        BY <1>0, <1>3, <2>3 DEF Types, Sidecars, Carrier
    <2>5. go.winner # "running" => go.winner = "cancel"
        BY <1>0 DEF Carrier, Types, Sidecars
    <2>6. Carrier'
        BY <1>0, <2>2, <2>3, <2>4, <2>5 DEF Carrier
    <2>7. Types'
        BY <1>0, <1>1, <2>1 DEF Types
    <2>8. ASSUME pc = "wait" PROVE Working'
        BY <1>0, <2>2, <2>8, BusyIsWorking, WorkingStays
    <2> QED BY <1>0, <2>2, <2>6, <2>7, <2>8, SidecarStep
<1> QED BY <1>2, <1>3 DEF GoRace, CancelCancellable

LEMMA CompleteFacts ==
    ASSUME Types, Carrier, go.alive, go.posted, go' = CompleteCancellable
    PROVE  /\ go' \in Sidecars /\ Carrier' /\ go.op # 0 /\ go'.op = 0
           /\ go'.alive = go.alive /\ go'.serving = go.serving
           /\ go.winner \in {"completion", "cancel"} /\ go.done \in {"ok", "err"}
           /\ go.kind = "connect" => go'.carrier = (go.done = "ok" /\ go.winner # "cancel")
<1>0. /\ go.op # 0 /\ go.winner \in {"completion", "cancel"} /\ go.done \in {"ok", "err"}
      /\ go.carrier \in BOOLEAN /\ go.transport \in BOOLEAN
    BY DEF Types, Sidecars, Carrier
<1> DEFINE t == go.transport \/ (/\ go.winner = "completion" /\ go.kind = "connect" /\ go.done = "ok")
<1>1. t \in BOOLEAN /\ go' = [go EXCEPT !.op = 0, !.posted = FALSE, !.done = "no", !.transport = t]
    BY DEF CompleteCancellable
<1>2. 0 \in Int /\ FALSE \in BOOLEAN /\ "no" \in {"no", "ok", "err"}
    OBVIOUS
<1>3. go' \in Sidecars
    <2> HIDE DEF t
    <2> QED BY <1>1, <1>2, Zenon DEF Types, Sidecars
<1>4. /\ go'.alive = go.alive /\ go'.serving = go.serving /\ go'.op = 0 /\ ~go'.posted
      /\ go'.carrier = go.carrier /\ go'.transport = t /\ go'.kind = go.kind
    <2> HIDE DEF t
    <2> QED BY <1>1 DEF Types, Sidecars
<1>5. go.kind = "connect" => ~go.transport /\ go.carrier = (go.done = "ok" /\ go.winner # "cancel")
    BY <1>0 DEF Carrier
<1>6. go.kind # "connect" /\ go.carrier => go.transport
    BY DEF Carrier
<1>7. go'.carrier => go'.transport
    BY <1>0, <1>4, <1>5, <1>6
<1>8. Carrier'
    BY <1>4, <1>7 DEF Carrier
<1> QED BY <1>0, <1>3, <1>4, <1>5, <1>8

LEMMA GoCompleteKeeps == ASSUME IInv, GoComplete PROVE IInv'
<1>0. Types /\ Carrier /\ go.alive /\ go.posted /\ go' = CompleteCancellable
      /\ UNCHANGED <<launcher, app>> /\ UNCHANGED <<rt, proc, pc, call, calls, toChild, faults>>
    BY DEF IInv, GoComplete, app
<1>1. /\ go' \in Sidecars /\ Carrier' /\ go.op # 0 /\ go'.op = 0
      /\ go'.alive = go.alive /\ go'.serving = go.serving
      /\ go.winner \in {"completion", "cancel"} /\ go.done \in {"ok", "err"}
      /\ go.kind = "connect" => go'.carrier = (go.done = "ok" /\ go.winner # "cancel")
    BY <1>0, CompleteFacts
<1>2. go.op \in Int /\ go.late \in Int /\ {"ok", "err", "cancelled", "late"} \subseteq Opts
    BY <1>0 DEF Types, Sidecars, Opts
<1>3. PICK r \in {"ok", "err", "cancelled"} : r = IF go.winner = "cancel" THEN "cancelled" ELSE go.done
    BY <1>1
<1>4. fromChild' = IF go.winner = "completion" /\ go.late # 0
                     THEN Append(Answer(go.op, r), [id |-> go.late, res |-> "late"]) ELSE Answer(go.op, r)
    BY <1>3 DEF GoComplete
<1>5. fromChild' \in Seq(Outputs)
    <2>1. Answer(go.op, r) \in Seq(Outputs)
        BY <1>0, <1>2, <1>3, AnswerTyped
    <2>2. [id |-> go.late, res |-> "late"] \in Outputs
        BY <1>2 DEF Outputs
    <2>3. Append(Answer(go.op, r), [id |-> go.late, res |-> "late"]) \in Seq(Outputs)
        BY <2>1, <2>2, Grows
    <2> QED BY <1>4, <2>1, <2>3
<1>6. Types'
    BY <1>0, <1>1, <1>5 DEF Types
<1>7. ASSUME pc = "wait" PROVE Answered(r)'
    <2>1. Working /\ go.op = call.id
        BY <1>1, <1>7, BusyIsWorking DEF Working
    <2>2. /\ Primary(r)' = Primary(r) /\ Control("late")' = Control("late") /\ Cancelling' = Cancelling
          /\ Answer(go.op, r) = Append(fromChild, Primary(r)) /\ Control("accepted")' = Control("accepted")
        BY <1>0, <2>1 DEF Primary, Control, Cancelling, Answer
    <2>3. call.kind = "connect" /\ go'.alive => go'.carrier = (r = "ok" \/ call.before)
        <3>1. ASSUME call.kind = "connect" PROVE ~call.before /\ go'.carrier = (r = "ok")
            <4>1. go.kind = "connect" /\ ~call.before
                BY <2>1, <3>1 DEF Working
            <4>2. (r = "ok") = (go.done = "ok" /\ go.winner # "cancel")
                BY <1>1, <1>3
            <4> QED BY <1>1, <4>1, <4>2
        <3>2. call.before \in BOOLEAN
            BY <1>0 DEF Types, CallRecords
        <3> QED BY <3>1, <3>2
    <2>4. CASE Uncancelled
        <3>1. go.winner = "completion" /\ go.late = 0 /\ r # "cancelled" /\ fromChild = <<>>
              /\ call.primary = "none" /\ call.control = "none"
            BY <1>1, <1>3, <2>4 DEF Uncancelled, Silent
        <3>2. fromChild' = <<Primary(r)>>
            BY <1>4, <2>2, <3>1, Pairs
        <3>3. CASE call.cancelId = 0
            <4>1. AnsweredAlone(r)'
                BY <1>0, <2>2, <2>4, <3>1, <3>2, <3>3 DEF AnsweredAlone, Uncancelled
            <4> QED BY <1>0, <1>1, <2>3, <3>1, <4>1 DEF Answered
        <3>4. CASE call.cancelId # 0
            <4>1. AnsweredFirst(r)'
                BY <1>0, <2>2, <2>4, <3>1, <3>2, <3>4 DEF AnsweredFirst, Uncancelled
            <4> QED BY <1>0, <1>1, <2>3, <3>1, <4>1 DEF Answered
        <3> QED BY <3>3, <3>4
    <2>5. CASE Accepted
        <3>1. r = "cancelled" /\ go.winner = "cancel" /\ call.primary = "none" /\ call.cancelId # 0
              /\ toChild = <<>> /\ fromChild' = Append(fromChild, Primary("cancelled"))
            BY <1>3, <1>4, <2>1, <2>2, <2>5 DEF Accepted, Working
        <3>2. CASE fromChild = <<Control("accepted")>> /\ call.control = "none"
            <4>0. fromChild' = Append(<<Control("accepted")>>, Primary("cancelled"))
                BY <3>1, <3>2
            <4>1. fromChild' = <<Control("accepted"), Primary("cancelled")>>
                BY <4>0, Pairs
            <4>2. AnsweredCancelled'
                BY <1>0, <2>2, <3>1, <3>2, <4>1 DEF AnsweredCancelled
            <4> QED BY <1>0, <1>1, <2>3, <3>1, <4>2 DEF Answered
        <3>3. CASE fromChild = <<>> /\ call.control = "accepted"
            <4>1. fromChild' = <<Primary("cancelled")>>
                BY <3>1, <3>3, Pairs
            <4>2. AnsweredCancelled'
                BY <1>0, <2>2, <3>1, <3>3, <4>1 DEF AnsweredCancelled
            <4> QED BY <1>0, <1>1, <2>3, <3>1, <4>2 DEF Answered
        <3> QED BY <2>5, <3>2, <3>3 DEF Accepted
    <2>6. CASE TooLate
        <3>1. go.winner = "completion" /\ go.late = -call.id /\ r # "cancelled" /\ fromChild = <<>>
              /\ call.primary = "none" /\ call.control = "none" /\ call.cancelId # 0 /\ toChild = <<>>
            BY <1>1, <1>3, <2>6 DEF TooLate, Silent
        <3>2. go.late # 0 /\ [id |-> go.late, res |-> "late"] = Control("late")
            BY <1>1, <1>2, <2>1, <3>1 DEF Control
        <3>3. Answer(go.op, r) = <<Primary(r)>>
            BY <2>2, <3>1, Pairs
        <3>4. fromChild' = Append(<<Primary(r)>>, Control("late"))
            BY <1>4, <3>1, <3>2, <3>3
        <3>5. fromChild' = <<Primary(r), Control("late")>>
            BY <3>4, Pairs
        <3>6. AnsweredBoth(r)'
            BY <1>0, <2>2, <3>1, <3>5 DEF AnsweredBoth
        <3> QED BY <1>0, <1>1, <2>3, <3>1, <3>6 DEF Answered
    <2> QED BY <2>1, <2>4, <2>5, <2>6 DEF Working
<1>8. pc = "wait" => \E s \in {"ok", "err", "late", "cancelled"} : Answered(s)'
    BY <1>3, <1>7
<1> QED BY <1>0, <1>1, <1>6, <1>8, SidecarStep
-----------------------------------------------------------------------------
(* The theorems *)

LEMMA NextKeeps == ASSUME IInv, [Next]_vars PROVE IInv'
<1>1. CASE Calls
    <2>1. ASSUME NEW k \in Kinds, Request(k) \/ RequestPrecancelled(k) PROVE IInv'
        BY <2>1, RequestKeeps, PrecancelledKeeps
    <2> QED BY <1>1, <2>1, StartKeeps, StartRefusedKeeps, StatusKeeps, StopKeeps DEF Calls
<1>2. CASE SetCancel
    BY <1>2, SetCancelKeeps
<1>3. CASE Runtime
    BY <1>3, TerminateChildKeeps, ReapFirstKeeps, KillKeeps, PollKeeps, HandshakeKeeps, AwaitExitKeeps,
       SendCancelKeeps, TimeOutKeeps, ReceiveKeeps DEF Runtime
<1>4. CASE Sidecar
    BY <1>4, GoBootKeeps, GoReceiveKeeps, GoBackendDoneKeeps, GoRaceKeeps, GoCompleteKeeps DEF Sidecar
<1>5. CASE GoEnds
    BY <1>5, GoEndsKeeps
<1>6. CASE ChildExited \/ RouteHold
    BY <1>6, BrokerKeeps
<1>7. CASE UNCHANGED vars
    <2>1. UNCHANGED <<launcher, rt, proc, pc, call, toChild, fromChild, go, calls, faults>>
        BY <1>7 DEF vars
    <2>2. calls' \in Nat /\ faults' \in Nat
        BY <2>1 DEF IInv, Types
    <2> QED BY <2>1, <2>2, Same
<1> QED BY <1>1, <1>2, <1>3, <1>4, <1>5, <1>6, <1>7 DEF Next

\* The inductive invariant: at every moment the one request under way fixes what
\* is in both directions of the stream (request_cancellable, serveWithBackendContext).
THEOREM RuntimeInvariant == Spec => []IInv
<1>1. Init => IInv
    BY InitKeeps
<1>2. IInv /\ [Next]_vars => IInv'
    BY NextKeeps
<1> QED BY <1>1, <1>2, PTL DEF Spec

\* Between calls a stream that is kept is empty in both directions and the sidecar
\* works on nothing, however cancels, completions, timeouts, crashes and exits
\* interleave: no record of one request can be read as the answer of the next.
THEOREM CleanStream == Spec => []StreamIsClean
<1>1. IInv => StreamIsClean
    BY DEF IInv, Resting, StreamIsClean
<1> QED BY <1>1, RuntimeInvariant, PTL

\* Only a record that is received ends a wait with an answer.
LEMMA WaitEndsByReceive ==
    ASSUME IInv, [Next]_vars, pc = "wait", pc' = "idle"
    PROVE  Receive
<1>1. ~Calls /\ ~SetCancel
    BY DEF Calls, Start, StartRefused, Status, Stop, Request, RequestPrecancelled, Enter, SetCancel
<1>2. ~TerminateChild /\ ~ReapFirst /\ ~Kill /\ ~Poll /\ ~Handshake /\ ~AwaitExit
    BY DEF TerminateChild, ReapFirst, Kill, Poll, Handshake, AwaitExit
<1>3. ~SendCancel /\ ~TimeOut /\ ~StreamEnds
    BY DEF SendCancel, SendRequest, TimeOut, StreamEnds, Terminating
<1>4. ~Sidecar /\ ~GoEnds
    BY DEF Sidecar, GoBoot, GoReceive, GoBackendDone, GoRace, GoComplete, GoEnds, app
<1>5. ~ChildExited /\ ~RouteHold /\ ~UNCHANGED vars
    BY DEF ChildExited, RouteHold, app, vars
<1> QED BY <1>1, <1>2, <1>3, <1>4, <1>5 DEF Next, Runtime

\* A connect's answer is what the carrier is at that moment, whichever of cancel
\* and completion won; and the handle is let go of, or counts as reaped, only when
\* the child is gone, whatever the broker answered (connect, try_wait_status).
THEOREM TrueAnswers == Spec => AnswersAreTrue
<1>1. IInv => TypeOK /\ AbsenceIsProved
    <2> SUFFICES ASSUME IInv PROVE TypeOK /\ AbsenceIsProved
        OBVIOUS
    <2>1. Types /\ Handle
        BY DEF IInv
    <2>2. AbsenceIsProved
        BY <2>1 DEF Handle, AbsenceIsProved
    <2>3. ASSUME NEW i \in DOMAIN fromChild PROVE fromChild[i].res \in Opts
        <3>1. fromChild \in Seq(Outputs) /\ i \in 1..Len(fromChild)
            BY <2>1, <2>3, LenProperties DEF Types
        <3>2. fromChild[i] \in Outputs
            BY <3>1, ElementOfSeq
        <3> QED BY <3>2 DEF Outputs
    <2>4. TypeOK
        BY <2>1, <2>3 DEF Types, Handles, CallRecords, TypeOK
    <2> QED BY <2>2, <2>4
<1>2. IInv /\ [Next]_vars =>
        [pc = "wait" /\ pc' = "idle" /\ call.kind = "connect" /\ go.alive =>
            go.carrier = (last'.result = "ok" \/ call.before)]_vars
    <2> SUFFICES ASSUME IInv, [Next]_vars, pc = "wait", pc' = "idle", call.kind = "connect", go.alive
                 PROVE  go.carrier = (last'.result = "ok" \/ call.before)
        OBVIOUS
    <2>1. Receive
        BY WaitEndsByReceive
    <2> QED BY <2>1, ReceiveFacts
<1> QED BY <1>1, <1>2, RuntimeInvariant, PTL DEF Spec, AnswersAreTrue, ConnectAnswerIsTrue
=============================================================================
