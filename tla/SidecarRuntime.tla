--------------------------- MODULE SidecarRuntime ---------------------------
(***************************************************************************)
(* The stream between the app and its sidecar: the stdio runtime and the   *)
(* broker's process handle on the app's side, the Go serve loop on the     *)
(* other, and the broker between them as the handle sees it.               *)
(*                                                                         *)
(* The runtime answers one call at a time.  A cancellable request may be   *)
(* followed by one cancel of it, and both answers are then drained.  The   *)
(* sidecar decides the race of the cancel and the completion; the broker   *)
(* removes a session whose child ended, at a time of its own.              *)
(***************************************************************************)
EXTENDS Integers, Sequences

CONSTANTS
    Launchers,   \* subset of {"local", "broker"}
    Kinds,       \* the requests made
    MaxCalls,    \* calls of the runtime in a behaviour
    MaxFaults    \* failures of the broker's transport, the backend or the sidecar

ASSUME LaunchersAssumption == Launchers \subseteq {"local", "broker"}

VARIABLES
    launcher,    \* which launcher the runtime was built with
    rt,          \* the runtime: generation, next_generation, stdin, records
    proc,        \* the process handle, and who has it
    pc,          \* where the call under way is
    call,        \* the call under way
    cancel,      \* the caller's cancel token
    toChild,     \* the sidecar's stdin
    fromChild,   \* the sidecar's stdout and the reader thread's channel
    go,          \* the sidecar
    broker,      \* the broker's session
    last,        \* history: the last answer
    calls,       \* calls so far
    faults       \* faults so far

vars == <<launcher, rt, proc, pc, call, cancel, toChild, fromChild, go, broker, last, calls, faults>>

app == <<rt, proc, pc, call, cancel, last, calls>>

Cancellable == {"connect", "health"}

Fault == faults < MaxFaults /\ faults' = faults + 1
NoFault == faults' = faults

NoCall == [op |-> "none", kind |-> "none", id |-> 0, cancelId |-> 0, primary |-> "none",
           control |-> "none", again |-> FALSE, result |-> "none", before |-> FALSE]

\* A sidecar that was just spawned and has not read its bootstrap record.
Spawned == [alive |-> TRUE, serving |-> FALSE, op |-> 0, kind |-> "none", winner |-> "running",
            done |-> "no", posted |-> FALSE, seen |-> FALSE, late |-> 0,
            carrier |-> FALSE, transport |-> FALSE, quit |-> FALSE, killed |-> FALSE]

\* prepare() has started the broker's session before the runtime is built; a
\* local launcher has nothing until launch().
Prepared(l) == [at |-> IF l = "broker" THEN "launcher" ELSE "none", gen |-> 0,
                open |-> TRUE, reaped |-> FALSE, recovery |-> FALSE]

\* enter_recovery_only(): the descriptors go, the handle is of no more use.
EnterRecoveryOnly(p) == [p EXCEPT !.open = FALSE, !.recovery = TRUE]

Init ==
    /\ launcher \in Launchers
    /\ rt = [gen |-> 0, next |-> 0, stdin |-> FALSE, records |-> FALSE]
    /\ proc = Prepared(launcher)
    /\ pc = "idle"
    /\ call = NoCall
    /\ cancel = FALSE
    /\ toChild = <<>>
    /\ fromChild = <<>>
    /\ go = [Spawned EXCEPT !.alive = (launcher = "broker")]
    /\ broker = [session |-> launcher = "broker", hold |-> "never", exitDue |-> FALSE]
    /\ last = [op |-> "none", kind |-> "none", result |-> "none"]
    /\ calls = 0
    /\ faults = 0
-----------------------------------------------------------------------------
(* The process handle.  What a call on it gives: its answer, the handle     *)
(* afterwards, and whether a fault of the transport was met.                *)

\* The broker's answers: state and error, and whether it took a fault.  An
\* answer that does not arrive, or not in a known form, decodes to "lost".
Reply(state, error, f) == [state |-> state, error |-> error, f |-> f]

Lost == Reply("lost", "transport", 1)

StateNow == IF ~broker.session THEN "idle" ELSE IF broker.hold = "on" THEN "route_held" ELSE "running"

StatusReplies == {Lost, Reply(StateNow, IF broker.session THEN "none" ELSE "stale", 0)}

\* stop(): a child that was reaped leaves the broker idle.
StopReplies ==
    {Lost} \cup IF ~broker.session THEN {Reply("idle", "stale", 0)}
                ELSE IF broker.hold = "on" THEN {Reply("route_held", "route_held", 0)}
                ELSE {Reply("idle", "none", 0), Reply("running", "unavailable", 1)}

Ambiguous(reply) == reply.state = "lost" \/ reply.error = "stale"

\* TunnelBrokerProcessControl::try_wait_status: a session the broker no longer
\* knows, and a broker that cannot be reached, quarantine the handle.
BrokerTryWait(p) ==
    IF p.reaped THEN {[r |-> "some", p |-> p, f |-> 0]}
    ELSE IF p.recovery THEN {[r |-> "err", p |-> p, f |-> 0]}
    ELSE {[r |-> IF Ambiguous(reply) THEN "err" ELSE "none",
           p |-> IF Ambiguous(reply) THEN EnterRecoveryOnly(p) ELSE p, f |-> reply.f] : reply \in StatusReplies}

LocalTryWait(p) == {[r |-> IF go.alive THEN "none" ELSE "some", p |-> p, f |-> 0]}

TryWait(p) ==
    {w \in (IF launcher = "local" THEN LocalTryWait(p) ELSE BrokerTryWait(p)) :
        faults + w.f <= MaxFaults}

\* TunnelBrokerProcessControl::kill_owned: Idle is the proof that the broker
\* has reaped the child; with its answer lost it may have done so or not.
BrokerKill(p) ==
    IF p.recovery \/ p.reaped THEN {[p |-> p, f |-> 0, ended |-> FALSE]}
    ELSE UNION {{[p |-> IF Ambiguous(reply) THEN EnterRecoveryOnly(p)
                        ELSE [p EXCEPT !.open = FALSE, !.reaped = (reply.error = "none")],
                  f |-> reply.f, ended |-> e] :
                     e \in IF reply.state = "lost" THEN {FALSE, StateNow = "running"}
                           ELSE {reply.error = "none"}} : reply \in StopReplies}

LocalKill(p) == {[p |-> p, f |-> 0, ended |-> FALSE]}

KillOwned(p) ==
    {k \in (IF launcher = "local" THEN LocalKill(p) ELSE BrokerKill(p)) :
        faults + k.f <= MaxFaults}

\* What the kill does to the child and to the broker's session.
Killed(k) ==
    /\ go' = IF k.ended THEN [go EXCEPT !.alive = FALSE, !.carrier = FALSE]
             ELSE [go EXCEPT !.killed = (launcher = "local")]
    /\ broker' = IF k.ended THEN [broker EXCEPT !.session = FALSE] ELSE broker
    /\ faults' = faults + k.f
-----------------------------------------------------------------------------
(* StdioSidecarRuntime: how a call ends.                                    *)

\* The call returns.
Return(c, result) ==
    /\ pc' = "idle"
    /\ last' = [op |-> c.op, kind |-> c.kind, result |-> result]
    /\ call' = NoCall
    /\ cancel' = FALSE

\* terminate_child() is entered; `result` is what the call answers after it.
\* start() and stop() call it again when what they called has failed.
Terminating(c, result) ==
    /\ pc' = "terminate"
    /\ call' = [c EXCEPT !.result = result, !.again = c.op \in {"start", "stop"}]
    /\ UNCHANGED <<last, cancel>>

\* terminate_child() is left.
Terminated(ok) ==
    IF call.again
      THEN /\ pc' = "terminate"
           /\ call' = [call EXCEPT !.again = FALSE]
           /\ UNCHANGED <<last, cancel>>
      ELSE Return(call, IF call.op # "stop" THEN call.result ELSE IF ok THEN "ok" ELSE "unavailable")

\* cancel_prepared(): a child nobody launched is killed and reaped.
CancelPrepared ==
    IF proc.at # "launcher" THEN Terminated(TRUE) /\ UNCHANGED <<proc, go, broker>> /\ NoFault
    ELSE \E k \in KillOwned(proc) :
            /\ Killed(k)
            /\ proc' = IF k.p.reaped THEN [k.p EXCEPT !.at = "none"] ELSE k.p
            /\ Terminated(k.p.reaped)

\* The first lines of terminate_child(): the stream is dropped whatever follows.
TerminateChild ==
    /\ pc = "terminate"
    /\ rt' = [rt EXCEPT !.stdin = FALSE, !.records = FALSE]
    /\ IF rt.gen = 0 THEN CancelPrepared
       ELSE /\ pc' = "reap"
            /\ UNCHANGED <<proc, go, broker, call, cancel, last>>
            /\ NoFault
    /\ UNCHANGED <<launcher, toChild, fromChild, calls>>

Released == proc' = [proc EXCEPT !.at = "none"] /\ rt' = [rt EXCEPT !.gen = 0]

\* terminate_child_handle(): an exit already seen needs no kill.
ReapFirst ==
    /\ pc = "reap"
    /\ \E w \in TryWait(proc) :
          /\ faults' = faults + w.f
          /\ IF w.r = "some" THEN Released /\ Terminated(TRUE)
             ELSE /\ proc' = w.p
                  /\ pc' = "kill"
                  /\ UNCHANGED <<rt, call, cancel, last>>
    /\ UNCHANGED <<launcher, toChild, fromChild, go, broker, calls>>

\* The child may have ended since: the answer of the kill is not looked at.
Kill ==
    /\ pc = "kill"
    /\ \E k \in KillOwned(proc) : Killed(k) /\ proc' = k.p
    /\ pc' = "poll"
    /\ UNCHANGED <<launcher, rt, call, cancel, last, toChild, fromChild, calls>>

\* The exact handle is polled until it says so, or the reap timeout has passed;
\* then it stays where it is.
Poll ==
    /\ pc = "poll"
    /\ \E w \in TryWait(proc) :
          /\ faults' = faults + w.f
          /\ \/ w.r = "some" /\ Released /\ Terminated(TRUE)
             \/ w.r # "some" /\ proc' = w.p /\ Terminated(FALSE) /\ UNCHANGED rt
             \/ w.r # "some" /\ proc' = w.p /\ UNCHANGED <<pc, call, cancel, last, rt>>
    /\ UNCHANGED <<launcher, toChild, fromChild, go, broker, calls>>
-----------------------------------------------------------------------------
(* StdioSidecarRuntime: start, status and stop.                             *)

Call(op, kind) == [NoCall EXCEPT !.op = op, !.kind = kind, !.id = calls + 1, !.before = go.carrier]

Enter ==
    /\ pc = "idle"
    /\ calls < MaxCalls
    /\ calls' = calls + 1

\* start() over a child that is still there fails, and terminates it.  A
\* broker's launcher has one child to give, and none that is quarantined.
MayLaunch == launcher = "local" \/ (proc.at = "launcher" /\ proc.gen = 0 /\ ~proc.reaped /\ ~proc.recovery)

Start ==
    /\ Enter
    /\ LET c == Call("start", "none") IN
       IF proc.at = "runtime"
         THEN /\ pc' = "terminate"
              /\ call' = [c EXCEPT !.result = "invalid"]
              /\ UNCHANGED <<rt, proc, go, toChild, fromChild, last, cancel>>
         ELSE IF ~MayLaunch
         THEN /\ rt' = [rt EXCEPT !.next = rt.next + 1]
              /\ pc' = "terminate"
              /\ call' = [c EXCEPT !.result = "invalid"]
              /\ UNCHANGED <<proc, go, toChild, fromChild, last, cancel>>
         ELSE /\ rt' = [gen |-> rt.next + 1, next |-> rt.next + 1, stdin |-> proc.open, records |-> proc.open]
              /\ proc' = [proc EXCEPT !.at = "runtime", !.gen = rt.next + 1]
              /\ go' = IF launcher = "local" THEN Spawned ELSE go
              /\ fromChild' = <<>>
              /\ IF go'.alive /\ proc.open
                   THEN /\ toChild' = <<[id |-> 0, kind |-> "bootstrap"]>>
                        /\ pc' = "handshake"
                        /\ call' = c
                        /\ UNCHANGED <<last, cancel>>
                   ELSE toChild' = <<>> /\ Terminating(c, "unavailable")
    /\ UNCHANGED <<launcher, broker, faults>>

\* verify_macos_sidecar refuses the executable, or it cannot be spawned.
StartRefused ==
    /\ Enter /\ launcher = "local" /\ proc.at # "runtime" /\ Fault
    /\ \/ /\ call' = [Call("start", "none") EXCEPT !.result = "unauthenticated"]
          /\ UNCHANGED rt
       \/ /\ call' = [Call("start", "none") EXCEPT !.result = "unavailable"]
          /\ rt' = [rt EXCEPT !.next = rt.next + 1]
    /\ pc' = "terminate"
    /\ UNCHANGED <<launcher, proc, go, broker, toChild, fromChild, last, cancel>>

\* The handshake arrives, is none, or does not arrive in time.
Handshake ==
    /\ pc = "handshake"
    /\ \/ /\ fromChild # <<>>
          /\ fromChild' = Tail(fromChild)
          /\ IF Head(fromChild).res = "handshake" THEN Return(call, "ok")
             ELSE /\ pc' = "terminate"
                  /\ call' = [call EXCEPT !.result = "unauthenticated"]
                  /\ UNCHANGED <<last, cancel>>
       \/ /\ fromChild = <<>>
          /\ Terminating(call, IF go.alive THEN "timed_out" ELSE "unavailable")
          /\ UNCHANGED fromChild
    /\ UNCHANGED <<launcher, rt, proc, toChild, go, broker, calls, faults>>

\* status(): an exit that is seen releases the child.
Status ==
    /\ Enter
    /\ proc.at = "runtime"
    /\ \E w \in TryWait(proc) :
          /\ faults' = faults + w.f
          /\ last' = [op |-> "status", kind |-> "none",
                      result |-> IF w.r = "some" THEN "exited" ELSE IF w.r = "none" THEN "running" ELSE "unavailable"]
          /\ IF w.r = "some"
               THEN /\ proc' = [proc EXCEPT !.at = "none"]
                    /\ rt' = [rt EXCEPT !.gen = 0, !.stdin = FALSE, !.records = FALSE]
               ELSE proc' = w.p /\ UNCHANGED rt
    /\ UNCHANGED <<launcher, pc, call, cancel, toChild, fromChild, go, broker>>

\* send_request(): refused without a stream, fails when the child is gone.
SendRequest(c, request) ==
    IF rt.stdin /\ go.alive
      THEN /\ toChild' = Append(toChild, request)
           /\ pc' = "wait"
           /\ call' = c
           /\ UNCHANGED <<last, cancel>>
      ELSE Terminating(c, "unavailable") /\ UNCHANGED toChild

\* stop(): a graceful disconnect first; without a child, what is prepared goes.
Stop ==
    /\ Enter
    /\ LET c == Call("stop", "disconnect") IN
       IF proc.at # "runtime"
         THEN /\ pc' = "terminate"
              /\ call' = c
              /\ UNCHANGED <<last, cancel, toChild>>
         ELSE SendRequest(c, [id |-> c.id, kind |-> "disconnect"])
    /\ UNCHANGED <<launcher, rt, proc, fromChild, go, broker, faults>>

\* The loop of stop() after a graceful answer: an answer that is no exit, an
\* error included, is polled again until the timeout.
AwaitExit ==
    /\ pc = "graceful"
    /\ \E w \in TryWait(proc) :
          /\ faults' = faults + w.f
          /\ \/ /\ w.r = "some"
                /\ proc' = [proc EXCEPT !.at = "none"]
                /\ rt' = [rt EXCEPT !.gen = 0, !.stdin = FALSE, !.records = FALSE]
                /\ Return(call, "ok")
             \/ w.r # "some" /\ proc' = w.p /\ UNCHANGED <<pc, call, cancel, last, rt>>
             \/ /\ w.r # "some"
                /\ proc' = w.p
                /\ pc' = "terminate"
                /\ UNCHANGED <<call, cancel, last, rt>>
    /\ UNCHANGED <<launcher, toChild, fromChild, go, broker, calls>>
-----------------------------------------------------------------------------
(* StdioSidecarRuntime: request_cancellable.                                *)

Request(kind) ==
    /\ Enter
    /\ LET c == Call("request", kind) IN SendRequest(c, [id |-> c.id, kind |-> kind])
    /\ UNCHANGED <<launcher, rt, proc, fromChild, go, broker, faults>>

\* A token that is set before a cancellable request is sent.
RequestPrecancelled(kind) ==
    /\ Enter
    /\ kind \in Cancellable
    /\ last' = [op |-> "request", kind |-> kind, result |-> "cancelled"]
    /\ UNCHANGED <<launcher, rt, proc, pc, call, cancel, toChild, fromChild, go, broker, faults>>

SetCancel ==
    /\ pc = "wait"
    /\ ~cancel
    /\ call.op = "request"
    /\ cancel' = TRUE
    /\ UNCHANGED <<launcher, rt, proc, pc, call, toChild, fromChild, go, broker, last, calls, faults>>

MayCancel == cancel /\ call.cancelId = 0 /\ call.kind \in Cancellable

\* The one cancel of the request is sent.
SendCancel ==
    /\ pc = "wait"
    /\ MayCancel
    /\ LET c == [call EXCEPT !.cancelId = call.id] IN
       SendRequest(c, [id |-> -c.id, kind |-> "cancel"])
    /\ UNCHANGED <<launcher, rt, proc, fromChild, go, broker, calls, faults>>

\* Mutant: a cancel that was sent is waited for without a deadline.
TimeOut_NoCancelDeadline ==
    /\ pc = "wait"
    /\ call.cancelId = 0
    /\ Terminating(call, "timed_out")
    /\ UNCHANGED <<launcher, rt, proc, toChild, fromChild, go, broker, calls, faults>>

\* No answer before the deadline of the request, or of the cancel.
TimeOut ==
    /\ pc = "wait"
    /\ Terminating(call, IF call.cancelId = 0 THEN "timed_out" ELSE "unavailable")
    /\ UNCHANGED <<launcher, rt, proc, toChild, fromChild, go, broker, calls, faults>>

\* The reader thread met the end of the stream.
StreamEnds ==
    /\ pc = "wait"
    /\ fromChild = <<>>
    /\ ~go.alive
    /\ Terminating(call, "unavailable")
    /\ UNCHANGED <<launcher, rt, proc, toChild, fromChild, go, broker, calls, faults>>

CancelPairDone(c) == c.primary # "none" /\ c.control # "none"

\* finish_cancel_pair(): the two answers must tell the same story.
FinishCancelPair(c) ==
    IF c.control = "accepted" /\ c.primary = "cancelled" THEN Return(c, "cancelled")
    ELSE IF c.control = "late" /\ c.primary # "cancelled" THEN Return(c, c.primary)
    ELSE Terminating(c, "unavailable")

\* The answer to the request, when no cancel was sent.
FinishPrimary(c) ==
    IF c.primary = "cancelled" THEN Terminating(c, "unavailable")
    ELSE IF c.op = "stop"          \* an error that was answered is an answer
    THEN pc' = "graceful" /\ call' = c /\ UNCHANGED <<last, cancel>>
    ELSE Return(c, c.primary)

\* Mutant: the answer to the request settles it, cancelled or not.
Receive_PrimarySettles ==
    /\ pc = "wait"
    /\ fromChild # <<>>
    /\ fromChild' = Tail(fromChild)
    /\ LET m == Head(fromChild)
           c == IF m.id = call.id THEN [call EXCEPT !.primary = m.res]
                ELSE [call EXCEPT !.control = m.res]
       IN IF m.id = call.id THEN FinishPrimary(c) ELSE call' = c /\ UNCHANGED <<pc, last, cancel>>
    /\ UNCHANGED <<launcher, rt, proc, toChild, go, broker, calls, faults>>

\* One record: it answers the request or its cancel, once, or ends the stream.
Receive ==
    /\ pc = "wait"
    /\ fromChild # <<>>
    /\ fromChild' = Tail(fromChild)
    /\ LET m == Head(fromChild)
           c == IF m.id = call.id THEN [call EXCEPT !.primary = m.res]
                ELSE [call EXCEPT !.control = m.res]
           known == \/ m.id = call.id /\ call.primary = "none"
                    \/ m.id = -call.id /\ call.cancelId # 0 /\ call.control = "none"
       IN IF ~known THEN Terminating(call, "unavailable")
          ELSE IF call.cancelId = 0 THEN FinishPrimary(c)
          ELSE IF CancelPairDone(c) THEN FinishCancelPair(c)
          ELSE call' = c /\ UNCHANGED <<pc, last, cancel>>
    /\ UNCHANGED <<launcher, rt, proc, toChild, go, broker, calls, faults>>
-----------------------------------------------------------------------------
(* The sidecar: serveWithBackendContext.                                    *)

Answer(i, res) == Append(fromChild, [id |-> i, res |-> res])

\* The process has ended: its stdin and what it had connected go with it.
Exited(g) == [g EXCEPT !.alive = FALSE, !.carrier = FALSE, !.serving = FALSE]

GoExits ==
    /\ go' = Exited(go)
    /\ broker' = [broker EXCEPT !.exitDue = TRUE]

GoBoot ==
    /\ go.alive
    /\ ~go.serving
    /\ toChild # <<>>
    /\ toChild' = Tail(toChild)
    /\ go' = [go EXCEPT !.serving = TRUE]
    /\ \/ fromChild' = Answer(0, "handshake") /\ NoFault
       \/ fromChild' = Answer(0, "garbage") /\ Fault
    /\ UNCHANGED <<launcher, app, broker>>

(* A request that is handled at once.  A backend failure is answered as an   *)
(* error, after which the carrier may be down although the session still     *)
(* names its transport; an acknowledged disconnect ends the sidecar.         *)
GoHandle(m) ==
    \/ /\ m.kind = "status"
       /\ fromChild' = Answer(m.id, "ok")
       /\ UNCHANGED <<go, broker>>
       /\ NoFault
    \/ /\ m.kind = "disconnect_transport"
       /\ ~go.transport
       /\ fromChild' = Answer(m.id, "err")
       /\ UNCHANGED <<go, broker>>
       /\ NoFault
    \/ /\ m.kind = "disconnect_transport"
       /\ go.transport
       /\ fromChild' = Answer(m.id, "ok")
       /\ go' = [go EXCEPT !.carrier = FALSE, !.transport = FALSE]
       /\ UNCHANGED broker
       /\ NoFault
    \/ /\ m.kind = "disconnect"
       /\ fromChild' = Answer(m.id, "ok")
       /\ go' = [go EXCEPT !.carrier = FALSE, !.transport = FALSE, !.quit = TRUE]
       /\ UNCHANGED broker
       /\ NoFault
    \/ /\ m.kind \in {"disconnect", "disconnect_transport"}
       /\ fromChild' = Answer(m.id, "err")
       /\ go' \in {go, [go EXCEPT !.carrier = FALSE]}
       /\ UNCHANGED broker
       /\ Fault

\* prepareCancellable(): a connect needs no carrier, a sample needs one.
PrepareCancellable(m) == (m.kind = "connect") = ~go.transport

GoStartOperation(m) ==
    [go EXCEPT !.op = m.id, !.kind = m.kind, !.winner = "running", !.done = "no",
               !.posted = FALSE, !.seen = FALSE, !.late = 0]

\* A request while an operation runs is the cancel of it: the runtime sends
\* nothing else then, and the sidecar would end on anything else.
GoCancel(m) ==
    /\ m.kind = "cancel"
    /\ ~go.seen
    /\ IF go.winner = "running"
         THEN /\ go' = [go EXCEPT !.seen = TRUE, !.winner = "cancel"]
              /\ fromChild' = Answer(m.id, "accepted")
         ELSE /\ go' = [go EXCEPT !.seen = TRUE, !.late = m.id]
              /\ UNCHANGED fromChild
    /\ UNCHANGED broker

GoReceive ==
    /\ go.alive
    /\ go.serving
    /\ ~go.quit
    /\ toChild # <<>>
    /\ toChild' = Tail(toChild)
    /\ LET m == Head(toChild) IN
       \/ go.op # 0 /\ GoCancel(m) /\ NoFault
       \/ /\ go.op = 0
          /\ m.kind = "cancel"
          /\ fromChild' = Answer(m.id, "late")
          /\ UNCHANGED <<go, broker>>
          /\ NoFault
       \/ /\ go.op = 0
          /\ m.kind \in Cancellable
          /\ IF PrepareCancellable(m) THEN go' = GoStartOperation(m) /\ UNCHANGED fromChild
             ELSE fromChild' = Answer(m.id, "err") /\ UNCHANGED go
          /\ UNCHANGED broker
          /\ NoFault
       \/ go.op = 0 /\ GoHandle(m)
    /\ UNCHANGED <<launcher, app>>

\* The backend's part of the operation ends; a cancelled one may yet succeed.
GoBackendDone ==
    /\ go.alive
    /\ go.op # 0
    /\ go.done = "no"
    /\ \E r \in {"ok", "err"} :
          go' = [go EXCEPT !.done = r, !.carrier = go.carrier \/ (r = "ok" /\ go.kind = "connect")]
    /\ UNCHANGED <<launcher, app, toChild, fromChild, broker, faults>>

\* Mutant: a cancelled connect that succeeded leaves its carrier connected.
CancelCancellable_Keeps == go' = [go EXCEPT !.posted = TRUE] /\ UNCHANGED broker /\ NoFault

\* cancelCancellable(): a connect that succeeded after all is undone; when
\* that fails the sidecar ends rather than claim a clean cancel.
CancelCancellable ==
    IF go.kind = "connect" /\ go.done = "ok"
      THEN \/ go' = [go EXCEPT !.posted = TRUE, !.carrier = FALSE] /\ UNCHANGED broker /\ NoFault
           \/ GoExits /\ Fault
      ELSE go' = [go EXCEPT !.posted = TRUE] /\ UNCHANGED broker /\ NoFault

\* The race: the completion wins unless the cancel has.
GoRace ==
    /\ go.alive
    /\ go.op # 0
    /\ go.done # "no"
    /\ ~go.posted
    /\ IF go.winner = "running"
         THEN go' = [go EXCEPT !.winner = "completion", !.posted = TRUE] /\ UNCHANGED broker /\ NoFault
         ELSE CancelCancellable
    /\ UNCHANGED <<launcher, app, toChild, fromChild>>

\* completeCancellable(): what a connect that was not cancelled has changed.
CompleteCancellable ==
    [go EXCEPT !.op = 0, !.posted = FALSE, !.done = "no",
               !.transport = go.transport \/ (/\ go.winner = "completion"
                                              /\ go.kind = "connect"
                                              /\ go.done = "ok")]

\* The serve loop takes the result; a cancel that came too late is answered
\* after it.
GoComplete ==
    /\ go.alive
    /\ go.posted
    /\ go' = CompleteCancellable
    /\ fromChild' = LET first == Answer(go.op, IF go.winner = "cancel" THEN "cancelled" ELSE go.done)
                    IN IF go.winner = "completion" /\ go.late # 0
                       THEN Append(first, [id |-> go.late, res |-> "late"]) ELSE first
    /\ UNCHANGED <<launcher, app, toChild, broker, faults>>

\* Nobody has the other end of the sidecar's input any more.
InputEnded == toChild = <<>> /\ ~rt.stdin /\ (proc.at = "launcher" => ~proc.open)

\* The sidecar has acknowledged a disconnect, reads the end of its input, is
\* killed, or crashes.
GoEnds ==
    /\ go.alive
    /\ IF InputEnded \/ go.killed \/ go.quit THEN NoFault ELSE Fault
    /\ GoExits
    /\ UNCHANGED <<launcher, app, toChild, fromChild>>
-----------------------------------------------------------------------------
(* The broker, as far as the handle meets it.                               *)

\* childExited(): a session no route holds is forgotten.
ChildExited ==
    /\ launcher = "broker"
    /\ broker.exitDue
    /\ broker' = [broker EXCEPT !.exitDue = FALSE, !.session = broker.session /\ broker.hold = "on"]
    /\ UNCHANGED <<launcher, app, toChild, fromChild, go, faults>>

\* The route helper takes its hold, and releases it.
RouteHold ==
    /\ launcher = "broker"
    /\ broker.session
    /\ \/ broker.hold = "never" /\ broker' = [broker EXCEPT !.hold = "on"]
       \/ broker.hold = "on" /\ broker' = [broker EXCEPT !.hold = "off"]
    /\ UNCHANGED <<launcher, app, toChild, fromChild, go, faults>>
-----------------------------------------------------------------------------
Calls == Start \/ StartRefused \/ Status \/ Stop \/ \E k \in Kinds : Request(k) \/ RequestPrecancelled(k)

Runtime ==
    \/ TerminateChild \/ ReapFirst \/ Kill \/ Poll
    \/ Handshake \/ AwaitExit
    \/ SendCancel \/ TimeOut \/ StreamEnds \/ Receive

Sidecar == GoBoot \/ GoReceive \/ GoBackendDone \/ GoRace \/ GoComplete

Next == Calls \/ SetCancel \/ Runtime \/ Sidecar \/ GoEnds \/ ChildExited \/ RouteHold

Spec == Init /\ [][Next]_vars

\* A deadline passes, and a call that is under way is scheduled; a child that
\* is killed or whose input has ended does end.
Fairness ==
    /\ WF_vars(Runtime)
    /\ WF_vars(GoEnds /\ faults' = faults)

FairSpec == Spec /\ Fairness
-----------------------------------------------------------------------------
Opts == {"none", "ok", "err", "cancelled", "accepted", "late", "garbage", "handshake"}

TypeOK ==
    /\ pc \in {"idle", "terminate", "reap", "kill", "poll", "handshake", "graceful", "wait"}
    /\ proc.at \in {"none", "launcher", "runtime"}
    /\ call.primary \in Opts /\ call.control \in Opts
    /\ \A i \in DOMAIN fromChild : fromChild[i].res \in Opts

\* Between calls a stream that is kept is empty in both directions and the
\* sidecar works on nothing: no answer of an earlier request, of a cancel that
\* came late included, can be taken for the answer of the next one.
StreamIsClean ==
    pc = "idle" /\ rt.records => toChild = <<>> /\ fromChild = <<>> /\ (go.alive => go.op = 0)

\* What a connect answers is what the sidecar's carrier is: connected after
\* an answer of success, as before after a refusal, a failure or a cancel.
ConnectAnswerIsTrue ==
    [][pc = "wait" /\ pc' = "idle" /\ call.kind = "connect" /\ go.alive =>
          go.carrier = (last'.result = "ok" \/ call.before)]_vars

\* The handle is let go of, or counts as reaped, only when the child is gone:
\* not on a failure of the transport and not for a session the broker forgot.
AbsenceIsProved == (proc.at = "none" /\ calls > 0) \/ proc.reaped => ~go.alive

\* Every call returns: no wait of the runtime is without a deadline.
CallsReturn == (pc # "idle") ~> (pc = "idle")

\* A stop leaves no child behind, whatever it answers, unless a route holds
\* the session or the broker could not be reached.
StopEndsTheChild ==
    (pc # "idle" /\ call.op = "stop") ~>
        (~go.alive \/ (launcher = "broker" /\ faults > 0) \/ broker.hold # "never")

\* What the runtime says of the child is so: an answer tells the carrier's state,
\* and a handle is let go of only when its process is gone (connect, try_wait).
AnswersAreTrue == [](TypeOK /\ AbsenceIsProved) /\ ConnectAnswerIsTrue

\* Every call of the runtime returns, and a stop ends the child.
CallsEnd == CallsReturn /\ StopEndsTheChild
=============================================================================
