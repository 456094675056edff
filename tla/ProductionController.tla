------------------------ MODULE ProductionController ------------------------
(***************************************************************************)
(* The actor of networking/production_controller.rs that owns the sidecar  *)
(* process, its command channel and its cancellation registry.             *)
(*                                                                         *)
(* The actor takes one command at a time, but a command waits: for the     *)
(* runtime to start, to answer a request or to stop.  While it waits,      *)
(* callers queue commands and set cancellation flags, and the child may    *)
(* die.  The runtime (AsyncProductionRuntime) is a boundary: start may     *)
(* fail before or after it has spawned a child, and only a stop that       *)
(* returns Ok has reaped it.                                               *)
(***************************************************************************)
EXTENDS Integers, Sequences, FiniteSets

CONSTANTS
    Ops,         \* operation ids
    Capacity,    \* COMMAND_CAPACITY of the channel
    MaxGen,      \* the largest runtime generation (u64::MAX)
    CrashLimit   \* crashes before CrashLoop (3)

ASSUME CapacityAssumption == Capacity \in Nat \ {0}
ASSUME GenAssumption == MaxGen \in Nat \ {0}
ASSUME CrashAssumption == CrashLimit \in Nat

VARIABLES
    bound,      \* ControllerMode::BrokerBound?
    consumed,   \* start_consumed of a broker-bound controller
    state,      \* SidecarLifecycleState
    crashes,    \* consecutive crashes
    gen,        \* runtime_generation
    absence,    \* Option<ControllerAbsenceKind>
    retired,
    queue,      \* the command channel
    cmd,        \* the command the actor is executing
    pc,         \* what the actor is waiting for
    cont,       \* why the runtime is being stopped
    regs,       \* the cancellation registry: operation id -> token, 0 if none
    cancelled,  \* tokens whose flag is set
    closed,     \* every handle is dropped
    alive,      \* sidecar processes that are running
    spawned,    \* history: a sidecar has existed
    claimed,    \* history: the broker-bound start receipt reached its caller
    restarts,   \* history: automatic restarts since the last proof of life
    receipt     \* the retirement receipt, once issued

vars == <<bound, consumed, state, crashes, gen, absence, retired, queue, cmd, pc, cont,
          regs, cancelled, closed, alive, spawned, claimed, restarts, receipt>>

lifecycle == <<bound, consumed, state, crashes, gen, absence, retired>>
process == <<alive, spawned>>
registry == <<regs, cancelled>>
history == <<claimed, restarts, receipt>>
-----------------------------------------------------------------------------
States == {"Stopped", "Starting", "Running", "Backoff", "CrashLoop"}
Absences == {"None", "NeverSpawned", "Reaped"}
Kinds == {"Start", "StartBound", "Poll", "Shutdown", "Retire"}
Tokens == 1..(Capacity + 1)

NoCmd == [kind |-> "None", op |-> "none", token |-> 0]
Command(k) == [kind |-> k, op |-> "none", token |-> 0]

\* ConnectTransport and SampleHealth can be cancelled, other requests cannot.
Request(o, k, can) == [kind |-> IF can THEN "Cancellable" ELSE "Request", op |-> o, token |-> k]
IsRequest(c) == c.kind \in {"Request", "Cancellable"}

LiveTokens == {queue[i].token : i \in 1..Len(queue)} \cup {cmd.token} \cup {regs[o] : o \in Ops}

NoReceipt == [gen |-> 0, absence |-> "None"]

\* A broker-bound controller is built around a child the broker prepared.
Init ==
    /\ bound \in BOOLEAN
    /\ consumed = FALSE
    /\ state = "Stopped"
    /\ crashes = 0
    /\ gen = 0
    /\ absence = IF bound THEN "None" ELSE "NeverSpawned"
    /\ retired = FALSE
    /\ queue = << >>
    /\ cmd = NoCmd
    /\ pc = "recv"
    /\ cont = "none"
    /\ regs = [o \in Ops |-> 0]
    /\ cancelled = {}
    /\ closed = FALSE
    /\ alive = IF bound THEN 1 ELSE 0
    /\ spawned = bound
    /\ claimed = FALSE
    /\ restarts = 0
    /\ receipt = NoReceipt
-----------------------------------------------------------------------------
(* The handle.  A sender waits for a free slot; request registers its token  *)
(* and sends in one step, and refuses an operation id that is in use.        *)
Send(k) ==
    /\ ~closed
    /\ Len(queue) < Capacity
    /\ queue' = Append(queue, Command(k))
    /\ UNCHANGED <<lifecycle, cmd, pc, cont, registry, closed, process, history>>

SendRequest(o, can) ==
    /\ ~closed
    /\ Len(queue) < Capacity
    /\ regs[o] = 0
    /\ \E k \in Tokens :
          /\ k \notin LiveTokens
          /\ \A j \in Tokens : j < k => j \in LiveTokens
          /\ regs' = [regs EXCEPT ![o] = k]
          /\ cancelled' = cancelled \ {k}
          /\ queue' = Append(queue, Request(o, k, can))
    /\ UNCHANGED <<lifecycle, cmd, pc, cont, closed, process, history>>

\* The registration says whether its request may be cancelled.
MayCancel(k) ==
    \E c \in {queue[i] : i \in 1..Len(queue)} \cup {cmd} : c.kind = "Cancellable" /\ c.token = k

Cancel(o) ==
    /\ ~closed
    /\ regs[o] # 0
    /\ MayCancel(regs[o])
    /\ cancelled' = cancelled \cup {regs[o]}
    /\ UNCHANGED <<lifecycle, queue, cmd, pc, cont, regs, closed, process, history>>

DropHandles ==
    /\ ~closed
    /\ closed' = TRUE
    /\ UNCHANGED <<lifecycle, queue, cmd, pc, cont, registry, process, history>>

ChildExits ==
    /\ alive > 0
    /\ alive' = alive - 1
    /\ UNCHANGED <<lifecycle, queue, cmd, pc, cont, registry, closed, spawned, history>>
-----------------------------------------------------------------------------
\* The actor answers the command in hand and waits for the next one.
Answer == pc' = "recv" /\ cmd' = NoCmd /\ cont' = "none"

Wait(where, why) == pc' = where /\ cont' = why

\* remove_cancellation removes only the registration of this very token.
\* Mutant: remove by operation id, whoever registered it.
Unregister_byId(c) ==
    /\ regs' = IF IsRequest(c) THEN [regs EXCEPT ![c.op] = 0] ELSE regs
    /\ cancelled' = cancelled \ {c.token}

Unregister(c) ==
    /\ regs' = IF IsRequest(c) /\ regs[c.op] = c.token
               THEN [regs EXCEPT ![c.op] = 0] ELSE regs
    /\ cancelled' = cancelled \ {c.token}

Receive(kinds) ==
    /\ pc = "recv"
    /\ queue # << >>
    /\ Head(queue).kind \in kinds
    /\ queue' = Tail(queue)

\* start, up to the call of the runtime; EnterStart is its precondition.
\* Mutant: a crashed controller may be started again.
MayStart_afterCrash ==
    /\ state \in {"Stopped", "CrashLoop"}
    /\ gen < MaxGen
    /\ bound => gen = 0 /\ absence = "None"

MayStart ==
    /\ state = "Stopped"
    /\ gen < MaxGen
    /\ bound => gen = 0 /\ absence = "None"

\* Mutant: the old proof of absence is kept while the next child starts.
EnterStart_keepsProof ==
    /\ gen' = gen + 1
    /\ absence' = absence
    /\ state' = "Starting"
    /\ Wait("start", "none")

EnterStart ==
    /\ gen' = gen + 1
    /\ absence' = "None"
    /\ state' = "Starting"
    /\ Wait("start", "none")

Start ==
    /\ Receive({"Start"})
    /\ \/ /\ ~retired /\ ~bound /\ MayStart
          /\ EnterStart
          /\ cmd' = Head(queue)
       \/ /\ retired \/ bound \/ ~MayStart
          /\ Answer
          /\ UNCHANGED <<gen, absence, state>>
    /\ UNCHANGED <<bound, consumed, crashes, retired, registry, closed, process, history>>

\* start_broker_bound consumes the one start right before it tries.
StartBound ==
    /\ Receive({"StartBound"})
    /\ consumed' = (consumed \/ (~retired /\ bound))
    /\ \/ /\ ~retired /\ bound /\ ~consumed /\ MayStart
          /\ EnterStart
          /\ cmd' = Head(queue)
       \/ /\ retired \/ ~bound \/ consumed \/ ~MayStart
          /\ Answer
          /\ UNCHANGED <<gen, absence, state>>
    /\ UNCHANGED <<bound, crashes, retired, registry, closed, process, history>>

(* runtime.start returns.  Reusable: it may have spawned a child or not,     *)
(* whatever it returns but Ok; broker-bound: it attaches to the prepared     *)
(* one.  A failure, a wrong handshake or a refused receipt stops the         *)
(* runtime; a success resets the crash count unless poll asked for it.       *)
StartReturns ==
    /\ pc = "start"
    /\ \/ /\ alive' = (IF bound THEN alive ELSE alive + 1)
          /\ state' = "Running"
          /\ crashes' = IF cmd.kind = "Poll" THEN crashes ELSE 0
          /\ restarts' = IF cmd.kind = "Poll" THEN restarts + 1 ELSE 0
          /\ \E gone \in BOOLEAN :
                /\ claimed' = (claimed \/ (bound /\ ~gone))
                /\ IF bound /\ gone THEN Wait("stop", "unclaimed") /\ UNCHANGED cmd
                                    ELSE Answer
       \/ /\ alive' \in IF bound THEN {alive} ELSE {alive, alive + 1}
          /\ Wait("stop", "startFailed")
          /\ UNCHANGED <<state, crashes, claimed, restarts, cmd>>
    /\ spawned' = (spawned \/ alive' > 0)
    /\ UNCHANGED <<bound, consumed, gen, absence, retired, queue, registry, closed, receipt>>

\* execute: a request runs only in Running.
Execute ==
    /\ Receive({"Request", "Cancellable"})
    /\ \/ /\ ~retired /\ state = "Running"
          /\ cmd' = Head(queue)
          /\ Wait("request", "none")
          /\ UNCHANGED registry
       \/ /\ retired \/ state # "Running"
          /\ Unregister(Head(queue))
          /\ Answer
    /\ UNCHANGED <<lifecycle, closed, process, history>>

\* Mutant: no timeout, so a dead sidecar is waited for.
RequestReturns_noTimeout ==
    /\ pc = "request"
    /\ alive > 0 \/ cmd.token \in cancelled
    /\ \/ /\ Unregister(cmd)
          /\ Answer
       \/ /\ cmd.token \in cancelled
          /\ Unregister(cmd)
          /\ Answer
       \/ /\ Wait("stop", "requestFailed")
          /\ UNCHANGED <<registry, cmd>>
    /\ UNCHANGED <<lifecycle, queue, closed, process, history>>

(* The answer of the runtime: a valid response, OperationCancelled (only for *)
(* a set flag), or a timeout, an error or a bad response, which stop it.     *)
RequestReturns ==
    /\ pc = "request"
    /\ \/ /\ Unregister(cmd)
          /\ Answer
       \/ /\ cmd.token \in cancelled
          /\ Unregister(cmd)
          /\ Answer
       \/ /\ Wait("stop", "requestFailed")
          /\ UNCHANGED <<registry, cmd>>
    /\ UNCHANGED <<lifecycle, queue, closed, process, history>>

\* poll in Backoff: when the retry deadline has passed, start again (which
\* fails, stopped, when the generation counter is exhausted).
PollBackoff ==
    /\ Receive({"Poll"})
    /\ ~retired /\ state = "Backoff"
    /\ \/ /\ gen < MaxGen
          /\ EnterStart
          /\ cmd' = Head(queue)
       \/ /\ gen = MaxGen
          /\ state' = "Stopped"
          /\ Answer
          /\ UNCHANGED <<gen, absence>>
       \/ Answer /\ UNCHANGED <<gen, absence, state>>
    /\ UNCHANGED <<bound, consumed, crashes, retired, registry, closed, process, history>>

\* poll in Running: the status is an error, Running, or Exited (and reaped).
PollRunning ==
    /\ Receive({"Poll"})
    /\ ~retired /\ state = "Running"
    /\ \/ /\ alive > 0
          /\ crashes' = 0 /\ absence' = "None" /\ restarts' = 0
          /\ Answer
          /\ UNCHANGED state
       \/ /\ alive = 0
          /\ absence' = "Reaped"
          /\ crashes' = IF bound THEN crashes ELSE crashes + 1
          /\ state' = IF bound \/ crashes + 1 > CrashLimit THEN "CrashLoop" ELSE "Backoff"
          /\ Answer
          /\ UNCHANGED restarts
       \/ /\ Wait("stop", "statusFailed")
          /\ cmd' = Head(queue)
          /\ UNCHANGED <<state, crashes, absence, restarts>>
    /\ UNCHANGED <<bound, consumed, gen, retired, registry, closed, process, claimed, receipt>>

PollOther ==
    /\ Receive({"Poll"})
    /\ retired \/ state \notin {"Backoff", "Running"}
    /\ Answer
    /\ UNCHANGED <<lifecycle, registry, closed, process, history>>

Shutdown ==
    /\ Receive({"Shutdown"})
    /\ \/ ~retired /\ Wait("stop", "shutdown") /\ cmd' = Head(queue)
       \/ retired /\ Answer
    /\ UNCHANGED <<lifecycle, registry, closed, process, history>>

\* retire needs a stopped sidecar and no registered request.
MayRetire == ~retired /\ state = "Stopped" /\ \A o \in Ops : regs[o] = 0

ReceiptAllowed(kind) ==
    IF bound THEN kind = "Reaped" ELSE (gen = 0) = (kind = "NeverSpawned")

FinishRetire(kind) ==
    /\ retired' = ReceiptAllowed(kind)
    /\ receipt' = IF ReceiptAllowed(kind) THEN [gen |-> gen, absence |-> kind] ELSE receipt

\* Mutant: the label Stopped is taken for a proof of absence.
Retire_byLabel ==
    /\ Receive({"Retire"})
    /\ \/ /\ ~MayRetire
          /\ Answer
          /\ UNCHANGED <<retired, receipt>>
       \/ /\ MayRetire /\ absence = "None"
          /\ retired' = TRUE
          /\ receipt' = [gen |-> gen, absence |-> "Reaped"]
          /\ Answer
       \/ /\ MayRetire /\ absence # "None"
          /\ FinishRetire(absence)
          /\ Answer
    /\ UNCHANGED <<bound, consumed, state, crashes, gen, absence, registry, closed, process,
                   claimed, restarts>>

Retire ==
    /\ Receive({"Retire"})
    /\ \/ /\ ~MayRetire
          /\ Answer
          /\ UNCHANGED <<retired, receipt>>
       \/ /\ MayRetire /\ absence = "None"
          /\ Wait("stop", "retire")
          /\ cmd' = Head(queue)
          /\ UNCHANGED <<retired, receipt>>
       \/ /\ MayRetire /\ absence # "None"
          /\ FinishRetire(absence)
          /\ Answer
    /\ UNCHANGED <<bound, consumed, state, crashes, gen, absence, registry, closed, process,
                   claimed, restarts>>

\* The handles are gone and the channel is empty: the last stop.
Finish ==
    /\ pc = "recv" /\ closed /\ queue = << >>
    /\ IF ~retired /\ (state # "Stopped" \/ absence = "None")
       THEN Wait("stop", "final") /\ UNCHANGED registry
       ELSE /\ pc' = "done" /\ UNCHANGED cont
            /\ regs' = [o \in Ops |-> 0] /\ UNCHANGED cancelled
    /\ UNCHANGED <<lifecycle, queue, cmd, closed, process, history>>

\* What the command that asked for the stop does after it.
AfterStop(ok, kind) ==
    /\ crashes' = IF cont = "shutdown" THEN 0 ELSE crashes
    /\ CASE cont \in {"shutdown", "final"} ->
              regs' = [o \in Ops |-> 0] /\ UNCHANGED cancelled
         [] OTHER -> Unregister(cmd)
    /\ IF cont = "retire" /\ ok THEN FinishRetire(kind) ELSE UNCHANGED <<retired, receipt>>
    /\ IF cont = "final" THEN pc' = "done" /\ UNCHANGED <<cmd, cont>> ELSE Answer

\* stop_runtime_bounded: Ok reaps; an error or a timeout proves nothing.
StopReturns ==
    /\ pc = "stop"
    /\ \/ /\ alive' = 0
          /\ absence' = IF gen = 0 /\ ~bound THEN "NeverSpawned" ELSE "Reaped"
          /\ state' = "Stopped"
          /\ AfterStop(TRUE, absence')
       \/ /\ alive' \in {0, alive}
          /\ absence' = "None"
          /\ state' = "CrashLoop"
          /\ AfterStop(FALSE, "None")
    /\ UNCHANGED <<bound, consumed, gen, queue, closed, spawned, claimed, restarts>>

Actor ==
    \/ Start \/ StartBound \/ StartReturns
    \/ Execute \/ RequestReturns
    \/ PollBackoff \/ PollRunning \/ PollOther
    \/ Shutdown \/ Retire \/ StopReturns \/ Finish

Next ==
    \/ \E k \in Kinds : Send(k)
    \/ \E o \in Ops, can \in BOOLEAN : SendRequest(o, can)
    \/ \E o \in Ops : Cancel(o)
    \/ DropHandles
    \/ ChildExits
    \/ Actor

(* The actor task is scheduled whenever it can run, and every wait on the    *)
(* runtime ends: the actor bounds requests and stops, and the stdio runtime  *)
(* has deadlines of its own for the handshake, requests and the stop.        *)
Spec == Init /\ [][Next]_vars
FairSpec == Spec /\ WF_vars(Actor)
-----------------------------------------------------------------------------
Commands ==
    {NoCmd} \cup {Command(k) : k \in Kinds}
      \cup {Request(o, k, can) : o \in Ops, k \in Tokens, can \in BOOLEAN}

\* Every variable has its type and the channel respects its capacity.
TypeOK ==
    /\ bound \in BOOLEAN /\ consumed \in BOOLEAN /\ retired \in BOOLEAN
    /\ closed \in BOOLEAN /\ spawned \in BOOLEAN /\ claimed \in BOOLEAN
    /\ state \in States
    /\ crashes \in 0..(CrashLimit + 1)
    /\ gen \in 0..MaxGen
    /\ absence \in Absences
    /\ queue \in Seq(Commands) /\ Len(queue) <= Capacity
    /\ cmd \in Commands
    /\ pc \in {"recv", "start", "request", "stop", "done"}
    /\ cont \in {"none", "unclaimed", "startFailed", "requestFailed", "statusFailed",
                 "shutdown", "retire", "final"}
    /\ regs \in [Ops -> Tokens \cup {0}]
    /\ cancelled \subseteq Tokens
    /\ alive \in Nat
    /\ restarts \in Nat
    /\ receipt \in [gen : 0..MaxGen, absence : Absences]

(* The sidecar is never started while one is running, in whatever order      *)
(* failed starts, failed stops, exits and restarts come (start requires      *)
(* Stopped, and Stopped is reached only through a proven reap).              *)
AtMostOneChild == alive <= 1

(* The absence proof is never a guess: while the controller records that no  *)
(* child exists, none does, and NeverSpawned means that none ever did.       *)
AbsenceIsTrue ==
    /\ absence # "None" => alive = 0
    /\ absence = "NeverSpawned" => ~spawned

(* A retirement receipt is final and true: from then on no child exists, and *)
(* no command of an old handle can change that.                              *)
RetiredForGood ==
    /\ retired => alive = 0 /\ receipt.absence # "None"
    /\ receipt.absence = "NeverSpawned" => ~spawned

(* A broker-bound sidecar that keeps running after its start has delivered   *)
(* the receipt that authorises its routes, and it is started at most once.   *)
BoundRunsClaimedOnce ==
    bound => /\ state = "Running" /\ cont # "unclaimed" => claimed
             /\ gen <= 1

(* Automatic restarts are bounded: after CrashLimit restarts with no poll    *)
(* that saw the child alive, the controller gives up in CrashLoop.           *)
RestartsAreBounded == restarts <= CrashLimit

(* A registration belongs to a request that is still queued or executing, so *)
(* that its operation id is freed and retirement is not blocked for ever;    *)
(* and no flag is set for a request that is not cancellable.                 *)
RegistryIsLive ==
    LET work == {queue[i] : i \in 1..Len(queue)} \cup {cmd}
    IN  /\ \A o \in Ops : regs[o] # 0 =>
              \E c \in work : IsRequest(c) /\ c.op = o /\ c.token = regs[o]
        /\ \A c \in work : c.kind = "Request" => c.token \notin cancelled

(* A registration disappears only with its own request, or when a shutdown   *)
(* or the end of the actor clears the registry: an operation id reused after *)
(* a shutdown keeps its registration when the old request is answered.       *)
OnlyItsOwnRegistration ==
    [][\A o \in Ops : regs[o] # 0 /\ regs'[o] # regs[o] =>
          \/ cont \in {"shutdown", "final"} \/ pc' = "done"
          \/ \E c \in {cmd} \cup {queue[i] : i \in 1..Len(queue)} :
                /\ c.token = regs[o]
                /\ c \notin {cmd'} \cup {queue'[i] : i \in 1..Len(queue')}]_vars

(* Once every handle is dropped the actor ends, having stopped the child or  *)
(* failed to.                                                                *)
DroppedHandlesEndTheActor ==
    closed ~> pc = "done" /\ (alive = 0 \/ state = "CrashLoop")

\* Every request is answered and its operation id becomes free again.
RequestsAreAnswered == \A o \in Ops : regs[o] # 0 ~> regs[o] = 0

(* The actor's books are right: a broker-bound child that runs was claimed   *)
(* once, automatic restarts are bounded, and the cancellation registry holds *)
(* the requests that are queued or executing and loses none of them          *)
(* (start_broker_bound, poll, register_cancellation, remove_cancellation).   *)
BooksAreExact ==
    /\ [](TypeOK /\ BoundRunsClaimedOnce /\ RestartsAreBounded /\ RegistryIsLive)
    /\ OnlyItsOwnRegistration

(* The actor answers every request it took, and ends when every handle is    *)
(* dropped (run, execute, stop_runtime_bounded).                             *)
ActorSettles == RequestsAreAnswered /\ DroppedHandlesEndTheActor
=============================================================================
