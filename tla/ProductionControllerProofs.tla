--------------------- MODULE ProductionControllerProofs ---------------------
(***************************************************************************)
(* Proofs about the controller actor, for every set of operations, channel *)
(* capacity, generation bound and crash limit.                             *)
(*                                                                         *)
(* The safety properties speak of the child; what protects them is the     *)
(* lifecycle label, and the induction needs both: what each label and each *)
(* wait of the actor says about the child and about the proof of absence.  *)
(***************************************************************************)
EXTENDS ProductionController, TLAPS

\* The parts of the state the argument is about.
Types ==
    /\ bound \in BOOLEAN /\ retired \in BOOLEAN /\ spawned \in BOOLEAN
    /\ state \in States
    /\ absence \in Absences
    /\ pc \in {"recv", "start", "request", "stop", "done"}
    /\ gen \in Nat /\ crashes \in Nat /\ restarts \in Nat
    /\ alive \in {0, 1}

\* What the recorded absence and the generation say about the child.
Absence ==
    /\ absence # "None" => alive = 0
    /\ absence = "NeverSpawned" => ~spawned
    /\ gen = 0 /\ ~bound => ~spawned

\* What the label says: a start is only entered with no child of its own.
Label ==
    /\ state = "Stopped" /\ ~bound => absence # "None"
    /\ state = "Backoff" => absence = "Reaped" /\ ~bound
    /\ pc = "start" =>
          state = "Starting" /\ absence = "None" /\ gen # 0 /\ (~bound => alive = 0)

\* Retirement: nothing is under way after it, and it is what issues receipts.
Retirement ==
    /\ retired => /\ state = "Stopped" /\ absence # "None" /\ pc \in {"recv", "done"}
                  /\ receipt.absence # "None"
    /\ receipt.absence # "None" => retired
    /\ receipt.absence = "NeverSpawned" => ~spawned

\* Broker-bound: the one generation, and a receipt claimed unless it is being stopped.
Bound ==
    /\ bound => gen <= 1
    /\ bound /\ state = "Running" /\ cont # "unclaimed" => claimed
    /\ cont = "unclaimed" => pc = "stop"

\* The crash count runs ahead of the restarts whenever a restart can follow.
Crashes ==
    /\ restarts <= CrashLimit
    /\ state = "Running" => restarts <= crashes /\ crashes <= CrashLimit
    /\ state = "Backoff" => restarts < crashes /\ crashes <= CrashLimit
    /\ pc = "start" /\ cmd.kind = "Poll" => restarts < crashes /\ crashes <= CrashLimit

IInv == Types /\ Absence /\ Label /\ Retirement /\ Bound /\ Crashes
-----------------------------------------------------------------------------
\* The actions of Next, one case each.
LEMMA NextCases ==
    ASSUME Next
    PROVE  \/ \E k \in Kinds : Send(k)
           \/ \E o \in Ops, can \in BOOLEAN : SendRequest(o, can)
           \/ \E o \in Ops : Cancel(o)
           \/ DropHandles \/ ChildExits
           \/ Start \/ StartBound \/ StartReturns \/ Execute \/ RequestReturns
           \/ PollBackoff \/ PollRunning \/ PollOther
           \/ Shutdown \/ Retire \/ StopReturns \/ Finish
BY DEF Next, Actor

\* The check of retire on the kind of absence is a Boolean.
LEMMA AllowedIsBoolean == \A kind : ReceiptAllowed(kind) \in BOOLEAN
BY Zenon DEF ReceiptAllowed

\* A spawned actor, in either mode, satisfies the invariant.
LEMMA InitInv == ASSUME Init PROVE IInv
<1> USE DEF Init
<1>1. Types /\ Absence
  <2>1. bound \in BOOLEAN
    OBVIOUS
  <2>2. CASE bound
    BY <2>1, <2>2 DEF Types, Absence, States, Absences
  <2>3. CASE ~bound
    BY <2>1, <2>3 DEF Types, Absence, States, Absences
  <2> QED BY <2>2, <2>3
<1>2. Label
  BY DEF Label
<1>3. Retirement
  BY DEF Retirement, NoReceipt
<1>4. Bound
  BY DEF Bound
<1>5. Crashes
  BY CrashAssumption DEF Crashes
<1> QED BY <1>1, <1>2, <1>3, <1>4, <1>5 DEF IInv

\* Steps that leave the lifecycle, the child and the wait of the actor alone.
LEMMA Quiet ==
    ASSUME IInv, UNCHANGED <<lifecycle, process, history, pc, cmd, cont>>
    PROVE  IInv'
BY DEF IInv, Types, Absence, Label, Retirement, Bound, Crashes, lifecycle, process, history

\* Steps that answer a command without touching the lifecycle or the child.
LEMMA Answered ==
    ASSUME IInv, UNCHANGED <<lifecycle, process, history>>, pc = "recv" \/ pc = "request", Answer
    PROVE  IInv'
BY DEF IInv, Types, Absence, Label, Retirement, Bound, Crashes, lifecycle, process, history,
       Answer, NoCmd

\* The child dies.
LEMMA ExitStep ==
    ASSUME IInv, ChildExits
    PROVE  IInv'
<1> USE DEF IInv, ChildExits, lifecycle, history
<1>1. Types'
  BY DEF Types, States, Absences
<1>2. Absence'
  BY DEF Types, Absence, Label
<1>3. Label'
  BY DEF Types, Absence, Label, Retirement
<1>4. Retirement'
  BY DEF Types, Absence, Label, Retirement
<1>5. Bound'
  BY DEF Types, Label, Bound
<1>6. Crashes'
  BY CrashAssumption DEF Types, Label, Crashes
<1> QED BY <1>1, <1>2, <1>3, <1>4, <1>5, <1>6 DEF IInv

\* A start is entered or refused.
LEMMA StartStep ==
    ASSUME IInv, Start
    PROVE  IInv'
<1> USE DEF IInv, Start, Receive, MayStart, EnterStart, Wait, Answer, NoCmd, process, history
<1>1. Types'
  BY DEF Types, States, Absences
<1>2. Absence'
  BY DEF Types, Absence, Label
<1>3. Label'
  BY DEF Types, Absence, Label, Retirement
<1>4. Retirement'
  BY DEF Types, Absence, Label, Retirement
<1>5. Bound'
  BY DEF Types, Label, Bound
<1>6. Crashes'
  BY CrashAssumption DEF Types, Label, Crashes
<1> QED BY <1>1, <1>2, <1>3, <1>4, <1>5, <1>6 DEF IInv

\* The one start of a broker-bound controller.
LEMMA StartBoundStep ==
    ASSUME IInv, StartBound
    PROVE  IInv'
<1> USE DEF IInv, StartBound, Receive, MayStart, EnterStart, Wait, Answer, NoCmd, process, history
<1>1. Types'
  BY DEF Types, States, Absences
<1>2. Absence'
  BY DEF Types, Absence, Label
<1>3. Label'
  BY DEF Types, Absence, Label, Retirement
<1>4. Retirement'
  BY DEF Types, Absence, Label, Retirement
<1>5. Bound'
  BY DEF Types, Label, Bound
<1>6. Crashes'
  BY CrashAssumption DEF Types, Label, Crashes
<1> QED BY <1>1, <1>2, <1>3, <1>4, <1>5, <1>6 DEF IInv

\* The runtime's start returns.
LEMMA StartReturnsStep ==
    ASSUME IInv, StartReturns
    PROVE  IInv'
<1> USE DEF IInv, StartReturns, Wait, Answer, NoCmd
<1>1. Types'
  <2>1. alive' \in {0, 1}
    BY DEF Types, Label
  <2>2. spawned' \in BOOLEAN
    BY Zenon
  <2>3. crashes' \in Nat /\ restarts' \in Nat
    BY DEF Types
  <2> QED BY <2>1, <2>2, <2>3 DEF Types, States
<1>2. Absence'
  BY DEF Types, Absence, Label
<1>3. Label'
  BY DEF Types, Absence, Label, Retirement
<1>4. Retirement'
  BY DEF Types, Absence, Label, Retirement
<1>5. Bound'
  BY DEF Types, Label, Bound
<1>6. Crashes'
  BY CrashAssumption DEF Types, Label, Crashes
<1> QED BY <1>1, <1>2, <1>3, <1>4, <1>5, <1>6 DEF IInv

\* A request is taken up or refused.
LEMMA ExecuteStep ==
    ASSUME IInv, Execute
    PROVE  IInv'
<1> USE DEF IInv, Execute, Receive, Wait, Answer, NoCmd, lifecycle, process, history
<1>1. Types'
  BY DEF Types, States, Absences
<1>2. Absence'
  BY DEF Types, Absence, Label
<1>3. Label'
  BY DEF Types, Absence, Label, Retirement
<1>4. Retirement'
  BY DEF Types, Absence, Label, Retirement
<1>5. Bound'
  BY DEF Types, Label, Bound
<1>6. Crashes'
  BY CrashAssumption DEF Types, Label, Crashes
<1> QED BY <1>1, <1>2, <1>3, <1>4, <1>5, <1>6 DEF IInv

\* A request is answered or fails.
LEMMA RequestStep ==
    ASSUME IInv, RequestReturns
    PROVE  IInv'
<1> USE DEF IInv, RequestReturns, Wait, Answer, NoCmd, lifecycle, process, history
<1>1. Types'
  BY DEF Types, States, Absences
<1>2. Absence'
  BY DEF Types, Absence, Label
<1>3. Label'
  BY DEF Types, Absence, Label, Retirement
<1>4. Retirement'
  BY DEF Types, Absence, Label, Retirement
<1>5. Bound'
  BY DEF Types, Label, Bound
<1>6. Crashes'
  BY CrashAssumption DEF Types, Label, Crashes
<1> QED BY <1>1, <1>2, <1>3, <1>4, <1>5, <1>6 DEF IInv

\* A poll in Backoff.
LEMMA BackoffStep ==
    ASSUME IInv, PollBackoff
    PROVE  IInv'
<1> USE DEF IInv, PollBackoff, Receive, EnterStart, Wait, Answer, NoCmd, process, history
<1>1. Types'
  BY DEF Types, States, Absences
<1>2. Absence'
  BY DEF Types, Absence, Label
<1>3. Label'
  BY DEF Types, Absence, Label, Retirement
<1>4. Retirement'
  BY DEF Types, Absence, Label, Retirement
<1>5. Bound'
  BY DEF Types, Label, Bound
<1>6. Crashes'
  BY CrashAssumption DEF Types, Label, Crashes
<1> QED BY <1>1, <1>2, <1>3, <1>4, <1>5, <1>6 DEF IInv

\* A poll in Running.
LEMMA PollStep ==
    ASSUME IInv, PollRunning
    PROVE  IInv'
<1> USE DEF IInv, PollRunning, Receive, Wait, Answer, NoCmd, process
<1>1. Types'
  BY DEF Types, States, Absences
<1>2. Absence'
  BY DEF Types, Absence, Label
<1>3. Label'
  BY DEF Types, Absence, Label, Retirement
<1>4. Retirement'
  BY DEF Types, Absence, Label, Retirement
<1>5. Bound'
  BY DEF Types, Label, Bound
<1>6. Crashes'
  BY CrashAssumption DEF Types, Label, Crashes
<1> QED BY <1>1, <1>2, <1>3, <1>4, <1>5, <1>6 DEF IInv

\* A shutdown begins or is refused.
LEMMA ShutdownStep ==
    ASSUME IInv, Shutdown
    PROVE  IInv'
<1> USE DEF IInv, Shutdown, Receive, Wait, Answer, NoCmd, lifecycle, process, history
<1>1. Types'
  BY DEF Types, States, Absences
<1>2. Absence'
  BY DEF Types, Absence, Label
<1>3. Label'
  BY DEF Types, Absence, Label, Retirement
<1>4. Retirement'
  BY DEF Types, Absence, Label, Retirement
<1>5. Bound'
  BY DEF Types, Label, Bound
<1>6. Crashes'
  BY CrashAssumption DEF Types, Label, Crashes
<1> QED BY <1>1, <1>2, <1>3, <1>4, <1>5, <1>6 DEF IInv

\* A retirement.
LEMMA RetireStep ==
    ASSUME IInv, Retire
    PROVE  IInv'
<1> USE DEF IInv, Retire, Receive, Wait, Answer, NoCmd, MayRetire, FinishRetire, process
<1>1. Types'
  <2>1. retired' \in BOOLEAN
    BY AllowedIsBoolean, Zenon DEF Types
  <2> QED BY <2>1 DEF Types
<1>2. Absence'
  BY DEF Types, Absence, Label
<1>3. Label'
  BY DEF Types, Absence, Label, Retirement
<1>4. Retirement'
  BY DEF Types, Absence, Label, Retirement
<1>5. Bound'
  BY DEF Types, Label, Bound
<1>6. Crashes'
  BY CrashAssumption DEF Types, Label, Crashes
<1> QED BY <1>1, <1>2, <1>3, <1>4, <1>5, <1>6 DEF IInv

\* The handles are gone.
LEMMA FinishStep ==
    ASSUME IInv, Finish
    PROVE  IInv'
<1> USE DEF IInv, Finish, Wait, lifecycle, process, history
<1>1. Types'
  BY DEF Types, States, Absences
<1>2. Absence'
  BY DEF Types, Absence, Label
<1>3. Label'
  BY DEF Types, Absence, Label, Retirement
<1>4. Retirement'
  BY DEF Types, Absence, Label, Retirement
<1>5. Bound'
  BY DEF Types, Label, Bound
<1>6. Crashes'
  BY CrashAssumption DEF Types, Label, Crashes
<1> QED BY <1>1, <1>2, <1>3, <1>4, <1>5, <1>6 DEF IInv

\* The runtime's stop returns.
LEMMA StopStep ==
    ASSUME IInv, StopReturns
    PROVE  IInv'
<1> USE DEF IInv, StopReturns, AfterStop, FinishRetire, Answer, NoCmd
<1>1. Types'
  <2>1. retired' \in BOOLEAN
    BY AllowedIsBoolean, Zenon DEF Types
  <2>2. absence' \in Absences /\ state' \in States
    BY DEF Absences, States
  <2>3. alive' \in {0, 1} /\ crashes' \in Nat
    BY DEF Types
  <2> QED BY <2>1, <2>2, <2>3 DEF Types
<1>2. Absence'
  BY DEF Types, Absence, Label
<1>3. Label'
  BY DEF Types, Absence, Label, Retirement
<1>4. Retirement'
  BY DEF Types, Absence, Label, Retirement
<1>5. Bound'
  BY DEF Types, Label, Bound
<1>6. Crashes'
  BY CrashAssumption DEF Types, Label, Crashes
<1> QED BY <1>1, <1>2, <1>3, <1>4, <1>5, <1>6 DEF IInv

\* The invariant is inductive.
LEMMA InvStep == ASSUME IInv, [Next]_vars PROVE IInv'
<1>1. CASE UNCHANGED vars
  BY <1>1, Quiet DEF vars, lifecycle, process, history
<1>2. CASE Next
  <2>1. CASE \E k \in Kinds : Send(k)
    BY <2>1, Quiet DEF Send
  <2>2. CASE \E o \in Ops, can \in BOOLEAN : SendRequest(o, can)
    BY <2>2, Quiet DEF SendRequest
  <2>3. CASE \E o \in Ops : Cancel(o)
    BY <2>3, Quiet DEF Cancel
  <2>4. CASE DropHandles
    BY <2>4, Quiet DEF DropHandles
  <2>5. CASE PollOther
    BY <2>5, Answered DEF PollOther, Receive
  <2> QED BY <1>2, <2>1, <2>2, <2>3, <2>4, <2>5, NextCases, ExitStep, StartStep, StartBoundStep,
             StartReturnsStep, ExecuteStep, RequestStep, BackoffStep, PollStep, ShutdownStep,
             RetireStep, FinishStep, StopStep
<1> QED BY <1>1, <1>2

(* The inductive invariant holds in every state of the actor: each command   *)
(* and each return of the runtime keeps label, proof, process and counters   *)
(* in step.                                                                  *)
THEOREM Invariance == Spec => []IInv
<1>1. Init => IInv
  BY InitInv
<1>2. IInv /\ [Next]_vars => IInv'
  BY InvStep
<1> QED BY <1>1, <1>2, PTL DEF Spec

(* The sidecar is never started beside another one, however starts, stops,   *)
(* exits, restarts and retirements are interleaved.                          *)
THEOREM OneChild == Spec => []AtMostOneChild
<1>1. IInv => AtMostOneChild
  BY DEF IInv, Types, AtMostOneChild
<1> QED BY <1>1, Invariance, PTL

(* The recorded proof of absence (NeverSpawned, Reaped) is true.             *)
THEOREM AbsenceProof == Spec => []AbsenceIsTrue
<1>1. IInv => AbsenceIsTrue
  BY DEF IInv, Absence, AbsenceIsTrue
<1> QED BY <1>1, Invariance, PTL

(* After a retirement receipt no child exists, ever.                         *)
THEOREM Retired == Spec => []RetiredForGood
<1>1. IInv => RetiredForGood
  BY DEF IInv, Absence, Retirement, RetiredForGood
<1> QED BY <1>1, Invariance, PTL

(* A broker-bound sidecar runs in one generation and only with its receipt   *)
(* claimed.                                                                  *)
THEOREM BoundOnce == Spec => []BoundRunsClaimedOnce
<1>1. IInv => BoundRunsClaimedOnce
  BY DEF IInv, Bound, BoundRunsClaimedOnce
<1> QED BY <1>1, Invariance, PTL

(* Restarts without a sign of life never exceed the crash limit.             *)
THEOREM BoundedRestarts == Spec => []RestartsAreBounded
<1>1. IInv => RestartsAreBounded
  BY DEF IInv, Crashes, RestartsAreBounded
<1> QED BY <1>1, Invariance, PTL
-----------------------------------------------------------------------------
\* The commands in flight carry distinct tickets: each registered request of
\* the channel, and the one in hand, has a token of its own.
Tickets ==
    /\ \A i, j \in 1..Len(queue) :
          queue[i].token # 0 /\ queue[i].token = queue[j].token => i = j
    /\ \A i \in 1..Len(queue) : cmd.token # 0 => queue[i].token # cmd.token

\* The actor has a command in hand only while it waits for the runtime: no
\* request while it waits for a start, none at all in the last stop.
InHand ==
    /\ pc \in {"recv", "done"} => cmd = NoCmd
    /\ pc = "start" => ~IsRequest(cmd)
    /\ pc = "stop" /\ cont = "final" => cmd = NoCmd

\* What a command carries.
LEMMA CommandFacts ==
    /\ NoCmd \in Commands /\ ~IsRequest(NoCmd) /\ NoCmd.token = 0
    /\ \A k \in Kinds : Command(k) \in Commands /\ ~IsRequest(Command(k)) /\ Command(k).token = 0
    /\ \A o \in Ops, k \in Tokens, can \in BOOLEAN :
          LET r == Request(o, k, can)
          IN  r \in Commands /\ IsRequest(r) /\ r.op = o /\ r.token = k
    /\ \A c \in Commands : /\ c.token \in Tokens \cup {0}
                           /\ IsRequest(c) => c.op \in Ops /\ c.token \in Tokens
                           /\ ~IsRequest(c) => c.token = 0
                           /\ c.kind = "Request" => IsRequest(c)
                           /\ c.kind = "Cancellable" => IsRequest(c)
<1>0. \A o \in Ops, k \in Tokens, can \in BOOLEAN : Request(o, k, can) \in Commands
  BY DEF Commands
<1> USE DEF NoCmd, Command, Request, IsRequest, Kinds
<1>1. NoCmd \in Commands /\ ~IsRequest(NoCmd) /\ NoCmd.token = 0
  BY DEF Commands
<1>2. ASSUME NEW k \in Kinds
      PROVE  Command(k) \in Commands /\ ~IsRequest(Command(k)) /\ Command(k).token = 0
  BY DEF Commands
<1>3. ASSUME NEW o \in Ops, NEW k \in Tokens, NEW can \in BOOLEAN
      PROVE  LET r == Request(o, k, can)
             IN  r \in Commands /\ IsRequest(r) /\ r.op = o /\ r.token = k
  BY <1>0
<1>4. ASSUME NEW c \in Commands
      PROVE  /\ c.token \in Tokens \cup {0}
             /\ IsRequest(c) => c.op \in Ops /\ c.token \in Tokens
             /\ ~IsRequest(c) => c.token = 0
             /\ c.kind = "Request" => IsRequest(c)
             /\ c.kind = "Cancellable" => IsRequest(c)
  <2>1. CASE c = NoCmd
    BY <2>1
  <2>2. CASE \E k \in Kinds : c = Command(k)
    BY <2>2
  <2>3. CASE \E o \in Ops, k \in Tokens, can \in BOOLEAN : c = Request(o, k, can)
    BY <2>3
  <2> QED BY <2>1, <2>2, <2>3 DEF Commands
<1> QED BY <1>1, <1>2, <1>3, <1>4

\* Appending to the channel and taking its head, by position.
LEMMA AppendFacts ==
    ASSUME NEW S, NEW q \in Seq(S), NEW x \in S
    PROVE  /\ Append(q, x) \in Seq(S) /\ Len(Append(q, x)) = Len(q) + 1
           /\ \A i \in 1..Len(q) : Append(q, x)[i] = q[i]
           /\ Append(q, x)[Len(q) + 1] = x
OBVIOUS

LEMMA TailFacts ==
    ASSUME NEW S, NEW q \in Seq(S), q # << >>
    PROVE  /\ Tail(q) \in Seq(S) /\ Len(Tail(q)) = Len(q) - 1 /\ Len(q) \in Nat \ {0}
           /\ \A i \in 1..(Len(q) - 1) : Tail(q)[i] = q[i + 1]
           /\ Head(q) = q[1] /\ q[1] \in S
OBVIOUS

\* The registry after an answer.
LEMMA UnregisterTypes ==
    ASSUME NEW c \in Commands, regs \in [Ops -> Tokens \cup {0}], cancelled \subseteq Tokens,
           Unregister(c)
    PROVE  /\ regs' \in [Ops -> Tokens \cup {0}] /\ cancelled' \subseteq Tokens
           /\ \A o \in Ops :
                 LET mine == IsRequest(c) /\ c.op = o /\ regs[o] = c.token
                 IN  regs'[o] = IF mine THEN 0 ELSE regs[o]
<1>1. IsRequest(c) => c.op \in Ops
  BY CommandFacts
<1>2. CASE IsRequest(c) /\ regs[c.op] = c.token
  BY <1>1, <1>2 DEF Unregister, IsRequest
<1>3. CASE ~(IsRequest(c) /\ regs[c.op] = c.token)
  BY <1>3 DEF Unregister, IsRequest
<1> QED BY <1>2, <1>3

\* The parts of TypeOK that the invariant of the child does not speak of.
LEMMA TypeStep == ASSUME IInv, TypeOK, [Next]_vars PROVE TypeOK'
<1>a. IInv'
  BY InvStep
<1> USE DEF TypeOK
<1>1. ASSUME NEW k \in Kinds, Send(k)
      PROVE  TypeOK'
  <2>1. queue' \in Seq(Commands) /\ Len(queue') <= Capacity /\ cmd' \in Commands
    BY <1>1, CommandFacts, CapacityAssumption, AppendFacts DEF Send, lifecycle, process, registry, history
  <2>2. regs' \in [Ops -> Tokens \cup {0}] /\ cancelled' \subseteq Tokens
    BY <1>1, UnregisterTypes DEF Send, lifecycle, process, registry, history
  <2>3. crashes' \in 0..(CrashLimit + 1) /\ gen' \in 0..MaxGen
    BY <1>1, CrashAssumption, GenAssumption DEF Send, lifecycle, process, registry, history, IInv, Types, Crashes
  <2>4. /\ bound' \in BOOLEAN /\ consumed' \in BOOLEAN /\ closed' \in BOOLEAN
        /\ claimed' \in BOOLEAN
    BY <1>1, Zenon DEF Send, lifecycle, process, registry, history
  <2>5. /\ cont' \in {"none", "unclaimed", "startFailed", "requestFailed", "statusFailed",
                      "shutdown", "retire", "final"}
    BY <1>1 DEF Send, lifecycle, process, registry, history
  <2>6. receipt' \in [gen : 0..MaxGen, absence : Absences]
    BY <1>1 DEF Send, lifecycle, process, registry, history, Absences
  <2> QED BY <1>a, <2>1, <2>2, <2>3, <2>4, <2>5, <2>6 DEF IInv, Types
<1>2. ASSUME NEW o \in Ops, NEW can \in BOOLEAN, SendRequest(o, can)
      PROVE  TypeOK'
  <2>1. queue' \in Seq(Commands) /\ Len(queue') <= Capacity /\ cmd' \in Commands
    BY <1>2, CommandFacts, CapacityAssumption, AppendFacts DEF SendRequest, lifecycle, process, history
  <2>2. regs' \in [Ops -> Tokens \cup {0}] /\ cancelled' \subseteq Tokens
    BY <1>2, UnregisterTypes DEF SendRequest, lifecycle, process, history
  <2>3. crashes' \in 0..(CrashLimit + 1) /\ gen' \in 0..MaxGen
    BY <1>2, CrashAssumption, GenAssumption DEF SendRequest, lifecycle, process, history, IInv, Types, Crashes
  <2>4. /\ bound' \in BOOLEAN /\ consumed' \in BOOLEAN /\ closed' \in BOOLEAN
        /\ claimed' \in BOOLEAN
    BY <1>2, Zenon DEF SendRequest, lifecycle, process, history
  <2>5. /\ cont' \in {"none", "unclaimed", "startFailed", "requestFailed", "statusFailed",
                      "shutdown", "retire", "final"}
    BY <1>2 DEF SendRequest, lifecycle, process, history
  <2>6. receipt' \in [gen : 0..MaxGen, absence : Absences]
    BY <1>2 DEF SendRequest, lifecycle, process, history, Absences
  <2> QED BY <1>a, <2>1, <2>2, <2>3, <2>4, <2>5, <2>6 DEF IInv, Types
<1>3. ASSUME NEW o \in Ops, Cancel(o)
      PROVE  TypeOK'
  <2>1. queue' \in Seq(Commands) /\ Len(queue') <= Capacity /\ cmd' \in Commands
    BY <1>3, CommandFacts, CapacityAssumption DEF Cancel, lifecycle, process, history
  <2>2. regs' \in [Ops -> Tokens \cup {0}] /\ cancelled' \subseteq Tokens
    BY <1>3, UnregisterTypes DEF Cancel, lifecycle, process, history
  <2>3. crashes' \in 0..(CrashLimit + 1) /\ gen' \in 0..MaxGen
    BY <1>3, CrashAssumption, GenAssumption DEF Cancel, lifecycle, process, history, IInv, Types, Crashes
  <2>4. /\ bound' \in BOOLEAN /\ consumed' \in BOOLEAN /\ closed' \in BOOLEAN
        /\ claimed' \in BOOLEAN
    BY <1>3, Zenon DEF Cancel, lifecycle, process, history
  <2>5. /\ cont' \in {"none", "unclaimed", "startFailed", "requestFailed", "statusFailed",
                      "shutdown", "retire", "final"}
    BY <1>3 DEF Cancel, lifecycle, process, history
  <2>6. receipt' \in [gen : 0..MaxGen, absence : Absences]
    BY <1>3 DEF Cancel, lifecycle, process, history, Absences
  <2> QED BY <1>a, <2>1, <2>2, <2>3, <2>4, <2>5, <2>6 DEF IInv, Types
<1>4. CASE DropHandles
  <2>1. queue' \in Seq(Commands) /\ Len(queue') <= Capacity /\ cmd' \in Commands
    BY <1>4, CommandFacts, CapacityAssumption DEF DropHandles, lifecycle, process, registry, history
  <2>2. regs' \in [Ops -> Tokens \cup {0}] /\ cancelled' \subseteq Tokens
    BY <1>4, UnregisterTypes DEF DropHandles, lifecycle, process, registry, history
  <2>3. crashes' \in 0..(CrashLimit + 1) /\ gen' \in 0..MaxGen
    BY <1>4, CrashAssumption, GenAssumption DEF DropHandles, lifecycle, process, registry, history, IInv, Types, Crashes
  <2>4. /\ bound' \in BOOLEAN /\ consumed' \in BOOLEAN /\ closed' \in BOOLEAN
        /\ claimed' \in BOOLEAN
    BY <1>4, Zenon DEF DropHandles, lifecycle, process, registry, history
  <2>5. /\ cont' \in {"none", "unclaimed", "startFailed", "requestFailed", "statusFailed",
                      "shutdown", "retire", "final"}
    BY <1>4 DEF DropHandles, lifecycle, process, registry, history
  <2>6. receipt' \in [gen : 0..MaxGen, absence : Absences]
    BY <1>4 DEF DropHandles, lifecycle, process, registry, history, Absences
  <2> QED BY <1>a, <2>1, <2>2, <2>3, <2>4, <2>5, <2>6 DEF IInv, Types
<1>5. CASE ChildExits
  <2>1. queue' \in Seq(Commands) /\ Len(queue') <= Capacity /\ cmd' \in Commands
    BY <1>5, CommandFacts, CapacityAssumption DEF ChildExits, lifecycle, registry, history
  <2>2. regs' \in [Ops -> Tokens \cup {0}] /\ cancelled' \subseteq Tokens
    BY <1>5, UnregisterTypes DEF ChildExits, lifecycle, registry, history
  <2>3. crashes' \in 0..(CrashLimit + 1) /\ gen' \in 0..MaxGen
    BY <1>5, CrashAssumption, GenAssumption DEF ChildExits, lifecycle, registry, history, IInv, Types, Crashes
  <2>4. /\ bound' \in BOOLEAN /\ consumed' \in BOOLEAN /\ closed' \in BOOLEAN
        /\ claimed' \in BOOLEAN
    BY <1>5, Zenon DEF ChildExits, lifecycle, registry, history
  <2>5. /\ cont' \in {"none", "unclaimed", "startFailed", "requestFailed", "statusFailed",
                      "shutdown", "retire", "final"}
    BY <1>5 DEF ChildExits, lifecycle, registry, history
  <2>6. receipt' \in [gen : 0..MaxGen, absence : Absences]
    BY <1>5 DEF ChildExits, lifecycle, registry, history, Absences
  <2> QED BY <1>a, <2>1, <2>2, <2>3, <2>4, <2>5, <2>6 DEF IInv, Types
<1>6. CASE Start
  <2>1. queue' \in Seq(Commands) /\ Len(queue') <= Capacity /\ cmd' \in Commands
    BY <1>6, CommandFacts, CapacityAssumption, TailFacts DEF Start, Receive, MayStart, EnterStart, Wait, Answer, registry, process, history
  <2>2. regs' \in [Ops -> Tokens \cup {0}] /\ cancelled' \subseteq Tokens
    BY <1>6, UnregisterTypes, TailFacts DEF Start, Receive, MayStart, EnterStart, Wait, Answer, registry, process, history
  <2>3. crashes' \in 0..(CrashLimit + 1) /\ gen' \in 0..MaxGen
    BY <1>6, CrashAssumption, GenAssumption DEF Start, Receive, MayStart, EnterStart, Wait, Answer, registry, process, history, IInv, Types, Crashes
  <2>4. /\ bound' \in BOOLEAN /\ consumed' \in BOOLEAN /\ closed' \in BOOLEAN
        /\ claimed' \in BOOLEAN
    BY <1>6, Zenon DEF Start, Receive, MayStart, EnterStart, Wait, Answer, registry, process, history
  <2>5. /\ cont' \in {"none", "unclaimed", "startFailed", "requestFailed", "statusFailed",
                      "shutdown", "retire", "final"}
    BY <1>6 DEF Start, Receive, MayStart, EnterStart, Wait, Answer, registry, process, history
  <2>6. receipt' \in [gen : 0..MaxGen, absence : Absences]
    BY <1>6 DEF Start, Receive, MayStart, EnterStart, Wait, Answer, registry, process, history, Absences
  <2> QED BY <1>a, <2>1, <2>2, <2>3, <2>4, <2>5, <2>6 DEF IInv, Types
<1>7. CASE StartBound
  <2>1. queue' \in Seq(Commands) /\ Len(queue') <= Capacity /\ cmd' \in Commands
    BY <1>7, CommandFacts, CapacityAssumption, TailFacts DEF StartBound, Receive, MayStart, EnterStart, Wait, Answer, registry, process, history
  <2>2. regs' \in [Ops -> Tokens \cup {0}] /\ cancelled' \subseteq Tokens
    BY <1>7, UnregisterTypes, TailFacts DEF StartBound, Receive, MayStart, EnterStart, Wait, Answer, registry, process, history
  <2>3. crashes' \in 0..(CrashLimit + 1) /\ gen' \in 0..MaxGen
    BY <1>7, CrashAssumption, GenAssumption DEF StartBound, Receive, MayStart, EnterStart, Wait, Answer, registry, process, history, IInv, Types, Crashes
  <2>4. /\ bound' \in BOOLEAN /\ consumed' \in BOOLEAN /\ closed' \in BOOLEAN
        /\ claimed' \in BOOLEAN
    BY <1>7, Zenon DEF StartBound, Receive, MayStart, EnterStart, Wait, Answer, registry, process, history
  <2>5. /\ cont' \in {"none", "unclaimed", "startFailed", "requestFailed", "statusFailed",
                      "shutdown", "retire", "final"}
    BY <1>7 DEF StartBound, Receive, MayStart, EnterStart, Wait, Answer, registry, process, history
  <2>6. receipt' \in [gen : 0..MaxGen, absence : Absences]
    BY <1>7 DEF StartBound, Receive, MayStart, EnterStart, Wait, Answer, registry, process, history, Absences
  <2> QED BY <1>a, <2>1, <2>2, <2>3, <2>4, <2>5, <2>6 DEF IInv, Types
<1>8. CASE StartReturns
  <2>1. queue' \in Seq(Commands) /\ Len(queue') <= Capacity /\ cmd' \in Commands
    BY <1>8, CommandFacts, CapacityAssumption DEF StartReturns, Wait, Answer, registry
  <2>2. regs' \in [Ops -> Tokens \cup {0}] /\ cancelled' \subseteq Tokens
    BY <1>8, UnregisterTypes DEF StartReturns, Wait, Answer, registry
  <2>3. crashes' \in 0..(CrashLimit + 1) /\ gen' \in 0..MaxGen
    BY <1>8, CrashAssumption, GenAssumption DEF StartReturns, Wait, Answer, registry, IInv, Types, Crashes
  <2>4. /\ bound' \in BOOLEAN /\ consumed' \in BOOLEAN /\ closed' \in BOOLEAN
        /\ claimed' \in BOOLEAN
    BY <1>8, Zenon DEF StartReturns, Wait, Answer, registry
  <2>5. /\ cont' \in {"none", "unclaimed", "startFailed", "requestFailed", "statusFailed",
                      "shutdown", "retire", "final"}
    BY <1>8 DEF StartReturns, Wait, Answer, registry
  <2>6. receipt' \in [gen : 0..MaxGen, absence : Absences]
    BY <1>8 DEF StartReturns, Wait, Answer, registry, Absences
  <2> QED BY <1>a, <2>1, <2>2, <2>3, <2>4, <2>5, <2>6 DEF IInv, Types
<1>9. CASE Execute
  <2>1. queue' \in Seq(Commands) /\ Len(queue') <= Capacity /\ cmd' \in Commands
    BY <1>9, CommandFacts, CapacityAssumption, TailFacts DEF Execute, Receive, Wait, Answer, lifecycle, registry, process, history
  <2>2. regs' \in [Ops -> Tokens \cup {0}] /\ cancelled' \subseteq Tokens
    BY <1>9, UnregisterTypes, TailFacts DEF Execute, Receive, Wait, Answer, lifecycle, registry, process, history
  <2>3. crashes' \in 0..(CrashLimit + 1) /\ gen' \in 0..MaxGen
    BY <1>9, CrashAssumption, GenAssumption DEF Execute, Receive, Wait, Answer, lifecycle, registry, process, history, IInv, Types, Crashes
  <2>4. /\ bound' \in BOOLEAN /\ consumed' \in BOOLEAN /\ closed' \in BOOLEAN
        /\ claimed' \in BOOLEAN
    BY <1>9, Zenon DEF Execute, Receive, Wait, Answer, lifecycle, registry, process, history
  <2>5. /\ cont' \in {"none", "unclaimed", "startFailed", "requestFailed", "statusFailed",
                      "shutdown", "retire", "final"}
    BY <1>9 DEF Execute, Receive, Wait, Answer, lifecycle, registry, process, history
  <2>6. receipt' \in [gen : 0..MaxGen, absence : Absences]
    BY <1>9 DEF Execute, Receive, Wait, Answer, lifecycle, registry, process, history, Absences
  <2> QED BY <1>a, <2>1, <2>2, <2>3, <2>4, <2>5, <2>6 DEF IInv, Types
<1>10. CASE RequestReturns
  <2>1. queue' \in Seq(Commands) /\ Len(queue') <= Capacity /\ cmd' \in Commands
    BY <1>10, CommandFacts, CapacityAssumption DEF RequestReturns, Wait, Answer, lifecycle, registry, process, history
  <2>2. regs' \in [Ops -> Tokens \cup {0}] /\ cancelled' \subseteq Tokens
    BY <1>10, UnregisterTypes DEF RequestReturns, Wait, Answer, lifecycle, registry, process, history
  <2>3. crashes' \in 0..(CrashLimit + 1) /\ gen' \in 0..MaxGen
    BY <1>10, CrashAssumption, GenAssumption DEF RequestReturns, Wait, Answer, lifecycle, registry, process, history, IInv, Types, Crashes
  <2>4. /\ bound' \in BOOLEAN /\ consumed' \in BOOLEAN /\ closed' \in BOOLEAN
        /\ claimed' \in BOOLEAN
    BY <1>10, Zenon DEF RequestReturns, Wait, Answer, lifecycle, registry, process, history
  <2>5. /\ cont' \in {"none", "unclaimed", "startFailed", "requestFailed", "statusFailed",
                      "shutdown", "retire", "final"}
    BY <1>10 DEF RequestReturns, Wait, Answer, lifecycle, registry, process, history
  <2>6. receipt' \in [gen : 0..MaxGen, absence : Absences]
    BY <1>10 DEF RequestReturns, Wait, Answer, lifecycle, registry, process, history, Absences
  <2> QED BY <1>a, <2>1, <2>2, <2>3, <2>4, <2>5, <2>6 DEF IInv, Types
<1>11. CASE PollBackoff
  <2>1. queue' \in Seq(Commands) /\ Len(queue') <= Capacity /\ cmd' \in Commands
    BY <1>11, CommandFacts, CapacityAssumption, TailFacts DEF PollBackoff, Receive, EnterStart, Wait, Answer, registry, process, history
  <2>2. regs' \in [Ops -> Tokens \cup {0}] /\ cancelled' \subseteq Tokens
    BY <1>11, UnregisterTypes, TailFacts DEF PollBackoff, Receive, EnterStart, Wait, Answer, registry, process, history
  <2>3. crashes' \in 0..(CrashLimit + 1) /\ gen' \in 0..MaxGen
    BY <1>11, CrashAssumption, GenAssumption DEF PollBackoff, Receive, EnterStart, Wait, Answer, registry, process, history, IInv, Types, Crashes
  <2>4. /\ bound' \in BOOLEAN /\ consumed' \in BOOLEAN /\ closed' \in BOOLEAN
        /\ claimed' \in BOOLEAN
    BY <1>11, Zenon DEF PollBackoff, Receive, EnterStart, Wait, Answer, registry, process, history
  <2>5. /\ cont' \in {"none", "unclaimed", "startFailed", "requestFailed", "statusFailed",
                      "shutdown", "retire", "final"}
    BY <1>11 DEF PollBackoff, Receive, EnterStart, Wait, Answer, registry, process, history
  <2>6. receipt' \in [gen : 0..MaxGen, absence : Absences]
    BY <1>11 DEF PollBackoff, Receive, EnterStart, Wait, Answer, registry, process, history, Absences
  <2> QED BY <1>a, <2>1, <2>2, <2>3, <2>4, <2>5, <2>6 DEF IInv, Types
<1>12. CASE PollRunning
  <2>1. queue' \in Seq(Commands) /\ Len(queue') <= Capacity /\ cmd' \in Commands
    BY <1>12, CommandFacts, CapacityAssumption, TailFacts DEF PollRunning, Receive, Wait, Answer, registry, process
  <2>2. regs' \in [Ops -> Tokens \cup {0}] /\ cancelled' \subseteq Tokens
    BY <1>12, UnregisterTypes, TailFacts DEF PollRunning, Receive, Wait, Answer, registry, process
  <2>3. crashes' \in 0..(CrashLimit + 1) /\ gen' \in 0..MaxGen
    BY <1>12, CrashAssumption, GenAssumption DEF PollRunning, Receive, Wait, Answer, registry, process, IInv, Types, Crashes
  <2>4. /\ bound' \in BOOLEAN /\ consumed' \in BOOLEAN /\ closed' \in BOOLEAN
        /\ claimed' \in BOOLEAN
    BY <1>12, Zenon DEF PollRunning, Receive, Wait, Answer, registry, process
  <2>5. /\ cont' \in {"none", "unclaimed", "startFailed", "requestFailed", "statusFailed",
                      "shutdown", "retire", "final"}
    BY <1>12 DEF PollRunning, Receive, Wait, Answer, registry, process
  <2>6. receipt' \in [gen : 0..MaxGen, absence : Absences]
    BY <1>12 DEF PollRunning, Receive, Wait, Answer, registry, process, Absences
  <2> QED BY <1>a, <2>1, <2>2, <2>3, <2>4, <2>5, <2>6 DEF IInv, Types
<1>13. CASE PollOther
  <2>1. queue' \in Seq(Commands) /\ Len(queue') <= Capacity /\ cmd' \in Commands
    BY <1>13, CommandFacts, CapacityAssumption, TailFacts DEF PollOther, Receive, Answer, lifecycle, registry, process, history
  <2>2. regs' \in [Ops -> Tokens \cup {0}] /\ cancelled' \subseteq Tokens
    BY <1>13, UnregisterTypes, TailFacts DEF PollOther, Receive, Answer, lifecycle, registry, process, history
  <2>3. crashes' \in 0..(CrashLimit + 1) /\ gen' \in 0..MaxGen
    BY <1>13, CrashAssumption, GenAssumption DEF PollOther, Receive, Answer, lifecycle, registry, process, history, IInv, Types, Crashes
  <2>4. /\ bound' \in BOOLEAN /\ consumed' \in BOOLEAN /\ closed' \in BOOLEAN
        /\ claimed' \in BOOLEAN
    BY <1>13, Zenon DEF PollOther, Receive, Answer, lifecycle, registry, process, history
  <2>5. /\ cont' \in {"none", "unclaimed", "startFailed", "requestFailed", "statusFailed",
                      "shutdown", "retire", "final"}
    BY <1>13 DEF PollOther, Receive, Answer, lifecycle, registry, process, history
  <2>6. receipt' \in [gen : 0..MaxGen, absence : Absences]
    BY <1>13 DEF PollOther, Receive, Answer, lifecycle, registry, process, history, Absences
  <2> QED BY <1>a, <2>1, <2>2, <2>3, <2>4, <2>5, <2>6 DEF IInv, Types
<1>14. CASE Shutdown
  <2>1. queue' \in Seq(Commands) /\ Len(queue') <= Capacity /\ cmd' \in Commands
    BY <1>14, CommandFacts, CapacityAssumption, TailFacts DEF Shutdown, Receive, Wait, Answer, lifecycle, registry, process, history
  <2>2. regs' \in [Ops -> Tokens \cup {0}] /\ cancelled' \subseteq Tokens
    BY <1>14, UnregisterTypes, TailFacts DEF Shutdown, Receive, Wait, Answer, lifecycle, registry, process, history
  <2>3. crashes' \in 0..(CrashLimit + 1) /\ gen' \in 0..MaxGen
    BY <1>14, CrashAssumption, GenAssumption DEF Shutdown, Receive, Wait, Answer, lifecycle, registry, process, history, IInv, Types, Crashes
  <2>4. /\ bound' \in BOOLEAN /\ consumed' \in BOOLEAN /\ closed' \in BOOLEAN
        /\ claimed' \in BOOLEAN
    BY <1>14, Zenon DEF Shutdown, Receive, Wait, Answer, lifecycle, registry, process, history
  <2>5. /\ cont' \in {"none", "unclaimed", "startFailed", "requestFailed", "statusFailed",
                      "shutdown", "retire", "final"}
    BY <1>14 DEF Shutdown, Receive, Wait, Answer, lifecycle, registry, process, history
  <2>6. receipt' \in [gen : 0..MaxGen, absence : Absences]
    BY <1>14 DEF Shutdown, Receive, Wait, Answer, lifecycle, registry, process, history, Absences
  <2> QED BY <1>a, <2>1, <2>2, <2>3, <2>4, <2>5, <2>6 DEF IInv, Types
<1>15. CASE Retire
  <2>1. queue' \in Seq(Commands) /\ Len(queue') <= Capacity /\ cmd' \in Commands
    BY <1>15, CommandFacts, CapacityAssumption, TailFacts DEF Retire, Receive, Wait, Answer, FinishRetire, registry, process
  <2>2. regs' \in [Ops -> Tokens \cup {0}] /\ cancelled' \subseteq Tokens
    BY <1>15, UnregisterTypes, TailFacts DEF Retire, Receive, Wait, Answer, FinishRetire, registry, process
  <2>3. crashes' \in 0..(CrashLimit + 1) /\ gen' \in 0..MaxGen
    BY <1>15, CrashAssumption, GenAssumption DEF Retire, Receive, Wait, Answer, FinishRetire, registry, process, IInv, Types, Crashes
  <2>4. /\ bound' \in BOOLEAN /\ consumed' \in BOOLEAN /\ closed' \in BOOLEAN
        /\ claimed' \in BOOLEAN
    BY <1>15, Zenon DEF Retire, Receive, Wait, Answer, FinishRetire, registry, process
  <2>5. /\ cont' \in {"none", "unclaimed", "startFailed", "requestFailed", "statusFailed",
                      "shutdown", "retire", "final"}
    BY <1>15 DEF Retire, Receive, Wait, Answer, FinishRetire, registry, process
  <2>6. receipt' \in [gen : 0..MaxGen, absence : Absences]
    BY <1>15 DEF Retire, Receive, Wait, Answer, FinishRetire, registry, process, Absences
  <2> QED BY <1>a, <2>1, <2>2, <2>3, <2>4, <2>5, <2>6 DEF IInv, Types
<1>16. CASE StopReturns
  <2>1. queue' \in Seq(Commands) /\ Len(queue') <= Capacity /\ cmd' \in Commands
    BY <1>16, CommandFacts, CapacityAssumption DEF StopReturns, AfterStop, Answer, FinishRetire
  <2>2. regs' \in [Ops -> Tokens \cup {0}] /\ cancelled' \subseteq Tokens
    BY <1>16, UnregisterTypes DEF StopReturns, AfterStop, Answer, FinishRetire
  <2>3. crashes' \in 0..(CrashLimit + 1) /\ gen' \in 0..MaxGen
    BY <1>16, CrashAssumption, GenAssumption DEF StopReturns, AfterStop, Answer, FinishRetire, IInv, Types, Crashes
  <2>4. /\ bound' \in BOOLEAN /\ consumed' \in BOOLEAN /\ closed' \in BOOLEAN
        /\ claimed' \in BOOLEAN
    BY <1>16, Zenon DEF StopReturns, AfterStop, Answer, FinishRetire
  <2>5. /\ cont' \in {"none", "unclaimed", "startFailed", "requestFailed", "statusFailed",
                      "shutdown", "retire", "final"}
    BY <1>16 DEF StopReturns, AfterStop, Answer, FinishRetire
  <2>6. receipt' \in [gen : 0..MaxGen, absence : Absences]
    BY <1>16 DEF StopReturns, AfterStop, Answer, FinishRetire, Absences
  <2> QED BY <1>a, <2>1, <2>2, <2>3, <2>4, <2>5, <2>6 DEF IInv, Types
<1>17. CASE Finish
  <2>1. queue' \in Seq(Commands) /\ Len(queue') <= Capacity /\ cmd' \in Commands
    BY <1>17, CommandFacts, CapacityAssumption DEF Finish, Wait, lifecycle, registry, process, history
  <2>2. regs' \in [Ops -> Tokens \cup {0}] /\ cancelled' \subseteq Tokens
    BY <1>17, UnregisterTypes DEF Finish, Wait, lifecycle, registry, process, history
  <2>3. crashes' \in 0..(CrashLimit + 1) /\ gen' \in 0..MaxGen
    BY <1>17, CrashAssumption, GenAssumption DEF Finish, Wait, lifecycle, registry, process, history, IInv, Types, Crashes
  <2>4. /\ bound' \in BOOLEAN /\ consumed' \in BOOLEAN /\ closed' \in BOOLEAN
        /\ claimed' \in BOOLEAN
    BY <1>17, Zenon DEF Finish, Wait, lifecycle, registry, process, history
  <2>5. /\ cont' \in {"none", "unclaimed", "startFailed", "requestFailed", "statusFailed",
                      "shutdown", "retire", "final"}
    BY <1>17 DEF Finish, Wait, lifecycle, registry, process, history
  <2>6. receipt' \in [gen : 0..MaxGen, absence : Absences]
    BY <1>17 DEF Finish, Wait, lifecycle, registry, process, history, Absences
  <2> QED BY <1>a, <2>1, <2>2, <2>3, <2>4, <2>5, <2>6 DEF IInv, Types
<1>18. CASE UNCHANGED vars
  BY <1>18 DEF vars
<1> HIDE DEF TypeOK
<1> QED BY <1>1, <1>2, <1>3, <1>4, <1>5, <1>6, <1>7, <1>8, <1>9, <1>10, <1>11, <1>12, <1>13, <1>14, <1>15, <1>16, <1>17, <1>18, NextCases
-----------------------------------------------------------------------------
\* The commands that are queued or in hand, and what changes with one of them.
Work == {queue[i] : i \in 1..Len(queue)} \cup {cmd}

OwnRegistration ==
    \A o \in Ops : regs[o] # 0 /\ regs'[o] # regs[o] =>
        \/ cont \in {"shutdown", "final"} \/ pc' = "done"
        \/ \E c \in {cmd} \cup {queue[i] : i \in 1..Len(queue)} :
              /\ c.token = regs[o]
              /\ c \notin {cmd'} \cup {queue'[i] : i \in 1..Len(queue')}

Registry == Tickets /\ RegistryIsLive

\* Neither the channel nor the command in hand nor the registry changes.
LEMMA Untouched ==
    ASSUME Registry, UNCHANGED <<queue, cmd, regs, cancelled>>
    PROVE  Registry' /\ OwnRegistration
BY DEF Registry, Tickets, RegistryIsLive, OwnRegistration

\* A command is queued; a request with a token no other command has.
LEMMA Queued ==
    ASSUME TypeOK, Registry, NEW c \in Commands, queue' = Append(queue, c), UNCHANGED cmd,
           \/ UNCHANGED <<regs, cancelled>> /\ ~IsRequest(c)
           \/ /\ IsRequest(c) /\ c.token \notin LiveTokens /\ regs[c.op] = 0
              /\ regs' = [regs EXCEPT ![c.op] = c.token]
              /\ cancelled' = cancelled \ {c.token}
    PROVE  Registry' /\ OwnRegistration
<1>1. /\ queue \in Seq(Commands) /\ cmd \in Commands /\ regs \in [Ops -> Tokens \cup {0}]
      /\ Len(queue) \in Nat
  BY DEF TypeOK
<1>2. /\ Len(queue') = Len(queue) + 1 /\ queue'[Len(queue) + 1] = c
      /\ \A i \in 1..Len(queue) : queue'[i] = queue[i]
  BY <1>1, AppendFacts
<1>3. \A i \in 1..Len(queue') : i \in 1..Len(queue) \/ i = Len(queue) + 1
  BY <1>1, <1>2
<1>4. {queue'[i] : i \in 1..Len(queue')} = {queue[i] : i \in 1..Len(queue)} \cup {c}
  <2>1. \A i \in 1..Len(queue) : i \in 1..Len(queue')
    BY <1>1, <1>2
  <2>2. Len(queue) + 1 \in 1..Len(queue')
    BY <1>1, <1>2
  <2> QED BY <1>2, <1>3, <2>1, <2>2
<1>5. c.token # 0 => /\ c.token # cmd.token
                     /\ \A i \in 1..Len(queue) : queue[i].token # c.token
  BY CommandFacts DEF LiveTokens
<1>6. Tickets'
  <2>1. ASSUME NEW i \in 1..Len(queue'), NEW j \in 1..Len(queue'),
               queue'[i].token # 0, queue'[i].token = queue'[j].token
        PROVE  i = j
    BY <1>2, <1>3, <1>5, <2>1 DEF Registry, Tickets
  <2>2. ASSUME NEW i \in 1..Len(queue'), cmd'.token # 0
        PROVE  queue'[i].token # cmd'.token
    BY <1>2, <1>3, <1>5, <2>2 DEF Registry, Tickets
  <2> QED BY <2>1, <2>2 DEF Tickets
<1>7. RegistryIsLive'
  <2>1. IsRequest(c) => c.op \in Ops
    BY CommandFacts
  <2>2. ASSUME NEW o \in Ops, regs'[o] # 0
        PROVE  \E d \in Work \cup {c} : IsRequest(d) /\ d.op = o /\ d.token = regs'[o]
    <3>1. CASE IsRequest(c) /\ o = c.op
      BY <1>1, <3>1
    <3>2. CASE ~(IsRequest(c) /\ o = c.op)
      <4>1. regs'[o] = regs[o]
        BY <1>1, <2>1, <3>2
      <4> QED BY <2>2, <4>1 DEF Registry, RegistryIsLive, Work
    <3> QED BY <3>1, <3>2
  <2>3. ASSUME NEW d \in Work \cup {c}, d.kind = "Request"
        PROVE  d.token \notin cancelled'
    <3>1. cancelled' \subseteq cancelled
      OBVIOUS
    <3>2. CASE d = c
      BY <2>3, <3>2 DEF IsRequest
    <3>3. CASE d \in Work
      BY <2>3, <3>1, <3>3 DEF Registry, RegistryIsLive, Work
    <3> QED BY <3>2, <3>3
  <2> QED BY <1>4, <2>2, <2>3 DEF RegistryIsLive, Work
<1>8. OwnRegistration
  BY <1>1, CommandFacts DEF OwnRegistration
<1> QED BY <1>6, <1>7, <1>8 DEF Registry

\* A flag is set for a registered request that may be cancelled.
LEMMA Flagged ==
    ASSUME TypeOK, Registry, NEW o \in Ops, Cancel(o)
    PROVE  Registry' /\ OwnRegistration
<1>1. UNCHANGED <<queue, cmd, regs>> /\ cancelled' = cancelled \cup {regs[o]} /\ regs[o] # 0
  BY DEF Cancel
<1>2. PICK d \in Work : d.kind = "Cancellable" /\ d.token = regs[o]
  BY DEF Cancel, MayCancel, Work
<1>3. ASSUME NEW e \in Work, e.kind = "Request" PROVE e.token # regs[o]
  BY <1>1, <1>2, <1>3 DEF Registry, Tickets, Work
<1> QED BY <1>1, <1>3 DEF Registry, Tickets, RegistryIsLive, OwnRegistration, Work

\* The head of the channel leaves it: into the actor's hand, or answered.
LEMMA HeadTaken ==
    ASSUME TypeOK, Registry, queue # << >>, queue' = Tail(queue), cmd = NoCmd,
           \/ cmd' = Head(queue) /\ UNCHANGED <<regs, cancelled>>
           \/ /\ cmd' = NoCmd
              /\ \/ UNCHANGED <<regs, cancelled>> /\ ~IsRequest(Head(queue))
                 \/ Unregister(Head(queue))
    PROVE  Registry' /\ OwnRegistration
<1> DEFINE h == Head(queue)
<1>1. /\ queue \in Seq(Commands) /\ regs \in [Ops -> Tokens \cup {0}] /\ cancelled \subseteq Tokens
  BY DEF TypeOK
<1>2. /\ Len(queue) \in Nat \ {0} /\ Len(queue') = Len(queue) - 1
      /\ \A i \in 1..(Len(queue) - 1) : queue'[i] = queue[i + 1]
      /\ h = queue[1] /\ h \in Commands
  BY <1>1, TailFacts
<1>3. \A i \in 1..Len(queue') : i + 1 \in 1..Len(queue) /\ i + 1 # 1 /\ queue'[i] = queue[i + 1]
  BY <1>2
<1>4. \A i \in 1..Len(queue) : i = 1 \/ (i - 1 \in 1..Len(queue') /\ queue'[i - 1] = queue[i])
  BY <1>2
<1>5. /\ {queue[i] : i \in 1..Len(queue)} = {queue'[i] : i \in 1..Len(queue')} \cup {h}
      /\ 1 \in 1..Len(queue)
  BY <1>2, <1>3, <1>4
<1>6. h.token # 0 => \A i \in 1..Len(queue') : queue'[i].token # h.token
  BY <1>2, <1>3, <1>5 DEF Registry, Tickets
<1>7. Tickets'
  <2>1. ASSUME NEW i \in 1..Len(queue'), NEW j \in 1..Len(queue'),
               queue'[i].token # 0, queue'[i].token = queue'[j].token
        PROVE  i = j
    <3>1. i + 1 = j + 1
      BY <1>3, <2>1 DEF Registry, Tickets
    <3> QED BY <1>2, <3>1
  <2>2. ASSUME NEW i \in 1..Len(queue'), cmd'.token # 0
        PROVE  queue'[i].token # cmd'.token
    BY <1>6, <2>2, CommandFacts
  <2> QED BY <2>1, <2>2 DEF Tickets
<1>8. CASE cmd' = h /\ UNCHANGED <<regs, cancelled>>
  <2>1. Work = Work' \cup {NoCmd}
    BY <1>5, <1>8 DEF Work
  <2>2. RegistryIsLive'
    <3>1. ASSUME NEW o \in Ops, regs'[o] # 0
          PROVE  \E d \in Work' : IsRequest(d) /\ d.op = o /\ d.token = regs'[o]
      BY <1>8, <2>1, <3>1, CommandFacts DEF Registry, RegistryIsLive, Work
    <3>2. ASSUME NEW d \in Work', d.kind = "Request"
          PROVE  d.token \notin cancelled'
      BY <1>8, <2>1, <3>2 DEF Registry, RegistryIsLive, Work
    <3> QED BY <3>1, <3>2 DEF RegistryIsLive, Work
  <2> QED BY <1>7, <1>8, <2>2 DEF Registry, OwnRegistration
<1>9. CASE cmd' = NoCmd /\ UNCHANGED <<regs, cancelled>> /\ ~IsRequest(h)
  <2>1. Work = Work' \cup {h}
    BY <1>5, <1>9 DEF Work
  <2>2. RegistryIsLive'
    <3>1. ASSUME NEW o \in Ops, regs'[o] # 0
          PROVE  \E d \in Work' : IsRequest(d) /\ d.op = o /\ d.token = regs'[o]
      BY <1>9, <2>1, <3>1, CommandFacts DEF Registry, RegistryIsLive, Work
    <3>2. ASSUME NEW d \in Work', d.kind = "Request"
          PROVE  d.token \notin cancelled'
      BY <1>9, <2>1, <3>2 DEF Registry, RegistryIsLive, Work
    <3> QED BY <3>1, <3>2 DEF RegistryIsLive, Work
  <2> QED BY <1>7, <1>9, <2>2 DEF Registry, OwnRegistration
<1>10. CASE cmd' = NoCmd /\ Unregister(h)
  <2>1. Work = Work' \cup {h}
    BY <1>5, <1>10 DEF Work
  <2>2. /\ cancelled' \subseteq cancelled
        /\ \A o \in Ops : LET mine == IsRequest(h) /\ h.op = o /\ regs[o] = h.token
                          IN  regs'[o] = IF mine THEN 0 ELSE regs[o]
    BY <1>1, <1>2, <1>10, UnregisterTypes DEF Unregister
  <2>3. RegistryIsLive'
    <3>1. ASSUME NEW o \in Ops, regs'[o] # 0
          PROVE  \E d \in Work' : IsRequest(d) /\ d.op = o /\ d.token = regs'[o]
      <4>1. regs'[o] = regs[o] /\ ~(IsRequest(h) /\ h.op = o /\ regs[o] = h.token)
        BY <2>2, <3>1
      <4>2. PICK d \in Work : IsRequest(d) /\ d.op = o /\ d.token = regs[o]
        BY <3>1, <4>1 DEF Registry, RegistryIsLive, Work
      <4> QED BY <2>1, <4>1, <4>2
    <3>2. ASSUME NEW d \in Work', d.kind = "Request"
          PROVE  d.token \notin cancelled'
      BY <2>1, <2>2, <3>2 DEF Registry, RegistryIsLive, Work
    <3> QED BY <3>1, <3>2 DEF RegistryIsLive, Work
  <2>4. OwnRegistration
    <3>1. ASSUME NEW o \in Ops, regs[o] # 0, regs'[o] # regs[o]
          PROVE  h.token = regs[o] /\ h \notin {cmd'} \cup {queue'[i] : i \in 1..Len(queue')}
      <4>1. h.token = regs[o] /\ h.token # 0
        BY <2>2, <3>1
      <4> QED BY <1>6, <1>10, <4>1, CommandFacts
    <3> QED BY <1>2, <1>5, <3>1 DEF OwnRegistration
  <2> QED BY <1>7, <2>3, <2>4 DEF Registry
<1> QED BY <1>8, <1>9, <1>10

\* The command in hand is answered.
LEMMA HandEmptied ==
    ASSUME TypeOK, Registry, UNCHANGED queue, cmd' = NoCmd,
           \/ UNCHANGED <<regs, cancelled>> /\ ~IsRequest(cmd)
           \/ Unregister(cmd)
    PROVE  Registry' /\ OwnRegistration
<1>1. /\ cmd \in Commands /\ regs \in [Ops -> Tokens \cup {0}] /\ cancelled \subseteq Tokens
  BY DEF TypeOK
<1>2. Tickets'
  BY CommandFacts DEF Registry, Tickets
<1>3. Work' \cup {cmd} = Work \cup {NoCmd} /\ NoCmd.kind # "Request"
  BY DEF Work, NoCmd
<1>4. /\ cancelled' \subseteq cancelled
      /\ \A o \in Ops : LET mine == IsRequest(cmd) /\ cmd.op = o /\ regs[o] = cmd.token
                        IN  regs'[o] = IF mine THEN 0 ELSE regs[o]
  BY <1>1, UnregisterTypes DEF Unregister
<1>5. RegistryIsLive'
  <2>1. ASSUME NEW o \in Ops, regs'[o] # 0
        PROVE  \E d \in Work' : IsRequest(d) /\ d.op = o /\ d.token = regs'[o]
    <3>1. regs'[o] = regs[o] /\ ~(IsRequest(cmd) /\ cmd.op = o /\ regs[o] = cmd.token)
      BY <1>4, <2>1
    <3>2. PICK d \in Work : IsRequest(d) /\ d.op = o /\ d.token = regs[o]
      BY <2>1, <3>1 DEF Registry, RegistryIsLive, Work
    <3> QED BY <3>1, <3>2 DEF Work
  <2>2. ASSUME NEW d \in Work', d.kind = "Request"
        PROVE  d.token \notin cancelled'
    BY <1>3, <1>4, <2>2 DEF Registry, RegistryIsLive, Work
  <2> QED BY <2>1, <2>2 DEF RegistryIsLive, Work
<1>6. OwnRegistration
  <2>1. ASSUME NEW o \in Ops, regs[o] # 0, regs'[o] # regs[o]
        PROVE  cmd.token = regs[o] /\ cmd \notin {cmd'} \cup {queue'[i] : i \in 1..Len(queue')}
    <3>1. cmd.token = regs[o] /\ cmd.token # 0
      BY <1>4, <2>1
    <3> QED BY <3>1, CommandFacts DEF Registry, Tickets
  <2> QED BY <2>1 DEF OwnRegistration
<1> QED BY <1>2, <1>5, <1>6 DEF Registry

\* A shutdown, or the end of the actor, empties the registry.
LEMMA RegistryCleared ==
    ASSUME TypeOK, Registry, UNCHANGED <<queue, cancelled>>, cmd' \in {cmd, NoCmd},
           regs' = [o \in Ops |-> 0], cont \in {"shutdown", "final"} \/ pc' = "done"
    PROVE  Registry' /\ OwnRegistration
<1>1. Tickets'
  BY CommandFacts DEF Registry, Tickets
<1>2. RegistryIsLive' /\ OwnRegistration
  BY DEF Registry, RegistryIsLive, OwnRegistration, NoCmd
<1> QED BY <1>1, <1>2 DEF Registry

\* Every step keeps the registry in step with the commands in flight.
LEMMA RegistryStep ==
    ASSUME IInv, TypeOK, InHand, Registry, [Next]_vars
    PROVE  InHand' /\ Registry' /\ OwnRegistration
<1> DEFINE Goal == InHand' /\ Registry' /\ OwnRegistration
<1>1. ASSUME NEW k \in Kinds, Send(k) PROVE Goal
  <2>1. InHand'
    BY <1>1 DEF Send, InHand
  <2> QED BY <1>1, <2>1, Queued, CommandFacts DEF Send, registry
<1>2. ASSUME NEW o \in Ops, NEW can \in BOOLEAN, SendRequest(o, can) PROVE Goal
  <2>1. InHand'
    BY <1>2 DEF SendRequest, InHand
  <2>2. PICK k \in Tokens : /\ k \notin LiveTokens
                           /\ regs' = [regs EXCEPT ![o] = k]
                           /\ cancelled' = cancelled \ {k}
                           /\ queue' = Append(queue, Request(o, k, can))
    BY <1>2 DEF SendRequest
  <2>3. regs[o] = 0 /\ UNCHANGED cmd
    BY <1>2 DEF SendRequest
  <2>4. LET r == Request(o, k, can)
        IN  r \in Commands /\ IsRequest(r) /\ r.op = o /\ r.token = k
    BY CommandFacts
  <2> HIDE DEF Goal
  <2>5. Registry' /\ OwnRegistration
    BY <2>2, <2>3, <2>4, Queued
  <2> QED BY <2>1, <2>5 DEF Goal
<1>3. ASSUME NEW o \in Ops, Cancel(o) PROVE Goal
  <2>1. InHand'
    BY <1>3 DEF Cancel, InHand
  <2> QED BY <1>3, <2>1, Flagged
<1>4. CASE DropHandles \/ ChildExits
  BY <1>4, Untouched DEF DropHandles, ChildExits, registry, InHand
<1>5. CASE \/ Start \/ StartBound \/ PollBackoff \/ PollRunning \/ PollOther
           \/ Shutdown \/ Retire
  <2>1. /\ pc = "recv" /\ queue # << >> /\ queue' = Tail(queue) /\ UNCHANGED <<regs, cancelled>>
        /\ Head(queue).kind \in Kinds /\ cont' # "final"
        /\ \/ cmd' = Head(queue) /\ pc' \in {"start", "stop"}
           \/ cmd' = NoCmd /\ pc' = "recv"
    BY <1>5
       DEF Start, StartBound, PollBackoff, PollRunning, PollOther, Shutdown, Retire, Receive,
           Wait, Answer, EnterStart, registry, Kinds
  <2>2. cmd = NoCmd /\ ~IsRequest(Head(queue))
    BY <2>1 DEF InHand, IsRequest, Kinds
  <2>3. InHand'
    BY <2>1, <2>2 DEF InHand
  <2> QED BY <2>1, <2>2, <2>3, HeadTaken
<1>6. CASE StartReturns
  <2>1. /\ pc = "start" /\ UNCHANGED <<queue, regs, cancelled>> /\ cont' # "final"
        /\ \/ cmd' = NoCmd /\ pc' = "recv"
           \/ cmd' = cmd /\ pc' = "stop"
    BY <1>6 DEF StartReturns, Wait, Answer, registry
  <2>2. InHand' /\ ~IsRequest(cmd)
    BY <2>1 DEF InHand
  <2> QED BY <2>1, <2>2, HandEmptied, Untouched
<1>7. CASE Execute
  <2>1. /\ pc = "recv" /\ queue # << >> /\ queue' = Tail(queue)
        /\ \/ cmd' = Head(queue) /\ pc' = "request" /\ UNCHANGED <<regs, cancelled>>
           \/ cmd' = NoCmd /\ pc' = "recv" /\ Unregister(Head(queue))
    BY <1>7 DEF Execute, Receive, Wait, Answer, registry
  <2>2. cmd = NoCmd /\ InHand'
    BY <2>1 DEF InHand
  <2> QED BY <2>1, <2>2, HeadTaken
<1>8. CASE RequestReturns
  <2>1. /\ UNCHANGED queue /\ cont' # "final"
        /\ \/ cmd' = NoCmd /\ pc' = "recv" /\ Unregister(cmd)
           \/ pc' = "stop" /\ UNCHANGED <<cmd, regs, cancelled>>
    BY <1>8 DEF RequestReturns, Wait, Answer, registry
  <2>2. InHand'
    BY <2>1 DEF InHand
  <2> QED BY <2>1, <2>2, HandEmptied, Untouched
<1>9. CASE StopReturns
  <2>1. /\ UNCHANGED queue
        /\ \/ /\ cont \in {"shutdown", "final"} /\ regs' = [o \in Ops |-> 0] /\ UNCHANGED cancelled
              /\ \/ cmd' = NoCmd /\ pc' = "recv"
                 \/ cont = "final" /\ cmd' = cmd /\ pc' = "done"
           \/ cmd' = NoCmd /\ pc' = "recv" /\ Unregister(cmd)
    BY <1>9 DEF StopReturns, AfterStop, Answer
  <2>2. pc = "stop"
    BY <1>9 DEF StopReturns
  <2>3. InHand'
    BY <2>1, <2>2 DEF InHand
  <2> QED BY <2>1, <2>3, HandEmptied, RegistryCleared
<1>10. CASE Finish
  <2>1. /\ UNCHANGED <<queue, cmd, cancelled>> /\ pc = "recv"
        /\ \/ pc' = "stop" /\ cont' = "final" /\ UNCHANGED regs
           \/ pc' = "done" /\ regs' = [o \in Ops |-> 0]
    BY <1>10 DEF Finish, Wait, registry
  <2>2. InHand'
    BY <2>1 DEF InHand
  <2> QED BY <2>1, <2>2, Untouched, RegistryCleared
<1>11. CASE UNCHANGED vars
  BY <1>11, Untouched DEF vars, InHand
<1> HIDE DEF Goal
<1> QED BY <1>1, <1>2, <1>3, <1>4, <1>5, <1>6, <1>7, <1>8, <1>9, <1>10, <1>11, NextCases
     DEF Goal

\* A spawned actor starts with empty books.
LEMMA BooksInit == ASSUME Init PROVE TypeOK /\ InHand /\ Registry
<1> USE DEF Init
<1>1. TypeOK
  <2>1. /\ crashes \in 0..(CrashLimit + 1) /\ gen \in 0..MaxGen
        /\ receipt \in [gen : 0..MaxGen, absence : Absences]
    BY CrashAssumption, GenAssumption DEF NoReceipt, Absences
  <2>2. queue \in Seq(Commands) /\ Len(queue) <= Capacity /\ cmd \in Commands
    BY CommandFacts, CapacityAssumption
  <2>3. /\ bound \in BOOLEAN /\ consumed \in BOOLEAN /\ retired \in BOOLEAN
        /\ closed \in BOOLEAN /\ spawned \in BOOLEAN /\ claimed \in BOOLEAN
    BY Zenon
  <2>4. alive \in Nat /\ absence \in Absences /\ state \in States
    BY DEF Absences, States
  <2> QED BY <2>1, <2>2, <2>3, <2>4 DEF TypeOK
<1>2. InHand /\ Tickets
  BY DEF InHand, Tickets
<1>3. RegistryIsLive
  BY DEF RegistryIsLive, NoCmd
<1> QED BY <1>1, <1>2, <1>3 DEF Registry

(* The actor's books are exact: a broker-bound child that runs was claimed   *)
(* once, automatic restarts are bounded, every registration belongs to a     *)
(* request that is queued or executing, no flag is set for a request that    *)
(* may not be cancelled, and a registration disappears only with its own     *)
(* request or when a shutdown clears the registry.                           *)
THEOREM ExactBooks == Spec => BooksAreExact
<1> DEFINE Books == TypeOK /\ InHand /\ Registry
<1>1. Init => Books
  BY BooksInit
<1>2. IInv /\ Books /\ [Next]_vars => Books' /\ [OwnRegistration]_vars
  BY TypeStep, RegistryStep
<1>3. IInv => BoundRunsClaimedOnce /\ RestartsAreBounded
  BY DEF IInv, Bound, BoundRunsClaimedOnce, Crashes, RestartsAreBounded
<1>4. Books => TypeOK /\ RegistryIsLive
  BY DEF Registry
<1>5. [][OwnRegistration]_vars => OnlyItsOwnRegistration
  BY PTL DEF OwnRegistration, OnlyItsOwnRegistration
<1> HIDE DEF Books
<1> QED BY <1>1, <1>2, <1>3, <1>4, <1>5, Invariance, PTL DEF Spec, BooksAreExact
=============================================================================
