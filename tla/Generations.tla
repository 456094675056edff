---------------------------- MODULE Generations ----------------------------
(***************************************************************************)
(* The networking commands of one application process: which policy        *)
(* variant is selected, the factory prepared for it, and the one service   *)
(* generation in the slot.  Initialize, select, connect and disconnect     *)
(* hold the materialize mutex from beginning to end; the connect task they *)
(* spawn, the other processes on the policy store and the environment run  *)
(* beside them.                                                            *)
(*                                                                         *)
(* A generation is seen from outside: "reserved" until its task starts,    *)
(* "busy" while it connects or is connected, "fresh" when its one start    *)
(* was never used, "spent" when it is cleanly disconnected, "failed" in    *)
(* the Error state with nothing left, "recovery" when something is left.   *)
(* ProductionService models its inside.                                    *)
(***************************************************************************)
EXTENDS PolicyStore

CONSTANTS Variants,        \* the policy variants of a catalog
          BaseVariant,     \* the one initialize selects
          MaxGens,         \* bound on generations built
          App              \* the process these commands run in

ASSUME AppAssumption == App \in Procs
ASSUME GensAssumption == MaxGens \in Nat

VARIABLES
  cmd,        \* the command that holds the materialize mutex
  selected,   \* the retained selection: a binding or NoBinding
  factory,    \* the binding the prepared factory was composed for
  svc,        \* the service slot
  built,      \* a generation built and not yet published
  gens,       \* how many generations were built
  live        \* generations that were built and not retired

app == <<cmd, selected, factory, svc, built, gens, live>>
vars == <<store, app>>

NoBinding == [variant |-> None, cat |-> NoCatalog]
Binding(v, c) == [variant |-> v, cat |-> c]
Service(g, b, s) == [gen |-> g, binding |-> b, st |-> s]
NoService == Service(0, NoBinding, None)
Command(o, v, label) == [op |-> o, variant |-> v, at |-> label]
NoCommand == Command(None, None, None)

AppInit ==
  /\ cmd = NoCommand
  /\ selected = NoBinding
  /\ factory = NoBinding
  /\ svc = NoService
  /\ built = NoService
  /\ gens = 0
  /\ live = {}

Init == StoreInit /\ AppInit

Free == cmd = NoCommand
Disconnected == svc.st \in {None, "reserved", "fresh", "spent"}
Prepares(op, v) == cmd' = Command(op, v, "prepare") /\ Begin(App) /\ UNCHANGED clock
Goes(label) == cmd' = Command(cmd.op, cmd.variant, label)
Turns(st) == svc' = Service(svc.gen, svc.binding, st)
Return(changed) == cmd' = NoCommand /\ UNCHANGED changed

-----------------------------------------------------------------------------
(* The commands take the mutex and start to prepare a policy variant *)

Initialize ==
  /\ Free /\ factory = NoBinding
  /\ Prepares("initialize", BaseVariant)
  /\ UNCHANGED <<selected, factory, svc, built, gens, live>>

ServiceForConnect ==
  /\ Free /\ selected # NoBinding
  /\ Prepares("connect", selected.variant)
  /\ UNCHANGED <<selected, factory, svc, built, gens, live>>

SelectPolicyVariant(v) ==
  /\ Free /\ Disconnected
  /\ Prepares("select", v)
  /\ UNCHANGED <<selected, factory, svc, built, gens, live>>

\* Only a connect binds the preparation to the retained selection.
Expected == IF cmd.op = "connect" THEN selected.cat ELSE NoCatalog

Prepare == cmd.at = "prepare" /\ Transact(App, Expected) /\ UNCHANGED app

\* The transaction's result reaches the command.
Finished == cmd.at = "prepare" /\ At(App, "done")
Consumed ==
  /\ txn' = [txn EXCEPT ![App] = NoTxn]
  /\ UNCHANGED <<bundle, record, durable, lock, accepted, clock>>
Prepared == Binding(cmd.variant, txn[App].cand)

PrepareFailed ==
  /\ Finished /\ ~txn[App].ok /\ Consumed
  /\ Return(<<selected, factory, svc, built, gens, live>>)

\* The selection is retained before the factory may be refused.
Initialized ==
  /\ Finished /\ txn[App].ok /\ cmd.op = "initialize" /\ Consumed
  /\ selected' = Prepared
  /\ factory' = IF svc = NoService /\ factory = NoBinding THEN Prepared ELSE factory
  /\ Return(<<svc, built, gens, live>>)

SelectionPrepared ==
  /\ Finished /\ txn[App].ok /\ cmd.op = "select" /\ Consumed
  /\ IF svc = NoService
     THEN /\ factory' = Prepared /\ selected' = Prepared
          /\ Return(<<svc, built, gens, live>>)
     ELSE /\ Goes("retire")
          /\ built' = Service(0, Prepared, None)
          /\ UNCHANGED <<selected, factory, svc, gens, live>>

\* Connect admits what its disposition allows.
Admit ==
  /\ Finished /\ txn[App].ok /\ cmd.op = "connect" /\ Consumed
  /\ factory' = Prepared
  /\ CASE svc = NoService ->
            /\ Goes("build")
            /\ UNCHANGED <<selected, svc, built, gens, live>>
       [] svc.st = "fresh" ->
            /\ Turns("reserved")
            /\ Return(<<selected, built, gens, live>>)
       [] svc.st \in {"spent", "failed"} ->
            /\ Goes("retire")
            /\ UNCHANGED <<selected, svc, built, gens, live>>
       [] OTHER -> Return(<<selected, svc, built, gens, live>>)

-----------------------------------------------------------------------------
(* Retirement and materialization, under the mutex *)

\* The exact generation leaves the slot only with its retirement receipt.
Retire ==
  /\ cmd.at = "retire"
  /\ svc.st \in {"fresh", "spent", "failed"}
  /\ live' = live \ {svc.gen}
  /\ svc' = NoService
  /\ built' = NoService
  /\ IF cmd.op = "select"
     THEN /\ selected' = built.binding /\ factory' = built.binding
          /\ Return(<<gens>>)
     ELSE /\ Goes("build")
          /\ UNCHANGED <<selected, factory, gens>>
  /\ UNCHANGED store

\* Mutant: a refused retirement removes the service all the same.
RetireRefused_Removes ==
  /\ cmd.at = "retire"
  /\ svc' = NoService
  /\ built' = NoService
  /\ Return(<<selected, factory, gens, live>>)
  /\ UNCHANGED store

\* Busy, or something of it is left: the command fails, the slot keeps it.
RetireRefused ==
  /\ cmd.at = "retire"
  /\ Turns(IF svc.st \in {"reserved", "busy"} THEN svc.st ELSE "recovery")
  /\ built' = NoService
  /\ Return(<<selected, factory, gens, live>>)
  /\ UNCHANGED store

Build ==
  /\ cmd.at = "build"
  /\ \/ /\ gens < MaxGens
        /\ gens' = gens + 1
        /\ live' = live \cup {gens'}
        /\ built' = Service(gens', factory, "reserved")
        /\ Goes("install")
        /\ UNCHANGED <<selected, factory, svc>>
     \/ Return(<<selected, factory, svc, built, gens, live>>)
  /\ UNCHANGED store

\* Published into an empty slot, or closed.
Install ==
  /\ cmd.at = "install"
  /\ svc' = IF svc = NoService THEN built ELSE svc
  /\ live' = IF svc = NoService THEN live ELSE live \ {built.gen}
  /\ built' = NoService
  /\ Return(<<selected, factory, gens>>)
  /\ UNCHANGED store

\* The disconnect runs inside the mutex; a reserved or retiring generation
\* refuses it.
DisconnectExact ==
  /\ Free /\ svc # NoService
  /\ cmd' = Command("disconnect", None, "disconnect")
  /\ UNCHANGED <<store, selected, factory, svc, built, gens, live>>

AfterDisconnect ==
  IF svc.st \in {"reserved", "fresh", "recovery"} THEN {svc.st} ELSE {"spent", "failed", "recovery"}

DisconnectDone ==
  /\ cmd.at = "disconnect"
  /\ \E st \in AfterDisconnect : Turns(st)
  /\ Return(<<selected, factory, built, gens, live>>)
  /\ UNCHANGED store

-----------------------------------------------------------------------------
(* The generation's own life, beside the commands *)

Becomes(from, to) ==
  /\ svc.st = from
  /\ Turns(to)
  /\ UNCHANGED <<store, cmd, selected, factory, built, gens, live>>

\* The spawned task takes its reservation, or is dropped before that.
TaskStarts == Becomes("reserved", "busy")
TaskDropped == Becomes("reserved", "fresh")

\* The attempt or the connection ends: cancelled, refused before the start
\* was used, failed and cleaned, or failed with something left.
TaskEnds == \E st \in {"fresh", "spent", "failed", "recovery"} : Becomes("busy", st)

-----------------------------------------------------------------------------
(* Other processes, and the environment *)

\* Another process runs the same preparation, without a selection to keep.
OtherPrepares(p) ==
  /\ p # App
  /\ \/ /\ Begin(p)
        /\ clock.others < MaxOthers
        /\ Ticks(0, 1, 0, 0)
     \/ Transact(p, NoCatalog)
     \/ /\ At(p, "done")
        /\ txn' = [txn EXCEPT ![p] = NoTxn]
        /\ UNCHANGED <<bundle, record, durable, lock, accepted, clock>>
  /\ UNCHANGED app

OtherDies(p) == p # App /\ ProcessDies(p) /\ UNCHANGED app

\* What the process holds in memory is gone; the broker ends its sidecar.
Restarted ==
  /\ cmd' = NoCommand /\ selected' = NoBinding /\ factory' = NoBinding
  /\ svc' = NoService /\ built' = NoService /\ live' = {}
  /\ UNCHANGED gens

AppDies == cmd.at = "prepare" /\ ProcessDies(App) /\ Restarted

PowerFails == PowerLoss /\ Restarted

Environment == (BundleUpdate \/ ForeignWrite) /\ UNCHANGED app

Next ==
  \/ Initialize \/ ServiceForConnect \/ (\E v \in Variants : SelectPolicyVariant(v))
  \/ Prepare \/ PrepareFailed \/ Initialized \/ SelectionPrepared \/ Admit
  \/ Retire \/ RetireRefused \/ Build \/ Install
  \/ DisconnectExact \/ DisconnectDone
  \/ TaskStarts \/ TaskDropped \/ TaskEnds
  \/ (\E p \in Procs : OtherPrepares(p) \/ OtherDies(p))
  \/ AppDies \/ PowerFails \/ Environment

Spec == Init /\ [][Next]_vars

-----------------------------------------------------------------------------
(* Properties *)

TypeOK ==
  /\ bundle \in Catalogs
  /\ lock \in Procs \cup {None}
  /\ \A p \in Procs : txn[p].at \in {"idle", "verify", "recheck", "same", "stage", "publish",
                                     "verifyPublished", "sync", "report", "done"}
  /\ cmd.op \in {None, "initialize", "connect", "select", "disconnect"}
  /\ svc.st \in {None, "reserved", "busy", "fresh", "spent", "failed", "recovery"}
  /\ live \subseteq 1..MaxGens

(* At every moment at most one generation owns a broker session: one that  *)
(* was built is in the slot, about to be published by the command that     *)
(* holds the mutex, or retired (build_install_reserved_locked,             *)
(* rematerialize_terminal_locked, select_policy_variant).                  *)
OneOwner == live = {svc.gen, built.gen} \ {0}

(* A generation that can connect was built for the retained selection, so  *)
(* that a selection can never be shown while another profile connects.     *)
SlotIsSelected == svc # NoService => svc.binding = selected

(* A connect is admitted only for a catalog that is the accepted one at    *)
(* its revision: no other identity of the same or of a later revision was  *)
(* accepted before the bundle changed under the connect.                   *)
AdmittedIsAccepted ==
  [][svc'.st = "reserved" /\ svc.st # "reserved" /\ clock.foreign = 0 =>
       LET c == svc'.binding.cat IN
       /\ record.rev >= c.rev
       /\ record.rev = c.rev => record.id = c.id]_vars

(* One generation owns the session, it is the selected one, and a refused  *)
(* publication of its policy leaves no record behind                       *)
(* (build_install_reserved_locked, select_policy_variant,                  *)
(* rollback_publication).                                                  *)
OwnersAreExact == [](TypeOK /\ OneOwner /\ SlotIsSelected) /\ RefusedIsUndone
=============================================================================
