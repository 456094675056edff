----------------------------- MODULE Composition -----------------------------
(***************************************************************************)
(* How one production generation is composed, by several instances of the   *)
(* application at once: the random token, the WireGuard identity resolved   *)
(* or created in the shared keychain (credentials.rs), the broker session,  *)
(* the launch material bound to it (production_session.rs), the service,    *)
(* and, once started, the receipt that authorizes routes.  The keychain and *)
(* the broker are external and shared.                                      *)
(***************************************************************************)
EXTENDS Naturals, FiniteSets

CONSTANTS
    Builders,    \* application instances
    MaxFaults    \* failures of the generator, the keychain and the broker

Absent == "no item"
Malformed == "not 32 bytes"
KyClash == "utun4"          \* the tunnel of the generation
MihomoTun == "utun9"

VARIABLES
    at,         \* at[b]: where build_macos is
    keychain,   \* the item of the profile's identity reference
    fresh,      \* fresh[b]: the bytes generated and not yet stored
    material,   \* material[b]: the key the launch material holds
    session,    \* session[b]: the prepared broker session of the build
    answered,   \* answered[b]: who answered the handshake of its child
    trusted,    \* trusted[b]: the Mihomo interfaces the routes may pass
    faults

composition == <<at, keychain, fresh, material, session, answered, trusted, faults>>

Init ==
    /\ at = [b \in Builders |-> "token"]
    /\ keychain \in {Absent, Malformed, "old"}
    /\ fresh = [b \in Builders |-> Absent]
    /\ material = [b \in Builders |-> Absent]
    /\ session = [b \in Builders |-> "none"]
    /\ answered = [b \in Builders |-> [session |-> "nobody", token |-> "nobody"]]
    /\ trusted = [b \in Builders |-> {}]
    /\ faults = 0

Fault == faults < MaxFaults /\ faults' = faults + 1
Goto(b, l) == at' = [at EXCEPT ![b] = l]

(* A build that fails drops what it made so far: the launch material, and a  *)
(* prepared launcher, whose Drop kills the broker's child and, whatever the  *)
(* answer, closes the connection on which the broker reaps it.               *)
Fail(b) ==
    /\ Goto(b, "failed")
    /\ material' = [material EXCEPT ![b] = Absent]
    /\ fresh' = [fresh EXCEPT ![b] = Absent]
    /\ session' = [session EXCEPT ![b] = IF @ \in {"prepared", "bound"} THEN "reaped" ELSE @]
    /\ UNCHANGED <<keychain, answered, trusted>>

\* SystemRandom fills the authentication token.
FillToken(b) ==
    /\ at[b] = "token"
    /\ \/ Goto(b, "get") /\ UNCHANGED <<keychain, fresh, material, session, answered, trusted, faults>>
       \/ Fault /\ Fail(b)

(* The first look: an item of 32 bytes is used, any other is refused, and a  *)
(* read that fails for whatever reason is taken for a missing item.          *)
StoreGet(b) ==
    /\ at[b] = "get"
    /\ \/ /\ keychain = Malformed
          /\ Fail(b) /\ UNCHANGED faults
       \/ /\ keychain \notin {Absent, Malformed}
          /\ material' = [material EXCEPT ![b] = keychain]
          /\ Goto(b, "route")
          /\ UNCHANGED <<keychain, fresh, session, answered, trusted, faults>>
       \/ /\ (keychain = Absent /\ UNCHANGED faults) \/ Fault
          /\ Goto(b, "generate")
          /\ UNCHANGED <<keychain, fresh, material, session, answered, trusted>>

Generate(b) ==
    /\ at[b] = "generate"
    /\ \/ /\ fresh' = [fresh EXCEPT ![b] = b]
          /\ Goto(b, "put")
          /\ UNCHANGED <<keychain, material, session, answered, trusted, faults>>
       \/ Fault /\ Fail(b)

\* SecItemAdd creates and never replaces.
AddGenericPassword(item) == IF keychain = Absent THEN item ELSE keychain

\* Mutant: on a duplicate the launch keeps the bytes it generated.
PutIfAbsent_KeepsFresh(b) ==
    /\ at[b] = "put"
    /\ keychain' = AddGenericPassword(fresh[b])
    /\ material' = [material EXCEPT ![b] = fresh[b]]
    /\ fresh' = [fresh EXCEPT ![b] = Absent]
    /\ Goto(b, "route")
    /\ UNCHANGED <<session, answered, trusted, faults>>

(* put_if_absent: one atomic insertion; a duplicate is not an error but the  *)
(* bytes generated here are erased and the item is read again.               *)
PutIfAbsent(b) ==
    /\ at[b] = "put"
    /\ \/ /\ keychain = Absent
          /\ keychain' = AddGenericPassword(fresh[b])
          /\ material' = [material EXCEPT ![b] = fresh[b]]
          /\ fresh' = [fresh EXCEPT ![b] = Absent]
          /\ Goto(b, "route")
          /\ UNCHANGED <<session, answered, trusted, faults>>
       \/ /\ keychain # Absent
          /\ fresh' = [fresh EXCEPT ![b] = Absent]
          /\ Goto(b, "reget")
          /\ UNCHANGED <<keychain, material, session, answered, trusted, faults>>
       \/ Fault /\ Fail(b)

StoreGetAgain(b) ==
    /\ at[b] = "reget"
    /\ \/ /\ keychain \notin {Absent, Malformed}
          /\ material' = [material EXCEPT ![b] = keychain]
          /\ Goto(b, "route")
          /\ UNCHANGED <<keychain, fresh, session, answered, trusted, faults>>
       \/ keychain = Malformed /\ Fail(b) /\ UNCHANGED faults
       \/ Fault /\ Fail(b)

\* DeferredV3ProductionRouteBoundary::new, before any root process exists.
NewRouteBoundary(b) ==
    /\ at[b] = "route"
    /\ \/ Goto(b, "broker") /\ UNCHANGED <<keychain, fresh, material, session, answered, trusted, faults>>
       \/ Fault /\ Fail(b)

\* The broker serves one session at a time and refuses another.
Prepare(b) ==
    /\ at[b] = "broker"
    /\ LET free == \A c \in Builders : session[c] \notin {"prepared", "bound"}
       IN  \/ /\ free
              /\ session' = [session EXCEPT ![b] = "prepared"]
              /\ Goto(b, "bind")
              /\ UNCHANGED <<keychain, fresh, material, answered, trusted, faults>>
           \/ ~free /\ Fail(b) /\ UNCHANGED faults
           \/ free /\ Fault /\ Fail(b)

(* The child exits or the connection to the broker is lost, at any moment of *)
(* the build and after it; the broker reaps the child and is free again.     *)
(* Nothing tells the build.                                                  *)
SessionEnds(b) ==
    /\ session[b] \in {"prepared", "bound"}
    /\ Fault
    /\ session' = [session EXCEPT ![b] = "ended"]
    /\ UNCHANGED <<at, keychain, fresh, material, answered, trusted>>

(* SidecarLaunchMaterial::bind: the token and the key meet the reference of  *)
(* one exact session, which is not asked whether it is still there.          *)
Bind(b) ==
    /\ at[b] = "bind"
    /\ \/ /\ session' = [session EXCEPT ![b] = IF @ = "prepared" THEN "bound" ELSE @]
          /\ Goto(b, "service")
          /\ UNCHANGED <<keychain, fresh, material, answered, trusted, faults>>
       \/ Fault /\ Fail(b)

\* The controller actor is spawned, then the service takes its handle.
NewService(b) ==
    /\ at[b] = "service"
    /\ \/ Goto(b, "built") /\ UNCHANGED <<keychain, fresh, material, session, answered, trusted, faults>>
       \/ Fault /\ Fail(b)

\* ControllerStartReceipt::issue: the instance and the proof of the token.
Issue(b, child) == child.session = b /\ child.token = b

(* The handshake of a child the broker serves now; a child of another        *)
(* session, or one that was given another token, is stopped and the start    *)
(* fails, as it does when nobody answers.                                    *)
Start(b) ==
    /\ at[b] = "built"
    /\ \/ \E child \in [session : {c \in Builders : session[c] = "bound"}, token : Builders] :
              \/ /\ Issue(b, child)
                 /\ answered' = [answered EXCEPT ![b] = child]
                 /\ Goto(b, "started")
                 /\ UNCHANGED <<keychain, fresh, material, session, trusted, faults>>
              \/ ~Issue(b, child) /\ Fault /\ Fail(b)
       \/ ((session[b] # "bound" /\ UNCHANGED faults) \/ Fault) /\ Fail(b)

\* validate_for: a Darwin tunnel, and not the one KyClash owns.
ValidateFor(device) == device # "en0" /\ device # KyClash

(* snapshot_from_observation: the core's state, both views of the TUN switch *)
(* and the device; views that disagree are refused, never guessed.           *)
SnapshotFromObservation(o) ==
    IF ~o.running THEN {}
    ELSE IF o.app # o.mihomo THEN {"refused"}
    ELSE IF ~o.mihomo THEN {}
    ELSE IF o.exists /\ ValidateFor(o.device) THEN {o.device} ELSE {"refused"}

Observations ==
    [running : BOOLEAN, app : BOOLEAN, mihomo : BOOLEAN, device : {MihomoTun, KyClash, "en0"}, exists : BOOLEAN]

(* authorize_routes consumes the receipt with the facts of the tunnel the    *)
(* prepare request of this operation created, and the Mihomo snapshot; it    *)
(* does not ask whether the session is still held.                           *)
AuthorizeRoutes(b) ==
    /\ at[b] = "started"
    /\ \E o \in Observations, owner \in Builders, prepared \in BOOLEAN :
           LET snapshot == SnapshotFromObservation(o)
           IN  \/ /\ owner = b /\ prepared /\ snapshot # {"refused"}
                  /\ trusted' = [trusted EXCEPT ![b] = snapshot]
                  /\ Goto(b, "authorized")
                  /\ UNCHANGED <<keychain, fresh, material, session, answered, faults>>
               \/ /\ owner # b \/ ~prepared \/ snapshot = {"refused"}
                  /\ Fail(b) /\ UNCHANGED faults

Next ==
    \E b \in Builders :
        \/ FillToken(b) \/ StoreGet(b) \/ Generate(b) \/ PutIfAbsent(b) \/ StoreGetAgain(b)
        \/ NewRouteBoundary(b) \/ Prepare(b) \/ SessionEnds(b) \/ Bind(b) \/ NewService(b)
        \/ Start(b) \/ AuthorizeRoutes(b)

Spec == Init /\ [][Next]_composition
-----------------------------------------------------------------------------
(* However many instances resolve the identity at once, and whichever reads  *)
(* fail, every launch holds the one key the keychain holds: the key whose    *)
(* public half the peer knows (resolve_or_generate_with_status).             *)
OneIdentity ==
    \A b \in Builders : material[b] # Absent => material[b] = keychain

(* Wherever a build fails, and whether or not its session ended before that, *)
(* it leaves no child at the broker, no key, and no generated bytes: those    *)
(* live only until the keychain has taken or refused them.                   *)
FailedLeavesNothing ==
    \A b \in Builders :
        /\ at[b] = "failed" => material[b] = Absent /\ session[b] \notin {"prepared", "bound"}
        /\ fresh[b] # Absent => at[b] = "put"

(* An authorization names the child of its own launch even when the session  *)
(* has ended meanwhile and the broker serves another build: no build takes   *)
(* the child of the session that came after its own for its own, and none    *)
(* trusts the tunnel's own interface.                                        *)
AuthorizedIsProven ==
    \A b \in Builders : at[b] = "authorized" =>
        answered[b] = [session |-> b, token |-> b] /\ trusted[b] \subseteq {MihomoTun}
=============================================================================
