------------------------------- MODULE Enhance -------------------------------
(***************************************************************************)
(* enhance(): how the configuration the core runs is built out of the       *)
(* current subscription, the application's own settings and the user's      *)
(* merge and script overrides (enhance/mod.rs with merge, seq, tun, field,  *)
(* chain and script).  A value is the name of who gave it; keys are in      *)
(* lower case but for those a subscription spells in capitals.              *)
(***************************************************************************)
EXTENDS Naturals, Sequences, FiniteSets

Absent == "absent"

\* The control-plane keys with a plain value; tun, which is one too, is a section of its own.
ControlPlaneKeys == {"mode", "socks-port", "external-controller", "allow-lan"}
Keys == ControlPlaneKeys \cup {"other"}
BuiltinPolicies == {"DIRECT", "REJECT", "REJECT-DROP", "PASS"}

VARIABLES
    settings,   \* ConfigValues: the application's switches
    stage,      \* the next step of enhance()
    config,     \* the Mapping being built
    snapshot,   \* control_plane and dns_ipv6, taken before the overrides
    exists      \* exists_keys

enhance == <<settings, stage, config, snapshot, exists>>

Groups ==
    << [name |-> "g1", selector |-> TRUE,  proxies |-> <<"p1", "p2">>, uses |-> {}],
       [name |-> "g2", selector |-> FALSE, proxies |-> <<"p1", "ghost">>, uses |-> {"prov"}] >>

Empty ==
    [top |-> [k \in Keys |-> Absent], bind |-> Absent,
     capitals |-> {}, last |-> {}, spelt |-> {},
     tun |-> [enable |-> Absent, stack |-> Absent, device |-> Absent],
     dns |-> [from |-> Absent, ipv6 |-> Absent, mode |-> Absent],
     proxies |-> {}, providers |-> {}, groups |-> <<>>]

ProfileTun == [enable |-> "profile", stack |-> "profile", device |-> "profile"]

(* How a subscription spells its keys: those in lower case, those in         *)
(* capitals, and of the keys it spells both ways those whose capitals come   *)
(* last in the mapping.                                                      *)
Spellings ==
    {[keys |-> {}, capitals |-> {}, last |-> {}],
     [keys |-> {"allow-lan"}, capitals |-> {"socks-port", "mode"}, last |-> {}]}
    \cup {[keys |-> {"mode", "socks-port", "other"}, capitals |-> w[1], last |-> w[2]] :
              w \in {<<{}, {}>>, <<{"mode", "tun"}, {}>>, <<{"mode", "tun"}, {"mode", "tun"}>>}}

(* A subscription: its keys, its own tun and dns sections, its proxies.  The *)
(* spelling of its keys has nothing to do with its address and providers.    *)
Subscriptions ==
    LET subscription(w, bind, tun, dns, providers) ==
            [Empty EXCEPT !.top = [k \in Keys |-> IF k \in w.keys THEN "profile" ELSE Absent],
                          !.capitals = w.capitals, !.spelt = w.capitals,
                          !.last = IF tun THEN w.last ELSE w.last \ {"tun"},
                          !.bind = bind,
                          !.tun = IF tun THEN ProfileTun ELSE @,
                          !.dns = dns,
                          !.proxies = {"p1", "p2"}, !.providers = providers, !.groups = Groups]
        dnss == {Empty.dns, [from |-> "profile", ipv6 |-> "profile", mode |-> "redir-host"]}
    IN  {subscription(w, bind, tun, dns, providers) :
            w \in {w \in Spellings : w.capitals = {}}, bind \in {Absent, "loopback"}, tun \in BOOLEAN,
            dns \in dnss, providers \in SUBSET {"prov"}}
        \cup {subscription(w, Absent, tun, dns, {}) : w \in Spellings, tun \in BOOLEAN, dns \in dnss}

\* use_keys, in lower case.
Keyed(c) == {k \in Keys : c.top[k] # Absent \/ k \in c.capitals}

Init ==
    /\ settings \in [socks : BOOLEAN, tun : BOOLEAN, dns : BOOLEAN, builtin : BOOLEAN, lan : BOOLEAN]
    /\ stage = "collect" /\ config = Empty /\ snapshot = Empty /\ exists = {}

\* The current profile is read, or none is selected; an unreadable one ends enhance().
CollectProfileItems ==
    /\ stage = "collect"
    /\ config' \in Subscriptions \cup {Empty}
    /\ stage' = "seq"
    /\ UNCHANGED <<settings, snapshot, exists>>
-----------------------------------------------------------------------------
(* use_seq on "proxies": deleted names leave the list and every group, and   *)
(* the added ones go to the front of the first selector group.               *)
IsSelectorGroup(groups, i) ==
    groups[i].selector /\ \A j \in 1..(i - 1) : ~groups[j].selector

UseSeq(c, added, deleted) ==
    LET kept(g) == SelectSeq(g.proxies, LAMBDA p : p \notin deleted)
        merged(g) == added \o SelectSeq(kept(g), LAMBDA p : p \notin {added[i] : i \in DOMAIN added})
    IN  [c EXCEPT !.proxies = (@ \ deleted) \cup {added[i] : i \in DOMAIN added},
                  !.groups = [i \in DOMAIN @ |->
                                 [@[i] EXCEPT !.proxies = IF added # <<>> /\ IsSelectorGroup(c.groups, i)
                                                          THEN merged(c.groups[i]) ELSE kept(c.groups[i])]]]

\* Rules only add and remove lines of their own list; groups may add a group.
ProcessSeqItems ==
    /\ stage = "seq"
    /\ \E added \in {<<>>, <<"n1">>}, deleted \in {{}, {"p1"}} :
           config' = UseSeq(config, added, deleted)
    /\ exists' = Keyed(config')
    /\ stage' = "defaults"
    /\ UNCHANGED <<settings, snapshot>>

\* One key of the application's clash configuration, which has every control-plane key.
MergeKey(k, old) ==
    IF k = "socks-port" /\ ~settings.socks THEN Absent
    ELSE IF k \in ControlPlaneKeys THEN "app" ELSE old

(* Where the capitals stand after the application's keys are in: a key that  *)
(* was not there in lower case goes to the end, one that was keeps its place,*)
(* and removing a key moves the last entry of the mapping into its slot      *)
(* (Mapping::remove swaps), past at most one other spelling.                 *)
Placed(c) ==
    LET kept == {k \in c.last : k = "tun" \/ (c.top[k] # Absent /\ MergeKey(k, c.top[k]) # Absent)}
    IN  IF c.top["socks-port"] = Absent \/ settings.socks THEN {kept}
        ELSE {kept} \cup {(kept \cup {k}) \ (kept \cap {k}) : k \in c.capitals \ {"socks-port"}}

\* The application's tun section is laid over the subscription's.
MergeDefaultConfig ==
    /\ stage = "defaults"
    /\ \E last \in Placed(config) :
           config' = [config EXCEPT !.top = [k \in Keys |-> MergeKey(k, @[k])],
                                    !.tun = [@ EXCEPT !.enable = "app", !.stack = "app"],
                                    !.last = last]
    /\ stage' = "builtin"
    /\ UNCHANGED <<settings, snapshot, exists>>

\* use_lowercase: of two spellings of a key the later one's value is kept.
UseLowercase(c) ==
    LET wins(k) == k \in c.capitals /\ (k \in c.last \/ (k \in Keys /\ c.top[k] = Absent))
    IN  [c EXCEPT !.top = [k \in Keys |-> IF wins(k) THEN "profile" ELSE @[k]],
                  !.tun = IF wins("tun") THEN ProfileTun ELSE @,
                  !.capitals = {}, !.last = {}]

(* The builtin scripts touch proxies only, but every script call lowercases  *)
(* the keys; none may support the core, and a script that fails is skipped.  *)
ApplyBuiltinScripts ==
    /\ stage = "builtin"
    /\ config' \in {config} \cup (IF settings.builtin THEN {UseLowercase(config)} ELSE {})
    /\ stage' = "tun"
    /\ UNCHANGED <<settings, snapshot, exists>>

\* With tun on, a dns section in (or without a) fake-ip mode is filled in.
UseTun ==
    /\ stage = "tun"
    /\ config' = [config EXCEPT !.tun.enable = IF settings.tun THEN "on" ELSE "off",
                                !.dns = IF ~settings.tun THEN @
                                        ELSE IF @.mode \in {Absent, "fake-ip"}
                                        THEN [from |-> IF @.from = Absent THEN "app" ELSE @.from,
                                              ipv6 |-> "app", mode |-> "fake-ip"]
                                        ELSE @]
    /\ stage' = "dns"
    /\ UNCHANGED <<settings, snapshot, exists>>

\* dns_config.yaml replaces the section; a missing or broken file changes nothing.
ApplyDnsSettings ==
    /\ stage = "dns"
    /\ \/ UNCHANGED config
       \/ settings.dns /\ config' = [config EXCEPT !.dns = [from |-> "page", ipv6 |-> "page", mode |-> "fake-ip"]]
    /\ stage' = "snapshot"
    /\ UNCHANGED <<settings, snapshot, exists>>

SnapshotControlPlane ==
    /\ stage = "snapshot"
    /\ snapshot' = [config EXCEPT !.dns.ipv6 = IF settings.dns THEN @ ELSE Absent]
    /\ stage' = "global"
    /\ UNCHANGED <<settings, config, exists>>
-----------------------------------------------------------------------------
\* use_merge: deep_merge adds and replaces, in lower case, and removes nothing.
Merges(c) ==
    {c} \cup {[c EXCEPT !.top = [k \in Keys |-> IF k \in {"mode", "socks-port", "other"} THEN "manual" ELSE @[k]],
                        !.tun = [enable |-> "manual", stack |-> "manual", device |-> "manual"],
                        !.dns = IF @.from = Absent THEN [from |-> "manual", ipv6 |-> "manual", mode |-> "fake-ip"]
                                ELSE [@ EXCEPT !.ipv6 = "manual"],
                        !.proxies = {"p2"}],
              [c EXCEPT !.bind = "loopback", !.providers = {}]}

(* use_script: an error or a timeout leaves the configuration as it was; a   *)
(* script that returns nothing usable leaves it lowercased; otherwise the    *)
(* configuration is what it returns, whatever that is.                       *)
Scripts(c) ==
    LET low == UseLowercase(c)
    IN  {c, low,
         [low EXCEPT !.top = [k \in Keys |-> IF k = "mode" THEN Absent
                                             ELSE IF k = "allow-lan" THEN "manual" ELSE @[k]],
                     !.tun = Empty.tun, !.dns = Empty.dns, !.groups = Groups]}

ExtendChangedKeys(before, after) ==
    {k \in Keyed(after) : after.top[k] # before.top[k]}

Override(from, to) ==
    /\ stage = from
    /\ \E m \in Merges(config) : \E c \in Scripts(m) :
           /\ config' = c
           /\ exists' = exists \cup {k \in Keys : m.top[k] = "manual"} \cup ExtendChangedKeys(m, c)
    /\ stage' = to
    /\ UNCHANGED <<settings, snapshot>>

ProcessGlobalItems == Override("global", "profile")
ProcessProfileItems == Override("profile", "enforce")
-----------------------------------------------------------------------------
EnforceControlPlane ==
    /\ stage = "enforce"
    /\ config' = [config EXCEPT !.top = [k \in Keys |-> IF k \in ControlPlaneKeys THEN snapshot.top[k] ELSE @[k]],
                                !.tun = snapshot.tun]
    /\ stage' = "ipv6"
    /\ UNCHANGED <<settings, snapshot, exists>>

\* Only into a dns section that is there.
EnforceDnsIpv6 ==
    /\ stage = "ipv6"
    /\ config' = [config EXCEPT !.dns.ipv6 = IF snapshot.dns.ipv6 # Absent /\ config.dns.from # Absent
                                             THEN snapshot.dns.ipv6 ELSE @]
    /\ stage' = "bind"
    /\ UNCHANGED <<settings, snapshot, exists>>

EnsureLanBindAddress ==
    /\ stage = "bind"
    /\ config' = [config EXCEPT !.bind = IF settings.lan /\ @ = "loopback" THEN "any" ELSE @]
    /\ stage' = "groups"
    /\ UNCHANGED <<settings, snapshot, exists>>

AllowedNames(c) ==
    c.proxies \cup c.providers \cup {c.groups[i].name : i \in DOMAIN c.groups} \cup BuiltinPolicies

\* Mutant: a group keeps its names because it uses a provider, whether or not there is one.
CleanupGroup_AnyProvider(c, g) ==
    [g EXCEPT !.uses = @ \cap c.providers,
              !.proxies = SelectSeq(@, LAMBDA p : p \in AllowedNames(c) \/ g.uses # {})]

CleanupGroup(c, g) ==
    LET uses == g.uses \cap c.providers
    IN  [g EXCEPT !.uses = uses,
                  !.proxies = SelectSeq(@, LAMBDA p : p \in AllowedNames(c) \/ uses # {})]

\* use_sort, which follows, only orders the keys.
CleanupProxyGroups ==
    /\ stage = "groups"
    /\ config' = [config EXCEPT !.groups = [i \in DOMAIN @ |-> CleanupGroup(config, @[i])]]
    /\ stage' = "done"
    /\ UNCHANGED <<settings, snapshot, exists>>

Next ==
    \/ CollectProfileItems \/ ProcessSeqItems \/ MergeDefaultConfig \/ ApplyBuiltinScripts
    \/ UseTun \/ ApplyDnsSettings \/ SnapshotControlPlane \/ ProcessGlobalItems \/ ProcessProfileItems
    \/ EnforceControlPlane \/ EnforceDnsIpv6 \/ EnsureLanBindAddress \/ CleanupProxyGroups

Spec == Init /\ [][Next]_enhance
-----------------------------------------------------------------------------
\* The subscription's value of a control-plane key is the one snapshotted: it
\* spells the key in capitals and a builtin script has put them in lower case.
SpeltOver(k) == settings.builtin /\ k \in config.spelt

(* What the core runs is under the application's control: whatever the       *)
(* merges and the scripts say, a control-plane key has the application's     *)
(* value, a port it keeps closed is not there, tun follows its switch, and   *)
(* no override reaches them.  The one exception is a subscription that       *)
(* spells the key in capitals: lowercased by a builtin script, after the     *)
(* application's value went in and before the snapshot, its value can take   *)
(* the place of the application's.                                           *)
AppSettingsWin ==
    stage = "done" =>
        /\ \A k \in ControlPlaneKeys :
               \/ config.top[k] = (IF k = "socks-port" /\ ~settings.socks THEN Absent ELSE "app")
               \/ config.top[k] = "profile" /\ SpeltOver(k)
        /\ config.tun.enable = (IF settings.tun THEN "on" ELSE "off")
        /\ config.tun.stack = "app" \/ (config.tun.stack = "profile" /\ SpeltOver("tun"))
        /\ config.tun.device # "manual"
        /\ (settings.dns /\ snapshot.dns.from = "page" /\ config.dns.from # Absent) => config.dns.ipv6 = "page"

(* No group names a node that is not there: after deletions, overrides and   *)
(* lost providers, every name of a group resolves or the group still draws   *)
(* from a provider.                                                          *)
GroupsResolve ==
    stage = "done" =>
        \A i \in DOMAIN config.groups :
            \/ config.groups[i].uses \cap config.providers # {}
            \/ \A j \in DOMAIN config.groups[i].proxies : config.groups[i].proxies[j] \in AllowedNames(config)
=============================================================================
