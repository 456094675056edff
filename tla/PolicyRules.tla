----------------------------- MODULE PolicyRules -----------------------------
(***************************************************************************)
(* The rules a network profile passes on its way from a signed policy to    *)
(* the routing table (networking/config.rs): the rule of schema 1, which    *)
(* the application runs, and the stricter production rule of schema 2,      *)
(* whose profiles nothing connects at this commit: each rule refuses the    *)
(* other's version, and there is no conversion.                             *)
(* Texts are records of what the parser finds in them; identifiers, names   *)
(* and keys are the classes the rules tell apart.                           *)
(***************************************************************************)
EXTENDS RouteAddresses

CONSTANTS
    PrivateBlocks,   \* the RFC 1918 and ULA blocks, as CIDRs
    Samples6,        \* the IPv6 addresses a profile is built from
    MaxPrivateCidrs, \* PRODUCTION_MAX_PRIVATE_CIDRS (16)
    Mihomo           \* what `held' stands for: the trusted TUN interface

\* A profile's keys: two usable ones and what decode_canonical_production_key refuses.
GoodKeys == {"k1", "k2"}
Keys == GoodKeys \cup {"low order", "non canonical", "short"}

Url(scheme, host, port, path, extra) ==
    [scheme |-> scheme, host |-> host, port |-> port, path |-> path, extra |-> extra]

\* Identifiers valid_id accepts, and display names with no space at an end.
ValidIds == {"ok"}
DisplayNames == {"ok"}

\* Host names that valid_production_server_name accepts.
ServerNames == {"a.example", "b.example"}

Transports == {"quic", "wss", "tcp"}
Scheme == [quic |-> "https", wss |-> "wss", tcp |-> "tcp"]
-----------------------------------------------------------------------------
(* valid_unique_cidrs of schema 1: distinct texts whose prefix fits.         *)
ValidUniqueCidrs(cidrs) ==
    cidrs # << >> /\ AllUnique(cidrs) /\ \A c \in ToSet(cidrs) : c.prefix <= c.bits

\* The endpoint rule of schema 1; extra parts of a URL are refused.
EndpointValid(endpoint) ==
    /\ endpoint.url.scheme = Scheme[endpoint.transport]
    /\ endpoint.url.extra \notin {"user", "query", "fragment"}
    /\ endpoint.url.host # ""
    /\ endpoint.transport = "tcp" => endpoint.url.port # 0
    /\ endpoint.transport # "wss" => endpoint.url.path \in {"", "/"}

TransportsValid(t) ==
    LET named == [i \in 1..Len(t.endpoints) |-> t.endpoints[i].transport]
    IN  /\ t.primary = "quic"
        /\ "quic" \notin ToSet(t.fallbacks)
        /\ AllUnique(t.fallbacks)
        /\ AllUnique(named)
        /\ ToSet(named) = {t.primary} \cup ToSet(t.fallbacks)
        /\ \A e \in ToSet(t.endpoints) : EndpointValid(e)

\* NetworkProfile::validate.
Validate(p) ==
    /\ p.schema = 1   \* NETWORK_SCHEMA_VERSION
    /\ {p.id, p.identity, p.site} \subseteq ValidIds
    /\ p.control.scheme = "https" /\ p.control.extra \notin {"user", "fragment"}
    /\ p.name # ""
    /\ ValidUniqueCidrs(p.cidrs)
    /\ ValidUniqueCidrs(p.locals)
    /\ p.peerKey # "short"
    /\ p.keepalive # 0
    /\ TransportsValid(p.transports)
    /\ p.connectTimeout # 0 /\ p.healthInterval # 0 /\ p.threshold # 0
-----------------------------------------------------------------------------
ProductionMaskedValue(c, prefix) ==
    IF prefix = 0 THEN 0
    ELSE c.address & (((2^WordBits - 1) * 2^(c.bits - prefix)) % 2^WordBits)

\* Mutant: a block wider than the private range is taken for a part of it.
ProductionPrefixIsPrivate_AnyWidth(c) ==
    \E block \in PrivateBlocks :
        c.bits = block.bits /\ ProductionMaskedValue(c, block.prefix) = block.address

ProductionPrefixIsPrivate(c) ==
    \E block \in PrivateBlocks :
        /\ c.bits = block.bits
        /\ c.prefix >= block.prefix
        /\ ProductionMaskedValue(c, block.prefix) = block.address

ProductionPrefixIsNetwork(c) == ProductionMaskedValue(c, c.prefix) = c.address

ProductionPrefixesOverlap(left, right) ==
    /\ left.bits = right.bits
    /\ LET prefix == IF left.prefix < right.prefix THEN left.prefix ELSE right.prefix
       IN  ProductionMaskedValue(left, prefix) = ProductionMaskedValue(right, prefix)

PrefixSetsOverlap(left, right) ==
    \E l \in ToSet(left), r \in ToSet(right) : ProductionPrefixesOverlap(l, r)

FamiliesOf(cidrs) == {c.bits : c \in ToSet(cidrs)}

\* parse_production_host_addresses: one private host address per family.
HostAddressesValid(locals) ==
    /\ Len(locals) \in 1..2
    /\ Cardinality(FamiliesOf(locals)) = Len(locals)
    /\ \A c \in ToSet(locals) : c.prefix = c.bits /\ ProductionPrefixIsPrivate(c)

\* parse_production_private_cidrs: private networks, no two of which overlap.
PrivateCidrsValid(cidrs) ==
    /\ Len(cidrs) \in 1..MaxPrivateCidrs
    /\ \A i \in 1..Len(cidrs) :
           /\ cidrs[i].prefix \in 1..cidrs[i].bits
           /\ ProductionPrefixIsNetwork(cidrs[i])
           /\ ProductionPrefixIsPrivate(cidrs[i])
           /\ \A j \in 1..(i - 1) : ~ProductionPrefixesOverlap(cidrs[j], cidrs[i])

\* parse_production_endpoint: the exact text of an endpoint.
ProductionEndpointValid(e) ==
    /\ e.url.scheme = Scheme[e.transport]
    /\ e.url.path = (IF e.transport = "wss" THEN "/kynp" ELSE "")
    /\ e.url.extra = "none"
    /\ e.url.port >= 1024
    /\ e.url.host \in ServerNames

\* valid_production_transports: one host, three ports, in a fixed order.
ProductionTransportsValid(t) ==
    LET ends == t.endpoints
    IN  /\ t.primary = "quic" /\ t.fallbacks = <<"wss", "tcp">>
        /\ [i \in 1..Len(ends) |-> ends[i].transport] = <<"quic", "wss", "tcp">>
        /\ \A e \in ToSet(ends) : ProductionEndpointValid(e)
        /\ \A i, j \in 1..3 : i # j => ends[i].url.host = ends[j].url.host /\ ends[i].url.port # ends[j].url.port

\* valid_production_control_plane.
ControlPlaneValid(url) ==
    url.scheme = "https" /\ url.extra = "none" /\ url.host \in ServerNames

\* ProductionNetworkProfileV2::validate.
ValidateV2(p) ==
    /\ p.schema = 2 /\ p.carrierAuth = 1   \* PRODUCTION_NETWORK_SCHEMA_VERSION, PRODUCTION_CARRIER_AUTH_VERSION
    /\ {p.id, p.identity, p.site} \subseteq ValidIds /\ p.name \in DisplayNames
    /\ ControlPlaneValid(p.control)
    /\ {p.localKey, p.peerKey} \subseteq GoodKeys /\ p.localKey # p.peerKey
    /\ p.keepalive # 0
    /\ HostAddressesValid(p.locals)
    /\ PrivateCidrsValid(p.cidrs)
    /\ FamiliesOf(p.locals) = FamiliesOf(p.cidrs)
    /\ ~PrefixSetsOverlap(p.locals, p.cidrs)
    /\ ProductionTransportsValid(p.transports)
    /\ p.connectTimeout \in 1..300 /\ p.healthInterval \in 1..300 /\ p.threshold \in 1..20
-----------------------------------------------------------------------------
VARIABLES profile, held, table

rules == <<profile, held, table>>

Endpoint(transport, url) == [transport |-> transport, url |-> url]

Endpoints == <<
    Endpoint("quic", Url("https", "a.example", 1024, "", "none")),
    Endpoint("wss", Url("wss", "a.example", 1025, "/kynp", "none")),
    Endpoint("tcp", Url("tcp", "a.example", 1026, "", "none"))>>

Cidrs ==
    {Cidr(V4Bits, a, p) : a \in Addresses(V4Bits), p \in 0..V4Bits}
        \cup {Cidr(V6Bits, a, p) : a \in Samples6, p \in 0..V6Bits}

Lists(S) == {<<x>> : x \in S} \cup {<<x, y>> : x, y \in S}

\* Host addresses of both families, private and not, and a network.
Hosts == {c \in Cidrs : c.prefix \in {c.bits, c.bits - 1} /\ c.address \in {1, 6, 33}}
\* The host addresses of a list's own families.
HostsFor(cidrs) ==
    (IF V4Bits \in FamiliesOf(cidrs) THEN <<Cidr(V4Bits, 6, V4Bits)>> ELSE << >>)
        \o (IF V6Bits \in FamiliesOf(cidrs) THEN <<Cidr(V6Bits, 33, V6Bits)>> ELSE << >>)

\* A text of schema 1 has no carrier version and no key of its own: none is read there.
Profile(schema, cidrs, locals) ==
    [schema |-> schema, carrierAuth |-> 1, id |-> "ok", identity |-> "ok", site |-> "ok", name |-> "ok",
     control |-> Url("https", "b.example", 0, "/", "none"),
     localKey |-> "k1", peerKey |-> "k2", keepalive |-> 25, cidrs |-> cidrs, locals |-> locals,
     transports |-> [primary |-> "quic", fallbacks |-> <<"wss", "tcp">>, endpoints |-> Endpoints],
     connectTimeout |-> 10, healthInterval |-> 5, threshold |-> 3]

\* The single departures from a sound profile that the rules look at.
Flaws(p) ==
    {[p EXCEPT !.id = "bad"], [p EXCEPT !.identity = "bad"], [p EXCEPT !.site = "bad"],
     [p EXCEPT !.schema = 3], [p EXCEPT !.carrierAuth = 2], [p EXCEPT !.name = ""], [p EXCEPT !.name = " padded"], [p EXCEPT !.keepalive = 0]}
    \cup {[p EXCEPT !.localKey = k] : k \in Keys} \cup {[p EXCEPT !.peerKey = k] : k \in Keys}
    \cup {[p EXCEPT !.control = Url(s, h, 0, "/", x)] : s \in {"https", "http"},
             h \in {"b.example", "10.0.0.1"}, x \in {"none", "user", "query", "fragment", "escape"}}
    \cup {[p EXCEPT !.connectTimeout = n] : n \in {0, 301}}
    \cup {[p EXCEPT !.healthInterval = n] : n \in {0, 301}}
    \cup {[p EXCEPT !.threshold = n] : n \in {0, 21}}
    \cup {[p EXCEPT !.transports.fallbacks = f] : f \in {<< >>, <<"wss">>, <<"tcp", "wss">>, <<"quic", "tcp">>}}
    \cup {[p EXCEPT !.transports.endpoints[i].url = Url(s, h, n, d, x)] :
             i \in 1..3, s \in {"https", "wss", "tcp"}, h \in {"", "a.example", "b.example"},
             n \in {0, 443, 1024, 1027}, d \in {"", "/", "/kynp"}, x \in {"none", "query", "escape"}}

Line(kind, text) == [kind |-> kind, text |-> text]

(* One profile; whether Mihomo's TUN holds the first network; and the lines  *)
(* netstat prints for its first network, one of which may be cut short.      *)
Init ==
    /\ \E schema \in 1..2 :
           profile \in {Profile(schema, c, HostsFor(c)) : c \in Lists(Cidrs)}
                    \cup {Profile(schema, <<c>>, l) : c \in Cidrs, l \in Lists(Hosts)}
                    \cup Flaws(Profile(schema, <<Cidr(V4Bits, 8, 3)>>, <<Cidr(V4Bits, 6, V4Bits)>>))
    /\ held = FALSE
    /\ table = << >>

TrustMihomo ==
    /\ ~held /\ table = << >>
    /\ held' = TRUE
    /\ UNCHANGED <<profile, table>>

\* The table is printed: a header, the route, and perhaps a line cut short.
PrintTable ==
    /\ table = << >> /\ ~held
    /\ Len(profile.cidrs) = 1 /\ Len(profile.locals) = 1
    /\ \E cut \in BOOLEAN, text \in NetstatPrints(profile.cidrs[1]) :
           table' = <<Line("blank", text), Line("header", text), Line("route", text)>>
                    \o (IF cut THEN <<Line("short", text)>> ELSE << >>)
    /\ UNCHANGED <<profile, held>>

Next == TrustMihomo \/ PrintTable

Spec == Init /\ [][Next]_rules
-----------------------------------------------------------------------------
Net(c) == Parse(c.bits, c.address, c.prefix)

First == profile.cidrs[1]
Last1 == profile.cidrs[Len(profile.cidrs)]

(* The three overlap tests of the code (of the route transaction, of the     *)
(* helper protocol and of the production profile) all decide whether two     *)
(* networks of one family share an address, and networks that share one are  *)
(* nested, never partly overlapping.                                         *)
OverlapIsIntersection ==
    LET share == /\ First.bits = Last1.bits
                 /\ Members(Net(First)) \cap Members(Net(Last1)) # {}
    IN  /\ OverlapsWith(Net(First), Net(Last1)) <=> share
        /\ ProductionPrefixesOverlap(First, Last1) <=> share
        /\ First.prefix # 0 /\ Last1.prefix # 0 => (CidrOverlaps(First, Last1) <=> share)
        /\ share => \/ Members(Net(First)) \subseteq Members(Net(Last1))
                    \/ Members(Net(Last1)) \subseteq Members(Net(First))

(* A conflict the rule lets through is harmless: either the networks are     *)
(* disjoint, or the existing one strictly contains the desired one, so that  *)
(* longest-prefix routing still sends every desired address to the new       *)
(* route and takes none from an address outside it.                          *)
AllowedIsDisjointOrCovering ==
    LET existing == [net |-> Net(First), interface |-> IF held THEN Mihomo ELSE "vpn"]
        desired == [net |-> Net(Last1), interface |-> "kyclash"]
    IN  ~Conflict({Mihomo}, existing, desired) =>
           \/ First.bits # Last1.bits
           \/ Members(Net(First)) \cap Members(Net(Last1)) = {}
           \/ First.prefix = 0
           \/ held /\ Members(Net(Last1)) \subseteq Members(Net(First)) /\ Net(First) # Net(Last1)

\* The owner tuple made of the profile's networks and of the tunnel that has its
\* local addresses.
OwnerOf(p) ==
    [revision |-> 1, cidrs |-> p.cidrs,
     tunnel |-> [interface |-> "utun4",
                 hasIpv4 |-> V4Bits \in FamiliesOf(p.locals),
                 hasIpv6 |-> V6Bits \in FamiliesOf(p.locals)],
     mihomo |-> IF held THEN <<Mihomo>> ELSE << >>]

PlanOf(p) == [i \in 1..Len(p.cidrs) |-> [net |-> Net(p.cidrs[i])]]

(* What the application connects: the networks of a profile that its own     *)
(* rule accepts, in an owner tuple the helper accepts, make a plan that      *)
(* passes validate_plan; no two of its routes share an address, and none is  *)
(* a default route.  (The rule of schema 1 alone gives none of this.)        *)
AcceptedOwnerIsAPlan ==
    Validate(profile) /\ ValidateOwner(OwnerOf(profile), {"utun4", Mihomo}) =>
        /\ ValidPlan(PlanOf(profile))
        /\ \A i, j \in 1..Len(profile.cidrs) :
               i < j /\ profile.cidrs[i].bits = profile.cidrs[j].bits =>
                   Members(Net(profile.cidrs[i])) \cap Members(Net(profile.cidrs[j])) = {}
        /\ \A c \in ToSet(profile.cidrs) : c.prefix # 0

(* The networks of a profile that the production rule accepts pass the two   *)
(* rules further down as well: the helper's, for the owner tuple, and        *)
(* validate_plan; every routed address is private, and no route takes the    *)
(* tunnel's own address.                                                     *)
ProductionNetworksAreRoutable ==
    ValidateV2(profile) =>
        /\ ValidateOwner(OwnerOf(profile), {"utun4", Mihomo})
        /\ ValidPlan(PlanOf(profile))
        /\ \A c \in ToSet(profile.cidrs) :
               /\ \E b \in PrivateBlocks :
                      b.bits = c.bits /\ Members(Net(c)) \subseteq Members(Net(b))
               /\ \A l \in ToSet(profile.locals) : c.bits = l.bits => l.address \notin Members(Net(c))

(* The route table is read back as netstat printed it, whichever of the      *)
(* forms it chose for the destination, and a table with a line that cannot   *)
(* be read is refused whole: no route the conflict check relies on is lost.  *)
NetstatIsRead ==
    table # << >> =>
        LET cut == Last(table).kind = "short"
            network == Cidr(First.bits, Net(First).network, First.prefix)
            read == ListRoutes(IF First.bits = V4Bits THEN table ELSE SubSeq(table, 1, 2),
                               IF First.bits = V6Bits THEN table ELSE SubSeq(table, 1, 2))
        IN  IF cut THEN read = {DiscoveryFailed}
            ELSE {Cidr(c.bits, Net(c).network, c.prefix) : c \in read} = {network}
=============================================================================
