--------------------------- MODULE RouteAddresses ---------------------------
(***************************************************************************)
(* CIDRs on their way to the routing table: the arithmetic of networking/   *)
(* route.rs (IpNetwork) and the conflict rule built on it (validate_plan,   *)
(* reject_conflicts, RouteConflictPolicy), the owner tuple the privileged   *)
(* helper is asked to accept (route_helper.rs), and the route table netstat *)
(* prints (macos_route.rs).  A CIDR is a record [bits, address, prefix]     *)
(* whose address may have host bits set, unlike the masked networks of      *)
(* IpNetwork.  Widths are parameters: the code computes in u128 for         *)
(* addresses of 32 and of 128 bits, the model in a word of WordBits for     *)
(* families of fewer bits or of exactly WordBits.                           *)
(***************************************************************************)
EXTENDS Naturals, Sequences, Bitwise, FiniteSets, SequencesExt

CONSTANTS
    WordBits,   \* width of the integer the code computes in, and of IPv6 (128)
    V4Bits,     \* width of an IPv4 address (32)
    OctetBits,    \* bits of one octet (8)
    Multicast,    \* the multicast blocks, one CIDR per family
    MaxRevision   \* i64::MAX

ASSUME WidthAssumption == WordBits \in Nat /\ V4Bits \in 1..(WordBits - 1)

V6Bits == WordBits

ASSUME OctetAssumption ==
    V4Bits % OctetBits = 0 /\ V6Bits % OctetBits = 0

-----------------------------------------------------------------------------
(* IpNetwork *)

\* u128::MAX << (bits - prefix); the shift by the whole word is special-cased.
Mask(bits, prefix) ==
    IF prefix = 0 THEN 0
    ELSE ((2^WordBits - 1) * 2^(bits - prefix)) % 2^WordBits

\* IpNetwork::parse keeps the masked network address.
Parse(bits, address, prefix) ==
    [bits |-> bits, network |-> address & Mask(bits, prefix), prefix |-> prefix]

OverlapsWith(a, b) ==
    /\ a.bits = b.bits
    /\ LET prefix == IF a.prefix < b.prefix THEN a.prefix ELSE b.prefix
           mask == Mask(a.bits, prefix)
       IN  a.network & mask = b.network & mask

\* permits_trusted_mihomo_covering_route: a broader route of the Mihomo TUN.
Permits(trusted, existing, desired) ==
    existing.interface \in trusted /\ existing.net.prefix < desired.net.prefix

(* reject_conflicts for one existing and one desired route: a default route  *)
(* is the underlay and never conflicts.                                      *)
Conflict(trusted, existing, desired) ==
    /\ existing.net.prefix # 0
    /\ OverlapsWith(desired.net, existing.net)
    /\ ~Permits(trusted, existing, desired)

\* validate_plan: at least one route, no two of which overlap.
ValidPlan(plan) ==
    /\ plan # << >>
    /\ \A i, j \in 1..Len(plan) : i < j => ~OverlapsWith(plan[i].net, plan[j].net)
-----------------------------------------------------------------------------
Addresses(bits) == 0..(2^bits - 1)

\* The addresses a network contains, from the definition of a prefix.
Members(n) ==
    {a \in Addresses(n.bits) : a \div 2^(n.bits - n.prefix) = n.network \div 2^(n.bits - n.prefix)}
-----------------------------------------------------------------------------
(* The owner tuple and the printed table *)

Cidr(bits, address, prefix) == [bits |-> bits, address |-> address, prefix |-> prefix]

Octets(bits) == bits \div OctetBits

\* The octets of an address, the most significant first.
Octet(c, i) == (c.address \div 2^(c.bits - OctetBits * i)) % 2^OctetBits
-----------------------------------------------------------------------------
IsMulticast(c) ==
    \E block \in Multicast :
        c.bits = block.bits /\ c.address & Mask(block.bits, block.prefix) = block.address

\* is_network_base of an IPv4 address: the host bits as one mask.
IsNetworkBase4(c) == c.address & (2^(c.bits - c.prefix) - 1) = 0

(* is_network_base of an IPv6 address: the octet the prefix ends in, then   *)
(* the octets after it, one by one.                                         *)
IsNetworkBase6(c) ==
    LET index == c.prefix \div OctetBits
        partial == c.prefix % OctetBits
    IN  /\ partial # 0 => Octet(c, index + 1) & (2^(OctetBits - partial) - 1) = 0
        /\ \A i \in (IF partial # 0 THEN index + 1 ELSE index)..(Octets(c.bits) - 1) :
               Octet(c, i + 1) = 0

IsNetworkBase(c) == IF c.bits = V4Bits THEN IsNetworkBase4(c) ELSE IsNetworkBase6(c)

\* parse_cidr of the helper protocol: no default, multicast or host-bit route.
ParseCidr(c) ==
    /\ c.prefix # 0
    /\ c.address # 0
    /\ ~IsMulticast(c)
    /\ c.prefix <= c.bits
    /\ IsNetworkBase(c)

(* cidr_overlaps: computed in an integer of the family's own width, on the   *)
(* addresses as written; a shift by the whole width never happens because    *)
(* parse_cidr refuses a zero prefix.                                         *)
CidrOverlaps(left, right) ==
    /\ left.bits = right.bits
    /\ LET width == left.bits
           prefix == IF left.prefix < right.prefix THEN left.prefix ELSE right.prefix
           mask == ((2^width - 1) * 2^(width - prefix)) % 2^width
       IN  left.address & mask = right.address & mask

CidrsAreNonOverlapping(cidrs) ==
    /\ \A i \in 1..Len(cidrs) : ParseCidr(cidrs[i])
    /\ \A i, j \in 1..Len(cidrs) : i < j => ~CidrOverlaps(cidrs[i], cidrs[j])

TunnelSupportsCidr(tunnel, c) ==
    IF c.bits = V4Bits THEN tunnel.hasIpv4 ELSE tunnel.hasIpv6

AllUnique(values) == Cardinality(ToSet(values)) = Len(values)

\* valid_mihomo_interfaces: at most one, so that uniqueness and order follow.
ValidMihomoInterfaces(interfaces, utun) == Len(interfaces) <= 1 /\ ToSet(interfaces) \subseteq utun

(* RouteLeaseOwner::validate; `utun' is the set of well-formed interface     *)
(* names, the identifiers are taken to be well formed.                       *)
ValidateOwner(owner, utun) ==
    /\ owner.revision \in 1..MaxRevision
    /\ owner.cidrs # << >> /\ Len(owner.cidrs) <= 64
    /\ AllUnique(owner.cidrs)
    /\ \A c \in ToSet(owner.cidrs) : ParseCidr(c) /\ TunnelSupportsCidr(owner.tunnel, c)
    /\ owner.tunnel.interface \in utun
    /\ ValidMihomoInterfaces(owner.mihomo, utun)
    /\ owner.tunnel.interface \notin ToSet(owner.mihomo)
    /\ CidrsAreNonOverlapping(owner.cidrs)
-----------------------------------------------------------------------------
NoPrefix == WordBits + 1   \* no prefix is printed
DiscoveryFailed == Cidr(0, 0, 0)   \* NetworkErrorCode::RouteDiscoveryFailed

(* What netstat prints in the Destination column for a route: `default', or  *)
(* the leading octets (trailing zero octets may be dropped) with a prefix    *)
(* when the octets printed do not tell it; a host route has flag H.          *)
NetstatPrints(c) ==
    IF c.prefix = 0 THEN {[octets |-> << >>, prefix |-> NoPrefix, host |-> FALSE]}
    ELSE LET all == [i \in 1..Octets(c.bits) |-> Octet(c, i)]
             shown == IF c.bits = V4Bits
                      THEN {k \in 1..Octets(c.bits) : c.address % 2^(c.bits - OctetBits * k) = 0}
                      ELSE {Octets(c.bits)}
         IN  {[octets |-> SubSeq(all, 1, k), prefix |-> c.prefix, host |-> FALSE] : k \in shown}
             \cup {[octets |-> SubSeq(all, 1, k), prefix |-> NoPrefix, host |-> FALSE] :
                       k \in {j \in shown : j * OctetBits = c.prefix}}
             \cup {[octets |-> all, prefix |-> NoPrefix, host |-> TRUE] : x \in {1} \cap {c.bits - c.prefix + 1}}

\* The address whose leading octets are given and whose others are zero.
Expanded(bits, octets) ==
    FoldLeft(LAMBDA a, i : a + octets[i] * 2^(bits - OctetBits * i), 0, [i \in 1..Len(octets) |-> i])

NormalizeIpv4Destination(text) ==
    LET prefix == IF text.prefix # NoPrefix THEN text.prefix
                  ELSE IF text.host THEN V4Bits
                  ELSE OctetBits * Len(text.octets)
    IN  IF Len(text.octets) > Octets(V4Bits) \/ prefix > V4Bits THEN DiscoveryFailed
        ELSE Cidr(V4Bits, Expanded(V4Bits, text.octets), prefix)

NormalizeIpv6Destination(text) ==
    LET prefix == IF text.prefix # NoPrefix THEN text.prefix ELSE V6Bits
    IN  IF Len(text.octets) # Octets(V6Bits) \/ prefix > V6Bits THEN DiscoveryFailed
        ELSE Cidr(V6Bits, Expanded(V6Bits, text.octets), prefix)

NormalizeDestination(text, bits) ==
    IF text.octets = << >> THEN Cidr(bits, 0, 0)
    ELSE IF bits = V4Bits THEN NormalizeIpv4Destination(text)
    ELSE NormalizeIpv6Destination(text)

(* parse_macos_netstat: lines before the header and empty lines are skipped, *)
(* one line that cannot be read fails the whole table, as does a table with  *)
(* no header.  A line is [kind, text]: "header", "blank", "short" or "route".*)
ParseMacosNetstat(lines, bits) ==
    LET headers == {i \in 1..Len(lines) : lines[i].kind = "header"}
        body == {i \in 1..Len(lines) : lines[i].kind \in {"short", "route"} /\ \E h \in headers : h < i}
        read == {IF lines[i].kind = "short" THEN DiscoveryFailed
                 ELSE NormalizeDestination(lines[i].text, bits) : i \in body}
    IN  IF headers = {} \/ DiscoveryFailed \in read THEN {DiscoveryFailed} ELSE read

\* list_routes: both families, or nothing at all.
ListRoutes(table4, table6) ==
    LET four == ParseMacosNetstat(table4, V4Bits)
        six == ParseMacosNetstat(table6, V6Bits)
    IN  IF DiscoveryFailed \in four \cup six THEN {DiscoveryFailed} ELSE four \cup six
=============================================================================
