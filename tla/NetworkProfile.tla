--------------------------- MODULE NetworkProfile ---------------------------
(***************************************************************************)
(* One network condition, decided twice: by the connect hooks, from the     *)
(* allow tuples internal/policy/enforcement.go compiles into the kernel      *)
(* map, and by the user-space engine of internal/policy/network_match.go.   *)
(*                                                                         *)
(* An address is a family and a host of it.  A "mapped" address is an IPv4  *)
(* host written as an IPv6 one: the hook sees family IPv6, the engine       *)
(* unmaps it.  A CIDR is a family and the set of hosts it covers; prefixes  *)
(* of mapped addresses are not among the inputs.                            *)
(***************************************************************************)
EXTENDS Integers

CONSTANTS Hosts,       \* host parts of addresses; ZeroHost is all zero bits
          ZeroHost

ASSUME HostAssumption == ZeroHost \in Hosts

Families == {"ipv4", "ipv6"}
Address == [family : Families \cup {"mapped"}, host : Hosts]
MaxPort == 65535
Ports == 1..MaxPort
PortRange == [from : Ports, to : Ports]
CIDR == [family : Families, hosts : SUBSET Hosts]
NetworkCondition == [default : {"observe", "deny"}, cidrs : SUBSET CIDR,
                     ports : SUBSET PortRange, families : SUBSET Families]

\* NetworkCondition.Validate.
ValidNetwork(c) ==
    /\ c.families # {}
    /\ \A cidr \in c.cidrs : cidr.family \in c.families
    /\ \A range \in c.ports : range.from <= range.to

-----------------------------------------------------------------------------
(* The compiled profile. *)

AllowTuple(family, host, port, flags) ==
    [family |-> family, host |-> host, port |-> port, flags |-> flags]

\* A host prefix and a single port are all that the kernel map can hold.
Representable(c) ==
    /\ \A cidr \in c.cidrs : \E h \in Hosts : cidr.hosts = {h}
    /\ \A range \in c.ports : range.from = range.to

enforcementAddresses(c) ==
    IF c.cidrs = {} THEN {[family |-> f, host |-> ZeroHost] : f \in c.families}
    ELSE {a \in [family : Families, host : Hosts] :
            \E cidr \in c.cidrs : cidr.family = a.family /\ a.host \in cidr.hosts}

enforcementPorts(c) == IF c.ports = {} THEN {0} ELSE {range.from : range \in c.ports}

MatchFlags(c) == (IF c.cidrs = {} THEN {"any_address"} ELSE {})
                 \cup (IF c.ports = {} THEN {"any_port"} ELSE {})

\* crossNetworkAllows.  With neither addresses nor ports nothing is allowed.
crossNetworkAllows(c) ==
    IF c.cidrs = {} /\ c.ports = {} THEN {}
    ELSE {AllowTuple(a.family, a.host, p, MatchFlags(c)) :
             a \in enforcementAddresses(c), p \in enforcementPorts(c)}

\* The hook's key holds the address as the socket call gives it.
KernelKey(a) ==
    IF a.family = "mapped" THEN [family |-> "ipv6", host |-> a] ELSE a

\* agentshield_network_tuple_allowed: the exact tuple, then any port of the
\* address, then any address of the family.
network_tuple_allowed(allows, a, port) ==
    LET key == KernelKey(a)
    IN  \/ AllowTuple(key.family, key.host, port, {}) \in allows
        \/ AllowTuple(key.family, key.host, 0, {"any_port"}) \in allows
        \/ AllowTuple(key.family, ZeroHost, port, {"any_address"}) \in allows

-----------------------------------------------------------------------------
(* The engine. *)

Unmap(a) == IF a.family = "mapped" THEN [family |-> "ipv4", host |-> a.host] ELSE a

matchCIDR(c, a) ==
    c.cidrs = {} \/ \E cidr \in c.cidrs : cidr.family = a.family /\ a.host \in cidr.hosts

matchPort(c, port) ==
    c.ports = {} \/ \E range \in c.ports : range.from <= port /\ port <= range.to

Selected(c, a, port) ==
    /\ a.family \in c.families
    /\ matchCIDR(c, a)
    /\ matchPort(c, port)

\* evaluateNetworkPolicy, on the unmapped destination.
Disposition(c, destination, port, protocol) ==
    LET selected == Selected(c, Unmap(destination), port)
    IN  IF c.default = "observe"
        THEN IF selected THEN "observed" ELSE "not_applicable"
        ELSE IF selected /\ protocol = "tcp" /\ (c.cidrs # {} \/ c.ports # {})
             THEN "allowed" ELSE "denied"

-----------------------------------------------------------------------------
\* The hook admits a native destination exactly when the engine's rule for the
\* same condition allows it, whatever wildcards the condition uses.
HookDecidesLikeEngine(c, a, port) ==
    network_tuple_allowed(crossNetworkAllows(c), a, port)
        <=> Disposition(c, a, port, "tcp") = "allowed"
=============================================================================
