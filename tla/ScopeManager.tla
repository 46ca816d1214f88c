---------------------------- MODULE ScopeManager ----------------------------
(***************************************************************************)
(* The safety gate of every scan (scope.py): the text an operator types is  *)
(* parsed into a set of authorised networks, and every target a tool is to  *)
(* touch is tested against them.                                            *)
(*                                                                         *)
(* A network is an aligned block of addresses of one IP version; a prefix   *)
(* length is the size of the block.  Sizes, address spaces, the broadest    *)
(* accepted blocks and the blocked ranges are constants, so that the sixteen *)
(* and forty-eight bits of the code become a few addresses.                 *)
(***************************************************************************)
EXTENDS Integers, FiniteSets

Versions == {4, 6}

CONSTANTS
    Space,      \* how many addresses a version has
    Sizes,      \* the sizes a block may have: 1 and its multiples
    Broadest,   \* the largest block accepted (_MIN_PREFIX_V4, _MIN_PREFIX_V6)
    Blocked     \* _BLOCKED_NETWORKS

Address == UNION {[v : {x}, a : 0 .. Space[x] - 1] : x \in Versions}

\* A host name, or anything else that is not a literal address.
HostName == [host : {"name"}]

Network ==
    {n \in UNION {[v : {x}, base : 0 .. Space[x] - 1, size : Sizes] : x \in Versions} :
        n.base % n.size = 0 /\ n.base + n.size <= Space[n.v]}

ASSUME SpaceAssumption == Space \in [Versions -> Nat \ {0}]
ASSUME SizesAssumption ==
    /\ Sizes \subseteq Nat \ {0} /\ 1 \in Sizes
    /\ \A s, t \in Sizes : s <= t => t % s = 0
ASSUME BroadestAssumption == Broadest \in [Versions -> Sizes]
ASSUME BlockedAssumption == Blocked \subseteq Network

Span(v, from, to) == {[v |-> v, a |-> x] : x \in from .. to}
AddressesOf(n) == Span(n.v, n.base, n.base + n.size - 1)
Cover(nets) == UNION {AddressesOf(n) : n \in nets}
Overlaps(m, n) == AddressesOf(m) \cap AddressesOf(n) # {}

\* num_addresses, summed over a list of networks: an address counts once for
\* every network it is in.
SumOfSizes(nets) == Cardinality(UNION {{n} \X AddressesOf(n) : n \in nets})

\* ipaddress.collapse_addresses and summarize_address_range: the largest
\* blocks that hold only addresses of the given set.
LargestBlocks(addresses) ==
    LET fit == {n \in Network : AddressesOf(n) \subseteq addresses}
    IN  {n \in fit : \A m \in fit : Overlaps(m, n) => m.size <= n.size}

-----------------------------------------------------------------------------
(* Parsing.  A token is a network with a host part (a plain address has     *)
(* size 1), a range between two addresses, or something unreadable.         *)

WellFormed(token) ==
    \/ token.kind = "net"
    \/ token.kind = "range" /\ token.v = token.w /\ token.a <= token.b

\* strict=False: the host bits of a network are dropped.
ParseToken(token) ==
    IF token.kind = "net"
    THEN {n \in Network : /\ n.v = token.v /\ n.size = token.size
                          /\ token.a \in n.base .. n.base + n.size - 1}
    ELSE LargestBlocks(Span(token.v, token.a, token.b))

\* Mutant: the blocked ranges are compared by containment, not by overlap.
ValidateNetworkContained(n, settings) ==
    /\ n.v = 6 => settings.ipv6
    /\ \A b \in Blocked : ~ (AddressesOf(n) \subseteq AddressesOf(b))
    /\ n.size <= Broadest[n.v]

ValidateNetwork(n, settings) ==
    /\ n.v = 6 => settings.ipv6
    /\ \A b \in Blocked : ~ Overlaps(n, b)
    /\ n.size <= Broadest[n.v]

OfVersion(nets, v) == {n \in nets : n.v = v}

\* Mutant: overlaps are kept.
CollapseNothing(nets) == nets

\* The two versions are collapsed apart.
Collapse(nets) ==
    LargestBlocks(Cover(OfVersion(nets, 4))) \cup LargestBlocks(Cover(OfVersion(nets, 6)))

Networks(tokens) == Collapse(UNION {ParseToken(t) : t \in tokens})

\* parse raises a ScopeError on the first bad token and on too many IPv4
\* addresses; IPv6 is bounded by the prefix alone.
Accepts(tokens, settings) ==
    /\ tokens # {}
    /\ \A t \in tokens : WellFormed(t)
    /\ \A t \in tokens : \A n \in ParseToken(t) : ValidateNetwork(n, settings)
    /\ SumOfSizes(OfVersion(Networks(tokens), 4)) <= settings.maxHosts

\* str(network): what the database and the job carry.
AsToken(n) == [kind |-> "net", v |-> n.v, a |-> n.base, size |-> n.size]
CidrList(nets) == {AsToken(n) : n \in nets}

-----------------------------------------------------------------------------
(* Enforcement *)

\* Mutant: what is not a literal address is let through.
IsInScopeLenient(nets, target) ==
    target \in Address => target \in Cover(nets)

\* Anything but a literal address is rejected, a CIDR string too.
IsInScope(nets, target) ==
    /\ target \in Address
    /\ target \in Cover(nets)

FilterTargets(nets, targets) == {t \in targets : IsInScope(nets, t)}
=============================================================================
