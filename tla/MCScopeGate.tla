---------------------------- MODULE MCScopeGate ----------------------------
(* ScopeGate on sixteen IPv4 and eight IPv6 addresses. *)
EXTENDS ScopeGate

MCSpace    == [v \in Versions |-> IF v = 4 THEN 16 ELSE 8]
MCSizes    == {1, 2, 4, 8, 16}
MCBroadest == [v \in Versions |-> IF v = 4 THEN 4 ELSE 2]

\* The whole first block is blocked, like 127.0.0.0/8, a single address in the
\* middle of the space, and ::1.
MCBlocked == { [v |-> 4, base |-> 0,  size |-> 4],
               [v |-> 4, base |-> 11, size |-> 1],
               [v |-> 6, base |-> 1,  size |-> 1] }

Net(v, a, size) == [kind |-> "net", v |-> v, a |-> a, size |-> size]
AddressRange(v, a, w, b) == [kind |-> "range", v |-> v, a |-> a, w |-> w, b |-> b]

\* Plain addresses, blocks with and without host bits, adjacent and nested
\* ones, blocks around a blocked address, blocks that are too broad, ranges
\* that start before they end, after it, or in another version, and junk.
MCTokens ==
    { Net(4, 4, 1), Net(4, 3, 1), Net(4, 4, 2), Net(4, 7, 2), Net(4, 5, 4),
      Net(4, 10, 2), Net(4, 12, 4), Net(4, 8, 4), Net(4, 4, 8), Net(4, 8, 8),
      Net(6, 0, 1), Net(6, 2, 1), Net(6, 2, 2), Net(6, 4, 2), Net(6, 7, 2),
      Net(6, 4, 4), AddressRange(4, 5, 4, 8), AddressRange(4, 9, 4, 11),
      AddressRange(4, 13, 4, 9), AddressRange(4, 3, 6, 5),
      AddressRange(6, 2, 6, 5), [kind |-> "junk"] }

MCSettings == [ipv6 : BOOLEAN, maxHosts : {2, 6}]

MCCandidateSets == { Address, Address \cup HostName }
=============================================================================
