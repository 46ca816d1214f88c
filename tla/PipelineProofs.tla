--------------------------- MODULE PipelineProofs ---------------------------
(***************************************************************************)
(* Theorems about Pipeline, for any scope, any profiles and anything the    *)
(* tools may print, with the two defects of host discovery or without.      *)
(***************************************************************************)
EXTENDS Pipeline, SequenceTheorems, FiniteSetTheorems, TLAPS

-----------------------------------------------------------------------------
(* The scope filter *)

LEMMA FilterKeepsScope == \A S : \A t \in Filter(S) : InScope(t)
BY DEF Filter, FilterTargets, InScope

\* A network consists of addresses.
LEMMA NetworkAddresses ==
    ASSUME NEW n \in Network
    PROVE  AddressesOf(n) \subseteq Address
<1>1. PICK x \in Versions : n \in [v : {x}, base : 0 .. Space[x] - 1, size : Sizes]
  BY DEF Network
<1>2. n.v = x /\ n.base \in Nat /\ n.size \in Nat /\ Space[x] \in Nat
  <2>1. n.v = x /\ n.base \in 0 .. Space[x] - 1 /\ n.size \in Sizes
    BY <1>1
  <2>2. Space[x] \in Nat
    BY SpaceAssumption
  <2>3. n.size \in Nat
    BY <2>1, SizesAssumption
  <2> QED  BY <2>1, <2>2, <2>3
<1>3. n.base + n.size <= Space[x]
  BY <1>2 DEF Network
<1>4. ASSUME NEW a \in n.base .. n.base + n.size - 1
      PROVE  [v |-> n.v, a |-> a] \in [v : {x}, a : 0 .. Space[x] - 1]
  BY <1>2, <1>3, <1>4
<1> QED  BY <1>4 DEF AddressesOf, Span, Address

\* Host discovery never hands nmap anything outside the scope.
LEMMA DiscoveryInScope == \A t \in DiscoveryTargets : InScope(t)
<1>1. CASE "cidr_filter" \in Repairs
  <2> SUFFICES ASSUME NEW t \in Cover(ScopeNetworks) PROVE InScope(t)
    BY <1>1 DEF DiscoveryTargets
  <2>1. PICK n \in ScopeNetworks : t \in AddressesOf(n)
    BY DEF Cover
  <2>2. t \in Address
    BY <2>1, NetworkAddresses, ScanAssumption
  <2> QED  BY <2>2 DEF InScope, IsInScope
<1>2. CASE "cidr_filter" \notin Repairs
  BY <1>2, FilterKeepsScope DEF DiscoveryTargets
<1> QED  BY <1>1, <1>2

\* What is in scope is an address, and of those there are finitely many.
LEMMA InScopeFinite ==
    ASSUME NEW S, \A x \in S : InScope(x)
    PROVE  IsFiniteSet(S)
<1>1. ASSUME NEW v \in Versions
      PROVE  IsFiniteSet([v : {v}, a : 0 .. Space[v] - 1])
  <2>1. IsFiniteSet(0 .. Space[v] - 1)
    <3>1. 0 \in Int /\ Space[v] - 1 \in Int
      BY SpaceAssumption
    <3> QED  BY <3>1, FS_Interval
  <2>2. [a \in 0 .. Space[v] - 1 |-> [v |-> v, a |-> a]] \in
            Surjection(0 .. Space[v] - 1, [v : {v}, a : 0 .. Space[v] - 1])
    BY DEF Surjection
  <2> QED  BY <2>1, <2>2, FS_Surjection
<1>2. Address = [v : {4}, a : 0 .. Space[4] - 1] \cup [v : {6}, a : 0 .. Space[6] - 1]
  BY DEF Address, Versions
<1>3. IsFiniteSet(Address)
  BY <1>1, <1>2, FS_Union DEF Versions
<1>4. S \subseteq Address
  BY DEF InScope, IsInScope
<1> QED  BY <1>3, <1>4, FS_Subset

-----------------------------------------------------------------------------
(* The rows *)

\* What every list of rows a handler leaves behind satisfies: the two properties
\* below, with the scope stated for hosts and findings only, from where it
\* reaches services and web targets through the links.
RowsSafe(hs, svcs, web, raw) ==
    /\ \A ip \in DOMAIN hs : InScope(ip)
    /\ \A k \in DOMAIN svcs : k = <<k[1], k[2]>> /\ k[1] \in DOMAIN hs
    /\ \A w \in web : <<w.host, w.port>> \in DOMAIN svcs
    /\ \A f \in raw :
          /\ InScope(f.host)
          /\ f.linked => f.host \in DOMAIN hs
          /\ f.source = "exposure" => <<f.host, f.port>> \in DOMAIN svcs

HostRow == [by : {"host_discovery", "port_discovery"}, name : {NoName, "nmap", "dnsx"}]

RowsTyped(hs, svcs, web, raw) ==
    /\ \A ip \in DOMAIN hs : hs[ip] \in HostRow
    /\ DOMAIN svcs \subseteq Printed \X Nat /\ IsFiniteSet(DOMAIN svcs)
    /\ web \subseteq WebLines /\ IsFiniteSet(web)
    /\ raw \subseteq Finding

RowsInv ==
    /\ RowsSafe(hosts, services, webTargets, findings)
    /\ RowsTyped(hosts, services, webTargets, findings)

SameHost(h, g) == g.by = h.by /\ (h.name # NoName => g.name = h.name)

KeptIn(hs, svcs, web, raw) ==
    /\ \A ip \in DOMAIN hosts : ip \in DOMAIN hs /\ SameHost(hosts[ip], hs[ip])
    /\ \A k \in DOMAIN services : k \in DOMAIN svcs /\ svcs[k] = services[k]
    /\ webTargets \subseteq web /\ findings \subseteq raw

\* New hosts are the work of the stage that runs, and only port discovery adds
\* services.
FoundBy(hs, svcs) ==
    \/ /\ svcs = services
       /\ \A ip \in DOMAIN hs \ DOMAIN hosts : hs[ip].by = "host_discovery"
    \/ /\ Running("port_discovery")
       /\ \A ip \in DOMAIN hs \ DOMAIN hosts : hs[ip].by = "port_discovery"

\* What a handler leaves behind: rows as above, that keep what was found, and
\* after an assessment every exposure.
Leaves(result, hs, svcs, web, raw) ==
    /\ result \in {"COMPLETED", "FAILED"}
    /\ RowsSafe(hs, svcs, web, raw) /\ RowsTyped(hs, svcs, web, raw)
    /\ KeptIn(hs, svcs, web, raw)
    /\ FoundBy(hs, svcs)
    /\ Running("vuln_assessment") /\ profile.runVuln /\ result = "COMPLETED" =>
          Exposures \subseteq raw

\* How a handler ends.
Ends ==
    \/ SessionBreaks
    \/ \E result, hs, svcs, web, raw :
          Leaves(result, hs, svcs, web, raw) /\ StageEnds(result, hs, svcs, web, raw)

LEMMA SameRows ==
    ASSUME RowsInv
    PROVE  /\ KeptIn(hosts, services, webTargets, findings)
           /\ FoundBy(hosts, services)
BY DEF KeptIn, SameHost, FoundBy

\* nmap reports hosts again, with a name or without.
LEMMA WithHostsKeep ==
    ASSUME RowsInv, NEW up, NEW named, NEW stage, NEW hs,
           stage \in {"host_discovery", "port_discovery"}, hs = WithHosts(up, named, stage)
    PROVE  /\ \A ip : ip \in DOMAIN hs <=> ip \in DOMAIN hosts \/ ip \in up
           /\ \A ip \in DOMAIN hs : hs[ip] \in HostRow
           /\ \A ip \in DOMAIN hosts : SameHost(hosts[ip], hs[ip])
           /\ \A ip \in DOMAIN hs \ DOMAIN hosts : hs[ip].by = stage
<1>1. DOMAIN hs = DOMAIN hosts \cup up
  BY DEF WithHosts
<1>2. ASSUME NEW ip \in DOMAIN hosts
      PROVE  hs[ip] \in HostRow /\ SameHost(hosts[ip], hs[ip])
  <2>1. hosts[ip] \in HostRow
    BY DEF RowsInv, RowsTyped
  <2>2. hs[ip] = [hosts[ip] EXCEPT !.name = IF @ = NoName /\ ip \in named THEN "nmap" ELSE @]
    BY DEF WithHosts
  <2> QED  BY <2>1, <2>2 DEF HostRow, SameHost
<1>3. ASSUME NEW ip \in DOMAIN hs \ DOMAIN hosts
      PROVE  hs[ip] \in HostRow /\ hs[ip].by = stage
  <2>1. hs[ip] = [by |-> stage, name |-> IF ip \in named THEN "nmap" ELSE NoName]
    BY <1>1, <1>3 DEF WithHosts
  <2> QED  BY <2>1 DEF HostRow
<1> QED  BY <1>1, <1>2, <1>3

LEMMA NamedByDnsKeep ==
    ASSUME RowsInv, NEW records, NEW hs, hs = NamedByDns(records)
    PROVE  /\ DOMAIN hs = DOMAIN hosts
           /\ \A ip \in DOMAIN hosts : hs[ip] \in HostRow /\ SameHost(hosts[ip], hs[ip])
<1>1. DOMAIN hs = DOMAIN hosts
  BY DEF NamedByDns
<1>2. ASSUME NEW ip \in DOMAIN hosts
      PROVE  hs[ip] \in HostRow /\ SameHost(hosts[ip], hs[ip])
  <2>1. hosts[ip] \in HostRow
    BY DEF RowsInv, RowsTyped
  <2>2. hs[ip] = IF ip \in records /\ hosts[ip].name = NoName
                 THEN [hosts[ip] EXCEPT !.name = "dnsx"] ELSE hosts[ip]
    BY DEF NamedByDns
  <2> QED  BY <2>1, <2>2 DEF HostRow, SameHost
<1> QED  BY <1>1, <1>2

\* The lines port discovery keeps are in scope, finitely many, and about ports.
LEMMA KeptLinesTypes ==
    ASSUME NEW up, NEW p \in PortReports(up)
    PROVE  /\ \A l \in KeptLines(p) : InScope(l.ip) /\ l.ip \in Printed /\ l.port \in Nat
           /\ IsFiniteSet({<<l.ip, l.port>> : l \in KeptLines(p)})
<1>1. p \subseteq PortLines /\ IsFiniteSet(p)
  BY DEF PortReports, Output
<1>2. KeptLines(p) \subseteq PortLines /\ IsFiniteSet(KeptLines(p))
  BY <1>1, FS_Subset DEF KeptLines
<1>3. [l \in KeptLines(p) |-> <<l.ip, l.port>>] \in
          Surjection(KeptLines(p), {<<l.ip, l.port>> : l \in KeptLines(p)})
  BY DEF Surjection
<1>4. IsFiniteSet({<<l.ip, l.port>> : l \in KeptLines(p)})
  BY <1>2, <1>3, FS_Surjection
<1> QED  BY <1>2, <1>4, OutputAssumption DEF KeptLines

\* The findings of an assessment are well typed, in scope and linked to rows.
LEMMA AssessmentRows ==
    ASSUME RowsInv, NEW printed \in Output(NucleiLines)
    PROVE  \A f \in NucleiFindings(printed) \cup Exposures :
              /\ f \in Finding /\ InScope(f.host)
              /\ f.linked => f.host \in DOMAIN hosts
              /\ f.source = "exposure" => <<f.host, f.port>> \in DOMAIN services
<1>1. ASSUME NEW f \in Exposures
      PROVE  /\ f \in Finding /\ InScope(f.host) /\ f.host \in DOMAIN hosts
             /\ <<f.host, f.port>> \in DOMAIN services
  <2>1. PICK k \in DOMAIN services :
           f = [source |-> "exposure", host |-> k[1], asset |-> k[1], port |-> k[2],
                linked |-> TRUE]
    BY <1>1 DEF Exposures
  <2>2. k = <<k[1], k[2]>> /\ k[1] \in DOMAIN hosts /\ InScope(k[1])
    BY DEF RowsInv, RowsSafe
  <2>3. k[1] \in Printed /\ k[2] \in Nat
    BY DEF RowsInv, RowsTyped
  <2> QED  BY <2>1, <2>2, <2>3 DEF Finding
<1>2. ASSUME NEW f \in NucleiFindings(printed)
      PROVE  /\ f \in Finding /\ InScope(f.host) /\ f.source = "nuclei"
             /\ f.linked => f.host \in DOMAIN hosts
  <2>1. PICK l \in {m \in printed : InScope(m.host)} :
           f = [source |-> "nuclei", host |-> l.host, asset |-> l.url, port |-> 0,
                linked |-> l.host \in DOMAIN hosts]
    BY <1>2 DEF NucleiFindings
  <2>2. l.host \in Printed /\ l.url \in Printed /\ InScope(l.host)
    BY OutputAssumption DEF Output
  <2>3. f.host = l.host /\ f.source = "nuclei" /\ f.linked = (l.host \in DOMAIN hosts)
    BY <2>1
  <2>4. f \in Finding
    BY <2>1, <2>2 DEF Finding
  <2> QED  BY <2>2, <2>3, <2>4
<1> QED  BY <1>1, <1>2

-----------------------------------------------------------------------------
(* The handlers *)

LEMMA HandlerEnds ==
    ASSUME RowsInv, Handler
    PROVE  Ends
<1>0. /\ RowsSafe(hosts, services, webTargets, findings)
      /\ RowsTyped(hosts, services, webTargets, findings)
      /\ KeptIn(hosts, services, webTargets, findings)
      /\ FoundBy(hosts, services)
  BY SameRows DEF RowsInv
<1>1. ASSUME NEW result \in {"COMPLETED", "FAILED"}, NothingNew(result),
             ~ (Running("vuln_assessment") /\ profile.runVuln /\ result = "COMPLETED")
      PROVE  Ends
  <2>1. Leaves(result, hosts, services, webTargets, findings)
    BY <1>0, <1>1 DEF Leaves
  <2> QED  BY <1>1, <2>1 DEF NothingNew, Ends
<1>2. CASE HostDiscovery
  <2>1. ASSUME NEW r \in NmapReports,
               Completed(WithHosts(Filter(r.up), r.named, "host_discovery"),
                         services, webTargets, findings)
        PROVE  Ends
    <3>0. PICK up, named, by : up = Filter(r.up) /\ named = r.named /\ by = "host_discovery"
      OBVIOUS
    <3>1. PICK hs : hs = WithHosts(up, named, by)
      OBVIOUS
    <3>2. /\ \A ip : ip \in DOMAIN hs <=> ip \in DOMAIN hosts \/ ip \in up
          /\ \A ip \in DOMAIN hs : hs[ip] \in HostRow
          /\ \A ip \in DOMAIN hosts : SameHost(hosts[ip], hs[ip])
          /\ \A ip \in DOMAIN hs \ DOMAIN hosts : hs[ip].by = by
      <4>1. by \in {"host_discovery", "port_discovery"}
        BY <3>0
      <4> QED  BY <3>1, <4>1, WithHostsKeep
    <3>3. RowsSafe(hs, services, webTargets, findings)
      BY <1>0, <3>0, <3>2, FilterKeepsScope DEF RowsSafe
    <3>4. RowsTyped(hs, services, webTargets, findings)
      BY <1>0, <3>2 DEF RowsTyped
    <3>5. KeptIn(hs, services, webTargets, findings) /\ FoundBy(hs, services)
      BY <3>0, <3>2 DEF KeptIn, FoundBy
    <3>6. Leaves("COMPLETED", hs, services, webTargets, findings)
      BY <1>2, <3>3, <3>4, <3>5 DEF Leaves, HostDiscovery, Running
    <3> QED  BY <2>1, <3>0, <3>1, <3>6 DEF Completed, Ends
  <2> QED  BY <1>1, <1>2, <2>1 DEF HostDiscovery, Running
<1>3. CASE PortDiscovery
  <2>1. ASSUME NEW r \in NmapReports, NEW p \in PortReports(r.up),
               Completed(WithHosts(Filter(r.up) \cup {l.ip : l \in KeptLines(p)},
                                   r.named, "port_discovery"),
                         WithServices(KeptLines(p)), webTargets, findings)
        PROVE  Ends
    <3>0. PICK up, named, by, svcs :
             /\ up = Filter(r.up) \cup {l.ip : l \in KeptLines(p)}
             /\ named = r.named /\ by = "port_discovery"
             /\ svcs = WithServices(KeptLines(p))
      OBVIOUS
    <3>1. PICK hs : hs = WithHosts(up, named, by)
      OBVIOUS
    <3>2. /\ \A ip : ip \in DOMAIN hs <=> ip \in DOMAIN hosts \/ ip \in up
          /\ \A ip \in DOMAIN hs : hs[ip] \in HostRow
          /\ \A ip \in DOMAIN hosts : SameHost(hosts[ip], hs[ip])
          /\ \A ip \in DOMAIN hs \ DOMAIN hosts : hs[ip].by = by
      <4>1. by \in {"host_discovery", "port_discovery"}
        BY <3>0
      <4> QED  BY <3>1, <4>1, WithHostsKeep
    <3>3. /\ DOMAIN svcs = DOMAIN services \cup {<<l.ip, l.port>> : l \in KeptLines(p)}
          /\ \A k \in DOMAIN services : svcs[k] = services[k]
      BY <3>0 DEF WithServices
    <3>4. \A ip \in up : InScope(ip)
      BY <3>0, FilterKeepsScope, KeptLinesTypes
    <3>5. \A k \in DOMAIN svcs : k = <<k[1], k[2]>> /\ k[1] \in DOMAIN hs
      BY <1>0, <3>0, <3>2, <3>3 DEF RowsSafe
    <3>6. RowsSafe(hs, svcs, webTargets, findings)
      BY <1>0, <3>2, <3>3, <3>4, <3>5 DEF RowsSafe
    <3>7. DOMAIN svcs \subseteq Printed \X Nat /\ IsFiniteSet(DOMAIN svcs)
      <4>1. \A l \in KeptLines(p) : l.ip \in Printed /\ l.port \in Nat
        BY KeptLinesTypes
      <4>2. PICK new : new = {<<l.ip, l.port>> : l \in KeptLines(p)}
        OBVIOUS
      <4>3. new \subseteq Printed \X Nat
        BY <4>1, <4>2
      <4>4. IsFiniteSet(new)
        BY <4>2, KeptLinesTypes
      <4>5. DOMAIN services \subseteq Printed \X Nat /\ IsFiniteSet(DOMAIN services)
        BY <1>0 DEF RowsTyped
      <4>6. DOMAIN svcs = DOMAIN services \cup new
        BY <3>3, <4>2
      <4>7. IsFiniteSet(DOMAIN services \cup new)
        BY <4>4, <4>5, FS_Union
      <4> QED  BY <4>3, <4>5, <4>6, <4>7
    <3>8. RowsTyped(hs, svcs, webTargets, findings)
      BY <1>0, <3>2, <3>7 DEF RowsTyped
    <3>9. KeptIn(hs, svcs, webTargets, findings) /\ FoundBy(hs, svcs)
      BY <1>3, <3>0, <3>2, <3>3 DEF KeptIn, FoundBy, PortDiscovery
    <3>10. Leaves("COMPLETED", hs, svcs, webTargets, findings)
      BY <1>3, <3>6, <3>8, <3>9 DEF Leaves, PortDiscovery, Running
    <3> QED  BY <2>1, <3>0, <3>1, <3>10 DEF Completed, Ends
  <2> QED  BY <1>1, <1>3, <2>1 DEF PortDiscovery, Running
<1>4. CASE LogOnly
  BY <1>1, <1>4 DEF LogOnly, Running
<1>5. CASE HttpDiscovery
  <2>1. ASSUME NEW lines \in SUBSET WebLines, IsFiniteSet(lines), CreateWebTargets(lines)
        PROVE  Ends
    <3>1. ASSUME NEW new \in SUBSET lines, NEW result \in {"COMPLETED", "FAILED"},
                 \A l \in new : <<l.host, l.port>> \in DOMAIN services
          PROVE  Leaves(result, hosts, services, webTargets \cup new, findings)
      <4>1. RowsSafe(hosts, services, webTargets \cup new, findings)
        BY <1>0, <3>1 DEF RowsSafe
      <4>2. RowsTyped(hosts, services, webTargets \cup new, findings)
        BY <1>0, <2>1, FS_Subset, FS_Union DEF RowsTyped
      <4> QED  BY <1>0, <1>5, <4>1, <4>2 DEF Leaves, KeptIn, HttpDiscovery, Running
    <3>2. PICK known : known = {l \in lines : <<l.host, l.port>> \in DOMAIN services}
      OBVIOUS
    <3>3. CASE known = lines /\ Completed(hosts, services, webTargets \cup lines, findings)
      <4>1. \A l \in lines : <<l.host, l.port>> \in DOMAIN services
        BY <3>2, <3>3
      <4>2. Leaves("COMPLETED", hosts, services, webTargets \cup lines, findings)
        BY <3>1, <4>1
      <4> QED  BY <3>3, <4>2 DEF Completed, Ends
    <3>4. ASSUME NEW before \in SUBSET known,
                 StageEnds("FAILED", hosts, services, webTargets \cup before, findings)
          PROVE  Ends
      <4>1. before \in SUBSET lines /\ \A l \in before : <<l.host, l.port>> \in DOMAIN services
        BY <3>2
      <4>2. Leaves("FAILED", hosts, services, webTargets \cup before, findings)
        BY <3>1, <4>1
      <4> QED  BY <3>4, <4>2 DEF Ends
    <3> QED  BY <2>1, <3>2, <3>3, <3>4 DEF CreateWebTargets, Ends
  <2>2. ASSUME NEW lines \in Output(WebLines)
        PROVE  /\ {l \in lines : InScope(l.host)} \in SUBSET WebLines
               /\ IsFiniteSet({l \in lines : InScope(l.host)})
    BY FS_Subset DEF Output
  <2>3. CASE HttpPairs = {} /\ NothingNew("COMPLETED") /\ NoToolRuns
    BY <1>1, <1>5, <2>3 DEF HttpDiscovery, Running
  <2>4. CASE \E lines \in Output(WebLines) : CreateWebTargets({l \in lines : InScope(l.host)})
    <3>1. PICK lines \in Output(WebLines) : CreateWebTargets({l \in lines : InScope(l.host)})
      BY <2>4
    <3>2. PICK kept : kept = {l \in lines : InScope(l.host)}
      OBVIOUS
    <3>3. kept \in SUBSET WebLines /\ IsFiniteSet(kept) /\ CreateWebTargets(kept)
      BY <2>2, <3>1, <3>2
    <3> QED  BY <2>1, <3>3
  <2> QED  BY <1>5, <2>3, <2>4 DEF HttpDiscovery
<1>6. CASE DnsEnrich
  <2>1. ASSUME NEW records, Completed(NamedByDns(records), services, webTargets, findings)
        PROVE  Ends
    <3>1. PICK hs : hs = NamedByDns(records)
      OBVIOUS
    <3>2. /\ DOMAIN hs = DOMAIN hosts
          /\ \A ip \in DOMAIN hosts : hs[ip] \in HostRow /\ SameHost(hosts[ip], hs[ip])
      BY <3>1, NamedByDnsKeep
    <3>3. Leaves("COMPLETED", hs, services, webTargets, findings)
      BY <1>0, <1>6, <3>2 DEF Leaves, RowsSafe, RowsTyped, KeptIn, FoundBy, DnsEnrich, Running
    <3> QED  BY <2>1, <3>1, <3>3 DEF Completed, Ends
  <2>2. CASE \/ NothingNew("COMPLETED")
             \/ NothingNew("FAILED")
             \/ SessionBreaks
    BY <1>1, <1>6, <2>2 DEF DnsEnrich, Running, Ends
  <2>3. CASE \E records \in SUBSET Printed :
                Completed(NamedByDns(Filter(records)), services, webTargets, findings)
    BY <2>1, <2>3
  <2> QED  BY <1>6, <2>2, <2>3 DEF DnsEnrich
<1>7. CASE VulnAssessment
  <2>1. ASSUME NEW new, NEW result \in {"COMPLETED", "FAILED"},
               StageEnds(result, hosts, services, webTargets, findings \cup new),
               result = "COMPLETED" => Exposures \subseteq new,
               \A f \in new :
                  /\ f \in Finding /\ InScope(f.host)
                  /\ f.linked => f.host \in DOMAIN hosts
                  /\ f.source = "exposure" => <<f.host, f.port>> \in DOMAIN services
        PROVE  Ends
    <3>1. RowsSafe(hosts, services, webTargets, findings \cup new)
      BY <1>0, <2>1 DEF RowsSafe
    <3>2. RowsTyped(hosts, services, webTargets, findings \cup new)
      BY <1>0, <2>1 DEF RowsTyped
    <3>3. Leaves(result, hosts, services, webTargets, findings \cup new)
      BY <1>0, <2>1, <3>1, <3>2 DEF Leaves, KeptIn
    <3> QED  BY <2>1, <3>3 DEF Ends
  <2>2. ASSUME NEW printed \in Output(NucleiLines),
               \/ Assessed(NucleiFindings(printed) \cup Exposures)
               \/ StageEnds("FAILED", hosts, services, webTargets,
                            findings \cup NucleiFindings(printed))
        PROVE  Ends
    <3>1. PICK some, all : some = NucleiFindings(printed) /\ all = some \cup Exposures
      OBVIOUS
    <3>2. \A f \in all :
              /\ f \in Finding /\ InScope(f.host)
              /\ f.linked => f.host \in DOMAIN hosts
              /\ f.source = "exposure" => <<f.host, f.port>> \in DOMAIN services
      BY <3>1, AssessmentRows
    <3>3. some \subseteq all /\ Exposures \subseteq all
      BY <3>1
    <3>4. CASE StageEnds("COMPLETED", hosts, services, webTargets, findings \cup all)
      BY <2>1, <3>2, <3>3, <3>4
    <3>5. CASE StageEnds("FAILED", hosts, services, webTargets, findings \cup some)
      BY <2>1, <3>2, <3>3, <3>5
    <3> QED  BY <2>2, <3>1, <3>4, <3>5 DEF Assessed, Completed
  <2>3. CASE Assessed(Exposures)
    <3>1. {} \in Output(NucleiLines)
      BY FS_EmptySet DEF Output
    <3>2. \A f \in Exposures :
              /\ f \in Finding /\ InScope(f.host)
              /\ f.linked => f.host \in DOMAIN hosts
              /\ f.source = "exposure" => <<f.host, f.port>> \in DOMAIN services
      BY <3>1, AssessmentRows
    <3> QED  BY <2>1, <2>3, <3>2 DEF Assessed, Completed
  <2> QED  BY <1>1, <1>7, <2>2, <2>3 DEF VulnAssessment, WithoutNuclei
<1>8. CASE Normalization
  BY <1>1, <1>8 DEF Normalization, Running
<1> QED  BY <1>2, <1>3, <1>4, <1>5, <1>6, <1>7, <1>8 DEF Handler

-----------------------------------------------------------------------------
(* The tools *)

ToolInv == \A t \in tool.targets : InScope(t)

\* Every tool gets filtered targets.
LEMMA ToolsSafe ==
    ASSUME ToolInv, Handler
    PROVE  \A t \in tool'.targets : InScope(t)
<1>1. ASSUME NEW name, NEW targets, ToolRuns(name, targets), \A t \in targets : InScope(t)
      PROVE  \A t \in tool'.targets : InScope(t)
  BY <1>1 DEF ToolRuns
<1>2. ASSUME NoToolRuns
      PROVE  \A t \in tool'.targets : InScope(t)
  BY <1>2 DEF NoToolRuns, ToolInv
<1>3. CASE HostDiscovery
  BY <1>1, <1>2, <1>3, DiscoveryInScope DEF HostDiscovery
<1>4. CASE PortDiscovery
  BY <1>1, <1>2, <1>4, FilterKeepsScope DEF PortDiscovery
<1>5. CASE HttpDiscovery
  BY <1>1, <1>2, <1>5, FilterKeepsScope DEF HttpDiscovery
<1>6. CASE DnsEnrich
  BY <1>1, <1>2, <1>6, FilterKeepsScope DEF DnsEnrich
<1>7. CASE VulnAssessment
  BY <1>1, <1>2, <1>7, FilterKeepsScope DEF VulnAssessment, WithoutNuclei, NucleiTargets
<1>8. CASE LogOnly \/ Normalization
  BY <1>2, <1>8 DEF LogOnly, Normalization
<1> QED  BY <1>3, <1>4, <1>5, <1>6, <1>7, <1>8 DEF Handler

LEMMA StageEndsRows ==
    ASSUME NEW result, NEW hs, NEW svcs, NEW web, NEW raw,
           StageEnds(result, hs, svcs, web, raw)
    PROVE  hosts' = hs /\ services' = svcs /\ webTargets' = web /\ findings' = raw
BY DEF StageEnds

LEMMA EmptyRows ==
    /\ RowsSafe(Empty, Empty, {}, {}) /\ RowsTyped(Empty, Empty, {}, {})
    /\ DOMAIN Empty = {}
BY FS_EmptySet DEF RowsSafe, RowsTyped, Empty

LEMMA RowsStep ==
    ASSUME RowsInv, ToolInv, [Next]_vars
    PROVE  RowsInv' /\ ToolInv'
<1>1. CASE Handler
  <2>1. ToolInv'
    BY <1>1, ToolsSafe DEF ToolInv, InScope
  <2>2. CASE SessionBreaks
    BY <2>1, <2>2, EmptyRows DEF SessionBreaks, RowsInv, RowsSafe, RowsTyped, InScope
  <2>3. ASSUME NEW result, NEW hs, NEW svcs, NEW web, NEW raw,
               Leaves(result, hs, svcs, web, raw), StageEnds(result, hs, svcs, web, raw)
        PROVE  RowsInv'
    <3>1. hosts' = hs /\ services' = svcs /\ webTargets' = web /\ findings' = raw
      BY <2>3, StageEndsRows
    <3> QED  BY <2>3, <3>1 DEF Leaves, RowsInv, RowsSafe, RowsTyped, InScope
  <2> QED  BY <1>1, <2>1, <2>2, <2>3, HandlerEnds DEF Ends
<1>2. CASE UNCHANGED <<hosts, services, webTargets, findings, tool>>
  BY <1>2 DEF RowsInv, ToolInv, RowsSafe, RowsTyped, InScope
<1>3. CASE FinalizeBreaks
  BY <1>3, EmptyRows DEF FinalizeBreaks, SessionBreaks, NoToolRuns, RowsInv, ToolInv,
     RowsSafe, RowsTyped, InScope
<1> QED
  BY <1>1, <1>2, <1>3
  DEF Next, Run, StageCancelled, StageSkipped, StageBegins, Finalize, PipelineError,
      OperatorCancels, Rows, World, vars

LEMMA RowsInvariant == Spec => [](RowsInv /\ ToolInv)
<1>1. Init => RowsInv /\ ToolInv
  BY EmptyRows DEF Init, RowsInv, ToolInv
<1>2. RowsInv /\ ToolInv /\ [Next]_vars => (RowsInv /\ ToolInv)'
  BY RowsStep
<1> QED  BY <1>1, <1>2, PTL DEF Spec

\* Whatever the tools print, no tool is started on an address outside the scope, and
\* the host of every row and of every finding is inside it.
THEOREM NothingOutsideCorrect == Spec => []NothingOutside
<1>1. RowsInv /\ ToolInv => NothingOutside
  <2> SUFFICES ASSUME RowsInv, ToolInv PROVE NothingOutside
    OBVIOUS
  <2>1. \A k \in DOMAIN services : InScope(k[1])
    BY DEF RowsInv, RowsSafe
  <2>2. \A w \in webTargets : InScope(w.host)
    <3> TAKE w \in webTargets
    <3>1. <<w.host, w.port>> \in DOMAIN services /\ <<w.host, w.port>>[1] = w.host
      BY DEF RowsInv, RowsSafe
    <3> QED  BY <2>1, <3>1
  <2> QED  BY <2>1, <2>2 DEF RowsInv, RowsSafe, ToolInv, NothingOutside
<1> QED  BY <1>1, RowsInvariant, PTL

\* The rows of a scan hang together whichever of its stages failed.
THEOREM RowsCorrect == Spec => []RowsHangTogether
<1>1. RowsInv => RowsHangTogether
  BY DEF RowsInv, RowsSafe, RowsHangTogether
<1> QED  BY <1>1, RowsInvariant, PTL

-----------------------------------------------------------------------------
(* The loop *)

ControlInv ==
    /\ profile \in Profiles
    /\ pc \in {"check", "stage", "final", "done"} /\ seq \in 1 .. Len(Stages) + 1
    /\ pc \in {"check", "stage"} => seq \in DOMAIN Stages
    /\ status \in {"active", "COMPLETE", "FAILED", "CANCELLED"}
    /\ outcome \in [DOMAIN Stages ->
          {"PENDING", "RUNNING", "COMPLETED", "FAILED", "SKIPPED", "CANCELLED"}]
    /\ cancelled \in BOOLEAN

LEMMA StagesTypes ==
    ASSUME profile \in Profiles
    PROVE  Len(Stages) \in Nat \ {0} /\ DOMAIN Stages = 1 .. Len(Stages)
<1>1. profile.stages \in Seq([name : STRING, enabled : BOOLEAN]) /\ profile.stages # <<>>
  BY ScanAssumption
<1> QED  BY <1>1, LenProperties, EmptySeq DEF Stages

LEMMA HandlerRuns ==
    ASSUME Handler
    PROVE  pc = "stage"
BY DEF Handler, HostDiscovery, PortDiscovery, LogOnly, HttpDiscovery, DnsEnrich,
   VulnAssessment, Normalization, Running

LEMMA ControlStep ==
    ASSUME RowsInv, ControlInv, [Next]_vars
    PROVE  ControlInv'
<1> USE DEF ControlInv
<1>1. Len(Stages) \in Nat \ {0} /\ DOMAIN Stages = 1 .. Len(Stages)
  BY StagesTypes
<1>2. CASE Handler
  <2>1. ASSUME NEW result, NEW hs, NEW svcs, NEW web, NEW raw,
               Leaves(result, hs, svcs, web, raw), StageEnds(result, hs, svcs, web, raw)
        PROVE  ControlInv'
    BY <1>1, <1>2, <2>1, HandlerRuns DEF Leaves, StageEnds, NextStage, Stages
  <2>2. CASE SessionBreaks
    BY <1>1, <2>2 DEF SessionBreaks, NoOutcome, Stages
  <2> QED  BY <1>2, <2>1, <2>2, HandlerEnds DEF Ends
<1>3. CASE StageCancelled \/ StageSkipped \/ StageBegins
  BY <1>1, <1>3 DEF StageCancelled, StageSkipped, StageBegins, NextStage, Stages
<1>4. CASE Finalize \/ PipelineError \/ OperatorCancels \/ UNCHANGED vars
  BY <1>4 DEF Finalize, PipelineError, OperatorCancels, vars, Stages
<1>5. CASE FinalizeBreaks
  BY <1>1, <1>5 DEF FinalizeBreaks, SessionBreaks, NoOutcome, Stages
<1> QED  BY <1>2, <1>3, <1>4, <1>5 DEF Next, Run

LEMMA ControlInvariant == Spec => []ControlInv
<1>1. Init => ControlInv
  <2> SUFFICES ASSUME Init PROVE ControlInv
    OBVIOUS
  <2>1. profile \in Profiles
    BY DEF Init
  <2>2. Len(Stages) \in Nat \ {0} /\ DOMAIN Stages = 1 .. Len(Stages)
    BY <2>1, StagesTypes
  <2>3. seq \in 1 .. Len(Stages) + 1 /\ seq \in DOMAIN Stages
    BY <2>2 DEF Init
  <2>4. outcome \in [DOMAIN Stages ->
            {"PENDING", "RUNNING", "COMPLETED", "FAILED", "SKIPPED", "CANCELLED"}]
    BY DEF Init, NoOutcome
  <2> QED  BY <2>1, <2>3, <2>4 DEF Init, ControlInv
<1> QED  BY <1>1, ControlStep, RowsInvariant, PTL DEF Spec

-----------------------------------------------------------------------------
(* The counters *)

\* A host's h.services was looked at when the host was found: empty if that was
\* host discovery, and otherwise complete, because ports are sought only once.
LoadedAsFound ==
    /\ DOMAIN loaded = DOMAIN hosts
    /\ \A ip \in DOMAIN hosts :
          loaded[ip] = IF hosts[ip].by = "port_discovery" THEN ServicesOf(ip, services) ELSE {}

PortsSought == \E s \in DOMAIN Stages : s < seq /\ Stages[s].name = "port_discovery"

CountInv ==
    /\ LoadedAsFound
    /\ (DOMAIN services # {} \/ \E ip \in DOMAIN hosts : hosts[ip].by = "port_discovery")
          => PortsSought
    /\ counters = [hosts |-> Cardinality(DOMAIN hosts), ports |-> PortsLoaded(loaded),
                   web |-> Cardinality(webTargets)]

LEMMA NotSoughtTwice ==
    ASSUME ControlInv, PortsSought, Running("port_discovery")
    PROVE  FALSE
<1>1. PICK s \in DOMAIN Stages : s < seq /\ Stages[s].name = "port_discovery"
  BY DEF PortsSought
<1>2. seq \in DOMAIN Stages /\ Stages[seq].name = "port_discovery"
  BY DEF ControlInv, Running
<1>3. s = seq
  BY <1>1, <1>2, ProfilesAssumption DEF ControlInv, Stages
<1>4. s \in Int
  BY <1>1, StagesTypes DEF ControlInv
<1> QED  BY <1>1, <1>3, <1>4

LEMMA EmptyCounts == PortsLoaded(Empty) = 0 /\ Cardinality({}) = 0
<1>1. UNION Range(Empty) = {}
  BY DEF Range, Empty
<1> QED  BY <1>1, FS_EmptySet DEF PortsLoaded

LEMMA CountHandler ==
    ASSUME RowsInv, ControlInv, CountInv, Handler
    PROVE  CountInv'
<1>1. CASE SessionBreaks
  BY <1>1, EmptyRows, EmptyCounts DEF SessionBreaks, CountInv, LoadedAsFound, Zero
<1>2. ASSUME NEW result, NEW hs, NEW svcs, NEW web, NEW raw,
             Leaves(result, hs, svcs, web, raw), StageEnds(result, hs, svcs, web, raw)
      PROVE  CountInv'
  <2>1. /\ hosts' = hs /\ services' = svcs /\ webTargets' = web
        /\ seq' = seq + 1 /\ profile' = profile
        /\ loaded' = Loaded(hs, svcs)
        /\ counters' = [hosts |-> Cardinality(DOMAIN hs), ports |-> PortsLoaded(loaded'),
                        web |-> Cardinality(web)]
    BY <1>2 DEF StageEnds, UpdateProgress, NextStage
  <2>2. /\ DOMAIN loaded' = DOMAIN hs
        /\ \A ip \in DOMAIN hs : loaded'[ip] = IF ip \in DOMAIN loaded THEN loaded[ip]
                                               ELSE ServicesOf(ip, svcs)
    BY <2>1 DEF Loaded
  <2>3. /\ \A ip \in DOMAIN hosts : ip \in DOMAIN hs /\ hs[ip].by = hosts[ip].by
        /\ FoundBy(hs, svcs)
        /\ \A k \in DOMAIN svcs : k[1] \in DOMAIN hs
    BY <1>2 DEF Leaves, KeptIn, SameHost, RowsSafe
  <2>4. ~ PortsSought => /\ DOMAIN services = {}
                         /\ \A ip \in DOMAIN hosts : hosts[ip].by # "port_discovery"
    BY DEF CountInv
  <2>5. ASSUME NEW ip \in DOMAIN hosts
        PROVE  loaded'[ip] = IF hs[ip].by = "port_discovery" THEN ServicesOf(ip, svcs) ELSE {}
    <3>1. /\ ip \in DOMAIN hs /\ hs[ip].by = hosts[ip].by
          /\ loaded'[ip] = IF hosts[ip].by = "port_discovery" THEN ServicesOf(ip, services)
                           ELSE {}
      BY <2>2, <2>3 DEF CountInv, LoadedAsFound
    <3>2. hosts[ip].by = "port_discovery" => svcs = services
      BY <2>3, <2>4, NotSoughtTwice DEF FoundBy
    <3> QED  BY <3>1, <3>2
  <2>6. ASSUME NEW ip \in DOMAIN hs \ DOMAIN hosts
        PROVE  loaded'[ip] = IF hs[ip].by = "port_discovery" THEN ServicesOf(ip, svcs) ELSE {}
    <3>1. loaded'[ip] = ServicesOf(ip, svcs)
      BY <2>2, <2>6 DEF CountInv, LoadedAsFound
    <3>2. hs[ip].by # "port_discovery" => ServicesOf(ip, svcs) = {}
      <4>1. \A k \in DOMAIN services : k[1] # ip
        BY <2>6 DEF RowsInv, RowsSafe
      <4> QED  BY <2>3, <2>6, <4>1 DEF FoundBy, ServicesOf
    <3> QED  BY <3>1, <3>2
  <2>7. LoadedAsFound'
    BY <2>1, <2>2, <2>5, <2>6 DEF LoadedAsFound, ServicesOf
  <2>8. (DOMAIN svcs # {} \/ \E ip \in DOMAIN hs : hs[ip].by = "port_discovery")
            => PortsSought'
    <3>1. PortsSought => PortsSought'
      BY <2>1, StagesTypes DEF PortsSought, Stages, ControlInv
    <3>2. Running("port_discovery") => PortsSought'
      BY <2>1, StagesTypes DEF PortsSought, Stages, ControlInv, Running
    <3> QED  BY <2>3, <2>4, <3>1, <3>2 DEF FoundBy
  <2> QED  BY <2>1, <2>7, <2>8 DEF CountInv
<1> QED  BY <1>1, <1>2, HandlerEnds DEF Ends

LEMMA CountStep ==
    ASSUME RowsInv, ControlInv, CountInv, [Next]_vars
    PROVE  CountInv'
<1>1. ASSUME UNCHANGED <<profile, hosts, services, webTargets, loaded, counters>>,
             seq' \in {seq, seq + 1}
      PROVE  CountInv'
  <2>1. PortsSought => PortsSought'
    BY <1>1, StagesTypes DEF PortsSought, Stages, ControlInv
  <2>2. LoadedAsFound'
    BY <1>1 DEF CountInv, LoadedAsFound, ServicesOf
  <2> QED  BY <1>1, <2>1, <2>2 DEF CountInv
<1>2. CASE StageCancelled \/ StageSkipped \/ StageBegins
  BY <1>1, <1>2 DEF StageCancelled, StageSkipped, StageBegins, NextStage, Rows
<1>3. CASE Finalize \/ PipelineError \/ OperatorCancels \/ UNCHANGED vars
  BY <1>1, <1>3 DEF Finalize, PipelineError, OperatorCancels, Rows, vars
<1>4. CASE FinalizeBreaks
  BY <1>4, EmptyRows, EmptyCounts DEF FinalizeBreaks, SessionBreaks, CountInv,
     LoadedAsFound, Zero
<1> QED  BY <1>2, <1>3, <1>4, CountHandler DEF Next, Run

LEMMA CountInvariant == Spec => []CountInv
<1>1. Init => CountInv
  BY EmptyRows, EmptyCounts DEF Init, CountInv, LoadedAsFound, Zero
<1> QED  BY <1>1, CountStep, RowsInvariant, ControlInvariant, PTL DEF Spec

\* The collections that were loaded hold the services of the hosts port
\* discovery found.
LEMMA LoadedServices ==
    ASSUME RowsInv, LoadedAsFound
    PROVE  UNION Range(loaded) = {k \in DOMAIN services : hosts[k[1]].by = "port_discovery"}
<1>1. ASSUME NEW k, NEW ip \in DOMAIN loaded, k \in loaded[ip]
      PROVE  k \in DOMAIN services /\ hosts[k[1]].by = "port_discovery"
  BY <1>1 DEF LoadedAsFound, ServicesOf
<1>2. ASSUME NEW k \in DOMAIN services, hosts[k[1]].by = "port_discovery"
      PROVE  k[1] \in DOMAIN loaded /\ k \in loaded[k[1]]
  BY <1>2 DEF LoadedAsFound, ServicesOf, RowsInv, RowsSafe
<1> QED  BY <1>1, <1>2 DEF Range

\* The counters a dashboard reads are those of the rows they are committed with.
THEOREM CountersCorrect == Spec => []CountersMatchRows
<1>1. RowsInv /\ CountInv => CountersMatchRows
  <2> SUFFICES ASSUME RowsInv, CountInv PROVE CountersMatchRows
    OBVIOUS
  <2>1. LoadedAsFound
    BY DEF CountInv
  <2>2. UNION Range(loaded) = {k \in DOMAIN services : hosts[k[1]].by = "port_discovery"}
    BY <2>1, LoadedServices, Zenon
  <2>3. PortsLoaded(loaded) =
            Cardinality({k \in DOMAIN services : hosts[k[1]].by = "port_discovery"})
    BY <2>2, Zenon DEF PortsLoaded
  <2> QED  BY <2>3 DEF CountInv, CountersMatchRows
<1> QED  BY <1>1, RowsInvariant, CountInvariant, PTL

-----------------------------------------------------------------------------
(* Cancellation *)

\* A tool started too late was the last one: no further stage begins.
LateInv == late \in {0, 1} /\ (late = 1 => cancelled /\ pc # "stage")

LEMMA LateStep ==
    ASSUME RowsInv, ControlInv, LateInv, [Next]_vars
    PROVE  LateInv'
<1> USE DEF LateInv
<1>1. CASE Handler
  <2>1. late' = late \/ late' = late + (IF cancelled THEN 1 ELSE 0)
    BY <1>1 DEF Handler, HostDiscovery, PortDiscovery, LogOnly, HttpDiscovery, DnsEnrich,
       VulnAssessment, WithoutNuclei, Normalization, ToolRuns, NoToolRuns
  <2>2. pc' # "stage" /\ cancelled' = cancelled
    BY <1>1, HandlerEnds DEF Ends, StageEnds, NextStage, SessionBreaks
  <2> QED  BY <1>1, <2>1, <2>2, HandlerRuns DEF ControlInv
<1>2. CASE StageBegins
  BY <1>2 DEF StageBegins, World
<1>3. CASE StageCancelled \/ StageSkipped
  BY <1>3 DEF StageCancelled, StageSkipped, NextStage, World
<1>4. CASE Finalize \/ PipelineError \/ OperatorCancels \/ UNCHANGED vars
  BY <1>4 DEF Finalize, PipelineError, OperatorCancels, World, vars
<1>5. CASE FinalizeBreaks
  BY <1>5 DEF FinalizeBreaks, SessionBreaks, NoToolRuns
<1> QED  BY <1>1, <1>2, <1>3, <1>4, <1>5 DEF Next, Run

LEMMA LateInvariant == Spec => []LateInv
<1>1. Init => LateInv
  BY DEF Init, LateInv
<1> QED  BY <1>1, LateStep, RowsInvariant, ControlInvariant, PTL DEF Spec

\* After the operator's cancellation at most the tool of one stage is started.
THEOREM CancelStopsCorrect == Spec => []CancelStopsTools
<1>1. LateInv => CancelStopsTools
  BY DEF LateInv, CancelStopsTools
<1> QED  BY <1>1, LateInvariant, PTL

-----------------------------------------------------------------------------
(* Findings *)

\* Before the end nothing is stored, and the scan is not COMPLETE.
StoredInv ==
    /\ pc # "done" => stored = {} /\ status # "COMPLETE"
    /\ FindingsOnlyWhenComplete

LEMMA StoredStep ==
    ASSUME RowsInv, StoredInv, [Next]_vars
    PROVE  StoredInv'
<1> USE DEF StoredInv, FindingsOnlyWhenComplete
<1>1. CASE Handler
  <2>1. UNCHANGED stored /\ status' \in {status, "FAILED"}
    BY <1>1, HandlerEnds DEF Ends, StageEnds, SessionBreaks
  <2> QED  BY <1>1, <2>1, HandlerRuns
<1>2. CASE Finalize
  BY <1>2 DEF Finalize, Rows
<1>3. CASE StageCancelled \/ StageSkipped \/ StageBegins
  BY <1>3 DEF StageCancelled, StageSkipped, StageBegins, Rows, World
<1>4. CASE PipelineError \/ OperatorCancels \/ UNCHANGED vars
  BY <1>4 DEF PipelineError, OperatorCancels, Rows, World, vars
<1>5. CASE FinalizeBreaks
  BY <1>5 DEF FinalizeBreaks, SessionBreaks
<1> QED  BY <1>1, <1>2, <1>3, <1>4, <1>5 DEF Next, Run

LEMMA StoredInvariant == Spec => []StoredInv
<1>1. Init => StoredInv
  BY DEF Init, StoredInv, FindingsOnlyWhenComplete
<1> QED  BY <1>1, StoredStep, RowsInvariant, PTL DEF Spec

\* Findings reach the database only with a COMPLETE scan, and then all of them.
THEOREM FindingsCorrect == Spec => []FindingsOnlyWhenComplete
<1>1. StoredInv => FindingsOnlyWhenComplete
  BY DEF StoredInv
<1> QED  BY <1>1, StoredInvariant, PTL

\* Once the assessment is over every dangerous open service has its finding:
\* ports are sought before it, so that no service comes later.
AssessedInv ==
    \A s \in DOMAIN Stages :
        Stages[s].name = "vuln_assessment" /\ profile.runVuln /\ outcome[s] = "COMPLETED" =>
            s < seq /\ Exposures \subseteq findings

LEMMA AssessedHandler ==
    ASSUME RowsInv, ControlInv, AssessedInv, Handler
    PROVE  AssessedInv'
<1>0. pc = "stage" /\ seq \in DOMAIN Stages /\ \A s \in DOMAIN Stages : s \in Int
  BY HandlerRuns, StagesTypes DEF ControlInv
<1>1. CASE SessionBreaks
  BY <1>1 DEF SessionBreaks, AssessedInv, NoOutcome, Stages
<1>2. ASSUME NEW result, NEW hs, NEW svcs, NEW web, NEW raw,
             Leaves(result, hs, svcs, web, raw), StageEnds(result, hs, svcs, web, raw)
      PROVE  AssessedInv'
  <2>1. /\ services' = svcs /\ findings' = raw /\ findings \subseteq raw
        /\ seq' = seq + 1 /\ profile' = profile
        /\ outcome' = [outcome EXCEPT ![seq] = result]
    BY <1>2 DEF StageEnds, NextStage, Leaves, KeptIn
  <2>2. svcs = services \/ Stages[seq].name = "port_discovery"
    BY <1>2 DEF Leaves, FoundBy, Running
  <2> SUFFICES ASSUME NEW s \in DOMAIN Stages, Stages[s].name = "vuln_assessment",
                      profile.runVuln, outcome'[s] = "COMPLETED"
               PROVE  s < seq + 1 /\ Exposures' \subseteq raw
    BY <2>1 DEF AssessedInv, Stages
  <2>3. CASE s = seq
    <3>1. Exposures \subseteq raw
      BY <1>0, <1>2, <2>1, <2>3 DEF Leaves, Running, ControlInv
    <3>2. svcs = services
      BY <2>2, <2>3
    <3> QED  BY <1>0, <2>1, <2>3, <3>1, <3>2 DEF Exposures, IsOpen
  <2>4. CASE s # seq
    <3>1. s < seq /\ Exposures \subseteq findings
      BY <2>1, <2>4 DEF AssessedInv, ControlInv
    <3>2. Stages[seq].name # "port_discovery"
      BY <1>0, <3>1, ProfilesAssumption DEF ControlInv, Stages
    <3> QED  BY <1>0, <2>1, <2>2, <3>1, <3>2 DEF Exposures, IsOpen
  <2> QED  BY <2>3, <2>4
<1> QED  BY <1>1, <1>2, HandlerEnds DEF Ends

LEMMA AssessedStep ==
    ASSUME RowsInv, ControlInv, AssessedInv, [Next]_vars
    PROVE  AssessedInv'
<1>0. \A s \in DOMAIN Stages : s \in Int
  BY StagesTypes DEF ControlInv
<1>1. ASSUME UNCHANGED <<profile, services, findings>>, seq' \in {seq, seq + 1},
             \A s \in DOMAIN Stages : outcome'[s] = outcome[s] \/ outcome'[s] # "COMPLETED"
      PROVE  AssessedInv'
  <2>1. Exposures' = Exposures
    BY <1>1 DEF Exposures, IsOpen
  <2> QED  BY <1>0, <1>1, <2>1 DEF AssessedInv, ControlInv, Stages
<1>2. CASE StageCancelled \/ StageSkipped \/ StageBegins
  BY <1>1, <1>2 DEF StageCancelled, StageSkipped, StageBegins, NextStage, Rows, ControlInv
<1>3. CASE Finalize \/ PipelineError \/ OperatorCancels \/ UNCHANGED vars
  BY <1>1, <1>3 DEF Finalize, PipelineError, OperatorCancels, Rows, vars
<1>4. CASE FinalizeBreaks
  BY <1>4 DEF FinalizeBreaks, SessionBreaks, AssessedInv, NoOutcome, Stages
<1> QED  BY <1>2, <1>3, <1>4, AssessedHandler DEF Next, Run

\* A COMPLETE scan that was assessed reports every dangerous open service.
THEOREM ExposuresCorrect == Spec => []ExposuresReported
<1>1. Init => AssessedInv
  BY DEF Init, AssessedInv, NoOutcome
<1>2. AssessedInv /\ StoredInv => ExposuresReported
  <2> SUFFICES ASSUME AssessedInv, StoredInv, status = "COMPLETE", profile.runVuln,
                      Succeeded("vuln_assessment"), NEW k \in DOMAIN services,
                      services[k].state = "open", services[k].name \in Dangerous
               PROVE  \E f \in stored : f.source = "exposure" /\ f.host = k[1] /\ f.port = k[2]
    BY DEF ExposuresReported
  <2>1. Exposures \subseteq stored
    BY DEF AssessedInv, StoredInv, FindingsOnlyWhenComplete, Succeeded
  <2>2. [source |-> "exposure", host |-> k[1], asset |-> k[1], port |-> k[2],
         linked |-> TRUE] \in Exposures
    BY DEF Exposures, IsOpen
  <2> QED  BY <2>1, <2>2
<1> QED
  BY <1>1, <1>2, AssessedStep, RowsInvariant, ControlInvariant, StoredInvariant, PTL DEF Spec

-----------------------------------------------------------------------------
(* Types, and what a stage leaves of the results of earlier ones *)

LEMMA CountersTypes ==
    ASSUME RowsInv, CountInv
    PROVE  counters \in [hosts : Nat, ports : Nat, web : Nat]
<1>1. Cardinality(DOMAIN hosts) \in Nat
  BY InScopeFinite, FS_CardinalityType DEF RowsInv, RowsSafe
<1>2. Cardinality(webTargets) \in Nat
  BY FS_CardinalityType DEF RowsInv, RowsTyped
<1>3. PortsLoaded(loaded) \in Nat
  <2>1. UNION Range(loaded) \subseteq DOMAIN services
    BY DEF Range, CountInv, LoadedAsFound, ServicesOf
  <2> QED  BY <2>1, FS_Subset, FS_CardinalityType DEF PortsLoaded, RowsInv, RowsTyped
<1> QED  BY <1>1, <1>2, <1>3 DEF CountInv

\* Every reachable state of a run is type correct.
THEOREM TypeCorrect == Spec => []TypeOK
<1>1. RowsInv /\ ControlInv /\ CountInv /\ LateInv /\ StoredInv => TypeOK
  <2> SUFFICES ASSUME RowsInv, ControlInv, CountInv, LateInv, StoredInv PROVE TypeOK
    OBVIOUS
  <2>1. Range(hosts) \subseteq HostRow
    BY DEF Range, RowsInv, RowsTyped
  <2>2. stored \subseteq findings
    BY DEF StoredInv, FindingsOnlyWhenComplete
  <2> QED
    BY <2>1, <2>2, CountersTypes
    DEF TypeOK, RowsInv, RowsTyped, HostRow, ControlInv, CountInv, LoadedAsFound, LateInv
<1> QED
  BY <1>1, RowsInvariant, ControlInvariant, CountInvariant, LateInvariant, StoredInvariant, PTL

\* What every step does: keep the results, or end a scan whose flush failed.
Kept ==
    \/ status' = "FAILED"
    \/ KeptIn(hosts', services', webTargets', findings')

LEMMA StepKeeps ==
    ASSUME RowsInv, [Next]_vars
    PROVE  Kept
<1>1. CASE Handler
  <2>1. ASSUME NEW result, NEW hs, NEW svcs, NEW web, NEW raw,
               Leaves(result, hs, svcs, web, raw), StageEnds(result, hs, svcs, web, raw)
        PROVE  Kept
    BY <2>1, StageEndsRows DEF Leaves, Kept
  <2> QED  BY <1>1, <2>1, HandlerEnds DEF Ends, SessionBreaks, Kept
<1>2. CASE UNCHANGED <<hosts, services, webTargets, findings>>
  BY <1>2 DEF Kept, KeptIn, SameHost
<1>3. CASE FinalizeBreaks
  BY <1>3 DEF FinalizeBreaks, SessionBreaks, Kept
<1> QED
  BY <1>1, <1>2, <1>3
  DEF Next, Run, StageCancelled, StageSkipped, StageBegins, Finalize, PipelineError,
      OperatorCancels, Rows, World, vars

\* A stage, failed or not, takes nothing from what earlier ones found.
THEOREM EarlierResultsCorrect == Spec => EarlierResultsKept
<1>1. RowsInv /\ [Next]_vars =>
        [ status' = "FAILED" \/
          /\ \A ip \in DOMAIN hosts :
                /\ ip \in DOMAIN hosts' /\ hosts'[ip].by = hosts[ip].by
                /\ hosts[ip].name # NoName => hosts'[ip].name = hosts[ip].name
          /\ \A k \in DOMAIN services : k \in DOMAIN services' /\ services'[k] = services[k]
          /\ webTargets \subseteq webTargets' /\ findings \subseteq findings' ]_vars
  BY StepKeeps DEF Kept, KeptIn, SameHost
<1> QED  BY <1>1, RowsInvariant, PTL DEF Spec, EarlierResultsKept
=============================================================================
