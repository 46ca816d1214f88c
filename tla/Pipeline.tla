------------------------------ MODULE Pipeline ------------------------------
(***************************************************************************)
(* One run of the scan pipeline (scanner/pipeline.py) over what the tools   *)
(* report: hosts, services, web targets and findings, and the progress      *)
(* counters.  The handlers run one after the other in one transaction; the  *)
(* operator and Redis act between any two steps.  A tool's output is not     *)
(* trusted: it may name any host, in or out of scope, or be cut off.         *)
(*                                                                         *)
(* The filters are those of ScopeManager.  Executor shows what a tool call  *)
(* may return; Findings shows how findings of several scans are merged, so  *)
(* that here a finding is its dedup key and a list of them a set.           *)
(***************************************************************************)
EXTENDS ScopeManager, Sequences, Functions

CONSTANTS
    ScopeNetworks,  \* the networks of the scan's scope
    Profiles,       \* [stages : the stages in order, [name, enabled]; runVuln]
    Printed,        \* what a tool may print where a host belongs
    PortLines,      \* ports nmap may print: [ip, port, state, name]
    WebLines,       \* lines httpx may print: [host, port, url], url its host part
    NucleiLines,    \* lines nuclei may print: [host, url]
    WebPorts,       \* http_ports and https_ports
    WebNames,       \* service names that contain "http"
    Dangerous,      \* service names that contain a key of dangerous_services
    Repairs         \* which defects that empty host discovery are mended

ASSUME ScanAssumption ==
    /\ ScopeNetworks \subseteq Network
    /\ \A p \in Profiles : /\ p.stages \in Seq([name : STRING, enabled : BOOLEAN])
                            /\ p.stages # <<>> /\ p.runVuln \in BOOLEAN
    /\ Repairs \subseteq {"cidr_filter", "host_state"}

\* profiles.py: a stage occurs once, and ports are looked for before anything is
\* assessed.
ASSUME ProfilesAssumption ==
    \A p \in Profiles : \A s, t \in DOMAIN p.stages :
        /\ p.stages[s].name = p.stages[t].name => s = t
        /\ p.stages[s].name = "port_discovery" /\ p.stages[t].name = "vuln_assessment"
              => s < t

\* The url stands for all that tells nuclei's findings apart (the dedup key is
\* made of template, URL and title): lines with the same one are merged.
ASSUME OutputAssumption ==
    /\ PortLines \subseteq [ip : Printed, port : Nat, state : STRING, name : STRING]
    /\ NucleiLines \subseteq [host : Printed, url : Printed]
    /\ \A l, m \in NucleiLines : l.url = m.url => l = m

VARIABLES
    profile,    \* the profile of this scan
    pc,         \* "check" a stage, "stage", "final", "done"
    seq,        \* the stage at hand
    status,     \* Scan.status; "active" stands for the working ones, which
                \* ScanService tells apart
    outcome,    \* the last status recorded for each stage
    hosts,      \* _hosts: address -> the stage that found it, its hostname
    services,   \* _services: <<address, port>> -> state, service_name
    webTargets, \* _web_targets
    findings,   \* _findings, in memory only
    stored,     \* rows of table findings
    loaded,     \* address -> the h.services collection once loaded
    counters,   \* hosts_discovered, ports_discovered, web_targets_discovered
    cancelled,  \* the operator's cancellation key (ScanService lets it expire)
    tool,       \* the last tool started, and the hosts it was given
    late        \* history: tools started after the cancellation

vars == <<profile, pc, seq, status, outcome, hosts, services, webTargets, findings,
          stored, loaded, counters, cancelled, tool, late>>

NoName == "no hostname"
Empty == [x \in {} |-> x]
Stages == profile.stages
NoOutcome == [s \in DOMAIN Stages |-> "PENDING"]
Zero == [hosts |-> 0, ports |-> 0, web |-> 0]

\* host: where the tool found it, by which it is filtered and linked to a row;
\* asset: the host part of what is stored, affected_asset and affected_url.
Finding == [source : {"nuclei", "exposure"}, host : Printed, asset : Printed,
            port : Nat, linked : BOOLEAN]

TypeOK ==
    /\ profile \in Profiles
    /\ pc \in {"check", "stage", "final", "done"} /\ seq \in 1 .. Len(Stages) + 1
    /\ status \in {"active", "COMPLETE", "FAILED", "CANCELLED"}
    /\ outcome \in [DOMAIN Stages ->
          {"PENDING", "RUNNING", "COMPLETED", "FAILED", "SKIPPED", "CANCELLED"}]
    /\ Range(hosts) \subseteq [by : {"host_discovery", "port_discovery"},
                               name : {NoName, "nmap", "dnsx"}]
    /\ DOMAIN services \subseteq Printed \X Nat
    /\ webTargets \subseteq WebLines
    /\ findings \subseteq Finding /\ stored \subseteq findings
    /\ DOMAIN loaded \subseteq DOMAIN hosts
    /\ counters \in [hosts : Nat, ports : Nat, web : Nat]
    /\ cancelled \in BOOLEAN /\ late \in Nat

Init ==
    /\ profile \in Profiles
    /\ pc = "check" /\ seq = 1 /\ status = "active" /\ outcome = NoOutcome
    /\ hosts = Empty /\ services = Empty /\ webTargets = {}
    /\ findings = {} /\ stored = {}
    /\ loaded = Empty /\ counters = Zero
    /\ cancelled = FALSE
    /\ tool = [name |-> "none", targets |-> {}] /\ late = 0

\* One run of a tool prints finitely many lines.
Output(lines) == {printed \in SUBSET lines : IsFiniteSet(printed)}

InScope(x) == IsInScope(ScopeNetworks, x)
Filter(targets) == FilterTargets(ScopeNetworks, targets)

-----------------------------------------------------------------------------
(* The loop of run *)

NextStage ==
    /\ seq' = seq + 1
    /\ pc' = IF seq = Len(Stages) THEN "final" ELSE "check"

Rows == <<hosts, services, webTargets, findings, loaded, counters>>
World == <<stored, tool, late>>

\* is_cancelled at the head of the loop: `break'.
StageCancelled ==
    /\ pc = "check" /\ cancelled
    /\ status' = "CANCELLED"
    /\ outcome' = [outcome EXCEPT ![seq] = "CANCELLED"]
    /\ pc' = "final"
    /\ UNCHANGED <<profile, seq, Rows, World, cancelled>>

StageSkipped ==
    /\ pc = "check" /\ ~ cancelled
    /\ ~ Stages[seq].enabled
    /\ outcome' = [outcome EXCEPT ![seq] = "SKIPPED"]
    /\ NextStage
    /\ UNCHANGED <<profile, status, Rows, World, cancelled>>

\* Mutant: the key is not looked at before a stage.
StageBeginsUnasked ==
    /\ pc = "check"
    /\ Stages[seq].enabled
    /\ outcome' = [outcome EXCEPT ![seq] = "RUNNING"]
    /\ pc' = "stage"
    /\ UNCHANGED <<profile, seq, status, Rows, World, cancelled>>

StageBegins ==
    /\ pc = "check" /\ ~ cancelled
    /\ Stages[seq].enabled
    /\ outcome' = [outcome EXCEPT ![seq] = "RUNNING"]
    /\ pc' = "stage"
    /\ UNCHANGED <<profile, seq, status, Rows, World, cancelled>>

ServicesOf(ip, svcs) == {k \in DOMAIN svcs : k[1] = ip}

\* A collection h.services is read from the database the first time it is
\* looked at, and stays as it was: services are added by host_id, which leaves
\* a loaded collection alone, and nothing expires it before the final commit.
Loaded(hs, svcs) ==
    [ip \in DOMAIN hs |-> IF ip \in DOMAIN loaded THEN loaded[ip]
                          ELSE ServicesOf(ip, svcs)]

\* len(h.services), summed over the hosts: no service has two of them.
PortsLoaded(collections) == Cardinality(UNION Range(collections))

\* Mutant: the counters are brought up to date before the handler.
UpdateProgressBefore(hs, svcs, web) ==
    /\ loaded' = Loaded(hosts, services)
    /\ counters' = [hosts |-> Cardinality(DOMAIN hosts),
                    ports |-> PortsLoaded(loaded'),
                    web   |-> Cardinality(webTargets)]

UpdateProgress(hs, svcs, web) ==
    /\ loaded' = Loaded(hs, svcs)
    /\ counters' = [hosts |-> Cardinality(DOMAIN hs),
                    ports |-> PortsLoaded(loaded'),
                    web   |-> Cardinality(web)]

\* A handler returned or raised, leaving these rows behind.
StageEnds(result, hs, svcs, web, raw) ==
    /\ outcome' = [outcome EXCEPT ![seq] = result]
    /\ hosts' = hs /\ services' = svcs /\ webTargets' = web /\ findings' = raw
    /\ UpdateProgress(hs, svcs, web)
    /\ NextStage
    /\ UNCHANGED <<profile, status, stored, cancelled>>

Completed(hs, svcs, web, raw) == StageEnds("COMPLETED", hs, svcs, web, raw)

\* Nothing was found, or the handler raised before it stored anything.
NothingNew(result) == StageEnds(result, hosts, services, webTargets, findings)

\* A failed flush: SQLite rolls back, and every later use of the session raises
\* until the worker's own rollback, so the scan is FAILED and keeps no row.
SessionBreaks ==
    /\ pc' = "done" /\ status' = "FAILED" /\ outcome' = NoOutcome
    /\ hosts' = Empty /\ services' = Empty /\ webTargets' = {} /\ findings' = {}
    /\ loaded' = Empty /\ counters' = Zero
    /\ UNCHANGED <<profile, seq, stored, cancelled>>

Running(name) == pc = "stage" /\ Stages[seq].name = name

NoToolRuns == UNCHANGED <<tool, late>>
ToolRuns(name, targets) ==
    /\ tool' = [name |-> name, targets |-> targets]
    /\ late' = late + (IF cancelled THEN 1 ELSE 0)

-----------------------------------------------------------------------------
(* Stage handlers *)

\* _get_or_create_host over what nmap reports as up: a host that is known keeps
\* its row and gets a hostname if it had none.
WithHosts(up, named, by) ==
    [ip \in DOMAIN hosts \cup up |->
        IF ip \in DOMAIN hosts
        THEN [hosts[ip] EXCEPT !.name = IF @ = NoName /\ ip \in named THEN "nmap" ELSE @]
        ELSE [by |-> by, name |-> IF ip \in named THEN "nmap" ELSE NoName]]

\* What _parse_hosts and _parse_full take from nmap's document.  nmap writes the
\* state of a host in an element of its own, and they look for an attribute, so
\* that as the code stands no host is ever up.
NmapReports ==
    IF "host_state" \notin Repairs THEN {[up |-> {}, named |-> {}]}
    ELSE UNION {[up : {u}, named : SUBSET u] : u \in SUBSET (Printed \cap Address)}

\* discover_hosts keeps those of its targets that are literal addresses: none of
\* the scope's networks.
DiscoveryTargets ==
    IF "cidr_filter" \in Repairs THEN Cover(ScopeNetworks)
    ELSE Filter(CidrList(ScopeNetworks))

HostDiscovery ==
    /\ Running("host_discovery")
    /\ IF DiscoveryTargets = {}
       THEN NothingNew("COMPLETED") /\ NoToolRuns
       ELSE /\ ToolRuns("nmap", DiscoveryTargets)
            /\ \/ NothingNew("FAILED")     \* timed_out: TimeoutError
               \/ \E r \in NmapReports :
                     Completed(WithHosts(Filter(r.up), r.named, "host_discovery"),
                               services, webTargets, findings)

\* Ports of one document: one line per port of a host that is up.
PortReports(up) ==
    {p \in Output({l \in PortLines : l.ip \in up}) :
        \A l, m \in p : l.ip = m.ip /\ l.port = m.port => l = m}

\* Mutant: scan_services filters the hosts it returns and not the services.
KeptLinesRaw(lines) == lines

KeptLines(lines) == {l \in lines : InScope(l.ip)}

ServiceAt(k, lines) ==
    LET l == CHOOSE l \in lines : l.ip = k[1] /\ l.port = k[2]
    IN  [state |-> l.state, name |-> l.name]

\* _get_or_create_service, which makes a host for an address without one.
WithServices(lines) ==
    [k \in DOMAIN services \cup {<<l.ip, l.port>> : l \in lines} |->
        IF k \in DOMAIN services THEN services[k] ELSE ServiceAt(k, lines)]

PortDiscovery ==
    /\ Running("port_discovery")
    /\ \/ /\ DOMAIN hosts = {}
          /\ NothingNew("COMPLETED") /\ NoToolRuns
       \/ /\ DOMAIN hosts # {}
          /\ ToolRuns("nmap", Filter(DOMAIN hosts))
          /\ \/ NothingNew("FAILED")
             \/ \E r \in NmapReports : \E p \in PortReports(r.up) :
                   LET kept == KeptLines(p)
                       up   == Filter(r.up) \cup {l.ip : l \in kept}
                   IN  Completed(WithHosts(up, r.named, "port_discovery"),
                                 WithServices(kept), webTargets, findings)

\* service_detection and tech_fingerprint only write a log line.
LogOnly ==
    /\ Running("service_detection") \/ Running("tech_fingerprint")
    /\ NothingNew("COMPLETED") /\ NoToolRuns

IsOpen(k) == services[k].state = "open"

HttpPairs ==
    {k \in DOMAIN services : IsOpen(k) /\ (services[k].name \in WebNames \/ k[2] \in WebPorts)}

\* Mutant: a web target without a service is stored with service_id NULL.
CreateWebTargetsNullable(lines) ==
    Completed(hosts, services, webTargets \cup lines, findings)

\* The lines are stored one by one.  One that is JSON but not of the expected
\* shape (no object, a list for a port) raises: those before it stay.  A line whose
\* (host, port) is no known service gives service_id NULL in a NOT NULL column,
\* and a list where the column takes text cannot be bound: the flush fails.
CreateWebTargets(lines) ==
    LET known == {l \in lines : <<l.host, l.port>> \in DOMAIN services}
    IN  \/ /\ known = lines
           /\ Completed(hosts, services, webTargets \cup lines, findings)
        \/ \E before \in SUBSET known :
              StageEnds("FAILED", hosts, services, webTargets \cup before, findings)
        \/ lines # {} /\ SessionBreaks

\* timed_out is not looked at: lines printed before httpx was stopped count.
HttpDiscovery ==
    /\ Running("http_discovery")
    /\ \/ /\ HttpPairs = {}
          /\ NothingNew("COMPLETED") /\ NoToolRuns
       \/ /\ HttpPairs # {}
          /\ ToolRuns("httpx", Filter({k[1] : k \in HttpPairs}))
          /\ \E lines \in Output(WebLines) :
                CreateWebTargets({l \in lines : InScope(l.host)})

\* Mutant: a name from DNS replaces what nmap reported.
NamedByDnsAlways(records) ==
    [ip \in DOMAIN hosts |->
        IF ip \in records THEN [hosts[ip] EXCEPT !.name = "dnsx"] ELSE hosts[ip]]

\* Mutant: a record of an unknown address makes a host.
NamedByDnsCreates(records) ==
    [ip \in DOMAIN hosts \cup records |->
        IF ip \in DOMAIN hosts THEN hosts[ip] ELSE [by |-> "dns_enrich", name |-> "dnsx"]]

NamedByDns(records) ==
    [ip \in DOMAIN hosts |->
        IF ip \in records /\ hosts[ip].name = NoName
        THEN [hosts[ip] EXCEPT !.name = "dnsx"] ELSE hosts[ip]]

\* A hostname that is a list cannot be bound either.
DnsEnrich ==
    /\ Running("dns_enrich")
    /\ \/ /\ DOMAIN hosts = {}
          /\ NothingNew("COMPLETED") /\ NoToolRuns
       \/ /\ DOMAIN hosts # {}
          /\ ToolRuns("dnsx", Filter(DOMAIN hosts))
          /\ \/ NothingNew("FAILED")
             \/ \E records \in SUBSET Printed :
                   Completed(NamedByDns(Filter(records)), services, webTargets, findings)
             \/ (\E ip \in DOMAIN hosts : hosts[ip].name = NoName) /\ SessionBreaks

\* _exposure_checks: an open service with a dangerous name.
Exposures ==
    {[source |-> "exposure", host |-> k[1], asset |-> k[1], port |-> k[2], linked |-> TRUE] :
        k \in {j \in DOMAIN services : IsOpen(j) /\ services[j].name \in Dangerous}}

\* A line is kept by its host, whatever its URL.  The finding is linked to the
\* host's row if there is one, and stored with the URL.
NucleiFindings(printed) ==
    {[source |-> "nuclei", host |-> l.host, asset |-> l.url, port |-> 0,
      linked |-> l.host \in DOMAIN hosts] : l \in {m \in printed : InScope(m.host)}}

\* nuclei gets the URLs whose host part is in scope.
NucleiTargets == Filter({w.url : w \in webTargets})

Assessed(new) == Completed(hosts, services, webTargets, findings \cup new)

\* Mutant: without a web target the stage returns.
WithoutNucleiReturns ==
    /\ Assessed(IF webTargets = {} THEN {} ELSE Exposures)
    /\ NoToolRuns

\* No web target, or none whose URL is in scope: exposure checks alone.
WithoutNuclei == Assessed(Exposures) /\ NoToolRuns

\* A URL that cannot be parsed raises before nuclei is started.  A line that the
\* parser or the normalisation raises on leaves the findings before it, if any, and
\* loses the exposure checks.
VulnAssessment ==
    /\ Running("vuln_assessment")
    /\ \/ /\ ~ profile.runVuln
          /\ NothingNew("COMPLETED") /\ NoToolRuns
       \/ /\ profile.runVuln /\ webTargets # {}
          /\ NothingNew("FAILED") /\ NoToolRuns
       \/ /\ profile.runVuln /\ NucleiTargets = {}
          /\ WithoutNuclei
       \/ /\ profile.runVuln /\ NucleiTargets # {}
          /\ ToolRuns("nuclei", NucleiTargets)
          /\ \E printed \in Output(NucleiLines) :
                LET new == NucleiFindings(printed)
                IN  \/ Assessed(new \cup Exposures)
                    \/ StageEnds("FAILED", hosts, services, webTargets, findings \cup new)

\* Deduplication of raw findings is Deduplicate of module Findings: a set has
\* each key once already.
Normalization ==
    /\ Running("normalization")
    /\ NothingNew("COMPLETED") /\ NoToolRuns

-----------------------------------------------------------------------------
(* The end of run *)

\* Mutant: findings are stored whether or not the scan was cancelled.
FinalizeAlwaysStores ==
    /\ pc = "final"
    /\ pc' = "done"
    /\ status' = IF cancelled THEN "CANCELLED" ELSE "COMPLETE"
    /\ stored' = findings
    /\ UNCHANGED <<profile, seq, outcome, Rows, tool, late, cancelled>>

\* _store_findings only if the key is not there.
Finalize ==
    /\ pc = "final"
    /\ pc' = "done"
    /\ IF cancelled THEN status' = "CANCELLED" /\ UNCHANGED stored
                    ELSE status' = "COMPLETE" /\ stored' = findings
    /\ UNCHANGED <<profile, seq, outcome, Rows, tool, late, cancelled>>

\* What nuclei printed is flushed for the first time here, and a list where the
\* column takes text (cve-id, cwe-id) cannot be bound.
FinalizeBreaks ==
    /\ pc = "final" /\ ~ cancelled
    /\ \E f \in findings : f.source = "nuclei"
    /\ SessionBreaks /\ NoToolRuns

\* EXISTS raises: the outer handler.  The worker still commits every row.
PipelineError ==
    /\ pc \in {"check", "final"}
    /\ pc' = "done" /\ status' = "FAILED"
    /\ UNCHANGED <<profile, seq, outcome, Rows, World, cancelled>>

\* POST /cancel, at any moment.
OperatorCancels ==
    /\ ~ cancelled /\ pc # "done"
    /\ cancelled' = TRUE
    /\ UNCHANGED <<profile, pc, seq, status, outcome, Rows, World>>

Handler ==
    \/ HostDiscovery \/ PortDiscovery \/ LogOnly \/ HttpDiscovery
    \/ DnsEnrich \/ VulnAssessment \/ Normalization

Run ==
    \/ StageCancelled \/ StageSkipped \/ StageBegins \/ Handler
    \/ Finalize \/ FinalizeBreaks \/ PipelineError

Next == Run \/ OperatorCancels

Spec == Init /\ [][Next]_vars

-----------------------------------------------------------------------------
(* Properties *)

Succeeded(name) ==
    \E s \in DOMAIN Stages : Stages[s].name = name /\ outcome[s] = "COMPLETED"

\* Whatever the tools print, no tool is started on an address outside the scope,
\* and the host of every row, and of the line a finding was made from, is inside
\* it: the filters of filter_targets, discover_hosts and the runners' second pass.
\* The URLs stored beside the hosts are no part of this (StoredDataInScope).
NothingOutside ==
    /\ \A t \in tool.targets : InScope(t)
    /\ \A ip \in DOMAIN hosts : InScope(ip)
    /\ \A k \in DOMAIN services : InScope(k[1])
    /\ \A w \in webTargets : InScope(w.host)
    /\ \A f \in findings : InScope(f.host)

\* The rows hang together whichever stages failed: a service has its host, a web
\* target its service, and a finding said to be linked has its host.
RowsHangTogether ==
    /\ \A k \in DOMAIN services : k[1] \in DOMAIN hosts
    /\ \A w \in webTargets : <<w.host, w.port>> \in DOMAIN services
    /\ \A f \in findings : f.linked => f.host \in DOMAIN hosts
    /\ \A f \in findings : f.source = "exposure" => <<f.host, f.port>> \in DOMAIN services

\* The counters a dashboard reads belong to the rows they are committed with,
\* however the run ends: hosts and web targets exactly, and ports for the hosts
\* nmap first saw together with their services (h.services is stale for others).
CountersMatchRows ==
    /\ counters.hosts = Cardinality(DOMAIN hosts)
    /\ counters.web = Cardinality(webTargets)
    /\ counters.ports = Cardinality({k \in DOMAIN services :
                                        hosts[k[1]].by = "port_discovery"})

\* Findings reach the database only with a COMPLETE scan, and then all of them.
FindingsOnlyWhenComplete ==
    /\ stored # {} => status = "COMPLETE"
    /\ status = "COMPLETE" => stored = findings

\* A COMPLETE scan whose assessment is recorded COMPLETED has reported every
\* dangerous open service, with or without web targets, whatever nuclei printed.
ExposuresReported ==
    status = "COMPLETE" /\ profile.runVuln /\ Succeeded("vuln_assessment") =>
        \A k \in DOMAIN services :
            services[k].state = "open" /\ services[k].name \in Dangerous =>
                \E f \in stored : f.source = "exposure" /\ f.host = k[1] /\ f.port = k[2]

\* After the operator's cancellation at most the tool of one stage is started.
CancelStopsTools == late <= 1

\* A stage, failed or not, takes nothing from what earlier ones found: hosts
\* keep their names and rows stay, unless a failed flush ends the whole scan.
EarlierResultsKept ==
    [][ status' = "FAILED" \/
        /\ \A ip \in DOMAIN hosts :
              /\ ip \in DOMAIN hosts' /\ hosts'[ip].by = hosts[ip].by
              /\ hosts[ip].name # NoName => hosts'[ip].name = hosts[ip].name
        /\ \A k \in DOMAIN services : k \in DOMAIN services' /\ services'[k] = services[k]
        /\ webTargets \subseteq webTargets' /\ findings \subseteq findings' ]_vars

-----------------------------------------------------------------------------
(* What a doc says and the code does not do *)

Outside(x) == x \in Address /\ ~ InScope(x)

\* docs/scope-safety.md: results are filtered again "to ensure no out-of-scope data
\* enters the database".
StoredDataInScope ==
    /\ \A w \in webTargets : ~ Outside(w.url)
    /\ \A f \in stored : ~ Outside(f.asset)
=============================================================================
