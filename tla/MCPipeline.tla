----------------------------- MODULE MCPipeline -----------------------------
(* Pipeline on four addresses, three of them in the scope. *)
EXTENDS Pipeline

MCSpace    == [v \in Versions |-> IF v = 4 THEN 4 ELSE 1]
MCSizes    == {1, 2}
MCBroadest == [v \in Versions |-> IF v = 4 THEN 2 ELSE 1]

\* The scope is the block of a1 and a2; `out' is a neighbour.
MCScopeNetworks == { [v |-> 4, base |-> 0, size |-> 2] }
a1  == [v |-> 4, a |-> 0]
a2  == [v |-> 4, a |-> 1]
out == [v |-> 4, a |-> 2]
aName == [host |-> "name"]

\* The stages of profiles.py, those in `off' disabled.
StagesWithout(off) ==
    LET On(name) == [name |-> name, enabled |-> name \notin off]
    IN  << On("host_discovery"), On("port_discovery"), On("service_detection"),
           On("http_discovery"), On("tech_fingerprint"), On("dns_enrich"),
           On("vuln_assessment"), On("normalization") >>

\* Safe, thorough and recon, and one that enables the assessment but forbids it.
MCProfiles ==
    { [stages |-> StagesWithout({"dns_enrich"}), runVuln |-> TRUE],
      [stages |-> StagesWithout({}), runVuln |-> TRUE],
      [stages |-> StagesWithout({"vuln_assessment"}), runVuln |-> FALSE],
      [stages |-> StagesWithout({"http_discovery"}), runVuln |-> FALSE] }

MCPrinted == {a1, a2, out, aName}

Line(ip, port, state, name) == [ip |-> ip, port |-> port, state |-> state, name |-> name]

\* A web port without a name, a dangerous service open and closed, one service
\* that is both dangerous and reached over HTTP, and one out of scope.
MCPortLines ==
    { Line(a1, 80, "open", "none"), Line(a1, 6379, "open", "redis"),
      Line(a1, 6379, "closed", "redis"), Line(a2, 9200, "open", "http-elasticsearch"),
      Line(out, 80, "open", "none") }

Web(host, port, url) == [host |-> host, port |-> port, url |-> url]

\* As asked, with a URL elsewhere, with another port, and out of scope.
MCWebLines ==
    { Web(a1, 80, a1), Web(a1, 80, out), Web(a2, 9200, aName), Web(a1, 443, a1),
      Web(out, 80, out) }

Reported(host, url) == [host |-> host, url |-> url]

\* As asked, with a URL elsewhere, with a name in it, and about a host out of scope.
MCNucleiLines ==
    { Reported(a1, a1), Reported(a1, out), Reported(a2, aName), Reported(out, a2) }

MCWebPorts  == {80, 443}
MCWebNames  == {"http-elasticsearch"}
MCDangerous == {"redis", "http-elasticsearch"}
=============================================================================
