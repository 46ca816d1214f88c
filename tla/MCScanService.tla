--------------------------- MODULE MCScanService ---------------------------
(* ScanService on small instances. *)
EXTENDS ScanService, TLC

\* A profile cut down to a disabled stage between two that run.
ShortProfile ==
    << [name |-> "http_discovery",  enabled |-> TRUE],
       [name |-> "dns_enrich",      enabled |-> FALSE],
       [name |-> "vuln_assessment", enabled |-> TRUE] >>

OneStage == << [name |-> "http_discovery", enabled |-> TRUE] >>

RequestSymmetry == Permutations(Requests)
=============================================================================
