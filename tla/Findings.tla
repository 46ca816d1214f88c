------------------------------ MODULE Findings ------------------------------
(***************************************************************************)
(* Findings across scans: normalize.py maps what the tools report and merges *)
(* duplicates, Pipeline._store_findings merges the result into the table    *)
(* inside the scan's transaction (one step here: it holds the write lock),  *)
(* and operators change a finding's status through api/findings.py, whose   *)
(* read and commit are two steps.                                           *)
(***************************************************************************)
EXTENDS Integers, Sequences, FiniteSets, SequencesExt

CONSTANTS
    Scans,      \* scans that reach the end of their pipeline, in any order
    Updates,    \* POST /api/findings/{id}/status requests
    Keys,       \* dedup keys: source, template, asset and title
    Raw,        \* severities as the tools spell them
    MaxReports  \* bound: findings a scan reports

ASSUME ReportsAssumption == MaxReports \in Nat

Statuses == { "OPEN", "CONFIRMED", "FALSE_POSITIVE", "FIXED", "ACCEPTED" }

Severities == 1 .. 5

\* _SEVERITY_MAP, then _SEVERITY_RANK; what the map does not know is INFO.
Rank(raw) ==
    CASE raw \in {"critical", "CRITICAL"}         -> 5
      [] raw \in {"high", "HIGH"}                 -> 4
      [] raw \in {"medium", "moderate", "MEDIUM"} -> 3
      [] raw \in {"low", "LOW"}                   -> 2
      [] OTHER                                    -> 1

\* What normalize_nuclei and normalize_exposure keep of a tool's report.
Report == [key : Keys, severity : {Rank(raw) : raw \in Raw}]

VARIABLES
    findings,   \* table findings
    changes,    \* table finding_status_changes
    counters,   \* findings_critical ... findings_info of every scan
    reports,    \* history: what each finished scan's tools reported
    finished,   \* history: the scans that have stored their findings
    broken,     \* history: the scans whose findings could not be stored
    update      \* status requests

vars == <<findings, changes, counters, reports, finished, broken, update>>

Row == [key : Keys, severity : Severities, status : Statuses, scan : Scans]

TypeOK ==
    /\ findings \in Seq(Row)
    /\ changes \in Seq([finding : DOMAIN findings, old : Statuses, new : Statuses])
    /\ counters \in [Scans -> [Severities -> Nat]]
    /\ reports \in [Scans -> Seq(Report)]
    /\ finished \subseteq Scans /\ broken \subseteq Scans \ finished
    /\ update \in [Updates -> [pc : {"new", "commit", "done"}, finding : Nat,
                               old : Statuses, new : Statuses]]

Init ==
    /\ findings = <<>> /\ changes = <<>> /\ finished = {} /\ broken = {}
    /\ counters = [s \in Scans |-> [v \in Severities |-> 0]]
    /\ reports = [s \in Scans |-> <<>>]
    /\ update = [u \in Updates |-> [pc |-> "new", finding |-> 0, old |-> "OPEN",
                                    new |-> "OPEN"]]

-----------------------------------------------------------------------------
(* The last steps of a pipeline: normalization, then _store_findings *)

\* deduplicate_findings: of the reports with one key, the first of the highest
\* severity, as it is.
Deduplicate(fs) ==
    {fs[i] : i \in {n \in DOMAIN fs :
        \A m \in DOMAIN fs \ {n} :
            fs[m].key = fs[n].key =>
                \/ fs[m].severity < fs[n].severity
                \/ fs[m].severity = fs[n].severity /\ n < m}}

\* Mutant: a finding somebody has dealt with is not found again.
ExistingOpen(key) ==
    {i \in DOMAIN findings : findings[i].key = key /\ findings[i].status = "OPEN"}

\* The first row with the key, of whatever scan and status; no constraint of
\* the table makes it the only one.
Existing(key) ==
    {i \in DOMAIN findings :
        findings[i].key = key /\ \A j \in 1 .. i - 1 : findings[j].key # key}

\* Mutant: the severity is that of the last scan.
SeenAgainLatest(row, f, s) == [row EXCEPT !.scan = s, !.severity = f.severity]

\* Mutant: a finding that is seen again is open again.
SeenAgainReopened(row, f, s) ==
    [row EXCEPT !.scan = s, !.status = "OPEN",
                !.severity = IF f.severity > @ THEN f.severity ELSE @]

SeenAgain(row, f, s) ==
    [row EXCEPT !.scan = s, !.severity = IF f.severity > @ THEN f.severity ELSE @]

NewFinding(f, s) ==
    [key |-> f.key, severity |-> f.severity, status |-> "OPEN", scan |-> s]

\* Mutant: the counters are taken before the duplicates are merged.
CountedRaw(fs) ==
    [v \in Severities |-> Cardinality({i \in DOMAIN fs : fs[i].severity = v})]

\* The counters are those of the scan's own findings, not of the merged rows.
Counted(fs) ==
    [v \in Severities |-> Cardinality({f \in Deduplicate(fs) : f.severity = v})]

StoreFindings(s, fs) ==
    LET unique == Deduplicate(fs)
        new    == {f \in unique : Existing(f.key) = {}}
        MatchOf(i) == {f \in unique : i \in Existing(f.key)}
    IN  findings' = [i \in DOMAIN findings |->
                        IF MatchOf(i) = {} THEN findings[i]
                        ELSE SeenAgain(findings[i], CHOOSE f \in MatchOf(i) : TRUE, s)]
                    \o SetToSeq({NewFinding(f, s) : f \in new})

FinishScan(s) ==
    /\ s \notin finished \cup broken
    /\ \E n \in 0 .. MaxReports : \E fs \in [1 .. n -> Report] :
          /\ StoreFindings(s, fs)
          /\ counters' = [counters EXCEPT ![s] = Counted(fs)]
          /\ reports' = [reports EXCEPT ![s] = fs]
    /\ finished' = finished \cup {s}
    /\ UNCHANGED <<broken, changes, update>>

\* A tool gave a list for a column of text: a finding without a row cannot be
\* inserted, the flush fails, and the rows merged before it are rolled back too.
FinishScanBreaks(s) ==
    /\ s \notin finished \cup broken
    /\ MaxReports > 0 /\ \E f \in Report : Existing(f.key) = {}
    /\ broken' = broken \cup {s}
    /\ UNCHANGED <<findings, changes, counters, reports, finished, update>>

-----------------------------------------------------------------------------
(* POST /api/findings/{id}/status *)

\* Mutant: any text is a status.
ReadFindingUnchecked(u) ==
    /\ update[u].pc = "new"
    /\ \E i \in DOMAIN findings, want \in Statuses \cup {"nonsense"} :
          /\ findings[i].status # want
          /\ update' = [update EXCEPT ![u] = [pc |-> "commit", finding |-> i,
                                              old |-> findings[i].status, new |-> want]]
    /\ UNCHANGED <<findings, changes, counters, reports, finished, broken>>

\* A status that is not valid, or is the finding's already, changes nothing.
ReadFinding(u) ==
    /\ update[u].pc = "new"
    /\ \E i \in DOMAIN findings, want \in Statuses :
          /\ findings[i].status # want
          /\ update' = [update EXCEPT ![u] = [pc |-> "commit", finding |-> i,
                                              old |-> findings[i].status, new |-> want]]
    /\ UNCHANGED <<findings, changes, counters, reports, finished, broken>>

\* Mutant: the change record is written after the status, from the row.
CommitStatusFromRow(u) ==
    /\ update[u].pc = "commit"
    /\ findings' = [findings EXCEPT ![update[u].finding].status = update[u].new]
    /\ changes' = Append(changes, [finding |-> update[u].finding,
                                   old |-> findings'[update[u].finding].status,
                                   new |-> update[u].new])
    /\ update' = [update EXCEPT ![u].pc = "done"]
    /\ UNCHANGED <<counters, reports, finished, broken>>

\* One transaction for the status and its change record; the old status is
\* the one that was read.
CommitStatus(u) ==
    /\ update[u].pc = "commit"
    /\ findings' = [findings EXCEPT ![update[u].finding].status = update[u].new]
    /\ changes' = Append(changes, [finding |-> update[u].finding,
                                   old |-> update[u].old, new |-> update[u].new])
    /\ update' = [update EXCEPT ![u].pc = "done"]
    /\ UNCHANGED <<counters, reports, finished, broken>>

\* A pipeline held the write lock for longer than busy_timeout: 500.
CommitLocked(u) ==
    /\ update[u].pc = "commit"
    /\ update' = [update EXCEPT ![u].pc = "done"]
    /\ UNCHANGED <<findings, changes, counters, reports, finished, broken>>

Next ==
    \/ \E s \in Scans : FinishScan(s) \/ FinishScanBreaks(s)
    \/ \E u \in Updates : ReadFinding(u) \/ CommitStatus(u) \/ CommitLocked(u)

Spec == Init /\ [][Next]_vars

-----------------------------------------------------------------------------
(* Properties *)

\* An issue has one row, however many scans report it, whatever was decided
\* about it in between: only the lookup in _store_findings sees to that.
OneRowPerKey ==
    \A i, j \in DOMAIN findings : findings[i].key = findings[j].key => i = j

ReportedAs(key) ==
    UNION {{reports[s][n].severity : n \in {m \in DOMAIN reports[s] :
               reports[s][m].key = key}} : s \in finished}

\* "Higher severity wins on merge", within a scan and across all of them: a
\* row has the highest severity ever reported for it, in whatever order.
SeverityIsHighest ==
    \A i \in DOMAIN findings :
        /\ findings[i].severity \in ReportedAs(findings[i].key)
        /\ \A v \in ReportedAs(findings[i].key) : v <= findings[i].severity

\* The audit records of a finding, in the order of their commits.
ChangesOf(i) == {n \in DOMAIN changes : changes[n].finding = i}

\* A finding's status is the one its audit trail ends with: no scan that sees
\* it again changes the decision somebody made.
StatusIsAudited ==
    \A i \in DOMAIN findings :
        IF ChangesOf(i) = {} THEN findings[i].status = "OPEN"
        ELSE \E n \in ChangesOf(i) :
                /\ findings[i].status = changes[n].new
                /\ \A m \in ChangesOf(i) : m <= n

\* The statuses finding i had before its audit record n, by the records.
HadBefore(i, n) == {"OPEN"} \cup {changes[m].new : m \in {k \in ChangesOf(i) : k < n}}

\* An audit record tells a change away from a status the finding has really had
\* before, though two racing requests may have read the same one and the later
\* record then does not go on where the earlier ended.
AuditRecordsThePast ==
    \A n \in DOMAIN changes :
        /\ changes[n].old # changes[n].new
        /\ changes[n].old \in HadBefore(changes[n].finding, n)

\* A scan's counters count issues, not reports: together they are as many as
\* the keys its tools reported.
CountersCountIssues ==
    \A s \in finished :
        counters[s][1] + counters[s][2] + counters[s][3] + counters[s][4] + counters[s][5] =
            Cardinality({reports[s][n].key : n \in DOMAIN reports[s]})
=============================================================================
