\* Two scans of at most two reports, two status requests.
SPECIFICATION Spec
CONSTANTS
    Scans = {s1, s2}
    Updates = {u1, u2}
    s1 = s1
    s2 = s2
    u1 = u1
    u2 = u2
    Keys = {"redis", "telnet"}
    Raw = {"HIGH", "unknown"}
    MaxReports = 2
SYMMETRY Symmetry
INVARIANTS
    TypeOK
    OneRowPerKey
    SeverityIsHighest
    StatusIsAudited
    AuditRecordsThePast
    CountersCountIssues
CHECK_DEADLOCK FALSE
