\* A cancellation racing the end of the scan.
SPECIFICATION Spec
CONSTANTS
    r1 = r1
    r2 = r2
    Requests = {r1, r2}
    w1 = w1
    Workers = {w1}
    Nobody = Nobody
    Profile <- OneStage
    Repairs = {"imports", "stored_scope"}
    Faults = {}
    MaxFaults = 0
PROPERTY
    TerminalIsFinal
CHECK_DEADLOCK FALSE
