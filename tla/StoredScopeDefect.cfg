\* The import mended: every scan fails on its stored scope.
SPECIFICATION Spec
CONSTANTS
    r1 = r1
    r2 = r2
    Requests = {r1, r2}
    w1 = w1
    Workers = {w1}
    Nobody = Nobody
    Profile <- OneStage
    Repairs = {"imports"}
    Faults = {}
    MaxFaults = 0
INVARIANT
    ErrorIsolation
CHECK_DEADLOCK FALSE
