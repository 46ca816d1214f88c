\* One worker, three requests, every kind of fault, two of them.
SPECIFICATION Spec
CONSTANTS
    r1 = r1
    r2 = r2
    r3 = r3
    Requests = {r1, r2, r3}
    w1 = w1
    Workers = {w1}
    Nobody = Nobody
    Profile <- ShortProfile
    Repairs = {"imports", "stored_scope"}
    Faults = {"worker_crash", "sigterm", "panel_crash", "redis_outage", "key_loss"}
    MaxFaults = 2
SYMMETRY RequestSymmetry
INVARIANTS
    TypeOK
    OneJobPerScan
    JobsHaveRows
    CommittedRowsAreWhole
    CancelWins
    NoForgottenScan
    ErrorIsolation
CHECK_DEADLOCK FALSE
