\* Two workers on one queue and one database, two faults of any kind: safety, the
\* abstract life cycle, and liveness under fairness.
SPECIFICATION FairSpec
CONSTANTS
    r1 = r1
    r2 = r2
    Requests = {r1, r2}
    w1 = w1
    w2 = w2
    Workers = {w1, w2}
    Nobody = Nobody
    Profile <- OneStage
    Repairs = {"imports", "stored_scope"}
    Faults = {"worker_crash", "sigterm", "panel_crash", "redis_outage", "key_loss"}
    MaxFaults = 2
INVARIANTS
    LockIsPipeline
PROPERTIES
    ImplementsLifecycle
    AcceptedScansSettle
    LockIsReleased
CHECK_DEADLOCK FALSE
