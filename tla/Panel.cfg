\* One managed container whose unmanaged successor takes its name.
SPECIFICATION FairSpec
CONSTANTS
    c1 = c1
    c2 = c2
    p = p
    n1 = n1
    n2 = n2
    Ids <- MCIds
    NameOf <- MCNameOf
    Managed <- MCManaged
    Panel = p
    Interval = 2
    CheckTimeout = 1
    PingTimeout = 1
INVARIANTS
    TypeOK
    HealthyIsRecent
    OnlyManagedTouched
    ReportsAfterAction
PROPERTIES
    HealthRecovers
