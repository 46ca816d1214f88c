\* Every scope of at most two lines, settings changing at any moment.
SPECIFICATION Spec
CONSTANTS
    Space <- MCSpace
    Sizes <- MCSizes
    Broadest <- MCBroadest
    Blocked <- MCBlocked
    Tokens <- MCTokens
    Settings <- MCSettings
    CandidateSets <- MCCandidateSets
    Repairs = {"stored_scope"}
    MaxTokens = 2
    MaxScopes = 1
    MaxScans = 1
INVARIANTS
    TypeOK
    OnlyAuthorisedTouched
    StoredScopeIsTyped
    ScansMeetSettings
