\* Discovery mended; everything the tools may print, cancelled at any moment.
SPECIFICATION Spec
CONSTANTS
    Space <- MCSpace
    Sizes <- MCSizes
    Broadest <- MCBroadest
    Blocked = {}
    ScopeNetworks <- MCScopeNetworks
    Profiles <- MCProfiles
    Printed <- MCPrinted
    PortLines <- MCPortLines
    WebLines <- MCWebLines
    NucleiLines <- MCNucleiLines
    WebPorts <- MCWebPorts
    WebNames <- MCWebNames
    Dangerous <- MCDangerous
    Repairs = {"cidr_filter", "host_state"}
INVARIANTS
    TypeOK
    NothingOutside
    RowsHangTogether
    CountersMatchRows
    FindingsOnlyWhenComplete
    ExposuresReported
    CancelStopsTools
PROPERTIES
    EarlierResultsKept
CHECK_DEADLOCK FALSE
