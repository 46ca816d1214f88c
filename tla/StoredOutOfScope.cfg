\* The tools may print URLs that lead elsewhere.
SPECIFICATION Spec
CONSTANTS
    Space <- MCSpace
    Sizes <- MCSizes
    Broadest <- MCBroadest
    Blocked = {}
    ScopeNetworks <- MCScopeNetworks
    Profiles <- MCProfiles
    Printed <- MCPrinted
    PortLines <- MCPortLines
    WebLines <- MCWebLines
    NucleiLines <- MCNucleiLines
    WebPorts <- MCWebPorts
    WebNames <- MCWebNames
    Dangerous <- MCDangerous
    Repairs = {"cidr_filter", "host_state"}
INVARIANT
    StoredDataInScope
CHECK_DEADLOCK FALSE
