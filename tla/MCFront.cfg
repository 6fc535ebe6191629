SPECIFICATION FrontSpec
CONSTANTS
    Clients = {q1, q2}
    Inputs <- MCInputs
    Configs <- MCConfigs
    KeyIds = {"k1", "k2"}
    MaxRotations = 1
    MaxExpiries = 2
    g = g
    t = t
    NoRule = NoRule
    Requests = {r1, r2}
    Upserts = {u1, u2}
    Levels = {"high"}
    GlobalRules <- MCGlobal
    Puts <- MCPuts
    Priority <- MCPriority
    RPM = 2
    Concurrent = 1
    Budget = 1
    Residency <- MCResidency
    RedisFails = TRUE
    MaxWindows = 1
SYMMETRY Symmetry
INVARIANTS AccessSound PolicyEnforced
CHECK_DEADLOCK FALSE
