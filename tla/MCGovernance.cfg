SPECIFICATION OfficeSpec
CONSTANTS
    Subjects = {"s1"}
    SubjectTenant <- MCSubjectTenant
    RequestIds = {"r1"}
    Workers = {"w1", "w2"}
    MaxSubjectCalls = 2
    Holds <- MCHolds
    Keys <- MCKeys
    Wirings <- MCWirings
    Sessions = {"x"}
    Held = {"x"}
    Rows = {"l1", "l2", "l3"}
    OtherRows <- MCOtherRows
    MaxClock = 2
    Days = {2}
    MaxLimit = 2
    DefaultLimit = 1
    Limits <- MCLimits
    Callers = {"c1", "c2"}
    MaxMoves = 3
    Tickets = {"t1"}
    HoldIds = {"h1"}
    Recorders = {"r1"}
    Evaluators = {ev1, ev2}
    MaxEvents = 1
    MaxBreaches = 2
    MaxTime = 3
    Span = 2
    Cooldown = 1
    RetryMax = 2
    DlqMax = 1
    Webhook = TRUE
    Clerks = {"c1", "c2"}
    MaxCalls = 3
    LastDay = 2
    Cycle = 1
    Triggers = {"model_change", "tos_change"}
    Models = {"m"}
    Providers = {"p"}
    Approvals = {"a"}
    Targets <- MCTargets
    Criticalities = {"critical", "important", "standard"}
    Stamps = {1, 2}
    MaxRows = 4
    PageSize = 2
    Exporters = {e1, e2}
    Scheduled = {e1}
    MaxTracked = 2
    Formats = {"jsonl", "parquet", "csv"}
    MaxLate = 1
    LogEntries <- MCEntries
    ProviderOf <- MCProviderOf
    MaxLogged = 4
    AppPolicies <- MCPolicies
    GroupRules <- MCRules
    Enforcements <- MCRequests
    LogMax = 3
    LogKeep = 2
    MaxEnforced = 6
    CostServices = {v1, v2}
    CostProviders = {"listed", "new"}
    ListedProviders = {"listed"}
SYMMETRY Symmetry
INVARIANTS SubjectRightsKept RecordsAgree BreachesReported RegistersAgree ExportsComplete DiscoveryAgrees
PROPERTY OversightStands
CHECK_DEADLOCK FALSE
