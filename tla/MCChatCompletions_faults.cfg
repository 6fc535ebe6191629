SPECIFICATION FairSpec
CONSTANTS
    Requests = {r1}
    Configured <- AllServices
    DefaultAction = "BLOCK"
    CacheFaults <- BothFaults
    AuditAttempts = 3
    MaxCancels = 2
INVARIANTS
    TypeOK
    NoCleartextForwarded
    CompleteMeansAudited
    FailuresAccounted
    MappingReleased
PROPERTIES
    ForwardOnlyWhileClean
    EveryRequestEnds
    ImplementsGateway
