SPECIFICATION FairSpec
CONSTANTS
    Requests = {r1}
    Configured <- ChainOnly
    DefaultAction = "ANONYMIZE"
    CacheFaults <- AllFaults
    AuditAttempts = 3
    MaxCancels = 2
    MaxVersion = 1
INVARIANTS
    StreamRepliesSafe
    StreamReleases
PROPERTIES
    CleanupTerminates
    StreamImplementsGateway
