SPECIFICATION Spec
SYMMETRY Symmetry
CONSTANTS
    Requests = {r1, r2}
    Configured = {}
    DefaultAction = "ANONYMIZE"
    CacheFaults = {}
    AuditAttempts = 1
    MaxCancels = 0
    MaxVersion = 1
INVARIANTS
    ReplacedSecretsKeptForOpenSessions
