SPECIFICATION Spec
CONSTANTS
    Events <- ThreeEvents
    TenantOf <- OneTenant
    Attempts = 1
    MaxTimeouts = 0
    MaxOpen = 2
    MaxDay = 0
INVARIANTS
    ChainNeverForks
