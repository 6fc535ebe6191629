SPECIFICATION Spec
CONSTANTS
    Events <- ThreeEvents
    TenantOf <- TwoTenants
    Attempts = 2
    MaxTimeouts = 2
    MaxOpen = 2
    MaxDay = 1
INVARIANTS
    AckedEventStoredOnce
    ChainHoldsTogether
