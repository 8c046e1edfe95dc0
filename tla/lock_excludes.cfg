SPECIFICATION Spec
CONSTANTS
    Votes = {v1, v2}
    MaxInFlight = 2
    OwnerShown = TRUE
    Faults = {}
INVARIANTS
    LockExcludes
