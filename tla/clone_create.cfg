SPECIFICATION Spec
CONSTANTS
    Requests = {r1, r2, r3, r4, r5}
    MaxInFlight = 3
    Faults = {"network", "crash"}
SYMMETRY Symmetric
INVARIANTS
    TypeOK
    HandlersUseWhole
    FailuresLeaveNothing
PROPERTIES
    WholeStays
    StuckStays
