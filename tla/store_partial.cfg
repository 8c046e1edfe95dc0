SPECIFICATION Spec
CONSTANTS
    Requests = {r1, r2, r3}
    Foreign = {}
    MaxInFlight = 1
    Faults = {"abort"}
SYMMETRY Symmetry
INVARIANTS
    EveryFileCommitted
