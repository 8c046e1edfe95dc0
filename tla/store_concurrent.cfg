SPECIFICATION Spec
CONSTANTS
    Requests = {r1, r2, r3}
    Foreign = {}
    MaxInFlight = 2
    Faults = {}
SYMMETRY Symmetry
INVARIANTS
    TypeOK
    
