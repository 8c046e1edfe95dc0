SPECIFICATION Spec
CONSTANTS
    Requests = {r1, r2}
    Foreign = {}
    MaxInFlight = 2
    Faults = {}
SYMMETRY Symmetry
PROPERTIES
    SuccessIsPushed
