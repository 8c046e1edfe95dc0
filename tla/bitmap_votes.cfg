SPECIFICATION Spec
CONSTANTS
    blockSize = 3
    Voters = {v1, v2, v3, v4, v5}
    MaxInFlight = 2
    Faults = {"crash", "io"}
SYMMETRY VoterSymmetry
INVARIANTS
    TypeOK
    TallyExact
    AnswerWithinRace
    StatsAgree
    OverflowHoldsOne
PROPERTIES
    ImplementsTally
