SPECIFICATION Spec
CONSTANTS
    blockSize = 3
    Voters = {v1, v2, v3, v4}
    MaxInFlight = 1
    Faults = {}
SYMMETRY VoterSymmetry
INVARIANTS
    EveryVoteFits
