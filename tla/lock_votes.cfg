SPECIFICATION FairSpec
CONSTANTS
    Votes = {v1, v2}
    MaxInFlight = 2
    OwnerShown = TRUE
    Faults = {"call", "commit", "missing", "crash", "other"}
INVARIANTS
    TypeOK
    HeldWhileVoting
    NothingLeftLocked
PROPERTIES
    LeftoversDoNotRefuse
    OthersKeepTheirLocks
    EveryVoteEnds
