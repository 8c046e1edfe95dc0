SPECIFICATION Spec
CONSTANTS
    Requests = {r1, r2, r3, r4}
    Foreign = {f1}
    MaxInFlight = 1
    Faults = {"unheard", "abort"}
SYMMETRY Symmetry
CONSTRAINT AtMostTwoCut
INVARIANTS
    PublishedWhole
    AnsweredStaysPublished
    WithdrawnStaysAway
    PullIsLatest
    TokenOutlivesFiles
PROPERTIES
    PublishedStays
    SuccessIsPushed
    HeadKeepsCommits
    DivergedStaysShut
    ImplementsRegistry
