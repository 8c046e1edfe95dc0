SPECIFICATION Spec
CONSTANTS
    Codes = {c1}
    Calls = {r1, r2}
    MaxAttempts = 2
    MaxSends = 1
INVARIANTS
    EveryCodeExpires
