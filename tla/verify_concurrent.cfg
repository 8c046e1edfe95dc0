SPECIFICATION FairSpec
CONSTANTS
    Codes = {c1}
    Calls = {r1, r2, r3}
    MaxAttempts = 2
    MaxSends = 2
INVARIANTS
    TypeOK
    NoUseUncounted
    BoundedOvershoot
PROPERTIES
    DeadStaysDead
    CallReturns
