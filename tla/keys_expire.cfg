SPECIFICATION Spec
CONSTANTS
    Keys = {"c1", "token"}
    TokenKey = "token"
    Codes = {"c1"}
    DebugCodes = {"c1"}
    Life = 2
    Admins = {a1, a2}
    Clients = {r1}
    Senders = {s1, s2}
    Lifetimes = {1, 4}
    Oldest = 4
    Margin = 1
    MaxDelay = 2
SYMMETRY Symmetric
INVARIANTS
    TypeOK
    CertificateNeedsCode
    CodeLastsAsPromised
    CachedTokenIsAccepted
    StaleTokenLeaves
