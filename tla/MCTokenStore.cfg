CONSTANTS
    r1 = r1  r2 = r2  r3 = r3
    f1 = f1
    None = None
    Req <- Requests
    Fam <- Families
    Offline <- Families
    OpenID <- Families
    CodeTTL = 2
    AccessTTL = 1
    RefreshTTL = 2
    MaxTime = 2
SPECIFICATION Spec
SYMMETRY Symmetric
CHECK_DEADLOCK FALSE
INVARIANTS
    TypeOK
    SpentGrantRejected
    RevocationKillsFindable
    TokenKept
PROPERTIES
    GrantsOnce
    LossNeedsOverlap
