CONSTANTS
    a1 = a1  a2 = a2  s1 = s1
    User = User
    Attempt <- Attempts
    Source <- Sources
    ipLockAfter = 2
    userLockAfter = 3
    LockFor = 2
    MaxFaults = 1
SPECIFICATION Spec
INVARIANTS
    TypeOK
    GuessesBounded
PROPERTY
    LockEnds
