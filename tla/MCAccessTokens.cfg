SPECIFICATION Spec
CONSTANTS
    t1 = t1  t2 = t2  t3 = t3  r1 = r1  r2 = r2
    narrow = narrow  wide = wide  read = read  write = write
    None = None
    Token <- MCTokens
    Scope = {read, write}
    Grants <- MCGrants
    Policy <- MCPolicies
    Rank <- MCRank
    Allowed <- MCAllowed
    ActorRequired <- MCActorRequired
    Ask <- MCAsk
    Request <- MCRequests
    Ops = {"verify", "introspect", "exchange", "revoke"}
    AccessTTL = 0  RefreshTTL = 1  MaxTime = 1  MaxRoots = 1  MaxFaults = 1
SYMMETRY Symmetric
INVARIANTS
    TypeOK
    RevokedRefused
    ScopesShrink
CHECK_DEADLOCK FALSE
