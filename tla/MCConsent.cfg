CONSTANTS
    u1 = u1  u2 = u2  b1 = b1  c1 = c1  x1 = x1  x2 = x2
    r1 = r1  r2 = r2  s1 = s1  s2 = s2  i1 = i1
    h1 = h1  h2 = h2  d1 = d1
    None = None
    User <- Users
    Browser <- Browsers
    Client <- Clients
    Host <- Hosts
    HostsOf <- Redirects
    TrustedConsentDomains <- Domains
    Within <- Below
    Scope <- Scopes
    Ask <- Asks
    Request <- Requests
    Session <- Sessions
    Interaction <- Interactions
    MaxFaults = 1
SPECIFICATION Spec
SYMMETRY Symmetric
INVARIANTS
    TypeOK
    CodeApproved
    CodeWithinClient
    PromptHonoured
    LogoutEndsSession
