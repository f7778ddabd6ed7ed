CONSTANTS
    u1 = u1  u2 = u2  a1 = a1  a2 = a2  r1 = r1  r2 = r2  l1 = l1  l2 = l2  g1 = g1
    None = None
    User <- Users
    Address <- Addresses
    Holder <- Holders
    contact_email <- Contacts
    recoveryEmail <- NoProfiles
    Request <- Requests
    Link <- OneLink
    Page <- Pages
    MaxFaults = 0
SPECIFICATION Spec
INVARIANTS
    ResetTokenUsedOnce
