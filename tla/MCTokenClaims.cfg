SPECIFICATION ClaimsSpec
CONSTANTS
    Nil = Nil
    u1 = u1
    u2 = u2
    g1 = g1
    g2 = g2
    admin = admin
    reader = reader
    c1 = c1
    c2 = c2
    User = {u1, u2}
    Role = {admin, reader}
    Customer = {c1, c2}
    Grant = {g1, g2}
    Token = {t1, t2, t3, t4}
    Owner <- MCOwner
    Records <- MCRecords
SYMMETRY Symmetry
INVARIANTS
    ClaimsTypeOK
    OneAccount
    DelegationKept
