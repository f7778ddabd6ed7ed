CONSTANTS
    k1 = k1  k2 = k2  i1 = i1  i2 = i2  s1 = s1  s2 = s2  r1 = r1  r2 = r2
    None = None
    Customer <- Customers
    Row <- Rows
    Secret <- Secrets
    Request <- Requests
SPECIFICATION Spec
SYMMETRY Symmetric
INVARIANTS
    TypeOK
    AnswerScoped
    ReturnedSecretStored
PROPERTIES
    TenantIsolation
    Lifetime
