SPECIFICATION Spec
CONSTANTS
    s1 = s1  s2 = s2  r1 = r1  r2 = r2
    Provider <- MCProviders
    Pol = {p1}
    Value = {v}
    Request <- MCRequests
    Blank = Blank  Absent = Absent  None = None
SYMMETRY Symmetric
INVARIANTS
    TypeOK
    EndpointsKept
CHECK_DEADLOCK FALSE
