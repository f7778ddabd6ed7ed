SPECIFICATION Spec
CONSTANTS
    k1 = k1  k2 = k2  k3 = k3
    p1 = p1  p2 = p2  p3 = p3
    s1 = s1  s2 = s2
    g1 = g1  t1 = t1
    Grant = {g1}
    Token = {t1}
    Key <- MCKeys
    Process <- MCProcesses
    SecretOf <- MCSecretOf
    Shape <- MCShape
    None = None
SYMMETRY Symmetric
INVARIANTS
    TypeOK
    KeysAgree
    TokensReadable
CHECK_DEADLOCK FALSE
