CONSTANTS
    e1 = e1  e2 = e2  e3 = e3
    c1 = c1  c2 = c2
    a1 = a1  a2 = a2
    Request = {e1, e2, e3}
    Caller = {c1, c2}
    Addr = {a1, a2}
    Optional = {"tls key"}
    Absent = Absent
    MaxNodes = 1
    MaxFails = 2
SYMMETRY Symmetric
SPECIFICATION MCSpec
INVARIANTS
    SecretsAreThere
    NoSecretIsLeft
    OneRefresh
    SentWhereVerified
PROPERTIES
    StaysDeleted
CHECK_DEADLOCK FALSE
