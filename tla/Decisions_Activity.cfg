CONSTANTS
    k1 = k1  k2 = k2  k3 = k3  k4 = k4  k5 = k5
    c1 = c1  c2 = c2
    Key = {k1, k2, k3, k4, k5}
    Conn = {c1, c2}
    of <- TwoConns
    Limit = 3
    Connections = {"x", "y"}
    Roles = {"analyst"}
    Shared = TRUE
    CustomIds = {"p"}
    MaxTouched = 1
    Caps = {20}
    MaxStatements = 2
    MaxOperators = 3
    Statements <- Samples
    Req = {r1, r2}
    Reading = {r2}
    MaxRecord = 2
    Capacity = 1
    MaxBatch = 2
    Writer = Writer
    None = None
SPECIFICATION MCSpec
INVARIANTS
    ConstantsAreTrue
    ScriptHoldsItsParts
    ListedIsEnforced
    Bounded
    KeptOnce
    FlushCovers
    ClosedMeansStored
    ChainUnforked
PROPERTIES
    EveryCallAnswered
    StoredInTheEnd
