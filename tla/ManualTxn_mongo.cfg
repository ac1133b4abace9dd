CONSTANTS
    r1 = r1  u1 = u1  u2 = u2  c1 = c1
    Txn = {t1}
    Req = {r1, r2, r3}
    User = {u1, u2}
    Conn = {c1}
    MongoConn = {c1}
    user <- OtherUser
    connection <- SameConn
    Calls = {"begin", "query", "commit", "rollback", "quit"}
    PerUser = 1
    PerConnection = 2
    Reaper = Reaper  Closer = Closer
    Free = Free  NoTxn = NoTxn  NoOwner = NoOwner
SPECIFICATION Spec
SYMMETRY PairSymmetry
PROPERTIES
    OnlyOwnerCommits
