CONSTANTS
    r1 = r1  u1 = u1  u2 = u2  c1 = c1
    Txn = {t1, t2}
    Req = {r1, r2}
    User = {u1}
    Conn = {c1}
    MongoConn = {}
    user <- SameUser
    connection <- SameConn
    Calls = {"begin", "query", "commit", "rollback", "delete"}
    PerUser = 1
    PerConnection = 2
    Reaper = Reaper  Closer = Closer
    Free = Free  NoTxn = NoTxn  NoOwner = NoOwner
SPECIFICATION Spec
SYMMETRY Symmetry
INVARIANTS
    NeverReapedInUse
    NoneLeaked
    CommitAnswersTrue
    OverrunBounded
PROPERTY ImplementsLedger
