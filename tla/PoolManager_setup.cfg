CONSTANTS
    r1 = r1  r2 = r2  r3 = r3
    Req = {r1, r2, r3}
    Pool = {p1, p2}
    Calls <- ByRole
    MaxVersion = 1
    Gone = Gone
    None = None
SPECIFICATION FairSpec
INVARIANTS
    OvertakenIsNotStored
    NoneLeaked
    SharedIsWanted
PROPERTY EveryCallAnswered
