SPECIFICATION StatementsSpec
CONSTANTS
    k1 = k1
    k2 = k2
    q1 = q1
    q2 = q2
    Key <- MCKey
    Req <- MCReq
    Absent = Absent
    None = None
    BatchRows = 1
    Keep = 1
    Confs <- MCConfs
    Policies <- MCPolicies
SYMMETRY MCSymmetry
CHECK_DEADLOCK FALSE
INVARIANTS
    BackupMatchesAnswer
    RanIsRecorded
PROPERTIES
    RestoreIsUndo
    LaterEditsKept
    ReadOnlyNeverWrites
