CONSTANTS
    q1 = q1  q2 = q2
    Query = {q1, q2}
    Inputs <- SomeInputs
    DayLength = 2
    MinEvery = 1
    MaxEvery = 14
    Late = 0
    Kept = 1
    Result = 2
    Limit = 1
    MaxTime = 2
    MaxRuns = 2
    MaxSaves = 2
    MaxLives = 2
    MaxFaults = 1
    Window = {w1, w2}
    MaxEdits = 3
    MaxRequests = 3
    Request = {r1, r2}
    Ticket = {t1, t2}
    MaxTokens = 3
    MaxBumps = 2
SPECIFICATION BackgroundSpec
INVARIANTS
    StartedOnce
    RunsAreTrue
    NothingOverwritten
    LoggedOutStaysOut
PROPERTIES
    DueIsHandled
CHECK_DEADLOCK FALSE
