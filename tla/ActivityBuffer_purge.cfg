CONSTANTS
    Req = {r1, r2}
    Reading = {r2}
    MaxRecord = 2
    Capacity = 1
    MaxBatch = 2
    Writer = Writer
    None = None
SPECIFICATION Spec
INVARIANT VerifiesUntouched
