\* One import whose two windows both find records of court ca.
CONSTANTS
    r1 = r1
    r2 = r2
    r3 = r3
    v1 = v1
    v2 = v2
    ca = ca
    cb = cb
    j1 = j1
    w1 = w1
    w2 = w2
    Record = {r1, r3}
    Window = {v1, v2}
    Court = {ca, cb}
    Job = {j1}
    WindowOf <- MCWindowOf
    CourtOf <- MCCourtOf
    JobOf <- MCOneJob
    ScanLimit = 1
    MaxPass = 2
    Worker = {w1, w2}
    MaxRetry = 1
    MaxFaults = 1
SPECIFICATION Spec
SYMMETRY WorkerSymmetry
INVARIANTS
    DueIsOwned
CHECK_DEADLOCK FALSE
