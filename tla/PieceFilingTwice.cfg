\* Two approvals one after the other, in a world where nothing fails.
CONSTANTS
    Attempt = {a1, a2}
    Click = {c1}
    Worker = {w1}
    MaxRetry = 1
    MaxFaults = 0
    MaxCrashes = 0
    MaxLapses = 0
SPECIFICATION Spec
INVARIANTS
    ProtocolledOnce
CHECK_DEADLOCK FALSE
