\* The same OAB is switched off twice.
CONSTANTS
    OAB = {oa}
    Tx = {h1}
    MaxTime = 4
    MaxRequests = 1
    MaxCycles = 2
    MaxToggles = 2
SPECIFICATION Spec
INVARIANTS
    NoGapForgotten
CHECK_DEADLOCK FALSE
