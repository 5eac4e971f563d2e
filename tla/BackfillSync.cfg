\* Two windows (the last one clamped), two overlapping executions, one task the
\* relay enqueues again; the arithmetic for horizons up to 31 days in windows
\* up to 9, so that every remainder occurs.
CONSTANTS
    HorizonDays = 5
    WindowDays = 3
    Today = 100
    MaxHorizon = 31
    MaxWindow = 9
    Slice <- MCSlice
    TotalSlices <- MCTotalSlices
    Worker = {w1, w2}
    w1 = w1
    w2 = w2
    MaxRetry = 1
    MaxRepublish = 1
SPECIFICATION FairSpec
INVARIANTS
    TypeOK
    ClosesOnce
    StatusTellsTruth
    WindowsTileHorizon
PROPERTIES
    TerminalIsFinal
    JobSettles
CHECK_DEADLOCK FALSE
