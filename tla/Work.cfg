\* Two API transactions, two executions of each server, one document, one piece,
\* two court records in batches of one. OABs, attempts and records of a court
\* never meet: they share their model values, to have fewer permutations.
CONSTANTS
    Session = {s1, s2}
    Worker = {w1, w2}
    MaxRetry = 2
    MaxFaults = 2
    MaxCrashes = 1
    MaxLapses = 1
    Doc = {d1}
    MaxEvents = 2
    OAB = {x1, x2}
    MaxTime = 3
    MaxRequests = 2
    MaxCycles = 1
    MaxToggles = 2
    MaxGenerations = 3
    MaxGenerationFaults = 1
    Attempt = {x1, x2}
    Record = {x1, x2}
    BatchSize = 1
    MaxObservations = 2
    MaxDocket = 1
    MaxStep = 2
    MaxConnects = 2
    MaxFetchRetry = 1
    MaxMishaps = 1
SPECIFICATION WorkSpec
CHECK_DEADLOCK FALSE
SYMMETRY Symmetric
INVARIANTS
    PartsTyped
    NoGapForgotten
    HistoryNotSwallowed
    EachStageOnce
    ExtractedOnce
    QuietIsSettled
    QuietIsIndexed
    ExtractingIsServed
    ToldTheTruth
    NotRefiled
    CursorPassesNothing
    DueIsServed
PROPERTIES
    DeletedNotIndexed
