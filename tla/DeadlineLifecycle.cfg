SPECIFICATION Spec
CONSTANTS
    Prazo = {p1}
    Session = {s1, s2}
    CountDays <- MCCountDays
    ReminderDaysLeft = {1}
    MaxDay = 5
    MaxEdits = 2
    MaxEntries = 1
    MaxArchivals = 1
    MaxAborts = 0
    MaxLost = 0
CHECK_DEADLOCK FALSE
SYMMETRY Sessions
INVARIANTS TypeOK UnsureNeedsHuman SealAgreesWithDecision
PROPERTIES DecidedOnce SettledStays FactsMatchMoves ReminderNotEarly
