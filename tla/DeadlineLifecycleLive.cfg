SPECIFICATION FairSpec
CONSTANTS
    Prazo = {p1}
    Session = {s1}
    CountDays <- MCCountDays
    ReminderDaysLeft = {}
    MaxDay = 5
    MaxEdits = 1
    MaxEntries = 1
    MaxArchivals = 0
    MaxAborts = 1
    MaxLost = 1
CHECK_DEADLOCK FALSE
PROPERTIES ArmedIsCaught ResponseReconciles
