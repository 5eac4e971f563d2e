SPECIFICATION FairSpec
CONSTANTS
    Prazo = {p1}
    Session = {s1}
    CountDays <- MCCountDays
    ReminderDaysLeft = {1}
    MaxDay = 5
    MaxEdits = 1
    MaxEntries = 0
    MaxArchivals = 0
    MaxAborts = 0
    MaxLost = 0
CHECK_DEADLOCK FALSE
PROPERTY OverdueIsCaught
