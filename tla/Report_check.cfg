SPECIFICATION Spec
CONSTANTS
    Day = 2
    MaxDuration = 3
    NResults = 2
    WarningDays = 1
    MaxTime = 3
    Dates <- MCDates
INVARIANTS
    ExitMatchesOutput
    JudgedAtReport
    NoSilentSoftFail
    DaysFitStatus
