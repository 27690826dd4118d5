SPECIFICATION Spec
CONSTANTS
    Day = 2
    MaxDuration = 3
    NResults = 1
    WarningDays = 1
    MaxTime = 3
    Dates <- MCDates
INVARIANTS
    ReasonIsHealthReason
