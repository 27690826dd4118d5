SPECIFICATION FairSpec
CONSTANTS
    Suites <- MCSuites
    DefaultSuites <- MCDefaultSuites
INVARIANTS
    ReportsWhatWasSeen
PROPERTIES
    StopsInTime
    HonoursContext
