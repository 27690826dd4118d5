SPECIFICATION FairSpec
CONSTANTS
    FutureSkew = 1
    MaxAge = 1
    NResponders = 2
    MaxTime = 3
    Entries <- MCEntries
INVARIANTS
    VerdictHasEvidence
    PolicyTable
    NoAttemptAfterLate
PROPERTIES
    CheckEnds
    HonoursContext
