SPECIFICATION MCSpec
CONSTANTS
    NTargets = 3
    Concurrency = 2
INVARIANTS
    NoTruncatedSuccess
    ExitPrecedence
    EveryInputReported
PROPERTIES
    KeepsPromise
