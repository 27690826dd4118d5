SPECIFICATION OutputSpec
CONSTANTS
    Chains <- MCChains
    Results <- MCResults
    Failed = Failed
    Secure <- MCSecure
    Room = 2
INVARIANTS
    NilMeansWhole
    NoHole
    ColumnsFit
