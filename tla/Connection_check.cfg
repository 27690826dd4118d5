SPECIFICATION ConnFairSpec
CONSTANTS
    ConnectTimeout = 2
    HandshakeTimeout = 3
    MaxOverall = 9
    MaxMore = 2
INVARIANTS
    NoLeak
    Bounded
    PromptCancel
    HandshakeInStep
    DialogueGoesOn
PROPERTIES
    DialEnds
