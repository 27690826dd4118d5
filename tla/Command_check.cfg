SPECIFICATION FairSpec
CONSTANTS
    MaxPieces = 2
INVARIANTS
    ValidBeforeTraffic
    InterruptedReadFails
    OtherCodesMeanInspected
PROPERTIES
    CommandEnds
