\* The default policy, in units of five minutes.
SPECIFICATION Spec
CONSTANTS
    Limit = 2
    Cooldown = 2
    Budget = 6
    Block = {1}
    MaxTime = 8
    MaxTurn = 4
    MaxObject = 2
INVARIANTS
    TypeOK
    RecoveriesPaced
    InProgressExact
    OnlyLoopIsCut
    DetectorReadsOneTurn
    SteersWereGranted
PROPERTIES
    DetectionsSettle
CHECK_DEADLOCK FALSE
