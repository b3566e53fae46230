\* Seven messages over two milliseconds.
SPECIFICATION Spec
CONSTANTS
    Image = {2, 3}
    ImageSize = 1
    Overhead = 1
    Cutoff = 7
    MaxImageBytes = 4
    HasUI = TRUE
    MaxTime = 2
    MaxMade = 7
    MaxHistory = 6
INVARIANTS
    TypeOK
    StoreOffUntilCompaction
    StoreFollowsSize
    OmittedStaysOut
    OneNudgePerRun
CHECK_DEADLOCK FALSE
