\* Visible text: short blocks need three copies, long ones two.
SPECIFICATION Spec
CONSTANTS
    Letter = {a, b}
    Tick = tick
    CheckInterval = 2
    ExactMinPeriod = 1
    ExactMaxPeriod = 3
    LongExactPeriod = 2
    NearWindow = 2
    NearMin = 4
    NearPercent = 92
    NoveltyInterval = 2
    NoveltyMin = 6
    NoveltyPrevious = 4
    NoveltyRecent = 2
    NoveltyPercent = 85
    MaxText = 8
    MaxDelta = 4
SYMMETRY Symmetry
INVARIANTS
    CutIsTheRepetition
    CutsDoNotMatter
CHECK_DEADLOCK FALSE
