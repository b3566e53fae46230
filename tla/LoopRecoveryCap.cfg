\* Time for a third recovery after one has aged out of the budget.
SPECIFICATION Spec
CONSTANTS
    Limit = 2
    Cooldown = 2
    Budget = 6
    Block = {1}
    MaxTime = 8
    MaxTurn = 4
    MaxObject = 2
INVARIANT CappedPerSession
CHECK_DEADLOCK FALSE
