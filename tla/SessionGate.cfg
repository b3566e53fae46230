\* Four callers compete for one session whose line holds two.
SPECIFICATION Spec
CONSTANTS
    Request = {r1, r2, r3, r4}
    MaxPending = 2
INVARIANTS
    TypeOK
    ChainInOrder
    OneRequestAtATime
    PendingIsExact
PROPERTIES
    ImplementsLock
    NeverIdleWithWaiters
    DisposeFreesWaiters
CHECK_DEADLOCK FALSE
