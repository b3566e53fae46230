\* Requests one after another through one session and its sockets.
SPECIFICATION Spec
CONSTANTS
    MaxQueued = 2
    MaxFrames = 3
INVARIANTS
    TypeOK
    NoAttemptAfterOutput
    NoCrossTalk
    AttemptsBounded
    EndsInOrder
    NoSocketAfterDispose
PROPERTIES
    RequestsEnd
CHECK_DEADLOCK FALSE
