\* An answer and its handler may take all but one unit of the timeout.
SPECIFICATION Spec
CONSTANTS
    PingInterval = 2
    LivenessTimeout = 4
    Period = 1
    Late = 1
    RoundTrip = 2
    MaxTime = 20
INVARIANTS
    TypeOK
    NeverEarly
    SilenceBounded
    AnsweringPeerLives
CHECK_DEADLOCK FALSE
