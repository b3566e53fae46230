\* Four calls share two session IDs, or bring none; two may wait in a session.
SPECIFICATION Spec
CONSTANTS
    Request = {r1, r2, r3, r4}
    Id = {a, b}
    NoId = none
    MaxPending = 2
SYMMETRY Symmetry
INVARIANTS
    TypeOK
    LiveSessionsAreMapped
PROPERTIES
    PruneSparesTheLine
CHECK_DEADLOCK FALSE
