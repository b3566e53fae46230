\* Two session objects one after the other, three sockets, two response IDs.
SPECIFICATION Spec
CONSTANTS
    a = a
    b = b
    Item = {a, b}
    Input <- Histories
    Output <- Outputs
    Endpoint = {e1, e2}
    Credential = {c1}
    MaxSocket = 3
    MaxId = 2
    MaxSession = 2
    ReuseAnywhere = FALSE
    UnlinkMayFail = FALSE
INVARIANTS
    TypeOK
    ServerSeesWholeHistory
    CheckpointsRehydrate
    NoReferenceCrossesEndpoints
    PositionsAgree
SYMMETRY EndpointSymmetry
CHECK_DEADLOCK FALSE
