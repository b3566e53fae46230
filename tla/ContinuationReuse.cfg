\* The server reuses an ID of the socket for any response on it.
SPECIFICATION Spec
CONSTANTS
    a = a
    b = b
    Item = {a, b}
    Input <- Histories
    Output <- Outputs
    Endpoint = {e1, e2}
    Credential = {c1}
    MaxSocket = 2
    MaxId = 2
    MaxSession = 1
    ReuseAnywhere = TRUE
    UnlinkMayFail = FALSE
INVARIANT CheckpointsRehydrate
SYMMETRY EndpointSymmetry
CHECK_DEADLOCK FALSE
