\* A session shut down during a request.
SPECIFICATION Spec
CONSTANTS
    a = a
    b = b
    Item = {a, b}
    Input <- Histories
    Output <- Outputs
    Endpoint = {e1, e2}
    Credential = {c1}
    MaxSocket = 2
    MaxId = 2
    MaxSession = 2
    ReuseAnywhere = FALSE
    UnlinkMayFail = FALSE
PROPERTY ShutdownKeepsCheckpoint
SYMMETRY EndpointSymmetry
CHECK_DEADLOCK FALSE
