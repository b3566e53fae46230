\* Removing the checkpoint file may fail.
SPECIFICATION Spec
CONSTANTS
    a = a
    b = b
    Item = {a, b}
    Input <- Histories
    Output <- Outputs
    Endpoint = {e1, e2}
    Credential = {c1}
    MaxSocket = 2
    MaxId = 2
    MaxSession = 1
    ReuseAnywhere = FALSE
    UnlinkMayFail = TRUE
INVARIANT ServerSeesWholeHistory
SYMMETRY EndpointSymmetry
CHECK_DEADLOCK FALSE
