SPECIFICATION Spec
CONSTANTS
    Node = {a, b}
    None = None
    ReusePorts = TRUE
    Failures = FALSE
    MayExpire = FALSE
    MaxReq = 2
INVARIANTS
    ShutByPeer
CHECK_DEADLOCK FALSE
