SPECIFICATION FairSpec
CONSTANTS
    Node = {a, b}
    None = None
    ReusePorts = FALSE
    Failures = TRUE
    MayExpire = TRUE
    MaxReq = 2
 
INVARIANTS
    ShutByPeer
    EndsAgree
CHECK_DEADLOCK FALSE
