SPECIFICATION Spec
CONSTANTS
    Replica = {r1, r2, r3}
    None = None
    Command = {c1, c2}
    ChunkLen = 2
    LoneCandidates = TRUE
    MaxTerm = 2
    ChannelCap = 2
    MaxHeartbeats = 1
    MaxLoss = 1
    MaxRestart = 0
SYMMETRY Symmetry
INVARIANTS
    LogMatching
    
    ResponseIsForCommand

    
CHECK_DEADLOCK FALSE
