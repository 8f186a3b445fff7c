SPECIFICATION Spec
CONSTANTS
    Replica = {r1, r2, r3}
    None = None
    Command = {c1, c2}
    ChunkLen = 2
    LoneCandidates = TRUE
    MaxTerm = 2
    ChannelCap = 2
    MaxHeartbeats = 0
    MaxLoss = 1
    MaxRestart = 1
SYMMETRY Symmetry
INVARIANTS
    
    TimerMatchesRole
CHECK_DEADLOCK FALSE
