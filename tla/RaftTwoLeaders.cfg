SPECIFICATION Spec
CONSTANTS
    Replica = {r1, r2, r3}
    None = None
    Command = {c1, c2}
    ChunkLen = 2
    LoneCandidates = FALSE
    MaxTerm = 2
    ChannelCap = 2
    MaxHeartbeats = 1
    MaxLoss = 0
    MaxRestart = 0
SYMMETRY Symmetry
INVARIANTS
    ElectionSafety
CHECK_DEADLOCK FALSE
