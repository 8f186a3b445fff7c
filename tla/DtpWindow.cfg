SPECIFICATION Spec
CONSTANTS
    FlowCtrl = TRUE
    RtxCtrl = FALSE
    Shaper = TRUE
    Initiator = TRUE
    InOrder = TRUE
    MaxSduGap = 1
    InitialCredit = 2
    MaxCwqLen = 1
    MaxRtxqLen = 2
    InitialA = 1
    UpperIpcp = FALSE
    CgwinMin = 2
    CgwinMax = 4
    SeqqMaxLen = 2
    RxqSizeMax = 1
    RxCpu = {c1}
    Reorder = TRUE
    DrfProtected = TRUE
    ExactRtx = FALSE
    MaxSdus = 5
    MaxDataLoss = 2
    MaxCtrlLoss = 0
    MaxRtx = 0
    MaxSndInact = 0
    MaxRcvInact = 0
    MaxEagain = 1
    MaxOom = 0
INVARIANTS
    WindowRespected
    
    RxqLimited
CHECK_DEADLOCK FALSE
