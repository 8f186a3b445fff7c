SPECIFICATION Spec
CONSTANTS
    FlowCtrl = TRUE
    RtxCtrl = TRUE
    Shaper = FALSE
    Initiator = TRUE
    InOrder = TRUE
    MaxSduGap = 0
    InitialCredit = 1
    MaxCwqLen = 1
    MaxRtxqLen = 3
    InitialA = 1
    UpperIpcp = FALSE
    CgwinMin = 2
    CgwinMax = 4
    SeqqMaxLen = 2
    RxqSizeMax = 1
    RxCpu = {c1}
    Reorder = FALSE
    DrfProtected = FALSE
    ExactRtx = FALSE
    MaxSdus = 3
    MaxDataLoss = 0
    MaxCtrlLoss = 0
    MaxRtx = 1
    MaxSndInact = 1
    MaxRcvInact = 1
    MaxEagain = 0
    MaxOom = 1
INVARIANTS
    CwqContinuesSent
    WindowRespected
    RtxqHoldsUnacked
    RtxTimerArmed
    SeqqWaits
CHECK_DEADLOCK FALSE
