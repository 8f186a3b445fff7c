SPECIFICATION Spec
CONSTANTS
    FlowCtrl = TRUE
    RtxCtrl = TRUE
    Shaper = FALSE
    Initiator = TRUE
    InOrder = TRUE
    MaxSduGap = 0
    InitialCredit = 1
    MaxCwqLen = 1
    MaxRtxqLen = 3
    InitialA = 1
    UpperIpcp = FALSE
    CgwinMin = 2
    CgwinMax = 4
    SeqqMaxLen = 2
    RxqSizeMax = 1
    RxCpu = {c1}
    Reorder = TRUE
    DrfProtected = TRUE
    ExactRtx = FALSE
    MaxSdus = 3
    MaxDataLoss = 1
    MaxCtrlLoss = 1
    MaxRtx = 1
    MaxSndInact = 0
    MaxRcvInact = 0
    MaxEagain = 0
    MaxOom = 0
INVARIANTS
    TypeOK
    CwqContinuesSent
    WindowRespected
    RtxqHoldsUnacked
    RtxTimerArmed
    SeqqWaits
    ReliableInOrder
    AckedWasReceived
CHECK_DEADLOCK FALSE
