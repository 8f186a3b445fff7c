SPECIFICATION FairSpec
CONSTANTS
    FlowCtrl = TRUE
    RtxCtrl = TRUE
    Shaper = FALSE
    Initiator = TRUE
    InOrder = TRUE
    MaxSduGap = 0
    InitialCredit = 2
    MaxCwqLen = 1
    MaxRtxqLen = 2
    InitialA = 1
    UpperIpcp = FALSE
    CgwinMin = 2
    CgwinMax = 4
    SeqqMaxLen = 2
    RxqSizeMax = 1
    RxCpu = {c1}
    Reorder = FALSE
    DrfProtected = TRUE
    ExactRtx = TRUE
    MaxSdus = 4
    MaxDataLoss = 1
    MaxCtrlLoss = 0
    MaxRtx = 0
    MaxSndInact = 0
    MaxRcvInact = 0
    MaxEagain = 0
    MaxOom = 0
PROPERTIES
    ReliableDelivery
    
CHECK_DEADLOCK FALSE
