CONSTANTS
    MaxAttempts = 2
    SignalTimeout = 2
    ConnectionTimeout = 2
    FirstFrameTimeout = 3
    StallTimeout = 2
    PipeSize = 2
SPECIFICATION FairSpec
INVARIANTS TypeOK SessionInsideGate SuccessIsReal
PROPERTIES NoSilentHang StopEnds
CHECK_DEADLOCK FALSE
