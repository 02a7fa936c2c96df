CONSTANTS
    MaxAttempts = 2
    SignalTimeout = 2
    ConnectionTimeout = 2
    FirstFrameTimeout = 3
    StallTimeout = 2
    PipeSize = 2
SPECIFICATION FairSpec
INVARIANT DeniedNotRetried
CHECK_DEADLOCK FALSE
