CONSTANTS
    Stream = {s1, s2}
    NoStream = NoStream
    Lease = 5
    RestartDelay = 4
    FetchLimit = 10
    Horizon = 5
SPECIFICATION Spec
PROPERTIES LeaseIsShort
