CONSTANTS
    Account = {owner, member}
    NoAccount = NoAccount
    Denied = {member}
    Stream = {s1, s2}
    NoStream = NoStream
    Lease = 5
    RestartDelay = 4
    FetchLimit = 10
    Horizon = 5
SPECIFICATION EitherSpec
INVARIANTS AddonTypeOK ServesOwnAccount ConfigFollowsDiscovery CodeSentOnce TypeOK OneConnection
PROPERTIES ComesUp LeaseEnds FollowsViewer
