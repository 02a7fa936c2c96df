CONSTANTS
    Client = {c1, c2}
    App = App
    Nobody = Nobody
    PollWait = 1
    IntWait = 1
    TermWait = 1
    GroupWait = 1
    ReleaseDelay = 2
    KillTimeout = 7
    Retire = 1
SPECIFICATION FairSessionSpec
INVARIANTS SessionTypeOK OneEngine NoNextCameraRace
PROPERTY StoppedLeaves
