CONSTANTS
    Client = {c1, c2}
    App = App
    Nobody = Nobody
    PollWait = 1
    IntWait = 6
    TermWait = 10
    GroupWait = 4
    ReleaseDelay = 2
    KillTimeout = 10
    Retire = 1
SPECIFICATION SessionSpec
INVARIANTS OneEngine
