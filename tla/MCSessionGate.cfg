CONSTANTS
    Pid = {p1, p2}
    NoPid = NoPid
    MaxClock = 4
    MaxStart = 3
    HintEvery = 1
SPECIFICATION FairSpec
INVARIANTS TypeOK LiveTicketKept
PROPERTIES ArbiterSpec NoStarvation HintReasserted
CHECK_DEADLOCK FALSE
