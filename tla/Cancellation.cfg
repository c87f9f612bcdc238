SPECIFICATION FairSpec
CONSTANTS
    Procs = {p1, p2}
    MAX_ATTEMPTS = 2
    MaxFaults = 2
INVARIANTS
    EventFollowsOrder
    ClosedParcelIsDead
PROPERTIES
    ClosedStaysClosed
    CancellationSettles
CHECK_DEADLOCK FALSE
