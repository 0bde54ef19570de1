SPECIFICATION Spec
CONSTANTS
    s1 = s1
    s2 = s2
    v1 = v1
    v2 = v2
    None = None
    Sweeper = sweeper
    Searches = {s1, s2}
    Seats = {v1, v2}
    Limit = 2
    MaxSessions = 1
    CloseFaults = TRUE
INVARIANTS
    TypeOK
    SessionsBounded
    BudgetIsExact
    NoBrowserLost
    RegisteredIsOpen
PROPERTIES
    NotClosedUnderReader
    SearchEnds
    SeatsServed
    ExpiredIsClosed
CHECK_DEADLOCK FALSE
