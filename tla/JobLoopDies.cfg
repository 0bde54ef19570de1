SPECIFICATION Spec
CONSTANTS
    early = early
    late = late
    None = None
    Offers <- OneOffer
    Cutoff <- OneCutoff
    Requests <- FewRequests
    Horizon = 2
    PayWindow = 1
    MaxStops = 1
    CloseFaults = TRUE
    LoginFrameStable = TRUE
PROPERTIES
    WatchedIsPolled
CHECK_DEADLOCK FALSE
