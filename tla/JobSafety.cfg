SPECIFICATION SafetySpec
CONSTANTS
    early = early
    late = late
    None = None
    Offers <- MCOffers
    Cutoff <- MCCutoff
    Requests <- MCRequests
    Horizon = 2
    PayWindow = 1
    MaxStops = 1
    CloseFaults = TRUE
    LoginFrameStable = TRUE
INVARIANTS
    TypeOK
    AtMostOnePreparation
    SelectionIsRecorded
    WatchedAreUntouched
    PayableHasSession
    WatchedHoldNoBrowser
PROPERTIES
    SettledIsFinal
    PausedUntilOwnerActs
    SelectsOnlyInWindow
    PreparesSecondObservation
CHECK_DEADLOCK FALSE
