SPECIFICATION Spec
CONSTANTS
    prompt = prompt
    notice = notice
    d1 = d1
    d2 = d2
    None = None
    Messages <- MCMessages
    Kind <- MCKind
    Entry <- MCEntry
    Dispatchers = {d1}
    Configs = {"ready", "missing", "invalid"}
    Limit = 2
    MaxStops = 1
    OddAnswers = FALSE
    EarlyReceipts = FALSE
INVARIANTS
    TypeOK
    PostedAtMostFourTimes
    ReceiptsAreStored
    ExpiredWasNotSent
PROPERTIES
    QueueDrains
    PostResolves
CHECK_DEADLOCK FALSE
