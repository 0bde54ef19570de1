SPECIFICATION SafetySpec
CONSTANTS
    prompt = prompt
    notice = notice
    d1 = d1
    d2 = d2
    None = None
    Messages <- MCMessages
    Kind <- MCKind
    Entry <- MCEntry
    Dispatchers = {d1}
    Configs = {"ready"}
    Limit = 2
    MaxStops = 1
    OddAnswers = FALSE
    EarlyReceipts = TRUE
INVARIANTS
    ReceiptsAreStored
CHECK_DEADLOCK FALSE
