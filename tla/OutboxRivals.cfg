SPECIFICATION SafetySpec
CONSTANTS
    prompt = prompt
    notice = notice
    d1 = d1
    d2 = d2
    None = None
    Messages <- OneMessage
    Kind <- OneKind
    Entry <- OneEntry
    Dispatchers = {d1, d2}
    Configs = {"ready"}
    Limit = 2
    MaxStops = 1
    OddAnswers = TRUE
    EarlyReceipts = FALSE
INVARIANTS
    TakenAtMostOnce
CHECK_DEADLOCK FALSE
