SPECIFICATION Spec

CONSTANTS
    o1 = o1
    Orders = {o1}
    WithLegs <- All
    Bridged <- None
    WithOriginLegs <- None
    TransferKey <- Distinct
    MaxAttempts = 3
    MaxStalls = 1
    MaxCrashes = 0
    MaxFaults = 1
    ReadsFail = FALSE
    SavesFail = FALSE
    AnswersLost = TRUE

INVARIANTS
    FilledOnce
