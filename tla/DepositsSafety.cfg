SPECIFICATION Spec

CONSTANTS
    Orders = {o1, o2}
    Requests = {r1, r2}
    Transfers = {t1}
    NoTransfer = none
    NoOrder = none
    Asked <- AskAlike
    Amounts = {2}
    DEPOSIT_CONFIRMATIONS = 1
    DEPOSIT_FINALITY = 2
    MaxAttempts = 2
    MaxHead = 4
    MaxCrashes = 1
    MaxFaults = 1
    Duplicates = FALSE
    Prompt = TRUE

INVARIANTS
    TypeOK
    ClaimedOnce
    NeverBoth
    ReturnedOnce
    ToldIsWanted

SYMMETRY Alike
