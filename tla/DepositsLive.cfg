SPECIFICATION FairSpec

CONSTANTS
    Orders = {o1}
    Requests = {r1}
    Transfers = {t1}
    NoTransfer = none
    NoOrder = none
    Asked <- AskAlike
    Amounts = {1, 2}
    DEPOSIT_CONFIRMATIONS = 1
    DEPOSIT_FINALITY = 2
    MaxAttempts = 2
    MaxHead = 5
    MaxCrashes = 1
    MaxFaults = 1
    Duplicates = FALSE
    Prompt = FALSE

PROPERTIES
    StrayConcluded
