\* Two instances sharing a lease: fenced saves, checked sends, takeovers.
SPECIFICATION FairSpec

CONSTANTS
    Instances = {i1, i2}
    Chains = {base}
    Tokens = {n1, n2, n3}
    NoToken = none

INVARIANTS
    TypeOK
    HolderIsCurrent
    OneLateSend

PROPERTIES
    LoserStops
    TakenOver
