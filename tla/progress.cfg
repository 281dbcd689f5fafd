\* Every started handler ends, whatever fails around it.
SPECIFICATION FairSpec
CONSTANTS
    p1 = p1  p2 = p2  h1 = h1  h2 = h2
    User = {x1}
    Key = {k1, k2}
    ZeroKey = ZeroKey
    Nonce = {n1}
    NoNonce = NoNonce
    Server = {p1}
    Task = {h1, h2}
    Home <- OneHome
    CMax = 1
    Expiry = {0, 1}
    MaxEpoch = 1
    EpochStart <- UnitEpochs
    RolloverLag = 0
    Grace = 2
    Day = 1
    IdempotencyTTL = 2
    NonceTTL = 1
    MaxTime = 1
    ProofEpoch <- AnyEpoch
    ProofTime <- AnySecond
PROPERTIES HandlersFinish WithinSubscription
