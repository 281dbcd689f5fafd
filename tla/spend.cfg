\* Redemptions of one token: a nonce sent with and without its Merkle proof, retries, restarts, two epochs.
SPECIFICATION Spec
CONSTANTS
    p1 = p1  p2 = p2  h1 = h1  h2 = h2
    User = {x1}
    Key = {k1, k2, k3}
    ZeroKey = ZeroKey
    Nonce = {n1}
    NoNonce = NoNonce
    Server = {p1}
    Task = {h1, h2}
    Home <- OneHome
    CMax = 1
    Expiry = {2}
    MaxEpoch = 1
    EpochStart <- UnitEpochs
    RolloverLag = 0
    Grace = 2
    Day = 1
    IdempotencyTTL = 2
    NonceTTL = 1
    MaxTime = 2
    ProofEpoch <- CalendarEpochs
    ProofTime <- LaterSeconds
SYMMETRY TaskSymmetry
INVARIANTS TypeOK SingleRedemption NullifierRemembered
