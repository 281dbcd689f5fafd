\* Two subscribers' spends with one batch nonce in one process.
SPECIFICATION Spec
CONSTANTS
    p1 = p1  p2 = p2  h1 = h1  h2 = h2
    User = {x1, x2}
    Key = {k1, k2, k3, k4}
    ZeroKey = ZeroKey
    Nonce = {n1}
    NoNonce = NoNonce
    Server = {p1}
    Task = {h1, h2}
    Home <- OneHome
    CMax = 1
    Expiry = {0}
    MaxEpoch = 0
    EpochStart <- UnitEpochs
    RolloverLag = 0
    Grace = 2
    Day = 1
    IdempotencyTTL = 2
    NonceTTL = 1
    MaxTime = 0
    ProofEpoch <- AnyEpoch
    ProofTime <- AnySecond
SYMMETRY TaskSymmetry
INVARIANT BatchNonceOnce
