\* With no grace period the previous epoch is still accepted for all of the next.
SPECIFICATION Spec
CONSTANTS
    p1 = p1  p2 = p2  h1 = h1  h2 = h2
    User = {x1}
    Key = {k1, k2}
    ZeroKey = ZeroKey
    Nonce = {n1}
    NoNonce = NoNonce
    Server = {p1}
    Task = {h1}
    Home <- OneHome
    CMax = 2
    Expiry = {3}
    MaxEpoch = 1
    EpochStart <- TwoTickEpochs
    RolloverLag = 0
    Grace = 0
    Day = 2
    IdempotencyTTL = 2
    NonceTTL = 1
    MaxTime = 3
    ProofEpoch <- AnyEpoch
    ProofTime <- AnySecond
SYMMETRY KeySymmetry
INVARIANT GraceRespected
