\* Daily tokens of a subscriber from two processes that may be in different
\* epochs; the nullifier TTL is one epoch and the grace period.
SPECIFICATION Spec
CONSTANTS
    p1 = p1  p2 = p2  h1 = h1  h2 = h2
    User = {x1}
    Key = {k1, k2}
    ZeroKey = ZeroKey
    Nonce = {}
    NoNonce = NoNonce
    Server = {p1, p2}
    Task = {h1, h2}
    Home <- TwoHomes
    CMax = 1
    Expiry = {3}
    MaxEpoch = 1
    EpochStart <- TwoTickEpochs
    RolloverLag = 0
    Grace = 1
    Day = 2
    IdempotencyTTL = 1
    NonceTTL = 1
    MaxTime = 4
    ProofEpoch <- AnyEpoch
    ProofTime <- AnySecond
SYMMETRY KeySymmetry
INVARIANTS OneDailyToken
