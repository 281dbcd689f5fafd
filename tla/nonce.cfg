\* Chains of refunds under one nonce, by Redis and by the Bloom filter, over a rollover, with proofs for any second.
SPECIFICATION Spec
CONSTANTS
    p1 = p1  p2 = p2  h1 = h1  h2 = h2
    User = {x1}
    Key = {k1, k2, k3}
    ZeroKey = ZeroKey
    Nonce = {n1}
    NoNonce = NoNonce
    Server = {p1}
    Task = {h1, h2}
    Home <- OneHome
    CMax = 2
    Expiry = {2}
    MaxEpoch = 1
    EpochStart <- UnitEpochs
    RolloverLag = 0
    Grace = 2
    Day = 1
    IdempotencyTTL = 1
    NonceTTL = 1
    MaxTime = 1
    ProofEpoch <- FirstEpoch
    ProofTime <- AnySecond
SYMMETRY TaskSymmetry
INVARIANTS NonceSpacing RateLimit
PROPERTY ImplementsLedger
