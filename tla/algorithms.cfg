\* Batches of up to eight nonces; orders, widths and bounds of the equality
\* proofs in the proportions of the code's; scalars of four two-bit windows;
\* four selectors in two bytes; points of three two-bit bytes.
SPECIFICATION AlgorithmsSpec
CONSTANTS
    Nonce = {n1, n2}
    Zero = Zero
    MaxDepth = 3
    Q = 37
    R = 41
    LimbBase = 3
    HalfRange = 2
    Challenge = 9
    Weight = 4
    Secret = 32
    BalanceBlind = 20
    DistanceBlind = 256
    SecretBlind = 256
    DistanceBound = 512
    SecretBound = 512
    Order = 251
    WindowBits = 2
    NumWindows = 4
    AmountBits = 5
    SelectorBits = 3
    StreamByteBits = 8
    MaxSelectors = 4
    ByteBits = 2
    PayloadBytes = 3
    EncodingBits = 10
    MaxAttempts = 2
INVARIANTS RootExact PathsVerify HonestAccepted TwoAnswers MulExact AmountExact SelectorsReadBack ChunkReadBack
\* Every one of the algorithms ends.
CHECK_DEADLOCK FALSE
