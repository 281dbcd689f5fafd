\* Files of every layout from empty to three packed (six single) blocks, up to two of them strays.
SPECIFICATION Spec
CONSTANTS
    x1 = x1  x2 = x2
    Secret = {x1, x2}
    Spender = x1
    Emax = 1
    PointBytes = 2
    PointsPerBlock = 2
    FullAuditBytes = 5
    MaxChallenges = 3
    BatchThreshold = 2
    BadFraction <- AQuarterOfBlocks
    Confidence <- ConfidenceAsked
    Sizes = {0, 5, 6, 11}
    Cuts <- ShortCuts
    MaxStrays = 2
    Nonces <- TwoNonces
    Counts = {0, 2, 3}
    Blacklists <- NoneOrTheHandle
    MaxVersion = 1
    MaxTime = 1
INVARIANTS AcceptedRecoverable AuditShowsContent AuditConfident UploaderNotRevoked HonestUploadAccepted Retrievable
CHECK_DEADLOCK FALSE
