\* A revoked handle beyond u32::MAX.
SPECIFICATION Spec
CONSTANTS
    x1 = x1  x2 = x2
    User = {x1, x2}
    Emax <- Expiry
    DomainMax = 4
    MaxValue = 6
    Blacklists <- UpToTwo
    MaxVersion = 1
    MaxProofs = 2
    MaxTime = 2
INVARIANT NotRevokedCanProve
