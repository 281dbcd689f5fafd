\* Lists, copies and proofs of several versions, all blacklists of the domain.
SPECIFICATION Spec
CONSTANTS
    x1 = x1  x2 = x2
    User = {x1, x2}
    Emax <- Expiry
    DomainMax = 4
    MaxValue = 4
    Blacklists <- InDomain
    MaxVersion = 1
    MaxProofs = 2
    MaxTime = 2
INVARIANTS AcceptedNotRevoked GapsExact NotRevokedCanProve
