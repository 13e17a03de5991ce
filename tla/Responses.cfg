SPECIFICATION Spec
CONSTANTS
    t1 = t1
    t2 = t2
    k1 = k1
    k2 = k2
    k3 = k3
    k4 = k4
    Hints = {"h1"}
    TrustDomains <- MCTrustDomains
    Keys <- MCKeys
    Names <- MCNames
    Malformed = Malformed
    MaxSVIDs = 3
INVARIANTS
    TypeOK
    FirstOfEqualHints
    AllOrNothing
    BundlePrecedence
    OnlyOwnClientClosed
