SPECIFICATION SourceSpec
CONSTANTS
    c1 = c1
    c2 = c2
    u1 = u1
    Closers <- MCOneCloser
    Consumers <- MCConsumers
    Ctor = Ctor
    Nobody = Nobody
    NumKinds = 2
    OwnsClient = TRUE
    WIT = TRUE
    MaxVersion = 2
    LockedReads = TRUE
INVARIANTS
    IInv
PROPERTIES
    GetReturns
    CloseReturns
