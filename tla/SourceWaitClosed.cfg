SPECIFICATION SourceSpec
CONSTANTS
    c1 = c1
    c2 = c2
    u1 = u1
    Closers <- MCOneCloser
    Consumers <- MCConsumers
    Ctor = Ctor
    Nobody = Nobody
    NumKinds = 1
    OwnsClient = FALSE
    WIT = FALSE
    MaxVersion = 2
    LockedReads = TRUE
PROPERTY WaitAfterCloseFails
