SPECIFICATION SourceSpec
CONSTANTS
    c1 = c1
    c2 = c2
    u1 = u1
    Closers <- MCClosers
    Consumers <- MCConsumers
    Ctor = Ctor
    Nobody = Nobody
    NumKinds = 2
    OwnsClient = TRUE
    WIT = FALSE
    MaxVersion = 2
    LockedReads = TRUE
INVARIANTS
    SourceTypeOK
    NoSpuriousNotification
    NoLostUpdate
    ErrChNeverBlocks
    ClosedIsQuiet
    CloseCallsAgree
    GetAfterCloseFails
    BlockedConsumerIsCurrent
PROPERTIES
    ConstructorReturns
