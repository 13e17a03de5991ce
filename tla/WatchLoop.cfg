SPECIFICATION Spec
CONSTANTS
    MaxVersion = 3
    Malformed <- MCMalformed
    MaxFailures = 4
    InitialDelay = 1
    MaxDelay = 3
INVARIANT TypeOK
INVARIANT BackoffCountsFailures
PROPERTY ImplementsContract
PROPERTY MaterialArrives
