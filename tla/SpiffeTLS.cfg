SPECIFICATION Spec
CONSTANTS
    e1 = e1
    e2 = e2
    e3 = e3
    e4 = e4
    m1 = m1
    m2 = m2
    b1 = b1
    b2 = b2
    NoBase = NoBase
    Endpoints <- MCEndpoints
    ModeIds <- MCModeIds
    ModeOf <- MCModeOf
    Bases <- MCBases
    BaseOf <- MCBaseOf
    Brings <- MCBrings
    OneAtATime = TRUE
INVARIANTS
    TypeOK
    NothingLeaks
    SourcesAreLive
    ModeControlsHandshake
