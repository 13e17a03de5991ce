SPECIFICATION Spec
CONSTANTS
    a1 = a1
    a2 = a2
    Authorities <- MCAuthorities
    Hints <- MCHints
    TicksPerSecond = 2
    MaxChanges = 2
    MaxFailures = 2
INVARIANTS
    TypeOK
    HintIsConveyed
PROPERTIES
    UpdateIffChanged
    CatchesUp
    ReturnsWhenCanceled
