SPECIFICATION Spec
CONSTANTS
    t1 = t1
    t2 = t2
    t3 = t3
    Nobody = Nobody
    Threads <- MCThreads
    Packages <- MCPackages
    Methods <- MCFlat
INVARIANTS
    TypeOK
    OnlyUnlockedReadsRace
PROPERTY CallsReturn
CHECK_DEADLOCK FALSE
