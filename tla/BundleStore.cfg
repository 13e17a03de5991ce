CONSTANTS
    td1 = td1
    b1 = b1
    b2 = b2
    a1 = a1
    Nil = Nil
    TDs <- MCTDs
    Slots <- MCSlots
    Authorities <- MCAuthorities
SPECIFICATION Spec
SYMMETRY Symmetry
INVARIANTS SourceServesLatest
PROPERTIES ImplementsValues
