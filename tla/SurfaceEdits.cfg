SPECIFICATION Spec
CONSTANTS
    c1 = c1
    c2 = c2
    c3 = c3
    e1 = e1
    None = None
    Calls = {c1, c2, c3}
    Editable = {e1}
    MaxMessages = 1
    MaxLanes = 2
    MaxRevision = 3
    InOrder = TRUE
CHECK_DEADLOCK FALSE
SYMMETRY MCSymmetry
INVARIANTS
    EditsAreSerial
    SettledShowsLast
PROPERTY
    NeverBackwards
