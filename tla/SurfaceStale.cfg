SPECIFICATION Spec
CONSTANTS
    c1 = c1
    c2 = c2
    c3 = c3
    e1 = e1
    None = None
    Calls = {c1, c2, c3}
    Editable = {}
    MaxMessages = 3
    MaxLanes = 3
    MaxRevision = 1
    InOrder = FALSE
CHECK_DEADLOCK FALSE
INVARIANT
    MutationsAreSerial
