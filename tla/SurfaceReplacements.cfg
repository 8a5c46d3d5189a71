SPECIFICATION FairSpec
CONSTANTS
    c1 = c1
    c2 = c2
    c3 = c3
    e1 = e1
    None = None
    Calls = {c1, c2}
    Editable = {e1}
    MaxMessages = 3
    MaxLanes = 2
    MaxRevision = 1
    InOrder = TRUE
CHECK_DEADLOCK FALSE
INVARIANTS
    TypeOK
    NewestBoardLives
PROPERTY
    CallsReturn
    ImplementsProjections
