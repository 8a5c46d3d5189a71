SPECIFICATION Spec
CONSTANTS
    h1 = h1
    h2 = h2
    e1 = e1
    None = None
    Tasks = {h1, h2}
    PrivateBoards = {e1}
    MaxMessages = 3
    MaxRevision = 2
CHECK_DEADLOCK FALSE
SYMMETRY MCSymmetry
INVARIANTS
    TypeOK
    GameStaysReachable
    DeletedBoardsAreUnbound
    EveryBoardFlips
    SettledSurfacesAgree
    
    OrientationIsKept
