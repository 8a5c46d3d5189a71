SPECIFICATION Spec
CONSTANTS
    u1 = u1
    u2 = u2
    u3 = u3
    None = None
    Users = {u1, u2, u3}
    Owners = {u1, None}
    Squares <- MCSquares
    Positions <- MCPositions
    Start = 0
    SideToMove <- MCSideToMove
    Own <- MCOwn
    Over <- MCOver
    Play <- MCPlay
    UciTarget <- MCUciTarget
INVARIANT
    MarksAreDestinations
