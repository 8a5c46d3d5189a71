SPECIFICATION Spec
CONSTANTS
    t1 = t1
    t2 = t2
    k1 = k1
    k2 = k2
    k3 = k3
    k4 = k4
    r1 = r1
    r2 = r2
    None = None
    Tasks = {t1, t2}
    Documents <- MCDocuments
    NodeLists <- MCNodeLists
    TableCells <- MCTableCells
    CellDepth <- MCCellDepth
    Depth <- MCDepth
    Actions <- MCActions
    Off <- MCOff
    Contexts = {r1, r2}
    Tokens = {k1, k2, k3, k4}
CHECK_DEADLOCK FALSE
SYMMETRY MCSymmetry
INVARIANTS
    ErrorsAreStructural
    FailureRegistersNothing
    ButtonsAreOwn
