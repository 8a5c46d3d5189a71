SPECIFICATION Spec
CONSTANTS
    t1 = t1
    t2 = t2
    u1 = u1
    u2 = u2
    v1 = v1
    v2 = v2
    None = None
    AnyActor = AnyActor
    Tokens = {t1, t2}
    Users = {u1, u2}
    Views = {v1, v2}
    TTLs = {0, 1, None}
    MaxRevision = 1
    MaxTime = 2
SYMMETRY MCSymmetry
INVARIANT TypeOK
PROPERTIES
    BindingsAreFinal
    PruneAgreesWithResolve
