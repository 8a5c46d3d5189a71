SPECIFICATION Spec
CONSTANTS
    t1 = t1
    t2 = t2
    u1 = u1
    u2 = u2
    v1 = v1
    v2 = v2
    h1 = h1
    h2 = h2
    h3 = h3
    None = None
    AnyActor = AnyActor
    Tasks = {h1, h2}
    Tokens = {t1}
    Views = {v1, v2}
    Users = {u1, u2}
    Actors = {u1, AnyActor}
    Policies = {"reject", "applyToLatest"}
    TTLs = {1}
    MaxTime = 1
    MaxRevision = 2
CHECK_DEADLOCK FALSE
INVARIANTS
    TypeOK
    AtMostOnce
    CommitsAreCovered
PROPERTY
    ClicksSpendNothing
