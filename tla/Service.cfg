SPECIFICATION Spec
CONSTANTS
    Requests = {r1, r2}
    Engines = {e1, e2}
    PoolLimit = 1
    Threads = 2
    SessionIds = {s1, s2}
    Documents = {d1, d2}
    Tasks = {t1, t2}
    OmEnv = "production"
    PostBound = 3
    UseDb = TRUE
    Users = {u1, u2}
    Values = {v1}
    Workers = {w1, w2}
    RevisionBound = 5
    Migrators = {m1, m2}
    None = None
INVARIANTS
    PoolKept
    OneRowPerDocument
    Consistent
    WholeVersions
    AloneNothingFails
    KeysTellCores
PROPERTIES
    EveryRequestEnds
    ImplementsTelemetryLog
    DeletesItsOwn
CHECK_DEADLOCK FALSE
