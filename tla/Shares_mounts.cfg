SPECIFICATION Spec
CONSTANTS
    Links = {l1}
    Mounts = {m1, m2}
    Users = {u1}
    Workers = {w1, w2}
    MaxLinks = 1
    MaxRevisions = 2
    RevisionBound = 1
    VisitBound = 2
    Ops = {"share_inventory", "mount"}
    None = None
INVARIANTS
    MountedOnce
CHECK_DEADLOCK FALSE
