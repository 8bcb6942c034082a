SPECIFICATION HistorySpec
CONSTANTS
    Links = {l1, l2}
    Mounts = {m1, m2}
    Users = {u1}
    Workers = {w1, w2}
    MaxLinks = 1
    MaxRevisions = 1
    RevisionBound = 2
    VisitBound = 2
    Ops = {"share_design", "share_inventory", "revoke", "open", "mount", "unmount"}
    None = None
SYMMETRY Symmetry
INVARIANTS
    LinksBounded
    MountedOnceAlone
PROPERTIES
    ImplementsGrants
CHECK_DEADLOCK FALSE
