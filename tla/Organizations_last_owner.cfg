SPECIFICATION Spec
CONSTANTS
    Users = {u1, u2}
    Leavers = {}
    Ids = {m1, m2}
    Workers = {w1, w2}
    Roles = {"owner", "admin", "viewer"}
    MaxMembers = 3
    None = None
    Gone = Gone
INVARIANTS
    LastOwnerProtected
CHECK_DEADLOCK FALSE
