SPECIFICATION HistorySpec
CONSTANTS
    Users = {u1, u2}
    Leavers = {u1, u2}
    Ids = {m1, m2, m3}
    Workers = {w1, w2}
    Roles = {"owner", "admin"}
    MaxMembers = 2
    None = None
    Gone = Gone
SYMMETRY Symmetry
INVARIANTS
    OneMembershipPerUser
    LastOwnerAlone
    MembersBounded
PROPERTIES
    ImplementsRoster
    OnlyAllowedAlone
CHECK_DEADLOCK FALSE
