SPECIFICATION HistorySpec
CONSTANTS
    Designs = {d1}
    Clients = {c1, c2}
    Docs = {m1, m2}
    Names = {n1, n2}
    None = None
    MaxDesigns = 1
    MaxRevisions = 2
    MaxInFlight = 2
    RevisionBound = 4
SYMMETRY ClientNameSymmetry
INVARIANTS
    VersionNeverAhead
    WindowUnlessLapped
    QuotaOvershootBounded
PROPERTIES
    NameChangesOnlyOnRequest
    ImplementsLog
    NoOverwriteAlone
CHECK_DEADLOCK FALSE
