SPECIFICATION Spec
CONSTANTS
    Designs = {d1}
    Clients = {c1, c2}
    Docs = {m1, m2}
    Names = {n1}
    None = None
    MaxDesigns = 1
    MaxRevisions = 2
    MaxInFlight = 2
    RevisionBound = 4
SYMMETRY ClientSymmetry
PROPERTIES
    NoSilentOverwrite
CHECK_DEADLOCK FALSE
