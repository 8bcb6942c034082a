SPECIFICATION HistorySpec
CONSTANTS
    Users = {u1}
    Roles = {"member", "librarian"}
    Ids = {i1, i2, i3}
    Names = {n1, n2, n3}
    Docs = {d1, d2}
    Workers = {w1, w2}
    MaxParts = 2
    MaxLines = 2
    Ops = {"create", "import", "update", "delete"}
    Asked = {"approved"}
    None = None
SYMMETRY Symmetry
INVARIANTS
    UniqueNames
    QuotaRespected
PROPERTIES
    ImplementsCatalog
    EditsByLibrarian
CHECK_DEADLOCK FALSE
