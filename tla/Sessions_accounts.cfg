SPECIFICATION HistorySpec
CONSTANTS
    Emails = {e1}
    Passwords = {p1, p2}
    UserIds = {u1, u2}
    Tokens = {s1, s2}
    Links = {l1, l2}
    Workers = {w1, w2}
    Ops = {"register", "login", "logout", "visit", "change_password", "delete_account", "request_verify", "verify", "request_reset", "reset"}
    Smtp = TRUE
    Crashes = TRUE
    None = None
    Gone = Gone
SYMMETRY Symmetry
INVARIANTS
    AccountsSeparate
    OldSessionsKilled
    VerifiedByLink
PROPERTIES
    ImplementsAccountBook
    LinkUsedOnce
CHECK_DEADLOCK FALSE
