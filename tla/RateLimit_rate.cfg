SPECIFICATION HistorySpec
CONSTANTS
    Keys = {k1, k2}
    Threads = {t1, t2}
    MaxRequests = 2
    PerSeconds = 2
    Ticks = 2
    MaxWindows = 1
    CountBound = 5
    ClockBound = 10
    None = None
SYMMETRY Symmetry
INVARIANTS
    MapBounded
    TwiceTheLimit
PROPERTIES
    RetryIsEnough
CHECK_DEADLOCK FALSE
