SPECIFICATION HistorySpec
CONSTANTS
    Shapes = {a, b}
    Valid = {a, b}
    Products = {"stl", "gapping"}
    Processes = {p1, p2}
    Prefetch = 1
    MaxRetries = 2
    UseCelery = TRUE
    BrokerFails = TRUE
    Restarts = TRUE
    CacheUp = TRUE
    QueueBound = 0
    Api = Api
    None = None
    Nothing = Nothing
    Failure = Failure
    WrongDimensions = WrongDimensions
    ServerError = ServerError
SYMMETRY Symmetry
INVARIANTS
    OwnShape
    AnswerIsCached
    FailsOnlyByRace
PROPERTIES
    TruncatedOnlyIfDisturbed
