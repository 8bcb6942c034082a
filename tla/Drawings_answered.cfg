SPECIFICATION FairSpec
CONSTANTS
    Shapes = {good, bad}
    Valid = {good}
    Products = {"stl", "drawing"}
    Processes = {p1}
    Prefetch = 1
    MaxRetries = 3
    UseCelery = TRUE
    BrokerFails = TRUE
    Restarts = TRUE
    CacheUp = TRUE
    QueueBound = 1
    Api = Api
    None = None
    Nothing = Nothing
    Failure = Failure
    WrongDimensions = WrongDimensions
    ServerError = ServerError
PROPERTIES
    EveryRequestAnswered
