SPECIFICATION Spec
CONSTANTS
    Tickers = {aapl, samsung}
    KrTickers = {samsung}
    SampleTicker = aapl
    DefaultTicker = samsung
    Queries = {q}
    NoQuery = NoQuery
    Deployments <- PreviewOnly
    Items = {x}
    SampleItems = {x}
    Sample = Sample
    Empty = Empty
    NoAnswer = NoAnswer
    MaxRequests = 2
    MaxEdits = 1
INVARIANT NoFixtureBehindLiveBadge
CHECK_DEADLOCK FALSE
