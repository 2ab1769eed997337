SPECIFICATION FairSpec
CONSTANTS
    Tickers = {aapl, samsung}
    KrTickers = {samsung}
    SampleTicker = aapl
    DefaultTicker = samsung
    Queries = {q}
    NoQuery = NoQuery
    Deployments <- AnyDeployment
    Items = {x, s}
    SampleItems = {s}
    Sample = Sample
    Empty = Empty
    NoAnswer = NoAnswer
    MaxRequests = 2
    MaxEdits = 1
INVARIANTS TypeOK LiveIsCurrent KrShowsNoFixture EditedWatchlistIsOwners
PROPERTY LoadingEnds
CHECK_DEADLOCK FALSE
