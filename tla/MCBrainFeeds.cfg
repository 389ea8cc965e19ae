SPECIFICATION FairSpec
CONSTANTS
    Count = 2
    Keep = 1
    WindowLen = 4
    ResolveMax = 2
    DialMax = 1
    AddMax = 1
    ResolvePause = 2
    DialPause = 1
    Fresh = 2
    LastFault = 7
    MaxConn = 2
    RetryPause = 3
    Span = 2
    Horizon = 11
    Settings <- MCSettings
INVARIANTS TypeOK QuoteOfItsMarket TradesAccounted SignalExact
PROPERTY FollowsMarket
CHECK_DEADLOCK FALSE
