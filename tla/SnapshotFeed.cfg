CONSTANTS
    renderer = renderer
    browser = browser
    dark = dark
    lit = lit
    IpcClients <- MCIpcClients
    SseClients = {}
    Values <- MCValues
    Initial = dark
    Nothing = Nothing
    ChanCap = 2
    WireCap = 2
    MaxSeq = 5
SPECIFICATION FairFeedSpec
PROPERTIES
    FeedIsAStream
    FollowersCatchUp
