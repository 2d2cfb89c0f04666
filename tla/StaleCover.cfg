CONSTANTS
    renderer = renderer
    front = front
    back = back
    Followers <- MCFollowers
    Images <- MCImages
    Values <- MCValues
    NoArt = NoArt
    Initial = NoArt
    Nothing = Nothing
    Slack = 1
    Retain = 2
    MaxFiles = 4
    MaxSpoilt = 1
SPECIFICATION ArtSpec
INVARIANT
    NoWrongCoverAtRest
