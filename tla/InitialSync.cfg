\* The first sync of a client that writes its empty token as one tag.
CONSTANTS
    None = None
    Opaque = Opaque
    Content = Content
    Unauthenticated = Unauthenticated
    Uids <- SmallUids
    Generated <- SmallGenerated
    Times <- SmallTimes
    Ranges <- SmallRanges
    Titles <- SmallTitles
    Alarms <- SmallAlarms
    Wordings <- SmallWordings
    PropLists <- SmallPropLists
    MaxRows = 1
SPECIFICATION ContentsSpec
INVARIANTS EmptyTokenMeansInitial
