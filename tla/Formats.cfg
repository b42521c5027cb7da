\* Bodies, names, ranges and XML of requests, one after the other.
CONSTANTS
    None = None
    Opaque = Opaque
    Content = Content
    Unauthenticated = Unauthenticated
    Uids <- SmallUids
    Generated <- SmallGenerated
    Times <- SmallTimes
    Ranges <- SmallRanges
    Titles <- SmallTitles
    Alarms <- SmallAlarms
    Wordings <- SmallWordings
    PropLists <- SmallPropLists
    MaxRows = 2
SPECIFICATION ContentsSpec
INVARIANTS ColumnsAsMeant ListedHrefsWork RangeExactInUtc RequestUnderstood
PROPERTIES PutWhereNamed
