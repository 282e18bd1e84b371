SPECIFICATION FeedFairSpec
CONSTANTS
    Run = {cron, admin}
    PageSize = 2
    MaxEvents = 3
    MaxNow = 1
    MaxFailures = 1
    Limit = 1
    Legible <- MCLegible
    IdOrder <- MCIdOrder
    NotIndexed = NotIndexed
INVARIANTS
    NothingSkipped
    WalkIsComplete
PROPERTIES
    RowsKeepTheirPlace
    CursorCatchesUp
