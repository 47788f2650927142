\* A total and three of the numbers of a period, asked for again and again.
CONSTANTS
    StoryIds = {s1}
    Writers = {w1}
    WriteOps = {"publish", "rewrite", "view"}
    Periods <- EarlyPeriods
    Counts = {"storiesPublished", "storiesBlocked", "storyViews", "activeStories"}
    Span = 1
    MaxTime = 3
    None = None
SPECIFICATION MetricsSpec
INVARIANTS
    MetricsTypeOK
    PastPeriodsOnlyShrink
    TotalsRightButForWrites
