\* All publication times and views of four stories, all audiences, feeds of one
\* or two groups.
CONSTANTS
    u1 = u1
    u2 = u2
    u3 = u3
    s1 = s1
    s2 = s2
    s3 = s3
    s4 = s4
    Shown = {s1, s2, s3, s4}
    Owners = {u1, u2, u3}
    OwnerOf <- FourStories
    Latest = 2
    MaxTake = 2
    None = None
SPECIFICATION FeedSpec
CHECK_DEADLOCK FALSE
INVARIANTS
    FeedTypeOK
    FeedIsWhole
    CutIsFair
