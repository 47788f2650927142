\* One story under every kind of request, and Catalog's copy of it.
CONSTANTS
    u1 = u1
    k1 = k1
    Users = {u1}
    Keys = {k1}
    KeyOwner <- OneUpload
    StoryIds = {s1}
    Requests = {r1}
    Timer = timer
    Ops = {"confirm", "remove", "adminStatus"}
    AdminStatuses = {"BLOCKED"}
    MaxAnswers = 1
    Lifetime = 2
    StaleRetention = 1
    None = None
SPECIFICATION SyncFairSpec
INVARIANTS
    SyncTypeOK
    RemovalReachesCatalog
    StaleCopyExplained
PROPERTIES
    RemovalTakesEffect
    EveryStoryEnds
