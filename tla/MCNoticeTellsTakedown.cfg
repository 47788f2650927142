\* One story that its owner may remove, and its notice; no lists.
CONSTANTS
    u1 = u1
    k1 = k1
    Users = {u1}
    Keys = {k1}
    KeyOwner <- OneUpload
    StoryIds = {s1}
    Requests = {r1}
    Timer = timer
    Ops = {"confirm", "remove"}
    AdminStatuses = {"UNDER_REVIEW", "ACTIVE", "BLOCKED", "EXPIRED"}
    Lifetime = 1
    StaleRetention = 1
    Lists = {}
    AdminFilters <- WithoutStatus
    None = None
SPECIFICATION NoticesSpec
PROPERTY NoticeTellsTakedown
