\* One story, no admin and no removal: moderation and the sweep alone.
CONSTANTS
    u1 = u1
    u2 = u2
    k1 = k1
    Users = {u1, u2}
    Keys = {k1}
    KeyOwner <- OneUpload
    StoryIds = {s1}
    Requests = {r1}
    Timer = timer
    Ops = {"confirm"}
    AdminStatuses = {"UNDER_REVIEW", "ACTIVE", "BLOCKED", "EXPIRED"}
    Lifetime = 2
    StaleRetention = 1
    None = None
SPECIFICATION Spec

PROPERTIES
    ErrorKeepsVisible
