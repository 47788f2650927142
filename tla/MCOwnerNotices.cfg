\* One story under every kind of request: its notices, and a list of its owner or
\* of an admin.
CONSTANTS
    u1 = u1
    k1 = k1
    Users = {u1}
    Keys = {k1}
    KeyOwner <- OneUpload
    StoryIds = {s1}
    Requests = {r1}
    Timer = timer
    Ops = {"confirm", "remove", "adminStatus"}
    AdminStatuses = {"ACTIVE", "BLOCKED", "EXPIRED"}
    Lifetime = 1
    StaleRetention = 1
    Lists = {c1}
    AdminFilters <- WithoutStatus
    None = None
SPECIFICATION NoticesSpec
INVARIANTS
    NoticesTypeOK
    ListsNothingDue
    AtMostOneNotice
    RejectionTold
PROPERTIES
    ImplementsLifecycle
