\* Two requests of every kind on one upload; two row ids, so that a second row
\* for the upload could exist.
CONSTANTS
    u1 = u1
    u2 = u2
    k1 = k1
    Users = {u1, u2}
    Keys = {k1}
    KeyOwner <- OneUpload
    StoryIds = {s1, s2}
    Requests = {r1, r2}
    Timer = timer
    Ops = {"confirm", "remove", "adminStatus", "adminDelete"}
    AdminStatuses = {"UNDER_REVIEW", "ACTIVE", "BLOCKED"}
    Lifetime = 2
    StaleRetention = 1
    None = None
SPECIFICATION Spec
SYMMETRY Symmetry
INVARIANTS
    TypeOK
    OneStoryPerUpload
    ActiveNeverRejected
    LiveMediaExists
PROPERTIES
    ReturnsOnlyApproved
