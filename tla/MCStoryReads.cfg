CONSTANTS
    u1 = u1
    u2 = u2
    s1 = s1
    s2 = s2
    Users = {u1, u2}
    StoryIds = {s1, s2}
    Owner <- OneStoryEach
    Calls = {c1}
    None = None
SPECIFICATION ReadsSpec
INVARIANTS
    ReadsTypeOK
    ServedWithinCall
PROPERTIES
    ViewsFromAudience
