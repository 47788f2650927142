\* Three calls at a time, in a process that is restarted any number of times.
CONSTANTS
    Calls = {c1, c2, c3}
    Boot = boot
SPECIFICATION RedisFairSpec
INVARIANTS
    RedisTypeOK
    WaitersAreQueued
    OutagesAreSurvived
PROPERTIES
    CallsAnswered
    LifecycleMoves
