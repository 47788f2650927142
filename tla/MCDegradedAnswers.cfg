\* The same process.
CONSTANTS
    Calls = {c1, c2, c3}
    Boot = boot
SPECIFICATION RedisFairSpec
PROPERTIES
    DegradedAnswers
