SPECIFICATION Spec
CONSTANTS
    s1 = s1
    s2 = s2
    s3 = s3
    Starts = {s1, s2, s3}
    MaxId = 3
    FixedPort = FALSE
    NetstatSeen = TRUE
    None = None
CHECK_DEADLOCK FALSE
INVARIANTS NewIsUniqueUnlessRaced ClashNeedsRace
