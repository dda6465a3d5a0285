SPECIFICATION Spec
CONSTANTS
    s1 = s1
    s2 = s2
    s3 = s3
    Starts = {s1, s2}
    MaxId = 3
    FixedPort = TRUE
    NetstatSeen = TRUE
    None = None
CHECK_DEADLOCK FALSE
INVARIANT StopHitsItsId
