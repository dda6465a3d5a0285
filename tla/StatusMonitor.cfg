SPECIFICATION FairMonitorSpec
CONSTANTS
    a = a
    b = b
    w1 = w1
    w2 = w2
    c1 = c1
    c2 = c2
    Keys = {a}
    Writers = {w1, w2}
    Clients = {c1, c2}
    None = None
    Empty = Empty
    NotJson = NotJson
    MaxTime = 1
    MaxUpdates = 2
CHECK_DEADLOCK FALSE
INVARIANTS MonitorTypeOK PreviousIsNotified
PROPERTIES AnsweringStays StampIsNoticed GoneIsRemoved
