SPECIFICATION FairSpec
CONSTANTS
    p1 = p1
    p2 = p2
    p3 = p3
    i1 = i1
    i2 = i2
    running = running
    failed = failed
    Procs = {p1, p2}
    Ids = {i1, i2}
    Values = {running}
    Wanted <- WantedAll
    Absent = Absent
    Garbage = Garbage
    NoProc = NoProc
    Size <- SizeOf
INVARIANTS SerialHistoryKept
PROPERTIES AtomicUntilDegraded EveryCallEnds
