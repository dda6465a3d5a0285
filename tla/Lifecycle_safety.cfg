SPECIFICATION Spec
CONSTANTS
    i1 = i1
    i2 = i2
    r1 = r1
    r2 = r2
    r3 = r3
    n1 = n1
    n2 = n2
    n3 = n3
    c1 = c1
    Ids = {i1, i2}
    Runs = {r1, r2}
    Pids = {n1, n2}
    Cmds = {c1}
    None = None
    Free = Free
    Foreign = Foreign
SYMMETRY Symmetry
INVARIANT TypeOK
INVARIANT FinalStatusIsTrue
INVARIANT LiveIsFindable
PROPERTY StopReachesUnshared
PROPERTY StopHitsScope
