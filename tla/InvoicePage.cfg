SPECIFICATION Spec
CONSTANTS
    i1 = i1
    i2 = i2
    k1 = k1
    k2 = k2
    Invoices = {i1, i2}
    Calls = {k1, k2}
    NoInv = NoInv
    MaxOpens = 3
    Earlier = {i2}
SYMMETRY Symmetry
INVARIANTS ShownIsAsked ItemsShownOnce PaidIsShown
CHECK_DEADLOCK FALSE
