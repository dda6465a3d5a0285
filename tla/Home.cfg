SPECIFICATION Spec
CONSTANTS
    p1 = p1
    p2 = p2
    Away = Away
    Procs = {p1, p2}
    Components = {"node", "electrumsv", "whatsonchain"}
    Extensions <- MCExtensions
    Missing = Missing
    Empty = Empty
    Set = Set
    Lines <- MCLines
    Vectors <- MCVectors
    Requests <- MCRequests
    Arguments <- MCArguments
    DefaultHome = DefaultHome
    Homes = {DefaultHome, Away}
    Length <- MCLength
    NoHome = NoHome
    Portable = Portable
    MaxCommands = 3
    MaxCrashes = 1
INVARIANTS HomeKept ResetNeedsEmptied OneHome LostOnlyByClash DocumentedMeaning LibraryCalls
CHECK_DEADLOCK FALSE
