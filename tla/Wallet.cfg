SPECIFICATION Spec
CONSTANTS
    p1 = p1
    p2 = p2
    own = own
    Procs = {p1, p2}
    Ids = {electrumsv1, electrumsv2}
    electrumsv1 = electrumsv1
    electrumsv2 = electrumsv2
    DefaultId = electrumsv1
    Others = {own}
    Worker = worker1
    NoId = NoId
    Lines <- MCLines
    MaxCommands = 4
INVARIANT AccountlessIsSpoiled
PROPERTIES StartSparesWorker LaunchedReady ResetRenews
CHECK_DEADLOCK FALSE
