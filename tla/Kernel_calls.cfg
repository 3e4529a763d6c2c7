SPECIFICATION Spec
CONSTANTS
    MAXPROC = 5
    MaxPid = 7
    MaxZaps = 2
    Priorities = {1, 3, 5, 6}
    CheckIO = {TRUE, FALSE}
    TickPoints = {}
INVARIANTS ZapsLiveTarget RunsByPriority DeadlockIsReal
