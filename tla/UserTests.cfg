SPECIFICATION TestSpec
CONSTANTS
    Procs = {0, 1, 2, 3, 4, 5, 6, 7, 8, 9}
    MAXSEMS = 3
    MAXSLOTS = 3
    Values = {}
    MaxUnits = 0
    Priorities = {2, 4, 6}
    Uses = {"calm"}
    MaxPid = 40
    Funcs = {"f"}
    Statuses = {}
    StackSizes = {"good"}
    Programs <- AllPrograms
    FreePids = 7
INVARIANTS OutputAsRecorded  NeverCrashes
PROPERTIES TestsEnd
