SPECIFICATION TestSpec
CONSTANTS
    MAXPROC = 16
    MaxPid = 200
    MaxZaps = 2
    Priorities = {1, 3, 5}
    CheckIO = {FALSE}
    TickPoints = {"user"}
    Programs <- AllPrograms
    FreePids = 4
INVARIANTS OutputAsRecorded
PROPERTIES EndsAsRecorded 
