SPECIFICATION Spec
CONSTANTS
    MAXPROC = 5
    MaxPid = 7
    MaxZaps = 2
    Priorities = {1, 3, 5}
    CheckIO = {FALSE}
    TickPoints = {"user"}
INVARIANTS FamilyTree NoLostQuit ZapWaits QuitNeverReturns
