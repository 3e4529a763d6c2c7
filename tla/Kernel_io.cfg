SPECIFICATION Spec
CONSTANTS
    MAXPROC = 4
    MaxPid = 5
    MaxZaps = 2
    Priorities = {3, 5}
    CheckIO = {TRUE, FALSE}
    TickPoints = {"user", "scan", "block", "forked", "joining", "joined", "zapping",
                  "blocking", "unblocking", "quitting"}
INVARIANTS TypeOK PidsNameSlots
