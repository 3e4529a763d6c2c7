SPECIFICATION TestSpec
CONSTANTS
    Procs = {0, 1, 2, 3, 4, 5, 6, 7, 8, 9, 10, 11}
    MAXMBOX = 14
    MAXSLOTS = 20
    IOBoxes = 7
    IntSize = 4
    Messages = {}
    BufSizes = {}
    Geometries = {}
    Conduct = {"release", "drop", "reuse", "small", "dead", "again", "zap"}
    MAX_MESSAGE = 150
    Programs <- AllPrograms
    FreePids = 4
INVARIANTS OutputAsRecorded NoFalseDeadlock
PROPERTIES EndsAsRecorded
