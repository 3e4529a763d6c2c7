SPECIFICATION FairSpec
CONSTANTS
    Procs = {p1, p2, p3}
    MAXMBOX = 1
    MAXSLOTS = 2
    IOBoxes = 0
    IntSize = 2
    Messages <- OneMessage
    BufSizes = {1, 2}
    Geometries <- ZeroOrOne
    Conduct = {"release", "small", "zap"}
INVARIANTS TypeOK NobodyForgotten
PROPERTIES  SuccessIsReal
VIEW View
CHECK_DEADLOCK FALSE
