SPECIFICATION Spec
CONSTANTS
    Procs = {p1, p2, p3}
    MAXMBOX = 2
    MAXSLOTS = 3
    IOBoxes = 1
    IntSize = 1
    Messages <- TwoMessages
    BufSizes = {2}
    Geometries <- TwoSlots
    Conduct = {"switch"}
INVARIANTS SlotsAccounted WaitersHaveCause
 
SYMMETRY Symmetry
VIEW View
