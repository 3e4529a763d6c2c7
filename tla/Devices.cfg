SPECIFICATION DevicesSpec
CONSTANTS
    Writers = {v, w}
    Readers = {"r"}
    Sizes = {0, 2}
    MAXLINE = 2
    LineSlots = 1
    MaxTyped = 4
    Users = {x, y, z}
    Requests <- SomeRequests
    TrackSize = 2
    NumTracks = 3
INVARIANTS LinesAsTyped WriteIntact WriterHasCause QueueIsPending NoRequestForgotten SectorsAsAsked
VIEW View
CHECK_DEADLOCK FALSE
SYMMETRY Symmetry
