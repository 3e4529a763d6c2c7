SPECIFICATION SleepSpec
CONSTANTS
    Sleepers = {"a", "b", "c", "d"}
    Watched = {"a"}
    Seconds = {0, 1, 2}
    MaxTime = 2
    IntRange = 2148
INVARIANTS SleepersInHeap
PROPERTIES WokenInOrder  SleepersWake
CHECK_DEADLOCK FALSE
