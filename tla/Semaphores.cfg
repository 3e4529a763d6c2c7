SPECIFICATION Spec
CONSTANTS
    Procs = {1, 2, 3}
    MAXSEMS = 1
    MAXSLOTS = 2
    Values <- SomeValues
    MaxUnits = 2
    Priorities = {1, 2}
    Uses = {"lock", "signal", "pool", "calm"}
INVARIANTS UnitsConserved SleepersCounted LockExcludes
PROPERTIES CountsUnits
VIEW View
CHECK_DEADLOCK FALSE
