\* The sweeper, a heartbeat and an operator at once.
SPECIFICATION Spec
CONSTANTS
    r1 = r1
    r2 = r2
    Requests <- MCRequests
    Timeout = 1
    Grace = 2
    Window = 2
    Interval = 1
    Overlaps = {TRUE}
    MaxTime = 5
    MaxRestarts = 1
    MaxStops = 0
SYMMETRY RequestSymmetry
INVARIANT NothingUndone
CHECK_DEADLOCK FALSE
