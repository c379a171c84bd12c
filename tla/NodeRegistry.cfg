\* One node, its agent, the sweeper, an operator, and a stop of the Hub.
SPECIFICATION Spec
CONSTANTS
    r1 = r1
    r2 = r2
    Requests <- MCRequests
    Timeout = 1
    Grace = 2
    Window = 2
    Interval = 1
    Overlaps = {TRUE, FALSE}
    MaxTime = 4
    MaxRestarts = 1
    MaxStops = 1
SYMMETRY RequestSymmetry
INVARIANTS TypeOK NothingUndoneInTurn HeardNodesAreOnline OfflineIsOnRecord UptimeIsExact
CHECK_DEADLOCK FALSE
