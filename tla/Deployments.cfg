\* Deploys that overtake each other; requests are handled one at a time.
SPECIFICATION Spec
CONSTANTS
    n1 = n1
    n2 = n2
    Nodes <- MCNodes
    NoNode = NoNode
    MaxJobs = 8
    MaxDispatches = 3
    Incidents = {}
    MaxIncidents = 0
    Interruptible = {}
SYMMETRY NodeSymmetry
INVARIANTS LatestCopyKept ConvergesWhenAllSucceed DeletedLeavesNothing
CHECK_DEADLOCK FALSE
