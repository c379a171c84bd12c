\* A newer deploy overtakes an older one that then succeeds.
SPECIFICATION Spec
CONSTANTS
    n1 = n1
    n2 = n2
    Nodes <- MCNodes
    NoNode = NoNode
    MaxJobs = 8
    MaxDispatches = 3
    Incidents = {}
    MaxIncidents = 0
    Interruptible = {}
SYMMETRY NodeSymmetry
INVARIANT RecordedCopyKept
CHECK_DEADLOCK FALSE
