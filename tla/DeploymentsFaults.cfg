\* Two deploys, and what may go wrong around them.
SPECIFICATION Spec
CONSTANTS
    n1 = n1
    n2 = n2
    Nodes <- MCNodes
    NoNode = NoNode
    MaxJobs = 7
    MaxDispatches = 2
    Incidents = {"lost claim", "give up", "retry", "agent restart", "Hub stop"}
    MaxIncidents = 1
    Interruptible = {}
SYMMETRY NodeSymmetry
INVARIANTS TypeOK 
PROPERTY NoReversion
CHECK_DEADLOCK FALSE
