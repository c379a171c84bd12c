\* The master node is another one than the app's; nothing goes wrong.
SPECIFICATION FailoverSpec
CONSTANTS
    n1 = n1
    n2 = n2
    n3 = n3
    Nodes <- TwoNodes
    NoNode = NoNode
    FirstHome = n1
    Masters <- OtherMaster
    FailoverThreshold = 1
    MaxUnconfirmedWaits = 1
    MaxInPlaceRestarts = 1
    RecoveryChecks = 1
    MaxDeploys = 2
    Incidents = {}
    MaxIncidents = 0
    MaxIncidentsOverlapping = 0
PROPERTY PinnedStays
CHECK_DEADLOCK FALSE
