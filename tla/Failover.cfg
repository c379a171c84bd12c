\* Three more deploys, any two mishaps; with overlap, any one.
SPECIFICATION FailoverFairSpec
CONSTANTS
    n1 = n1
    n2 = n2
    n3 = n3
    Nodes <- TwoNodes
    NoNode = NoNode
    FirstHome = n1
    Masters <- OtherMaster
    FailoverThreshold = 2
    MaxUnconfirmedWaits = 1
    MaxInPlaceRestarts = 1
    RecoveryChecks = 2
    MaxDeploys = 4
    Incidents = {"push", "redeploy", "rollback", "move", "maintenance", "node dies", "crash", "blip", "deploy fails", "slow node", "Hub stop"}
    MaxIncidents = 2
    MaxIncidentsOverlapping = 1
INVARIANTS FailoverTypeOK   MovesEndAsTheirJobs
PROPERTY BackInService
CHECK_DEADLOCK FALSE
