SPECIFICATION ServicesSpec
CONSTANTS
    a1 = a1
    a2 = a2
    m1 = m1
    t1 = t1
    t2 = t2
    n1 = n1
    n2 = n2
    w1 = w1
    w2 = w2
    p1 = p1
    b1 = b1
    b2 = b2
    p2 = p2
    j1 = j1
    Addresses <- TwoAddresses
    Names <- OneName
    Attempts <- TwoAttempts
    Window = 3
    PerAddress = 2
    PerName = 3
    SnapNodes <- TwoSnapNodes
    Keep = 2
    MoveWait = 1
    MaxWrites = 2
    MaxJobs = 3
    MaxGenerations = 3
    Watchers <- TwoWatchers
    MaxLive = 2
    Room = 2
    MaxOutput = 3
    Presses <- TwoPresses
    Tasks <- OneTask
    Patience = 1
    MaxRelease = 2
    MaxRestarts = 1
    NumApps = 1
    RouteNodes <- TwoRouteNodes
    Places <- OnePlaceTwice
    LastPort = 2
    Tries = 1
    MaxEvents = 0
INVARIANT RestoreComesBack
CHECK_DEADLOCK FALSE
