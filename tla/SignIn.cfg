\* Two requests of everything at a time.
SPECIFICATION SignInSpec
CONSTANTS
    u1 = u1
    q1 = q1
    q2 = q2
    s1 = s1
    s2 = s2
    r1 = r1
    p1 = p1
    c1 = c1
    c2 = c2
    y1 = y1
    y2 = y2
    o1 = o1
    o2 = o2
    k1 = k1
    e1 = e1
    e2 = e2
    e3 = e3
    f1 = f1
    f2 = f2
    x1 = x1
    x2 = x2
    h1 = h1
    h2 = h2
    Users <- OneUser
    Requests <- TwoRequests
    Sessions <- TwoSessions
    RecoveryCodes <- OneRecoveryCode
    MfaLife = 1
    SessionLife = 1
    MaxTime = 3
    MaxPasswords = 2
    MaxSwitches = 2
    MaxRequests = 3
    People <- OnePerson
    Clis <- TwoClis
    Answers <- TwoAnswers
    RequestLife = 1
    StartsPerTick = 1
    MaxPending = 1
    Owners <- TwoOwners
    Keys <- OneKey
    Ceremonies <- ThreeCeremonies
    Finishers <- TwoFinishers
    CeremonyLife = 1
    MaxUses = 3
    Machines <- TwoMachines
    Tokens <- TwoTokens
    PoolSize = 2
    MaxUndoing = 2
    MaxFaults = 1
INVARIANTS SignInTypeOK EveryCodeOnce OldSignInsEnd AnsweredOnce  NodesAreRouted PeersAreKnown
PROPERTY EndedStaysEnded
CHECK_DEADLOCK FALSE
