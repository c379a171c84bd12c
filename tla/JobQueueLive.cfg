\* The same queue under fairness, with the kinds of jobs that can starve.
SPECIFICATION FairSpec
CONSTANTS
    app = app
    other = other
    third = third
    NoScope = NoScope
    Scopes <- MCScopes
    Kinds <- MCFewKinds
    MaxJobs = 3
    Limit = 2
    ClaimWindow = 2
    Requests = {1}
    MaxRestarts = 1
PROPERTY NoStarvation
CHECK_DEADLOCK FALSE
