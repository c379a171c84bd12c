\* One claim at a time: the agent waits for the answer before it asks again.
SPECIFICATION Spec
CONSTANTS
    app = app
    other = other
    third = third
    NoScope = NoScope
    Scopes <- MCScopes
    Kinds <- MCKinds
    MaxJobs = 3
    Limit = 2
    ClaimWindow = 2
    Requests = {1}
    MaxRestarts = 1
INVARIANTS TypeOK 
SYMMETRY ScopeSymmetry
CHECK_DEADLOCK FALSE
PROPERTIES NoOvertaking KeepsLocks
