SPECIFICATION Spec
CONSTANTS
    Users = {u1, u2}
    Owners = {u1}
    Clients = {u1}
    Calls = {r1, r2}
    Admins = {a1, a2}
    MaxTokens = 3
    MaxRequests = 2
    MaxResets = 1
    None = None
INVARIANTS
    OwnerRemains
    LiveSessionsAreCurrent
    RotationKeepsOneLive
SYMMETRY Symmetry
CHECK_DEADLOCK FALSE
