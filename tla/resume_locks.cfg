CONSTANTS
    c1 = c1 p1 = p1 u1 = u1 u2 = u2 w1 = w1 w2 = w2
    Candidates = {c1}
    Positions = {p1}
    Users = {u1, u2}
    Workers = {w1, w2}
    NoUser = NoUser
    Idle = Idle
    SuperAdmins = {}
    Referrers = {u1}
    Scoped = {u2}
    InScope = {}
    MaxTime = 1
    MaxFlows = 1
    MaxChanges = 1
SPECIFICATION Spec
CHECK_DEADLOCK FALSE
INVARIANT TypeOK
INVARIANT LockerWasAuthority
INVARIANT GuardsAgree
SYMMETRY Symmetry
