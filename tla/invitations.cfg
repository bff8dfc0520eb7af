CONSTANTS
    i1 = i1 i2 = i2 w1 = w1 w2 = w2 u1 = u1
    Invitation = {i1, i2}
    Workers = {w1, w2}
    Users = {u1}
    Idle = Idle
    Listed = Listed
    NoRow = NoRow
    NoUser = NoUser
    MaxClock = 2
    MaxRequests = 3
    MaxFailures = 1
SPECIFICATION FairSpec
CHECK_DEADLOCK FALSE
INVARIANT TypeOK
INVARIANT WholeRows
PROPERTY OverdueAreClosed
