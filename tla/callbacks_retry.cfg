CONSTANTS
    o1 = o1 h1 = h1 h2 = h2
    Orders = {o1}
    Handlers = {h1, h2}
    Idle = Idle
    NoOrder = NoOrder
    NoStatus = NoStatus
    Reported <- Completed
    MaxReports = 2
    MaxRequests = 1
    MaxFailures = 1
SPECIFICATION Spec
CHECK_DEADLOCK FALSE
INVARIANT AckedIsApplied
