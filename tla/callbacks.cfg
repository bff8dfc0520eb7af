CONSTANTS
    o1 = o1 h1 = h1 h2 = h2
    Orders = {o1}
    Handlers = {h1, h2}
    Idle = Idle
    NoOrder = NoOrder
    NoStatus = NoStatus
    Reported <- TakenBack
    MaxReports = 3
    MaxRequests = 1
    MaxFailures = 1
SPECIFICATION FairSpec
INVARIANT TypeOK
INVARIANT OneBeginning
INVARIANT OnlyRepeatsAndBreakdownsLose
PROPERTY ChangeIsRecorded
PROPERTY KeepsLedger
PROPERTY SupplierSettles
CHECK_DEADLOCK FALSE
