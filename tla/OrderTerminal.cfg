\* The fill overtakes the answer of PlaceOrder.
SPECIFICATION Spec
CONSTANTS
    o1 = o1
    r1 = r1
    r2 = r2
    c1 = c1
    c2 = c2
    NoCancel = NoCancel
    Orders <- OneOrder
    Requests = {r1}
    OrderOf <- OnePost
    Cancels = {}
    CancelOf <- NoDeletes
    Qty = 1
    QueueSize = 1
    MaxDisconnects = 0
    PartialReports = {"submitted"}
    SnapshotKeyedByClientId = FALSE
PROPERTIES
    TerminalIsFinal
CHECK_DEADLOCK FALSE
