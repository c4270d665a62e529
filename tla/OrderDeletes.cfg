\* One order with two DELETEs; GetOrders answers under client_order_ids.
SPECIFICATION Spec
CONSTANTS
    o1 = o1
    r1 = r1
    r2 = r2
    c1 = c1
    c2 = c2
    NoCancel = NoCancel
    Orders <- OneOrder
    Requests = {r1}
    OrderOf <- OnePost
    Cancels = {c1, c2}
    CancelOf <- TwoDeletes
    Qty = 1
    QueueSize = 2
    MaxDisconnects = 0
    PartialReports = {"submitted"}
    SnapshotKeyedByClientId = TRUE
SYMMETRY InterchangeableDeletes
INVARIANTS
    QuietRowHasFills
    CooldownAbsentFailures
CHECK_DEADLOCK FALSE
