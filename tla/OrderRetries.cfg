\* One order, its POST retried once; the stream breaks once.
SPECIFICATION Spec
CONSTANTS
    o1 = o1
    r1 = r1
    r2 = r2
    c1 = c1
    c2 = c2
    NoCancel = NoCancel
    Orders <- OneOrder
    Requests = {r1, r2}
    OrderOf <- RetriedPost
    Cancels = {}
    CancelOf <- NoDeletes
    Qty = 2
    QueueSize = 2
    MaxDisconnects = 1
    PartialReports = {"submitted", "partial"}
    SnapshotKeyedByClientId = FALSE
SYMMETRY Interchangeable
INVARIANTS
    TypeOK
    RowNeverAhead
    
PROPERTIES
    RowNeverRegresses
    RecordedThenSentOnce
CHECK_DEADLOCK FALSE
