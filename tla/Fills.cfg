\* Two executions of an order, recorded before or after it is sent, or never;
\* and one OCO order under two backends.
SPECIFICATION FillsOcoSpec
CONSTANTS
    e1 = e1
    e2 = e2
    o1 = o1
    i1 = i1
    i2 = i2
    Execs = {e1, e2}
    Orders = {o1}
    OrderOf <- SameOrder
    MaxFaults = 2
    Instances = {i1, i2}
    LockTicks = 2
    MaxTicks = 2
    MaxErrors = 1
    MaxStarts = 3
    MaxEvents = 3
INVARIANTS
    FillsOcoTypeOK
    ExecutionInOneTable
    CommissionKept
    
PROPERTIES
    FillsAreFinal
    ParkedBecomesFill
    FillGetsOutcome
CHECK_DEADLOCK FALSE
