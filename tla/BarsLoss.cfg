\* A tick that is applied after its second was collected.
SPECIFICATION BarSpec
CONSTANTS
    schwab = schwab
    alpaca = alpaca
    Sources = {schwab}
    Late = FALSE
    MaxTime = 2
    MaxTicks = 3
    MaxCrashes = 0
    Minute = 2
    MaxLag = 2
INVARIANTS
    ZeroTickLoss
CHECK_DEADLOCK FALSE
