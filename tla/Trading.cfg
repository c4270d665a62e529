\* The modules about placing and recording trades, one at a time; equal
\* feeds, of late ticks, and equal placements.
SPECIFICATION TradingSpec
CONSTANTS
    a1 = a1
    a2 = a2
    d1 = d1
    d2 = d2
    schwab = schwab
    alpaca = alpaca
    Unset = Unset
    Nobody = Nobody
    Buys = {a1, a2}
    Notional <- Costs
    BuyingPower = 3
    DayTrades = 3
    PdtLimits = {FALSE, TRUE}
    MaxResets = 1
    MaxRepeats = 1
    RespawnDelays <- Delays
    QueueLimit = 1
    MaxChildren = 3
    MaxCommands = 2
    MaxFailovers = 1
    MaxCrashes = 2
    Accepts = {a1, a2}
    Drops = {d1, d2}
    Sources = {schwab, alpaca}
    Late = TRUE
    MaxTime = 2
    MaxTicks = 3
    Minute = 2
    MaxLag = 2
    NoLimit = NoLimit
    Fields <- CaseFields
    Values <- Cases
    Failed <- FailedCases
    Benign <- BenignCase
SYMMETRY Feeds
INVARIANTS
    
    
    BotHolds
    RfqHolds
    NoTickCountedTwice
PROPERTIES
    BarsKeepTicks
CHECK_DEADLOCK FALSE
