\* The services, one at a time: two feeds whose ticks arrive within their second
\* and a crash; two fleets of two sidecars; one alert rule.
SPECIFICATION ServicesSpec
CONSTANTS
    schwab = schwab
    alpaca = alpaca
    Sources = {schwab, alpaca}
    Late = FALSE
    MaxTime = 3
    MaxTicks = 3
    MaxCrashes = 1
    Minute = 4
    MaxLag = 2
    Labels = {"first", "second"}
    Fleets <- TwoFleets
    Accounts = {"a"}
    Grace = 1
    MaxFaults = 1
    Rules = {"r"}
    Symbols = {"s", "t"}
    NoSymbol = "none"
    ErrorLimit = 1
    QueueSize = 1
    MaxActs = 3
    MaxBars = 2
    MaxFailures = 1
INVARIANTS
    ServicesTypeOK
    
    ReturnsClean
    DeletedStaysSilent
PROPERTIES
    
    
    RequestedIsIndexed
CHECK_DEADLOCK FALSE
