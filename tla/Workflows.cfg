\* Two modifications of an order, two POSTs of a bracket, and three calls for
\* one range of bars in two processes.
SPECIFICATION WorkflowsSpec
CONSTANTS
    c1 = c1
    c2 = c2
    c3 = c3
    Modifies = {c1, c2}
    Nonces = {"n", "m"}
    Terms = {1, 2}
    FirstTerms = 0
    MaxTroubles = 1
    Posts = {c1, c2}
    NoPost = NoPost
    MaxBreaks = 2
    Calls = {c1, c2, c3}
    Processes = {"w", "x"}
    NoCall = NoCall
    Providers = {1, 2}
    Live = 9
    Buckets = {1, 2}
    MaxUpsets = 1
    Symbols = {"a", "b", "etf"}
    Odd = {"etf"}
    MaxOps = 3
    MaxEnds = 2
    MaxFailures = 1
    MaxTokens = 1
    Pairs = {"a", "b", "c"}
    Cap = 2
    MaxFrames = 3
    MaxLosses = 1
    MaxRejections = 1
    Requests = {1, 2}
    Rest = {1}
    Private = {2}
    Local = {"nuc"}
    Cloud = {"xai"}
    Slots = 2
    Burst = 2
    QueueMax = 1
    BatchSize = 2
    MaxEdits = 1
    Streams = {"a", "b"}
    Fleet = "fleet"
    QueueSlots = 1
    MaxEvents = 3
    MaxConnects = 2
    MaxBeats = 1
    Prices = {1, 2}
    Quantities = {1, 2}
    Depth = 1
    MaxUpdates = 3
    MaxMissing = 1
    MaxDrops = 1
    MaxArrivals = 3
    MaxFollows = 3
    Handlers = {1, 2}
    Capacity = 2
    Window = 4
    Reserved = 1
    Cooldown = 2
    LastTick = 5
    MaxGrants = 4
    Clients = {1, 2}
    MaxVersions = 3
SYMMETRY Alike
INVARIANTS
    ModifyHolds
    BracketIsWhole
    BackfillHolds
    
    
PROPERTIES
    BetterBarStays
    NeverGoesBack
CHECK_DEADLOCK FALSE
