\* What the risk gate makes of a broker without a margin preview.
SPECIFICATION RiskGateSpec
CONSTANTS
    NoLimit = NoLimit
    Fields <- CaseFields
    Values <- Cases
    Failed <- FailedCases
    Benign <- BenignCase
INVARIANTS
    UnimplementedWarns
CHECK_DEADLOCK FALSE
