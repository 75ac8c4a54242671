SPECIFICATION Spec
CONSTANTS
    Symbols <- MCOneSymbol
    MaxDay = 1
    MaxRuns = 1
    Outlooks <- MCAnyOutlook
    None = None
INVARIANTS
    NoTradeIsStored
CHECK_DEADLOCK FALSE
