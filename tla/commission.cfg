SPECIFICATION Walk
CONSTANTS
    MaxPrice = 120
    RateStep = 125
INVARIANTS
    SplitMovesOneKopeck
PROPERTIES
    BothGainFromMore
CHECK_DEADLOCK FALSE
