SPECIFICATION Spec
CONSTANTS
    Prices <- LowPrices
    MaxSize = 2
INVARIANTS
    TypeOK
    RangeExact
    MaxTradedExact
    WalkVolume
    WalkNotAboveMax
    MaxReadNotBelow
