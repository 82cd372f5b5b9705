SPECIFICATION Spec
CONSTANTS
    Prices <- TopPrices
    MaxSize = 1
INVARIANTS
    WalkVolume
