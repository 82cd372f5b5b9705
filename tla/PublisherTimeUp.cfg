SPECIFICATION FairSpec
CONSTANTS
    MaxMarkets = 2
    NumMarkets = 2
    Timely <- AllTimely
PROPERTY TimeUpIsFinal
