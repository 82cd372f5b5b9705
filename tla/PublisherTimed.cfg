SPECIFICATION FairSpec
CONSTANTS
    MaxMarkets = 2
    NumMarkets = 3
    Timely <- AllTimely
INVARIANTS
    UpdatesFindBooks
    ActiveHasBooks
PROPERTIES
    SubscribedIsCleared
    ImplementsLifecycle
