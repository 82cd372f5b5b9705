SPECIFICATION Spec
CONSTANTS
    MaxMarkets = 2
    NumMarkets = 3
    Timely <- LeadOnly
INVARIANTS
    TypeOK
    ExclusiveSockets
    SubscriptionBound
    NoOrphanBatch
    NoReadOfResetSocket
    NoMixedDocument
    ImageActivates
