SPECIFICATION Spec
CONSTANTS
    Number = 3
    StartMinutes = {0, 1, 2, 3, 4, 5, 6, 7, 8, 9}
    Period = 5
    Span = 2
    MaxResults = 3
    MaxAsk = 1
    MaxSubscribe = 1
    Horizon = 126
INVARIANTS
    TypeOK
    HandedInOrder
    DropOnlyLate
    QueueDrains
    AfterGeneration
    OrderSessionRecent
\* The clock stops at the horizon.
CHECK_DEADLOCK FALSE
