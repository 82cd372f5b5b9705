SPECIFICATION Spec
CONSTANTS
    m1 = m1
    m2 = m2
    NoMarket = NoMarket
    Markets = {m1, m2}
    Capacity = 2
    NumStrategies = 2
    Allowed <- SecondTakesAll
    t1 = t1
    t2 = t2
    Threads = {t1, t2}
    MaxLoop = 2
INVARIANTS
    TypeOK
    LoopHasBooks
    LoopHasRunners
    EachAllowedOnce
PROPERTIES
    EachStarts
\* The day's markets are over.
CHECK_DEADLOCK FALSE
