SPECIFICATION Spec
CONSTANTS
    t1 = t1
    t2 = t2
    t3 = t3
    Threads = {t1, t2, t3}
    Owner = Owner
    Nobody = Nobody
    MaxJobs = 4
INVARIANTS
    TypeOK
    NoneOversleeps
PROPERTIES
    StopEnds
    ImplementsPool
\* The owner need not push or stop, and ends when the pool is gone.
CHECK_DEADLOCK FALSE
