SPECIFICATION Spec
CONSTANTS
    r1 = r1
    r2 = r2
    Runners = {r1, r2}
    Depth = 2
    Offers <- FewOffers
    MaxUpdates = 2
SYMMETRY RunnerSymmetry
INVARIANTS
    TypeOK
    OpenedAndClosed
PROPERTIES
    OrderWasOffered
    RepeatsOnlyOnMove
\* The strategy ends with its market, and the exchange's updates are bounded.
CHECK_DEADLOCK FALSE
