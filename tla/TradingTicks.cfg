SPECIFICATION Spec
CONSTANTS
    r1 = r1
    r2 = r2
    Runners = {r1, r2}
    Depth = 2
    Offers <- FewOffers
    MaxUpdates = 2
SYMMETRY RunnerSymmetry
INVARIANT FiveTicksAway
CHECK_DEADLOCK FALSE
