SPECIFICATION Spec
CONSTANTS
    FirstYear = 2021
    LastYear = 2024
    MaxBatch = 4
INVARIANTS
    MidnightDiff
    BuildsLadder
    NearestTick
    RequestsExact
\* The walks end.
CHECK_DEADLOCK FALSE
