----------------------------- MODULE MCTrading -----------------------------
EXTENDS Trading

CONSTANTS r1, r2

RunnerSymmetry == Permutations(Runners)

\* Little money to back at 1.98, closed across the border of two bands, or at 960,
\* where five ticks up is past the ladder; much money to lay.
FewOffers ==
    [back |-> <<{[price |-> 198, size |-> 2], [price |-> 96000, size |-> 2]}, {}>>,
     lay |-> <<{[price |-> 250, size |-> 4]}, {[price |-> 260, size |-> 4]}>>]
=============================================================================
