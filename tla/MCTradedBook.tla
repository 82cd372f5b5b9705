---------------------------- MODULE MCTradedBook ----------------------------
EXTENDS TradedBook

\* A slot below them and one between that are never traded: a walk that begins
\* before the first trade starts from slot 0.
LowPrices == {102, 103, 105}

\* The highest price of the ladder, and two that are not next to its slot.
TopPrices == {103, 104, Highest}
=============================================================================
