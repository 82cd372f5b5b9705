----------------------------- MODULE PriceLadder -----------------------------
(***************************************************************************)
(* The prices a runner can trade at and the slot of each in a Traded_Book. *)
(* Prices are numbers of hundredths: the floats of the code hold tick      *)
(* prices, and round_2dp keeps the ladder's running price a whole number   *)
(* of hundredths.  Tables are indexed from 1, slots from 0 as in the code. *)
(* No price is below Lowest, so the (int) of get_index never truncates a   *)
(* negative number.                                                        *)
(***************************************************************************)
EXTENDS Integers, Sequences

Bounds  == <<100, 200, 300, 400, 600, 1000, 2000, 3000, 5000, 10000, 100000>>
Starts  == <<101, 200, 300, 400, 600, 1000, 2000, 3000, 5000, 10000>>
Ticks   == <<1, 2, 5, 10, 20, 50, 100, 200, 500, 1000>>
Indexes == <<1, 100, 150, 170, 190, 210, 230, 240, 250, 260>>

Lowest   == 101
Highest  == 100000
LastSlot == 349
Slots    == 0 .. LastSlot

InBand(t, price) == Bounds[t] <= price /\ price < Bounds[t + 1]
Banded(price)    == \E t \in 1 .. 10 : InBand(t, price)
Band(price)      == CHOOSE t \in 1 .. 10 : InBand(t, price)

\* The slot whose price is nearest, the upper one of two (half a tick between
\* them, a float may fall to the lower).  No band holds the highest price, and
\* the code then returns 0.
TickOffset_Down(t, price) == (price - Starts[t]) \div Ticks[t]
TickOffset(t, price) == (2 * (price - Starts[t]) + Ticks[t]) \div (2 * Ticks[t])

GetIndex(price) ==
    IF Banded(price)
    THEN LET t == Band(price) IN Indexes[t] - 1 + TickOffset(t, price)
    ELSE 0

\* The ladder the constructor is meant to build: the k-th tick from the bottom.
SlotBand(i) == CHOOSE t \in 1 .. 10 :
                  Indexes[t] <= i + 1 /\ (t = 10 \/ i + 1 < Indexes[t + 1])
Ladder == [i \in Slots |->
              LET t == SlotBand(i) IN Starts[t] + (i + 1 - Indexes[t]) * Ticks[t]]
=============================================================================
