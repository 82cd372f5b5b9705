----------------------------- MODULE LadderBuild -----------------------------
(***************************************************************************)
(* The constructor of Traded_Book: 350 slots filled with the prices of the *)
(* ladder, from the bottom, each one tick above the last.                  *)
(***************************************************************************)
EXTENDS PriceLadder

VARIABLES
    i,      \* the slot about to be filled
    x,      \* its price
    t_idx,  \* the band of the last price that was in one
    book    \* slot -> price, of the slots filled so far

vars == <<i, x, t_idx, book>>

Init ==
    /\ i = 0
    /\ x = Lowest
    /\ t_idx = 1
    /\ book = [k \in {} |-> 0]

NextBand_Late(price) == IF Banded(price - 1) THEN Band(price - 1) ELSE t_idx
NextBand(price) == IF Banded(price) THEN Band(price) ELSE t_idx

FillSlot ==
    /\ i <= LastSlot
    /\ t_idx' = NextBand(x)
    /\ book' = [k \in 0 .. i |-> IF k = i THEN x ELSE book[k]]
    /\ x' = x + Ticks[t_idx']
    /\ i' = i + 1

Next == FillSlot

Spec == Init /\ [][Next]_vars

-----------------------------------------------------------------------------
Distance(a, b) == IF a < b THEN b - a ELSE a - b

\* The loop that advances by ticks fills every slot with the price the table
\* `indexes` counts on: the bands meet without a gap and without a repetition.
BuildsLadder == \A k \in DOMAIN book : book[k] = Ladder[k]

\* On the finished ladder, get_index finds for every price short of the highest
\* a slot with no nearer neighbour, whatever band it and the price fall in.
NearestTick ==
    i > LastSlot =>
        \A price \in Lowest .. Highest - 1 :
            LET k == GetIndex(price)
            IN /\ k \in Slots
               /\ \A n \in {k - 1, k + 1} \cap Slots :
                     Distance(book[k], price) <= Distance(book[n], price)
=============================================================================
