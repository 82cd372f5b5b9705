---------------------------- MODULE MCFunctions ----------------------------
(***************************************************************************)
(* The algorithms that no other thread disturbs, each walked through its   *)
(* inputs: four years day by day for time_diff_mins, every batch of a few  *)
(* orders for the requests, and the constructor's loop for the ladder of   *)
(* prices.                                                                 *)
(***************************************************************************)
EXTENDS Timing, Orders

CONSTANTS
    FirstYear, LastYear,    \* bound: the years walked
    MaxBatch                \* bound: orders in a batch

ASSUME FirstYearAssumption == FirstYear \in Nat \ {0}

VARIABLES
    today,                  \* the day whose midnight is looked at
    batch,                  \* the orders a strategy has gathered
    i, x, t_idx, book       \* the ladder under construction

ladder == <<i, x, t_idx, book>>
vars == <<today, batch, ladder>>

Build == INSTANCE LadderBuild

Order == [selection_id : {"first", "second"}, order_type : {"LIMIT", "SP"},
          size : {2}, price : {150, 160}]

MonthEnd(d) == FirstDay(d.year + d.month \div 12, (d.month % 12) + 1)
                  - FirstDay(d.year, d.month)

Tomorrow(d) ==
    IF d.day < MonthEnd(d) THEN [d EXCEPT !.day = @ + 1]
    ELSE IF d.month < 12 THEN [year |-> d.year, month |-> d.month + 1, day |-> 1]
    ELSE [year |-> d.year + 1, month |-> 1, day |-> 1]

Init ==
    /\ today = [year |-> FirstYear, month |-> 1, day |-> 1]
    /\ batch = <<>>
    /\ Build!Init

NextDay ==
    /\ today.year <= LastYear
    /\ today' = Tomorrow(today)
    /\ UNCHANGED <<batch, ladder>>

Walked == today.year > LastYear /\ UNCHANGED today

AddOrder ==
    /\ Walked /\ i = 0
    /\ Len(batch) < MaxBatch
    /\ \E o \in Order : batch' = Append(batch, o)
    /\ UNCHANGED ladder

BuildLadder ==
    /\ Walked /\ batch = <<>>
    /\ Build!FillSlot
    /\ UNCHANGED batch

Next == NextDay \/ AddOrder \/ BuildLadder

Spec == Init /\ [][Next]_vars

-----------------------------------------------------------------------------
At(d, hour, min) ==
    [year |-> d.year, month |-> d.month, day |-> d.day, hour |-> hour, min |-> min]

\* The months whose end time_diff_mins gets wrong: two months later it lies
\* before a month of another length, or the year between is lost.
WrongEnds == {2, 6, 7, 11, 12}
WrongEnd(d) == d.day = MonthEnd(d) /\ d.month \in WrongEnds

\* The minutes left to a market that starts after midnight are counted right on
\* every evening but the last of five months; poll_within and clean_up_markets
\* compare that count with the two minutes and the ten seconds they wait for.
\* On the wrong evenings the market seems long gone (July and December: the
\* generator drops it) or days away (the others: it waits).
MidnightDiff ==
    \A before \in {0, 1, 9}, after \in {0, 1, 8} :
        LET now == At(today, 23, 59 - before)
            start == At(Tomorrow(today), 0, after)
            diff == time_diff_mins(start, now)
        IN IF ~WrongEnd(today) THEN diff = RealDiff(start, now)
           ELSE IF today.month \in {7, 12} THEN diff < -1000 ELSE diff > 1000

\* The request of a batch of lay orders is a list the exchange can read, and
\* says each of them once and in order, whatever types are mixed in it.  So is
\* that of back orders, except when an order at the starting price stands before
\* the last: then the whole request is unreadable.
RequestsExact ==
    /\ SaysExactly("LAY", Lay_instruction(batch), batch)
    /\ IF \E k \in 1 .. Len(batch) - 1 : batch[k].order_type = "SP"
       THEN ~Readable(Back_instruction(batch))
       ELSE SaysExactly("BACK", Back_instruction(batch), batch)

\* The constructor's ladder: the bands meet, each slot a tick above the last.
BuildsLadder == Build!BuildsLadder

\* get_index finds no slot with a nearer neighbour.
NearestTick == Build!NearestTick
=============================================================================
