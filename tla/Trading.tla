------------------------------- MODULE Trading -------------------------------
(***************************************************************************)
(* One market traded: get_data's thread writes the order books of its      *)
(* runners, a strategy's thread reads them, and the strategy's orders go   *)
(* to the exchange over a connection that may fail.  The strategy is the   *)
(* repository's example: it lays the favourite when there is more money to *)
(* lay than to back, and closes five ticks up.                             *)
(*                                                                         *)
(* A step is one atomic load or store of a level of a book, or one send.   *)
(* The exchange updates only runners that its image listed.  What the      *)
(* market's end does to the books is Framework's; the walk of the traded   *)
(* range, whose result decides nothing, is TradedBook's.  Positions in the *)
(* vectors count from 1, levels from 0 as in the code.                     *)
(***************************************************************************)
EXTENDS PriceLadder, FiniteSets, SequencesExt

CONSTANTS
    Runners,    \* selection ids
    Depth,      \* levels the weight of money is taken of (3 in the code)
    Offers,     \* side -> for each level, the bids it may be given
    MaxUpdates  \* bound: levels it changes after the image

ASSUME RunnersAssumption == IsFiniteSet(Runners) /\ Runners # {}
ASSUME DepthAssumption == Depth \in Nat \ {0}
ASSUME OffersAssumption ==
    Offers \in [{"back", "lay"} -> [1 .. Depth -> SUBSET [price : Nat, size : Nat]]]
ASSUME UpdatesAssumption == MaxUpdates \in Nat

NoBid == [price |-> 0, size |-> 0]
NoRunner == 0
Levels == 0 .. Depth - 1
Offered(side, l) == Offers[side][l + 1] \cup {NoBid}
Bids == UNION {Offered(side, l) : side \in {"back", "lay"}, l \in Levels}
Order_Book == [back : [Levels -> Bids], lay : [Levels -> Bids]]

VARIABLES
    market_book,            \* the books of the market's runners
    runner_loc, runner_ids, \* selection id -> position, and back
    active,                 \* whether the market is
    listed,                 \* runners of the image get_data has yet to come to
    doc,                    \* levels it has yet to store of the runner it is at
    updates,                \* updates the exchange has sent
    pc,                     \* the strategy's step
    fave, moved,            \* its favourite; a lay price changed during the sort
    first, second,          \* its two loads of the best back
    level, backs, lays,     \* the weighing: level and sizes so far
    entry_price,            \* the price of the last order opened
    open_orders,            \* the orders to be closed
    client,                 \* its connection: "up", "down" or "null"
    sent,                   \* the orders written to it (for the properties, as `seen` is)
    seen                    \* best backs, during the turn, of the runner it orders

handler == <<market_book, runner_loc, runner_ids>>
reader == <<listed, doc, updates>>
turn == <<first, second, level, backs, lays>>
wire == <<entry_price, open_orders, client, sent>>
vars == <<handler, active, reader, pc, fave, moved, turn, wire, seen>>

Prices == {b.price : b \in Bids}
Entry == [runner : Runners, side : {"back", "lay"}, level : Levels]
Order == [side : {"LAY", "BACK"}, id : Runners, price : Prices \cup {Ladder[s] : s \in Slots}]

TypeOK ==
    /\ market_book \in Seq(Order_Book) /\ Len(market_book) <= Cardinality(Runners)
    /\ DOMAIN runner_loc \subseteq Runners
    /\ \A r \in DOMAIN runner_loc : runner_loc[r] \in DOMAIN market_book
    /\ runner_ids \in Seq(Runners) /\ Len(runner_ids) = Len(market_book)
    /\ active \in {"new", "yes", "no"}
    /\ listed \in Seq(Runners) /\ doc \in Seq(Entry)
    /\ updates \in 0 .. MaxUpdates
    /\ pc \in {"idle", "sort", "warm", "test", "first", "second", "back", "lay",
               "decide", "close", "done", "crashed"}
    /\ fave \in DOMAIN market_book \cup {NoRunner} /\ moved \in BOOLEAN
    /\ {first, second} \subseteq Bids
    /\ level \in 0 .. Depth /\ {backs, lays} \subseteq Nat
    /\ entry_price \in Prices
    /\ open_orders \in Seq(Prices) /\ Len(open_orders) <= 1
    /\ client \in {"up", "down", "null"}
    /\ sent \in Seq(Order)
    /\ seen \subseteq Prices

Init ==
    /\ market_book = <<>> /\ runner_loc = <<>> /\ runner_ids = <<>>
    /\ active = "new"
    /\ listed = <<>> /\ doc = <<>> /\ updates = 0
    /\ pc = "idle" /\ fave = NoRunner /\ moved = FALSE
    /\ first = NoBid /\ second = NoBid /\ level = 0 /\ backs = 0 /\ lays = 0
    /\ entry_price = 0 /\ open_orders = <<>> /\ client = "null"
    /\ sent = <<>> /\ seen = {}

\* The steps of a turn before its order, and the runner the order is for.
Deciding == {"first", "second", "back", "lay", "decide"}

RunnerId_First == runner_ids[1]
RunnerId == runner_ids[fave]

-----------------------------------------------------------------------------
\* get_data: what parse_and_update does with a document, in its order.

\* A crash takes the whole program with it.
ReaderOnly == pc # "crashed" /\ UNCHANGED <<pc, fave, turn, wire>>

Level(r, side, l) == [runner |-> r, side |-> side, level |-> l]
Side(r, side) == [n \in 1 .. Depth |-> Level(r, side, n - 1)]

\* The image lists every runner, and the market is activated after it.
ReadImage ==
    /\ active = "new" /\ market_book = <<>> /\ listed = <<>>
    /\ listed' \in SetToSeqs(Runners)
    /\ UNCHANGED <<handler, active, doc, updates, moved, seen>> /\ ReaderOnly

ReadUpdate ==
    /\ active # "new" /\ doc = <<>>
    /\ updates < MaxUpdates /\ updates' = updates + 1
    /\ \E r \in Runners, side \in {"back", "lay"}, l \in Levels :
          doc' = <<Level(r, side, l)>>
    /\ UNCHANGED <<handler, active, listed, moved, seen>> /\ ReaderOnly

NewIdx_Size(book) == Len(book) + 1
NewIdx(book) == Len(book)

NewBook == [back |-> [l \in Levels |-> NoBid], lay |-> [l \in Levels |-> NoBid]]

\* The levels of the runner follow.
add_runner ==
    /\ doc = <<>> /\ listed # <<>> /\ listed' = Tail(listed)
    /\ LET runner == Head(listed)
       IN /\ market_book' = Append(market_book, NewBook)
          /\ runner_loc' = [r \in DOMAIN runner_loc \cup {runner} |->
                              IF r = runner THEN NewIdx(market_book') ELSE runner_loc[r]]
          /\ runner_ids' = Append(runner_ids, runner)
          /\ doc' = Side(runner, "back") \o Side(runner, "lay")
    /\ UNCHANGED <<active, updates, moved, seen>> /\ ReaderOnly

\* update_back or update_lay: one level is overwritten.
Store ==
    /\ doc # <<>> /\ doc' = Tail(doc)
    /\ LET at == Head(doc)
           best == pc \in Deciding /\ at.side = "back" /\ at.level = 0
                      /\ at.runner = RunnerId
       IN \E bid \in Offered(at.side, at.level) :
             /\ market_book' =
                   [market_book EXCEPT ![runner_loc[at.runner]][at.side][at.level] = bid]
             /\ moved' = (moved \/ (pc = "sort" /\ at.side = "lay" /\ at.level = 0))
             /\ seen' = IF best THEN seen \cup {bid.price} ELSE seen
    /\ UNCHANGED <<runner_loc, runner_ids, active, listed, updates>> /\ ReaderOnly

activate_market ==
    /\ active = "new" /\ active' = "yes"
    /\ market_book # <<>> /\ listed = <<>> /\ doc = <<>>
    /\ UNCHANGED <<handler, reader, moved, seen>> /\ ReaderOnly

ReaderStep == ReadImage \/ ReadUpdate \/ add_runner \/ Store \/ activate_market

\* clean_up_markets, when the time is up.
deactivate_market ==
    /\ active = "yes" /\ active' = "no"
    /\ UNCHANGED <<handler, reader, moved, seen>> /\ ReaderOnly

-----------------------------------------------------------------------------
\* The strategy, once the market is active and its job has a thread.

At(here, next) ==
    /\ pc = here /\ pc' = next
    /\ UNCHANGED <<handler, active, reader>>

\* init of Base_Strategy: the connection, or null.  Then the sort begins.
Connect ==
    /\ active # "new" /\ At("idle", "sort")
    /\ client' \in {"up", "null"}
    /\ UNCHANGED <<fave, moved, turn, entry_price, open_orders, sent, seen>>

Best(n, side) == market_book[n][side][0]

\* The comparator reads the lay prices each time anew: when one of them changes
\* during the sort, what comes first is undefined, as is whether the sort stays
\* within the vector.
Sorted ==
    /\ At("sort", "warm")
    /\ fave' \in {n \in DOMAIN market_book :
                    moved \/ \A k \in DOMAIN market_book :
                                Best(n, "lay").price <= Best(k, "lay").price}
    /\ moved' = FALSE
    /\ UNCHANGED <<turn, wire, seen>>

SortAstray ==
    /\ moved /\ At("sort", "crashed")
    /\ UNCHANGED <<fave, moved, turn, wire, seen>>

AfterFailure_Reconnected == "up"
AfterFailure == "down"

\* A request is written, or fails and is logged: the connection is not renewed.
Send(requests) ==
    \/ client = "up" /\ sent' = sent \o requests /\ UNCHANGED client
    \/ client \in {"up", "down"} /\ client' = AfterFailure /\ UNCHANGED sent

\* Ten requests without an instruction.
WarmUp ==
    /\ At("warm", "test")
    /\ Send(<<>>)
    /\ UNCHANGED <<fave, moved, turn, entry_price, open_orders, seen>>

WarmUpNull ==
    /\ client = "null" /\ At("warm", "crashed")
    /\ UNCHANGED <<fave, moved, turn, wire, seen>>

Turn ==
    /\ active = "yes" /\ At("test", "first")
    /\ seen' = {market_book[runner_loc[RunnerId]].back[0].price}
    /\ UNCHANGED <<fave, moved, turn, wire>>

Finish ==
    /\ active = "no" /\ At("test", "done")
    /\ UNCHANGED <<fave, moved, turn, wire, seen>>

\* Both fave_runner_best_available_back and _lay are best_back.
LoadFirst ==
    /\ At("first", "second")
    /\ first' = Best(fave, "back")
    /\ UNCHANGED <<fave, moved, second, level, backs, lays, wire, seen>>

LoadSecond ==
    /\ At("second", "back")
    /\ second' = Best(fave, "back")
    /\ level' = 0 /\ backs' = 0 /\ lays' = 0
    /\ UNCHANGED <<fave, moved, first, wire, seen>>

\* wom: the sizes of each level, back then lay.
WeighBack ==
    /\ At("back", "lay")
    /\ backs' = backs + market_book[fave].back[level].size
    /\ UNCHANGED <<fave, moved, first, second, level, lays, wire, seen>>

WeighLay ==
    /\ At("lay", IF level + 1 < Depth THEN "back" ELSE "decide")
    /\ lays' = lays + market_book[fave].lay[level].size
    /\ level' = level + 1
    /\ UNCHANGED <<fave, moved, first, second, backs, wire, seen>>

\* A weight of money over 75, little money at the front, and a new price.
Signal == lays > 3 * backs /\ second.size < 10 /\ entry_price # first.price

NewEntry_Kept(price) == entry_price
NewEntry(price) == price

Open ==
    /\ Signal /\ At("decide", "close")
    /\ Send(<<[side |-> "LAY", id |-> RunnerId, price |-> second.price]>>)
    /\ open_orders' = Append(open_orders, second.price)
    /\ entry_price' = NewEntry(second.price)
    /\ UNCHANGED <<fave, moved, turn, seen>>

Pass ==
    /\ ~Signal /\ At("decide", "close")
    /\ UNCHANGED <<fave, moved, turn, wire, seen>>

\* Five slots up; past the last slot it reads what lies behind the book.
closing_price(price) ==
    LET slot == GetIndex(price) + 5
    IN IF slot \in Slots THEN {Ladder[slot]} ELSE Prices

Close ==
    /\ open_orders # <<>> /\ At("close", "close")
    /\ open_orders' = Tail(open_orders)
    /\ \E price \in closing_price(Head(open_orders)) :
          Send(<<[side |-> "BACK", id |-> RunnerId, price |-> price]>>)
    /\ UNCHANGED <<fave, moved, turn, entry_price, seen>>

EndTurn ==
    /\ open_orders = <<>> /\ At("close", "test")
    /\ first' = NoBid /\ second' = NoBid /\ level' = 0 /\ backs' = 0 /\ lays' = 0
    /\ seen' = {}
    /\ UNCHANGED <<fave, moved, wire>>

StrategyStep ==
    \/ Connect \/ Sorted \/ SortAstray \/ WarmUp \/ WarmUpNull
    \/ Turn \/ Finish \/ LoadFirst \/ LoadSecond \/ WeighBack \/ WeighLay
    \/ Open \/ Pass \/ Close \/ EndTurn

Next == ReaderStep \/ deactivate_market \/ StrategyStep

Spec == Init /\ [][Next]_vars

-----------------------------------------------------------------------------
Opened == sent' # sent /\ Last(sent').side = "LAY"

\* The price of an opening order is one the exchange showed, in the same turn,
\* as best back of the very runner the order names: the image's order, the two
\* maps between ids and positions and the sort do not mix runners up, though
\* price and weight are loaded while the books change.
OrderWasOffered == [][Opened => Last(sent').price \in seen]_vars

\* "to avoid repeating opening order consecutively": the code compares one load
\* of the best back and orders at another, so an order repeats the price of the
\* one before only if the best back moved between them.
RepeatsOnlyOnMove ==
    [][Opened /\ Len(sent) > 1 /\ sent[Len(sent) - 1].price = Last(sent').price
          => Cardinality(seen) > 1]_vars

FiveTicksUp == {<<Ladder[s], Ladder[s + 5]>> : s \in 0 .. LastSlot - 5}
Closable == {Ladder[s] : s \in 0 .. LastSlot - 5}

Closes(closing, opened) ==
    /\ closing.side = "BACK" /\ closing.id = opened.id
    /\ opened.price \in Closable => <<opened.price, closing.price>> \in FiveTicksUp

\* What is sent is an opening order, its closing order on the same runner, and so
\* on; an opening order stays without its closing one only when the connection
\* broke between the two, and a closing order never goes alone.  The closing price
\* is five ticks up, where there are five ticks up (FiveTicksAway).
OpenedAndClosed ==
    /\ \A n \in DOMAIN sent :
          IF n % 2 = 1 THEN sent[n].side = "LAY" ELSE Closes(sent[n], sent[n - 1])
    /\ Len(sent) % 2 = 1 => client = "down" \/ open_orders # <<>>

\* "place closing order, 5 ticks away" (vwapstrategy.cpp:70), at any opening price:
\* the last five of the ladder, and none at all, which an empty book gives.
FiveTicksAway ==
    \A n \in DOMAIN sent :
        sent[n].side = "BACK" => <<sent[n - 1].price, sent[n].price>> \in FiveTicksUp
=============================================================================
