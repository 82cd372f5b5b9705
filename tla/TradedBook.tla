----------------------------- MODULE TradedBook -----------------------------
(***************************************************************************)
(* The volume traded on one runner: a slot per price, and the extremes of  *)
(* price and size seen so far.  get_data's thread updates it field by      *)
(* field, each an atomic; a strategy's thread reads it meanwhile, to find  *)
(* the most traded price or to walk the traded range for an average price. *)
(*                                                                         *)
(* The stream sends the total size matched at a price, and totals grow.    *)
(***************************************************************************)
EXTENDS PriceLadder, FiniteSetsExt

CONSTANTS
    Prices,     \* the prices trades happen at
    MaxSize     \* bound: the largest total at one price

ASSUME PricesAssumption == Prices \subseteq Lowest .. Highest /\ Prices # {}
ASSUME MaxSizeAssumption == MaxSize \in Nat

NoPrice == 0            \* numeric_limits<float>::min(), below every price
TopPrice == Highest + 1 \* numeric_limits<float>::max()

VARIABLES
    book,           \* slot -> [price, size]
    min_price, min_price_idx, max_price, max_price_idx,
    max_size, max_traded_price, max_traded_price_idx,
    min_size, min_traded_price, min_traded_price_idx,
    ltp_,
    upc, bid, idx,  \* the update in progress: next step, its bid and its slot
    traded,         \* price -> the total of the last update that ended
    rpc,            \* the strategy's next step
    at,             \* the slot it is at
    tot_prod, tot_vol, price_read, size_read,
    known           \* a volume known when it began (for the properties only)

rangeVars == <<min_price, min_price_idx, max_price, max_price_idx>>
maxVars == <<max_size, max_traded_price, max_traded_price_idx>>
minVars == <<min_size, min_traded_price, min_traded_price_idx>>
updateVars == <<bid, idx>>
readerVars == <<rpc, at, tot_prod, tot_vol, price_read, size_read, known>>
vars == <<book, rangeVars, maxVars, minVars, ltp_, upc, updateVars, traded, readerVars>>

Bids == [price : Lowest .. Highest, size : Nat]

Typed ==
    /\ book \in [Slots -> Bids]
    /\ min_price \in Nat /\ max_price \in Nat
    /\ min_price_idx \in Slots /\ max_price_idx \in Slots \cup {-1}
    /\ max_size \in Nat /\ min_size \in Nat
    /\ max_traded_price \in Nat /\ min_traded_price \in Nat
    /\ max_traded_price_idx \in Slots /\ min_traded_price_idx \in Slots
    /\ ltp_ \in Nat
    /\ upc \in {"idle", "min_range", "max_range", "max_price", "max_idx",
                "min_price", "min_idx", "last"}
    /\ bid \in Bids /\ idx \in Slots /\ traded \in [Prices -> Nat]
    /\ rpc \in {"idle", "test", "price", "product", "volume", "walked",
                "max_idx", "max_size", "max_read"}
    /\ at \in Nat /\ tot_prod \in Nat /\ tot_vol \in Nat
    /\ price_read \in Nat /\ size_read \in Nat

TypeOK == Typed /\ known \in Nat

Init ==
    /\ book = [i \in Slots |-> [price |-> Ladder[i], size |-> 0]]
    /\ min_price = TopPrice /\ min_price_idx = 0
    /\ max_price = NoPrice /\ max_price_idx = -1
    /\ max_size = 0 /\ min_size = MaxSize + 1
    \* the two traded prices and ltp_ are left uninitialized
    /\ max_traded_price = NoPrice /\ max_traded_price_idx = 0
    /\ min_traded_price = NoPrice /\ min_traded_price_idx = 0
    /\ ltp_ = NoPrice
    /\ upc = "idle" /\ bid = book[0] /\ idx = 0 /\ traded = [p \in Prices |-> 0]
    /\ rpc = "idle" /\ at = 0 /\ tot_prod = 0 /\ tot_vol = 0
    /\ price_read = NoPrice /\ size_read = 0 /\ known = 0

-----------------------------------------------------------------------------
\* update: the bid of one element of "trd", stored step by step.

UpdateAt(step, next) == upc = step /\ upc' = next

NewIdx_ByValue(price) == 0
NewIdx_NotFound(price) == -1
NewIdx(price) == GetIndex(price)

StoreBid(price, size) ==
    /\ UpdateAt("idle", "min_range")
    /\ size > traded[price]
    /\ bid' = [price |-> price, size |-> size]
    /\ idx' = NewIdx(price)
    /\ book' = [book EXCEPT ![GetIndex(price)] = bid']
    /\ UNCHANGED <<rangeVars, maxVars, minVars, ltp_, traded, readerVars>>

StoreMinRange ==
    /\ UpdateAt("min_range", "max_range")
    /\ IF bid.price < min_price
       THEN min_price' = bid.price /\ min_price_idx' = idx
       ELSE UNCHANGED <<min_price, min_price_idx>>
    /\ UNCHANGED <<book, max_price, max_price_idx, maxVars, minVars, ltp_,
                   updateVars, traded, readerVars>>

Higher_ElseIf(price) == price > max_price /\ price > min_price
Higher(price) == price > max_price

StoreMaxRange ==
    /\ UpdateAt("max_range", "max_price")
    /\ IF Higher(bid.price)
       THEN max_price' = bid.price /\ max_price_idx' = idx
       ELSE UNCHANGED <<max_price, max_price_idx>>
    /\ UNCHANGED <<book, min_price, min_price_idx, maxVars, minVars, ltp_,
                   updateVars, traded, readerVars>>

Larger_First(size) == max_size = 0
Larger(size) == size > max_size

StoreMaxPrice ==
    /\ upc = "max_price"
    /\ IF Larger(bid.size)
       THEN /\ max_size' = bid.size
            /\ max_traded_price' = bid.price
            /\ upc' = "max_idx"
       ELSE /\ upc' = "min_price"
            /\ UNCHANGED <<max_size, max_traded_price>>
    /\ UNCHANGED <<book, rangeVars, max_traded_price_idx, minVars, ltp_,
                   updateVars, traded, readerVars>>

StoreMaxIdx ==
    /\ UpdateAt("max_idx", "min_price")
    /\ max_traded_price_idx' = idx
    /\ UNCHANGED <<book, rangeVars, max_size, max_traded_price, minVars, ltp_,
                   updateVars, traded, readerVars>>

StoreMinPrice ==
    /\ upc = "min_price"
    /\ IF bid.size < min_size
       THEN /\ min_size' = bid.size
            /\ min_traded_price' = bid.price
            /\ upc' = "min_idx"
       ELSE /\ upc' = "last"
            /\ UNCHANGED <<min_size, min_traded_price>>
    /\ UNCHANGED <<book, rangeVars, maxVars, min_traded_price_idx, ltp_,
                   updateVars, traded, readerVars>>

StoreMinIdx ==
    /\ UpdateAt("min_idx", "last")
    /\ min_traded_price_idx' = idx
    /\ UNCHANGED <<book, rangeVars, maxVars, min_size, min_traded_price, ltp_,
                   updateVars, traded, readerVars>>

\* The message may or may not carry a last traded price (and a total volume).
StoreLast ==
    /\ UpdateAt("last", "idle")
    /\ ltp_' \in {ltp_, bid.price}
    /\ traded' = [traded EXCEPT ![bid.price] = bid.size]
    /\ UNCHANGED <<book, rangeVars, maxVars, minVars, updateVars, readerVars>>

UpdateStep ==
    \/ \E price \in Prices, size \in 1 .. MaxSize : StoreBid(price, size)
    \/ StoreMinRange \/ StoreMaxRange
    \/ StoreMaxPrice \/ StoreMaxIdx \/ StoreMinPrice \/ StoreMinIdx
    \/ StoreLast

-----------------------------------------------------------------------------
\* A strategy's thread: vwap's walk over the traded range, and get_max_traded.
\* Every load of an atomic is a step.

unread == <<tot_prod, tot_vol, price_read, size_read>>
written == <<book, rangeVars, maxVars, minVars, ltp_, upc, updateVars, traded>>

ReadAt(step, next) == rpc = step /\ rpc' = next /\ UNCHANGED written

Total(f) == MapThenSumSet(LAMBDA k : f[k], {k \in DOMAIN f : f[k] > 0})
Sizes == [i \in Slots |-> book[i].size]

StartWalk ==
    /\ ReadAt("idle", "test")
    /\ at' = min_price_idx
    /\ tot_prod' = 0
    /\ tot_vol' = 1
    /\ known' = Total(traded)
    /\ UNCHANGED <<price_read, size_read>>

\* The end of the range is read again at every slot.
TestRange ==
    /\ ReadAt("test", IF at <= max_price_idx THEN "price" ELSE "walked")
    /\ UNCHANGED <<at, known, unread>>

ReadPrice ==
    /\ ReadAt("price", "product")
    /\ price_read' = book[at].price
    /\ UNCHANGED <<at, tot_prod, tot_vol, size_read, known>>

AddProduct(step, next) ==
    /\ ReadAt(step, next)
    /\ tot_prod' = tot_prod + price_read * book[at].size
    /\ UNCHANGED <<tot_vol, price_read, size_read, known>>

AddVolume(step, next) ==
    /\ ReadAt(step, next)
    /\ tot_vol' = tot_vol + book[at].size
    /\ UNCHANGED <<tot_prod, price_read, size_read, known>>

SumSlot_Swapped ==
    \/ AddVolume("product", "volume") /\ UNCHANGED at
    \/ AddProduct("volume", "test") /\ at' = at + 1
SumSlot ==
    \/ AddProduct("product", "volume") /\ UNCHANGED at
    \/ AddVolume("volume", "test") /\ at' = at + 1

StartMaxTraded ==
    /\ ReadAt("idle", "max_idx")
    /\ price_read' = max_traded_price
    /\ known' = Max({traded[p] : p \in Prices})
    /\ UNCHANGED <<at, tot_prod, tot_vol, size_read>>

ReadMaxIdx ==
    /\ ReadAt("max_idx", "max_size")
    /\ at' = max_traded_price_idx
    /\ UNCHANGED <<known, unread>>

ReadMaxSize ==
    /\ ReadAt("max_size", "max_read")
    /\ size_read' = book[at].size
    /\ UNCHANGED <<at, tot_prod, tot_vol, price_read, known>>

\* The locals of the call are gone.
Return ==
    /\ \E done \in {"walked", "max_read"} : ReadAt(done, "idle")
    /\ at' = 0 /\ known' = 0
    /\ tot_prod' = 0 /\ tot_vol' = 0 /\ price_read' = NoPrice /\ size_read' = 0

ReadStep ==
    \/ StartWalk \/ TestRange \/ ReadPrice \/ SumSlot
    \/ StartMaxTraded \/ ReadMaxIdx \/ ReadMaxSize \/ Return

Next == UpdateStep \/ ReadStep

Spec == Init /\ [][Next]_vars

-----------------------------------------------------------------------------
\* Between two updates the traded range runs exactly from the lowest to the
\* highest slot with volume, whatever order the trades came in.
RangeExact ==
    upc = "idle" =>
        LET used == {GetIndex(p) : p \in {q \in Prices : traded[q] > 0}} IN
        used # {} => min_price_idx = Min(used) /\ max_price_idx = Max(used)

\* Between two updates the most traded price is one with the largest total,
\* and its slot is the one get_max_traded reads the size from.
MaxTradedExact ==
    upc = "idle" /\ max_traded_price # NoPrice =>
        /\ max_traded_price_idx = GetIndex(max_traded_price)
        /\ \A p \in Prices : traded[p] <= traded[max_traded_price]

\* A walk misses none of the volume that was there when it began and invents
\* none, although the book, the range and the slot change under it.
\* (tot_vol starts at 1.)
WalkVolume ==
    rpc = "walked" => known <= tot_vol - 1 /\ tot_vol - 1 <= Total(Sizes)

\* The average it returns is no higher than the highest price traded, although
\* a slot's size is loaded once for the product and again for the volume.
WalkNotAboveMax == rpc = "walked" => tot_prod <= max_price * tot_vol

\* get_max_traded loads a price, a slot and a size apart: the price may be of
\* another slot, but the size is never below the largest total known before.
MaxReadNotBelow == rpc = "max_read" => size_read >= known
=============================================================================
