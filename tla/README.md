# Verification of hedg

TLA+ models, TLC configurations and TLAPS proofs for hedg, a C++ framework that
streams Betfair markets to trading strategies. Everything here is translated
from the code under `src/`; line numbers below are those of that code.

## 1. The system

hedg is one process. `Framework::initialize` (framework.h:17) starts five threads
and a pool; `Framework::start` is the main thread.

| part | state | operations | talks to |
|---|---|---|---|
| MarketGenerator (marketgenerator.cpp) | `markets_`, `session_id_`, one mutex and condition variable | `generate` (thread, hourly), `poll_within`, `markets_within`, `wait_for_gen` | hands batches of markets to Publisher::run, wakes order_subscribe |
| Publisher::run / try_subscribe (publisher.cpp:22-65, 191-203) | takes from `free_socks_`; appends to `subscribed_`, `last_ids` | subscribe a batch on a free socket | the two threads below, through shared members with no lock |
| Publisher::clean_up_markets (87-140) | pops `subscribed_`, `last_ids`; renews `socks` | deactivate a market that starts; with the last of a batch, renew the socket and clear the batch | Market_Handler, `free_socks_` |
| Publisher::get_data + Parser (144-169, parser.cpp) | `full_jsons` per socket | poll the sockets, reassemble documents, apply images and deltas, activate markets | Market_Handler |
| Publisher::order_subscribe (67-82) | `order_socket_`, its flag | renew the order stream each hour | nothing reads it (`get_orders` is never started) |
| Market_Handler (markethandler.h) | `active`, the books, the maps between selection ids and positions, `active_markets_` | activate, deactivate, clear, add_runner, updates, getters | Framework (queue), strategies |
| Traded_Book, Order_Book (structures/) | a ladder of 350 prices, running extremes | update, range and index | strategies |
| Framework::start, threadsafe_queue | queue of active markets | launch every allowed strategy on every active market | the pool |
| ctpl::thread_pool (ctpl.h) | a lock-free queue, a mutex and condition variable, `isDone` | push, the threads' loop, the destructor | jobs are strategies |
| Base_Strategy, examples/vwapstrategy.cpp | its favourite runner, `entry_price`, `open_orders`, one client | connect, sort the runners, loop while the market is active, send orders | Market_Handler, the exchange |
| Timing (timing.cpp) | a static buffer | now, after, time_diff_mins | every thread |
| Orders (order.cpp) | none | the instructions of a batch of orders | strategies |

What is hard about it: the publisher's three threads share a deque, a queue, a
map and the sockets with no lock (publisher.h:29 announces a mutex
"//synchronization" that nothing takes), and what keeps them apart is time: a
market is subscribed two minutes ahead, clean_up_markets sleeps ten seconds
before it destroys a socket and thirty before it erases books. Connections fail
at every step. A strategy reads books field by field while they are written, and
its job may start long after its market was cleared. The pool's threads pop the
queue without the mutex under which they go to sleep. The properties the project aims at follow from that and are
listed, each at its line, under "hazards" in PROJECT.json.

## 2. Modules

| module | models |
|---|---|
| `MarketLifecycle` | the promise: what may happen to a market, abstractly |
| `Publisher` | run, clean_up_markets, get_data, with Parser and Market_Handler |
| `MCPublisher` | the constants TLC uses |
| `MarketGenerator` | generate, poll_within, markets_within, run's cycle and order_subscribe, on a clock |
| `Timing` | time_diff_mins |
| `Orders` | the list of instructions of a batch of orders |
| `PriceLadder`, `LadderBuild` | get_index; the constructor of Traded_Book |
| `MCFunctions` | walks `Timing` over a calendar, `Orders` over batches, `LadderBuild` over its loop |
| `TradedBook`, `MCTradedBook` | update's stores against a strategy's loads |
| `Trading`, `MCTrading` | one market traded: documents into order books, the example strategy, its orders and its connection |
| `JobPool` | the promise of a pool of threads |
| `ThreadPool`, `MCThreadPool` | ctpl::thread_pool, access by access |
| `Framework`, `MCFramework` | start's dispatch and a strategy's life as a job; uses `MarketLifecycle` for the market data side and `JobPool` for the pool |

| proofs | theorems |
|---|---|
| `PublisherProofs` | `TypeCorrect`, `SubscriptionBounded`, `SocketsExclusive`, `NoneOrphaned`, `ReadsConnected`, `ReadsUnmixed`, `UpdatesHaveBooks`, `LiveHasBooks`, `ImagesActivate`, `LifecycleImplemented` |
| `MarketGeneratorProofs` | `GeneratorTyped`, `NothingTooSoon`, `SessionKeptUp`, `MarketsInOrder`, `QueueBounded`, `QueueEmptied`, `OnlyLateDropped`, `SessionRecent`, `SmallCatalogueServed` |
| `FrameworkProofs` | `FrameworkTypeCorrect`, `BooksOutliveLoops`, `LateJobsStop`, `HandedOnce` |
| `ThreadPoolProofs` | `PoolTypeCorrect`, `NobodyOversleeps`, `PoolImplemented` |
| `TradedBookProofs` | `BookTyped`, `MaxTradedRight`, `RangeRight`, `MaxReadRight`, `WalkBelowMax`, `WalkSumsVolume` |
| `TradingProofs` | `TradingTypeCorrect`, `OrdersOffered`, `TradesClosed`, `RepeatsMoved` |
| `FunctionsProofs` | `MidnightRight`, `RequestsRight`, `LadderBuilt`, `NearestFound` |
| `PriceLadderProofs` | lemmas on `GetIndex` and `Ladder`, for `TradedBookProofs`, `TradingProofs` and `FunctionsProofs` |

How they compose: `MarketGenerator` checks what `Publisher` takes for granted of its
input (each market handed over once, in the order of their start); `Publisher`
implements `MarketLifecycle` and `ThreadPool` implements `JobPool` (each a property of
a run); `Framework` stands on the two abstract modules: it conjoins
`MarketLifecycle`'s actions with what they do to the maps strategies read, and
`JobPool`'s with what its threads run. `Trading` looks into one market of
`Framework`, and `TradedBook` into one of its traded books. `Timing` says on which
evenings the whole minutes that `MarketGenerator` and `Publisher` count with are right.

### Publisher: state and actions against the code

Markets are numbered in the order of their start (the catalogue is asked for
FIRST_TO_START), so `now` is a number too: market `m` is within ten seconds of
its start when `m <= now`. Each thread has a program counter; an action is the
code between two points where another thread can be seen to interfere.

| thread | counter | actions, in the order of the code |
|---|---|---|
| run | `rpc` | `TakeBatch`/`DropLate`, `ReadRoom`, `NoSocketFree`/`TakeSocket`, `Subscribe`/`SubscribeFail`, `PushSubscribed` per market, `CacheKey`, `CacheSocket` |
| clean_up_markets | `cpc` | `Deactivate`, `PopFront`, `NotLast`/`FreeSocket`, `ResetSocket`, `Reconnect`/`ReconnectFail`, then per market `EraseActive`, `EraseBooks`, and `DiscardBatch` |
| get_data | `dpc` | `PollIdle`/`PollFlagged`, `RecvBytes`/`RecvDocument`, then `AddRunners`, `Lookup`, `Activate` for an image, `ApplyDelta` for a delta |

`RecvNull`, `RecvMalformed` and `UpdateMissing` are the ways the process dies: a
null socket, a document simdjson rejects, an update of books that were erased.
`ResetSocket` under a reader that has passed the flag check is undefined
behaviour; the model lets the reader either crash or be still in front of the
read. `last_ids[m] = NoBatch` is an absent entry, `active[m] = "absent"` an
erased one, `socks[s] = FALSE` a null pointer. Variables the code does not
have: `serving` and `imaged` are Betfair's side (what a stream carries; a market's
first document is its SUB_IMAGE); `unpolled` is history (the sockets whose flag was
lowered since the reader last looked at them).

Abstracted: prices, sizes and the text of documents (a document is about one
market; the code treats several in one document one after the other); the
minutes of `markets_within` (a batch is any number of markets at the head, a
late head may be dropped at any time); a connection that is lost but still a
client (it carries no documents, which `RecvBytes` covers). Each call on a
container is atomic: a torn `std::deque` is not represented.

### The other modules

`MarketGenerator` counts time in beats of five seconds; what waits for nothing
takes no time, and `Pass` moves the clock to the first due time when all three
threads wait. A thread is at its step (`gpc`, `rpc`, `opc`) with a due time
(`gwake`, `rwake`, `owake`). generate holds the mutex from `Login` to `Pushed`;
`Generated` (wait_for_gen) needs it free, but `PollFound`, `PollLate`, `PollEarly` and
`Take` read and pop the queue without it, so pushes fall between them. `AskFailed`
is the caught network error, of the login or of the request. `OrderConnect`,
`OrderRefused`, `OrderSubscribe` and `OrderAwake` are order_subscribe; `session` and
`osession` number the logins. An answer that is not the expected document ends the
program (line 38-42). An answer holds the first `MaxResults` of what is asked for: a
hundred whatever the configured maximum (params.cpp:36), here as many as there are
markets, so the run cuts nothing off; the theorems hold for any number.

`PriceLadder` holds prices as hundredths. That the floats of the constructor land on
whole hundredths, and each in its band, is the effect of `round_2dp`. A price half a tick
between two slots goes to the upper one here, and in floats perhaps to the lower: both are
nearest, and no property tells them apart. `Ladder` is the
reference definition the loop of `LadderBuild` is compared with. `TradedBook` has an
action per store of `update` that another thread can see (`min_price`, `max_price`,
`max_size` and `min_size` are read by the updating thread only and go with the
next store) and per load of `vwap`'s loop and of `get_max_traded`; `known` and
`traded` are history. Sizes are the exchange's totals, which grow.

`Trading` has an action per level of an order book that get_data's thread stores
(`Store`, after `add_runner` for each runner of the image), per level the strategy
loads, and per request it sends. `listed` are the runners of the image the reader
has yet to come to, `doc` the levels it has yet to store of the one it is at. `LoadFirst` and `LoadSecond` are the two loads of the best back
(vwapstrategy.cpp:39-40), `WeighBack` and `WeighLay` the sums of `wom`, `Open` and
`Close` the orders. `Sorted` yields the runner with the lowest lay price unless a lay
price was stored during the sort (`moved`): then any runner, or a crash
(`SortAstray`), since a comparator that changes its mind is undefined behaviour.
`client` is `"null"` when the connection failed (the warm-up then dereferences it),
`"down"` when it broke: a failed connection stays failed. `sent` and `seen` are history:
`sent` has the orders written to the connection, which is not to say received, each with
the price the strategy gave it. Its orders are of type SP, whose request leaves the price
out: that is `Orders`' business (see the end of section 3). The example's opening and
closing orders take the runner's id from the same look-up, `RunnerId`.

`Orders` takes the text of a request apart into commas and one piece per order. The
format of a starting-price back order that is not the last of its batch has a
stray comma (order.cpp:114), which makes `Cut` of what follows.

`JobPool` is a queue and what each thread runs. `ThreadPool` has an action per access
to what threads share: the pop without the mutex (`PopFound`, `PopEmpty`), the mutex
(`Lock`), the predicate of `cv.wait` in its two parts (`CheckFound`, `CheckEmpty`,
then `Exit` or `Sleep`), and the wake-up, by notification or spurious (`Notified`,
`Spurious`). `waiting` are the sleepers not yet notified; a thread at `"wait"` outside
it has been notified and needs the mutex. The owner's `Push` and `NotifyOne`, `Stop` and
`NotifyAll` are separate steps, as the job is pushed and `isDone` set outside the mutex.

`Framework` counts periods of ten seconds: `wait` is what clean_up_markets still
sleeps before the next erasure, `left` what a turn of a strategy's loop may still
take. `operator[]` of a map makes the entry it does not find: `SortRunners` leaves
an `"empty"` book, `Load` an entry of `active`. A strategy is the pattern of the
README and of examples/vwapstrategy.cpp; connecting its client and sending orders
change nothing here. Concurrent access to one `unordered_map` from several threads
is undefined in the code; each access is atomic here.

### Timing assumptions

The code has no synchronisation to model, only time. `Timely` names what is
assumed, so that every property is checked under no more than it needs:

* `lead`: a batch is fully subscribed before its first market starts. The code
  leaves two minutes for it (publisher.cpp:26).
* `pass`: in the ten seconds of publisher.cpp:111 the reader polls the socket once
  with its flag down. Not guaranteed: the reader blocks on every other socket in
  turn until fifteen bytes arrive. It is assumed only for what becomes of the books
  when a batch is erased (`UpdatesFindBooks`, `ActiveHasBooks`) and for the refinement.

What can be said of a reader that does not keep to the ten seconds is said without `pass`.
`NoReadOfResetSocket`: the read that meets a destroyed socket is one the reader went into
before the flag was lowered; once it has looked at the flag, however late, none begins on a
destroyed or half renewed socket. `NoMixedDocument`: half a document of the old stream is
left for the new one only if the reader has not looked at the socket once from the lowering
of the flag to the new subscription. Both leave the reader that is blocked in a read for
longer than clean_up_markets sleeps, and that the code does not keep from the socket: the
client is destroyed under it (publisher.cpp:112). `ImageActivates` likewise needs no
assumption that the image comes late: it says that an image can be lost between
the raising of the flag and the push of its own market, and at no other time.

## 3. Runs

The runs of `Publisher` have two sockets and three markets (two in the violation run): enough for a
batch of two and a batch of one, for a batch refused for room or for a socket, a
socket used a second time while the first batch is being cleared, and a failing
subscription or reconnection before either. Batches of one and two markets
distinguish the batch's key from its other markets.

| run | assumes | shows |
|---|---|---|
| `publisher_lead` | lead | `TypeOK`, `ExclusiveSockets`, `SubscriptionBound`, `NoOrphanBatch`, `NoReadOfResetSocket`, `NoMixedDocument`, `ImageActivates`, in 1.8 million states; the process may die here |
| `publisher_timed` | lead, pass | `UpdatesFindBooks`, `ActiveHasBooks`, the liveness property `SubscribedIsCleared`, and `ImplementsLifecycle` |
| `publisher_time_up` | lead, pass | `TimeUpIsFinal` fails: a market deactivated between look-up and activation of its image is active again |
| `generator` | three markets, any start minutes, two generations and the third login | `TypeOK` (the queue never longer than the catalogue), `HandedInOrder`, `DropOnlyLate`, `QueueDrains`, `AfterGeneration`, `OrderSessionRecent`, in 5.2 million states |
| `functions` | UTC; four years, batches of up to four orders, the whole ladder | `MidnightDiff`: time_diff_mins is right across midnight but on the last evening of February, June, July, November and December, and there off by days. `BuildsLadder`, `NearestTick`: all 350 slots and every price in hundredths below the highest. `RequestsExact`: every request says its orders, but a batch of back orders with a starting-price one before its last |
| `traded_book` | no trade at the highest price | `TypeOK`, `RangeExact`, `MaxTradedExact`, `WalkVolume`, `WalkNotAboveMax`, `MaxReadNotBelow` |
| `traded_book_top` | trades at 1000 | `WalkVolume` fails: get_index puts 1000 in slot 0 |
| `framework` | a turn of a loop takes less than 30 s | `TypeOK`, `LoopHasBooks`, `LoopHasRunners`, `EachAllowedOnce`, the liveness property `EachStarts` |
| `framework_removed` | same, one thread | `RemovedFinally` fails: a job that starts late puts its market back into the maps |
| `thread_pool` | jobs end | `TypeOK`, `NoneOversleeps`, the liveness property `StopEnds` and the refinement `ImplementsPool` |
| `trading` | the image lists every runner | `TypeOK`, `OrderWasOffered`, `RepeatsOnlyOnMove`, `OpenedAndClosed`, in 2 million states |
| `trading_ticks` | same | `FiveTicksAway` fails: an order opened at 960 or above is not closed five ticks away, and nor is one opened at price 0 |

Bounds. `generator`: an hour is five minutes and the trade span two, with the
code's lead of two minutes, nap of ten seconds and sleep of five; three markets
can all be late, all in the window, or straddle two generations. With more late
markets than a minute has cycles of nap and sleep, `DropOnlyLate` would fail: each
costs fifteen seconds. How many run can take, for any constants, is `KeepsUp`
(section 4). `functions`: 2021 to 2024 has one leap year and every month
end; four orders put each kind of order first, inside and last. `traded_book`: three prices give a slot below, one between
and one at each end of the range; totals up to two let a size grow between two
loads. `framework`: three jobs for two threads make one wait until a market closes. `thread_pool`: three threads let one sleep, one be
woken for a job, and a third take it; four jobs outnumber them. `trading`: two
runners, in either order of the image, and two levels; two updates are enough for
the best back to move between the two loads and for a lay price to move during the
sort. The prices are one whose closing price lies across a border of two bands and
one whose closing slot lies past the ladder.

Fairness (only `SubscribedIsCleared` needs it in `Publisher`): time passes (`Tick`), and each
thread that can take a step eventually does. Sleeps end, a failing connection
attempt returns with an error, a blocked read returns with the stream's
heartbeat. Nothing is assumed about the arrival of documents or of markets. In `Framework`,
`EachStarts` needs the same of the main thread, the pool's threads and time, and
that every subscribed market is in the end deactivated and erased, which is
`SubscribedIsCleared` of `Publisher`. In `ThreadPool`, `StopEnds` needs that each thread
is scheduled, that a notification or a destructor once begun goes on, and that jobs
end; nobody is assumed to push or to stop, and nobody to be woken for nothing.

`ImplementsLifecycle` is the refinement: `Publisher` under the mapping at the end
of the module implements `MarketLifecycle!Spec`. A market is subscribed while
`subscribed` holds it, except that it counts as closed from its deactivation on;
closed while its batch is recorded and it is not yet erased; listed while it is
in the generator or in a batch not yet pushed; gone otherwise. `ImplementsPool` maps
`q` to `JobPool`'s queue and `job` to what its threads run; `JobPool!Spec` has the
fairness that some thread starts a job while there is one and a thread is free,
which is where a lost wake-up would show.

Disagreements met while modelling that no run shows, because the line that
disagrees is a matter of reading or the condition lies outside a model:

* vwapstrategy.cpp:40 fills the variable named for the best lay from `best_back`; the
  lay order goes out at a back price. `Trading` models what the code does.
* vwapstrategy.cpp:118 says it avoids repeating the opening order; it compares one load
  and orders at another, so the price may repeat when the best back moves between
  them (`RepeatsOnlyOnMove` says: only then).
* vwapstrategy.cpp:52 says of an order of type SP that it takes the starting price if it is
  unmatched when the market closes, and gives it a price. The instruction of such an order
  (order.cpp:26) is MARKET_ON_CLOSE with a liability and no price: it is not offered before
  the close. `RequestsExact` says what each request carries.
* publisher.cpp:109 calls a socket free when its flag is lowered; the reader may be in the
  read of it then, and still be when it is destroyed (section 2, `pass`).
* A runner with no lay offers has a lay price of 0 and sorts first, as the favourite.
* config.cpp:34 speaks of the time markets are traded; run asks for two minutes more.

Operators named `X_Y` beside an operator `X` are mutants of `X`, a plausible mistake
each: with `X` replaced by it, the property PROJECT.json names for it fails.

## 4. Proofs

Each theorem holds for every value of the constants, where a run checks one
instance. The inductive invariants were first checked by TLC on the instances of
the runs. What is assumed are the `ASSUME`s of the modules, which TLC evaluates on
every run, and what a theorem states before its `PROVE`. One assumption has content:
`MaxLoopAssumption` of `Framework` (a turn of a strategy's loop takes less than the
thirty seconds before the books are erased).

### Publisher

`PublisherProofs` is for every `MaxMarkets > 0` and every `NumMarkets`, and goes from what
any timing allows to what needs each of the assumptions of section 3.

* Any timing. `TypeCorrect` is not inductive alone: `Control` adds what the counters
  imply (a batch in hand is not empty, an index into it is in range, the batch being
  cleaned is recorded with a real socket). For `SubscriptionBounded`, `Room` carries the
  count from the moment it was read: only the run thread appends, so
  `Len(subscribed) + Len(buffer) <= MaxMarkets` survives every other thread.
  `ImagesActivate`: `ImageInv` says that every market a stream carries, and that has not
  started, is subscribed or awaited (`Found`). `PushFinds` takes it from one to the other,
  and a pop removes only what has started.
* `lead`. `SocketsExclusive`: `Lead` orders the batch in hand after the clock, after every
  recorded key and so after the batch being cleaned (`ClosingHolds`): hence the half-made
  entry of `CacheKey` is never the one clean_up_markets uses. `Lowered` adds the flags
  known to be down. `NoneOrphaned`: `OrderInv` says that `subscribed` and the buffer
  rise, that what is subscribed precedes the batch in hand, and that the markets of a
  record are not above its key; `BatchInv` that every market subscribed is in a recorded
  batch whose last market is still to come and whose socket is up. A batch is found by
  its last market's id alone, and these are what makes that market come up.
  `ReadsConnected` and `ReadsUnmixed`: `LateInv` says that a raised flag stands for a live
  socket, that a reader at the read of a lowered one has not looked since, that half a
  document of an old stream lies only where it has not looked since, and that nothing lies
  on the socket about to be destroyed if it has.
* `lead` and `pass`. `ReaderInv` says that a reader past the flag check of a socket is
  past none that clean_up_markets may destroy, and that its bytes are of the stream
  the socket now has. `ServeInv` (which markets a
  socket can carry documents of), `RecordInv` and `BooksInv` (an image or an update in
  hand is of a market still recorded, and the books of one that had its image are
  there) give `UpdatesHaveBooks` and `LiveHasBooks`.
* `LifecycleImplemented`: with `lead` and `pass`, every step of the three threads is a
  step of `MarketLifecycle` under the refinement mapping or none. `ApartInv` says that a
  market is in one record, once, and that records are cleared from end to end, `LaunchInv` says a market's activation is its
  first; `LifeInv` conjoins all of the above. The theorem states `ImplementsLifecycle`
  itself, the property the run checks.

### MarketGenerator

For any catalogue, period, span and length of a request, with any timing:

* `GeneratorTyped`: the types, without the bound `TypeOK` has on the length of the queue.
* `NothingTooSoon` (`AfterGeneration`): run never reads the front of an empty queue, though
  it reads without the lock. `SessionInv`: the session is numbered when somebody can see it.
* `SessionKeptUp`: until its hour is over, the order stream is at most one session behind
  (`OrderSessionKept`; `RenewInv` bounds how far the two hourly threads drift apart).
  Stated for `now < owake`, because `OrderSessionRecent`, which the run checks, is false
  for some constants in the very beat the hour ends: TLC finds it with requests that
  take no time and an hour of one beat. That is an artefact of the beats, two
  threads due in the same one, and no statement about the code.
* `MarketsInOrder` (`HandedInOrder`): `LineInv` puts what was handed over, what is queued and
  what the request in hand will add in one line, by start (a repeat is one that run will drop);
  `ReachInv` says how far into the future a generation has looked, so what two
  generations both list is dropped when the second lists it.

run pops at most one market in a `Cycle` of nap, subscription and sleep, and nothing in
the code keeps a catalogue from asking for more: then markets may still be queued at the next
generation, and some that were listed in time are dropped. `KeepsUp` is the
hypothesis that it does not: a cycle takes a minute at most, and whenever a
generation begins, run can pop every market that may be too late already (`Soon`),
and one more, a cycle each, within a minute. Markets further ahead are not limited in
number beyond that: each is counted when it comes up.

* The inductive invariant is `UpInv`. `TurnInv` gives every place in the queue its turn, a
  cycle after the place before it, and says it comes in time for the market there
  (`Latest`) or within a minute of its listing; it says so of the places that only
  markets of `Soon` are in front of, since a later market's window is what run waits
  for, not the places before it. `DueInv` and `BusyInv` say where the three clocks may
  stand, `ListInv` that the queue is of one generation and empty before the next login.
* `QueueBounded` (`TypeOK`), `QueueEmptied` (`QueueDrains`) and `OnlyLateDropped`
  (`DropOnlyLate`) follow from it.
* `SessionRecent` (`OrderSessionRecent`, the last beat included): the stream
  is only opened while something is queued, and `ListInv` says that the generator then
  sleeps on, so that the stream's hour ends before the login after the next (`RecentInv`).
  `Period > 1` is needed, see above.
* `SmallCatalogueServed`: all four from an assumption on the constants alone, which says
  that run can pop the whole catalogue in a minute. The instance of the run meets it
  (three cycles of four beats in a minute of twelve), so `KeepsUp` is not empty.

### Framework and the pool

For any markets, strategies and threads; any finite set of threads and any number of
jobs.

* `FrameworkTypeCorrect`. `BooksOutliveLoops`: `LoopInv` adds the clock: in a loop over a
  market that is gone, `left < wait`, so the loop ends before the books go.
  `LateJobsStop`: `RunnersInv` and `LaunchedInv`: a job's market has been live already, a
  market goes live once, and is live only with its books; so one that was sorted
  without books is never found live. `HandedOnce` (`EachAllowedOnce`): `OnceInv` says that
  the job of a market and a strategy is in one place of the queue or the pool.
* `PoolTypeCorrect`. `NobodyOversleeps`: `NoneOversleeps` speaks of threads asleep, but one
  about to sleep (at `"test"`) needs its wake-up on the way as well: `AwakeInv` is the
  count for both. `PopFound` and `CheckFound` take one from each side of it, `Push` adds
  the pending notification, and `NotifyOne` turns that into a thread on its way, since
  with the mutex free (`MutexInv`) nobody is at `"test"`.
* `PoolImplemented`: each step of `ThreadPool` is a step of `JobPool` or a stutter. The
  step to justify is `Join`, which clears the queue: `DoneInv` says that a thread exits
  only with the queue empty, so once all have, nothing is cleared.

### TradedBook

`PriceLadderProofs` has the ladder: the band of a price and of a slot, that `GetIndex` of
a price on the ladder is its slot, and that prices rise with slots. For any prices:

* `BookTyped` (`TypeOK`), and no slot outside the book is read; `MaxTradedRight` (`MaxInv`:
  the stores of one update in their order).

With `OnLadder`, all traded prices are ladder prices below the highest (the run
`traded_book_top` shows what the highest does):

* `RangeRight`: `RangeInv`, of the two ends while an update is between its stores.
* `MaxReadRight`: `BookInv` ties a slot to the total of its price, `SlotInv` says which slot a
  read of `get_max_traded` may still be at, and totals only grow.
* `WalkBelowMax`: `WalkInv` carries `tot_prod <= max_price * tot_vol` through the walk with
  the term that was loaded for the product and not yet for the volume.
* `WalkSumsVolume` (`WalkVolume`): `VolumeInv` keeps, for what the walk has still to read
  (`Rest`) and what it has left behind (`Behind`), that the volume known when it began is no
  more than the sum so far and that of the rest, and the sum so far no more than that of
  the slots behind. The sums are of sets, defined by recursion: `SumExists` and `SumUnique`
  show that there is exactly one such function, by taking the smallest set without it.

### Trading

For any runners, any depth and any offers.

* `TradingTypeCorrect`: with `MapInv` (the two maps between ids and positions are each
  other's inverse), `ImageInv` (the image lists every runner once, and nothing happens
  before it) and `FaveInv`. So every position looked up is inside the books.
* `OrdersOffered` and `RepeatsMoved`, action properties: `TurnInv` says that what a turn
  has loaded so far is among the prices the order's runner showed in that turn.
* `TradesClosed` (five ticks apart where the ladder has five more): `TradeInv` says whose turn it is, an opening order or its closing one,
  and that the last order is the one the strategy remembers.

### Functions

* `MidnightRight`: for every year, month and day, from the first days of the months of
  two years (`Calendar`), which follow from the count of leap years.
* `RequestsRight`: however long the batch. The text is put together by a recursive
  function; `JoinsExist` shows that there is such a function and `ListedText` what its
  values are, both by taking the least number for which it fails (`LeastOf`).
* `LadderBuilt`: `BuildInv` says that the slots filled so far hold the ladder and that the
  price in hand is the next slot's, across the bands (`NextTick`). `NearestFound`: on a
  ladder so built, no slot is nearer to a price than the one `get_index` finds
  (`NearestSlot`).

### Only model-checked

Every invariant and every action property of a passing run is stated by a theorem, in the
case of `MarketGenerator` some with `KeepsUp`, in those of `Publisher` and `TradedBook` with the
assumptions section 3 names for the run. What is left to TLC:

* Liveness: `SubscribedIsCleared`, `EachStarts`, `StopEnds`, and the fairness half of
  `ImplementsPool`; the provers have no rules for fairness and ENABLED.
* The violation runs: a counterexample needs no proof.

## 5. Plan

The modules, runs and theorems planned are written. What would extend them:

1. Torn containers: `subscribed_` and `active_markets_` as the several words of a
   `std::deque`, written by one thread and read by another. The models take each call as
   atomic, which the code does not ensure.
2. A proof of liveness, when the provers can: `SubscribedIsCleared` first, with the time
   left to a batch's last market as its measure.

## 6. Not modelled

* The vendored libraries (fmt, spdlog, simdjson). They are third-party code and about
  96 % of the lines of the tree; hedg's own code is about 2700 lines.
* Sockets, TLS, HTTP, the text of requests other than placeOrders, logging, reading the
  configuration: input and output with no state the rest depends on. What a
  connection does to its user (connected, null, broken) is in `Trading` and `Publisher`.
* get_orders, add_new_market, update_market, recv_response, markets(), and the pool's
  stop(false), resize to fewer threads, pop and clear_queue: nothing calls them.
* ~Framework joins threads that loop for ever, so it never returns, and
  hedg never comes to the pool's destructor while jobs may wait: `StopEnds` is checked as what
  ctpl.h:54 promises of the pool, not as something hedg relies on. `hardware_concurrency()` returning 0 would give a pool without threads;
  `ThreadsAssumption` excludes it.
* get_min_traded, which nothing reads, returns a size that may be out of date.
* Torn containers and torn time strings (data races of the code): each access is
  atomic in the models, and what the order of accesses can do is covered.
* What a strategy other than the example decides.
