----------------------------- MODULE Framework -----------------------------
(***************************************************************************)
(* From a market gone live to the strategies that trade it: start hands    *)
(* every active market to every strategy that allows it, as a job of the   *)
(* thread pool; a job runs until it finds its market inactive.             *)
(*                                                                         *)
(* The market data side is MarketLifecycle, which Publisher implements;    *)
(* here its steps also write the maps of Market_Handler that strategies    *)
(* read.  Clear is the erasure of the market from `active`.  The pool is   *)
(* JobPool, which ThreadPool implements.                                   *)
(* Time is counted in periods of ten seconds.  A strategy is the pattern   *)
(* the README recommends: sort the runners, then loop while is_active.     *)
(***************************************************************************)
EXTENDS Integers, Sequences, FiniteSets, SequencesExt

CONSTANTS
    Markets, Capacity,
    NumStrategies,  \* strats.size()
    Allowed,        \* the pairs <<i, m>>: strategy i accepts the country and event of m
    Threads,        \* of the pool
    NoMarket,       \* the absence of a market
    MaxLoop         \* periods one turn of a strategy's loop takes at most

Strategies == 1 .. NumStrategies

ASSUME StrategiesAssumption == NumStrategies \in Nat
ASSUME AllowedAssumption == Allowed \subseteq Strategies \X Markets
ASSUME NoMarketAssumption == NoMarket \notin Markets

VARIABLES
    phase, live, launched,  \* the lifecycle
    entry,          \* the markets with an entry in `active`
    book,           \* market -> its entry in market_book: "none", "full", "empty"
    wait,           \* market -> periods clean_up_markets still sleeps on it
    markets,        \* the queue of active markets
    new_market, i,  \* start: the market popped, the next strategy to consider
    q,              \* the pool's jobs
    job, step, left,\* thread -> its job, its next step, periods left to it
    runners,        \* thread -> the entry its strategy sorted the runners of
    given           \* the pairs ever pushed (for the properties only)

lifecycle == <<phase, live, launched>>
dispatcher == <<new_market, i, q, given>>
pool == <<job, step, left, runners>>
vars == <<lifecycle, entry, book, wait, markets, dispatcher, pool>>

LC == INSTANCE MarketLifecycle

Jobs == Strategies \X Markets
NoJob == <<0, NoMarket>>

Pool == INSTANCE JobPool WITH queue <- q, running <- job

Nap == 1        \* 10 s between the flag down and the erasures
Linger == 3     \* 30 s from erasing `active` to erasing the books

ASSUME MaxLoopAssumption == MaxLoop \in 0 .. Linger - 1

TypeOK ==
    /\ phase \in [Markets -> {"listed", "subscribed", "closed", "gone"}]
    /\ live \subseteq Markets /\ launched \subseteq Markets
    /\ entry \subseteq Markets
    /\ book \in [Markets -> {"none", "full", "empty"}]
    /\ wait \in [Markets -> 0 .. Linger]
    /\ markets \in Seq(Markets)
    /\ new_market \in Markets \cup {NoMarket} /\ i \in 1 .. NumStrategies + 1
    /\ q \in Seq(Jobs) /\ given \subseteq Jobs
    /\ job \in [Threads -> Jobs \cup {NoJob}]
    /\ step \in [Threads -> {"idle", "sort", "find", "load", "loop"}]
    /\ left \in [Threads -> 0 .. MaxLoop]
    /\ runners \in [Threads -> {"none", "full", "empty"}]

Init ==
    /\ LC!Init
    /\ entry = {} /\ book = [m \in Markets |-> "none"]
    /\ wait = [m \in Markets |-> 0]
    /\ markets = <<>> /\ new_market = NoMarket /\ i = NumStrategies + 1
    /\ q = <<>> /\ given = {}
    /\ job = [t \in Threads |-> NoJob]
    /\ step = [t \in Threads |-> "idle"]
    /\ left = [t \in Threads |-> 0]
    /\ runners = [t \in Threads |-> "none"]

-----------------------------------------------------------------------------
\* The market data side.

Subscribe(m) ==
    /\ LC!Admit(m)
    /\ UNCHANGED <<entry, book, wait, markets, dispatcher, pool>>

\* The image: add_runner for every runner, then activate_market.
Activate(m) ==
    /\ LC!GoLive(m)
    /\ book' = [book EXCEPT ![m] = "full"]
    /\ entry' = entry \cup {m}
    /\ markets' = Append(markets, m)
    /\ UNCHANGED <<wait, dispatcher, pool>>

Deactivate(m) ==
    /\ LC!Close(m)
    /\ entry' = entry \cup {m}
    /\ wait' = [wait EXCEPT ![m] = Nap]
    /\ UNCHANGED <<book, markets, dispatcher, pool>>

LingerOn_Not == 0
LingerOn_Seconds == 30
LingerOn == Linger

\* clear_market: the two erasures and the sleep between them.
EraseActive(m) ==
    /\ wait[m] = 0
    /\ LC!Clear(m)
    /\ entry' = entry \ {m}
    /\ wait' = [wait EXCEPT ![m] = LingerOn]
    /\ UNCHANGED <<book, markets, dispatcher, pool>>

EraseBooks(m) ==
    /\ phase[m] = "gone" /\ wait[m] = 0 /\ book[m] = "full"
    /\ book' = [book EXCEPT ![m] = "none"]
    /\ UNCHANGED <<lifecycle, entry, wait, markets, dispatcher, pool>>

MarketStep(m) ==
    \/ Subscribe(m) \/ Activate(m) \/ Deactivate(m)
    \/ EraseActive(m) \/ EraseBooks(m)

-----------------------------------------------------------------------------
\* start: the main thread.

Considered == i <= NumStrategies

PopMarket ==
    /\ ~Considered /\ markets # <<>>
    /\ new_market' = Head(markets)
    /\ markets' = Tail(markets)
    /\ i' = 1
    /\ UNCHANGED <<lifecycle, entry, book, wait, q, given, pool>>

PushJob ==
    /\ Considered /\ <<i, new_market>> \in Allowed
    /\ Pool!Submit(<<i, new_market>>)
    /\ given' = given \cup {<<i, new_market>>}
    /\ i' = i + 1
    /\ UNCHANGED <<lifecycle, entry, book, wait, markets, new_market, step, left, runners>>

NextAfterRefusal_Last == NumStrategies + 1
NextAfterRefusal == i + 1

Refuse ==
    /\ Considered /\ <<i, new_market>> \notin Allowed
    /\ i' = NextAfterRefusal
    /\ UNCHANGED <<lifecycle, entry, book, wait, markets, new_market, q, given, pool>>

DispatchStep == PopMarket \/ PushJob \/ Refuse

-----------------------------------------------------------------------------
\* A thread of the pool, and the strategy it runs.

At(t, s) == step[t] = s /\ UNCHANGED <<lifecycle, wait, markets, new_market, i, given>>
Market(t) == job[t][2]

\* The job clones the strategy and connects its client.
StartJob(t) ==
    /\ At(t, "idle")
    /\ Pool!Start(t)
    /\ step' = [step EXCEPT ![t] = "sort"]
    /\ UNCHANGED <<entry, book, left, runners>>

\* get_runner_idx_sorted_by_price: operator[] makes the entry it does not find.
SortRunners(t) ==
    /\ At(t, "sort")
    /\ book' = [book EXCEPT ![Market(t)] = IF @ = "none" THEN "empty" ELSE @]
    /\ runners' = [runners EXCEPT ![t] = book'[Market(t)]]
    /\ step' = [step EXCEPT ![t] = "find"]
    /\ UNCHANGED <<entry, q, job, left>>

Stop(t) ==
    /\ step' = [step EXCEPT ![t] = "idle"]
    /\ Pool!Finish(t)
    /\ runners' = [runners EXCEPT ![t] = "none"]
    /\ UNCHANGED left

\* is_active looks the market up twice, with find and with operator[].
Find(t) ==
    /\ At(t, "find")
    /\ IF Market(t) \in entry
       THEN step' = [step EXCEPT ![t] = "load"] /\ UNCHANGED <<q, job, left, runners>>
       ELSE Stop(t)
    /\ UNCHANGED <<entry, book>>

Active_Entry(m) == m \in entry'
Active_Launched(m) == m \in launched
Active(m) == m \in live

Load(t) ==
    /\ At(t, "load")
    /\ entry' = entry \cup {Market(t)}
    /\ IF Active(Market(t))
       THEN /\ step' = [step EXCEPT ![t] = "loop"]
            /\ left' = [left EXCEPT ![t] = MaxLoop]
            /\ UNCHANGED <<q, job, runners>>
       ELSE Stop(t)
    /\ UNCHANGED book

\* The body reads the books of the market all along, then loops.
Loop(t) ==
    /\ At(t, "loop")
    /\ step' = [step EXCEPT ![t] = "find"]
    /\ left' = [left EXCEPT ![t] = 0]
    /\ UNCHANGED <<entry, book, q, job, runners>>

ThreadStep(t) ==
    StartJob(t) \/ SortRunners(t) \/ Find(t) \/ Load(t) \/ Loop(t)

-----------------------------------------------------------------------------
Less(n) == IF n > 0 THEN n - 1 ELSE 0

\* Ten seconds pass; no turn of a loop takes longer than it may.
Tick ==
    /\ \A t \in Threads : step[t] = "loop" => left[t] > 0
    /\ wait' = [m \in Markets |-> Less(wait[m])]
    /\ left' = [t \in Threads |-> Less(left[t])]
    /\ UNCHANGED <<lifecycle, entry, book, markets, dispatcher, job, step, runners>>

Next ==
    \/ \E m \in Markets : MarketStep(m)
    \/ DispatchStep
    \/ \E t \in Threads : ThreadStep(t)
    \/ Tick

\* Threads are scheduled, time passes, and with it every market closes and is
\* cleared.
Fairness ==
    /\ WF_vars(DispatchStep)
    /\ \A t \in Threads : WF_vars(ThreadStep(t))
    /\ WF_vars(Tick)
    /\ \A m \in Markets : WF_vars(Deactivate(m)) /\ WF_vars(EraseActive(m))

Spec == Init /\ [][Next]_vars /\ Fairness

-----------------------------------------------------------------------------
\* A turn of a strategy's loop that began while its market was active has the
\* market's books to the end: thirty seconds are kept between the erasures.
LoopHasBooks == \A t \in Threads : step[t] = "loop" => book[Market(t)] = "full"

\* A job that got its thread after its market was cleared finds no runners to
\* sort, and never reaches the loop that would use the first of them.
LoopHasRunners == \A t \in Threads : step[t] = "loop" => runners[t] = "full"

\* Every market that went live is on its way to, or has been given to, every
\* strategy that allows it, and to each of them once.
EachAllowedOnce ==
    /\ \A m \in launched \ Range(markets), s \in Strategies :
          <<s, m>> \in Allowed /\ (m = new_market => s < i) => <<s, m>> \in given
    /\ \A j \in Jobs :
          Cardinality({n \in 1 .. Len(q) : q[n] = j})
              + Cardinality({t \in Threads : job[t] = j}) <= 1

\* However many strategies and markets wait for a thread, each gets its turn,
\* since threads are freed as markets close.
EachStarts == \A j \in Jobs : j \in Range(q) ~> j \notin Range(q)

\* A market whose books and flag have been removed stays removed.
Removed(m) == phase[m] = "gone" /\ book[m] = "none" /\ m \notin entry
RemovedFinally == [][\A m \in Markets : Removed(m) => Removed(m)']_vars
=============================================================================
