--------------------------- MODULE MarketGenerator ---------------------------
(***************************************************************************)
(* From the exchange's catalogue to run: generate logs in, lists the       *)
(* markets of the next hour into markets_ and sleeps an hour; Publisher's  *)
(* run polls the front of that queue and takes the markets whose off is    *)
(* near, and its order_subscribe renews the stream of orders every hour.   *)
(* Both authenticate with the session of the generator's last login.       *)
(*                                                                         *)
(* Time is counted in beats of five seconds, what run sleeps at least;     *)
(* what computes and does not wait takes none.  Times of day are compared  *)
(* in whole minutes, as time_diff_mins does on all but five evenings of a  *)
(* year (module Timing).  An answer that is not the expected document, or  *)
(* a failed send of order_subscribe, ends the program and is no behaviour  *)
(* of this module.                                                         *)
(***************************************************************************)
EXTENDS Integers, Sequences, FiniteSets, FiniteSetsExt

CONSTANTS
    Number,         \* how many markets the exchange opens, first to start first
    StartMinutes,   \* the minutes a market can start at
    Period,         \* minutes between two generations (time_span_)
    Span,           \* trade_span: minutes a market is to be traded
    MaxResults,     \* how many markets an answer holds at most (100 in the code)
    MaxAsk,         \* bound: beats a login, or a request, takes
    MaxSubscribe,   \* bound: beats it takes to subscribe, or to connect
    Horizon         \* bound: beats the clock runs

ASSUME ConstantsAssumption ==
    /\ StartMinutes \subseteq Nat
    /\ {Number, Period, Span, MaxResults, MaxAsk, MaxSubscribe, Horizon} \subseteq Nat

Beats == 12     \* in a minute
Nap == 2        \* ten seconds
Lead == 2       \* run asks for markets_within(2, 2 + time_span_)

Markets == 1 .. Number

VARIABLES
    now, start,                 \* the clock; market -> its minute
    gpc, gwake, from, answer,   \* generate: step, due time, request, answer left
    session,                    \* the login session_id_ is of, 0 before the first
    markets_,                   \* the queue, filled under mut_, drained without
    rpc, rwake, taken,          \* run: step, due time, the batch taken
    opc, owake, osession,       \* order_subscribe: step, due time, login used
    listed,                     \* market -> when it was last pushed
    handed,                     \* the hand-overs to run, in order
    dropped                     \* the markets popped late, with their listing

genVars == <<gpc, gwake, from, answer, session>>
runVars == <<rpc, rwake, taken>>
orderVars == <<opc, owake, osession>>
history == <<listed, handed, dropped>>
vars == <<now, start, genVars, markets_, runVars, orderVars, history>>

Typed ==
    /\ now \in 0 .. Horizon
    /\ start \in [Markets -> StartMinutes]
    /\ gpc \in {"asleep", "login", "asking", "pushing"}
    /\ gwake \in Nat /\ from \in Nat /\ session \in Nat
    /\ answer \in Seq(Markets)
    /\ markets_ \in Seq(Markets)
    /\ rpc \in {"waiting", "polling", "napping", "taking", "subscribing", "asleep"}
    /\ rwake \in Nat /\ taken \in Seq(Markets)
    /\ opc \in {"waiting", "connecting", "asleep"}
    /\ owake \in Nat /\ osession \in Nat
    /\ listed \in [Markets -> Nat]
    /\ handed \in Seq([market : Markets, at : Nat])
    /\ dropped \subseteq [market : Markets, listed : Nat]

\* The queue is never longer than the catalogue.
TypeOK == Typed /\ Len(markets_) <= Number

\* Markets are numbered as the exchange sorts them.
Init ==
    /\ now = 0
    /\ start \in {s \in [Markets -> StartMinutes] :
                     \A m, n \in Markets : m < n => s[m] <= s[n]}
    /\ gpc = "asleep" /\ gwake = 0 /\ from = 0 /\ answer = <<>> /\ session = 0
    /\ markets_ = <<>>
    /\ rpc = "waiting" /\ rwake = 0 /\ taken = <<>>
    /\ opc = "waiting" /\ owake = 0 /\ osession = 0
    /\ listed = [m \in Markets |-> 0] /\ handed = <<>> /\ dropped = {}

Minute(t) == t \div Beats
Diff(m) == start[m] - Minute(now)

-----------------------------------------------------------------------------
\* generate

Holding == gpc \in {"login", "asking", "pushing"}
GenAt(step) == gpc = step /\ now >= gwake

\* What a network request of generate takes.
Requested(step) == gpc' = step /\ gwake' \in now .. now + MaxAsk

\* The lock is taken and the login sent, ...
Login ==
    /\ GenAt("asleep") /\ Requested("login")
    /\ UNCHANGED <<now, start, from, answer, session, markets_, runVars, orderVars, history>>

\* ... then the request for the markets; its window begins now.
Ask ==
    /\ GenAt("login") /\ Requested("asking")
    /\ session' = session + 1
    /\ from' = now
    /\ UNCHANGED <<now, start, answer, markets_, runVars, orderVars, history>>

to(t) == t + Period * Beats

Listable(m) == from <= start[m] * Beats /\ start[m] * Beats <= to(from)

\* The first of them; the others are not asked for again.
Results ==
    {m \in Markets : Listable(m)
        /\ Cardinality({n \in Markets : Listable(n) /\ n < m}) < MaxResults}

\* The one list of a set of markets in the order they start.
FirstToStart(S) ==
    {s \in [1 .. Cardinality(S) -> S] : \A i, j \in DOMAIN s : i < j => s[i] < s[j]}

Answered ==
    /\ GenAt("asking")
    /\ gpc' = "pushing"
    /\ answer' \in FirstToStart(Results)
    /\ UNCHANGED <<now, start, gwake, from, session, markets_, runVars, orderVars, history>>

calc_time_Beats == Period
calc_time == Period * Beats

Sleep ==
    /\ gpc' = "asleep"
    /\ gwake' = now + calc_time
    /\ UNCHANGED <<now, start, from, answer, session, markets_, runVars, orderVars, history>>

\* A network error is logged and slept on like an answer.
AskFailed == (GenAt("login") \/ GenAt("asking")) /\ Sleep

Push ==
    /\ GenAt("pushing") /\ answer # <<>>
    /\ markets_' = Append(markets_, Head(answer))
    /\ answer' = Tail(answer)
    /\ listed' = [listed EXCEPT ![Head(answer)] = now]
    /\ UNCHANGED <<now, start, gpc, gwake, from, session, runVars, orderVars, handed, dropped>>

Pushed == GenAt("pushing") /\ answer = <<>> /\ Sleep

GenStep == Login \/ Ask \/ Answered \/ AskFailed \/ Push \/ Pushed

-----------------------------------------------------------------------------
\* run: poll_within, markets_within, try_subscribe

RunAt(step) == rpc = step /\ UNCHANGED <<now, start, genVars, orderVars, listed>>
Due == now >= rwake

InWindow_Inner(m) == Lead < Diff(m) /\ Diff(m) <= Lead + Span
InWindow(m) == Lead <= Diff(m) /\ Diff(m) <= Lead + Span
TooLate(m) == Diff(m) < Lead

\* wait_for_gen: the lock is free again before the queue is read.
Generated_Unlocked == ~Holding
Generated == ~Holding /\ markets_ # <<>>

WaitForGen ==
    /\ RunAt("waiting")
    /\ Generated
    /\ rpc' = "polling"
    /\ UNCHANGED <<markets_, rwake, taken, handed, dropped>>

PollFound ==
    /\ RunAt("polling")
    /\ InWindow(Head(markets_))
    /\ rpc' = "taking"
    /\ UNCHANGED <<markets_, rwake, taken, handed, dropped>>

TakeNap == rpc' = "napping" /\ rwake' = now + Nap /\ UNCHANGED <<taken, handed>>

Popped_Not(queue) == queue
Popped(queue) == Tail(queue)

PollLate ==
    /\ RunAt("polling")
    /\ ~InWindow(Head(markets_)) /\ TooLate(Head(markets_))
    /\ markets_' = Popped(markets_)
    /\ dropped' = dropped \cup {[market |-> Head(markets_),
                                 listed |-> listed[Head(markets_)]]}
    /\ TakeNap

PollEarly ==
    /\ RunAt("polling")
    /\ ~InWindow(Head(markets_)) /\ ~TooLate(Head(markets_))
    /\ TakeNap
    /\ UNCHANGED <<markets_, dropped>>

Napped ==
    /\ RunAt("napping") /\ Due
    /\ rpc' = "taking"
    /\ UNCHANGED <<markets_, rwake, taken, handed, dropped>>

Takeable == markets_ # <<>> /\ InWindow(Head(markets_))

Take ==
    /\ RunAt("taking") /\ Takeable
    /\ taken' = Append(taken, Head(markets_))
    /\ handed' = Append(handed, [market |-> Head(markets_), at |-> now])
    /\ markets_' = Tail(markets_)
    /\ UNCHANGED <<rpc, rwake, dropped>>

Taken ==
    /\ RunAt("taking") /\ ~Takeable
    /\ rpc' = "subscribing"
    /\ rwake' \in now .. now + MaxSubscribe
    /\ UNCHANGED <<markets_, taken, handed, dropped>>

Subscribed ==
    /\ RunAt("subscribing") /\ Due
    /\ rpc' = "asleep" /\ rwake' = now + 1
    /\ taken' = <<>>
    /\ UNCHANGED <<markets_, handed, dropped>>

Awake ==
    /\ RunAt("asleep") /\ Due
    /\ rpc' = "waiting"
    /\ UNCHANGED <<markets_, rwake, taken, handed, dropped>>

RunStep ==
    \/ WaitForGen \/ PollFound \/ PollLate \/ PollEarly \/ Napped
    \/ Take \/ Taken \/ Subscribed \/ Awake

-----------------------------------------------------------------------------
\* order_subscribe

OrderAt(step) ==
    /\ opc = step /\ now >= owake
    /\ UNCHANGED <<now, start, genVars, markets_, runVars, history>>

\* The old stream is closed and a new one opened.
OrderConnect ==
    /\ OrderAt("waiting") /\ Generated
    /\ opc' = "connecting"
    /\ owake' \in now .. now + MaxSubscribe
    /\ UNCHANGED osession

\* new_streamer failed: the loop begins again.
OrderRefused ==
    /\ OrderAt("connecting")
    /\ opc' = "waiting"
    /\ UNCHANGED <<owake, osession>>

Renewal_Late == 2 * Period * Beats
Renewal == Period * Beats

OrderSubscribe ==
    /\ OrderAt("connecting")
    /\ osession' = session
    /\ opc' = "asleep" /\ owake' = now + Renewal

OrderAwake ==
    /\ OrderAt("asleep")
    /\ opc' = "waiting"
    /\ UNCHANGED <<owake, osession>>

OrderStep == OrderConnect \/ OrderRefused \/ OrderSubscribe \/ OrderAwake

-----------------------------------------------------------------------------
\* When all three threads wait, the clock moves on to the first due time.
DueTimes ==
    {gwake} \cup {t \in {rwake} : rpc # "waiting"} \cup {t \in {owake} : opc # "waiting"}

Pass ==
    /\ gpc # "pushing"
    /\ rpc \in {"waiting", "napping", "subscribing", "asleep"}
    /\ "waiting" \in {rpc, opc} => ~Generated
    /\ \A t \in DueTimes : now < t
    /\ Min(DueTimes) <= Horizon
    /\ now' = Min(DueTimes)
    /\ UNCHANGED <<start, genVars, markets_, runVars, orderVars, history>>

Next == GenStep \/ RunStep \/ OrderStep \/ Pass

Spec == Init /\ [][Next]_vars

-----------------------------------------------------------------------------
\* run is handed every market at most once and the next to start first, though
\* the windows of two generations may share their border and the queue is
\* pushed to and popped from at the same time.
HandedInOrder ==
    \A i, j \in 1 .. Len(handed) :
        i < j => handed[i].market < handed[j].market

\* With two markets in front of it at most, only a market listed with no more
\* than Lead minutes to its off is passed over as too late: run's naps and the
\* subscription of the others do not make it miss the window.  (Each market
\* popped late costs a nap and a sleep: many of them would.)
DropOnlyLate ==
    \A d \in dropped : start[d.market] <= Minute(d.listed) + Lead

\* No market stays in the queue a minute past its off, in the way of others.
QueueDrains ==
    \A i \in 1 .. Len(markets_) : now < (start[markets_[i]] + 1) * Beats

\* Nothing is done before the generator has done its part: run reads the front
\* of the queue outside the lock, and there is one; nobody authenticates with
\* the empty session.
AfterGeneration ==
    /\ rpc = "polling" => markets_ # <<>>
    /\ taken # <<>> => session # 0
    /\ opc = "asleep" => osession # 0

\* The stream of orders keeps up with the logins: two threads that sleep an hour
\* each, and slip against each other, leave it one session behind at most.
OrderSessionRecent == opc = "asleep" => osession + 1 >= session
=============================================================================
