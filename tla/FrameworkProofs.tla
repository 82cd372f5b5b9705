--------------------------- MODULE FrameworkProofs ---------------------------
(***************************************************************************)
(* Theorems about Framework for any number of markets, of strategies and   *)
(* of threads.                                                             *)
(***************************************************************************)
EXTENDS Framework, SequenceTheorems, FiniteSetTheorems, TLAPS

\* A thread has a job when it is not idle.
JobInv == \A t \in Threads : job[t] = NoJob <=> step[t] = "idle"

\* What is on its way to a strategy has been live.
LaunchedInv ==
    /\ live \subseteq launched
    /\ \A n \in 1 .. Len(markets) : markets[n] \in launched
    /\ Considered => new_market \in launched
    /\ \A n \in 1 .. Len(q) : q[n] \in Jobs /\ q[n][2] \in launched
    /\ \A t \in Threads : step[t] # "idle" => Market(t) \in launched

\* A live market is subscribed or closing, and has its books.
LiveInv == \A m \in live : phase[m] \in {"subscribed", "closed"} /\ book[m] = "full"

\* A turn of a loop has the books and runners; once its market is cleared, it
\* ends before the books are erased.
LoopInv ==
    \A t \in Threads : step[t] = "loop" =>
        /\ book[Market(t)] = "full"
        /\ runners[t] = "full"
        /\ phase[Market(t)] = "gone" => left[t] < wait[Market(t)]

\* A strategy that sorted nothing does not find its market live later on: it was
\* live already when the job was made, and a market goes live once.
RunnersInv ==
    \A t \in Threads :
        step[t] \in {"find", "load"} /\ Market(t) \in live => runners[t] = "full"

Inv == TypeOK /\ JobInv /\ LaunchedInv /\ LiveInv /\ LoopInv /\ RunnersInv

-----------------------------------------------------------------------------

USE StrategiesAssumption, AllowedAssumption, NoMarketAssumption, MaxLoopAssumption
    DEF lifecycle, dispatcher, pool, Strategies, Jobs, NoJob, Nap, Linger, Considered,
        At, Market

\* The initial state satisfies every part of the invariant.
LEMMA InitInv == Init => Inv
<1> SUFFICES ASSUME Init PROVE Inv
  OBVIOUS
<1> USE DEF Init, LC!Init
<1>1. TypeOK
  <2>1. markets \in Seq(Markets) /\ q \in Seq(Jobs)
    BY SMT
  <2> QED BY <2>1 DEF TypeOK
<1>2. JobInv /\ LaunchedInv
  BY DEF JobInv, LaunchedInv
<1>3. LiveInv /\ LoopInv /\ RunnersInv
  BY DEF LiveInv, LoopInv, RunnersInv
<1> QED BY <1>1, <1>2, <1>3 DEF Inv

\* A thread that is not idle has the market of a job.
LEMMA MarketTyped ==
    ASSUME TypeOK, JobInv, NEW t \in Threads, step[t] # "idle"
    PROVE  Market(t) \in Markets
<1>1. job[t] # NoJob
  BY DEF JobInv
<1>2. job[t] \in Jobs
  BY <1>1 DEF TypeOK
<1> QED BY <1>2

\* A job that ends leaves its thread idle, and touches what only its thread has.
LEMMA StopInv ==
    ASSUME Inv, NEW t \in Threads, Stop(t), step[t] # "idle",
           UNCHANGED <<lifecycle, book, wait, markets, new_market, i, given>>,
           entry' \subseteq Markets
    PROVE  Inv'
<1> USE DEF Inv, Stop, Pool!Finish
<1>1. TypeOK'
  BY DEF TypeOK
<1>2. JobInv' /\ LaunchedInv'
  BY DEF TypeOK, JobInv, LaunchedInv
<1>3. LiveInv' /\ RunnersInv'
  BY DEF TypeOK, JobInv, LiveInv, RunnersInv
<1>4. LoopInv'
  BY DEF TypeOK, JobInv, LoopInv
<1> QED BY <1>1, <1>2, <1>3, <1>4

\* Every step preserves the invariant.
LEMMA NextInv == Inv /\ [Next]_vars => Inv'
<1> SUFFICES ASSUME Inv, [Next]_vars PROVE Inv'
  OBVIOUS
<1> USE DEF Inv
<1>1. ASSUME NEW m \in Markets, Subscribe(m) PROVE Inv'
  <2>1. TypeOK'
    BY <1>1 DEF Subscribe, LC!Admit, TypeOK
  <2>2. JobInv' /\ LaunchedInv'
    BY <1>1 DEF Subscribe, LC!Admit, TypeOK, JobInv, LaunchedInv
  <2>3. LiveInv' /\ RunnersInv'
    BY <1>1 DEF Subscribe, LC!Admit, TypeOK, JobInv, LaunchedInv, LiveInv, RunnersInv
  <2>4. LoopInv'
    BY <1>1 DEF Subscribe, LC!Admit, TypeOK, JobInv, LoopInv
  <2> QED BY <2>1, <2>2, <2>3, <2>4
<1>2. ASSUME NEW m \in Markets, Activate(m) PROVE Inv'
  <2>1. TypeOK'
    BY <1>2 DEF Activate, LC!GoLive, TypeOK
  <2>2. JobInv' /\ LaunchedInv'
    BY <1>2 DEF Activate, LC!GoLive, TypeOK, JobInv, LaunchedInv
  <2>3. LiveInv' /\ RunnersInv'
    BY <1>2 DEF Activate, LC!GoLive, TypeOK, JobInv, LaunchedInv, LiveInv, RunnersInv
  <2>4. LoopInv'
    BY <1>2 DEF Activate, LC!GoLive, TypeOK, JobInv, LoopInv
  <2> QED BY <2>1, <2>2, <2>3, <2>4
<1>3. ASSUME NEW m \in Markets, Deactivate(m) PROVE Inv'
  <2>1. TypeOK'
    BY <1>3 DEF Deactivate, LC!Close, TypeOK
  <2>2. JobInv' /\ LaunchedInv'
    BY <1>3 DEF Deactivate, LC!Close, TypeOK, JobInv, LaunchedInv
  <2>3. LiveInv' /\ RunnersInv'
    BY <1>3 DEF Deactivate, LC!Close, TypeOK, JobInv, LaunchedInv, LiveInv, RunnersInv
  <2>4. LoopInv'
    BY <1>3 DEF Deactivate, LC!Close, TypeOK, JobInv, LoopInv
  <2> QED BY <2>1, <2>2, <2>3, <2>4
<1>4. ASSUME NEW m \in Markets, EraseActive(m) PROVE Inv'
  <2>1. TypeOK'
    BY <1>4 DEF EraseActive, LC!Clear, LingerOn, TypeOK
  <2>2. JobInv' /\ LaunchedInv'
    BY <1>4 DEF EraseActive, LC!Clear, LingerOn, TypeOK, JobInv, LaunchedInv
  <2>3. LiveInv' /\ RunnersInv'
    BY <1>4 DEF EraseActive, LC!Clear, LingerOn, TypeOK, JobInv, LaunchedInv, LiveInv, RunnersInv
  <2>4. LoopInv'
    BY <1>4 DEF EraseActive, LC!Clear, LingerOn, TypeOK, JobInv, LoopInv
  <2> QED BY <2>1, <2>2, <2>3, <2>4
<1>5. ASSUME NEW m \in Markets, EraseBooks(m) PROVE Inv'
  <2>1. TypeOK'
    BY <1>5 DEF EraseBooks, TypeOK
  <2>2. JobInv' /\ LaunchedInv'
    BY <1>5 DEF EraseBooks, TypeOK, JobInv, LaunchedInv
  <2>3. LiveInv' /\ RunnersInv'
    BY <1>5 DEF EraseBooks, TypeOK, JobInv, LaunchedInv, LiveInv, RunnersInv
  <2>4. LoopInv'
    BY <1>5 DEF EraseBooks, TypeOK, JobInv, LoopInv
  <2> QED BY <2>1, <2>2, <2>3, <2>4
<1>6. CASE PopMarket
  <2>1. TypeOK'
    BY <1>6 DEF PopMarket, TypeOK
  <2>2. JobInv' /\ LaunchedInv'
    BY <1>6 DEF PopMarket, TypeOK, JobInv, LaunchedInv
  <2>3. LiveInv' /\ RunnersInv'
    BY <1>6 DEF PopMarket, TypeOK, JobInv, LaunchedInv, LiveInv, RunnersInv
  <2>4. LoopInv'
    BY <1>6 DEF PopMarket, TypeOK, JobInv, LoopInv
  <2> QED BY <2>1, <2>2, <2>3, <2>4
<1>7. CASE PushJob
  <2>1. TypeOK'
    BY <1>7 DEF PushJob, Pool!Submit, TypeOK
  <2>2. JobInv' /\ LaunchedInv'
    BY <1>7 DEF PushJob, Pool!Submit, TypeOK, JobInv, LaunchedInv
  <2>3. LiveInv' /\ RunnersInv'
    BY <1>7 DEF PushJob, Pool!Submit, TypeOK, JobInv, LaunchedInv, LiveInv, RunnersInv
  <2>4. LoopInv'
    BY <1>7 DEF PushJob, Pool!Submit, TypeOK, JobInv, LoopInv
  <2> QED BY <2>1, <2>2, <2>3, <2>4
<1>8. CASE Refuse
  <2>1. TypeOK'
    BY <1>8 DEF Refuse, NextAfterRefusal, TypeOK
  <2>2. JobInv' /\ LaunchedInv'
    BY <1>8 DEF Refuse, NextAfterRefusal, TypeOK, JobInv, LaunchedInv
  <2>3. LiveInv' /\ RunnersInv'
    BY <1>8 DEF Refuse, NextAfterRefusal, TypeOK, JobInv, LaunchedInv, LiveInv, RunnersInv
  <2>4. LoopInv'
    BY <1>8 DEF Refuse, NextAfterRefusal, TypeOK, JobInv, LoopInv
  <2> QED BY <2>1, <2>2, <2>3, <2>4
<1>9. ASSUME NEW t \in Threads, StartJob(t) PROVE Inv'
  <2>1. TypeOK'
    BY <1>9 DEF StartJob, Pool!Start, TypeOK
  <2>2. JobInv' /\ LaunchedInv'
    BY <1>9 DEF StartJob, Pool!Start, TypeOK, JobInv, LaunchedInv
  <2>3. LiveInv' /\ RunnersInv'
    BY <1>9 DEF StartJob, Pool!Start, TypeOK, JobInv, LaunchedInv, LiveInv, RunnersInv
  <2>4. LoopInv'
    BY <1>9 DEF StartJob, Pool!Start, TypeOK, JobInv, LoopInv
  <2> QED BY <2>1, <2>2, <2>3, <2>4
<1>10. ASSUME NEW t \in Threads, SortRunners(t) PROVE Inv'
  <2>1. TypeOK'
    BY <1>10, MarketTyped DEF SortRunners, TypeOK
  <2>2. JobInv' /\ LaunchedInv'
    BY <1>10 DEF SortRunners, TypeOK, JobInv, LaunchedInv
  <2>3. LiveInv' /\ RunnersInv'
    BY <1>10 DEF SortRunners, TypeOK, JobInv, LaunchedInv, LiveInv, RunnersInv
  <2>4. LoopInv'
    BY <1>10 DEF SortRunners, TypeOK, JobInv, LoopInv
  <2> QED BY <2>1, <2>2, <2>3, <2>4
<1>11. ASSUME NEW t \in Threads, Find(t) PROVE Inv'
  <2>1. CASE Market(t) \in entry
    <3>1. TypeOK'
      BY <1>11, <2>1 DEF Find, TypeOK
    <3>2. JobInv' /\ LaunchedInv'
      BY <1>11, <2>1 DEF Find, TypeOK, JobInv, LaunchedInv
    <3>3. LiveInv' /\ RunnersInv' /\ LoopInv'
      BY <1>11, <2>1 DEF Find, TypeOK, LiveInv, RunnersInv, LoopInv
    <3> QED BY <3>1, <3>2, <3>3
  <2>2. CASE Market(t) \notin entry
    <3>1. Stop(t)
      BY <1>11, <2>2 DEF Find
    <3>2. /\ UNCHANGED <<lifecycle, book, wait, markets, new_market, i, given>>
          /\ step[t] # "idle" /\ entry' \subseteq Markets
      BY <1>11 DEF Find, TypeOK
    <3> QED BY <3>1, <3>2, StopInv
  <2> QED BY <2>1, <2>2
<1>12. ASSUME NEW t \in Threads, Load(t) PROVE Inv'
  <2>1. Market(t) \in Markets
    BY <1>12, MarketTyped DEF Load
  <2>2. entry' \subseteq Markets
    BY <1>12, <2>1 DEF Load, TypeOK
  <2>3. CASE Active(Market(t))
    <3>1. /\ UNCHANGED <<lifecycle, book, wait, markets, new_market, i, given,
                        q, job, runners>>
          /\ step' = [step EXCEPT ![t] = "loop"]
          /\ left' = [left EXCEPT ![t] = MaxLoop]
      BY <1>12, <2>3 DEF Load
    <3>2. TypeOK'
      BY <2>2, <3>1 DEF TypeOK
    <3>3. JobInv' /\ LaunchedInv'
      BY <1>12, <3>1 DEF Load, TypeOK, JobInv, LaunchedInv
    <3>4. LiveInv' /\ RunnersInv'
      BY <3>1 DEF TypeOK, LiveInv, RunnersInv
    <3>5. LoopInv'
      <4>1. /\ book[Market(t)] = "full" /\ runners[t] = "full"
            /\ phase[Market(t)] # "gone"
        BY <1>12, <2>3 DEF Load, Active, LiveInv, RunnersInv
      <4> QED BY <3>1, <4>1 DEF TypeOK, LoopInv
    <3> QED BY <3>2, <3>3, <3>4, <3>5
  <2>4. CASE ~Active(Market(t))
    <3>1. Stop(t)
      BY <1>12, <2>4 DEF Load
    <3>2. /\ UNCHANGED <<lifecycle, book, wait, markets, new_market, i, given>>
          /\ step[t] # "idle"
      BY <1>12 DEF Load
    <3> QED BY <2>2, <3>1, <3>2, StopInv
  <2> QED BY <2>3, <2>4
<1>13. ASSUME NEW t \in Threads, Loop(t) PROVE Inv'
  <2>1. TypeOK'
    BY <1>13 DEF Loop, TypeOK
  <2>2. JobInv' /\ LaunchedInv'
    BY <1>13 DEF Loop, TypeOK, JobInv, LaunchedInv
  <2>3. LiveInv' /\ RunnersInv'
    BY <1>13 DEF Loop, TypeOK, JobInv, LaunchedInv, LiveInv, LoopInv, RunnersInv
  <2>4. LoopInv'
    BY <1>13 DEF Loop, TypeOK, JobInv, LoopInv
  <2> QED BY <2>1, <2>2, <2>3, <2>4
<1>14. CASE Tick
  <2>1. TypeOK'
    <3>1. \A n \in 0 .. Linger : Less(n) \in 0 .. Linger
      BY DEF Less
    <3>2. \A n \in 0 .. MaxLoop : Less(n) \in 0 .. MaxLoop
      BY DEF Less
    <3> QED BY <1>14, <3>1, <3>2 DEF Tick, TypeOK
  <2>2. JobInv' /\ LaunchedInv'
    BY <1>14 DEF Tick, TypeOK, JobInv, LaunchedInv
  <2>3. LiveInv' /\ RunnersInv'
    BY <1>14 DEF Tick, TypeOK, LiveInv, RunnersInv
  <2>4. LoopInv'
    <3>1. ASSUME NEW t \in Threads, step[t] = "loop"
          PROVE  /\ Market(t) \in Markets
                 /\ left'[t] = left[t] - 1
                 /\ wait[Market(t)] \in Nat /\ left[t] \in Nat /\ left[t] > 0
                 /\ wait[Market(t)] > 0 => wait'[Market(t)] = wait[Market(t)] - 1
      <4>1. Market(t) \in Markets
        BY <3>1, MarketTyped
      <4>2. left[t] \in Nat /\ wait[Market(t)] \in Nat
        <5>1. left[t] \in 0 .. MaxLoop
          BY DEF TypeOK
        <5>2. wait[Market(t)] \in 0 .. Linger
          BY <4>1, Zenon DEF TypeOK
        <5> QED BY <5>1, <5>2
      <4>3. left[t] > 0
        BY <1>14, <3>1 DEF Tick
      <4> QED BY <1>14, <4>1, <4>2, <4>3 DEF Tick, Less
    <3>2. UNCHANGED <<phase, book, job, step, runners>>
      BY <1>14 DEF Tick
    <3> QED BY <3>1, <3>2 DEF LoopInv
  <2> QED BY <2>1, <2>2, <2>3, <2>4
<1>15. CASE UNCHANGED vars
  BY <1>15 DEF vars, TypeOK, JobInv, LaunchedInv, LiveInv, LoopInv, RunnersInv
<1> QED
  BY <1>1, <1>2, <1>3, <1>4, <1>5, <1>6, <1>7, <1>8, <1>9, <1>10, <1>11, <1>12,
     <1>13, <1>14, <1>15
  DEF Next, MarketStep, DispatchStep, ThreadStep

\* The invariant holds in every state of every behaviour.
LEMMA AlwaysInv == Spec => []Inv
BY InitInv, NextInv, PTL DEF Spec

-----------------------------------------------------------------------------

\* Whatever waits, and however long, the maps, the queues and the jobs keep their
\* types.
THEOREM FrameworkTypeCorrect == Spec => []TypeOK
<1>1. Inv => TypeOK
  BY DEF Inv
<1> QED BY AlwaysInv, <1>1, PTL

\* A strategy in its loop has its market's books, however many markets, strategies
\* and threads there are, as long as no turn takes thirty seconds.
THEOREM BooksOutliveLoops == Spec => []LoopHasBooks
<1>1. Inv => LoopHasBooks
  BY DEF Inv, LoopInv, LoopHasBooks
<1> QED BY AlwaysInv, <1>1, PTL

\* A job that starts after its market was cleared never reaches its loop.
THEOREM LateJobsStop == Spec => []LoopHasRunners
<1>1. Inv => LoopHasRunners
  BY DEF Inv, LoopInv, LoopHasRunners
<1> QED BY AlwaysInv, <1>1, PTL

-----------------------------------------------------------------------------
(* Every strategy is handed a market once.                                 *)

Distinct(s) == \A n, k \in 1 .. Len(s) : s[n] = s[k] => n = k

\* The pairs start has considered: all of the markets popped before, and those
\* of the last one up to i.
Past(j) ==
    /\ j[2] \in launched \ Range(markets)
    /\ j[2] = new_market => j[1] < i

\* Pairs are handed out as they are considered, and only then; each is at one
\* place of the pool at most.
OnceInv ==
    /\ Distinct(markets)
    /\ new_market \in (launched \cup {NoMarket}) \ Range(markets)
    /\ \A j \in given : Past(j)
    /\ \A j \in Allowed : Past(j) => j \in given
    /\ Distinct(q)
    /\ \A n \in 1 .. Len(q) : q[n] \in given
    /\ \A t \in Threads : job[t] # NoJob =>
          /\ job[t] \in given
          /\ \A n \in 1 .. Len(q) : q[n] # job[t]
          /\ \A u \in Threads : job[u] = job[t] => u = t

LEMMA DistinctAppend ==
    ASSUME NEW S, NEW s \in Seq(S), NEW x \in S, Distinct(s), x \notin Range(s)
    PROVE  /\ Distinct(Append(s, x))
           /\ Range(Append(s, x)) = Range(s) \cup {x}
<1>1. /\ Len(s) \in Nat /\ DOMAIN s = 1 .. Len(s)
      /\ Len(Append(s, x)) = Len(s) + 1 /\ DOMAIN Append(s, x) = 1 .. (Len(s) + 1)
      /\ \A n \in 1 .. Len(s) : Append(s, x)[n] = s[n]
      /\ Append(s, x)[Len(s) + 1] = x
  BY AppendProperties, LenProperties
<1>2. \A n \in 1 .. (Len(s) + 1) : n \in 1 .. Len(s) \/ n = Len(s) + 1
  BY <1>1
<1>3. \A n \in 1 .. Len(s) : n \in 1 .. (Len(s) + 1) /\ s[n] # x
  BY <1>1 DEF Range
<1>4. Len(s) + 1 \in 1 .. (Len(s) + 1)
  BY <1>1
<1>5. Distinct(Append(s, x))
  BY <1>1, <1>2, <1>3 DEF Distinct
<1>6. Range(Append(s, x)) = Range(s) \cup {x}
  BY <1>1, <1>2, <1>3, <1>4 DEF Range
<1> QED BY <1>5, <1>6

LEMMA DistinctTail ==
    ASSUME NEW S, NEW s \in Seq(S), s # <<>>, Distinct(s)
    PROVE  /\ Distinct(Tail(s))
           /\ Range(Tail(s)) = Range(s) \ {Head(s)}
           /\ Head(s) \in Range(s)
<1>1. /\ Len(s) \in Nat \ {0} /\ DOMAIN s = 1 .. Len(s) /\ Head(s) = s[1]
      /\ Len(Tail(s)) = Len(s) - 1 /\ DOMAIN Tail(s) = 1 .. (Len(s) - 1)
      /\ \A n \in 1 .. (Len(s) - 1) : Tail(s)[n] = s[n + 1]
  BY HeadTailProperties, LenProperties, EmptySeq
<1>2. \A n \in 1 .. (Len(s) - 1) : n + 1 \in 1 .. Len(s) /\ n + 1 # 1
  BY <1>1
<1>3. \A n \in 1 .. Len(s) : n # 1 => n - 1 \in 1 .. (Len(s) - 1) /\ n - 1 + 1 = n
  BY <1>1
<1>4. 1 \in 1 .. Len(s)
  BY <1>1
<1>5. \A n, k \in 1 .. (Len(s) - 1) : n + 1 = k + 1 => n = k
  BY <1>1
<1>6. Distinct(Tail(s))
  BY <1>1, <1>2, <1>5 DEF Distinct
<1>7. Range(Tail(s)) = Range(s) \ {Head(s)}
  <2>1. ASSUME NEW n \in 1 .. (Len(s) - 1)
        PROVE  Tail(s)[n] \in Range(s) /\ Tail(s)[n] # Head(s)
    BY <1>1, <1>2, <1>4 DEF Distinct, Range
  <2>2. ASSUME NEW n \in 1 .. Len(s), s[n] # Head(s)
        PROVE  s[n] \in Range(Tail(s))
    <3>1. n - 1 \in 1 .. (Len(s) - 1) /\ s[n] = Tail(s)[n - 1]
      BY <1>1, <1>3, <2>2
    <3> QED BY <1>1, <3>1 DEF Range
  <2> QED BY <1>1, <2>1, <2>2 DEF Range
<1> QED BY <1>1, <1>4, <1>6, <1>7 DEF Range

\* A job moves between the queue and a thread as a whole.
LEMMA NextOnce == Inv /\ OnceInv /\ [Next]_vars => OnceInv'
<1> SUFFICES ASSUME Inv, OnceInv, [Next]_vars PROVE OnceInv'
  OBVIOUS
<1>0. /\ markets \in Seq(Markets) /\ q \in Seq(Jobs) /\ i \in Int
      /\ job \in [Threads -> Jobs \cup {NoJob}]
      /\ launched \subseteq Markets
      /\ \A j \in Allowed : j = <<j[1], j[2]>> /\ j[1] \in 1 .. NumStrategies /\ j[2] \in Markets
      /\ \A j \in given : j[1] \in Int
      /\ Range(markets) \subseteq launched
  <2>1. /\ markets \in Seq(Markets) /\ q \in Seq(Jobs) /\ i \in Int
        /\ job \in [Threads -> Jobs \cup {NoJob}]
        /\ launched \subseteq Markets /\ given \subseteq Jobs
    BY DEF Inv, TypeOK
  <2>2. Range(markets) \subseteq launched
    BY <2>1, LenProperties DEF Inv, LaunchedInv, Range
  <2> QED BY <2>1, <2>2
<1>1. ASSUME UNCHANGED <<launched, markets, new_market, i, q, given, job>> PROVE OnceInv'
  BY <1>1 DEF OnceInv, Past
<1>2. ASSUME NEW m \in Markets, Activate(m) PROVE OnceInv'
  <2>1. /\ m \notin launched /\ launched' = launched \cup {m} /\ markets' = Append(markets, m)
        /\ UNCHANGED <<new_market, i, q, given, job>>
    BY <1>2 DEF Activate, LC!GoLive
  <2>2. Distinct(markets') /\ Range(markets') = Range(markets) \cup {m}
    BY <1>0, <2>1, DistinctAppend DEF OnceInv
  <2>3. launched' \ Range(markets') = launched \ Range(markets)
    BY <2>1, <2>2
  <2>4. m # new_market
    BY <2>1 DEF OnceInv
  <2> QED BY <2>1, <2>2, <2>3, <2>4 DEF OnceInv, Past
<1>3. CASE PopMarket
  <2>1. /\ i > NumStrategies /\ i' = 1 /\ markets # <<>>
        /\ new_market' = Head(markets) /\ markets' = Tail(markets)
        /\ UNCHANGED <<launched, q, given, job>>
    BY <1>0, <1>3 DEF PopMarket
  <2>2. /\ Distinct(markets') /\ Range(markets') = Range(markets) \ {new_market'}
        /\ new_market' \in Range(markets)
    BY <1>0, <2>1, DistinctTail DEF OnceInv
  <2>3. \A j \in Allowed : Past(j)' => Past(j)
    BY <1>0, <2>1, <2>2 DEF Past
  <2>4. \A j \in given : Past(j)'
    BY <1>0, <2>1, <2>2 DEF OnceInv, Past
  <2> QED BY <1>0, <2>1, <2>2, <2>3, <2>4 DEF OnceInv
<1>4. CASE PushJob
  <2>0. PICK j : j = <<i, new_market>>
    OBVIOUS
  <2>1. /\ j \in Allowed /\ q' = Append(q, j) /\ given' = given \cup {j} /\ i' = i + 1
        /\ i <= NumStrategies
        /\ UNCHANGED <<launched, markets, new_market, job>>
    BY <1>4, <2>0 DEF PushJob, Pool!Submit
  <2>a. j[1] = i /\ j[2] = new_market /\ j \in Jobs
    BY <2>0, <2>1
  <2>2. j \notin given
    BY <1>0, <2>a DEF OnceInv, Past
  <2>3. j \notin Range(q)
    <3>1. \A k \in Range(q) : k \in given
      BY <1>0, LenProperties DEF OnceInv, Range
    <3> QED BY <2>2, <3>1
  <2>4. new_market \in launched \ Range(markets)
    BY <1>4 DEF PushJob, OnceInv, Inv, LaunchedInv
  <2>5. \A k : Past(k) /\ k[1] \in Int => Past(k)'
    BY <1>0, <2>1 DEF Past
  <2>6. Past(j)'
    <3>1. i < i + 1
      BY <1>0
    <3> QED BY <2>1, <2>4, <2>a, <3>1 DEF Past
  <2>7. \A k \in Allowed : Past(k)' => Past(k) \/ k = j
    BY <1>0, <2>0, <2>1 DEF Past
  <2>8. Distinct(q') /\ Range(q') = Range(q) \cup {j}
    BY <1>0, <2>1, <2>3, DistinctAppend DEF OnceInv
  <2>9. \A n \in 1 .. Len(q') : q'[n] \in Range(q) \/ q'[n] = j
    <3>1. q' \in Seq(Jobs)
      BY <1>0, <2>1, <2>3
    <3> QED BY <2>8, <3>1, LenProperties DEF Range
  <2>10. \A n \in 1 .. Len(q') : q'[n] \in given'
    BY <1>0, <2>1, <2>9, LenProperties DEF OnceInv, Range
  <2>11. ASSUME NEW t \in Threads, job[t] # NoJob
         PROVE  /\ job[t] \in given
                /\ \A n \in 1 .. Len(q') : q'[n] # job[t]
                /\ \A u \in Threads : job[u] = job[t] => u = t
    <3>1. /\ job[t] \in given /\ job[t] \notin Range(q)
          /\ \A u \in Threads : job[u] = job[t] => u = t
      BY <1>0, <2>11, LenProperties DEF OnceInv, Range
    <3> QED BY <2>2, <2>9, <3>1
  <2>12. /\ Distinct(markets)
         /\ new_market \in (launched \cup {NoMarket}) \ Range(markets)
    BY DEF OnceInv
  <2>13. (\A k \in given : Past(k)) /\ \A k \in Allowed : Past(k) => k \in given
    BY DEF OnceInv
  <2>14. \A k \in given' : Past(k)'
    BY <1>0, <2>1, <2>5, <2>6, <2>13
  <2>15. \A k \in Allowed : Past(k)' => k \in given'
    BY <2>1, <2>7, <2>13
  <2> QED BY <2>1, <2>8, <2>10, <2>11, <2>12, <2>14, <2>15 DEF OnceInv
<1>5. CASE Refuse
  <2>1. /\ <<i, new_market>> \notin Allowed /\ i' = i + 1
        /\ UNCHANGED <<launched, markets, new_market, q, given, job>>
    BY <1>5 DEF Refuse, NextAfterRefusal
  <2>2. \A k : Past(k) /\ k[1] \in Int => Past(k)'
    BY <1>0, <2>1 DEF Past
  <2>3. \A k \in Allowed : Past(k)' => Past(k)
    BY <1>0, <2>1, SMTT(30) DEF Past
  <2> QED BY <1>0, <2>1, <2>2, <2>3 DEF OnceInv
<1>6. ASSUME NEW t \in Threads, StartJob(t) PROVE OnceInv'
  <2>1. /\ job[t] = NoJob /\ q # <<>> /\ q' = Tail(q)
        /\ job' = [job EXCEPT ![t] = Head(q)]
        /\ UNCHANGED <<launched, markets, new_market, i, given>>
    BY <1>6 DEF StartJob, Pool!Start
  <2>2. Distinct(q') /\ Range(q') = Range(q) \ {Head(q)} /\ Head(q) \in Range(q)
    BY <1>0, <2>1, DistinctTail DEF OnceInv
  <2>3. \A k \in Range(q) : k \in given /\ \A u \in Threads : job[u] # NoJob => job[u] # k
    BY <1>0, LenProperties DEF OnceInv, Range
  <2>4. \A n \in 1 .. Len(q') : q'[n] \in Range(q) \ {Head(q)}
    <3>1. q' \in Seq(Jobs)
      BY <1>0, <2>1, HeadTailProperties
    <3> QED BY <2>2, <3>1, LenProperties DEF Range
  <2>5. job'[t] = Head(q) /\ \A u \in Threads \ {t} : job'[u] = job[u]
    BY <1>0, <2>1
  <2>6. Head(q) # NoJob
    <3>1. Head(q) \in Jobs
      BY <1>0, <2>1
    <3> QED BY <3>1
  <2>7. ASSUME NEW u \in Threads, job'[u] # NoJob
        PROVE  /\ job'[u] \in given
               /\ \A n \in 1 .. Len(q') : q'[n] # job'[u]
               /\ \A v \in Threads : job'[v] = job'[u] => v = u
    <3>1. CASE u = t
      BY <2>2, <2>3, <2>4, <2>5, <2>6, <3>1
    <3>2. CASE u # t
      BY <2>2, <2>3, <2>4, <2>5, <2>7, <3>2 DEF OnceInv
    <3> QED BY <3>1, <3>2
  <2>8. \A n \in 1 .. Len(q') : q'[n] \in given
    BY <2>3, <2>4
  <2>9. /\ Distinct(markets)
        /\ new_market \in (launched \cup {NoMarket}) \ Range(markets)
        /\ \A k \in given : Past(k)
        /\ \A k \in Allowed : Past(k) => k \in given
    BY DEF OnceInv
  <2> QED BY <2>1, <2>2, <2>7, <2>8, <2>9 DEF OnceInv, Past
<1>7. ASSUME NEW t \in Threads, Stop(t),
             UNCHANGED <<launched, markets, new_market, i, given>>
      PROVE  OnceInv'
  <2>1. q' = q /\ job' = [job EXCEPT ![t] = NoJob]
    BY <1>7 DEF Stop, Pool!Finish
  <2>2. \A u \in Threads : job'[u] # NoJob => u # t /\ job'[u] = job[u]
    BY <1>0, <2>1
  <2>3. \A u \in Threads \ {t} : job'[u] = job[u]
    BY <1>0, <2>1
  <2>4. job'[t] = NoJob
    BY <1>0, <2>1
  <2> QED BY <1>7, <2>1, <2>2, <2>3, <2>4 DEF OnceInv, Past
<1>8. ASSUME NEW t \in Threads, Find(t) \/ Load(t) PROVE OnceInv'
  <2>1. /\ UNCHANGED <<launched, markets, new_market, i, given>>
        /\ Stop(t) \/ UNCHANGED <<q, job>>
    BY <1>8 DEF Find, Load
  <2> QED BY <1>1, <1>7, <2>1
<1>9. ASSUME NEW m \in Markets, Subscribe(m) \/ Deactivate(m) \/ EraseActive(m) \/ EraseBooks(m)
      PROVE  OnceInv'
  BY <1>1, <1>9 DEF Subscribe, Deactivate, EraseActive, EraseBooks, LC!Admit, LC!Close, LC!Clear
<1>10. ASSUME NEW t \in Threads, SortRunners(t) \/ Loop(t) PROVE OnceInv'
  BY <1>1, <1>10 DEF SortRunners, Loop
<1>11. CASE Tick \/ UNCHANGED vars
  BY <1>1, <1>11 DEF Tick, vars
<1> QED
  BY <1>2, <1>3, <1>4, <1>5, <1>6, <1>8, <1>9, <1>10, <1>11
     DEF Next, MarketStep, DispatchStep, ThreadStep

\* Every market that went live is handed to every strategy that allows it, and
\* to each of them once: a pair is queued or on one thread, never twice.
THEOREM HandedOnce == Spec => []EachAllowedOnce
<1>1. Init => OnceInv
  <2> SUFFICES ASSUME Init PROVE OnceInv
    OBVIOUS
  <2>1. Distinct(<<>>) /\ Range(<<>>) = {} /\ Len(<<>>) = 0
    BY DEF Distinct, Range
  <2> QED BY <2>1 DEF Init, LC!Init, OnceInv, Past
<1>2. Inv /\ OnceInv => EachAllowedOnce
  <2> SUFFICES ASSUME Inv, OnceInv PROVE EachAllowedOnce
    OBVIOUS
  <2>1. \A m \in launched \ Range(markets), s \in Strategies :
           <<s, m>> \in Allowed /\ (m = new_market => s < i) => <<s, m>> \in given
    BY DEF OnceInv, Past
  <2>2. ASSUME NEW j \in Jobs
        PROVE  Cardinality({n \in 1 .. Len(q) : q[n] = j})
                   + Cardinality({t \in Threads : job[t] = j}) <= 1
    <3> DEFINE Q == {n \in 1 .. Len(q) : q[n] = j}
               T == {t \in Threads : job[t] = j}
    <3>1. j # NoJob
      BY <2>2
    <3>2. /\ \A n, k \in Q : n = k
          /\ \A t, u \in T : t = u
          /\ Q = {} \/ T = {}
      BY <3>1 DEF OnceInv, Distinct
    <3> HIDE DEF Q, T
    <3>3. \A S : (\A x, y \in S : x = y) => S = {} \/ \E x : S = {x}
      OBVIOUS
    <3>4. /\ Cardinality({}) = 0
          /\ \A x : Cardinality({x}) = 1
      BY FS_EmptySet, FS_Singleton
    <3>5. Cardinality(Q) \in {0, 1} /\ Cardinality(T) \in {0, 1}
      BY <3>2, <3>3, <3>4
    <3>6. Cardinality(Q) = 0 \/ Cardinality(T) = 0
      BY <3>2, <3>4
    <3>7. Cardinality(Q) + Cardinality(T) <= 1
      BY <3>5, <3>6
    <3> QED BY <3>7 DEF Q, T
  <2> QED BY <2>1, <2>2 DEF EachAllowedOnce
<1> QED BY <1>1, <1>2, NextOnce, AlwaysInv, PTL DEF Spec
=============================================================================
