------------------------ MODULE MarketGeneratorProofs ------------------------
(***************************************************************************)
(* Theorems about MarketGenerator for any catalogue, any period and span,  *)
(* and requests and subscriptions of any length.                           *)
(***************************************************************************)
EXTENDS MarketGenerator, SequenceTheorems, FiniteSetTheorems, TLAPS

Sorted == \A m, n \in Markets : m < n => start[m] <= start[n]

\* The start of a market is over: it cannot be in run's window any more.
Off(m) == start[m] * Beats <= now

\* What comes later in line starts later, or is there twice and of no use.
Ahead(m, n) == m < n \/ Off(n)

LineInv ==
    /\ \A i, j \in 1 .. Len(markets_) : i < j => Ahead(markets_[i], markets_[j])
    /\ \A i \in 1 .. Len(markets_), j \in 1 .. Len(answer) :
           Ahead(markets_[i], answer[j])
    /\ \A i, j \in 1 .. Len(answer) : i < j => Ahead(answer[i], answer[j])
    /\ \A h \in 1 .. Len(handed), j \in 1 .. Len(markets_) :
           Ahead(handed[h].market, markets_[j])
    /\ \A h \in 1 .. Len(handed), j \in 1 .. Len(answer) :
           Ahead(handed[h].market, answer[j])

\* The end of the windows asked for so far: no window begins before it.
Reach ==
    CASE gpc \in {"asleep", "login"} -> gwake
      [] gpc = "asking" -> from
      [] gpc = "pushing" -> to(from)

ReachInv ==
    /\ gpc \in {"asking", "pushing"} => from <= now
    /\ gpc # "pushing" => answer = <<>>
    /\ \A i \in 1 .. Len(markets_) : start[markets_[i]] * Beats <= Reach
    /\ \A i \in 1 .. Len(answer) : start[answer[i]] * Beats <= Reach
    /\ \A h \in 1 .. Len(handed) : start[handed[h].market] * Beats <= Reach

\* run reads the front of a queue that has one.
Polled == rpc = "polling" => markets_ # <<>>

OrderInv == Typed /\ Polled /\ Sorted /\ ReachInv /\ LineInv /\ HandedInOrder

-----------------------------------------------------------------------------

USE ConstantsAssumption DEF genVars, runVars, orderVars, history, Beats

\* Of up to three times there is a first.
LEMMA FirstOfThree ==
  ASSUME NEW a \in Nat, NEW b \in Nat, NEW c \in Nat,
         NEW S, S \subseteq {a, b, c}, a \in S
  PROVE  \E t \in S : \A u \in S : t <= u
<1>1. CASE (b \in S => a <= b) /\ (c \in S => a <= c)
  <2>1. \A u \in S : a <= u
    BY <1>1
  <2> QED BY <2>1
<1>2. CASE b \in S /\ b <= a /\ (c \in S => b <= c)
  <2>1. \A u \in S : b <= u
    BY <1>2
  <2> QED BY <1>2, <2>1
<1>3. CASE c \in S /\ c <= a /\ (b \in S => c <= b)
  <2>1. \A u \in S : c <= u
    BY <1>3
  <2> QED BY <1>3, <2>1
<1>4. \/ (b \in S => a <= b) /\ (c \in S => a <= c)
      \/ b \in S /\ b <= a /\ (c \in S => b <= c)
      \/ c \in S /\ c <= a /\ (b \in S => c <= b)
  OBVIOUS
<1> QED BY <1>1, <1>2, <1>3, <1>4

\* Of a few due times, none of which is now or before it, the first is later.
LEMMA PassLater ==
  ASSUME Typed, Pass
  PROVE  now' \in Nat /\ now' <= Horizon /\ now < now'
<1>1. now \in Nat /\ gwake \in Nat /\ rwake \in Nat /\ owake \in Nat
  BY DEF Typed
<1>2. DueTimes \subseteq {gwake, rwake, owake} /\ gwake \in DueTimes
  BY DEF DueTimes
<1>3. PICK t \in DueTimes : \A u \in DueTimes : t <= u
  BY <1>1, <1>2, FirstOfThree
<1>4. Min(DueTimes) \in DueTimes
  BY <1>3 DEF Min
<1>5. now' = Min(DueTimes) /\ now < Min(DueTimes) /\ Min(DueTimes) <= Horizon
  BY <1>4 DEF Pass
<1> QED BY <1>1, <1>2, <1>4, <1>5

\* The list of an answer holds markets of the window, in their order.
LEMMA AnswerListed ==
  ASSUME NEW S \in SUBSET Markets, NEW s \in FirstToStart(S)
  PROVE  /\ s \in Seq(Markets)
         /\ \A i \in 1 .. Len(s) : s[i] \in S
         /\ \A i, j \in 1 .. Len(s) : i < j => s[i] < s[j]
<1>1. IsFiniteSet(Markets)
  BY FS_Interval DEF Markets
<1>2. Cardinality(S) \in Nat
  BY <1>1, FS_Subset, FS_CardinalityType
<1> DEFINE n == Cardinality(S)
<1>3. s \in [1 .. n -> S] /\ \A i, j \in DOMAIN s : i < j => s[i] < s[j]
  BY DEF FirstToStart
<1>4. n \in Nat
  BY <1>2
<1> HIDE DEF n
<1>5. s \in Seq(S) /\ Len(s) = n
  BY <1>3, <1>4, SMT
<1>6. s \in Seq(Markets)
  <2>1. s \in [1 .. n -> Markets]
    BY <1>3
  <2> QED BY <1>4, <2>1, SeqDef, Zenon
<1> QED BY <1>3, <1>4, <1>5, <1>6

\* The variables have their types to begin with, ...
LEMMA InitTyped == Init => Typed /\ Polled
<1> SUFFICES ASSUME Init PROVE Typed /\ Polled
  OBVIOUS
<1>1. start \in [Markets -> StartMinutes]
  BY DEF Init
<1>2. markets_ \in Seq(Markets) /\ answer \in Seq(Markets) /\ taken \in Seq(Markets)
  BY SMT DEF Init
<1>3. handed \in Seq([market : Markets, at : Nat])
  BY SMT DEF Init
<1> QED BY <1>1, <1>2, <1>3 DEF Init, Typed, Polled

\* ... and keep them in every step.
LEMMA TypedKept == Typed /\ Polled /\ [Next]_vars => Typed' /\ Polled'
<1> SUFFICES ASSUME Typed, Polled, [Next]_vars PROVE Typed' /\ Polled'
  OBVIOUS
<1> USE DEF Typed, Polled
<1>1. CASE Login
  BY <1>1, SMTT(30) DEF Login, GenAt, Requested
<1>2. CASE Ask
  BY <1>2, SMTT(30) DEF Ask, GenAt, Requested
<1>3. CASE Answered
  <2>1. Results \subseteq Markets
    BY DEF Results
  <2>2. answer' \in Seq(Markets)
    BY <1>3, <2>1, AnswerListed DEF Answered
  <2> QED BY <1>3, <2>2 DEF Answered
<1>4. CASE Sleep
  <2>1. now + calc_time \in Nat
    BY SMTT(30) DEF calc_time
  <2> QED BY <1>4, <2>1 DEF Sleep
<1>5. CASE Push
  <2>1. Head(answer) \in Markets /\ Tail(answer) \in Seq(Markets)
    BY <1>5, HeadTailProperties DEF Push
  <2>2. markets_' \in Seq(Markets) /\ answer' \in Seq(Markets) /\ Len(markets_') > 0
    BY <1>5, <2>1, AppendProperties, LenProperties DEF Push
  <2>3. listed' \in [Markets -> Nat]
    BY <1>5, SMTT(60) DEF Push
  <2>4. markets_' # <<>>
    BY <2>2, EmptySeq
  <2> QED BY <1>5, <2>1, <2>2, <2>3, <2>4 DEF Push
<1>6. CASE RunStep
  <2>1. CASE WaitForGen
    BY <2>1 DEF WaitForGen, RunAt, Generated
  <2>7. CASE PollFound
    BY <2>7 DEF PollFound, RunAt
  <2>8. CASE Napped
    BY <2>8 DEF Napped, RunAt
  <2>9. CASE Awake
    BY <2>9 DEF Awake, RunAt
  <2>2. CASE PollEarly
    BY <2>2, SMTT(30) DEF PollEarly, RunAt, TakeNap, Nap
  <2>3. CASE Taken
    BY <2>3 DEF Taken, RunAt
  <2>4. CASE Subscribed
    <3>1. <<>> \in Seq(Markets)
      OBVIOUS
    <3> QED BY <2>4, <3>1 DEF Subscribed, RunAt
  <2>5. CASE PollLate
    <3>1. markets_ # <<>>
      BY <2>5 DEF PollLate, RunAt
    <3>2. Head(markets_) \in Markets /\ markets_' \in Seq(Markets)
      BY <2>5, <3>1, HeadTailProperties DEF PollLate, Popped
    <3>3. dropped' \subseteq [market : Markets, listed : Nat]
      BY <2>5, <3>2, SMTT(30) DEF PollLate
    <3> QED BY <2>5, <3>2, <3>3, SMTT(30) DEF PollLate, RunAt, TakeNap, Nap
  <2>6. CASE Take
    <3>1. Head(markets_) \in Markets /\ markets_' \in Seq(Markets)
      BY <2>6, HeadTailProperties DEF Take, Takeable
    <3>2. taken' \in Seq(Markets)
      BY <2>6, <3>1, AppendProperties DEF Take
    <3>3. handed' \in Seq([market : Markets, at : Nat])
      <4>1. [market |-> Head(markets_), at |-> now] \in [market : Markets, at : Nat]
        BY <3>1
      <4> QED BY <2>6, <4>1, AppendProperties DEF Take
    <3> QED BY <2>6, <3>1, <3>2, <3>3 DEF Take, RunAt
  <2> QED BY <1>6, <2>1, <2>2, <2>3, <2>4, <2>5, <2>6, <2>7, <2>8, <2>9 DEF RunStep
<1>7. CASE OrderStep
  <2>1. now + Renewal \in Nat
    BY SMTT(30) DEF Renewal
  <2>2. CASE OrderConnect
    <3>1. owake' \in Nat
      BY <2>2 DEF OrderConnect
    <3> QED BY <2>2, <3>1 DEF OrderConnect, OrderAt
  <2>3. CASE OrderSubscribe
    BY <2>1, <2>3 DEF OrderSubscribe, OrderAt
  <2>4. CASE OrderRefused \/ OrderAwake
    BY <2>4 DEF OrderRefused, OrderAwake, OrderAt
  <2> QED BY <1>7, <2>2, <2>3, <2>4 DEF OrderStep
<1>8. CASE Pass
  BY <1>8, PassLater, SMTT(30) DEF Pass
<1>9. CASE UNCHANGED vars
  BY <1>9 DEF vars
<1> QED BY <1>1, <1>2, <1>3, <1>4, <1>5, <1>6, <1>7, <1>8, <1>9
         DEF Next, GenStep, AskFailed, Pushed

\* Every variable keeps its type, for any catalogue and any timing.
\* (The bound of TypeOK on the queue's length depends on run keeping up with the
\* generator: QueueBounded.)
THEOREM GeneratorTyped == Spec => []Typed
<1> QED BY InitTyped, TypedKept, PTL DEF Spec

-----------------------------------------------------------------------------

\* Whoever waits for the generator waits for a login, too.
SessionInv ==
    /\ gpc \in {"asking", "pushing"} => session # 0
    /\ markets_ # <<>> => session # 0
    /\ taken # <<>> => session # 0
    /\ opc = "connecting" => session # 0
    /\ opc = "asleep" => osession # 0

\* Every step keeps the invariant; the session number only grows.
LEMMA SessionKept ==
  ASSUME Typed, Polled, SessionInv, [Next]_vars
  PROVE  SessionInv'
<1>0. session \in Nat
  BY DEF Typed
<1> USE DEF SessionInv
<1>1. CASE Login
  BY <1>1 DEF Login, GenAt, Requested
<1>2. CASE Ask
  BY <1>0, <1>2 DEF Ask, GenAt, Requested
<1>3. CASE Answered
  BY <1>3 DEF Answered, GenAt
<1>4. CASE Sleep
  BY <1>4 DEF Sleep
<1>5. CASE Push
  BY <1>5 DEF Push, GenAt
<1>6. CASE RunStep
  <2>1. CASE WaitForGen \/ PollFound \/ Napped \/ Awake \/ PollEarly \/ Taken
    BY <2>1 DEF WaitForGen, PollFound, Napped, Awake, PollEarly, Taken, TakeNap, RunAt
  <2>2. CASE Subscribed
    BY <2>2 DEF Subscribed, RunAt
  <2>3. CASE PollLate
    BY <2>3 DEF PollLate, RunAt, TakeNap, Polled
  <2>4. CASE Take
    BY <2>4 DEF Take, RunAt, Takeable
  <2> QED BY <1>6, <2>1, <2>2, <2>3, <2>4 DEF RunStep
<1>7. CASE OrderStep
  <2>1. CASE OrderConnect
    BY <2>1 DEF OrderConnect, OrderAt, Generated
  <2>2. CASE OrderSubscribe
    BY <2>2 DEF OrderSubscribe, OrderAt
  <2>3. CASE OrderRefused \/ OrderAwake
    BY <2>3 DEF OrderRefused, OrderAwake, OrderAt
  <2> QED BY <1>7, <2>1, <2>2, <2>3 DEF OrderStep
<1>8. CASE Pass
  BY <1>8 DEF Pass
<1>9. CASE UNCHANGED vars
  BY <1>9 DEF vars
<1> QED BY <1>1, <1>2, <1>3, <1>4, <1>5, <1>6, <1>7, <1>8, <1>9
         DEF Next, GenStep, AskFailed, Pushed

\* run never reads the front of an empty queue, although it reads
\* without the lock, and nobody authenticates before the first login.
THEOREM NothingTooSoon == Spec => []AfterGeneration
<1> DEFINE J == Typed /\ Polled /\ SessionInv
<1>1. Init => SessionInv
  BY DEF Init, SessionInv
<1>2. J /\ [Next]_vars => J'
  BY TypedKept, SessionKept
<1>3. J => AfterGeneration
  BY DEF Polled, SessionInv, AfterGeneration
<1>4. Init => Typed /\ Polled
  BY InitTyped
<1> QED BY <1>1, <1>2, <1>3, <1>4, PTL DEF Spec

-----------------------------------------------------------------------------

\* While the stream's hour runs it was opened with the last session or the one
\* before, and in the second case the next login is not due before the hour ends.
RenewInv ==
    opc = "asleep" =>
        /\ owake <= now + Renewal
        /\ \/ owake <= now
           \/ osession = session
           \/ /\ osession + 1 = session
              /\ gpc # "login"
              /\ gpc = "asleep" => owake <= gwake

\* What OrderSessionRecent says, up to the beat the hour is over: in that beat
\* itself the generator may be a login ahead of a thread that is about to wake.
OrderSessionKept == opc = "asleep" /\ now < owake => osession + 1 >= session

\* Every step keeps it: generator and stream sleep equally long.
LEMMA RenewKept ==
  ASSUME Typed, RenewInv, [Next]_vars
  PROVE  RenewInv'
<1>0. /\ now \in Nat /\ gwake \in Nat /\ owake \in Nat /\ session \in Nat
      /\ osession \in Nat /\ Renewal \in Nat /\ calc_time = Renewal
  BY DEF Typed, Renewal, calc_time
<1> HIDE DEF Beats
<1> USE DEF RenewInv
<1>1. CASE Login
  <2>1. now >= gwake /\ gpc = "asleep" /\ gpc' = "login"
    BY <1>1 DEF Login, GenAt, Requested
  <2>2. UNCHANGED <<now, session, orderVars>>
    BY <1>1 DEF Login
  <2> QED BY <1>0, <2>1, <2>2 DEF Renewal, orderVars
<1>2. CASE Ask
  <2>1. gpc = "login" /\ gpc' = "asking" /\ session' = session + 1
    BY <1>2 DEF Ask, GenAt, Requested
  <2>2. UNCHANGED <<now, orderVars>>
    BY <1>2 DEF Ask
  <2> QED BY <1>0, <2>1, <2>2 DEF Renewal, orderVars
<1>3. CASE Answered
  <2>1. gpc = "asking" /\ gpc' = "pushing" /\ UNCHANGED <<now, gwake, session, orderVars>>
    BY <1>3 DEF Answered, GenAt
  <2> QED BY <2>1 DEF Renewal, orderVars
<1>4. CASE Sleep
  <2>1. gpc' = "asleep" /\ gwake' = now + Renewal /\ UNCHANGED <<now, session, orderVars>>
    BY <1>0, <1>4 DEF Sleep
  <2> QED BY <1>0, <2>1 DEF Renewal, orderVars
<1>5. CASE Push
  BY <1>5 DEF Push, Renewal
<1>6. CASE RunStep
  <2>1. UNCHANGED <<now, gpc, gwake, session, orderVars>>
    BY <1>6 DEF RunStep, WaitForGen, PollFound, PollLate, PollEarly, Napped, Take, Taken,
               Subscribed, Awake, RunAt
  <2> QED BY <2>1 DEF Renewal, orderVars
<1>7. CASE OrderStep
  <2>1. CASE OrderSubscribe
    <3>1. osession' = session /\ owake' = now + Renewal /\ UNCHANGED <<now, session>>
      BY <2>1 DEF OrderSubscribe, OrderAt
    <3> QED BY <1>0, <3>1 DEF Renewal
  <2>2. CASE OrderConnect \/ OrderRefused \/ OrderAwake
    BY <2>2 DEF OrderConnect, OrderRefused, OrderAwake
  <2> QED BY <1>7, <2>1, <2>2 DEF OrderStep
<1>8. CASE Pass
  <2>1. now' \in Nat /\ now < now' /\ UNCHANGED <<gpc, gwake, session, orderVars>>
    BY <1>8, PassLater DEF Pass
  <2> QED BY <1>0, <2>1 DEF Renewal, orderVars
<1>9. CASE UNCHANGED vars
  BY <1>9 DEF vars, Renewal
<1> QED BY <1>1, <1>2, <1>3, <1>4, <1>5, <1>6, <1>7, <1>8, <1>9
         DEF Next, GenStep, AskFailed, Pushed

\* Until its hour is over the stream of orders is at most one session
\* behind the logins, though the two threads slip against each other.
THEOREM SessionKeptUp == Spec => []OrderSessionKept
<1>1. Init => RenewInv
  BY DEF Init, RenewInv
<1>2. Typed /\ RenewInv => OrderSessionKept
  BY DEF Typed, RenewInv, OrderSessionKept
<1> QED BY <1>1, <1>2, InitTyped, TypedKept, RenewKept, PTL DEF Spec

-----------------------------------------------------------------------------

\* What later steps cite of the types.
LEMMA QueuesTyped ==
  ASSUME Typed
  PROVE  /\ now \in Nat /\ gwake \in Nat /\ from \in Nat
         /\ \A m \in Markets : start[m] \in Nat
         /\ \A m \in Markets : m \in Int
         /\ Len(markets_) \in Nat /\ Len(answer) \in Nat /\ Len(handed) \in Nat
         /\ \A i \in 1 .. Len(markets_) : markets_[i] \in Markets
         /\ \A i \in 1 .. Len(answer) : answer[i] \in Markets
         /\ \A h \in 1 .. Len(handed) : handed[h].market \in Markets
<1>1. now \in Nat /\ gwake \in Nat /\ from \in Nat /\ start \in [Markets -> StartMinutes]
  BY DEF Typed
<1>2. \A m \in Markets : m \in Int
  BY DEF Markets
<1>3. /\ markets_ \in Seq(Markets) /\ answer \in Seq(Markets)
      /\ handed \in Seq([market : Markets, at : Nat])
  BY DEF Typed
<1>4. \A i \in 1 .. Len(markets_) : markets_[i] \in Markets
  BY <1>3, ElementOfSeq
<1>5. \A i \in 1 .. Len(answer) : answer[i] \in Markets
  BY <1>3, ElementOfSeq
<1>6. \A h \in 1 .. Len(handed) : handed[h].market \in Markets
  <2>1. \A h \in 1 .. Len(handed) : handed[h] \in [market : Markets, at : Nat]
    BY <1>3, ElementOfSeq
  <2> QED BY <2>1
<1>7. Len(markets_) \in Nat /\ Len(answer) \in Nat /\ Len(handed) \in Nat
  BY <1>3, LenProperties
<1>8. \A m \in Markets : start[m] \in Nat
  BY <1>1
<1> QED BY <1>1, <1>2, <1>4, <1>5, <1>6, <1>7, <1>8

\* As time passes the order of the line stays.
LEMMA LineStays ==
  ASSUME OrderInv, Typed', UNCHANGED <<start, markets_, answer, handed>>, now <= now'
  PROVE  Sorted' /\ LineInv' /\ HandedInOrder'
<1> USE QueuesTyped DEF OrderInv
<1>1. now' \in Nat
  BY DEF Typed
<1>2. \A m \in Markets : Off(m) => Off(m)'
  BY <1>1, SMTT(30) DEF Off
<1>3. \A m, n \in Markets : Ahead(m, n) => Ahead(m, n)'
  BY <1>2 DEF Ahead
<1>4. Sorted' /\ HandedInOrder'
  BY DEF Sorted, HandedInOrder
<1>5. \A i, j \in 1 .. Len(markets_) : i < j => Ahead(markets_[i], markets_[j])'
  BY <1>3 DEF LineInv
<1>6. \A i \in 1 .. Len(markets_), j \in 1 .. Len(answer) : Ahead(markets_[i], answer[j])'
  BY <1>3 DEF LineInv
<1>7. \A i, j \in 1 .. Len(answer) : i < j => Ahead(answer[i], answer[j])'
  BY <1>3 DEF LineInv
<1>8. \A h \in 1 .. Len(handed), j \in 1 .. Len(markets_) :
          Ahead(handed[h].market, markets_[j])'
  BY <1>3 DEF LineInv
<1>9. \A h \in 1 .. Len(handed), j \in 1 .. Len(answer) :
          Ahead(handed[h].market, answer[j])'
  BY <1>3 DEF LineInv
<1> QED BY <1>4, <1>5, <1>6, <1>7, <1>8, <1>9 DEF LineInv

\* The reach is a time.
LEMMA ReachTyped == ASSUME Typed PROVE Reach \in Nat
<1>1. from \in Nat /\ gwake \in Nat /\ gpc \in {"asleep", "login", "asking", "pushing"}
  BY DEF Typed
<1>2. to(from) \in Nat
  BY <1>1 DEF to
<1> QED BY <1>1, <1>2 DEF Reach

\* What was within reach stays so while the reach grows.
LEMMA ReachStays ==
  ASSUME OrderInv, Typed', UNCHANGED <<start, markets_, answer, handed>>,
         Reach <= Reach',
         gpc' \in {"asking", "pushing"} => from' <= now',
         gpc' # "pushing" => answer = <<>>
  PROVE  ReachInv'
<1> USE QueuesTyped DEF OrderInv
<1>1. Reach \in Nat
  BY ReachTyped
<1>2. Reach' \in Nat
  <2>1. /\ from' \in Nat /\ gwake' \in Nat
        /\ gpc' \in {"asleep", "login", "asking", "pushing"}
    BY DEF Typed
  <2>2. to(from)' \in Nat
    BY <2>1, SMTT(30) DEF to
  <2> QED BY <2>1, <2>2 DEF Reach
<1>3. \A m \in Markets : start[m] * Beats <= Reach => start[m] * Beats <= Reach'
  <2> TAKE m \in Markets
  <2>1. start[m] * Beats \in Nat
    BY QueuesTyped, SMTT(30) DEF OrderInv
  <2> QED BY <1>1, <1>2, <2>1, SMTT(30)
<1>4. \A i \in 1 .. Len(markets_) : start[markets_[i]] * Beats <= Reach'
  BY <1>3 DEF ReachInv
<1>5. \A i \in 1 .. Len(answer) : start[answer[i]] * Beats <= Reach'
  BY <1>3 DEF ReachInv
<1>6. \A h \in 1 .. Len(handed) : start[handed[h].market] * Beats <= Reach'
  BY <1>3 DEF ReachInv
<1> HIDE DEF Beats
<1> QED BY <1>4, <1>5, <1>6 DEF ReachInv

\* The generator's steps that list nothing: the reach grows to the next request.
LEMMA GenWaits ==
  ASSUME OrderInv, Typed', Login \/ Ask \/ AskFailed \/ Pushed
  PROVE  Sorted' /\ LineInv' /\ HandedInOrder' /\ ReachInv'
<1>1. UNCHANGED <<now, start, markets_, answer, handed>>
  BY DEF Login, Ask, AskFailed, Pushed, Sleep
<1>2. now \in Nat /\ gwake \in Nat /\ from \in Nat /\ gwake' \in Nat /\ from' \in Nat
  BY DEF OrderInv, Typed
<1>3. Sorted' /\ LineInv' /\ HandedInOrder'
  BY <1>1, <1>2, LineStays
<1>4. /\ Reach <= Reach'
      /\ gpc' \in {"asking", "pushing"} => from' <= now'
      /\ gpc' # "pushing" => answer = <<>>
  <2>0. /\ gpc \in {"asking", "pushing"} => from <= now
        /\ gpc # "pushing" => answer = <<>>
    BY DEF OrderInv, ReachInv
  <2>1. CASE Login
    <3>1. gpc = "asleep" /\ gpc' = "login" /\ gwake <= now /\ now <= gwake'
      BY <1>2, <2>1 DEF Login, GenAt, Requested
    <3> QED BY <1>2, <2>0, <3>1 DEF Reach
  <2>2. CASE Ask
    <3>1. gpc = "login" /\ gpc' = "asking" /\ gwake <= now /\ from' = now
      BY <1>2, <2>2 DEF Ask, GenAt, Requested
    <3> QED BY <1>1, <1>2, <2>0, <3>1 DEF Reach
  <2>3. CASE AskFailed
    <3>1. /\ gpc \in {"login", "asking"} /\ gpc' = "asleep" /\ gwake <= now
          /\ gwake' = now + Period * Beats
      BY <1>2, <2>3 DEF AskFailed, GenAt, Sleep, calc_time
    <3>2. now <= gwake'
      BY <1>2, <3>1
    <3> QED BY <1>2, <2>0, <3>1, <3>2 DEF Reach
  <2>4. CASE Pushed
    <3>1. /\ gpc = "pushing" /\ gpc' = "asleep" /\ answer = <<>>
          /\ gwake' = now + Period * Beats
      BY <2>4 DEF Pushed, GenAt, Sleep, calc_time
    <3>2. to(from) <= gwake'
      BY <1>2, <2>0, <3>1 DEF to
    <3> QED BY <2>0, <3>1, <3>2 DEF Reach
  <2> QED BY <2>1, <2>2, <2>3, <2>4
<1> QED BY <1>1, <1>3, <1>4, ReachStays

\* run and the stream leave the line alone but for what they pop.
LEMMA OthersWait ==
  ASSUME OrderInv, Typed', now <= now',
         UNCHANGED <<start, markets_, answer, handed, gpc, gwake, from>>
  PROVE  Sorted' /\ LineInv' /\ HandedInOrder' /\ ReachInv'
<1>1. now \in Nat /\ now' \in Nat /\ from \in Nat /\ Reach \in Nat
  BY ReachTyped, SMTT(30) DEF OrderInv, Typed
<1>2. Reach' = Reach
  BY DEF Reach, to
<1>3. /\ gpc' \in {"asking", "pushing"} => from' <= now'
      /\ gpc' # "pushing" => answer = <<>>
  BY <1>1 DEF OrderInv, ReachInv
<1> QED BY <1>1, <1>2, <1>3, LineStays, ReachStays

\* What starts in a window begun now or before is ahead of all that was within
\* reach of the last one, or starts with the window and is off.
LEMMA NewAhead ==
  ASSUME Typed, Sorted, from <= now, NEW m \in Markets, NEW n \in Markets,
         start[m] * Beats <= from, from <= start[n] * Beats
  PROVE  Ahead(m, n)
<1>1. /\ now \in Nat /\ from \in Nat /\ start[m] \in Nat /\ start[n] \in Nat
      /\ m \in Int /\ n \in Int
  BY QueuesTyped
<1>2. CASE start[n] * Beats = from
  BY <1>1, <1>2 DEF Ahead, Off
<1>3. CASE from < start[n] * Beats
  <2>1. start[m] < start[n]
    BY <1>1, <1>3
  <2>2. ~ (n < m) /\ m # n
    BY <1>1, <2>1 DEF Sorted
  <2> QED BY <1>1, <2>2 DEF Ahead
<1> QED BY <1>1, <1>2, <1>3

\* An answer goes behind the queue in order.
LEMMA AnsweredKeeps ==
  ASSUME OrderInv, Typed', Answered
  PROVE  Sorted' /\ LineInv' /\ HandedInOrder' /\ ReachInv'
<1>1. /\ gpc = "asking" /\ gpc' = "pushing"
      /\ UNCHANGED <<now, start, from, markets_, handed>>
  BY DEF Answered, GenAt
<1> DEFINE S == Results
           new == answer'
<1>2. S \in SUBSET Markets /\ new \in FirstToStart(S)
  BY DEF Answered, Results
<1>3. \A m \in S : from <= start[m] * Beats /\ start[m] * Beats <= to(from)
  BY DEF Results, Listable
<1> HIDE DEF S, new
<1>4. /\ new \in Seq(Markets)
      /\ \A i \in 1 .. Len(new) : new[i] \in S
      /\ \A i, j \in 1 .. Len(new) : i < j => new[i] < new[j]
  BY <1>2, AnswerListed
<1>5. answer' = new
  BY DEF new
<1>6. from <= now /\ Reach = from /\ Reach' = to(from)
  BY <1>1 DEF OrderInv, ReachInv, Reach, to
<1>7. \A m \in Markets, n \in S : start[m] * Beats <= from => Ahead(m, n)
  BY <1>2, <1>3, <1>6, NewAhead DEF OrderInv
<1>8. \A m, n \in Markets : Ahead(m, n)' <=> Ahead(m, n)
  BY <1>1 DEF Ahead, Off
<1>9. /\ \A i \in 1 .. Len(markets_) :
             markets_[i] \in Markets /\ start[markets_[i]] * Beats <= from
      /\ \A h \in 1 .. Len(handed) :
             handed[h].market \in Markets /\ start[handed[h].market] * Beats <= from
  BY <1>6, QueuesTyped DEF OrderInv, ReachInv
<1>10. Sorted' /\ HandedInOrder'
  BY <1>1 DEF OrderInv, Sorted, HandedInOrder
<1>11. LineInv'
  <2>1. \A i, j \in 1 .. Len(markets_) : i < j => Ahead(markets_[i], markets_[j])'
    <3>1. \A i, j \in 1 .. Len(markets_) : i < j => Ahead(markets_[i], markets_[j])
      BY DEF OrderInv, LineInv
    <3> QED BY <1>1, <3>1 DEF Ahead, Off
  <2>2. \A i \in 1 .. Len(markets_), j \in 1 .. Len(new) : Ahead(markets_[i], new[j])
    BY <1>4, <1>7, <1>9
  <2>3. \A i, j \in 1 .. Len(new) : i < j => Ahead(new[i], new[j])
    BY <1>4 DEF Ahead
  <2>4. \A h \in 1 .. Len(handed), j \in 1 .. Len(markets_) :
            Ahead(handed[h].market, markets_[j])
    BY DEF OrderInv, LineInv
  <2>5. \A h \in 1 .. Len(handed), j \in 1 .. Len(new) : Ahead(handed[h].market, new[j])
    BY <1>4, <1>7, <1>9
  <2> QED BY <1>1, <1>5, <2>1, <2>2, <2>3, <2>4, <2>5 DEF LineInv, Ahead, Off
<1>12. ReachInv'
  <2>1. from \in Nat /\ to(from) \in Nat /\ from <= to(from)
    <3>1. from \in Nat /\ Period \in Nat
      BY DEF OrderInv, Typed
    <3> QED BY <3>1 DEF to
  <2>2. \A m \in Markets : start[m] * Beats \in Nat
    BY QueuesTyped, SMTT(30) DEF OrderInv
  <2>3. \A i \in 1 .. Len(markets_) : start[markets_[i]] * Beats <= to(from)
    BY <1>9, <2>1, <2>2, SMTT(30)
  <2>4. \A h \in 1 .. Len(handed) : start[handed[h].market] * Beats <= to(from)
    BY <1>9, <2>1, <2>2, SMTT(30)
  <2>5. \A i \in 1 .. Len(new) : start[new[i]] * Beats <= to(from)
    BY <1>3, <1>4
  <2> HIDE DEF Beats
  <2> QED BY <1>1, <1>5, <1>6, <2>3, <2>4, <2>5 DEF ReachInv
<1> QED BY <1>10, <1>11, <1>12

\* The line stays as it is when its middle moves from the answer to the queue.
LEMMA PushKeeps ==
  ASSUME OrderInv, Typed', Push
  PROVE  Sorted' /\ LineInv' /\ HandedInOrder' /\ ReachInv'
<1>0. /\ gpc = "pushing" /\ gpc' = "pushing" /\ answer # <<>>
      /\ markets_' = Append(markets_, Head(answer)) /\ answer' = Tail(answer)
      /\ UNCHANGED <<now, start, from, handed>>
  BY DEF Push, GenAt
<1> DEFINE k == Len(markets_)
           l == Len(answer)
<1>1. /\ markets_ \in Seq(Markets) /\ answer \in Seq(Markets)
      /\ k \in Nat /\ l \in Nat /\ l > 0 /\ Len(handed) \in Nat
  <2>1. markets_ \in Seq(Markets) /\ answer \in Seq(Markets)
    BY DEF OrderInv, Typed
  <2>2. k \in Nat /\ l \in Nat /\ Len(handed) \in Nat
    BY QueuesTyped DEF OrderInv
  <2>3. Len(answer) > 0
    BY <1>0, <2>1, EmptySeq
  <2> QED BY <2>1, <2>2, <2>3
<1>2. /\ Len(answer') = l - 1
      /\ \A j \in 1 .. l - 1 : answer'[j] = answer[j + 1]
  BY <1>0, <1>1, HeadTailProperties
<1>3. Head(answer) = answer[1] /\ Head(answer) \in Markets
  BY <1>0, <1>1, HeadTailProperties
<1>4. /\ Len(markets_') = k + 1
      /\ \A i \in 1 .. k : markets_'[i] = markets_[i]
      /\ markets_'[k + 1] = answer[1]
  BY <1>0, <1>1, <1>3, AppendProperties
<1>5. \A m, n : Ahead(m, n)' <=> Ahead(m, n)
  BY <1>0 DEF Ahead, Off
<1>6. /\ \A i, j \in 1 .. k : i < j => Ahead(markets_[i], markets_[j])
      /\ \A i \in 1 .. k, j \in 1 .. l : Ahead(markets_[i], answer[j])
      /\ \A i, j \in 1 .. l : i < j => Ahead(answer[i], answer[j])
      /\ \A h \in 1 .. Len(handed), j \in 1 .. k : Ahead(handed[h].market, markets_[j])
      /\ \A h \in 1 .. Len(handed), j \in 1 .. l : Ahead(handed[h].market, answer[j])
  BY DEF OrderInv, LineInv
<1>7. Sorted' /\ HandedInOrder'
  BY <1>0 DEF OrderInv, Sorted, HandedInOrder
<1> DEFINE q == markets_'
           a == answer'
<1>8. /\ Len(q) = k + 1 /\ Len(a) = l - 1
      /\ \A i \in 1 .. k : q[i] = markets_[i]
      /\ q[k + 1] = answer[1]
      /\ \A j \in 1 .. l - 1 : a[j] = answer[j + 1]
  BY <1>2, <1>4
<1> HIDE DEF k, l, q, a
<1>9. /\ \A i \in 1 .. k + 1 : i \in 1 .. k \/ i = k + 1
      /\ \A j \in 1 .. l - 1 : j + 1 \in 1 .. l /\ 1 < j + 1
      /\ 1 \in 1 .. l
  BY <1>1
<1>10. LineInv'
  <2>1. ASSUME NEW i \in 1 .. k + 1, NEW j \in 1 .. k + 1, i < j
        PROVE  Ahead(q[i], q[j])
    <3>1. i \in 1 .. k
      BY <1>1, <2>1
    <3>2. CASE j \in 1 .. k
      BY <1>6, <1>8, <2>1, <3>1, <3>2
    <3>3. CASE j = k + 1
      <4>1. q[i] = markets_[i] /\ q[j] = answer[1]
        BY <1>8, <3>1, <3>3
      <4>2. Ahead(markets_[i], answer[1])
        BY <1>1, <1>6, <1>9, <3>1
      <4> QED BY <4>1, <4>2
    <3> QED BY <1>9, <3>2, <3>3
  <2>2. ASSUME NEW i \in 1 .. k + 1, NEW j \in 1 .. l - 1
        PROVE  Ahead(q[i], a[j])
    <3>1. a[j] = answer[j + 1] /\ j + 1 \in 1 .. l /\ 1 < j + 1
      BY <1>1, <1>8, <1>9
    <3>2. CASE i \in 1 .. k
      BY <1>6, <1>8, <3>1, <3>2
    <3>3. CASE i = k + 1
      BY <1>6, <1>8, <1>9, <3>1, <3>3
    <3> QED BY <1>9, <3>2, <3>3
  <2>3. ASSUME NEW i \in 1 .. l - 1, NEW j \in 1 .. l - 1, i < j
        PROVE  Ahead(a[i], a[j])
    <3>1. i + 1 \in 1 .. l /\ j + 1 \in 1 .. l /\ i + 1 < j + 1
      BY <1>1, <2>3, SMTT(30)
    <3>2. a[i] = answer[i + 1] /\ a[j] = answer[j + 1]
      BY <1>8
    <3>3. Ahead(answer[i + 1], answer[j + 1])
      BY <1>6, <3>1
    <3> QED BY <3>2, <3>3
  <2>4. ASSUME NEW h \in 1 .. Len(handed), NEW j \in 1 .. k + 1
        PROVE  Ahead(handed[h].market, q[j])
    <3>1. CASE j \in 1 .. k
      BY <1>6, <1>8, <3>1
    <3>2. CASE j = k + 1
      <4>1. q[j] = answer[1]
        BY <1>8, <3>2
      <4>2. Ahead(handed[h].market, answer[1])
        BY <1>1, <1>6, <1>9
      <4> QED BY <4>1, <4>2
    <3> QED BY <1>9, <3>1, <3>2
  <2>5. ASSUME NEW h \in 1 .. Len(handed), NEW j \in 1 .. l - 1
        PROVE  Ahead(handed[h].market, a[j])
    <3>1. a[j] = answer[j + 1] /\ j + 1 \in 1 .. l
      BY <1>1, <1>8
    <3>2. Ahead(handed[h].market, answer[j + 1])
      BY <1>6, <3>1
    <3> QED BY <3>1, <3>2
  <2> QED BY <1>0, <1>8, <2>1, <2>2, <2>3, <2>4, <2>5 DEF LineInv, Ahead, Off, q, a
<1>11. ReachInv'
  <2>1. /\ from <= now
        /\ \A i \in 1 .. k : start[markets_[i]] * Beats <= to(from)
        /\ \A i \in 1 .. l : start[answer[i]] * Beats <= to(from)
        /\ \A h \in 1 .. Len(handed) : start[handed[h].market] * Beats <= to(from)
    BY <1>0 DEF OrderInv, ReachInv, Reach, k, l
  <2>2. Reach' = to(from)
    BY <1>0 DEF Reach, to
  <2> HIDE DEF Beats
  <2>3. ASSUME NEW i \in 1 .. k + 1
        PROVE  start[q[i]] * Beats <= to(from)
    <3>1. CASE i \in 1 .. k
      BY <1>8, <2>1, <3>1
    <3>2. CASE i = k + 1
      <4>1. q[i] = answer[1]
        BY <1>8, <3>2
      <4>2. start[answer[1]] * Beats <= to(from)
        BY <1>1, <1>9, <2>1
      <4> QED BY <4>1, <4>2
    <3> QED BY <1>9, <3>1, <3>2
  <2>4. ASSUME NEW i \in 1 .. l - 1
        PROVE  start[a[i]] * Beats <= to(from)
    <3>1. a[i] = answer[i + 1] /\ i + 1 \in 1 .. l
      BY <1>1, <1>8, <1>9
    <3>2. start[answer[i + 1]] * Beats <= to(from)
      BY <2>1, <3>1
    <3> QED BY <3>1, <3>2
  <2> QED BY <1>0, <1>8, <2>1, <2>2, <2>3, <2>4 DEF ReachInv, q, a
<1> QED BY <1>7, <1>10, <1>11

\* Popping the front keeps the rest of the line.
LEMMA PopKeeps ==
  ASSUME OrderInv, markets_ # <<>>, markets_' = Tail(markets_),
         UNCHANGED <<now, start, answer, handed, gpc, gwake, from>>
  PROVE  Sorted' /\ LineInv' /\ HandedInOrder' /\ ReachInv'
<1> DEFINE k == Len(markets_)
           q == markets_'
<1>1. k \in Nat /\ Len(q) = k - 1 /\ \A i \in 1 .. k - 1 : q[i] = markets_[i + 1]
  <2>1. markets_ \in Seq(Markets)
    BY DEF OrderInv, Typed
  <2> QED BY <2>1, HeadTailProperties, LenProperties
<1>2. \A m, n : Ahead(m, n)' <=> Ahead(m, n)
  BY DEF Ahead, Off
<1>3. /\ \A i, j \in 1 .. k : i < j => Ahead(markets_[i], markets_[j])
      /\ \A i \in 1 .. k, j \in 1 .. Len(answer) : Ahead(markets_[i], answer[j])
      /\ \A h \in 1 .. Len(handed), j \in 1 .. k : Ahead(handed[h].market, markets_[j])
      /\ \A i \in 1 .. k : start[markets_[i]] * Beats <= Reach
  BY DEF OrderInv, LineInv, ReachInv
<1> HIDE DEF k, q
<1>4. \A i \in 1 .. k - 1 : q[i] = markets_[i + 1] /\ i + 1 \in 1 .. k
  BY <1>1
<1>5. LineInv'
  <2>1. ASSUME NEW i \in 1 .. k - 1, NEW j \in 1 .. k - 1, i < j
        PROVE  Ahead(q[i], q[j])
    <3>1. i + 1 \in 1 .. k /\ j + 1 \in 1 .. k /\ i + 1 < j + 1
      BY <1>1, <2>1
    <3>2. Ahead(markets_[i + 1], markets_[j + 1])
      BY <1>3, <3>1
    <3> QED BY <1>4, <3>2
  <2>2. ASSUME NEW i \in 1 .. k - 1, NEW j \in 1 .. Len(answer)
        PROVE  Ahead(q[i], answer[j])
    <3>1. Ahead(markets_[i + 1], answer[j])
      BY <1>3, <1>4
    <3> QED BY <1>4, <3>1
  <2>3. ASSUME NEW h \in 1 .. Len(handed), NEW j \in 1 .. k - 1
        PROVE  Ahead(handed[h].market, q[j])
    <3>1. Ahead(handed[h].market, markets_[j + 1])
      BY <1>3, <1>4
    <3> QED BY <1>4, <3>1
  <2>4. /\ \A i, j \in 1 .. Len(answer) : i < j => Ahead(answer[i], answer[j])
        /\ \A h \in 1 .. Len(handed), j \in 1 .. Len(answer) :
               Ahead(handed[h].market, answer[j])
    BY DEF OrderInv, LineInv
  <2> QED BY <1>1, <2>1, <2>2, <2>3, <2>4 DEF LineInv, Ahead, Off, q
<1>6. ReachInv'
  <2> HIDE DEF Beats
  <2>1. Reach' = Reach
    BY DEF Reach, to
  <2>2. ASSUME NEW i \in 1 .. k - 1
        PROVE  start[q[i]] * Beats <= Reach
    <3>1. start[markets_[i + 1]] * Beats <= Reach
      BY <1>3, <1>4
    <3> QED BY <1>4, <3>1
  <2>3. /\ gpc \in {"asking", "pushing"} => from <= now
        /\ gpc # "pushing" => answer = <<>>
        /\ \A i \in 1 .. Len(answer) : start[answer[i]] * Beats <= Reach
        /\ \A h \in 1 .. Len(handed) : start[handed[h].market] * Beats <= Reach
    BY DEF OrderInv, ReachInv
  <2> QED BY <1>1, <2>1, <2>2, <2>3 DEF ReachInv, q
<1>7. Sorted' /\ HandedInOrder'
  BY DEF OrderInv, Sorted, HandedInOrder
<1> QED BY <1>5, <1>6, <1>7

\* What is in the window is not off.
LEMMA WindowOpen ==
  ASSUME Typed, NEW m \in Markets, InWindow(m)
  PROVE  ~ Off(m)
<1>1. now \in Nat /\ start[m] \in Nat
  BY QueuesTyped
<1>2. now \div 12 \in Int /\ now < 12 * (now \div 12) + 12
  BY <1>1
<1>3. start[m] >= (now \div 12) + 2
  BY <1>1, <1>2 DEF InWindow, Diff, Minute, Lead
<1> QED BY <1>1, <1>2, <1>3 DEF Off

\* Handing over the front of the line, which is not off, keeps all in order.
LEMMA TakeKeeps ==
  ASSUME OrderInv, Take
  PROVE  Sorted' /\ LineInv' /\ HandedInOrder' /\ ReachInv'
<1>1. /\ markets_ # <<>> /\ InWindow(Head(markets_))
      /\ markets_' = Tail(markets_)
      /\ handed' = Append(handed, [market |-> Head(markets_), at |-> now])
      /\ UNCHANGED <<now, start, answer, gpc, gwake, from>>
  BY DEF Take, Takeable, RunAt
<1>2. /\ markets_ \in Seq(Markets) /\ handed \in Seq([market : Markets, at : Nat])
      /\ now \in Nat
  BY DEF OrderInv, Typed
<1> DEFINE k == Len(markets_)
           n == Len(handed)
           q == markets_'
           h == handed'
           front == markets_[1]
<1>3. /\ k \in Nat /\ k > 0 /\ Len(q) = k - 1
      /\ \A i \in 1 .. k - 1 : q[i] = markets_[i + 1]
      /\ Head(markets_) = front /\ front \in Markets
  BY <1>1, <1>2, HeadTailProperties, LenProperties, EmptySeq
<1>4. /\ n \in Nat /\ Len(h) = n + 1
      /\ \A i \in 1 .. n : h[i] = handed[i]
      /\ h[n + 1] = [market |-> front, at |-> now]
  <2>1. [market |-> front, at |-> now] \in [market : Markets, at : Nat]
    BY <1>2, <1>3
  <2> QED BY <1>1, <1>2, <1>3, <2>1, AppendProperties, LenProperties
<1>5. /\ \A i, j \in 1 .. k : i < j => Ahead(markets_[i], markets_[j])
      /\ \A i \in 1 .. k, j \in 1 .. Len(answer) : Ahead(markets_[i], answer[j])
      /\ \A i \in 1 .. n, j \in 1 .. k : Ahead(handed[i].market, markets_[j])
      /\ \A i \in 1 .. n, j \in 1 .. Len(answer) : Ahead(handed[i].market, answer[j])
      /\ \A i, j \in 1 .. n : i < j => handed[i].market < handed[j].market
      /\ \A i \in 1 .. k : start[markets_[i]] * Beats <= Reach
      /\ \A i \in 1 .. n : start[handed[i].market] * Beats <= Reach
  BY DEF OrderInv, LineInv, ReachInv, HandedInOrder
<1>6. \A i, j \in 1 .. Len(answer) : i < j => Ahead(answer[i], answer[j])
  BY DEF OrderInv, LineInv
<1>7. ~ Off(front)
  BY <1>1, <1>3, WindowOpen DEF OrderInv
<1> HIDE DEF k, n, q, h, front
<1>8. /\ \A i \in 1 .. k - 1 : q[i] = markets_[i + 1] /\ i + 1 \in 1 .. k /\ 1 < i + 1
      /\ \A i \in 1 .. n + 1 : i \in 1 .. n \/ i = n + 1
      /\ 1 \in 1 .. k
  BY <1>3, <1>4
<1>9. \A i \in 1 .. n + 1 :
          \/ i \in 1 .. n /\ h[i].market = handed[i].market
          \/ i = n + 1 /\ h[i].market = front
  BY <1>4, <1>8
<1>10. front = markets_[1]
  BY DEF front
<1>11. LineInv'
  <2>1. ASSUME NEW i \in 1 .. k - 1, NEW j \in 1 .. k - 1, i < j
        PROVE  Ahead(q[i], q[j])
    <3>1. i + 1 \in 1 .. k /\ j + 1 \in 1 .. k /\ i + 1 < j + 1
      BY <1>3, <2>1
    <3>2. Ahead(markets_[i + 1], markets_[j + 1])
      BY <1>5, <3>1
    <3> QED BY <1>8, <3>2
  <2>2. ASSUME NEW i \in 1 .. k - 1, NEW j \in 1 .. Len(answer)
        PROVE  Ahead(q[i], answer[j])
    <3>1. Ahead(markets_[i + 1], answer[j])
      BY <1>5, <1>8
    <3> QED BY <1>8, <3>1
  <2>3. ASSUME NEW i \in 1 .. n + 1, NEW j \in 1 .. k - 1
        PROVE  Ahead(h[i].market, q[j])
    <3>1. q[j] = markets_[j + 1] /\ j + 1 \in 1 .. k /\ 1 < j + 1
      BY <1>3, <1>8
    <3>2. CASE i \in 1 .. n /\ h[i].market = handed[i].market
      BY <1>5, <3>1, <3>2
    <3>3. CASE h[i].market = front
      <4>1. Ahead(markets_[1], markets_[j + 1])
        BY <1>3, <1>5, <1>8, <3>1
      <4> QED BY <1>10, <3>1, <3>3, <4>1
    <3> QED BY <1>9, <3>2, <3>3
  <2>4. ASSUME NEW i \in 1 .. n + 1, NEW j \in 1 .. Len(answer)
        PROVE  Ahead(h[i].market, answer[j])
    <3>1. CASE i \in 1 .. n /\ h[i].market = handed[i].market
      BY <1>5, <3>1
    <3>2. CASE h[i].market = front
      <4>1. Ahead(markets_[1], answer[j])
        BY <1>3, <1>5, <1>8
      <4> QED BY <1>10, <3>2, <4>1
    <3> QED BY <1>9, <3>1, <3>2
  <2> QED BY <1>1, <1>3, <1>4, <1>6, <2>1, <2>2, <2>3, <2>4 DEF LineInv, Ahead, Off, q, h
<1>12. HandedInOrder'
  <2>1. ASSUME NEW i \in 1 .. n + 1, NEW j \in 1 .. n + 1, i < j
        PROVE  h[i].market < h[j].market
    <3>1. i \in 1 .. n /\ h[i].market = handed[i].market
      BY <1>4, <1>9, <2>1
    <3>2. CASE j \in 1 .. n /\ h[j].market = handed[j].market
      BY <1>5, <2>1, <3>1, <3>2
    <3>3. CASE h[j].market = front
      <4>1. Ahead(handed[i].market, markets_[1])
        BY <1>3, <1>5, <1>8, <3>1
      <4> QED BY <1>7, <1>10, <3>1, <3>3, <4>1 DEF Ahead
    <3> QED BY <1>9, <3>2, <3>3
  <2> QED BY <1>4, <2>1 DEF HandedInOrder, h
<1>13. ReachInv'
  <2> HIDE DEF Beats
  <2>1. Reach' = Reach
    BY <1>1 DEF Reach, to
  <2>2. ASSUME NEW i \in 1 .. k - 1
        PROVE  start[q[i]] * Beats <= Reach
    <3>1. start[markets_[i + 1]] * Beats <= Reach
      BY <1>3, <1>5, <1>8
    <3> QED BY <1>3, <1>8, <3>1
  <2>3. ASSUME NEW i \in 1 .. n + 1
        PROVE  start[h[i].market] * Beats <= Reach
    <3>1. CASE i \in 1 .. n /\ h[i].market = handed[i].market
      BY <1>5, <3>1
    <3>2. CASE h[i].market = front
      BY <1>3, <1>5, <1>8, <1>10, <3>2
    <3> QED BY <1>9, <3>1, <3>2
  <2>4. /\ gpc \in {"asking", "pushing"} => from <= now
        /\ gpc # "pushing" => answer = <<>>
        /\ \A i \in 1 .. Len(answer) : start[answer[i]] * Beats <= Reach
    BY DEF OrderInv, ReachInv
  <2> QED BY <1>1, <1>3, <1>4, <2>1, <2>2, <2>3, <2>4 DEF ReachInv, q, h
<1>14. Sorted'
  BY <1>1 DEF OrderInv, Sorted
<1> QED BY <1>11, <1>12, <1>13, <1>14

\* Every step keeps the order.
LEMMA OrderKept == OrderInv /\ [Next]_vars => OrderInv'
<1> SUFFICES ASSUME OrderInv, [Next]_vars PROVE OrderInv'
  OBVIOUS
<1>1. Typed' /\ Polled'
  BY TypedKept DEF OrderInv
<1>2. now \in Nat
  BY DEF OrderInv, Typed
<1> SUFFICES Sorted' /\ LineInv' /\ HandedInOrder' /\ ReachInv'
  BY <1>1 DEF OrderInv
<1>3. CASE GenStep
  BY <1>1, <1>3, GenWaits, AnsweredKeeps, PushKeeps DEF GenStep
<1>4. CASE RunStep
  <2>1. CASE Take
    BY <2>1, TakeKeeps
  <2>2. CASE PollLate
    <3>1. markets_ # <<>>
      BY <2>2 DEF OrderInv, Polled, PollLate, RunAt
    <3> QED BY <2>2, <3>1, PopKeeps DEF PollLate, Popped, RunAt, TakeNap
  <2>3. CASE ~ (Take \/ PollLate)
    <3>1. UNCHANGED <<now, start, markets_, answer, handed, gpc, gwake, from>>
      BY <1>4, <2>3 DEF RunStep, WaitForGen, PollFound, PollEarly, TakeNap, Napped,
                 Taken, Subscribed, Awake, RunAt
    <3> QED BY <1>1, <1>2, <3>1, OthersWait
  <2> QED BY <2>1, <2>2, <2>3
<1>5. CASE OrderStep
  <2>1. UNCHANGED <<now, start, markets_, answer, handed, gpc, gwake, from>>
    BY <1>5 DEF OrderStep, OrderConnect, OrderRefused, OrderSubscribe, OrderAwake, OrderAt
  <2> QED BY <1>1, <1>2, <2>1, OthersWait
<1>6. CASE Pass
  <2>1. UNCHANGED <<start, markets_, answer, handed, gpc, gwake, from>>
    BY <1>6 DEF Pass
  <2>2. now <= now'
    BY <1>2, <1>6, PassLater DEF OrderInv
  <2> QED BY <1>1, <2>1, <2>2, OthersWait
<1>7. CASE UNCHANGED vars
  BY <1>1, <1>2, <1>7, OthersWait DEF vars
<1> QED BY <1>3, <1>4, <1>5, <1>6, <1>7 DEF Next

\* run is handed every market at most once and the next to start first:
\* what two generations both list, at the border of their windows, is off when the
\* second lists it, so it is popped late and never handed over again.
THEOREM MarketsInOrder == Spec => []HandedInOrder
<1>1. Init => OrderInv
  <2> SUFFICES ASSUME Init PROVE OrderInv
    OBVIOUS
  <2>1. Typed /\ Polled
    BY InitTyped
  <2>2. Sorted
    BY DEF Init, Sorted
  <2>3. markets_ = <<>> /\ answer = <<>> /\ handed = <<>> /\ gpc = "asleep"
    BY DEF Init
  <2>4. ReachInv /\ LineInv /\ HandedInOrder
    BY <2>3, EmptySeq DEF ReachInv, LineInv, HandedInOrder
  <2> QED BY <2>1, <2>2, <2>4 DEF OrderInv
<1>2. OrderInv => HandedInOrder
  BY DEF OrderInv
<1> QED BY <1>1, <1>2, OrderKept, PTL DEF Spec

-----------------------------------------------------------------------------
\* run polls once in a Cycle at most, nap, subscription and sleep included.
Cycle == Nap + MaxSubscribe + 1
After(k) == k * Cycle

\* A market polled by then is not too late yet.
Latest(m) == (start[m] - Lead + 1) * Beats - 1

\* What a generation begun at t lists, and what of it may be too late already.
Window(t) == {m \in Markets : t <= start[m] * Beats /\ start[m] * Beats <= to(t)}
Soon(t) == {m \in Markets : t <= start[m] * Beats /\ start[m] <= Minute(t) + Lead}

\* run keeps up: a cycle is a minute at most, and whenever a generation begins,
\* run can pop what may be too late already, and one market more, a cycle each,
\* within a minute of it.
KeepsUp ==
    /\ Cycle <= Beats /\ Period > 0
    /\ \A t \in Nat : \A m \in Window(t) :
           LET n == Cardinality(Soon(t) \cup {m}) IN
           After(n) <= Beats /\ After(n - 1) + MaxAsk < Beats

\* When run polls next, at the latest; the front is taken in this beat, though, by
\* one that finds it in the window.
NextPoll ==
    CASE rpc \in {"waiting", "polling"} -> now
      [] rpc = "napping" -> rwake + MaxSubscribe + 1
      [] rpc = "taking" -> now + MaxSubscribe + 1
      [] rpc = "subscribing" -> rwake + 1
      [] rpc = "asleep" -> rwake
Front == IF rpc = "taking" /\ Takeable THEN now - Nap ELSE NextPoll

\* The place i of the queue has its turn in time for the market there, or in the
\* minute after it was listed.
Turn(i) == Front + After(i - 1)
InTime(i) == Turn(i) <= Latest(markets_[i]) \/ Turn(i) < from + Beats

\* The front waits for run, and so does what only markets that may be late precede.
Pressed(i) == i = 1 \/ markets_[i - 1] \in Soon(from)

TurnInv == \A i \in 1 .. Len(markets_) : Pressed(i) => InTime(i)

\* Nobody oversleeps.
DueInv ==
    /\ from <= now
    /\ gpc # "pushing" => now <= gwake
    /\ gpc = "asking" => gwake <= from + MaxAsk
    /\ gpc \in {"asking", "pushing"} => now <= from + MaxAsk
    /\ rpc \in {"napping", "subscribing", "asleep"} => now <= rwake
    /\ opc \in {"connecting", "asleep"} => now <= owake
    /\ rpc = "polling" => gpc = "asleep"

\* run began the cycle it is in before the generator began its own.
Begun ==
    CASE gpc = "asleep" -> gwake
      [] gpc = "login" -> now
      [] gpc \in {"asking", "pushing"} -> from
BusyInv ==
    rpc \in {"napping", "taking", "subscribing", "asleep"} => NextPoll < Begun + Cycle

\* The queue is empty again before the generator logs in: what is queued is of
\* one generation, once, and in order.
ListInv ==
    /\ gpc # "pushing" => answer = <<>>
    /\ markets_ # <<>> => gpc \in {"asleep", "pushing"}
    /\ markets_ # <<>> /\ gpc = "asleep" => to(from) <= gwake
    /\ \A i \in 1 .. Len(markets_) :
           markets_[i] \in Window(from) /\ from <= listed[markets_[i]]
    /\ \A i \in 1 .. Len(answer) : answer[i] \in Window(from)
    /\ \A i, j \in 1 .. Len(markets_) : i < j => markets_[i] < markets_[j]
    /\ \A i \in 1 .. Len(markets_), j \in 1 .. Len(answer) : markets_[i] < answer[j]
    /\ \A i, j \in 1 .. Len(answer) : i < j => answer[i] < answer[j]

UpInv ==
    Typed /\ Polled /\ Sorted /\ KeepsUp /\ DueInv /\ BusyInv /\ ListInv /\ TurnInv

\* Times are numbers.
LEMMA UpTimes ==
  ASSUME Typed
  PROVE  /\ now \in Nat /\ gwake \in Nat /\ from \in Nat /\ rwake \in Nat /\ owake \in Nat
         /\ session \in Nat /\ osession \in Nat
         /\ gpc \in {"asleep", "login", "asking", "pushing"}
         /\ rpc \in {"waiting", "polling", "napping", "taking", "subscribing", "asleep"}
         /\ opc \in {"waiting", "connecting", "asleep"}
         /\ NextPoll \in Nat /\ Front \in Int /\ Front <= NextPoll
         /\ rpc \in {"waiting", "polling"} => NextPoll = now
         /\ rpc = "napping" => NextPoll = rwake + MaxSubscribe + 1
         /\ rpc = "taking" => NextPoll = now + MaxSubscribe + 1
         /\ rpc = "subscribing" => NextPoll = rwake + 1
         /\ rpc = "asleep" => NextPoll = rwake
         /\ Period \in Nat /\ MaxAsk \in Nat /\ MaxSubscribe \in Nat /\ Span \in Nat
         /\ Number \in Nat
<1>1. /\ now \in Nat /\ gwake \in Nat /\ from \in Nat /\ rwake \in Nat /\ owake \in Nat
      /\ session \in Nat /\ osession \in Nat
      /\ gpc \in {"asleep", "login", "asking", "pushing"}
      /\ rpc \in {"waiting", "polling", "napping", "taking", "subscribing", "asleep"}
      /\ opc \in {"waiting", "connecting", "asleep"}
  BY DEF Typed
<1>2. NextPoll \in Nat
  BY <1>1 DEF NextPoll
<1>3. /\ rpc \in {"waiting", "polling"} => NextPoll = now
      /\ rpc = "napping" => NextPoll = rwake + MaxSubscribe + 1
      /\ rpc = "taking" => NextPoll = now + MaxSubscribe + 1
      /\ rpc = "subscribing" => NextPoll = rwake + 1
      /\ rpc = "asleep" => NextPoll = rwake
  BY DEF NextPoll
<1>4. Front \in Int /\ Front <= NextPoll
  <2>1. CASE rpc = "taking" /\ Takeable
    <3>1. Front = now - 2
      BY <2>1 DEF Front, Nap
    <3> QED BY <1>1, <1>3, <2>1, <3>1
  <2>2. CASE ~ (rpc = "taking" /\ Takeable)
    <3>1. Front = NextPoll
      BY <2>2 DEF Front
    <3> QED BY <1>2, <3>1
  <2> QED BY <2>1, <2>2
<1> QED BY <1>1, <1>2, <1>3, <1>4

\* Cycles add up.
LEMMA CyclesAddUp ==
  /\ Cycle \in Nat /\ Cycle = MaxSubscribe + 3 /\ After(0) = 0
  /\ \A k \in Int : After(k) \in Int /\ After(k + 1) = After(k) + Cycle
                    /\ After(k - 1) = After(k) - Cycle
  /\ \A j, k \in Int : j <= k => After(j) <= After(k)
<1>1. Cycle \in Nat /\ Cycle = MaxSubscribe + 3
  BY DEF Cycle, Nap
<1>2. After(0) = 0
  BY <1>1 DEF After
<1>3. ASSUME NEW k \in Int
      PROVE  After(k) \in Int /\ After(k + 1) = After(k) + Cycle
             /\ After(k - 1) = After(k) - Cycle
  <2> DEFINE c == Cycle
  <2>1. c \in Nat
    BY <1>1
  <2> HIDE DEF c
  <2>2. k * c \in Int /\ (k + 1) * c = k * c + c /\ (k - 1) * c = k * c - c
    BY <2>1, SMT
  <2> QED BY <2>2 DEF After, c
<1>4. ASSUME NEW j \in Int, NEW k \in Int, j <= k
      PROVE  After(j) <= After(k)
  <2> DEFINE c == Cycle
  <2>1. c \in Nat
    BY <1>1
  <2> HIDE DEF c
  <2>2. j * c <= k * c
    <3>1. PICK d \in Nat : k = j + d
      BY <1>4
    <3>2. k * c = j * c + d * c /\ d * c >= 0
      BY <2>1, <3>1, SMT
    <3> QED BY <2>1, <3>2
  <2> QED BY <2>2 DEF After, c
<1> QED BY <1>1, <1>2, <1>3, <1>4

\* What stands in the queue, market and time.
LEMMA QueueHolds ==
  ASSUME UpInv, NEW i \in 1 .. Len(markets_)
  PROVE  /\ markets_[i] \in Markets /\ start[markets_[i]] \in Nat
         /\ from <= start[markets_[i]] * 12
         /\ start[markets_[i]] * 12 <= to(from) /\ to(from) \in Nat
         /\ to(from) >= from + 12
         /\ Latest(markets_[i]) = start[markets_[i]] * 12 - 13
         /\ markets_ # <<>>
<1>1. Typed /\ ListInv
  BY DEF UpInv
<1>2. markets_[i] \in Markets /\ start[markets_[i]] \in Nat
  BY <1>1, QueuesTyped
<1>3. from <= start[markets_[i]] * 12 /\ start[markets_[i]] * 12 <= to(from)
  BY <1>1 DEF ListInv, Window
<1>4. to(from) \in Nat /\ to(from) >= from + 12
  <2>1. Period > 0 /\ Period \in Nat /\ from \in Nat
    BY <1>1, UpTimes DEF UpInv, KeepsUp
  <2> QED BY <2>1 DEF to
<1>5. Latest(markets_[i]) = start[markets_[i]] * 12 - 13
  BY <1>2, SMTT(60) DEF Latest, Lead
<1>6. markets_ # <<>>
  <2>1. Len(<<>>) = 0
    OBVIOUS
  <2> QED BY <2>1
<1> QED BY <1>2, <1>3, <1>4, <1>5, <1>6

\* What of a market's window the clock tells.
LEMMA WindowTimes ==
  ASSUME Typed, NEW m \in Markets
  PROVE  /\ InWindow(m) => now + 12 < start[m] * 12
         /\ ~ InWindow(m) /\ ~ TooLate(m) => now + 24 < start[m] * 12
         /\ TooLate(m) => start[m] * 12 <= now + 12
<1>1. now \in Nat /\ start[m] \in Nat /\ Span \in Nat
  BY QueuesTyped
<1> DEFINE d == now \div 12
<1>2. d \in Int /\ 12 * d <= now /\ now < 12 * d + 12
  BY <1>1
<1>3. Diff(m) = start[m] - d
  BY DEF Diff, Minute
<1> HIDE DEF d
<1>4. InWindow(m) => start[m] >= d + 2
  BY <1>1, <1>2, <1>3 DEF InWindow, Lead
<1>5. ~ InWindow(m) /\ ~ TooLate(m) => start[m] >= d + 3
  BY <1>1, <1>2, <1>3 DEF InWindow, TooLate, Lead
<1>6. TooLate(m) => start[m] <= d + 1
  BY <1>1, <1>2, <1>3 DEF TooLate, Lead
<1> QED BY <1>1, <1>2, <1>4, <1>5, <1>6

\* The front of the queue has its turn in time, or in the minute after its listing.
LEMMA FrontInTime ==
  ASSUME UpInv, markets_ # <<>>
  PROVE  /\ Head(markets_) = markets_[1] /\ 1 \in 1 .. Len(markets_)
         /\ \/ now + 13 <= start[markets_[1]] * 12
            \/ now < from + 12
<1>1. Typed
  BY DEF UpInv
<1>2. markets_ \in Seq(Markets)
  BY <1>1 DEF Typed
<1>3. Head(markets_) = markets_[1] /\ Len(markets_) \in Nat /\ Len(markets_) > 0
  BY <1>2, HeadTailProperties, LenProperties, EmptySeq
<1>4. 1 \in 1 .. Len(markets_)
  BY <1>3
<1> DEFINE m == markets_[1]
<1>5. m \in Markets /\ start[m] \in Nat /\ Latest(m) = start[m] * 12 - 13
  BY <1>4, QueueHolds
<1>6. InTime(1)
  BY <1>4 DEF UpInv, TurnInv, Pressed
<1>7. Turn(1) = Front
  BY <1>1, UpTimes, CyclesAddUp DEF Turn
<1>8. Front <= start[m] * 12 - 13 \/ Front < from + 12
  BY <1>5, <1>6, <1>7 DEF InTime
<1> HIDE DEF m
<1>9. now \in Nat /\ from \in Nat /\ Front \in Int
  BY <1>1, UpTimes
<1>10. CASE rpc = "taking" /\ Takeable
  <2>1. InWindow(m)
    BY <1>3, <1>10 DEF Takeable, m
  <2>2. now + 12 < start[m] * 12
    BY <1>1, <1>5, <2>1, WindowTimes
  <2> QED BY <1>3, <1>4, <1>5, <1>9, <2>2, SMTT(30) DEF m
<1>11. CASE ~ (rpc = "taking" /\ Takeable)
  <2>1. Front = NextPoll
    BY <1>11 DEF Front
  <2>2. now <= NextPoll
    <3>1. rpc \in {"napping", "subscribing", "asleep"} => now <= rwake
      BY DEF UpInv, DueInv
    <3>2. rwake \in Nat /\ MaxSubscribe \in Nat
      BY <1>1, UpTimes
    <3>3. CASE rpc \in {"waiting", "polling"}
      BY <1>1, <1>9, <3>3, UpTimes
    <3>4. CASE rpc = "taking"
      <4>1. NextPoll = now + MaxSubscribe + 1
        BY <1>1, <3>4, UpTimes
      <4> QED BY <1>9, <3>2, <4>1
    <3>5. CASE rpc \in {"napping", "subscribing", "asleep"}
      <4>1. NextPoll \in {rwake, rwake + 1, rwake + MaxSubscribe + 1}
        BY <1>1, <3>5, UpTimes
      <4> QED BY <1>9, <3>1, <3>2, <3>5, <4>1
    <3> QED BY <1>1, <3>3, <3>4, <3>5, UpTimes
  <2>3. now <= start[m] * 12 - 13 \/ now < from + 12
    BY <1>5, <1>8, <1>9, <2>1, <2>2, SMTT(30)
  <2> QED BY <1>3, <1>4, <1>5, <1>9, <2>3, SMTT(30) DEF m
<1> QED BY <1>10, <1>11

\* run pops all of a generation before the next one.
LEMMA EmptiedBefore ==
  ASSUME UpInv, markets_ # <<>>, gpc = "asleep"
  PROVE  now < gwake /\ (Period > 1 => now + 13 <= gwake)
<1>1. Typed /\ ListInv
  BY DEF UpInv
<1>2. to(from) <= gwake
  BY <1>1 DEF ListInv
<1>3. /\ 1 \in 1 .. Len(markets_)
      /\ now + 13 <= start[markets_[1]] * 12 \/ now < from + 12
  BY FrontInTime
<1>4. /\ start[markets_[1]] * 12 <= to(from) /\ to(from) \in Nat
      /\ to(from) >= from + 12 /\ start[markets_[1]] \in Nat
  BY <1>3, QueueHolds
<1>5. now \in Nat /\ from \in Nat /\ gwake \in Nat /\ Period \in Nat
  BY <1>1, UpTimes
<1>6. Period > 1 => to(from) >= from + 24
  BY <1>5 DEF to
<1> HIDE DEF Beats
<1> QED BY <1>2, <1>3, <1>4, <1>5, <1>6, SMTT(60)

\* Before the generator logs in the queue is empty.
LEMMA LoginFindsEmpty ==
  ASSUME UpInv, gpc = "asleep", now >= gwake
  PROVE  markets_ = <<>> /\ rpc # "polling" /\ now = gwake
<1>1. now \in Nat /\ gwake \in Nat
  BY UpTimes DEF UpInv
<1>2. markets_ = <<>>
  BY <1>1, EmptiedBefore
<1>3. now <= gwake
  BY DEF UpInv, DueInv
<1> QED BY <1>1, <1>2, <1>3 DEF UpInv, Polled

\* The clock passes over no due time.
LEMMA PassInTime ==
  ASSUME Typed, Pass
  PROVE  /\ now' \in Nat /\ now < now' /\ now' <= gwake
         /\ rpc # "waiting" => now' <= rwake
         /\ opc # "waiting" => now' <= owake
<1>1. now \in Nat /\ gwake \in Nat /\ rwake \in Nat /\ owake \in Nat
  BY DEF Typed
<1>2. /\ DueTimes \subseteq {gwake, rwake, owake} /\ gwake \in DueTimes
      /\ rpc # "waiting" => rwake \in DueTimes
      /\ opc # "waiting" => owake \in DueTimes
  BY DEF DueTimes
<1>3. PICK t \in DueTimes : \A u \in DueTimes : t <= u
  BY <1>1, <1>2, FirstOfThree
<1>4. Min(DueTimes) \in DueTimes /\ \A u \in DueTimes : Min(DueTimes) <= u
  BY <1>3 DEF Min
<1>5. now' = Min(DueTimes)
  BY DEF Pass
<1> QED BY <1>2, <1>4, <1>5, PassLater

\* Due times stay due.
LEMMA DueKept ==
  ASSUME UpInv, Typed', [Next]_vars
  PROVE  DueInv'
<1>0. Typed /\ DueInv
  BY DEF UpInv
<1>1. /\ now \in Nat /\ gwake \in Nat /\ from \in Nat /\ rwake \in Nat /\ owake \in Nat
      /\ Period \in Nat /\ MaxAsk \in Nat /\ MaxSubscribe \in Nat
      /\ gwake' \in Nat /\ rwake' \in Nat /\ owake' \in Nat
  BY <1>0, UpTimes DEF Typed
<1>2. /\ from <= now
      /\ gpc # "pushing" => now <= gwake
      /\ gpc = "asking" => gwake <= from + MaxAsk
      /\ gpc \in {"asking", "pushing"} => now <= from + MaxAsk
      /\ rpc \in {"napping", "subscribing", "asleep"} => now <= rwake
      /\ opc \in {"connecting", "asleep"} => now <= owake
      /\ rpc = "polling" => gpc = "asleep"
  BY <1>0 DEF DueInv
<1>3. CASE GenStep
  <2>1. CASE Login
    <3>1. /\ gpc' = "login" /\ now <= gwake' /\ UNCHANGED <<now, from, runVars, orderVars>>
      BY <1>1, <2>1 DEF Login, GenAt, Requested
    <3>2. rpc # "polling"
      BY <2>1, LoginFindsEmpty DEF Login, GenAt
    <3> QED BY <1>1, <1>2, <3>1, <3>2 DEF DueInv
  <2>2. CASE Ask
    <3>1. /\ gpc = "login" /\ gpc' = "asking" /\ now <= gwake' /\ gwake' <= now + MaxAsk
          /\ from' = now /\ UNCHANGED <<now, runVars, orderVars>>
      BY <1>1, <2>2 DEF Ask, GenAt, Requested
    <3> QED BY <1>1, <1>2, <3>1 DEF DueInv
  <2>3. CASE Answered
    <3>1. /\ gpc = "asking" /\ gpc' = "pushing"
          /\ UNCHANGED <<now, from, gwake, runVars, orderVars>>
      BY <2>3 DEF Answered, GenAt
    <3> QED BY <1>1, <1>2, <3>1 DEF DueInv
  <2>4. CASE Sleep
    <3>1. /\ gpc' = "asleep" /\ gwake' = now + Period * 12
          /\ UNCHANGED <<now, from, runVars, orderVars>>
      BY <2>4 DEF Sleep, calc_time
    <3> QED BY <1>1, <1>2, <3>1 DEF DueInv
  <2>5. CASE Push
    <3>1. UNCHANGED <<now, from, gpc, gwake, runVars, orderVars>>
      BY <2>5 DEF Push
    <3> QED BY <1>2, <3>1 DEF DueInv
  <2> QED BY <1>3, <2>1, <2>2, <2>3, <2>4, <2>5 DEF GenStep, AskFailed, Pushed
<1>4. CASE RunStep
  <2>1. UNCHANGED <<now, from, gpc, gwake, orderVars>>
    BY <1>4 DEF RunStep, WaitForGen, PollFound, PollLate, PollEarly, Napped, Take, Taken,
               Subscribed, Awake, RunAt
  <2>2. /\ rpc' \in {"napping", "subscribing", "asleep"} => now <= rwake'
        /\ rpc' = "polling" => gpc = "asleep"
    <3>1. CASE WaitForGen
      <4>1. rpc' = "polling" /\ gpc = "asleep"
        BY <1>0, <3>1 DEF WaitForGen, RunAt, Generated, Holding, Typed
      <4> QED BY <4>1
    <3>2. CASE PollFound \/ Napped \/ Take \/ Awake
      <4>1. rpc' \in {"taking", "waiting"}
        BY <3>2 DEF PollFound, Napped, Take, Awake, RunAt
      <4> QED BY <4>1
    <3>3. CASE PollLate \/ PollEarly
      <4>1. rpc' = "napping" /\ rwake' = now + 2
        BY <3>3 DEF PollLate, PollEarly, TakeNap, Nap
      <4> QED BY <1>1, <4>1
    <3>4. CASE Taken
      <4>1. rpc' = "subscribing" /\ now <= rwake'
        BY <1>1, <3>4 DEF Taken
      <4> QED BY <4>1
    <3>5. CASE Subscribed
      <4>1. rpc' = "asleep" /\ rwake' = now + 1
        BY <3>5 DEF Subscribed
      <4> QED BY <1>1, <4>1
    <3> QED BY <1>4, <3>1, <3>2, <3>3, <3>4, <3>5 DEF RunStep
  <2> QED BY <1>2, <2>1, <2>2 DEF DueInv
<1>5. CASE OrderStep
  <2>1. UNCHANGED <<now, from, gpc, gwake, runVars>>
    BY <1>5 DEF OrderStep, OrderConnect, OrderRefused, OrderSubscribe, OrderAwake, OrderAt
  <2>2. opc' \in {"connecting", "asleep"} => now <= owake'
    <3>1. CASE OrderConnect
      BY <1>1, <3>1 DEF OrderConnect
    <3>2. CASE OrderSubscribe
      <4>1. owake' = now + Period * 12
        BY <3>2 DEF OrderSubscribe, Renewal
      <4> QED BY <1>1, <4>1
    <3>3. CASE OrderRefused \/ OrderAwake
      <4>1. opc' = "waiting"
        BY <3>3 DEF OrderRefused, OrderAwake
      <4> QED BY <4>1
    <3> QED BY <1>5, <3>1, <3>2, <3>3 DEF OrderStep
  <2> QED BY <1>2, <2>1, <2>2 DEF DueInv
<1>6. CASE Pass
  <2>1. UNCHANGED <<from, gpc, gwake, runVars, orderVars>> /\ gpc # "pushing"
    BY <1>6 DEF Pass
  <2>2. /\ now' \in Nat /\ now < now' /\ now' <= gwake
        /\ rpc # "waiting" => now' <= rwake
        /\ opc # "waiting" => now' <= owake
    BY <1>0, <1>6, PassInTime
  <2>3. gpc \in {"asking", "pushing"} => now' <= from + MaxAsk
    BY <1>1, <1>2, <2>1, <2>2
  <2> QED BY <1>1, <1>2, <2>1, <2>2, <2>3 DEF DueInv
<1>7. CASE UNCHANGED vars
  BY <1>2, <1>7 DEF vars, DueInv
<1> QED BY <1>3, <1>4, <1>5, <1>6, <1>7 DEF Next

\* run's cycle goes on as it began, and no new one begins while the generator is
\* at work or about to be.
LEMMA BusyKept ==
  ASSUME UpInv, Typed', [Next]_vars
  PROVE  BusyInv'
<1>0. Typed /\ DueInv /\ BusyInv
  BY DEF UpInv
<1> DEFINE Busy(step) == step \in {"napping", "taking", "subscribing", "asleep"}
<1>1. /\ now \in Nat /\ gwake \in Nat /\ from \in Nat /\ rwake \in Nat
      /\ gwake' \in Nat /\ rwake' \in Nat /\ Period \in Nat /\ MaxSubscribe \in Nat
      /\ NextPoll \in Nat /\ Cycle \in Nat /\ Cycle = MaxSubscribe + 3
      /\ gpc \in {"asleep", "login", "asking", "pushing"}
  BY <1>0, UpTimes, CyclesAddUp DEF Typed
<1>2. Begun \in Nat /\ (Busy(rpc) => NextPoll < Begun + Cycle)
  BY <1>0, <1>1 DEF BusyInv, Begun
<1>3. /\ from <= now
      /\ gpc = "asleep" => Begun = gwake /\ now <= gwake
      /\ gpc = "login" => Begun = now
      /\ gpc \in {"asking", "pushing"} => Begun = from
  BY <1>0 DEF DueInv, Begun
<1>4. CASE GenStep
  <2>1. rpc' = rpc /\ now' = now /\ NextPoll' = NextPoll
    <3>1. UNCHANGED <<now, runVars>>
      BY <1>4 DEF GenStep, Login, Ask, Answered, AskFailed, Push, Pushed, Sleep
    <3> QED BY <3>1 DEF NextPoll
  <2>2. Begun <= Begun'
    <3>1. CASE Login
      <4>1. gpc = "asleep" /\ now >= gwake /\ gpc' = "login"
        BY <3>1 DEF Login, GenAt, Requested
      <4>2. Begun' = now
        BY <2>1, <4>1 DEF Begun
      <4> QED BY <1>1, <1>3, <4>1, <4>2
    <3>2. CASE Ask
      <4>1. gpc = "login" /\ gpc' = "asking" /\ from' = now
        BY <3>2 DEF Ask, GenAt, Requested
      <4>2. Begun' = now
        BY <4>1 DEF Begun
      <4> QED BY <1>1, <1>3, <4>1, <4>2
    <3>3. CASE Answered
      <4>1. gpc = "asking" /\ gpc' = "pushing" /\ from' = from
        BY <3>3 DEF Answered, GenAt
      <4>2. Begun' = from
        BY <4>1 DEF Begun
      <4> QED BY <1>1, <1>3, <4>1, <4>2
    <3>4. CASE Push
      BY <1>1, <3>4, SMTT(30) DEF Push, Begun
    <3>5. CASE AskFailed \/ Pushed
      <4>1. gpc # "asleep" /\ gpc' = "asleep" /\ gwake' = now + Period * 12
        BY <3>5 DEF AskFailed, Pushed, GenAt, Sleep, calc_time
      <4>2. Begun' = gwake'
        BY <4>1 DEF Begun
      <4>3. Begun <= now
        BY <1>1, <1>3, <4>1
      <4> QED BY <1>1, <1>2, <4>1, <4>2, <4>3
    <3> QED BY <1>4, <3>1, <3>2, <3>3, <3>4, <3>5 DEF GenStep
  <2>3. Begun' \in Nat
    <3>1. /\ gwake' \in Nat /\ now' \in Nat /\ from' \in Nat
          /\ gpc' \in {"asleep", "login", "asking", "pushing"}
      BY DEF Typed
    <3> QED BY <3>1 DEF Begun
  <2>4. Cycle' = Cycle
    BY DEF Cycle
  <2> DEFINE begun == Begun'
  <2>5. begun \in Nat /\ Begun <= begun
    BY <2>2, <2>3
  <2> HIDE DEF begun
  <2>6. NextPoll < Begun + Cycle => NextPoll < begun + Cycle
    BY <1>1, <1>2, <2>5
  <2>7. Busy(rpc') => NextPoll' < Begun' + Cycle'
    BY <1>2, <2>1, <2>4, <2>6 DEF begun
  <2> QED BY <2>7 DEF BusyInv
<1>5. CASE RunStep
  <2>1. UNCHANGED <<now, gpc, gwake, from>>
    BY <1>5 DEF RunStep, WaitForGen, PollFound, PollLate, PollEarly, Napped, Take, Taken,
               Subscribed, Awake, RunAt
  <2>2. Begun' = Begun /\ Cycle' = Cycle
    BY <2>1 DEF Begun, Cycle
  <2>3. Busy(rpc') => NextPoll' < Begun + Cycle
    <3>1. CASE WaitForGen \/ Awake
      <4>1. ~ Busy(rpc')
        BY <3>1 DEF WaitForGen, Awake
      <4> QED BY <4>1
    <3>2. CASE PollFound \/ PollLate \/ PollEarly
      <4>1. rpc = "polling" /\ gpc = "asleep" /\ markets_ # <<>>
        BY <1>0, <3>2 DEF PollFound, PollLate, PollEarly, RunAt, DueInv, UpInv, Polled
      <4>2. now < Begun
        BY <1>3, <4>1, EmptiedBefore
      <4>3. CASE PollFound
        <5>1. rpc' = "taking"
          BY <4>3 DEF PollFound
        <5>2. NextPoll' = now + MaxSubscribe + 1
          BY <2>1, <5>1 DEF NextPoll
        <5> QED BY <1>1, <1>2, <4>2, <5>2
      <4>4. CASE PollLate \/ PollEarly
        <5>1. rpc' = "napping" /\ rwake' = now + 2
          BY <4>4 DEF PollLate, PollEarly, TakeNap, Nap
        <5>2. NextPoll' = now + 2 + MaxSubscribe + 1
          BY <5>1 DEF NextPoll
        <5> QED BY <1>1, <1>2, <4>2, <5>2
      <4> QED BY <3>2, <4>3, <4>4
    <3>3. CASE Napped
      <4>1. rpc = "napping" /\ rpc' = "taking" /\ now >= rwake
        BY <3>3 DEF Napped, RunAt, Due
      <4>2. NextPoll' = now + MaxSubscribe + 1 /\ NextPoll = rwake + MaxSubscribe + 1
        BY <2>1, <4>1 DEF NextPoll
      <4>3. now = rwake
        BY <1>0, <1>1, <4>1 DEF DueInv
      <4> QED BY <1>2, <4>1, <4>2, <4>3
    <3>4. CASE Take
      <4>1. rpc = "taking" /\ rpc' = rpc /\ now' = now
        BY <3>4 DEF Take, RunAt
      <4>2. NextPoll' = NextPoll
        BY <4>1 DEF NextPoll
      <4> QED BY <1>2, <4>1, <4>2
    <3>5. CASE Taken
      <4>1. rpc = "taking" /\ rpc' = "subscribing" /\ rwake' <= now + MaxSubscribe
        BY <1>1, <3>5 DEF Taken, RunAt
      <4>2. NextPoll' = rwake' + 1 /\ NextPoll = now + MaxSubscribe + 1
        BY <4>1 DEF NextPoll
      <4>3. now + MaxSubscribe + 1 < Begun + Cycle
        BY <1>2, <4>1, <4>2
      <4> DEFINE due == rwake'
      <4>4. due \in Nat /\ due <= now + MaxSubscribe /\ NextPoll' = due + 1
        BY <1>1, <4>1, <4>2
      <4> HIDE DEF due
      <4>5. due + 1 < Begun + Cycle
        BY <1>1, <1>2, <4>3, <4>4
      <4> QED BY <4>4, <4>5
    <3>6. CASE Subscribed
      <4>1. rpc = "subscribing" /\ rpc' = "asleep" /\ rwake' = now + 1 /\ now >= rwake
        BY <3>6 DEF Subscribed, RunAt, Due
      <4>2. NextPoll' = now + 1 /\ NextPoll = rwake + 1
        BY <4>1 DEF NextPoll
      <4>3. now = rwake
        BY <1>0, <1>1, <4>1 DEF DueInv
      <4> QED BY <1>2, <4>1, <4>2, <4>3
    <3> QED BY <1>5, <3>1, <3>2, <3>3, <3>4, <3>5, <3>6 DEF RunStep
  <2> QED BY <2>2, <2>3 DEF BusyInv
<1>6. CASE Pass
  <2>1. UNCHANGED <<gpc, gwake, from, rpc, rwake>> /\ rpc # "taking" /\ rpc # "polling"
    BY <1>6 DEF Pass
  <2>2. now' \in Nat /\ now < now'
    BY <1>0, <1>6, PassLater
  <2>3. Begun <= Begun' /\ Begun' \in Nat /\ Cycle' = Cycle
    BY <1>1, <2>1, <2>2 DEF Begun, Cycle
  <2>4. Busy(rpc) => NextPoll' = NextPoll
    BY <2>1 DEF NextPoll
  <2>5. Busy(rpc') => NextPoll' < Begun' + Cycle'
    BY <1>1, <1>2, <2>1, <2>3, <2>4
  <2> QED BY <2>5 DEF BusyInv
<1>7. CASE OrderStep \/ UNCHANGED vars
  <2>1. UNCHANGED <<now, from, gpc, gwake, runVars>>
    BY <1>7 DEF OrderStep, OrderConnect, OrderRefused, OrderSubscribe, OrderAwake, OrderAt, vars
  <2> QED BY <1>0, <2>1 DEF BusyInv, NextPoll, Begun, Cycle
<1> QED BY <1>4, <1>5, <1>6, <1>7 DEF Next

\* What is queued, and what is still to be, is of one generation.
LEMMA ListKept ==
  ASSUME UpInv, Typed', [Next]_vars
  PROVE  ListInv'
<1>0. Typed /\ DueInv /\ ListInv
  BY DEF UpInv
<1>1. /\ now \in Nat /\ gwake \in Nat /\ from \in Nat /\ Period \in Nat /\ Period > 0
      /\ from <= now /\ markets_ \in Seq(Markets) /\ answer \in Seq(Markets)
      /\ Len(markets_) \in Nat /\ Len(answer) \in Nat
      /\ gpc \in {"asleep", "login", "asking", "pushing"}
      /\ \A i \in 1 .. Len(markets_) : markets_[i] \in Markets
      /\ listed \in [Markets -> Nat]
  BY <1>0, QueuesTyped DEF Typed, DueInv, UpInv, KeepsUp
<1>2. /\ gpc # "pushing" => answer = <<>>
      /\ markets_ # <<>> => gpc \in {"asleep", "pushing"}
      /\ markets_ # <<>> /\ gpc = "asleep" => to(from) <= gwake
      /\ \A i \in 1 .. Len(markets_) :
             markets_[i] \in Window(from) /\ from <= listed[markets_[i]]
      /\ \A i \in 1 .. Len(answer) : answer[i] \in Window(from)
      /\ \A i, j \in 1 .. Len(markets_) : i < j => markets_[i] < markets_[j]
      /\ \A i \in 1 .. Len(markets_), j \in 1 .. Len(answer) : markets_[i] < answer[j]
      /\ \A i, j \in 1 .. Len(answer) : i < j => answer[i] < answer[j]
  BY <1>0 DEF ListInv
<1>3. ASSUME UNCHANGED <<start, markets_, answer, listed, gpc, gwake, from>>
      PROVE  ListInv'
  <2>1. to(from)' = to(from) /\ Window(from)' = Window(from)
    BY <1>3 DEF to, Window
  <2> QED BY <1>2, <1>3, <2>1 DEF ListInv
<1>4. ASSUME markets_ # <<>>, markets_' = Tail(markets_),
             UNCHANGED <<start, answer, listed, gpc, gwake, from>>
      PROVE  ListInv'
  <2> DEFINE k == Len(markets_)
             q == markets_'
  <2>1. Len(q) = k - 1 /\ \A i \in 1 .. k - 1 : q[i] = markets_[i + 1]
    BY <1>1, <1>4, HeadTailProperties
  <2>2. /\ \A i \in 1 .. k : markets_[i] \in Window(from) /\ from <= listed[markets_[i]]
        /\ \A i, j \in 1 .. k : i < j => markets_[i] < markets_[j]
        /\ \A i \in 1 .. k, j \in 1 .. Len(answer) : markets_[i] < answer[j]
        /\ k \in Nat
    BY <1>1, <1>2
  <2> HIDE DEF k, q
  <2>3. \A i \in 1 .. k - 1 : i + 1 \in 1 .. k
    BY <2>2
  <2>4. \A i \in 1 .. k - 1 : q[i] \in Window(from) /\ from <= listed[q[i]]
    BY <2>1, <2>2, <2>3
  <2>5. ASSUME NEW i \in 1 .. k - 1, NEW j \in 1 .. k - 1, i < j
        PROVE  q[i] < q[j]
    <3>1. i + 1 < j + 1
      BY <2>2, <2>5
    <3>2. markets_[i + 1] < markets_[j + 1]
      BY <2>2, <2>3, <3>1
    <3> QED BY <2>1, <3>2
  <2>6. \A i \in 1 .. k - 1, j \in 1 .. Len(answer) : q[i] < answer[j]
    BY <2>1, <2>2, <2>3
  <2>7. to(from)' = to(from) /\ Window(from)' = Window(from)
    BY <1>4 DEF to, Window
  <2>8. /\ gpc' # "pushing" => answer' = <<>>
        /\ gpc' \in {"asleep", "pushing"}
        /\ gpc' = "asleep" => to(from)' <= gwake'
        /\ \A i \in 1 .. Len(answer') : answer'[i] \in Window(from)'
        /\ \A i, j \in 1 .. Len(answer') : i < j => answer'[i] < answer'[j]
    BY <1>2, <1>4, <2>7
  <2>9. /\ \A i \in 1 .. Len(markets_') :
               markets_'[i] \in Window(from)' /\ from' <= listed'[markets_'[i]]
        /\ \A i, j \in 1 .. Len(markets_') : i < j => markets_'[i] < markets_'[j]
        /\ \A i \in 1 .. Len(markets_'), j \in 1 .. Len(answer') : markets_'[i] < answer'[j]
    BY <1>4, <2>1, <2>4, <2>5, <2>6, <2>7 DEF q
  <2> QED BY <2>8, <2>9 DEF ListInv
<1>5. ASSUME markets_' = <<>>, answer' = <<>>
      PROVE  ListInv'
  <2>1. Len(markets_') = 0 /\ Len(answer') = 0
    BY <1>5
  <2> QED BY <1>5, <2>1 DEF ListInv
<1>6. CASE GenStep
  <2>1. CASE Login
    <3>1. gpc = "asleep" /\ now >= gwake /\ markets_' = markets_ /\ answer' = answer
      BY <2>1 DEF Login, GenAt
    <3>2. markets_ = <<>>
      BY <3>1, LoginFindsEmpty
    <3> QED BY <1>2, <1>5, <3>1, <3>2
  <2>2. CASE Ask
    <3>1. gpc = "login" /\ markets_' = markets_ /\ answer' = answer
      BY <2>2 DEF Ask, GenAt
    <3>2. markets_ = <<>> /\ answer = <<>>
      BY <1>2, <3>1
    <3> QED BY <1>5, <3>1, <3>2
  <2>3. CASE AskFailed
    <3>1. gpc \in {"login", "asking"} /\ markets_' = markets_ /\ answer' = answer
      BY <2>3 DEF AskFailed, GenAt, Sleep
    <3>2. markets_ = <<>> /\ answer = <<>>
      BY <1>2, <3>1
    <3> QED BY <1>5, <3>1, <3>2
  <2>4. CASE Answered
    <3> DEFINE S == Results
    <3>1. /\ gpc = "asking" /\ gpc' = "pushing"
          /\ UNCHANGED <<start, from, markets_>> /\ answer' \in FirstToStart(S)
      BY <2>4 DEF Answered, GenAt
    <3>2. S \in SUBSET Markets /\ S \subseteq Window(from) /\ Window(from)' = Window(from)
      BY <3>1 DEF Results, Listable, Window, to
    <3> HIDE DEF S
    <3>3. /\ \A i \in 1 .. Len(answer') : answer'[i] \in Window(from)'
          /\ \A i, j \in 1 .. Len(answer') : i < j => answer'[i] < answer'[j]
      BY <3>1, <3>2, AnswerListed
    <3>4. markets_' = <<>> /\ Len(markets_') = 0
      <4>1. markets_ = <<>>
        BY <1>2, <3>1
      <4> QED BY <3>1, <4>1
    <3> QED BY <3>1, <3>3, <3>4 DEF ListInv
  <2>5. CASE Push
    <3> DEFINE k == Len(markets_)
               l == Len(answer)
               q == markets_'
               a == answer'
    <3>1. /\ answer # <<>> /\ gpc = "pushing" /\ markets_' = Append(markets_, Head(answer))
          /\ answer' = Tail(answer) /\ listed' = [listed EXCEPT ![Head(answer)] = now]
          /\ UNCHANGED <<start, gpc, from>>
      BY <2>5 DEF Push, GenAt
    <3>2. Head(answer) = answer[1] /\ Head(answer) \in Markets /\ l > 0
      BY <1>1, <3>1, HeadTailProperties, LenProperties, EmptySeq
    <3>3. Len(a) = l - 1 /\ \A j \in 1 .. l - 1 : a[j] = answer[j + 1]
      BY <1>1, <3>1, HeadTailProperties
    <3>4. /\ Len(q) = k + 1 /\ \A i \in 1 .. k : q[i] = markets_[i]
          /\ q[k + 1] = answer[1]
      BY <1>1, <3>1, <3>2, AppendProperties
    <3>5. \A i \in 1 .. k : from <= listed'[markets_[i]]
      BY <1>1, <1>2, <3>1
    <3>6. from <= listed'[answer[1]]
      BY <1>1, <3>1, <3>2
    <3>7. /\ \A i \in 1 .. k : markets_[i] \in Window(from)
          /\ \A j \in 1 .. l : answer[j] \in Window(from)
          /\ \A i, j \in 1 .. k : i < j => markets_[i] < markets_[j]
          /\ \A i \in 1 .. k, j \in 1 .. l : markets_[i] < answer[j]
          /\ \A i, j \in 1 .. l : i < j => answer[i] < answer[j]
          /\ k \in Nat /\ l \in Nat
      BY <1>1, <1>2
    <3> HIDE DEF k, l, q, a
    <3>8. /\ \A i \in 1 .. k + 1 : i \in 1 .. k \/ i = k + 1
          /\ \A j \in 1 .. l - 1 : j + 1 \in 1 .. l /\ 1 < j + 1
          /\ 1 \in 1 .. l
      BY <3>2, <3>7
    <3>9. \A i \in 1 .. k + 1 : q[i] \in Window(from) /\ from <= listed'[q[i]]
      BY <3>4, <3>5, <3>6, <3>7, <3>8
    <3>10. ASSUME NEW i \in 1 .. k + 1, NEW j \in 1 .. k + 1, i < j
           PROVE  q[i] < q[j]
      <4>1. i \in 1 .. k
        BY <3>7, <3>10
      <4>2. CASE j \in 1 .. k
        BY <3>4, <3>7, <3>10, <4>1, <4>2
      <4>3. CASE j = k + 1
        <5>1. markets_[i] < answer[1]
          BY <3>7, <3>8, <4>1
        <5> QED BY <3>4, <4>1, <4>3, <5>1
      <4> QED BY <3>8, <4>2, <4>3
    <3>11. ASSUME NEW i \in 1 .. k + 1, NEW j \in 1 .. l - 1
           PROVE  q[i] < a[j]
      <4>1. a[j] = answer[j + 1] /\ j + 1 \in 1 .. l /\ 1 < j + 1
        BY <3>3, <3>8
      <4>2. CASE i \in 1 .. k
        BY <3>4, <3>7, <4>1, <4>2
      <4>3. CASE i = k + 1
        <5>1. answer[1] < answer[j + 1]
          BY <3>7, <3>8, <4>1
        <5> QED BY <3>4, <4>1, <4>3, <5>1
      <4> QED BY <3>8, <4>2, <4>3
    <3>12. ASSUME NEW i \in 1 .. l - 1, NEW j \in 1 .. l - 1, i < j
           PROVE  a[i] < a[j]
      <4>1. i + 1 < j + 1
        BY <3>7, <3>12
      <4>2. answer[i + 1] < answer[j + 1]
        BY <3>7, <3>8, <4>1
      <4> QED BY <3>3, <4>2
    <3>13. \A j \in 1 .. l - 1 : a[j] \in Window(from)
      BY <3>3, <3>7, <3>8
    <3>14. Window(from)' = Window(from)
      BY <3>1 DEF Window, to
    <3>15. /\ \A i \in 1 .. Len(markets_') :
                  markets_'[i] \in Window(from)' /\ from' <= listed'[markets_'[i]]
           /\ \A i, j \in 1 .. Len(markets_') : i < j => markets_'[i] < markets_'[j]
           /\ \A i \in 1 .. Len(markets_'), j \in 1 .. Len(answer') :
                  markets_'[i] < answer'[j]
           /\ \A j \in 1 .. Len(answer') : answer'[j] \in Window(from)'
           /\ \A i, j \in 1 .. Len(answer') : i < j => answer'[i] < answer'[j]
      BY <3>1, <3>3, <3>4, <3>9, <3>10, <3>11, <3>12, <3>13, <3>14 DEF q, a
    <3> QED BY <3>1, <3>15 DEF ListInv
  <2>6. CASE Pushed
    <3>1. /\ gpc' = "asleep" /\ gwake' = now + Period * 12 /\ answer = <<>>
          /\ UNCHANGED <<start, from, markets_, answer, listed>>
      BY <2>6 DEF Pushed, Sleep, calc_time
    <3>2. to(from)' <= gwake'
      BY <1>1, <3>1 DEF to
    <3>3. Window(from)' = Window(from)
      BY <3>1 DEF Window, to
    <3> QED BY <1>2, <3>1, <3>2, <3>3 DEF ListInv
  <2> QED BY <1>6, <2>1, <2>2, <2>3, <2>4, <2>5, <2>6 DEF GenStep
<1>7. CASE RunStep
  <2>1. CASE Take
    BY <1>4, <2>1 DEF Take, Takeable, RunAt
  <2>2. CASE PollLate
    <3>1. markets_ # <<>>
      BY <2>2 DEF UpInv, Polled, PollLate, RunAt
    <3> QED BY <1>4, <2>2, <3>1 DEF PollLate, Popped, RunAt
  <2>3. CASE ~ (Take \/ PollLate)
    <3>1. UNCHANGED <<start, markets_, answer, listed, gpc, gwake, from>>
      BY <1>7, <2>3 DEF RunStep, WaitForGen, PollFound, PollEarly, TakeNap, Napped,
                 Taken, Subscribed, Awake, RunAt
    <3> QED BY <1>3, <3>1
  <2> QED BY <2>1, <2>2, <2>3
<1>8. CASE OrderStep \/ Pass \/ UNCHANGED vars
  <2>1. UNCHANGED <<start, markets_, answer, listed, gpc, gwake, from>>
    BY <1>8 DEF OrderStep, OrderConnect, OrderRefused, OrderSubscribe, OrderAwake, OrderAt,
               Pass, vars
  <2> QED BY <1>3, <2>1
<1> QED BY <1>6, <1>7, <1>8 DEF Next

\* Counting up to n counts n.
LEMMA IntervalSize ==
  ASSUME NEW n \in Nat
  PROVE  IsFiniteSet(1 .. n) /\ Cardinality(1 .. n) = n
<1>1. 1 \in Int /\ n \in Int
  OBVIOUS
<1>2. IsFiniteSet(1 .. n) /\ Cardinality(1 .. n) = IF 1 > n THEN 0 ELSE n - 1 + 1
  BY <1>1, FS_Interval, Zenon
<1>3. IF 1 > n THEN 0 = n ELSE n - 1 + 1 = n
  OBVIOUS
<1>4. Cardinality(1 .. n) = n
  <2>1. CASE 1 > n
    BY <1>2, <1>3, <2>1, Zenon
  <2>2. CASE ~ (1 > n)
    BY <1>2, <1>3, <2>2, Zenon
  <2> QED BY <2>1, <2>2
<1> QED BY <1>2, <1>4, Zenon

\* The markets in front of a place, with the one in it, are as many as the place says.
LEMMA InFrontAreMany ==
  ASSUME NEW S \in SUBSET Markets, NEW n \in Nat, NEW s,
         \A i \in 1 .. n : s[i] \in S,
         \A i, j \in 1 .. n : i < j => s[i] < s[j]
  PROVE  n <= Cardinality(S) /\ Cardinality(S) \in Nat /\ Cardinality(S) <= Number
<1>1. Number \in Nat
  OBVIOUS
<1>2. IsFiniteSet(Markets) /\ Cardinality(Markets) = Number
  BY <1>1, IntervalSize DEF Markets
<1>3. IsFiniteSet(S) /\ Cardinality(S) <= Number /\ Cardinality(S) \in Nat
  BY <1>2, FS_Subset, FS_CardinalityType
<1> DEFINE f == [i \in 1 .. n |-> s[i]]
<1>4. \A i \in 1 .. n : s[i] \in Int
  <2>1. Markets \subseteq Int
    BY DEF Markets
  <2> QED BY <2>1
<1>5. \A i, j \in 1 .. n : i # j => s[i] # s[j]
  <2> TAKE i, j \in 1 .. n
  <2>1. i < j \/ j < i \/ i = j
    OBVIOUS
  <2> QED BY <1>4, <2>1
<1>6. f \in Injection(1 .. n, S)
  BY <1>5 DEF Injection, IsInjective
<1>7. IsFiniteSet(1 .. n) /\ Cardinality(1 .. n) = n
  BY IntervalSize
<1>8. Cardinality(1 .. n) <= Cardinality(S)
  BY <1>3, <1>6, FS_Injection
<1> QED BY <1>3, <1>7, <1>8

\* While run's front comes no later the queue keeps its turns.
LEMMA TurnsStay ==
  ASSUME UpInv, Typed', UNCHANGED <<start, markets_, from>>, Front' <= Front
  PROVE  TurnInv'
<1>1. Front \in Int /\ from \in Nat
  BY UpTimes DEF UpInv
<1>2. Front' \in Int
  <2>1. /\ now' \in Nat /\ rwake' \in Nat
        /\ rpc' \in {"waiting", "polling", "napping", "taking", "subscribing", "asleep"}
    BY DEF Typed
  <2>2. NextPoll' \in Int
    BY <2>1 DEF NextPoll
  <2> QED BY <2>1, <2>2 DEF Front, Nap
<1> SUFFICES ASSUME NEW i \in 1 .. Len(markets_), Pressed(i)'
             PROVE  InTime(i)'
  BY DEF TurnInv
<1>3. Pressed(i)
  BY DEF Pressed, Soon
<1>4. InTime(i)
  BY <1>3 DEF UpInv, TurnInv
<1>5. Latest(markets_[i])' = Latest(markets_[i]) /\ Latest(markets_[i]) \in Int
  <2>1. start[markets_[i]] \in Nat
    BY QueueHolds
  <2> QED BY <2>1, SMTT(60) DEF Latest, Lead
<1>6. After(i - 1) \in Int
  <2>1. i - 1 \in Int
    OBVIOUS
  <2> QED BY <2>1, CyclesAddUp
<1>7. Turn(i)' <= Turn(i) /\ Turn(i) \in Int /\ Turn(i)' \in Int
  <2> DEFINE f == Front'
             a == After(i - 1)
  <2>1. Turn(i) = Front + a /\ Turn(i)' = f + a
    BY DEF Turn, After, Cycle
  <2>2. f \in Int /\ f <= Front /\ a \in Int
    BY <1>2, <1>6
  <2> HIDE DEF f, a
  <2> QED BY <1>1, <2>1, <2>2
<1> DEFINE u == Turn(i)'
<1>8. u <= Latest(markets_[i]) \/ u < from + Beats
  <2>1. Turn(i) <= Latest(markets_[i]) \/ Turn(i) < from + Beats
    BY <1>4 DEF InTime
  <2>2. u \in Int /\ u <= Turn(i) /\ Turn(i) \in Int
    BY <1>7
  <2> HIDE DEF u
  <2> QED BY <1>1, <1>5, <2>1, <2>2
<1> QED BY <1>5, <1>8 DEF InTime

\* A place that moves up by one keeps its turn if run's front comes no more than a
\* cycle later.
LEMMA TurnsMoveUp ==
  ASSUME UpInv, markets_ # <<>>, markets_' = Tail(markets_), UNCHANGED <<start, from>>,
         Typed', Front' <= Front + Cycle,
         NEW i \in 1 .. Len(markets_'), Pressed(i + 1)
  PROVE  InTime(i)'
<1>0. Typed
  BY DEF UpInv
<1>1. /\ Len(markets_') = Len(markets_) - 1 /\ Len(markets_) \in Nat
      /\ \A j \in 1 .. Len(markets_') : markets_'[j] = markets_[j + 1]
  <2>1. markets_ \in Seq(Markets)
    BY <1>0 DEF Typed
  <2> QED BY <2>1, HeadTailProperties, LenProperties
<1>2. i + 1 \in 1 .. Len(markets_) /\ i \in Int
  BY <1>1
<1>3. PICK m \in Markets : m = markets_[i + 1] /\ m = markets_'[i]
  BY <1>1, <1>2, QueueHolds
<1>4. InTime(i + 1)
  BY <1>2 DEF UpInv, TurnInv
<1>5. Latest(m)' = Latest(m) /\ Latest(m) \in Int
  <2>1. start[m] \in Nat
    BY <1>2, <1>3, QueueHolds
  <2> QED BY <2>1, SMTT(60) DEF Latest, Lead
<1> DEFINE f == Front'
           a == After(i - 1)
<1>6. f \in Int /\ f <= Front + Cycle
  <2>1. /\ now' \in Nat /\ rwake' \in Nat
        /\ rpc' \in {"waiting", "polling", "napping", "taking", "subscribing", "asleep"}
    BY DEF Typed
  <2>2. NextPoll' \in Int
    BY <2>1, SMTT(60) DEF NextPoll
  <2> QED BY <2>1, <2>2 DEF Front, Nap
<1>7. a \in Int /\ After(i) = a + Cycle /\ Cycle \in Nat
  <2>1. After(i) \in Int /\ After(i - 1) = After(i) - Cycle /\ Cycle \in Nat
    BY <1>2, CyclesAddUp
  <2> QED BY <2>1, SMTT(30)
<1>8. Turn(i)' = f + a /\ Turn(i + 1) = Front + After(i)
  <2>1. Turn(i)' = f + a
    BY DEF Turn, After, Cycle
  <2>2. (i + 1) - 1 = i
    BY <1>2
  <2> QED BY <2>1, <2>2 DEF Turn
<1>9. Front \in Int /\ from \in Nat
  BY <1>0, UpTimes
<1> HIDE DEF f, a
<1>10. f + a <= Turn(i + 1) /\ Turn(i + 1) \in Int
  BY <1>6, <1>7, <1>8, <1>9
<1>11. Turn(i + 1) <= Latest(m) \/ Turn(i + 1) < from + Beats
  BY <1>3, <1>4 DEF InTime
<1>12. f + a <= Latest(m) \/ f + a < from + Beats
  BY <1>5, <1>6, <1>7, <1>9, <1>10, <1>11, SMTT(60)
<1> QED BY <1>3, <1>5, <1>8, <1>12 DEF InTime


\* The queue without its front keeps its turns, if the new front has one.
LEMMA TurnsWithoutFront ==
  ASSUME UpInv, Typed', markets_ # <<>>, markets_' = Tail(markets_),
         UNCHANGED <<start, from>>, Front' <= Front + Cycle,
         1 \in 1 .. Len(markets_') => markets_[1] \in Soon(from) \/ InTime(1)'
  PROVE  TurnInv'
<1> SUFFICES ASSUME NEW i \in 1 .. Len(markets_'), Pressed(i)'
             PROVE  InTime(i)'
  BY DEF TurnInv
<1>1. i \in Nat /\ Len(markets_') \in Nat
  <2>1. markets_' \in Seq(Markets)
    BY DEF Typed
  <2> QED BY <2>1, LenProperties
<1>2. CASE i = 1
  <2>1. CASE markets_[1] \in Soon(from)
    <3>1. Pressed(i + 1)
      <4>1. (i + 1) - 1 = 1
        BY <1>2
      <4> QED BY <2>1, <4>1 DEF Pressed
    <3> QED BY <3>1, TurnsMoveUp
  <2>2. CASE InTime(1)'
    BY <1>2, <2>2
  <2> QED BY <1>2, <2>1, <2>2
<1>3. CASE i # 1
  <2>1. markets_'[i - 1] \in Soon(from)
    BY <1>3 DEF Pressed, Soon, Minute
  <2>2. markets_'[i - 1] = markets_[i]
    <3>1. markets_ \in Seq(Markets)
      BY DEF UpInv, Typed
    <3>2. \A j \in 1 .. Len(markets_') : markets_'[j] = markets_[j + 1]
      BY <3>1, HeadTailProperties
    <3>3. i - 1 \in 1 .. Len(markets_') /\ (i - 1) + 1 = i
      BY <1>1, <1>3
    <3> QED BY <3>2, <3>3
  <2>3. Pressed(i + 1)
    <3>1. (i + 1) - 1 = i
      BY <1>1
    <3> QED BY <2>1, <2>2, <3>1 DEF Pressed
  <2> QED BY <2>3, TurnsMoveUp
<1> QED BY <1>2, <1>3

\* A market popped too late is one of those that were almost when listed.
LEMMA LateWereSoon ==
  ASSUME UpInv, markets_ # <<>>, TooLate(Head(markets_))
  PROVE  /\ Head(markets_) \in Soon(from) /\ Head(markets_) = markets_[1]
         /\ now < from + 12
<1>1. Typed
  BY DEF UpInv
<1>2. /\ Head(markets_) = markets_[1] /\ 1 \in 1 .. Len(markets_)
      /\ now + 13 <= start[markets_[1]] * 12 \/ now < from + 12
  BY FrontInTime
<1>3. PICK m \in Markets : m = markets_[1]
  BY <1>2, QueueHolds
<1>4. start[m] \in Nat /\ from <= start[m] * 12
  BY <1>2, <1>3, QueueHolds
<1>5. start[m] * 12 <= now + 12
  BY <1>1, <1>2, <1>3, WindowTimes
<1>6. now \in Nat /\ from \in Nat
  BY <1>1, UpTimes
<1>7. now < from + 12
  BY <1>2, <1>3, <1>4, <1>5, <1>6, SMTT(30)
<1>8. start[m] <= Minute(from) + Lead
  <2> DEFINE d == from \div 12
  <2>1. d \in Int /\ from < 12 * d + 12
    BY <1>6
  <2> HIDE DEF d
  <2>2. start[m] < d + 3
    BY <1>4, <1>5, <1>6, <1>7, <2>1
  <2>3. start[m] <= d + 2
    BY <1>4, <2>1, <2>2
  <2> QED BY <2>3 DEF Minute, Lead, d
<1> QED BY <1>2, <1>3, <1>4, <1>7, <1>8 DEF Soon

\* run polls a market that is not due yet: it has more than a cycle left, and none
\* behind it was too late when listed.
LEMMA EarlyKeepsTurns ==
  ASSUME UpInv, Typed', PollEarly
  PROVE  TurnInv'
<1>0. Typed /\ markets_ # <<>>
  BY DEF UpInv, Polled, PollEarly, RunAt
<1>1. /\ Head(markets_) = markets_[1] /\ 1 \in 1 .. Len(markets_)
  BY <1>0, FrontInTime
<1>2. PICK m \in Markets : m = markets_[1]
  BY <1>1, QueueHolds
<1>3. start[m] \in Nat /\ Latest(m) = start[m] * 12 - 13
  BY <1>1, <1>2, QueueHolds
<1>4. now + 24 < start[m] * 12
  BY <1>0, <1>1, <1>2, WindowTimes DEF PollEarly
<1>5. /\ rpc' = "napping" /\ rwake' = now + 2
      /\ UNCHANGED <<now, start, markets_, from>>
  BY DEF PollEarly, TakeNap, Nap, RunAt
<1>6. now \in Nat /\ from \in Nat /\ MaxSubscribe \in Nat /\ MaxSubscribe + 3 <= 12
      /\ from <= now
  BY <1>0, UpTimes, CyclesAddUp DEF UpInv, KeepsUp, DueInv
<1>7. Front' = now + 2 + MaxSubscribe + 1
  <2>1. NextPoll' = now + 2 + MaxSubscribe + 1
    BY <1>5 DEF NextPoll
  <2> QED BY <1>5, <2>1 DEF Front
<1>8. InTime(1)'
  <2>1. Latest(m)' = Latest(m)
    BY <1>5 DEF Latest
  <2>2. Turn(1)' = now + 2 + MaxSubscribe + 1
    <3>1. After(1 - 1)' = 0
      BY CyclesAddUp DEF After, Cycle
    <3> QED BY <1>6, <1>7, <3>1 DEF Turn
  <2>3. now + 2 + MaxSubscribe + 1 <= Latest(m)
    BY <1>3, <1>4, <1>6
  <2> QED BY <1>2, <1>5, <2>1, <2>2, <2>3 DEF InTime
<1>9. ASSUME NEW i \in 1 .. Len(markets_), i # 1
      PROVE  ~ Pressed(i)'
  <2>1. i - 1 \in 1 .. Len(markets_)
    BY <1>9
  <2>2. PICK n \in Markets : n = markets_[i - 1]
    BY <2>1, QueueHolds
  <2>3. m = n \/ m < n
    <3>1. CASE i - 1 = 1
      BY <1>2, <2>2, <3>1
    <3>2. CASE i - 1 # 1
      <4>1. 1 < i - 1
        BY <2>1, <3>2
      <4> QED BY <1>1, <1>2, <2>1, <2>2, <4>1 DEF UpInv, ListInv
    <3> QED BY <3>1, <3>2
  <2>4. start[n] \in Nat /\ start[m] <= start[n]
    <3>1. start[n] \in Nat
      BY <2>1, <2>2, QueueHolds
    <3> QED BY <1>3, <2>3, <3>1 DEF UpInv, Sorted
  <2>5. n \notin Soon(from)
    <3> DEFINE d == from \div 12
    <3>1. d \in Int /\ 12 * d <= from
      BY <1>6
    <3> HIDE DEF d
    <3>2. start[n] > d + 2
      BY <1>3, <1>4, <1>6, <2>4, <3>1, SMTT(30)
    <3>3. ~ (start[n] <= d + 2)
      BY <2>4, <3>1, <3>2, SMTT(30)
    <3> QED BY <3>3 DEF Soon, Minute, Lead, d
  <2> QED BY <1>5, <1>9, <2>2, <2>5 DEF Pressed, Soon, Minute
<1> QED BY <1>5, <1>8, <1>9 DEF TurnInv

\* A market handed over leaves the next one to be handed over in the same beat, or
\* early for another cycle.
LEMMA TakeKeepsTurns ==
  ASSUME UpInv, Typed', Take
  PROVE  TurnInv'
<1>0. /\ Typed /\ markets_ # <<>> /\ rpc = "taking" /\ Takeable /\ InWindow(Head(markets_))
      /\ markets_' = Tail(markets_) /\ UNCHANGED <<now, start, from, rpc, rwake>>
  BY DEF UpInv, Take, Takeable, RunAt
<1>1. /\ Head(markets_) = markets_[1] /\ 1 \in 1 .. Len(markets_)
  BY <1>0, FrontInTime
<1>2. /\ now \in Nat /\ from \in Nat /\ MaxSubscribe \in Nat
      /\ Cycle = MaxSubscribe + 3 /\ Cycle <= 12
  BY <1>0, UpTimes, CyclesAddUp DEF UpInv, KeepsUp
<1>3. Front = now - 2
  BY <1>0 DEF Front, Nap
<1>4. /\ Takeable' => Front' = now - 2
      /\ ~ Takeable' => Front' = now + MaxSubscribe + 1
  BY <1>0 DEF Front, NextPoll, Nap
<1>5. Front' <= Front + Cycle
  <2>1. CASE Takeable'
    BY <1>2, <1>3, <1>4, <2>1
  <2>2. CASE ~ Takeable'
    BY <1>2, <1>3, <1>4, <2>2
  <2> QED BY <2>1, <2>2
<1>6. ASSUME 1 \in 1 .. Len(markets_')
      PROVE  InTime(1)'
  <2>1. markets_ \in Seq(Markets)
    BY <1>0 DEF Typed
  <2>2. /\ Len(markets_') = Len(markets_) - 1
        /\ \A j \in 1 .. Len(markets_') : markets_'[j] = markets_[j + 1]
    BY <1>0, <2>1, HeadTailProperties
  <2>3. 2 \in 1 .. Len(markets_) /\ 1 < 2 /\ markets_'[1] = markets_[2]
    BY <1>6, <2>1, <2>2, LenProperties
  <2>4. PICK m \in Markets : m = markets_[1]
    BY <1>1, QueueHolds
  <2>5. PICK n \in Markets : n = markets_[2]
    BY <2>3, QueueHolds
  <2>6. /\ start[m] \in Nat /\ start[n] \in Nat
        /\ Latest(n) = start[n] * 12 - 13
    BY <1>1, <2>3, <2>4, <2>5, QueueHolds
  <2>7. m < n
    BY <1>1, <2>3, <2>4, <2>5 DEF UpInv, ListInv
  <2>8. start[m] <= start[n]
    BY <2>7 DEF UpInv, Sorted
  <2>9. now + 12 < start[m] * 12
    BY <1>0, <1>1, <2>4, WindowTimes
  <2>10. now + 12 < start[n] * 12
    BY <1>2, <2>6, <2>8, <2>9
  <2>11. Turn(1)' = Front'
    <3>1. After(1 - 1)' = 0
      BY CyclesAddUp DEF After, Cycle
    <3>2. Front' \in Int
      BY <1>2, <1>4
    <3> QED BY <3>1, <3>2 DEF Turn
  <2>12. Latest(n)' = Latest(n)
    BY <1>0 DEF Latest
  <2>13. Front' <= Latest(n)
    <3>1. CASE Takeable'
      BY <1>2, <1>4, <2>6, <2>10, <3>1
    <3>2. CASE ~ Takeable'
      <4>1. markets_' # <<>> /\ Head(markets_') = n
        <5>1. markets_' \in Seq(Markets)
          BY DEF Typed
        <5>2. markets_' # <<>>
          <6>1. Len(<<>>) = 0
            OBVIOUS
          <6> QED BY <1>6, <6>1
        <5> QED BY <2>3, <2>5, <5>1, <5>2, HeadTailProperties
      <4>2. ~ InWindow(n)
        BY <1>0, <3>2, <4>1 DEF Takeable, InWindow, Diff, Minute
      <4>3. ~ TooLate(n)
        <5>1. ~ (start[n] * 12 <= now + 12)
          BY <1>2, <2>6, <2>10
        <5> QED BY <1>0, <5>1, WindowTimes
      <4>4. now + 24 < start[n] * 12
        BY <1>0, <4>2, <4>3, WindowTimes
      <4> QED BY <1>2, <1>4, <2>6, <3>2, <4>4
    <3> QED BY <3>1, <3>2
  <2> QED BY <2>3, <2>5, <2>11, <2>12, <2>13 DEF InTime
<1> QED BY <1>0, <1>5, <1>6, TurnsWithoutFront

\* What is pushed behind markets that may be late has its turn within a minute of
\* the request: run keeps up.
LEMMA PushKeepsTurns ==
  ASSUME UpInv, Typed', Push
  PROVE  TurnInv'
<1>0. /\ Typed /\ gpc = "pushing" /\ answer # <<>>
      /\ markets_' = Append(markets_, Head(answer))
      /\ UNCHANGED <<now, start, from, rpc, rwake>>
  BY DEF UpInv, Push, GenAt
<1> DEFINE q == markets_'
<1>1. /\ markets_ \in Seq(Markets) /\ answer \in Seq(Markets) /\ Len(markets_) \in Nat
      /\ Head(answer) = answer[1] /\ Head(answer) \in Markets /\ 1 \in 1 .. Len(answer)
  <2>1. markets_ \in Seq(Markets) /\ answer \in Seq(Markets)
    BY <1>0 DEF Typed
  <2> QED BY <1>0, <2>1, HeadTailProperties, LenProperties, EmptySeq
<1>k. PICK k \in Nat : k = Len(markets_)
  BY <1>1
<1>2. /\ Len(q) = k + 1 /\ \A i \in 1 .. k : q[i] = markets_[i]
      /\ q[k + 1] = answer[1]
  BY <1>k, <1>0, <1>1, AppendProperties
<1>3. PICK m \in Markets : m = answer[1]
  BY <1>1
<1>4. m \in Window(from) /\ \A i \in 1 .. k : markets_[i] < m
  BY <1>k, <1>1, <1>3 DEF UpInv, ListInv
<1>5. /\ now \in Nat /\ from \in Nat /\ MaxAsk \in Nat /\ NextPoll \in Nat
      /\ Cycle \in Nat
  BY <1>0, UpTimes, CyclesAddUp
<1>6. NextPoll' = NextPoll
  BY <1>0 DEF NextPoll
<1>7. Front' \in Int /\ Front' <= NextPoll
  <2>1. CASE rpc = "taking" /\ Takeable'
    <3>1. Front' = now - 2 /\ NextPoll = now + MaxSubscribe + 1
      BY <1>0, <2>1 DEF Front, NextPoll, Nap
    <3>2. MaxSubscribe \in Nat
      OBVIOUS
    <3> QED BY <1>5, <3>1, <3>2
  <2>2. CASE ~ (rpc = "taking" /\ Takeable')
    <3>1. Front' = NextPoll
      BY <1>0, <1>6, <2>2 DEF Front
    <3> QED BY <1>5, <3>1
  <2> QED BY <2>1, <2>2
<1> HIDE DEF q
<1>8. ASSUME NEW i \in 1 .. k, Pressed(i)'
      PROVE  InTime(i)'
  <2>1. markets_ # <<>> /\ Head(markets_) = markets_[1] /\ 1 \in 1 .. k
    <3>1. markets_ # <<>>
      BY <1>k, <1>8, QueueHolds
    <3> QED BY <3>1, FrontInTime
  <2>2. q # <<>> /\ Head(q) = Head(markets_)
    <3>1. q \in Seq(Markets)
      BY DEF Typed, q
    <3>2. q # <<>>
      <4>1. Len(<<>>) = 0 /\ Len(q) > 0
        BY <1>1, <1>2
      <4> QED BY <4>1
    <3>3. Head(q) = q[1]
      BY <3>1, <3>2, HeadTailProperties
    <3> QED BY <1>2, <2>1, <3>2, <3>3
  <2>3. Takeable' <=> Takeable
    BY <1>0, <2>1, <2>2 DEF Takeable, InWindow, Diff, Minute, q
  <2>4. Front' = Front
    BY <1>0, <1>6, <2>3 DEF Front
  <2>5. Pressed(i)
    <3>1. CASE i = 1
      BY <3>1 DEF Pressed
    <3>2. CASE i # 1
      <4>1. q[i - 1] \in Soon(from)
        BY <1>0, <1>8, <3>2 DEF Pressed, Soon, Minute, q
      <4>2. i - 1 \in 1 .. k
        BY <1>1, <1>8, <3>2
      <4> QED BY <1>2, <4>1, <4>2 DEF Pressed
    <3> QED BY <3>1, <3>2
  <2>6. InTime(i)
    BY <1>k, <1>8, <2>5 DEF UpInv, TurnInv
  <2>7. Turn(i)' = Turn(i)
    BY <2>4 DEF Turn, After, Cycle
  <2>8. PICK n \in Markets : n = markets_[i] /\ n = markets_'[i]
    BY <1>k, <1>2, <1>8, QueueHolds DEF q
  <2>9. Latest(n)' = Latest(n)
    BY <1>0 DEF Latest
  <2> QED BY <1>0, <2>6, <2>7, <2>8, <2>9 DEF InTime
<1>9. ASSUME Pressed(k + 1)'
      PROVE  InTime(k + 1)'
  <2> DEFINE S == Soon(from) \cup {m}
             n == Cardinality(S)
  <2>1. After(n) <= 12 /\ After(n - 1) + MaxAsk < 12
    BY <1>4, <1>5 DEF UpInv, KeepsUp
  <2>2. S \in SUBSET Markets
    BY DEF Soon
  <2>3. (k + 1) - 1 = k
    BY <1>1
  <2>4. k = 0 \/ markets_[k] \in Soon(from)
    <3>1. CASE k = 0
      BY <3>1
    <3>2. CASE k # 0
      <4>1. k + 1 # 1 /\ k \in 1 .. k
        BY <1>1, <3>2
      <4>2. q[k] \in Soon(from)
        BY <1>0, <1>9, <2>3, <4>1 DEF Pressed, Soon, Minute, q
      <4> QED BY <1>2, <4>1, <4>2
    <3> QED BY <3>1, <3>2
  <2>5. \A i \in 1 .. k : markets_[i] \in Soon(from)
    <3> TAKE i \in 1 .. k
    <3>1. k \in Nat /\ i \in Nat /\ i <= k /\ k \in 1 .. k /\ i \in 1 .. Len(markets_)
      BY <1>k, <1>1
    <3>2. markets_[k] \in Soon(from) /\ k \in 1 .. Len(markets_)
      BY <1>k, <2>4, <3>1
    <3>3. PICK a \in Markets : a = markets_[i]
      BY <3>1, QueueHolds
    <3>4. PICK b \in Markets : b = markets_[k]
      BY <3>2, QueueHolds
    <3>5. a = b \/ a < b
      BY <3>1, <3>2, <3>3, <3>4 DEF UpInv, ListInv
    <3>6. start[a] \in Nat /\ start[b] \in Nat /\ from <= start[a] * 12
      BY <3>1, <3>2, <3>3, <3>4, QueueHolds
    <3>7. start[a] <= start[b]
      BY <3>5, <3>6 DEF UpInv, Sorted
    <3>8. start[b] <= Minute(from) + Lead
      BY <3>2, <3>4 DEF Soon
    <3>9. start[a] <= Minute(from) + Lead
      <4>1. Minute(from) + Lead \in Int
        BY <1>5 DEF Minute, Lead
      <4> QED BY <3>6, <3>7, <3>8, <4>1
    <3> QED BY <3>3, <3>6, <3>9 DEF Soon
  <2>6. k + 1 <= n /\ n \in Nat
    <3>1. k + 1 \in Nat
      BY <1>1
    <3>2. \A i \in 1 .. k + 1 : i \in 1 .. k \/ i = k + 1
      BY <1>1
    <3>3. \A i \in 1 .. k + 1 : q[i] \in S
      BY <1>2, <1>3, <2>5, <3>2
    <3>4. ASSUME NEW i \in 1 .. k + 1, NEW j \in 1 .. k + 1, i < j
          PROVE  q[i] < q[j]
      <4>1. i \in 1 .. k
        BY <1>1, <3>4
      <4>2. CASE j \in 1 .. k
        BY <1>k, <1>2, <3>4, <4>1, <4>2 DEF UpInv, ListInv
      <4>3. CASE j = k + 1
        BY <1>2, <1>3, <1>4, <4>1, <4>3
      <4> QED BY <3>2, <4>2, <4>3
    <3> HIDE DEF S
    <3> QED BY <2>2, <3>1, <3>3, <3>4, InFrontAreMany
  <2> HIDE DEF S, n
  <2>7. /\ After(k) \in Int /\ After(n - 1) \in Int /\ After(k) <= After(n - 1)
        /\ After(n - 1) = After(n) - Cycle /\ After(n) \in Int
    <3>1. k \in Int /\ n \in Int /\ n - 1 \in Int /\ k <= n - 1
      BY <1>1, <2>6
    <3> QED BY <3>1, CyclesAddUp
  <2>8. NextPoll < from + Cycle \/ NextPoll <= from + MaxAsk
    <3>1. CASE rpc \in {"napping", "taking", "subscribing", "asleep"}
      BY <1>0, <3>1 DEF UpInv, BusyInv, Begun
    <3>2. CASE rpc = "waiting"
      <4>1. NextPoll = now
        BY <3>2 DEF NextPoll
      <4> QED BY <1>0, <4>1 DEF UpInv, DueInv
    <3>3. rpc # "polling"
      BY <1>0 DEF UpInv, DueInv
    <3> QED BY <1>0, <3>1, <3>2, <3>3 DEF Typed
  <2>9. Turn(k + 1)' = Front' + After(k)
    BY <2>3 DEF Turn, After, Cycle
  <2> DEFINE f == Front'
  <2>10. f \in Int /\ f <= NextPoll
    BY <1>7
  <2> HIDE DEF f
  <2>11. f + After(k) < from + 12
    BY <1>5, <2>1, <2>7, <2>8, <2>10
  <2> QED BY <1>0, <2>9, <2>11 DEF InTime, f
<1>10. \A i \in 1 .. k + 1 : i \in 1 .. k \/ i = k + 1
  BY <1>1
<1> QED BY <1>2, <1>8, <1>9, <1>10 DEF TurnInv, q

\* Every place of the queue keeps its turn.
LEMMA TurnsKept ==
  ASSUME UpInv, Typed', [Next]_vars
  PROVE  TurnInv'
<1>0. Typed /\ DueInv
  BY DEF UpInv
<1>1. /\ now \in Nat /\ from \in Nat /\ rwake \in Nat /\ MaxSubscribe \in Nat
      /\ Front \in Int /\ NextPoll \in Nat
  BY <1>0, UpTimes
<1>2. ~ (rpc = "taking" /\ Takeable) => Front = NextPoll
  BY DEF Front
<1>3. ASSUME markets_' = <<>>
      PROVE  TurnInv'
  <2>1. Len(markets_') = 0
    BY <1>3
  <2> QED BY <2>1 DEF TurnInv
<1>4. ASSUME UNCHANGED <<now, start, from, markets_, rpc, rwake>>
      PROVE  TurnInv'
  <2>1. Front' = Front
    BY <1>4 DEF Front, NextPoll, Takeable, InWindow, Diff, Minute
  <2> QED BY <1>1, <1>4, <2>1, TurnsStay
<1>5. CASE GenStep
  <2>1. CASE Push
    BY <2>1, PushKeepsTurns
  <2>2. CASE Ask
    <3>1. gpc = "login" /\ markets_' = markets_
      BY <2>2 DEF Ask, GenAt
    <3>2. markets_ = <<>>
      BY <3>1 DEF UpInv, ListInv
    <3> QED BY <1>3, <3>1, <3>2
  <2>3. CASE ~ (Push \/ Ask)
    <3>1. UNCHANGED <<now, start, from, markets_, rpc, rwake>>
      BY <1>5, <2>3 DEF GenStep, Login, Answered, AskFailed, Pushed, Sleep
    <3> QED BY <1>4, <3>1
  <2> QED BY <2>1, <2>2, <2>3
<1>6. CASE RunStep
  <2>1. CASE WaitForGen
    <3>1. rpc = "waiting" /\ rpc' = "polling" /\ UNCHANGED <<now, start, from, markets_>>
      BY <2>1 DEF WaitForGen, RunAt
    <3>2. Front = now /\ Front' = now
      BY <3>1 DEF Front, NextPoll
    <3> QED BY <1>1, <3>1, <3>2, TurnsStay
  <2>2. CASE PollFound
    <3>1. /\ rpc = "polling" /\ rpc' = "taking" /\ InWindow(Head(markets_))
          /\ UNCHANGED <<now, start, from, markets_>>
      BY <2>2 DEF PollFound, RunAt
    <3>2. Takeable'
      BY <3>1 DEF UpInv, Polled, Takeable, InWindow, Diff, Minute
    <3>3. Front = now /\ Front' = now - 2
      BY <3>1, <3>2 DEF Front, NextPoll, Nap
    <3>4. Front' <= Front
      BY <1>1, <3>3
    <3> QED BY <3>1, <3>4, TurnsStay
  <2>3. CASE PollLate
    <3>1. /\ rpc = "polling" /\ rpc' = "napping" /\ rwake' = now + 2 /\ markets_ # <<>>
          /\ markets_' = Tail(markets_) /\ UNCHANGED <<now, start, from>>
          /\ TooLate(Head(markets_))
      BY <2>3 DEF PollLate, RunAt, TakeNap, Nap, Popped, UpInv, Polled
    <3>2. Front = now /\ Front' = now + 2 + MaxSubscribe + 1
      BY <3>1 DEF Front, NextPoll
    <3>3. Front' <= Front + Cycle
      <4>1. Cycle = MaxSubscribe + 3
        BY CyclesAddUp
      <4> QED BY <1>1, <3>2, <4>1
    <3>4. markets_[1] \in Soon(from)
      BY <3>1, LateWereSoon
    <3> QED BY <3>1, <3>3, <3>4, TurnsWithoutFront
  <2>4. CASE PollEarly
    BY <2>4, EarlyKeepsTurns
  <2>5. CASE Napped
    <3>1. /\ rpc = "napping" /\ rpc' = "taking" /\ now >= rwake
          /\ UNCHANGED <<now, start, from, markets_>>
      BY <2>5 DEF Napped, RunAt, Due
    <3>2. now = rwake
      BY <1>0, <1>1, <3>1 DEF DueInv
    <3>3. Front = now + MaxSubscribe + 1
      BY <3>1, <3>2 DEF Front, NextPoll
    <3>4. Front' = now - 2 \/ Front' = now + MaxSubscribe + 1
      BY <3>1 DEF Front, NextPoll, Nap
    <3>5. Front' <= Front
      BY <1>1, <3>3, <3>4
    <3> QED BY <3>1, <3>5, TurnsStay
  <2>6. CASE Take
    BY <2>6, TakeKeepsTurns
  <2>7. CASE Taken
    <3> DEFINE due == rwake'
    <3>1. /\ rpc = "taking" /\ ~ Takeable /\ rpc' = "subscribing"
          /\ due \in now .. now + MaxSubscribe /\ UNCHANGED <<now, start, from, markets_>>
      BY <2>7 DEF Taken, RunAt
    <3>2. Front = now + MaxSubscribe + 1 /\ Front' = due + 1
      BY <3>1 DEF Front, NextPoll
    <3> HIDE DEF due
    <3>3. due + 1 <= now + MaxSubscribe + 1
      BY <1>1, <3>1
    <3>4. Front' <= Front
      BY <3>2, <3>3
    <3> QED BY <3>1, <3>4, TurnsStay
  <2>8. CASE Subscribed
    <3>1. /\ rpc = "subscribing" /\ rpc' = "asleep" /\ rwake' = now + 1 /\ now >= rwake
          /\ UNCHANGED <<now, start, from, markets_>>
      BY <2>8 DEF Subscribed, RunAt, Due
    <3>2. now = rwake
      BY <1>0, <1>1, <3>1 DEF DueInv
    <3>3. Front = now + 1 /\ Front' = now + 1
      BY <3>1, <3>2 DEF Front, NextPoll
    <3> QED BY <1>1, <3>1, <3>3, TurnsStay
  <2>9. CASE Awake
    <3>1. /\ rpc = "asleep" /\ rpc' = "waiting" /\ now >= rwake
          /\ UNCHANGED <<now, start, from, markets_>>
      BY <2>9 DEF Awake, RunAt, Due
    <3>2. now = rwake
      BY <1>0, <1>1, <3>1 DEF DueInv
    <3>3. Front = now /\ Front' = now
      BY <3>1, <3>2 DEF Front, NextPoll
    <3> QED BY <1>1, <3>1, <3>3, TurnsStay
  <2> QED BY <1>6, <2>1, <2>2, <2>3, <2>4, <2>5, <2>6, <2>7, <2>8, <2>9 DEF RunStep
<1>7. CASE OrderStep \/ UNCHANGED vars
  <2>1. UNCHANGED <<now, start, from, markets_, rpc, rwake>>
    BY <1>7 DEF OrderStep, OrderConnect, OrderRefused, OrderSubscribe, OrderAwake, OrderAt, vars
  <2> QED BY <1>4, <2>1
<1>8. CASE Pass
  <2>1. /\ UNCHANGED <<start, from, markets_, rpc, rwake>> /\ gpc # "pushing"
        /\ rpc \in {"waiting", "napping", "subscribing", "asleep"}
        /\ rpc = "waiting" => ~ Generated
    BY <1>8 DEF Pass
  <2>2. CASE rpc = "waiting"
    <3>1. markets_ = <<>>
      <4>1. Holding \/ markets_ = <<>>
        BY <2>1, <2>2 DEF Generated
      <4>2. Holding => gpc \in {"login", "asking"}
        BY <2>1 DEF Holding
      <4> QED BY <4>1, <4>2 DEF UpInv, ListInv
    <3> QED BY <1>3, <2>1, <3>1
  <2>3. CASE rpc # "waiting"
    <3>1. Front' = Front
      BY <2>1, <2>3 DEF Front, NextPoll
    <3> QED BY <1>1, <2>1, <3>1, TurnsStay
  <2> QED BY <2>2, <2>3
<1> QED BY <1>5, <1>6, <1>7, <1>8 DEF Next

\* While run keeps up all of this is kept.
LEMMA UpKept == UpInv /\ [Next]_vars => UpInv'
<1> SUFFICES ASSUME UpInv, [Next]_vars PROVE UpInv'
  OBVIOUS
<1>1. Typed' /\ Polled'
  BY TypedKept DEF UpInv
<1>2. start' = start
  BY DEF Next, GenStep, Login, Ask, Answered, AskFailed, Push, Pushed, Sleep, RunStep, RunAt,
         WaitForGen, PollFound, PollLate, PollEarly, Napped, Take, Taken, Subscribed, Awake,
         OrderStep, OrderAt, OrderConnect, OrderRefused, OrderSubscribe, OrderAwake, Pass, vars
<1>3. Sorted'
  BY <1>2 DEF UpInv, Sorted
<1>4. KeepsUp'
  BY <1>2 DEF UpInv, KeepsUp, Window, Soon, to, Minute, After, Cycle
<1> QED BY <1>1, <1>3, <1>4, DueKept, BusyKept, ListKept, TurnsKept DEF UpInv

\* It holds to begin with: nothing is queued and nothing under way.
LEMMA UpBegins == Init /\ KeepsUp => UpInv
<1> SUFFICES ASSUME Init, KeepsUp PROVE UpInv
  OBVIOUS
<1>1. Typed /\ Polled
  BY InitTyped
<1>2. Sorted
  BY DEF Init, Sorted
<1>3. /\ now = 0 /\ from = 0 /\ gpc = "asleep" /\ gwake = 0 /\ rpc = "waiting"
      /\ opc = "waiting" /\ markets_ = <<>> /\ answer = <<>>
      /\ Len(markets_) = 0 /\ Len(answer) = 0
  BY DEF Init
<1>4. DueInv /\ BusyInv
  BY <1>3 DEF DueInv, BusyInv
<1>5. ListInv /\ TurnInv
  BY <1>3 DEF ListInv, TurnInv
<1> QED BY <1>1, <1>2, <1>4, <1>5 DEF UpInv

\* While run keeps up the queue is never longer than the catalogue: no
\* market is in it twice, for it is empty again when the next generation begins.
THEOREM QueueBounded == Spec /\ KeepsUp => []TypeOK
<1>1. UpInv => TypeOK
  <2> SUFFICES ASSUME UpInv PROVE TypeOK
    OBVIOUS
  <2>1. Typed /\ ListInv
    BY DEF UpInv
  <2> DEFINE n == Len(markets_)
  <2>2. n \in Nat /\ \A i \in 1 .. n : markets_[i] \in Markets
    BY <2>1, QueuesTyped
  <2>3. \A i, j \in 1 .. n : i < j => markets_[i] < markets_[j]
    BY <2>1 DEF ListInv
  <2> HIDE DEF n
  <2>4. n <= Cardinality(Markets) /\ Cardinality(Markets) \in Nat
        /\ Cardinality(Markets) <= Number
    BY <2>2, <2>3, InFrontAreMany
  <2>5. n <= Number
    BY <2>2, <2>4
  <2> QED BY <2>1, <2>5 DEF TypeOK, n
<1> QED BY <1>1, UpBegins, UpKept, PTL DEF Spec

\* While run keeps up no market stays in the queue a minute past its off: it
\* is taken in time, or popped in the minute after it was listed.
THEOREM QueueEmptied == Spec /\ KeepsUp => []QueueDrains
<1>1. UpInv => QueueDrains
  <2> SUFFICES ASSUME UpInv, NEW i \in 1 .. Len(markets_)
               PROVE  now < (start[markets_[i]] + 1) * Beats
    BY DEF QueueDrains
  <2>1. Typed /\ ListInv /\ Sorted
    BY DEF UpInv
  <2>2. PICK n \in Markets : n = markets_[i]
    BY QueueHolds
  <2>3. start[n] \in Nat /\ from <= start[n] * 12 /\ markets_ # <<>>
    BY <2>2, QueueHolds
  <2>4. /\ 1 \in 1 .. Len(markets_)
        /\ now + 13 <= start[markets_[1]] * 12 \/ now < from + 12
    BY <2>3, FrontInTime
  <2>5. PICK m \in Markets : m = markets_[1]
    BY <2>4, QueueHolds
  <2>6. start[m] \in Nat
    BY <2>4, <2>5, QueueHolds
  <2>7. m = n \/ m < n
    <3>1. CASE i = 1
      BY <2>2, <2>5, <3>1
    <3>2. CASE i # 1
      <4>1. 1 < i
        BY <3>2
      <4> QED BY <2>1, <2>2, <2>4, <2>5, <4>1 DEF ListInv
    <3> QED BY <3>1, <3>2
  <2>8. start[m] <= start[n]
    BY <2>1, <2>3, <2>7 DEF Sorted
  <2>9. now \in Nat /\ from \in Nat
    BY <2>1, UpTimes
  <2>10. now < (start[n] + 1) * 12
    <3>1. CASE now + 13 <= start[m] * 12
      <4> DEFINE a == start[m]
                 b == start[n]
      <4>1. a \in Nat /\ b \in Nat /\ a <= b /\ now + 13 <= a * 12
        BY <2>3, <2>6, <2>8, <3>1
      <4> HIDE DEF a, b
      <4>2. now < (b + 1) * 12
        BY <2>9, <4>1, SMTT(60)
      <4> QED BY <4>2 DEF b
    <3>2. CASE now < from + 12
      BY <2>3, <2>9, <3>2, SMTT(60)
    <3> QED BY <2>4, <2>5, <3>1, <3>2
  <2> QED BY <2>2, <2>10
<1> QED BY <1>1, UpBegins, UpKept, PTL DEF Spec

\* While run keeps up no market is dropped that was listed with more than Lead
\* minutes to its off: the naps and subscriptions before it do not make it late.
THEOREM OnlyLateDropped == Spec /\ KeepsUp => []DropOnlyLate
<1>1. Init => DropOnlyLate
  BY DEF Init, DropOnlyLate
<1>2. UpInv /\ DropOnlyLate /\ [Next]_vars => DropOnlyLate'
  <2> SUFFICES ASSUME UpInv, DropOnlyLate, [Next]_vars PROVE DropOnlyLate'
    OBVIOUS
  <2>1. CASE PollLate
    <3>1. /\ rpc = "polling" /\ TooLate(Head(markets_)) /\ UNCHANGED start
          /\ dropped' = dropped \cup {[market |-> Head(markets_),
                                       listed |-> listed[Head(markets_)]]}
      BY <2>1 DEF PollLate, RunAt
    <3>2. Typed /\ markets_ # <<>>
      BY <3>1 DEF UpInv, Polled
    <3>3. Head(markets_) = markets_[1] /\ 1 \in 1 .. Len(markets_) /\ now < from + 12
      BY <3>1, <3>2, FrontInTime, LateWereSoon
    <3>4. PICK m \in Markets : m = markets_[1]
      BY <3>3, QueueHolds
    <3>5. from <= listed[m] /\ listed[m] \in Nat
      BY <3>2, <3>3, <3>4 DEF UpInv, ListInv, Typed
    <3>6. start[m] \in Nat /\ start[m] * 12 <= now + 12
      BY <3>1, <3>2, <3>3, <3>4, WindowTimes, QueueHolds
    <3>7. start[m] <= Minute(listed[m]) + Lead
      <4> DEFINE l == listed[m]
                 d == l \div 12
      <4>1. l \in Nat /\ d \in Int /\ l < 12 * d + 12
        BY <3>5
      <4>2. now \in Nat /\ from \in Nat /\ from <= l
        BY <3>2, <3>5, UpTimes
      <4> HIDE DEF l, d
      <4>3. start[m] < d + 3
        BY <3>3, <3>6, <4>1, <4>2
      <4>4. start[m] <= d + 2
        BY <3>6, <4>1, <4>3
      <4> QED BY <4>4 DEF Minute, Lead, l, d
    <3>8. \A d \in dropped : start[d.market] <= Minute(d.listed) + Lead
      BY DEF DropOnlyLate
    <3>9. \A d \in dropped' : start[d.market] <= Minute(d.listed) + Lead
      BY <3>1, <3>3, <3>4, <3>7, <3>8
    <3> QED BY <3>1, <3>9 DEF DropOnlyLate, Minute
  <2>2. CASE ~ PollLate
    <3>1. UNCHANGED <<start, dropped>>
      BY <2>2 DEF Next, GenStep, Login, Ask, Answered, AskFailed, Push, Pushed, Sleep, RunStep,
             RunAt, WaitForGen, PollFound, PollEarly, Napped, Take, Taken, Subscribed, Awake,
             OrderStep, OrderAt, OrderConnect, OrderRefused, OrderSubscribe, OrderAwake, Pass,
             vars
    <3> QED BY <3>1 DEF DropOnlyLate, Minute
  <2> QED BY <2>1, <2>2
<1> QED BY <1>1, <1>2, UpBegins, UpKept, PTL DEF Spec

-----------------------------------------------------------------------------
\* The stream's hour began with the last session and ends before the one after the
\* next; or it is one behind and ends before the next.  A stream is only opened
\* while something is queued, and then the generator still sleeps for long enough.
RecentInv ==
    /\ opc = "connecting" => gpc = "asleep" /\ owake < gwake
    /\ opc = "asleep" =>
         \/ osession = session /\ gpc \in {"asleep", "login"} /\ owake < gwake + Renewal
         \/ osession + 1 = session /\ gpc \in {"asking", "pushing"} /\ owake < now + Renewal
         \/ osession + 1 = session /\ gpc = "asleep" /\ owake < gwake

\* Every step keeps it, if a generation's window is longer than a minute.
LEMMA RecentKept ==
  ASSUME Period > 1, UpInv, Typed', RecentInv, [Next]_vars
  PROVE  RecentInv'
<1>0. Typed /\ DueInv
  BY DEF UpInv
<1>1. /\ now \in Nat /\ gwake \in Nat /\ owake \in Nat /\ session \in Nat
      /\ osession \in Nat /\ Renewal \in Nat /\ calc_time = Renewal
      /\ MaxSubscribe \in Nat /\ MaxSubscribe + 3 <= 12 /\ gwake' \in Nat /\ owake' \in Nat
  <2>1. Renewal \in Nat /\ calc_time = Renewal
    BY DEF Renewal, calc_time
  <2> QED BY <1>0, <2>1, UpTimes, CyclesAddUp DEF UpInv, KeepsUp, Typed
<1>2. /\ gpc # "pushing" => now <= gwake
      /\ opc \in {"connecting", "asleep"} => now <= owake
  BY <1>0 DEF DueInv
<1> DEFINE hour == Renewal
           Fresh == osession = session /\ gpc \in {"asleep", "login"} /\ owake < gwake + hour
           Behind == osession + 1 = session /\ gpc \in {"asking", "pushing"} /\ owake < now + hour
           Ending == osession + 1 = session /\ gpc = "asleep" /\ owake < gwake
<1>3. /\ opc = "connecting" => gpc = "asleep" /\ owake < gwake
      /\ opc = "asleep" => Fresh \/ Behind \/ Ending
  BY DEF RecentInv
<1>4. hour' = hour
  BY DEF Renewal
<1> SUFFICES /\ opc' = "connecting" => gpc' = "asleep" /\ owake' < gwake'
             /\ opc' = "asleep" => Fresh' \/ Behind' \/ Ending'
  BY DEF RecentInv
<1> HIDE DEF hour
<1>5. hour \in Nat
  BY <1>1 DEF hour
<1>6. CASE GenStep
  <2>1. CASE Login
    <3>1. /\ gpc = "asleep" /\ gpc' = "login" /\ now >= gwake /\ gwake' >= now
          /\ UNCHANGED <<now, session, orderVars>>
      BY <1>1, <2>1 DEF Login, GenAt, Requested
    <3>2. gwake = now /\ opc # "connecting"
      BY <1>1, <1>2, <1>3, <3>1
    <3>3. opc = "asleep" => Fresh
      BY <1>1, <1>2, <1>3, <3>1, <3>2
    <3>4. opc = "asleep" => osession = session /\ owake < gwake' + hour
      <4> DEFINE due == gwake'
      <4>1. due \in Nat /\ gwake <= due
        BY <1>1, <3>1, <3>2
      <4> HIDE DEF due
      <4>2. owake < gwake + hour => owake < due + hour
        BY <1>1, <1>5, <4>1
      <4> QED BY <3>3, <4>2 DEF due
    <3> QED BY <1>4, <3>1, <3>2, <3>4
  <2>2. CASE Ask
    <3>1. /\ gpc = "login" /\ gpc' = "asking" /\ now >= gwake /\ session' = session + 1
          /\ UNCHANGED <<now, orderVars>>
      BY <1>1, <2>2 DEF Ask, GenAt, Requested
    <3>2. opc # "connecting" /\ (opc = "asleep" => Fresh)
      BY <1>3, <3>1
    <3>3. opc = "asleep" => osession + 1 = session' /\ owake < now + hour
      BY <1>1, <1>2, <1>5, <3>1, <3>2
    <3> QED BY <1>4, <3>1, <3>2, <3>3
  <2>3. CASE Answered
    <3>1. /\ gpc = "asking" /\ gpc' = "pushing" /\ UNCHANGED <<now, session, orderVars>>
      BY <2>3 DEF Answered, GenAt
    <3> QED BY <1>3, <1>4, <3>1
  <2>4. CASE AskFailed \/ Pushed
    <3>1. /\ gpc \in {"login", "asking", "pushing"} /\ gpc' = "asleep" /\ now >= gwake
          /\ gwake' = now + hour /\ UNCHANGED <<now, session, orderVars>>
      BY <1>1, <2>4 DEF AskFailed, Pushed, GenAt, Sleep, hour
    <3>2. opc # "connecting" /\ (opc = "asleep" => Fresh \/ Behind)
      BY <1>3, <3>1
    <3>3. CASE Fresh
      <4>1. owake < gwake' + hour
        BY <1>1, <1>5, <3>1, <3>3
      <4> QED BY <1>4, <3>1, <3>2, <3>3, <4>1
    <3>4. CASE Behind
      <4>1. owake < gwake'
        BY <3>1, <3>4
      <4> QED BY <1>4, <3>1, <3>2, <3>4, <4>1
    <3>5. CASE opc # "asleep"
      BY <3>1, <3>2, <3>5
    <3> QED BY <3>2, <3>3, <3>4, <3>5
  <2>5. CASE Push
    <3>1. UNCHANGED <<now, session, gpc, gwake, orderVars>>
      BY <2>5 DEF Push
    <3> QED BY <1>3, <1>4, <3>1
  <2> QED BY <1>6, <2>1, <2>2, <2>3, <2>4, <2>5 DEF GenStep
<1>7. CASE RunStep \/ UNCHANGED vars
  <2>1. UNCHANGED <<now, session, gpc, gwake, orderVars>>
    BY <1>7 DEF RunStep, WaitForGen, PollFound, PollLate, PollEarly, Napped, Take, Taken,
               Subscribed, Awake, RunAt, vars
  <2> QED BY <1>3, <1>4, <2>1
<1>8. CASE OrderStep
  <2>1. UNCHANGED <<now, session, gpc, gwake>>
    BY <1>8 DEF OrderStep, OrderConnect, OrderRefused, OrderSubscribe, OrderAwake, OrderAt
  <2>2. CASE OrderConnect
    <3>1. /\ opc' = "connecting" /\ owake' <= now + MaxSubscribe
          /\ markets_ # <<>> /\ gpc = "asleep"
      BY <1>0, <1>1, <2>2 DEF OrderConnect, OrderAt, Generated, Holding, Typed
    <3>2. now + 13 <= gwake
      BY <3>1, EmptiedBefore
    <3>3. owake' < gwake
      BY <1>1, <3>1, <3>2
    <3> QED BY <2>1, <3>1, <3>3
  <2>3. CASE OrderSubscribe
    <3>1. /\ opc = "connecting" /\ opc' = "asleep" /\ osession' = session
          /\ owake' = now + hour
      BY <2>3 DEF OrderSubscribe, OrderAt, hour
    <3>2. gpc = "asleep" /\ now < gwake
      BY <1>1, <1>2, <1>3, <3>1
    <3>3. owake' < gwake + hour
      BY <1>1, <1>5, <3>1, <3>2
    <3> QED BY <1>4, <2>1, <3>1, <3>2, <3>3
  <2>4. CASE OrderRefused \/ OrderAwake
    <3>1. opc' = "waiting"
      BY <2>4 DEF OrderRefused, OrderAwake
    <3> QED BY <3>1
  <2> QED BY <1>8, <2>2, <2>3, <2>4 DEF OrderStep
<1>9. CASE Pass
  <2>1. UNCHANGED <<session, gpc, gwake, orderVars>>
    BY <1>9 DEF Pass
  <2>2. now' \in Nat /\ now < now'
    BY <1>0, <1>9, PassLater
  <2>3. owake < now + hour => owake < now' + hour
    <3> DEFINE later == now'
    <3>1. later \in Nat /\ now < later
      BY <2>2
    <3> HIDE DEF later
    <3>2. owake < now + hour => owake < later + hour
      BY <1>1, <1>5, <3>1
    <3> QED BY <3>2 DEF later
  <2> QED BY <1>3, <1>4, <2>1, <2>3
<1> QED BY <1>6, <1>7, <1>8, <1>9 DEF Next

\* While run keeps up, and a generation's window is longer than a minute, the
\* stream of orders is one session behind the logins at most, in its last beat, too.
THEOREM SessionRecent ==
  ASSUME Period > 1
  PROVE  Spec /\ KeepsUp => []OrderSessionRecent
<1>1. Init => RecentInv
  BY DEF Init, RecentInv
<1>2. Typed /\ RecentInv => OrderSessionRecent
  <2> SUFFICES ASSUME Typed, RecentInv, opc = "asleep" PROVE osession + 1 >= session
    BY DEF OrderSessionRecent
  <2>1. session \in Nat /\ osession \in Nat
    BY DEF Typed
  <2>2. osession = session \/ osession + 1 = session
    BY DEF RecentInv
  <2> QED BY <2>1, <2>2
<1>3. UpInv /\ RecentInv /\ [Next]_vars => RecentInv'
  BY TypedKept, RecentKept DEF UpInv
<1>4. UpInv => Typed
  BY DEF UpInv
<1> QED BY <1>1, <1>2, <1>3, <1>4, UpBegins, UpKept, PTL DEF Spec

\* A catalogue small enough is always kept up with, whenever its markets start.
LEMMA SmallKeepsUp ==
  ASSUME Cycle <= Beats, Period > 0,
         After(Number) <= Beats, After(Number - 1) + MaxAsk < Beats
  PROVE  KeepsUp
<1>1. Number \in Nat /\ MaxAsk \in Nat
  OBVIOUS
<1> SUFFICES ASSUME NEW t \in Nat, NEW m \in Window(t)
             PROVE  LET n == Cardinality(Soon(t) \cup {m}) IN
                    After(n) <= Beats /\ After(n - 1) + MaxAsk < Beats
  BY DEF KeepsUp
<1> DEFINE S == Soon(t) \cup {m}
           n == Cardinality(S)
<1>2. S \in SUBSET Markets
  BY DEF Soon, Window
<1>3. n \in Nat /\ n <= Number
  <2>1. IsFiniteSet(Markets) /\ Cardinality(Markets) = Number
    BY <1>1, IntervalSize DEF Markets
  <2> QED BY <1>2, <2>1, FS_Subset, FS_CardinalityType
<1> HIDE DEF S, n
<1>4. After(n) <= After(Number) /\ After(n - 1) <= After(Number - 1)
  <2>1. n \in Int /\ Number \in Int /\ n - 1 \in Int /\ Number - 1 \in Int
        /\ n <= Number /\ n - 1 <= Number - 1
    BY <1>1, <1>3
  <2> QED BY <2>1, CyclesAddUp
<1>5. After(n) \in Int /\ After(Number) \in Int
      /\ After(n - 1) \in Int /\ After(Number - 1) \in Int
  <2>1. n \in Int /\ Number \in Int /\ n - 1 \in Int /\ Number - 1 \in Int
    BY <1>1, <1>3
  <2> QED BY <2>1, CyclesAddUp
<1>6. After(n) <= Beats /\ After(n - 1) + MaxAsk < Beats
  BY <1>1, <1>4, <1>5
<1> QED BY <1>6 DEF S, n

\* A catalogue that run can work through in a minute, as the run's, needs
\* nothing else: the queue is bounded and drained, nothing is dropped but what was
\* late already, and the stream of orders keeps up, for any times of start.
THEOREM SmallCatalogueServed ==
  ASSUME Cycle <= Beats, Period > 1,
         After(Number) <= Beats, After(Number - 1) + MaxAsk < Beats
  PROVE  Spec => [](TypeOK /\ QueueDrains /\ DropOnlyLate /\ OrderSessionRecent)
<1>1. KeepsUp
  BY SmallKeepsUp
<1> QED BY <1>1, QueueBounded, QueueEmptied, OnlyLateDropped, SessionRecent, PTL
=============================================================================
