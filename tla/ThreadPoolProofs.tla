-------------------------- MODULE ThreadPoolProofs --------------------------
(***************************************************************************)
(* Theorems about ThreadPool for any number of threads and of jobs.        *)
(***************************************************************************)
EXTENDS ThreadPool, FiniteSetTheorems, TLAPS

Pending == IF opc = "notify" THEN 1 ELSE 0

\* The mutex is held exactly by the thread that evaluates the predicate.
MutexInv == \A t \in Threads : pc[t] \in {"check", "test"} <=> mutex = t

\* Which step a thread is at says what it holds and whether it sleeps.
StepInv ==
    \A t \in Threads :
        /\ job[t] # NoJob <=> pc[t] = "run"
        /\ t \in waiting => pc[t] = "wait"

\* The owner's step says whether the pool is being stopped.  A thread that has
\* found the queue empty keeps the owner from finishing a push, hence from
\* stopping, until it sleeps: it leaves only when nothing is left.
DoneInv ==
    /\ isDone <=> opc \in {"notify_all", "join", "gone"}
    /\ \A t \in Threads :
        /\ pc[t] = "test" => q = <<>> \/ opc = "notify"
        /\ pc[t] = "exit" => isDone /\ q = <<>>

\* A thread at "test" is about to sleep, and its wake-up must be on its way too.
AwakeInv ==
    waiting # {} \/ (\E t \in Threads : pc[t] = "test")
        => Len(q) <= Cardinality(Heading) + Pending

ControlInv == TypeOK /\ MutexInv /\ StepInv /\ DoneInv
Inv == ControlInv /\ AwakeInv

-----------------------------------------------------------------------------

USE ThreadsAssumption, NamesAssumption, MaxJobsAssumption
    DEF owner, Jobs, NoJob, Go, OwnerGo, ThreadsRest

\* The initial state satisfies every part of the invariant.
LEMMA InitInv == Init => Inv
<1> SUFFICES ASSUME Init PROVE Inv
  OBVIOUS
<1> USE DEF Init
<1>1. TypeOK
  <2>1. isDone \in BOOLEAN
    BY Zenon
  <2>2. q \in Seq(Jobs)
    BY SMT
  <2> QED BY <2>1, <2>2 DEF TypeOK
<1>2. MutexInv /\ StepInv /\ DoneInv
  BY DEF MutexInv, StepInv, DoneInv
<1>3. AwakeInv
  BY DEF AwakeInv
<1> QED BY <1>1, <1>2, <1>3 DEF Inv, ControlInv

\* Every step preserves the types and what the steps of the threads imply.
LEMMA NextControl == ControlInv /\ [Next]_vars => ControlInv'
<1> SUFFICES ASSUME ControlInv, [Next]_vars PROVE ControlInv'
  OBVIOUS
<1> USE DEF ControlInv, TypeOK, MutexInv, StepInv, DoneInv
<1>1. ASSUME NEW t \in Threads, PopFound(t) PROVE ControlInv'
  BY <1>1 DEF PopFound, Take
<1>2. ASSUME NEW t \in Threads, PopEmpty(t) PROVE ControlInv'
  BY <1>2 DEF PopEmpty
<1>3. ASSUME NEW t \in Threads, Run(t) PROVE ControlInv'
  BY <1>3 DEF Run
<1>4. ASSUME NEW t \in Threads, Lock(t) PROVE ControlInv'
  BY <1>4 DEF Lock
<1>5. ASSUME NEW t \in Threads, CheckFound(t) PROVE ControlInv'
  BY <1>5 DEF CheckFound, Take
<1>6. ASSUME NEW t \in Threads, CheckEmpty(t) PROVE ControlInv'
  BY <1>6 DEF CheckEmpty
<1>7. ASSUME NEW t \in Threads, Exit(t) PROVE ControlInv'
  BY <1>7 DEF Exit
<1>8. ASSUME NEW t \in Threads, Sleep(t) PROVE ControlInv'
  BY <1>8 DEF Sleep
<1>9. ASSUME NEW t \in Threads, Notified(t) \/ Spurious(t) PROVE ControlInv'
  <2>1. Wake(t)
    BY <1>9 DEF Notified, Spurious
  <2>2. TypeOK'
    BY <2>1 DEF Wake
  <2>3. MutexInv'
    BY <2>1 DEF Wake
  <2>4. StepInv'
    BY <2>1 DEF Wake
  <2>5. DoneInv'
    BY <2>1 DEF Wake
  <2> QED BY <2>2, <2>3, <2>4, <2>5
<1>10. CASE Push
  BY <1>10 DEF Push
<1>11. CASE NotifyOne
  BY <1>11 DEF NotifyOne
<1>12. CASE Stop
  BY <1>12 DEF Stop
<1>13. CASE NotifyAll
  BY <1>13 DEF NotifyAll
<1>14. CASE Join
  BY <1>14 DEF Join
<1>15. CASE UNCHANGED vars
  BY <1>15 DEF vars
<1> QED
  BY <1>1, <1>2, <1>3, <1>4, <1>5, <1>6, <1>7, <1>8, <1>9, <1>10, <1>11, <1>12,
     <1>13, <1>14, <1>15
  DEF Next, OwnerStep, ThreadStep

\* The threads on their way are finitely many: one more, or one less, counts.
LEMMA HeadingCounts ==
    /\ IsFiniteSet(Heading) /\ Cardinality(Heading) \in Nat
    /\ \A t \in Threads :
          /\ t \notin Heading =>
                Cardinality(Heading \cup {t}) = Cardinality(Heading) + 1
          /\ t \in Heading =>
                Cardinality(Heading \ {t}) = Cardinality(Heading) - 1
<1>1. IsFiniteSet(Heading)
  <2>1. Heading \in SUBSET Threads
    BY DEF Heading
  <2> QED BY <2>1, FS_Subset
<1> QED BY <1>1, FS_CardinalityType, FS_AddElement, FS_RemoveElement

\* A thread that takes a job leaves the way as the job leaves the queue.
LEMMA TakeAwake ==
    ASSUME Inv, NEW t \in Threads, PopFound(t) \/ CheckFound(t)
    PROVE  AwakeInv'
<1> USE DEF Inv, ControlInv, TypeOK, MutexInv, StepInv
<1>1. t \in Heading /\ Heading' = Heading \ {t}
  BY DEF PopFound, CheckFound, Take, Heading
<1>2. Len(q') = Len(q) - 1
  BY DEF PopFound, CheckFound, Take
<1>3. /\ waiting' = waiting /\ Pending' = Pending
      /\ \A u \in Threads : pc'[u] = "test" => pc[u] = "test"
  BY DEF PopFound, CheckFound, Pending
<1>4. Cardinality(Heading') = Cardinality(Heading) - 1
  BY <1>1, HeadingCounts
<1>5. Len(q) \in Nat /\ Pending \in Nat
  BY DEF Pending
<1> QED BY <1>2, <1>3, <1>4, <1>5, HeadingCounts DEF AwakeInv

\* A thread whose job ends, or that wakes for nothing, is one more on its way.
LEMMA ComeAwake ==
    ASSUME Inv, NEW t \in Threads, Run(t) \/ Spurious(t)
    PROVE  AwakeInv'
<1> USE DEF Inv, ControlInv, TypeOK, MutexInv, StepInv
<1>1. t \notin Heading /\ Heading' = Heading \cup {t}
  BY DEF Run, Spurious, Wake, Heading
<1>2. /\ q' = q /\ waiting' \subseteq waiting /\ Pending' = Pending
      /\ \A u \in Threads : pc'[u] = "test" => pc[u] = "test"
  BY DEF Run, Spurious, Wake, Pending
<1>3. Cardinality(Heading') = Cardinality(Heading) + 1
  BY <1>1, HeadingCounts
<1>4. Len(q) \in Nat /\ Pending \in Nat
  BY DEF Pending
<1> QED BY <1>2, <1>3, <1>4, HeadingCounts DEF AwakeInv

\* Woken with the mutex free, a sleeper is on its way, and the only threads
\* that could still fall asleep hold the mutex.
LEMMA WokenAwake ==
    ASSUME Inv, NotifyOne
    PROVE  AwakeInv'
<1> USE DEF Inv, ControlInv, TypeOK, MutexInv, StepInv
<1>1. \A u \in Threads : pc'[u] # "test"
  BY DEF NotifyOne
<1>2. CASE waiting = {}
  BY <1>1, <1>2 DEF NotifyOne, OneWoken, AwakeInv
<1>3. CASE waiting # {}
  <2>1. PICK t \in waiting : waiting' = waiting \ {t}
    BY <1>3 DEF NotifyOne, OneWoken
  <2>2. t \in Threads /\ t \notin Heading /\ Heading' = Heading \cup {t}
    BY <2>1 DEF NotifyOne, Heading
  <2>3. Cardinality(Heading') = Cardinality(Heading) + 1
    BY <2>2, HeadingCounts
  <2>4. q' = q /\ Pending = 1 /\ Pending' = 0
    BY DEF NotifyOne, Pending
  <2> QED BY <1>3, <2>3, <2>4, HeadingCounts DEF AwakeInv
<1> QED BY <1>2, <1>3

\* No step leaves a thread asleep, or about to be, for a job nobody heads for.
LEMMA NextAwake == Inv /\ [Next]_vars => AwakeInv'
<1> SUFFICES ASSUME Inv, [Next]_vars PROVE AwakeInv'
  OBVIOUS
<1> USE DEF Inv, ControlInv, TypeOK, MutexInv, StepInv
<1>1. ASSUME NEW t \in Threads,
             PopEmpty(t) \/ Lock(t) \/ Exit(t) \/ Sleep(t) \/ Notified(t)
      PROVE  AwakeInv'
  <2>1. Heading' = Heading
    BY <1>1 DEF PopEmpty, Lock, Exit, Sleep, Notified, Wake, Heading
  <2>2. q' = q /\ Pending' = Pending
    BY <1>1 DEF PopEmpty, Lock, Exit, Sleep, Notified, Wake, Pending
  <2>3. (waiting' # {} \/ \E u \in Threads : pc'[u] = "test")
            => (waiting # {} \/ \E u \in Threads : pc[u] = "test")
    BY <1>1 DEF PopEmpty, Lock, Exit, Sleep, Notified, Wake
  <2> QED BY <2>1, <2>2, <2>3 DEF AwakeInv
<1>2. ASSUME NEW t \in Threads, CheckEmpty(t) PROVE AwakeInv'
  <2>1. Len(q') = 0 /\ Pending' \in Nat
    BY <1>2 DEF CheckEmpty, Pending
  <2>2. t \in Heading /\ Heading' = Heading \ {t}
    BY <1>2 DEF CheckEmpty, Heading
  <2>3. Cardinality(Heading') \in Nat
    BY <2>2, HeadingCounts, FS_RemoveElement, FS_CardinalityType
  <2> QED BY <2>1, <2>3 DEF AwakeInv
<1>3. CASE Push
  <2>1. Heading' = Heading /\ Pending = 0 /\ Pending' = 1
    BY <1>3 DEF Push, Heading, Pending
  <2>2. Len(q') = Len(q) + 1 /\ Len(q) \in Nat
    BY <1>3 DEF Push
  <2> QED BY <1>3, <2>1, <2>2, HeadingCounts DEF AwakeInv, Push
<1>4. CASE Stop
  <2>1. Heading' = Heading /\ Pending' = Pending
    BY <1>4 DEF Stop, Heading, Pending
  <2> QED BY <1>4, <2>1 DEF Stop, AwakeInv
<1>5. CASE NotifyAll
  BY <1>5 DEF NotifyAll, LeftAsleep, AwakeInv
<1>6. CASE Join
  <2>1. Heading' = Heading /\ Pending' \in Nat /\ Len(q') = 0
    BY <1>6 DEF Join, Heading, Pending
  <2> QED BY <2>1, HeadingCounts DEF AwakeInv
<1>7. CASE UNCHANGED vars
  <2>1. Heading' = Heading /\ Pending' = Pending
    BY <1>7 DEF vars, Heading, Pending
  <2> QED BY <1>7, <2>1 DEF vars, AwakeInv
<1> QED
  BY <1>1, <1>2, <1>3, <1>4, <1>5, <1>6, <1>7, TakeAwake, ComeAwake, WokenAwake
  DEF Next, OwnerStep, ThreadStep

\* The invariant holds in every state of every behaviour.
LEMMA AlwaysInv == Spec => []Inv
<1>1. Inv /\ [Next]_vars => Inv'
  BY NextControl, NextAwake DEF Inv
<1> QED BY InitInv, <1>1, PTL DEF Spec

-----------------------------------------------------------------------------

\* However many threads and jobs there are, what the pool's code keeps has the
\* types TypeOK states: a popped job was pushed, and only threads hold the mutex.
THEOREM PoolTypeCorrect == Spec => []TypeOK
<1>1. Inv => TypeOK
  BY DEF Inv, ControlInv
<1> QED BY AlwaysInv, <1>1, PTL

\* The condition variable loses no wake-up: no job stays in the queue behind
\* sleeping threads without a thread that is going to look for it.
THEOREM NobodyOversleeps == Spec => []NoneOversleeps
<1>1. Inv => NoneOversleeps
  BY DEF Inv, AwakeInv, Pending, NoneOversleeps
<1> QED BY AlwaysInv, <1>1, PTL

\* Every step of the pool's code is a step of the abstract pool the framework is
\* modelled over, or none: each job is handed to one thread, in the order of the
\* pushes, and the queue the destructor clears is already empty.
THEOREM PoolImplemented == Spec => Pool!Init /\ [][Pool!Next]_(Pool!vars)
<1> USE DEF Pool!vars, Pool!Next, Pool!Submit, Pool!Start, Pool!Finish
<1>1. Init => Pool!Init
  BY DEF Init, Pool!Init
<1>2. ASSUME Inv, [Next]_vars PROVE [Pool!Next]_(Pool!vars)
  <2> USE <1>2 DEF Inv, ControlInv, TypeOK, StepInv
  <2>1. ASSUME NEW t \in Threads, PopFound(t) \/ CheckFound(t)
        PROVE  Pool!Start(t)
    BY <2>1 DEF PopFound, CheckFound, Take
  <2>2. ASSUME NEW t \in Threads, Run(t) PROVE Pool!Finish(t)
    BY <2>2 DEF Run
  <2>3. CASE Push
    BY <2>3 DEF Push
  <2>4. CASE Join
    <3>1. PICK t \in Threads : TRUE
      OBVIOUS
    <3>2. q = <<>>
      BY <2>4, <3>1 DEF Join, DoneInv
    <3> QED BY <2>4, <3>2 DEF Join
  <2>5. ASSUME NEW t \in Threads,
               \/ PopEmpty(t) \/ Lock(t) \/ CheckEmpty(t) \/ Exit(t)
               \/ Sleep(t) \/ Notified(t) \/ Spurious(t)
        PROVE  UNCHANGED <<q, job>>
    BY <2>5 DEF PopEmpty, Lock, CheckEmpty, Exit, Sleep, Notified, Spurious, Wake
  <2>6. CASE NotifyOne \/ Stop \/ NotifyAll \/ UNCHANGED vars
    BY <2>6 DEF NotifyOne, Stop, NotifyAll, vars
  <2> QED BY <2>1, <2>2, <2>3, <2>4, <2>5, <2>6 DEF Next, OwnerStep, ThreadStep
<1> QED BY <1>1, <1>2, AlwaysInv, PTL DEF Spec
=============================================================================
