----------------------------- MODULE ThreadPool -----------------------------
(***************************************************************************)
(* ctpl::thread_pool: a lock-free queue of jobs, threads that sleep on a   *)
(* condition variable while it is empty, and one owner (the main thread of *)
(* hedg) that pushes the jobs and in the end destroys the pool.            *)
(*                                                                         *)
(* The queue is popped and pushed without the mutex, which only guards the *)
(* sleep: a job may arrive, or be taken by another thread, between any two *)
(* steps of a thread about to sleep.  A step here is one access to what    *)
(* threads share; the queue's own operations are atomic.                   *)
(***************************************************************************)
EXTENDS Integers, Sequences, FiniteSets

CONSTANTS
    Threads,    \* the pool's threads, hardware_concurrency() of them
    Owner,      \* the thread that owns the pool
    Nobody,     \* the holder of a free mutex
    MaxJobs     \* bound: jobs pushed

ASSUME ThreadsAssumption == IsFiniteSet(Threads) /\ Threads # {}
ASSUME NamesAssumption == Owner \notin Threads /\ Nobody \notin Threads
ASSUME MaxJobsAssumption == MaxJobs \in Nat

Jobs == 1 .. MaxJobs
NoJob == 0

VARIABLES
    q,          \* the jobs queued
    pushed,     \* jobs pushed; the last one is their number
    mutex,      \* the thread that holds it
    waiting,    \* the threads asleep in cv.wait
    pc, job,    \* thread -> its step and the job it has popped
    opc,        \* the owner's step
    isDone,
    ended       \* the jobs that have run to their end (for the properties only)

owner == <<pushed, opc, isDone>>
vars == <<q, mutex, waiting, pc, job, owner, ended>>

TypeOK ==
    /\ q \in Seq(Jobs) /\ pushed \in 0 .. MaxJobs
    /\ mutex \in Threads \cup {Nobody}
    /\ waiting \subseteq Threads
    /\ pc \in [Threads -> {"pop", "run", "lock", "check", "test", "wait", "exit"}]
    /\ job \in [Threads -> Jobs \cup {NoJob}]
    /\ opc \in {"idle", "notify", "notify_all", "join", "gone"}
    /\ isDone \in BOOLEAN
    /\ ended \subseteq Jobs

Init ==
    /\ q = <<>> /\ pushed = 0
    /\ mutex = Nobody /\ waiting = {}
    /\ pc = [t \in Threads |-> "pop"]
    /\ job = [t \in Threads |-> NoJob]
    /\ opc = "idle" /\ isDone = FALSE
    /\ ended = {}

-----------------------------------------------------------------------------
\* set_thread: what each thread does.

Go(t, from, to) == pc[t] = from /\ pc' = [pc EXCEPT ![t] = to]

Take(t) ==
    /\ q # <<>>
    /\ job' = [job EXCEPT ![t] = Head(q)]
    /\ q' = Tail(q)

PopFound(t) ==
    /\ Go(t, "pop", "run")
    /\ Take(t)
    /\ UNCHANGED <<mutex, waiting, owner, ended>>

PopEmpty(t) ==
    /\ Go(t, "pop", "lock")
    /\ q = <<>>
    /\ UNCHANGED <<q, mutex, waiting, job, owner, ended>>

\* The job returns, and the thread looks for the next one; the flag that ends a
\* thread is only raised by calls that hedg does not make.
Run(t) ==
    /\ Go(t, "run", "pop")
    /\ ended' = ended \cup {job[t]}
    /\ job' = [job EXCEPT ![t] = NoJob]
    /\ UNCHANGED <<q, mutex, waiting, owner>>

Lock_Unasked(t) ==
    /\ Go(t, "lock", "wait")
    /\ mutex = Nobody
    /\ waiting' = waiting \cup {t}
    /\ UNCHANGED <<q, mutex, job, owner, ended>>

Lock(t) ==
    /\ Go(t, "lock", "check")
    /\ mutex = Nobody /\ mutex' = t
    /\ UNCHANGED <<q, waiting, job, owner, ended>>

\* The predicate of cv.wait, evaluated with the mutex held: first pop, ...
CheckFound_Woken(t) ==
    /\ Go(t, "check", "run")
    /\ Take(t) \/ (q = <<>> /\ UNCHANGED <<q, job>>)
    /\ mutex' = Nobody
    /\ UNCHANGED <<waiting, owner, ended>>

CheckFound(t) ==
    /\ Go(t, "check", "run")
    /\ Take(t)
    /\ mutex' = Nobody
    /\ UNCHANGED <<waiting, owner, ended>>

CheckEmpty(t) ==
    /\ Go(t, "check", "test")
    /\ q = <<>>
    /\ UNCHANGED <<q, mutex, waiting, job, owner, ended>>

\* ... then isDone.  With nothing popped the thread returns, ...
Exit(t) ==
    /\ Go(t, "test", "exit")
    /\ isDone
    /\ mutex' = Nobody
    /\ UNCHANGED <<q, waiting, job, owner, ended>>

\* ... or goes to sleep, which frees the mutex in the same step.
Sleep(t) ==
    /\ Go(t, "test", "wait")
    /\ ~isDone
    /\ mutex' = Nobody
    /\ waiting' = waiting \cup {t}
    /\ UNCHANGED <<q, job, owner, ended>>

\* Notified, or woken by nobody, it evaluates the predicate again.
Wake(t) ==
    /\ Go(t, "wait", "check")
    /\ mutex = Nobody /\ mutex' = t
    /\ waiting' = waiting \ {t}
    /\ UNCHANGED <<q, job, owner, ended>>

Notified(t) == t \notin waiting /\ Wake(t)
Spurious(t) == t \in waiting /\ Wake(t)

ThreadStep(t) ==
    \/ PopFound(t) \/ PopEmpty(t) \/ Run(t) \/ Lock(t)
    \/ CheckFound(t) \/ CheckEmpty(t) \/ Exit(t) \/ Sleep(t) \/ Notified(t)

-----------------------------------------------------------------------------
\* The owner.

OwnerGo(from, to) == opc = from /\ opc' = to
ThreadsRest == UNCHANGED <<pc, job, ended>>

\* push: the job goes into the queue without the mutex, ...
Push ==
    /\ OwnerGo("idle", "notify")
    /\ pushed < MaxJobs
    /\ pushed' = pushed + 1
    /\ q' = Append(q, pushed')
    /\ UNCHANGED <<mutex, waiting, isDone>> /\ ThreadsRest

OneWoken_None(left) == left = waiting
OneWoken(left) ==
    IF waiting = {} THEN left = {} ELSE \E t \in waiting : left = waiting \ {t}

\* ... and one thread is woken with it.
NotifyOne ==
    /\ OwnerGo("notify", "idle")
    /\ mutex = Nobody
    /\ waiting' \in SUBSET waiting /\ OneWoken(waiting')
    /\ UNCHANGED <<q, pushed, mutex, isDone>> /\ ThreadsRest

\* ~thread_pool, which is stop(true).
Stop ==
    /\ OwnerGo("idle", "notify_all")
    /\ isDone' = TRUE
    /\ UNCHANGED <<q, pushed, mutex, waiting>> /\ ThreadsRest

LeftAsleep_One(left) == OneWoken(left)
LeftAsleep(left) == left = {}

NotifyAll ==
    /\ OwnerGo("notify_all", "join")
    /\ mutex = Nobody
    /\ waiting' \in SUBSET waiting /\ LeftAsleep(waiting')
    /\ UNCHANGED <<q, pushed, mutex, isDone>> /\ ThreadsRest

\* The threads are joined one after the other, then the queue is cleared.
Join ==
    /\ OwnerGo("join", "gone")
    /\ \A t \in Threads : pc[t] = "exit"
    /\ q' = <<>>
    /\ UNCHANGED <<pushed, mutex, waiting, isDone>> /\ ThreadsRest

OwnerStep == Push \/ NotifyOne \/ Stop \/ NotifyAll \/ Join

Next ==
    \/ OwnerStep
    \/ \E t \in Threads : ThreadStep(t) \/ Spurious(t)

\* Threads are scheduled and what the owner has begun it ends.  Jobs end: a
\* strategy returns when its market is closed.  Nobody must push, or stop.
Fairness ==
    /\ WF_vars(NotifyOne) /\ WF_vars(NotifyAll) /\ WF_vars(Join)
    /\ \A t \in Threads : WF_vars(ThreadStep(t))

Spec == Init /\ [][Next]_vars /\ Fairness

-----------------------------------------------------------------------------
\* The threads on their way to look at the queue once more.
Heading ==
    {t \in Threads : pc[t] \in {"pop", "lock", "check"}
                        \/ (pc[t] = "wait" /\ t \notin waiting)}

\* A strategy never waits for a thread that sleeps: while one does, there are
\* at least as many threads about to look at the queue as jobs in it, counting
\* the one the owner is about to wake, though a thread may find the queue empty
\* just before a push, take the job another was woken for, or wake for nothing.
NoneOversleeps ==
    waiting # {} =>
        Len(q) <= Cardinality(Heading) + (IF opc = "notify" THEN 1 ELSE 0)

\* "the destructor waits for all the functions in the queue to be finished": once
\* its owner asks for it the pool ends, with no thread left asleep behind a
\* notification it missed, and none of the jobs pushed is left out.
StopEnds == isDone ~> opc = "gone" /\ ended = 1 .. pushed

\* The pool is what the framework takes it for.
Pool == INSTANCE JobPool WITH queue <- q, running <- job
ImplementsPool == Pool!Spec
=============================================================================
