------------------------------ MODULE JobPool ------------------------------
(***************************************************************************)
(* What a pool of threads promises: a job submitted waits in one queue, is *)
(* taken from its front by one thread that has nothing to do, and runs on  *)
(* it to its end.  No thread stays without a job while there is one.       *)
(***************************************************************************)
EXTENDS Sequences

CONSTANTS Jobs, Threads,
    NoJob       \* no member of Jobs: what an idle thread runs

VARIABLES
    queue,      \* the jobs no thread has taken
    running     \* thread -> the job it runs

vars == <<queue, running>>

Init ==
    /\ queue = <<>>
    /\ running = [t \in Threads |-> NoJob]

Submit(j) ==
    /\ queue' = Append(queue, j)
    /\ UNCHANGED running

Start(t) ==
    /\ running[t] = NoJob /\ queue # <<>>
    /\ running' = [running EXCEPT ![t] = Head(queue)]
    /\ queue' = Tail(queue)

Finish(t) ==
    /\ running[t] # NoJob
    /\ running' = [running EXCEPT ![t] = NoJob]
    /\ UNCHANGED queue

Next ==
    \/ \E j \in Jobs : Submit(j)
    \/ \E t \in Threads : Start(t) \/ Finish(t)

Spec == Init /\ [][Next]_vars /\ WF_vars(\E t \in Threads : Start(t))
=============================================================================
