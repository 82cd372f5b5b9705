--------------------------- MODULE MarketLifecycle ---------------------------
(***************************************************************************)
(* What the market data side of hedg promises of every market it is given: *)
(* a market is listed, subscribed to (at most Capacity at a time), closed  *)
(* when it is about to start, and cleared for good, in this order; it goes *)
(* live at most once, and never after it was cleared.                      *)
(***************************************************************************)
EXTENDS Integers, FiniteSets

CONSTANTS Markets, Capacity

VARIABLES
    phase,      \* Markets -> "listed", "subscribed", "closed" or "gone"
    live,       \* the markets strategies may trade
    launched    \* the markets that have ever been live

vars == <<phase, live, launched>>

Subscribed == {m \in Markets : phase[m] = "subscribed"}

Init ==
    /\ phase = [m \in Markets |-> "listed"]
    /\ live = {}
    /\ launched = {}

\* The markets of S are passed over: late, in excess, or lost with an error.
Discard(S) ==
    /\ \A m \in S : phase[m] = "listed"
    /\ phase' = [m \in Markets |-> IF m \in S THEN "gone" ELSE phase[m]]
    /\ UNCHANGED <<live, launched>>

Admit(m) ==
    /\ phase[m] = "listed"
    /\ Cardinality(Subscribed) < Capacity
    /\ phase' = [phase EXCEPT ![m] = "subscribed"]
    /\ UNCHANGED <<live, launched>>

\* The image of a market that is closing at that moment still makes it live.
GoLive(m) ==
    /\ phase[m] \in {"subscribed", "closed"}
    /\ m \notin launched
    /\ live' = live \cup {m}
    /\ launched' = launched \cup {m}
    /\ UNCHANGED phase

Close(m) ==
    /\ phase[m] = "subscribed"
    /\ phase' = [phase EXCEPT ![m] = "closed"]
    /\ live' = live \ {m}
    /\ UNCHANGED launched

Clear(m) ==
    /\ phase[m] = "closed"
    /\ phase' = [phase EXCEPT ![m] = "gone"]
    /\ live' = live \ {m}
    /\ UNCHANGED launched

Next ==
    \/ \E S \in SUBSET Markets : Discard(S)
    \/ \E m \in Markets : Admit(m) \/ GoLive(m) \/ Close(m) \/ Clear(m)

Spec == Init /\ [][Next]_vars
=============================================================================
