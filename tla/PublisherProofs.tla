-------------------------- MODULE PublisherProofs ---------------------------
(***************************************************************************)
(* Theorems about Publisher for any number of markets and sockets: what    *)
(* holds under any timing, what holds when a batch is subscribed ahead of  *)
(* its start, and what holds when the reader also polls a lowered flag in  *)
(* time.                                                                   *)
(***************************************************************************)
EXTENDS Publisher, SequenceTheorems, FiniteSetTheorems, TLAPS

\* What the program counters say about the data, under any timing.
Control ==
    /\ rpc # "poll" => buffer # <<>>
    /\ rpc = "push" => pushed < Len(buffer)
    /\ cpc # "watch" => closing \in Markets
    /\ cpc = "pop" => subscribed # <<>>
    /\ \A k \in Markets : last_ids[k] # NoBatch => last_ids[k].sock \in Sockets
    /\ cpc \in {"drain", "renew", "erase", "linger", "discard"}
           => last_ids[closing] # NoBatch
    /\ dpc \in {"image", "lookup", "activate"} => doc \in Markets

\* The room ReadRoom counted is still there when the batch is pushed.
Room ==
    /\ rpc \in {"sock", "connect"} => Len(subscribed) + Len(buffer) <= MaxMarkets
    /\ SubscriptionBound

TypeInv == TypeOK /\ Control

\* With the lead, the batch being subscribed starts after everything that is
\* recorded and after everything that is being cleaned up.
Lead ==
    /\ \A k \in Markets : last_ids[k] # NoBatch => k < next
    /\ rpc # "poll" => \A i \in DOMAIN buffer :
           /\ now < buffer[i] /\ buffer[i] < next
           /\ \A k \in Markets :
                 last_ids[k] # NoBatch => k < buffer[i] \/ (rpc = "cache" /\ k = BatchKey)
    /\ cpc # "watch" => closing <= now

\* Flags that are known to be down.
Lowered ==
    /\ rpc = "connect" => ~sock_flags[idx]
    /\ cpc \in {"drain", "renew"} => ~sock_flags[last_ids[closing].sock]

SocketInv == TypeInv /\ Lead /\ Lowered /\ ExclusiveSockets

-----------------------------------------------------------------------------

USE MaxMarketsAssumption, NumMarketsAssumption 
    DEF genVars, runVars, sockVars, batchVars, cleanVars, readVars, handlerVars,
        runFrame, cleanFrame, readFrame, Fits, Popped, Deactivated, Erased

LEMMA GetIdsPrefix ==
    ASSUME NEW s \in Seq(Markets), s # <<>>, NEW room \in Int
    PROVE  /\ GetIds(s, room) \in Seq(Markets)
           /\ Len(GetIds(s, room)) \in 1..Len(s)
           /\ \A i \in 1..Len(GetIds(s, room)) : GetIds(s, room)[i] = s[i]
<1>1. CASE room \in 1..Len(s)
  <2>1. /\ SubSeq(s, 1, room) \in Seq(Markets)
        /\ Len(SubSeq(s, 1, room)) = room
        /\ \A i \in 1..room : SubSeq(s, 1, room)[i] = s[i]
    BY <1>1
  <2> QED BY <1>1, <2>1 DEF GetIds
<1>2. CASE room \notin 1..Len(s)
  BY <1>2 DEF GetIds
<1> QED BY <1>1, <1>2

LEMMA BatchOps ==
    ASSUME NEW s \in Seq(Markets), s # <<>>
    PROVE  /\ Last(s) \in Markets
           /\ Last(s) = s[Len(s)]
           /\ Reverse(Front(s)) \in Seq(Markets)
<1>1. Len(s) \in Nat \ {0}
  BY EmptySeq
<1>2. Front(s) \in Seq(Markets)
  BY <1>1 DEF Front
<1>3. Reverse(Front(s)) \in Seq(Markets)
  BY <1>2 DEF Reverse
<1> QED BY <1>1, <1>3 DEF Last

LEMMA InitTypeInv == Init => TypeInv
<1> SUFFICES ASSUME Init PROVE TypeInv
  OBVIOUS
<1>1. /\ 0 \in Sockets
      /\ free_socks \in Seq(Sockets)
  <2>1. \A i \in 1..MaxMarkets : i - 1 \in Sockets
    BY DEF Sockets
  <2>2. [i \in 1..MaxMarkets |-> i - 1] \in Seq(Sockets)
    BY <2>1
  <2> QED BY <2>2 DEF Init, Sockets
<1>2. last_ids = [m \in Markets |-> NoBatch]
      /\ NoBatch \in [sock : Sockets \cup {NoSocket}, mkts : Seq(Markets)]
  BY DEF Init, NoBatch
<1>3. TypeOK
  <2>1. /\ now \in 0..NumMarkets /\ next \in 1..(NumMarkets + 1)
        /\ buffer \in Seq(Markets) /\ subscribed \in Seq(Markets)
        /\ active_markets \in Seq(Markets)
    BY DEF Init
  <2>2. /\ socks \in [Sockets -> BOOLEAN] /\ sock_flags \in [Sockets -> BOOLEAN]
        /\ serving \in [Sockets -> SUBSET Markets]
        /\ full_jsons \in [Sockets -> {"empty", "partial", "stale"}]
        /\ active \in [Markets -> {"absent", "off", "on"}]
        /\ books \in [Markets -> BOOLEAN]
    BY DEF Init
  <2>3. last_ids \in [Markets -> [sock : Sockets \cup {NoSocket}, mkts : Seq(Markets)]]
    BY <1>2
  <2>4. unpolled \subseteq Sockets
    BY DEF Init
  <2>5. /\ rpc = "poll" /\ idx = 0 /\ pushed = 0
        /\ cpc = "watch" /\ closing = NoMarket /\ cpos = 1
        /\ dpc = "poll" /\ di = 0 /\ doc = NoMarket /\ imaged = {}
    BY DEF Init
  <2> QED BY <1>1, <2>1, <2>2, <2>3, <2>4, <2>5 DEF TypeOK
<1>4. Control
  BY <1>2 DEF Init, Control
<1> QED BY <1>3, <1>4 DEF TypeInv

LEMMA NextSocketType == TypeOK => NextSocket \in Sockets
BY DEF TypeOK, NextSocket, Sockets

LEMMA NextTypeInv == TypeInv /\ [Next]_vars => TypeInv'
<1> SUFFICES ASSUME TypeInv, [Next]_vars PROVE TypeInv'
  OBVIOUS
<1> USE DEF TypeInv, TypeOK, Control, Running, RunAt, CleanAt,
            runVars, cleanVars, readVars, handlerVars
<1>1. CASE Tick
  BY <1>1, SMTT(30) DEF Tick
<1>2. ASSUME NEW n \in 1..NumMarkets, TakeBatch(n) PROVE TypeInv'
  <2>1. [i \in 1..n |-> next + i - 1] \in Seq(Markets)
    <3>1. \A i \in 1..n : next + i - 1 \in Markets
      BY <1>2 DEF TakeBatch, Markets
    <3> QED BY <3>1
  <2>2. buffer' # <<>>
    <3>1. DOMAIN buffer' = 1..n /\ 1 \in 1..n
      BY <1>2 DEF TakeBatch
    <3>2. DOMAIN <<>> = {}
      OBVIOUS
    <3> QED BY <3>1, <3>2
  <2>3. next' \in 1..(NumMarkets + 1)
    BY <1>2 DEF TakeBatch
  <2> QED BY <1>2, <2>1, <2>2, <2>3, ZenonT(30) DEF TakeBatch
<1>3. CASE DropLate
  BY <1>3 DEF DropLate
<1>4. CASE ReadRoom
  <2>1. buffer \in Seq(Markets) /\ buffer # <<>> /\ MaxMarkets - Len(subscribed) \in Int
    BY <1>4 DEF ReadRoom
  <2>2. \/ rpc' = "poll" /\ buffer' = <<>>
        \/ rpc' = "sock" /\ buffer' = GetIds(buffer, MaxMarkets - Len(subscribed))
    BY <1>4 DEF ReadRoom
  <2> DEFINE ids == GetIds(buffer, MaxMarkets - Len(subscribed))
  <2>3. ids \in Seq(Markets) /\ Len(ids) \in 1..Len(buffer)
    BY <2>1, GetIdsPrefix
  <2>4. ids # <<>>
    BY <2>3
  <2> HIDE DEF ids
  <2>5. buffer' \in Seq(Markets) /\ (rpc' # "poll" => buffer' # <<>>)
    <3>1. CASE rpc' = "poll" /\ buffer' = <<>>
      BY <3>1
    <3>2. CASE rpc' = "sock" /\ buffer' = ids
      BY <2>3, <2>4, <3>2
    <3> QED BY <2>2, <3>1, <3>2 DEF ids
  <2>6. rpc' \in {"poll", "sock"}
    BY <2>2
  <2> QED BY <1>4, <2>5, <2>6, SMTT(30) DEF ReadRoom
<1>5. CASE NoSocketFree
  BY <1>5, SMTT(30) DEF NoSocketFree
<1>6. CASE TakeSocket
  BY <1>6, SMTT(30) DEF TakeSocket
<1>7. CASE Subscribe
  <2>1. Range(buffer) \subseteq Markets
    BY RangeOfSeq
  <2>2. Len(buffer) \in Nat \ {0}
    BY <1>7, EmptySeq DEF Subscribe
  <2>3. serving' \in [Sockets -> SUBSET Markets]
    BY <1>7, <2>1 DEF Subscribe
  <2>4. sock_flags' \in [Sockets -> BOOLEAN]
    BY <1>7 DEF Subscribe
  <2> QED BY <1>7, <2>2, <2>3, <2>4, SMTT(30) DEF Subscribe
<1>8. CASE SubscribeFail
  BY <1>8, SMTT(30) DEF SubscribeFail
<1>9. CASE PushSubscribed
  <2>1. buffer[pushed + 1] \in Markets
    BY <1>9 DEF PushSubscribed
  <2>2. subscribed' \in Seq(Markets) /\ subscribed' # <<>>
    <3>1. subscribed' = Append(subscribed, buffer[pushed + 1])
      BY <1>9 DEF PushSubscribed
    <3>2. subscribed' \in Seq(Markets) /\ Len(subscribed') = Len(subscribed) + 1
      BY <2>1, <3>1
    <3> QED BY <3>2
  <2>3. pushed' \in Nat /\ (rpc' = "push" => pushed' < Len(buffer))
    BY <1>9 DEF PushSubscribed
  <2> QED BY <1>9, <2>2, <2>3, SMTT(30) DEF PushSubscribed
<1>10. CASE CacheKey
  <2>1. BatchKey \in Markets
    BY <1>10, BatchOps DEF CacheKey, BatchKey
  <2>2. 0 \in Sockets
    BY DEF Sockets
  <2>3. Append(last_ids[BatchKey].mkts, BatchKey) \in Seq(Markets)
    BY <2>1
  <2>4. /\ last_ids' \in [Markets -> [sock : Sockets \cup {NoSocket}, mkts : Seq(Markets)]]
        /\ \A k \in Markets \ {BatchKey} : last_ids'[k] = last_ids[k]
        /\ last_ids'[BatchKey].sock \in Sockets
    BY <1>10, <2>1, <2>2, <2>3 DEF CacheKey
  <2>5. NoBatch.sock \notin Sockets
    BY DEF NoBatch, NoSocket, Sockets
  <2> QED BY <1>10, <2>1, <2>4, <2>5 DEF CacheKey
<1>11. CASE CacheSocket
  <2>1. BatchKey \in Markets /\ Others \in Seq(Markets)
    BY <1>11, BatchOps DEF CacheSocket, BatchKey, Others
  <2>2. last_ids[BatchKey].mkts \o Others \in Seq(Markets)
    BY <2>1
  <2>3. /\ last_ids' \in [Markets -> [sock : Sockets \cup {NoSocket}, mkts : Seq(Markets)]]
        /\ \A k \in Markets \ {BatchKey} : last_ids'[k] = last_ids[k]
        /\ last_ids'[BatchKey].sock \in Sockets
    BY <1>11, <2>1, <2>2 DEF CacheSocket
  <2>4. NoBatch.sock \notin Sockets
    BY DEF NoBatch, NoSocket, Sockets
  <2> QED BY <1>11, <2>1, <2>3, <2>4, SMTT(30) DEF CacheSocket
<1>12. CASE Deactivate
  BY <1>12 DEF Deactivate
<1>13. CASE PopFront
  BY <1>13 DEF PopFront
<1>14. CASE NotLast
  BY <1>14 DEF NotLast
<1>15. CASE FreeSocket
  BY <1>15 DEF FreeSocket
<1>16. CASE ResetSocket
  BY <1>16 DEF ResetSocket
<1>17. CASE Reconnect
  BY <1>17 DEF Reconnect
<1>18. CASE ReconnectFail
  BY <1>18 DEF ReconnectFail
<1>19. CASE EraseActive
  BY <1>19, ZenonT(30) DEF EraseActive
<1>20. CASE EraseBooks
  <2>1. books' \in [Markets -> BOOLEAN]
    BY <1>20 DEF EraseBooks
  <2>2. cpc' \in {"erase", "discard"} /\ cpos' \in Nat
    BY <1>20 DEF EraseBooks
  <2> QED BY <1>20, <2>1, <2>2, SMTT(30) DEF EraseBooks
<1>21. CASE DiscardBatch
  <2>1. /\ last_ids' \in [Markets -> [sock : Sockets \cup {NoSocket}, mkts : Seq(Markets)]]
        /\ \A k \in Markets : last_ids'[k] = last_ids[k] \/ last_ids'[k] = NoBatch
    BY <1>21 DEF DiscardBatch, NoBatch
  <2> QED BY <1>21, <2>1 DEF DiscardBatch
<1>22. CASE PollFlagged
  BY <1>22 DEF PollFlagged
<1>23. CASE PollIdle
  <2>1. full_jsons' \in [Sockets -> {"empty", "partial", "stale"}]
    BY <1>23 DEF PollIdle, Reset
  <2>2. unpolled' \subseteq Sockets
    BY <1>23 DEF PollIdle
  <2>3. di' \in Sockets
    BY <1>23, NextSocketType DEF PollIdle
  <2> QED BY <1>23, <2>1, <2>2, <2>3, SMTT(30) DEF PollIdle
<1>24. CASE RecvNull
  BY <1>24 DEF RecvNull, Terminate
<1>25. CASE RecvBytes
  <2>1. full_jsons' \in [Sockets -> {"empty", "partial", "stale"}]
    BY <1>25 DEF RecvBytes
  <2>2. di' \in Sockets
    BY <1>25, NextSocketType DEF RecvBytes
  <2> QED BY <1>25, <2>1, <2>2 DEF RecvBytes
<1>26. CASE RecvMalformed
  BY <1>26 DEF RecvMalformed, Terminate
<1>27. ASSUME NEW m \in Markets, RecvDocument(m) PROVE TypeInv'
  BY <1>27, SMTT(30) DEF RecvDocument
<1>28. CASE AddRunners
  BY <1>28, SMTT(30) DEF AddRunners
<1>29. CASE Lookup
  BY <1>29, NextSocketType DEF Lookup
<1>30. CASE Activate
  <2>1. active_markets' \in Seq(Markets)
    BY <1>30 DEF Activate
  <2>2. active' \in [Markets -> {"absent", "off", "on"}]
    BY <1>30 DEF Activate
  <2> QED BY <1>30, <2>1, <2>2, NextSocketType DEF Activate
<1>31. CASE ApplyDelta
  BY <1>31, NextSocketType DEF ApplyDelta
<1>32. CASE UpdateMissing
  BY <1>32 DEF UpdateMissing, Terminate
<1>33. CASE UNCHANGED vars
  BY <1>33 DEF vars
<1> QED
  BY <1>1, <1>2, <1>3, <1>4, <1>5, <1>6, <1>7, <1>8, <1>9, <1>10, <1>11, <1>12, <1>13, <1>14, <1>15, <1>16, <1>17,
     <1>18, <1>19, <1>20, <1>21, <1>22, <1>23, <1>24, <1>25, <1>26, <1>27, <1>28, <1>29, <1>30, <1>31, <1>32, <1>33
     DEF Next, Ended, RunStep, CleanStep, ReadStep

LEMMA Typing == Spec => []TypeInv
<1>1. Init => TypeInv
  BY InitTypeInv
<1>2. TypeInv /\ [Next]_vars => TypeInv'
  BY NextTypeInv
<1> QED BY <1>1, <1>2, PTL DEF Spec

\* Every variable keeps its type, whatever the timing: no thread indexes a
\* socket, a batch or a market that does not exist.
THEOREM TypeCorrect == Spec => []TypeOK
<1>1. TypeInv => TypeOK
  BY DEF TypeInv
<1> QED BY <1>1, Typing, PTL

-----------------------------------------------------------------------------
(* SubscriptionBound: the room that was counted stays there, since only the *)
(* run thread appends to subscribed_.                                      *)

\* The steps of the other threads leave the batch alone and do not push.
LEMMA RoomElsewhere ==
    ASSUME TypeInv, Room, UNCHANGED <<rpc, buffer, pushed>>,
           subscribed' = subscribed \/ (subscribed # <<>> /\ subscribed' = Tail(subscribed))
    PROVE  Room'
<1>1. Len(subscribed') \in Nat /\ Len(subscribed') <= Len(subscribed)
  BY HeadTailProperties DEF TypeInv, TypeOK
<1>2. /\ rpc' = rpc /\ Len(buffer') = Len(buffer) /\ pushed' = pushed
      /\ Len(subscribed) \in Nat /\ Len(buffer) \in Nat /\ pushed \in Nat
  BY DEF TypeInv, TypeOK
<1> QED BY <1>1, <1>2 DEF Room, SubscriptionBound

LEMMA NextRoom == TypeInv /\ Room /\ [Next]_vars => Room'
<1> SUFFICES ASSUME TypeInv, Room, [Next]_vars PROVE Room'
  OBVIOUS
<1>0. /\ Len(subscribed) \in Nat /\ Len(buffer) \in Nat /\ pushed \in Nat
      /\ MaxMarkets - Len(subscribed) \in Int
  BY DEF TypeInv, TypeOK
<1>1. ASSUME NEW n \in 1..NumMarkets, TakeBatch(n) PROVE Room'
  BY <1>0, <1>1 DEF TakeBatch, RunAt, Room, SubscriptionBound
<1>2. CASE ReadRoom
  <2>1. Len(subscribed') = Len(subscribed) /\ Len(subscribed) <= MaxMarkets
    BY <1>0, <1>2 DEF ReadRoom, RunAt, Room, SubscriptionBound
  <2>2. \/ rpc' = "poll"
        \/ rpc' = "sock" /\ Len(subscribed) + Len(buffer') <= MaxMarkets
    BY <1>2 DEF ReadRoom
  <2> QED BY <2>1, <2>2 DEF Room, SubscriptionBound
<1>3. CASE NoSocketFree \/ SubscribeFail
  BY <1>0, <1>3 DEF NoSocketFree, SubscribeFail, RunAt, Room, SubscriptionBound
<1>4. CASE TakeSocket
  BY <1>0, <1>4 DEF TakeSocket, RunAt, Room, SubscriptionBound
<1>5. CASE Subscribe
  BY <1>0, <1>5 DEF Subscribe, RunAt, Room, SubscriptionBound
<1>6. CASE PushSubscribed
  <2>1. buffer[pushed + 1] \in Markets /\ pushed < Len(buffer)
    BY <1>0, <1>6 DEF PushSubscribed, RunAt, TypeInv, TypeOK, Control
  <2>2. Len(subscribed') = Len(subscribed) + 1
    BY <1>6, <2>1 DEF PushSubscribed, TypeInv, TypeOK
  <2>3. /\ rpc = "push" /\ rpc' \in {"push", "key"}
        /\ pushed' = pushed + 1 /\ buffer' = buffer
        /\ rpc' = "push" => pushed' # Len(buffer)
    BY <1>6 DEF PushSubscribed, RunAt
  <2>4. Len(subscribed) + (Len(buffer) - pushed) <= MaxMarkets
    BY <2>3 DEF Room, SubscriptionBound
  <2>5. CASE rpc' = "push"
    <3>1. Len(subscribed') + (Len(buffer') - pushed') <= MaxMarkets
      BY <1>0, <2>2, <2>3, <2>4
    <3> QED BY <2>5, <3>1 DEF Room, SubscriptionBound
  <2>6. CASE rpc' = "key"
    <3>1. Len(subscribed') <= MaxMarkets
      BY <1>0, <2>1, <2>2, <2>4
    <3> QED BY <1>0, <2>2, <2>6, <3>1 DEF Room, SubscriptionBound
  <2> QED BY <2>3, <2>5, <2>6
<1>7. CASE CacheKey \/ CacheSocket
  BY <1>0, <1>7 DEF CacheKey, CacheSocket, RunAt, Room, SubscriptionBound
<1>8. CASE CleanStep
  <2>1. UNCHANGED <<rpc, buffer, pushed>>
    BY <1>8 DEF CleanStep, Deactivate, PopFront, NotLast, FreeSocket, ResetSocket, Reconnect,
                ReconnectFail, EraseActive, EraseBooks, DiscardBatch, runVars
  <2>2. subscribed' = subscribed \/ (subscribed # <<>> /\ subscribed' = Tail(subscribed))
    BY <1>8 DEF CleanStep, Deactivate, PopFront, NotLast, FreeSocket, ResetSocket, Reconnect,
                ReconnectFail, EraseActive, EraseBooks, DiscardBatch, CleanAt, TypeInv, Control
  <2> QED BY <2>1, <2>2, RoomElsewhere
<1>9. CASE Tick \/ DropLate \/ ReadStep \/ UNCHANGED vars
  <2>1. UNCHANGED <<rpc, buffer, pushed, subscribed>>
    BY <1>9 DEF Tick, DropLate, ReadStep, PollFlagged, PollIdle, RecvNull, RecvBytes,
                RecvMalformed, RecvDocument, AddRunners, Lookup, Activate, ApplyDelta,
                UpdateMissing, Terminate, runVars, vars
  <2> QED BY <2>1, RoomElsewhere
<1> QED BY <1>1, <1>2, <1>3, <1>4, <1>5, <1>6, <1>7, <1>8, <1>9 DEF Next, Ended, RunStep

\* There are never more than max_markets subscribed markets, though the size is
\* read long before the batch is pushed and clean_up_markets pops meanwhile.
THEOREM SubscriptionBounded == Spec => []SubscriptionBound
<1>1. Init => Room
  BY DEF Init, Room, SubscriptionBound
<1>2. TypeInv /\ Room /\ [Next]_vars => Room'
  BY NextRoom
<1>3. Room => SubscriptionBound
  BY DEF Room
<1> QED BY <1>1, <1>2, <1>3, Typing, PTL DEF Spec

-----------------------------------------------------------------------------
(* The batch being subscribed stays ahead of the clock and of the records.  *)

LEMMA NextLead ==
    ASSUME "lead" \in Timely
    PROVE  TypeInv /\ Lead /\ [Next]_vars => Lead'
<1> SUFFICES ASSUME TypeInv, Lead, [Next]_vars PROVE Lead'
  OBVIOUS
<1>0. /\ now \in Int /\ next \in Int /\ buffer \in Seq(Markets) /\ closing \in Int
      /\ Markets \subseteq Int
      /\ DOMAIN buffer = 1..Len(buffer)
      /\ Len(buffer) \in Nat
  BY DEF TypeInv, TypeOK, Markets, NoMarket
<1>1. CASE Tick
  <2>1. ASSUME rpc # "poll", NEW i \in DOMAIN buffer PROVE now + 1 < buffer[i]
    <3>0. buffer[i] \in Markets
      BY <1>0, <2>1, ElementOfSeq
    <3>1. now < buffer[i] /\ buffer[i] \in Int
      BY <1>0, <2>1, <3>0 DEF Lead
    <3>2. now + 1 # buffer[i]
      BY <1>1, <2>1 DEF Tick, Range
    <3> QED BY <1>0, <3>1, <3>2
  <2>2. now' = now + 1 /\ UNCHANGED <<next, rpc, buffer, last_ids, cpc, closing>>
    BY <1>1 DEF Tick, runVars, cleanVars
  <2> QED BY <1>0, <2>1, <2>2 DEF Lead, BatchKey
<1>2. ASSUME NEW n \in 1..NumMarkets, TakeBatch(n) PROVE Lead'
  <2>1. /\ next > now /\ next' = next + n
        /\ DOMAIN buffer' = 1..n
        /\ \A i \in 1..n : buffer'[i] = next + i - 1
        /\ UNCHANGED <<now, last_ids, cpc, closing>>
    BY <1>2 DEF TakeBatch, cleanVars
  <2>2. \A k \in Markets : last_ids[k] # NoBatch => k < next
    BY DEF Lead
  <2> QED BY <1>0, <2>1, <2>2 DEF Lead
<1>3. CASE DropLate
  BY <1>0, <1>3 DEF DropLate, RunAt, Lead, runVars, cleanVars
<1>4. CASE ReadRoom
  <2>1. buffer # <<>> /\ rpc = "room" /\ MaxMarkets - Len(subscribed) \in Int
    BY <1>4 DEF ReadRoom, RunAt, TypeInv, TypeOK, Control
  <2> DEFINE ids == GetIds(buffer, MaxMarkets - Len(subscribed))
  <2>2. /\ DOMAIN ids \subseteq DOMAIN buffer
        /\ \A i \in DOMAIN ids : ids[i] = buffer[i]
    BY <1>0, <2>1, GetIdsPrefix, LenProperties
  <2>3. UNCHANGED <<now, next, last_ids, cpc, closing>>
    BY <1>4 DEF ReadRoom, cleanVars
  <2>4. rpc' = "poll" \/ (rpc' = "sock" /\ buffer' = ids)
    BY <1>4 DEF ReadRoom
  <2> QED BY <2>1, <2>2, <2>3, <2>4 DEF Lead
<1>5. CASE NoSocketFree \/ SubscribeFail
  BY <1>5 DEF NoSocketFree, SubscribeFail, Lead, cleanVars
<1>6. CASE TakeSocket \/ Subscribe \/ PushSubscribed
  <2>1. /\ rpc \notin {"poll", "cache"} /\ rpc' \notin {"poll", "cache"}
        /\ UNCHANGED <<now, next, buffer, last_ids, cpc, closing>>
    BY <1>6 DEF TakeSocket, Subscribe, PushSubscribed, RunAt, cleanVars
  <2> QED BY <2>1 DEF Lead
<1>7. CASE CacheKey
  <2>1. /\ rpc = "key" /\ rpc' = "cache"
        /\ \A k \in Markets \ {BatchKey} : last_ids'[k] = last_ids[k]
        /\ UNCHANGED <<now, next, buffer, cpc, closing>>
    BY <1>7 DEF CacheKey, RunAt, TypeInv, TypeOK, cleanVars
  <2>2. BatchKey < next /\ BatchKey' = BatchKey
    <3>1. buffer # <<>> /\ Len(buffer) \in DOMAIN buffer
      BY <1>0, <2>1 DEF TypeInv, Control
    <3> QED BY <2>1, <3>1 DEF Lead, BatchKey, Last
  <2> QED BY <2>1, <2>2 DEF Lead
<1>8. CASE CacheSocket
  <2>1. /\ rpc = "cache" /\ rpc' = "poll"
        /\ \A k \in Markets \ {BatchKey} : last_ids'[k] = last_ids[k]
        /\ UNCHANGED <<now, next, cpc, closing>>
    BY <1>8 DEF CacheSocket, RunAt, TypeInv, TypeOK, cleanVars
  <2>2. BatchKey < next
    <3>1. buffer # <<>> /\ Len(buffer) \in DOMAIN buffer
      BY <1>0, <2>1 DEF TypeInv, Control
    <3> QED BY <2>1, <3>1 DEF Lead, BatchKey, Last
  <2> QED BY <2>1, <2>2 DEF Lead
<1>9. CASE Deactivate
  <2>1. closing' <= now /\ UNCHANGED <<now, next, rpc, buffer, last_ids>>
    BY <1>9 DEF Deactivate, runVars
  <2> QED BY <2>1 DEF Lead, BatchKey
<1>10. CASE DiscardBatch
  <2>1. /\ \A k \in Markets : last_ids'[k] = last_ids[k] \/ last_ids'[k] = NoBatch
        /\ cpc' = "watch" /\ UNCHANGED <<now, next, rpc, buffer>>
    BY <1>10 DEF DiscardBatch, runVars, TypeInv, TypeOK
  <2> QED BY <2>1 DEF Lead, BatchKey
<1>11. ASSUME UNCHANGED <<now, next, rpc, buffer, last_ids, closing>>,
              cpc # "watch" \/ UNCHANGED cpc
       PROVE  Lead'
  BY <1>11 DEF Lead, BatchKey
<1>12. CASE NotLast
  BY <1>12 DEF NotLast, Lead, BatchKey, runVars
<1>13. CASE \/ PopFront \/ FreeSocket \/ ResetSocket \/ Reconnect \/ ReconnectFail
            \/ EraseActive \/ EraseBooks
  BY <1>11, <1>13 DEF PopFront, FreeSocket, ResetSocket, Reconnect, ReconnectFail,
                      EraseActive, EraseBooks, CleanAt, runVars
<1>14. CASE ReadStep \/ UNCHANGED vars
  BY <1>11, <1>14 DEF ReadStep, PollFlagged, PollIdle, RecvNull, RecvBytes, RecvMalformed,
                      RecvDocument, AddRunners, Lookup, Activate, ApplyDelta, UpdateMissing,
                      Terminate, runVars, cleanVars, vars
<1> QED
  BY <1>1, <1>2, <1>3, <1>4, <1>5, <1>6, <1>7, <1>8, <1>9, <1>10, <1>12, <1>13, <1>14
     DEF Next, Ended, RunStep, CleanStep

-----------------------------------------------------------------------------
(* Every socket has one owner.                                             *)

LEMMA FreeAppend ==
    ASSUME NEW S, NEW q \in Seq(S), NEW s \in S
    PROVE  /\ Range(Append(q, s)) = Range(q) \cup {s}
           /\ IsInjective(q) /\ s \notin Range(q) => IsInjective(Append(q, s))
<1>1. /\ DOMAIN q = 1..Len(q) /\ Len(q) \in Nat
      /\ DOMAIN Append(q, s) = 1..(Len(q) + 1)
      /\ \A i \in 1..Len(q) : Append(q, s)[i] = q[i]
      /\ Append(q, s)[Len(q) + 1] = s
  BY AppendProperties, LenProperties
<1>2. Range(Append(q, s)) = Range(q) \cup {s}
  BY <1>1 DEF Range
<1>3. ASSUME IsInjective(q), s \notin Range(q) PROVE IsInjective(Append(q, s))
  BY <1>1, <1>3 DEF IsInjective, Range
<1> QED BY <1>2, <1>3

LEMMA FreeTail ==
    ASSUME NEW S, NEW q \in Seq(S), q # <<>>
    PROVE  /\ Head(q) \in Range(q) /\ Range(Tail(q)) \subseteq Range(q)
           /\ IsInjective(q) => IsInjective(Tail(q)) /\ Head(q) \notin Range(Tail(q))
<1>1. /\ DOMAIN q = 1..Len(q) /\ Len(q) \in Nat \ {0}
      /\ Head(q) = q[1]
      /\ DOMAIN Tail(q) = 1..(Len(q) - 1)
      /\ \A i \in 1..(Len(q) - 1) : Tail(q)[i] = q[i + 1]
  BY HeadTailProperties, LenProperties, EmptySeq
<1>2. Head(q) \in Range(q) /\ Range(Tail(q)) \subseteq Range(q)
  BY <1>1 DEF Range
<1>3. ASSUME IsInjective(q)
      PROVE  IsInjective(Tail(q)) /\ Head(q) \notin Range(Tail(q))
  BY <1>1, <1>3 DEF IsInjective, Range
<1> QED BY <1>2, <1>3

\* The batch being cleaned up is not the one being filed, so until its socket
\* is given back it holds it.
LEMMA ClosingHolds ==
    ASSUME TypeInv, Lead, cpc # "watch"
    PROVE  /\ rpc # "poll" => closing # BatchKey
           /\ cpc \in {"drain", "renew"} => closing \in Leases
<1>1. rpc # "poll" => closing # BatchKey
  <2>1. SUFFICES ASSUME rpc # "poll" PROVE closing < BatchKey /\ closing \in Int /\ BatchKey \in Int
    OBVIOUS
  <2>2. buffer \in Seq(Markets) /\ buffer # <<>> /\ closing \in Int /\ now \in Int
    BY <2>1 DEF TypeInv, TypeOK, Control, NoMarket, Markets
  <2>3. Len(buffer) \in DOMAIN buffer /\ buffer[Len(buffer)] \in Markets
    BY <2>2, EmptySeq, LenProperties
  <2>4. closing <= now /\ now < buffer[Len(buffer)]
    BY <2>1, <2>3 DEF Lead
  <2> QED BY <2>2, <2>3, <2>4 DEF BatchKey, Last, Markets
<1> QED BY <1>1 DEF TypeInv, Control, Leases

\* A step that adds no owner, destroys no socket in the queue or in the hands
\* of the run thread, and raises no flag of the queue.
LEMMA NoNewOwner ==
    ASSUME ExclusiveSockets, UNCHANGED free_socks,
           Leases' \subseteq Leases, Held' \subseteq Held,
           \A k \in Leases' : last_ids'[k].sock = last_ids[k].sock,
           \A s \in Range(free_socks) \cup Held : socks'[s] = socks[s],
           \A s \in Range(free_socks) : sock_flags'[s] => sock_flags[s]
    PROVE  ExclusiveSockets'
BY DEF ExclusiveSockets

LEMMA NextLowered ==
    TypeInv /\ Lead /\ Lowered /\ ExclusiveSockets /\ [Next]_vars => Lowered'
<1> SUFFICES ASSUME TypeInv, Lead, Lowered, ExclusiveSockets, [Next]_vars PROVE Lowered'
  OBVIOUS
<1>0. /\ sock_flags \in [Sockets -> BOOLEAN] /\ free_socks \in Seq(Sockets)
      /\ idx \in Sockets
      /\ last_ids \in [Markets -> [sock : Sockets \cup {NoSocket}, mkts : Seq(Markets)]]
  BY DEF TypeInv, TypeOK
<1>1. ASSUME UNCHANGED <<idx, sock_flags, last_ids>>,
             rpc' = "connect" => rpc = "connect",
             cpc' \in {"drain", "renew"} => cpc \in {"drain", "renew"} /\ closing' = closing
      PROVE  Lowered'
  BY <1>1 DEF Lowered
<1>2. CASE Tick \/ (\E n \in 1..NumMarkets : TakeBatch(n)) \/ DropLate \/ ReadStep \/ UNCHANGED vars
  BY <1>1, <1>2
     DEF Tick, TakeBatch, DropLate, ReadStep, PollFlagged, PollIdle, RecvNull, RecvBytes,
         RecvMalformed, RecvDocument, AddRunners, Lookup, Activate, ApplyDelta,
         UpdateMissing, Terminate, runVars, cleanVars, vars
<1>3. CASE ReadRoom \/ NoSocketFree \/ SubscribeFail \/ PushSubscribed
  BY <1>1, <1>3 DEF ReadRoom, NoSocketFree, SubscribeFail, PushSubscribed, cleanVars
<1>4. CASE TakeSocket
  <2>1. /\ idx' \in Range(free_socks)
        /\ UNCHANGED <<sock_flags, last_ids, cpc, closing>>
    BY <1>0, <1>4, FreeTail DEF TakeSocket, cleanVars
  <2> QED BY <2>1 DEF Lowered, ExclusiveSockets
<1>5. CASE Subscribe
  <2>1. /\ rpc = "connect" /\ rpc' = "push"
        /\ \A s \in Sockets \ {idx} : sock_flags'[s] = sock_flags[s]
        /\ UNCHANGED <<last_ids, cpc, closing>>
    BY <1>0, <1>5 DEF Subscribe, RunAt, cleanVars
  <2>2. ASSUME cpc \in {"drain", "renew"}
        PROVE  last_ids[closing].sock \in Sockets \ {idx}
    <3>1. closing \in Leases /\ closing \in Markets /\ last_ids[closing] # NoBatch
      BY <2>2, ClosingHolds DEF TypeInv, Control
    <3>2. idx \in Held
      BY <2>1 DEF Held
    <3> QED BY <3>1, <3>2 DEF TypeInv, Control, ExclusiveSockets
  <2> QED BY <2>1, <2>2 DEF Lowered
<1>6. CASE CacheKey \/ CacheSocket
  <2>1. /\ rpc # "poll" /\ rpc' # "connect"
        /\ \A k \in Markets \ {BatchKey} : last_ids'[k] = last_ids[k]
        /\ UNCHANGED <<sock_flags, cpc, closing>>
    BY <1>0, <1>6 DEF CacheKey, CacheSocket, RunAt, cleanVars
  <2>2. ASSUME cpc \in {"drain", "renew"} PROVE closing \in Markets \ {BatchKey}
    BY <2>1, <2>2, ClosingHolds DEF TypeInv, Control
  <2> QED BY <2>1, <2>2 DEF Lowered
<1>7. CASE FreeSocket
  <2>1. /\ last_ids[closing].sock \in Sockets
        /\ UNCHANGED <<rpc, idx, last_ids, closing>>
        /\ sock_flags' = [sock_flags EXCEPT ![last_ids[closing].sock] = FALSE]
    BY <1>7 DEF FreeSocket, CleanAt, TypeInv, Control, runVars
  <2> QED BY <1>0, <2>1 DEF Lowered
<1>8. CASE DiscardBatch
  BY <1>8 DEF DiscardBatch, Lowered, runVars
<1>9. CASE \/ Deactivate \/ PopFront \/ NotLast \/ ResetSocket
           \/ Reconnect \/ ReconnectFail \/ EraseActive \/ EraseBooks
  BY <1>1, <1>9 DEF Deactivate, PopFront, NotLast, ResetSocket, Reconnect, ReconnectFail,
                    EraseActive, EraseBooks, CleanAt, runVars
<1> QED BY <1>2, <1>3, <1>4, <1>5, <1>6, <1>7, <1>8, <1>9 DEF Next, Ended, RunStep, CleanStep

LEMMA NextExclusive ==
    TypeInv /\ Lead /\ Lowered /\ ExclusiveSockets /\ [Next]_vars => ExclusiveSockets'
<1> SUFFICES ASSUME TypeInv, Lead, Lowered, ExclusiveSockets, [Next]_vars
             PROVE  ExclusiveSockets'
  OBVIOUS
<1>0. /\ sock_flags \in [Sockets -> BOOLEAN] /\ socks \in [Sockets -> BOOLEAN]
      /\ free_socks \in Seq(Sockets) /\ Range(free_socks) \subseteq Sockets
      /\ idx \in Sockets
      /\ last_ids \in [Markets -> [sock : Sockets \cup {NoSocket}, mkts : Seq(Markets)]]
      /\ \A k \in Leases : last_ids[k].sock \in Sockets
  BY RangeOfSeq DEF TypeInv, TypeOK, Control, Leases
\* Nothing that owners are told by changes.
<1>1. ASSUME UNCHANGED <<free_socks, socks, sock_flags, last_ids, idx>>,
             Leases' \subseteq Leases, Held' \subseteq Held
      PROVE  ExclusiveSockets'
  BY <1>1, NoNewOwner
<1>2. CASE Tick \/ ReadStep \/ UNCHANGED vars
  <2>1. UNCHANGED <<free_socks, socks, sock_flags, last_ids, rpc, buffer, idx, cpc, closing>>
    BY <1>2
       DEF Tick, ReadStep, PollFlagged, PollIdle, RecvNull, RecvBytes, RecvMalformed,
           RecvDocument, AddRunners, Lookup, Activate, ApplyDelta, UpdateMissing, Terminate,
           runVars, cleanVars, vars
  <2> QED BY <1>1, <2>1 DEF Leases, Held, BatchKey
<1>3. CASE \/ DropLate \/ (\E n \in 1..NumMarkets : TakeBatch(n)) \/ ReadRoom \/ NoSocketFree
           \/ PushSubscribed
  <2>1. /\ UNCHANGED <<free_socks, socks, sock_flags, last_ids, idx, cpc, closing>>
        /\ rpc # "cache" /\ rpc' # "cache"
        /\ Held' \subseteq Held
    BY <1>3 DEF DropLate, TakeBatch, ReadRoom, NoSocketFree, PushSubscribed, RunAt, Held,
                cleanVars, runVars
  <2> QED BY <1>1, <2>1 DEF Leases
<1>4. CASE TakeSocket
  <2>1. /\ Held = {} /\ Held' = {Head(free_socks)} /\ free_socks' = Tail(free_socks)
        /\ rpc # "cache" /\ rpc' # "cache"
        /\ UNCHANGED <<socks, sock_flags, last_ids, cpc, closing>>
    BY <1>4 DEF TakeSocket, RunAt, Held, cleanVars
  <2>2. Leases' = Leases
    BY <2>1 DEF Leases
  <2>3. /\ Head(free_socks) \in Range(free_socks) /\ Range(free_socks') \subseteq Range(free_socks)
        /\ IsInjective(free_socks') /\ Head(free_socks) \notin Range(free_socks')
    BY <1>0, <1>4, <2>1, FreeTail DEF TakeSocket, ExclusiveSockets
  <2> QED BY <2>1, <2>2, <2>3 DEF ExclusiveSockets
<1>5. CASE Subscribe
  <2>1. /\ Held = {idx} /\ Held' = {idx}
        /\ rpc # "cache" /\ rpc' # "cache"
        /\ \A s \in Sockets \ {idx} : sock_flags'[s] = sock_flags[s]
        /\ UNCHANGED <<free_socks, socks, last_ids, cpc, closing>>
    BY <1>0, <1>5 DEF Subscribe, RunAt, Held, cleanVars
  <2>2. Leases' = Leases
    BY <2>1 DEF Leases
  <2>3. idx \notin Range(free_socks)
    BY <2>1 DEF ExclusiveSockets
  <2> QED BY <1>0, <2>1, <2>2, <2>3, NoNewOwner
<1>6. CASE SubscribeFail
  <2>1. /\ rpc = "connect" /\ rpc' = "poll" /\ Held = {idx} /\ Held' = {}
        /\ free_socks' = Append(free_socks, idx)
        /\ UNCHANGED <<socks, sock_flags, last_ids, cpc, closing>>
    BY <1>6 DEF SubscribeFail, RunAt, Held, cleanVars
  <2>2. Leases' = Leases
    BY <2>1 DEF Leases
  <2>3. idx \notin Range(free_socks) /\ socks[idx] /\ ~sock_flags[idx]
    BY <2>1 DEF ExclusiveSockets, Lowered
  <2>4. Range(free_socks') = Range(free_socks) \cup {idx} /\ IsInjective(free_socks')
    BY <1>0, <2>1, <2>3, FreeAppend DEF ExclusiveSockets
  <2> QED BY <2>1, <2>2, <2>3, <2>4 DEF ExclusiveSockets
<1>7. CASE CacheKey
  <2>1. /\ rpc # "poll" /\ rpc' = "cache" /\ Held' = Held
        /\ BatchKey' = BatchKey
        /\ \A k \in Markets \ {BatchKey} : last_ids'[k] = last_ids[k]
        /\ UNCHANGED <<free_socks, socks, sock_flags, cpc, closing>>
    BY <1>0, <1>7 DEF CacheKey, RunAt, Held, BatchKey, cleanVars
  <2>2. Leases' \subseteq Leases /\ \A k \in Leases' : last_ids'[k] = last_ids[k]
    BY <1>7, <2>1 DEF Leases, CacheKey, RunAt
  <2> QED BY <2>1, <2>2, NoNewOwner
<1>8. CASE CacheSocket
  <2>1. /\ rpc = "cache" /\ rpc' = "poll" /\ Held = {idx} /\ Held' = {}
        /\ BatchKey \notin Leases
        /\ last_ids' = [last_ids EXCEPT
               ![BatchKey] = [sock |-> idx, mkts |-> @.mkts \o Others]]
        /\ UNCHANGED <<free_socks, socks, sock_flags, cpc, closing>>
    BY <1>8 DEF CacheSocket, RunAt, Held, Leases, cleanVars
  <2>2. BatchKey \in Markets
    BY <2>1, BatchOps DEF BatchKey, TypeInv, TypeOK, Control
  <2>3. /\ last_ids'[BatchKey].sock = idx
        /\ \A k \in Markets \ {BatchKey} : last_ids'[k] = last_ids[k]
    BY <1>0, <2>1, <2>2
  <2>4. Leases' \subseteq Leases \cup {BatchKey}
    BY <2>1, <2>3 DEF Leases
  <2>5. \A k \in Leases : k \in Markets /\ k # BatchKey /\ last_ids[k].sock # idx
    BY <2>1 DEF ExclusiveSockets, Leases
  <2>6. idx \notin Range(free_socks)
    BY <2>1 DEF ExclusiveSockets
  <2> QED BY <2>1, <2>3, <2>4, <2>5, <2>6 DEF ExclusiveSockets
<1>9. CASE Deactivate \/ PopFront \/ NotLast \/ ReconnectFail \/ EraseActive \/ EraseBooks
  <2>1. UNCHANGED <<free_socks, socks, sock_flags, last_ids, rpc, buffer, idx>>
    BY <1>9 DEF Deactivate, PopFront, NotLast, ReconnectFail, EraseActive, EraseBooks, runVars
  <2>2. \/ cpc \notin {"erase", "linger", "discard"}
        \/ cpc' \in {"erase", "linger", "discard"} /\ closing' = closing
    BY <1>9 DEF Deactivate, PopFront, NotLast, ReconnectFail, EraseActive, EraseBooks, CleanAt
  <2> QED BY <1>1, <2>1, <2>2 DEF Leases, Held, BatchKey
<1>10. CASE FreeSocket
  <2>1. /\ UNCHANGED <<free_socks, socks, last_ids, rpc, buffer, idx>>
        /\ cpc = "find"
        /\ \A s \in Sockets : sock_flags'[s] => sock_flags[s]
    BY <1>0, <1>10 DEF FreeSocket, CleanAt, runVars
  <2>2. Leases' \subseteq Leases /\ Held' = Held
    BY <2>1 DEF Leases, Held, BatchKey
  <2> QED BY <1>0, <2>1, <2>2, NoNewOwner
<1>11. CASE ResetSocket
  <2>1. /\ UNCHANGED <<free_socks, sock_flags, last_ids, rpc, buffer, idx, closing>>
        /\ cpc = "drain" /\ cpc' = "renew"
        /\ socks' = [socks EXCEPT ![last_ids[closing].sock] = FALSE]
    BY <1>11 DEF ResetSocket, CleanAt, runVars
  <2>2. last_ids[closing].sock \notin Range(free_socks) \cup Held
    BY <2>1, ClosingHolds DEF ExclusiveSockets
  <2>3. Leases' \subseteq Leases /\ Held' = Held /\ Held \subseteq Sockets
    BY <1>0, <2>1 DEF Leases, Held, BatchKey
  <2> QED BY <1>0, <2>1, <2>2, <2>3, NoNewOwner
<1>12. CASE Reconnect
  <2> DEFINE s == last_ids[closing].sock
  <2>1. /\ UNCHANGED <<sock_flags, last_ids, rpc, buffer, idx, closing>>
        /\ cpc = "renew" /\ cpc' = "erase"
        /\ socks' = [socks EXCEPT ![s] = TRUE]
        /\ free_socks' = Append(free_socks, s)
    BY <1>12 DEF Reconnect, CleanAt, runVars
  <2>2. closing \in Leases /\ s \in Sockets /\ ~sock_flags[s]
    BY <1>0, <2>1, ClosingHolds DEF Lowered
  <2>3. s \notin Range(free_socks) \cup Held
    BY <2>2 DEF ExclusiveSockets
  <2>4. Range(free_socks') = Range(free_socks) \cup {s} /\ IsInjective(free_socks')
    BY <1>0, <2>1, <2>2, <2>3, FreeAppend DEF ExclusiveSockets
  <2>5. Leases' \subseteq Leases \ {closing} /\ Held' = Held /\ Held \subseteq Sockets
    BY <1>0, <2>1 DEF Leases, Held, BatchKey
  <2>6. \A t \in Sockets : t # s => socks'[t] = socks[t]
    BY <1>0, <2>1
  <2>7. socks'[s] = TRUE
    BY <1>0, <2>1, <2>2
  <2>8. \A k \in Leases' : last_ids'[k].sock = last_ids[k].sock /\ last_ids[k].sock # s
    BY <2>1, <2>2, <2>5 DEF ExclusiveSockets
  <2> HIDE DEF s
  <2> QED BY <1>0, <2>1, <2>2, <2>3, <2>4, <2>5, <2>6, <2>7, <2>8 DEF ExclusiveSockets
<1>13. CASE DiscardBatch
  <2>1. /\ UNCHANGED <<free_socks, socks, sock_flags, rpc, buffer, idx>>
        /\ cpc = "discard" /\ cpc' = "watch"
        /\ last_ids' = [last_ids EXCEPT ![closing] = NoBatch]
    BY <1>13 DEF DiscardBatch, CleanAt, runVars
  <2>2. \A k \in Markets : last_ids'[k] # NoBatch => k # closing /\ last_ids'[k] = last_ids[k]
    BY <1>0, <2>1
  <2>3. /\ Leases' \subseteq Leases /\ Held' = Held
        /\ \A k \in Leases' : last_ids'[k] = last_ids[k]
    BY <2>1, <2>2 DEF Leases, Held, BatchKey
  <2> QED BY <2>1, <2>3, NoNewOwner
<1> QED
  BY <1>2, <1>3, <1>4, <1>5, <1>6, <1>7, <1>8, <1>9, <1>10, <1>11, <1>12, <1>13
     DEF Next, Ended, RunStep, CleanStep

LEMMA SocketsOwned ==
    ASSUME "lead" \in Timely
    PROVE  Spec => []SocketInv
<1>1. Init => SocketInv
  <2> SUFFICES ASSUME Init PROVE SocketInv
    OBVIOUS
  <2>1. TypeInv /\ Lead /\ Lowered
    BY InitTypeInv DEF Init, Lead, Lowered, NoBatch
  <2>2. Leases = {} /\ Held = {}
    BY DEF Init, Leases, Held
  <2>3. /\ \A i \in DOMAIN free_socks : free_socks[i] = i - 1 /\ i \in 1..MaxMarkets
        /\ Range(free_socks) \subseteq Sockets
    BY DEF Init, Range, Sockets
  <2>4. IsInjective(free_socks)
    BY <2>3 DEF IsInjective
  <2>5. \A s \in Sockets : socks[s] /\ ~sock_flags[s]
    BY DEF Init
  <2> QED BY <2>1, <2>2, <2>3, <2>4, <2>5 DEF SocketInv, ExclusiveSockets
<1>2. SocketInv /\ [Next]_vars => SocketInv'
  BY NextTypeInv, NextLead, NextLowered, NextExclusive DEF SocketInv
<1> QED BY <1>1, <1>2, PTL DEF Spec

\* As long as every batch is subscribed ahead of its start, a socket is never
\* shared by two batches, nor queued as free twice or while a batch holds it,
\* however the sends, the failures and the renewals interleave.
THEOREM SocketsExclusive ==
    ASSUME "lead" \in Timely
    PROVE  Spec => []ExclusiveSockets
<1>1. SocketInv => ExclusiveSockets
  BY DEF SocketInv
<1> QED BY <1>1, SocketsOwned, PTL

-----------------------------------------------------------------------------
(***************************************************************************)
(* Why no subscribed market is forgotten: markets are recorded, closed and *)
(* cleared in the order of their start, so the record of a batch goes with *)
(* the last of its markets.                                                *)
(***************************************************************************)

Ascending(s) == \A i, j \in DOMAIN s : i < j => s[i] < s[j]

\* The run thread is between raising the flag and the end of cache_socket.
Recording == rpc \in {"push", "key", "cache"}

\* Everything is in the order of the starts: the batch, what is subscribed, and
\* what is subscribed before what is still to be pushed.
OrderInv ==
    /\ Ascending(buffer) /\ Ascending(subscribed)
    /\ \A m \in Range(subscribed) :
          /\ m < next
          /\ rpc # "poll" => \A i \in DOMAIN buffer : m < buffer[i] \/ (Recording /\ i <= pushed)
    /\ Recording => \A i \in DOMAIN buffer : i <= pushed => buffer[i] \in Range(subscribed)
    /\ rpc \in {"key", "cache"} => pushed = Len(buffer)
    /\ cpc = "pop" => closing = Head(subscribed)
    /\ cpc \notin {"watch", "pop"} => closing \notin Range(subscribed)
    /\ \A k \in Markets : \A m \in Range(last_ids[k].mkts) : m <= k

\* The batch of a subscribed market: recorded, with a socket that is read.
InBatch(m) ==
    \E k \in Range(subscribed) \cap Leases :
        m \in Range(last_ids[k].mkts) /\ sock_flags[last_ids[k].sock]

BatchInv ==
    /\ Recording => sock_flags[idx]
    /\ rpc = "cache" => BatchKey \in Range(last_ids[BatchKey].mkts)
    /\ \A m \in Range(subscribed) : (Recording /\ m \in Range(buffer)) \/ InBatch(m)

-----------------------------------------------------------------------------

LEMMA TailRange ==
    ASSUME NEW s \in Seq(Markets), s # <<>>
    PROVE  Range(s) = {Head(s)} \cup Range(Tail(s))
<1>1. /\ DOMAIN s = 1..Len(s) /\ Len(s) \in Nat \ {0}
      /\ Head(s) = s[1]
      /\ DOMAIN Tail(s) = 1..(Len(s) - 1)
      /\ \A i \in 1..(Len(s) - 1) : Tail(s)[i] = s[i + 1]
  BY HeadTailProperties, LenProperties, EmptySeq
<1>2. Range(Tail(s)) \subseteq Range(s) /\ Head(s) \in Range(s)
  BY <1>1 DEF Range
<1>3. ASSUME NEW i \in 1..Len(s) PROVE s[i] \in {Head(s)} \cup Range(Tail(s))
  <2>1. CASE i = 1
    BY <1>1, <2>1
  <2>2. CASE i # 1
    <3>1. i - 1 \in 1..(Len(s) - 1) /\ s[i] = Tail(s)[i - 1]
      BY <1>1, <2>2
    <3> QED BY <1>1, <3>1 DEF Range
  <2> QED BY <2>1, <2>2
<1> QED BY <1>1, <1>2, <1>3 DEF Range

LEMMA AscendingTail ==
    ASSUME NEW s \in Seq(Markets), s # <<>>, Ascending(s)
    PROVE  /\ Ascending(Tail(s))
           /\ Range(s) = {Head(s)} \cup Range(Tail(s))
           /\ \A m \in Range(Tail(s)) : Head(s) < m
<1>1. /\ DOMAIN s = 1..Len(s) /\ Len(s) \in Nat \ {0}
      /\ Head(s) = s[1]
      /\ DOMAIN Tail(s) = 1..(Len(s) - 1)
      /\ \A i \in 1..(Len(s) - 1) : Tail(s)[i] = s[i + 1]
  BY HeadTailProperties, LenProperties, EmptySeq
<1>2. Ascending(Tail(s)) /\ \A m \in Range(Tail(s)) : Head(s) < m
  BY <1>1 DEF Ascending, Range
<1> QED BY <1>2, TailRange

LEMMA AscendingAppend ==
    ASSUME NEW s \in Seq(Markets), NEW m \in Markets, Ascending(s),
           \A x \in Range(s) : x < m
    PROVE  /\ Ascending(Append(s, m))
           /\ Range(Append(s, m)) = Range(s) \cup {m}
           /\ s # <<>> => Head(Append(s, m)) = Head(s)
<1>1. /\ DOMAIN s = 1..Len(s) /\ Len(s) \in Nat
      /\ DOMAIN Append(s, m) = 1..(Len(s) + 1)
      /\ \A i \in 1..Len(s) : Append(s, m)[i] = s[i]
      /\ Append(s, m)[Len(s) + 1] = m
  BY AppendProperties, LenProperties
<1>2. Ascending(Append(s, m))
  BY <1>1 DEF Ascending, Range
<1>3. s # <<>> => Head(Append(s, m)) = Head(s)
  BY <1>1, EmptySeq, HeadTailAppend, HeadTailProperties, AppendProperties
<1> QED BY <1>2, <1>3, FreeAppend

\* What cache_socket files: the last market of the batch and the others.
LEMMA BatchRange ==
    ASSUME NEW s \in Seq(Markets), s # <<>>
    PROVE  Range(s) = {Last(s)} \cup Range(Reverse(Front(s)))
<1>1. DOMAIN s = 1..Len(s) /\ Len(s) \in Nat \ {0}
  BY LenProperties, EmptySeq
<1>2. /\ DOMAIN Reverse(Front(s)) = 1..(Len(s) - 1)
      /\ \A i \in 1..(Len(s) - 1) : Reverse(Front(s))[i] = s[Len(s) - i]
  <2>1. /\ Front(s) \in Seq(Markets) /\ Len(Front(s)) = Len(s) - 1
        /\ \A i \in 1..(Len(s) - 1) : Front(s)[i] = s[i]
    BY <1>1 DEF Front
  <2> QED BY <1>1, <2>1 DEF Reverse
<1>3. ASSUME NEW i \in 1..Len(s)
      PROVE  s[i] = Last(s) \/ s[i] \in Range(Reverse(Front(s)))
  <2>1. CASE i = Len(s)
    BY <2>1 DEF Last
  <2>2. CASE i # Len(s)
    <3>0. Len(s) \in Nat /\ i \in 1..Len(s) /\ i # Len(s)
      BY <1>1, <2>2
    <3>1. Len(s) - i \in 1..(Len(s) - 1) /\ Len(s) - (Len(s) - i) = i
      BY <3>0
    <3>2. Reverse(Front(s))[Len(s) - i] = s[i]
      BY <1>2, <3>1
    <3> QED BY <1>2, <3>1, <3>2 DEF Range
  <2> QED BY <2>1, <2>2
<1>4. Last(s) \in Range(s)
  BY <1>1 DEF Range, Last
<1>5. ASSUME NEW i \in 1..(Len(s) - 1) PROVE Reverse(Front(s))[i] \in Range(s)
  <2>1. Len(s) - i \in 1..Len(s)
    BY <1>1
  <2> QED BY <1>1, <1>2, <2>1 DEF Range
<1> QED BY <1>1, <1>2, <1>3, <1>4, <1>5 DEF Range

-----------------------------------------------------------------------------
(* The order of the starts.                                                *)

LEMMA NextOrder ==
    TypeInv /\ Lead /\ OrderInv /\ [Next]_vars => OrderInv'
<1> SUFFICES ASSUME TypeInv, Lead, OrderInv, [Next]_vars PROVE OrderInv'
  OBVIOUS
<1>0. /\ now \in Int /\ next \in Int /\ pushed \in Nat /\ closing \in Int
      /\ buffer \in Seq(Markets) /\ subscribed \in Seq(Markets)
      /\ last_ids \in [Markets -> [sock : Sockets \cup {NoSocket}, mkts : Seq(Markets)]]
      /\ Markets \subseteq Int /\ Range(subscribed) \subseteq Markets
      /\ Range(subscribed) \subseteq Int
      /\ DOMAIN buffer = 1..Len(buffer) /\ Len(buffer) \in Nat
      /\ \A i \in DOMAIN buffer : buffer[i] \in Markets
  BY RangeOfSeq, ElementOfSeq, LenProperties DEF TypeInv, TypeOK, Markets, NoMarket
<1>1. CASE Tick \/ ReadStep \/ UNCHANGED vars
  <2>1. UNCHANGED <<next, rpc, buffer, pushed, subscribed, last_ids, cpc, closing>>
    BY <1>1
       DEF Tick, ReadStep, PollFlagged, PollIdle, RecvNull, RecvBytes, RecvMalformed,
           RecvDocument, AddRunners, Lookup, Activate, ApplyDelta, UpdateMissing, Terminate,
           vars
  <2> QED BY <2>1 DEF OrderInv, Recording
<1>2. ASSUME NEW n \in 1..NumMarkets, TakeBatch(n) PROVE OrderInv'
  <2>1. /\ rpc = "poll" /\ rpc' = "room" /\ next' = next + n
        /\ DOMAIN buffer' = 1..n
        /\ \A i \in 1..n : buffer'[i] = next + i - 1
        /\ UNCHANGED <<subscribed, last_ids, cpc, closing>>
    BY <1>2 DEF TakeBatch, RunAt
  <2>2. Ascending(buffer')
    BY <1>0, <2>1 DEF Ascending
  <2> QED BY <1>0, <2>1, <2>2 DEF OrderInv, Recording
<1>3. CASE DropLate
  <2>1. /\ rpc = "poll" /\ next' = next + 1
        /\ UNCHANGED <<rpc, buffer, pushed, subscribed, last_ids, cpc, closing>>
    BY <1>3 DEF DropLate, RunAt
  <2> QED BY <1>0, <2>1 DEF OrderInv, Recording
<1>4. CASE ReadRoom
  <2>1. /\ buffer \in Seq(Markets) /\ buffer # <<>> /\ rpc = "room"
        /\ MaxMarkets - Len(subscribed) \in Int
    BY <1>4 DEF ReadRoom, RunAt, TypeInv, TypeOK, Control
  <2> DEFINE ids == GetIds(buffer, MaxMarkets - Len(subscribed))
  <2>2. /\ DOMAIN ids \subseteq DOMAIN buffer
        /\ \A i \in DOMAIN ids : ids[i] = buffer[i]
    BY <2>1, GetIdsPrefix, LenProperties
  <2>3. UNCHANGED <<next, pushed, subscribed, last_ids, cpc, closing>>
    BY <1>4 DEF ReadRoom
  <2>4. \/ rpc' = "poll" /\ buffer' = <<>>
        \/ rpc' = "sock" /\ buffer' = ids
    BY <1>4 DEF ReadRoom
  <2> HIDE DEF ids
  <2>5. Ascending(buffer')
    BY <2>2, <2>4 DEF Ascending, OrderInv
  <2> QED BY <2>1, <2>2, <2>3, <2>4, <2>5 DEF OrderInv, Recording
<1>5. CASE NoSocketFree \/ SubscribeFail
  <2>1. /\ rpc' = "poll" /\ buffer' = <<>>
        /\ UNCHANGED <<next, pushed, subscribed, last_ids, cpc, closing>>
    BY <1>5 DEF NoSocketFree, SubscribeFail
  <2> QED BY <2>1 DEF OrderInv, Recording, Ascending
<1>6. CASE TakeSocket
  <2>1. /\ rpc = "sock" /\ rpc' = "connect"
        /\ UNCHANGED <<next, buffer, pushed, subscribed, last_ids, cpc, closing>>
    BY <1>6 DEF TakeSocket, RunAt
  <2> QED BY <2>1 DEF OrderInv, Recording
<1>7. CASE Subscribe
  <2>1. /\ rpc = "connect" /\ rpc' = "push" /\ pushed' = 0
        /\ UNCHANGED <<next, buffer, subscribed, last_ids, cpc, closing>>
    BY <1>7 DEF Subscribe, RunAt
  <2> QED BY <1>0, <2>1 DEF OrderInv, Recording
<1>8. CASE PushSubscribed
  <2> DEFINE m == buffer[pushed + 1]
  <2>1. /\ rpc = "push" /\ pushed' = pushed + 1 /\ subscribed' = Append(subscribed, m)
        /\ rpc' = IF pushed' = Len(buffer) THEN "key" ELSE "push"
        /\ UNCHANGED <<next, buffer, last_ids, cpc, closing>>
    BY <1>8 DEF PushSubscribed, RunAt
  <2>2. pushed + 1 \in DOMAIN buffer /\ m \in Markets
    <3>1. pushed < Len(buffer)
      BY <2>1 DEF TypeInv, Control
    <3> QED BY <1>0, <3>1
  <2>3. now < m /\ m < next
    BY <2>1, <2>2 DEF Lead
  <2>4. \A x \in Range(subscribed) : x < m
    <3>1. \A x \in Range(subscribed) : \A i \in DOMAIN buffer : x < buffer[i] \/ i <= pushed
      BY <2>1 DEF OrderInv
    <3>2. ~(pushed + 1 <= pushed)
      BY <1>0
    <3> QED BY <2>2, <3>1, <3>2
  <2> HIDE DEF m
  <2>5. /\ Ascending(subscribed')
        /\ Range(subscribed') = Range(subscribed) \cup {m}
        /\ subscribed # <<>> => Head(subscribed') = Head(subscribed)
    BY <1>0, <2>1, <2>2, <2>4, AscendingAppend DEF OrderInv
  <2>6. cpc # "watch" => closing < m
    BY <1>0, <2>2, <2>3 DEF Lead
  <2>7. cpc' = "pop" => closing' = Head(subscribed')
    BY <2>1, <2>5 DEF OrderInv, TypeInv, Control
  <2>8. cpc' \notin {"watch", "pop"} => closing' \notin Range(subscribed')
    <3>1. cpc # "watch" => closing # m
      BY <1>0, <2>2, <2>6
    <3>2. cpc \notin {"watch", "pop"} => closing \notin Range(subscribed)
      BY DEF OrderInv
    <3> QED BY <2>1, <2>5, <3>1, <3>2
  <2>9. \A i \in DOMAIN buffer : i > pushed + 1 => m < buffer[i]
    BY <2>2 DEF OrderInv, Ascending, m
  <2>10. \A x \in Range(subscribed') :
            /\ x < next'
            /\ \A i \in DOMAIN buffer' : x < buffer'[i] \/ i <= pushed'
    <3>1. \A x \in Range(subscribed) :
             x < next /\ \A i \in DOMAIN buffer : x < buffer[i] \/ i <= pushed
      BY <2>1 DEF OrderInv
    <3>2. \A i \in DOMAIN buffer : m < buffer[i] \/ i <= pushed + 1
      BY <1>0, <2>9
    <3>3. \A i \in DOMAIN buffer : i <= pushed => i <= pushed + 1
      BY <1>0
    <3> QED BY <2>1, <2>3, <2>5, <3>1, <3>2, <3>3
  <2>11. \A i \in DOMAIN buffer' : i <= pushed' => buffer'[i] \in Range(subscribed')
    <3>1. \A i \in DOMAIN buffer : i <= pushed => buffer[i] \in Range(subscribed)
      BY <2>1 DEF OrderInv, Recording
    <3>2. \A i \in DOMAIN buffer : i <= pushed + 1 => i <= pushed \/ buffer[i] = m
      BY <1>0 DEF m
    <3> QED BY <2>1, <2>5, <3>1, <3>2
  <2>12. rpc' \in {"push", "key"} /\ (rpc' = "key" => pushed' = Len(buffer'))
    BY <2>1
  <2> QED BY <2>1, <2>5, <2>7, <2>8, <2>10, <2>11, <2>12 DEF OrderInv, Recording
<1>9. ASSUME NEW k \in Markets, NEW new \in Seq(Markets),
             rpc # "poll", \A m \in Range(new) : m <= k,
             last_ids'[k].mkts = last_ids[k].mkts \o new,
             \A j \in Markets \ {k} : last_ids'[j] = last_ids[j]
      PROVE  \A j \in Markets : \A m \in Range(last_ids'[j].mkts) : m <= j
  <2>1. last_ids[k].mkts \in Seq(Markets)
    BY <1>0
  <2>2. Range(last_ids'[k].mkts) = Range(last_ids[k].mkts) \cup Range(new)
    BY <1>9, <2>1, RangeConcatenation
  <2> QED BY <1>9, <2>2 DEF OrderInv
<1>10. CASE CacheKey
  <2>1. /\ rpc = "key" /\ rpc' = "cache" /\ buffer # <<>>
        /\ UNCHANGED <<next, buffer, pushed, subscribed, cpc, closing>>
    BY <1>10 DEF CacheKey, RunAt, TypeInv, Control
  <2>2. BatchKey \in Markets
    BY <1>0, <2>1, BatchOps DEF BatchKey
  <2>3. /\ last_ids'[BatchKey].mkts = Append(last_ids[BatchKey].mkts, BatchKey)
        /\ \A j \in Markets \ {BatchKey} : last_ids'[j] = last_ids[j]
    BY <1>0, <1>10, <2>2 DEF CacheKey
  <2>4. /\ Append(last_ids[BatchKey].mkts, BatchKey) = last_ids[BatchKey].mkts \o <<BatchKey>>
        /\ <<BatchKey>> \in Seq(Markets) /\ Range(<<BatchKey>>) = {BatchKey}
    BY <1>0, <2>2, AppendIsConcat DEF Range
  <2>5. \A m \in Range(<<BatchKey>>) : m <= BatchKey
    BY <1>0, <2>2, <2>4
  <2>6. \A j \in Markets : \A m \in Range(last_ids'[j].mkts) : m <= j
    BY <1>9, <2>1, <2>2, <2>3, <2>4, <2>5
  <2> QED BY <2>1, <2>6 DEF OrderInv, Recording
<1>11. CASE CacheSocket
  <2>1. /\ rpc = "cache" /\ rpc' = "poll" /\ buffer # <<>> /\ buffer' = <<>>
        /\ UNCHANGED <<next, pushed, subscribed, cpc, closing>>
    BY <1>11 DEF CacheSocket, RunAt, TypeInv, Control
  <2>2. BatchKey \in Markets /\ Others \in Seq(Markets)
    BY <1>0, <2>1, BatchOps DEF BatchKey, Others
  <2>3. /\ last_ids'[BatchKey].mkts = last_ids[BatchKey].mkts \o Others
        /\ \A j \in Markets \ {BatchKey} : last_ids'[j] = last_ids[j]
    BY <1>0, <1>11, <2>2 DEF CacheSocket
  <2>4. \A i \in DOMAIN buffer : buffer[i] <= BatchKey
    <3>1. Len(buffer) \in DOMAIN buffer
      BY <1>0, <2>1, EmptySeq
    <3>2. \A i, j \in DOMAIN buffer : i < j => buffer[i] < buffer[j]
      BY DEF OrderInv, Ascending
    <3>3. ASSUME NEW i \in DOMAIN buffer PROVE buffer[i] <= buffer[Len(buffer)]
      <4>1. i = Len(buffer) \/ i < Len(buffer)
        BY <1>0
      <4>2. buffer[i] \in Int /\ buffer[Len(buffer)] \in Int
        BY <1>0, <3>1
      <4> QED BY <3>1, <3>2, <4>1, <4>2
    <3> QED BY <3>3 DEF BatchKey, Last
  <2>5. \A m \in Range(Others) : m <= BatchKey
    <3>1. Range(Others) \subseteq Range(buffer)
      BY <1>0, <2>1, BatchRange DEF Others
    <3> QED BY <2>4, <3>1 DEF Range
  <2>6. \A j \in Markets : \A m \in Range(last_ids'[j].mkts) : m <= j
    BY <1>9, <2>1, <2>2, <2>3, <2>5
  <2> QED BY <2>1, <2>6 DEF OrderInv, Recording, Ascending
<1>12. CASE Deactivate
  <2>1. /\ cpc' = "pop" /\ closing' = Head(subscribed)
        /\ UNCHANGED <<next, rpc, buffer, pushed, subscribed, last_ids>>
    BY <1>12 DEF Deactivate
  <2> QED BY <2>1 DEF OrderInv, Recording
<1>13. CASE PopFront
  <2>1. /\ cpc = "pop" /\ cpc' = "find" /\ subscribed # <<>> /\ subscribed' = Tail(subscribed)
        /\ UNCHANGED <<next, rpc, buffer, pushed, last_ids, closing>>
    BY <1>13 DEF PopFront, CleanAt, TypeInv, Control
  <2>2. closing = Head(subscribed) /\ closing <= now
    BY <2>1 DEF OrderInv, Lead
  <2>3. /\ Ascending(subscribed')
        /\ Range(subscribed) = {closing} \cup Range(subscribed')
        /\ \A m \in Range(subscribed') : closing < m
    BY <1>0, <2>1, <2>2, AscendingTail DEF OrderInv
  <2>4. closing \notin Range(subscribed')
    BY <1>0, <2>3
  <2>5. \A i \in DOMAIN buffer : rpc # "poll" => buffer[i] # closing
    BY <1>0, <2>2 DEF Lead
  <2>6. Recording => rpc # "poll"
    BY DEF Recording
  <2> QED BY <2>1, <2>3, <2>4, <2>5, <2>6 DEF OrderInv, Recording
<1>14. CASE DiscardBatch
  <2>1. /\ cpc' = "watch"
        /\ \A j \in Markets : last_ids'[j] = last_ids[j] \/ last_ids'[j] = NoBatch
        /\ UNCHANGED <<next, rpc, buffer, pushed, subscribed>>
    BY <1>0, <1>14 DEF DiscardBatch
  <2>2. Range(NoBatch.mkts) = {}
    BY DEF NoBatch, Range
  <2> QED BY <2>1, <2>2 DEF OrderInv, Recording
<1>15. CASE \/ NotLast \/ FreeSocket \/ ResetSocket \/ Reconnect \/ ReconnectFail
            \/ EraseActive \/ EraseBooks
  <2>1. /\ UNCHANGED <<next, rpc, buffer, pushed, subscribed, last_ids>>
        /\ cpc' # "pop"
        /\ cpc \notin {"watch", "pop"}
        /\ cpc' # "watch" => closing' = closing
    BY <1>15 DEF NotLast, FreeSocket, ResetSocket, Reconnect, ReconnectFail, EraseActive,
                 EraseBooks, CleanAt
  <2> QED BY <2>1 DEF OrderInv, Recording
<1> QED
  BY <1>1, <1>2, <1>3, <1>4, <1>5, <1>6, <1>7, <1>8, <1>10, <1>11, <1>12, <1>13, <1>14, <1>15
     DEF Next, Ended, RunStep, CleanStep

-----------------------------------------------------------------------------
(* No orphans.                                                             *)

\* A step that keeps the records, the flags and the leases of what stays
\* subscribed keeps every subscribed market in its batch.
LEMMA BatchesKept ==
    ASSUME BatchInv, Range(subscribed') \subseteq Range(subscribed),
           Recording' <=> Recording, Recording => UNCHANGED <<buffer, idx>>,
           rpc' # "cache" \/ (rpc = "cache" /\ BatchKey' = BatchKey
                                 /\ last_ids'[BatchKey] = last_ids[BatchKey]),
           Recording => (sock_flags[idx] => sock_flags'[idx]),
           \A k \in Range(subscribed) \cap Leases :
              \/ /\ k \in Range(subscribed') \cap Leases' /\ last_ids'[k] = last_ids[k]
                 /\ sock_flags[last_ids[k].sock] => sock_flags'[last_ids[k].sock]
              \/ \A m \in Range(subscribed') : m \notin Range(last_ids[k].mkts)
    PROVE  BatchInv'
BY DEF BatchInv, InBatch

\* What cache_socket works on: a batch that is pushed in full and not on record.
LEMMA Caching ==
    ASSUME TypeInv, Lead, OrderInv, rpc \in {"key", "cache"}
    PROVE  /\ BatchKey \in Markets /\ BatchKey \in Range(buffer)
           /\ Range(buffer) \subseteq Range(subscribed)
           /\ rpc = "key" => last_ids[BatchKey] = NoBatch
           /\ Range(buffer) = {BatchKey} \cup Range(Others)
           /\ Others \in Seq(Markets)
<1>0. /\ buffer \in Seq(Markets) /\ Markets \subseteq Int
      /\ DOMAIN buffer = 1..Len(buffer) /\ Len(buffer) \in Nat
  BY LenProperties DEF TypeInv, TypeOK, Markets
<1>1. buffer # <<>>
  BY DEF TypeInv, Control
<1>2. Len(buffer) \in DOMAIN buffer
  BY <1>0, <1>1, EmptySeq
<1>3. BatchKey \in Markets /\ BatchKey \in Range(buffer) /\ Others \in Seq(Markets)
  BY <1>0, <1>1, <1>2, BatchOps DEF BatchKey, Last, Range, Others
<1>4. Range(buffer) \subseteq Range(subscribed)
  <2>1. \A i \in DOMAIN buffer : buffer[i] \in Range(subscribed)
    BY <1>0 DEF OrderInv, Recording
  <2> QED BY <2>1 DEF Range
<1>5. rpc = "key" => last_ids[BatchKey] = NoBatch
  <2>1. rpc = "key" /\ last_ids[BatchKey] # NoBatch => BatchKey < buffer[Len(buffer)]
    BY <1>2, <1>3 DEF Lead
  <2>2. buffer[Len(buffer)] = BatchKey /\ BatchKey \in Int
    BY <1>0, <1>3 DEF BatchKey, Last
  <2> QED BY <2>1, <2>2
<1> QED BY <1>0, <1>1, <1>3, <1>4, <1>5, BatchRange DEF BatchKey, Others

LEMMA NextBatch ==
    SocketInv /\ OrderInv /\ BatchInv /\ [Next]_vars => BatchInv'
<1> SUFFICES ASSUME SocketInv, OrderInv, BatchInv, [Next]_vars PROVE BatchInv'
  OBVIOUS
<1> USE DEF SocketInv
<1>0. /\ buffer \in Seq(Markets) /\ subscribed \in Seq(Markets) /\ idx \in Sockets
      /\ sock_flags \in [Sockets -> BOOLEAN]
      /\ last_ids \in [Markets -> [sock : Sockets \cup {NoSocket}, mkts : Seq(Markets)]]
      /\ \A k \in Leases : k \in Markets /\ last_ids[k].sock \in Sockets
      /\ Markets \subseteq Int
      /\ DOMAIN buffer = 1..Len(buffer) /\ Len(buffer) \in Nat
  BY LenProperties, SMTT(30) DEF TypeInv, TypeOK, Control, Leases, Markets
<1>1. CASE Tick \/ ReadStep \/ UNCHANGED vars
  <2>1. UNCHANGED <<rpc, buffer, idx, subscribed, last_ids, sock_flags, cpc, closing>>
    BY <1>1
       DEF Tick, ReadStep, PollFlagged, PollIdle, RecvNull, RecvBytes, RecvMalformed,
           RecvDocument, AddRunners, Lookup, Activate, ApplyDelta, UpdateMissing, Terminate,
           vars
  <2> QED BY <2>1 DEF BatchInv, InBatch, Recording, Leases, BatchKey
<1>2. CASE \/ (\E n \in 1..NumMarkets : TakeBatch(n)) \/ DropLate \/ ReadRoom
           \/ NoSocketFree \/ TakeSocket \/ SubscribeFail
  <2>1. /\ ~Recording /\ ~Recording'
        /\ UNCHANGED <<subscribed, last_ids, sock_flags, cpc, closing>>
    BY <1>2 DEF TakeBatch, DropLate, ReadRoom, NoSocketFree, TakeSocket, SubscribeFail,
                RunAt, Recording
  <2>2. Leases' = Leases /\ rpc' # "cache"
    BY <2>1 DEF Leases, Recording
  <2> QED BY <2>1, <2>2, BatchesKept
<1>3. CASE Subscribe
  <2>1. /\ rpc = "connect" /\ rpc' = "push" /\ sock_flags' = [sock_flags EXCEPT ![idx] = TRUE]
        /\ UNCHANGED <<buffer, idx, subscribed, last_ids, cpc, closing>>
    BY <1>3 DEF Subscribe, RunAt
  <2>2. Leases' = Leases /\ sock_flags'[idx] /\ \A s \in Sockets : sock_flags[s] => sock_flags'[s]
    BY <1>0, <2>1 DEF Leases
  <2> QED BY <1>0, <2>1, <2>2 DEF BatchInv, InBatch, Recording
<1>4. CASE PushSubscribed
  <2> DEFINE m == buffer[pushed + 1]
  <2>1. /\ rpc = "push" /\ subscribed' = Append(subscribed, m) /\ rpc' \in {"push", "key"}
        /\ UNCHANGED <<buffer, idx, sock_flags, last_ids, cpc, closing>>
    BY <1>4 DEF PushSubscribed, RunAt
  <2>2. m \in Markets /\ m \in Range(buffer)
    <3>1. pushed < Len(buffer) /\ pushed \in Nat
      BY <2>1 DEF TypeInv, TypeOK, Control
    <3>2. pushed + 1 \in DOMAIN buffer
      BY <1>0, <3>1
    <3> QED BY <1>0, <3>2, ElementOfSeq DEF Range
  <2> HIDE DEF m
  <2>3. Range(subscribed') = Range(subscribed) \cup {m} /\ Leases' = Leases
    <3>1. Range(subscribed') = Range(subscribed) \cup {m}
      BY <1>0, <2>1, <2>2, FreeAppend
    <3> QED BY <2>1, <3>1 DEF Leases
  <2> QED BY <2>1, <2>2, <2>3 DEF BatchInv, InBatch, Recording
<1>6. CASE CacheKey
  <2>1. /\ rpc = "key" /\ rpc' = "cache"
        /\ last_ids'[BatchKey].mkts = Append(last_ids[BatchKey].mkts, BatchKey)
        /\ \A k \in Markets \ {BatchKey} : last_ids'[k] = last_ids[k]
        /\ UNCHANGED <<buffer, idx, subscribed, sock_flags, cpc, closing>>
    BY <1>0, Caching, <1>6 DEF CacheKey, RunAt
  <2>2. BatchKey' = BatchKey /\ BatchKey \in Range(last_ids'[BatchKey].mkts)
    <3>1. last_ids[BatchKey].mkts \in Seq(Markets) /\ BatchKey \in Markets
      BY <1>0, Caching, <2>1
    <3> QED BY <2>1, <3>1, FreeAppend DEF BatchKey
  <2>3. BatchKey \notin Leases
    BY Caching, <2>1 DEF Leases
  <2>4. \A k \in Leases : k \in Leases' /\ last_ids'[k] = last_ids[k]
    BY <2>1, <2>2, <2>3 DEF Leases
  <2> QED BY <2>1, <2>2, <2>4 DEF BatchInv, InBatch, Recording
<1>7. CASE CacheSocket
  <2>1. /\ rpc = "cache" /\ rpc' = "poll"
        /\ last_ids' = [last_ids EXCEPT
               ![BatchKey] = [sock |-> idx, mkts |-> @.mkts \o Others]]
        /\ UNCHANGED <<idx, subscribed, sock_flags, cpc, closing>>
    BY <1>7 DEF CacheSocket, RunAt
  <2>2. /\ last_ids'[BatchKey] = [sock |-> idx, mkts |-> last_ids[BatchKey].mkts \o Others]
        /\ \A k \in Markets \ {BatchKey} : last_ids'[k] = last_ids[k]
    BY <1>0, Caching, <2>1
  <2>3. Range(last_ids'[BatchKey].mkts) = Range(last_ids[BatchKey].mkts) \cup Range(Others)
    <3>1. last_ids[BatchKey].mkts \in Seq(Markets) /\ Others \in Seq(Markets)
      BY <1>0, Caching, <2>1
    <3> QED BY <2>2, <3>1, RangeConcatenation
  <2>4. \A m \in Range(buffer) : m \in Range(last_ids'[BatchKey].mkts)
    BY Caching, <2>1, <2>3 DEF BatchInv
  <2>5. BatchKey \notin Leases /\ (BatchKey # closing \/ cpc = "watch")
    BY <2>1, ClosingHolds DEF Leases
  <2>6. last_ids'[BatchKey] # NoBatch
    BY <1>0, <2>2 DEF NoBatch, NoSocket, Sockets
  <2>7. BatchKey \in Leases' /\ BatchKey \in Range(subscribed')
    BY Caching, <2>1, <2>5, <2>6 DEF Leases
  <2>8. \A k \in Leases : k # BatchKey /\ k \in Leases' /\ last_ids'[k] = last_ids[k]
    BY <2>1, <2>2 DEF Leases
  <2>9. \A m \in Range(buffer) : InBatch(m)'
    BY <2>1, <2>2, <2>4, <2>7 DEF BatchInv, InBatch, Recording
  <2>10. \A m : InBatch(m) => InBatch(m)'
    BY <2>1, <2>8 DEF InBatch
  <2> QED BY <2>1, <2>9, <2>10 DEF BatchInv, Recording
<1>8. CASE Deactivate \/ NotLast \/ ResetSocket \/ EraseActive \/ EraseBooks
  <2>1. /\ UNCHANGED <<rpc, buffer, idx, subscribed, last_ids, sock_flags>>
        /\ \/ cpc \notin {"erase", "linger", "discard"} /\ cpc' \notin {"erase", "linger", "discard"}
           \/ cpc \in {"erase", "linger", "discard"} /\ closing' = closing
    BY <1>8 DEF Deactivate, NotLast, ResetSocket, EraseActive, EraseBooks, CleanAt
  <2>2. Leases \subseteq Leases' /\ BatchKey' = BatchKey /\ Recording' = Recording
    BY <2>1 DEF Leases, BatchKey, Recording
  <2> QED BY <2>1, <2>2, BatchesKept
<1>9. CASE PopFront
  <2>1. /\ cpc = "pop" /\ cpc' = "find" /\ subscribed # <<>> /\ subscribed' = Tail(subscribed)
        /\ UNCHANGED <<rpc, buffer, idx, last_ids, sock_flags, closing>>
    BY <1>9 DEF PopFront, CleanAt, TypeInv, Control
  <2>2. /\ Range(subscribed) = {closing} \cup Range(subscribed')
        /\ \A m \in Range(subscribed') : closing < m /\ m \in Int /\ closing \in Int
    <3>1. closing = Head(subscribed) /\ Ascending(subscribed)
      BY <2>1 DEF OrderInv
    <3>2. Range(subscribed) \subseteq Markets
      BY <1>0, RangeOfSeq
    <3> QED BY <1>0, <2>1, <3>1, <3>2, AscendingTail
  <2>3. \A m \in Range(subscribed') : closing \in Markets => m \notin Range(last_ids[closing].mkts)
    <3>1. closing \in Markets => \A m \in Range(last_ids[closing].mkts) : m <= closing
      BY DEF OrderInv
    <3>2. \A m \in Range(subscribed') : ~(m <= closing)
      BY <2>2
    <3> QED BY <3>1, <3>2
  <2>4. Leases' = Leases /\ BatchKey' = BatchKey /\ Recording' = Recording
    BY <2>1 DEF Leases, BatchKey, Recording
  <2> QED BY <1>0, <2>1, <2>2, <2>3, <2>4, BatchesKept
<1>10. CASE FreeSocket
  <2> DEFINE s == last_ids[closing].sock
  <2>1. /\ cpc = "find" /\ cpc' = "drain" /\ closing \in Markets /\ last_ids[closing] # NoBatch
        /\ sock_flags' = [sock_flags EXCEPT ![s] = FALSE]
        /\ UNCHANGED <<rpc, buffer, idx, subscribed, last_ids, closing>>
    BY <1>10 DEF FreeSocket, CleanAt, TypeInv, Control
  <2>2. closing \in Leases /\ closing \notin Range(subscribed)
    BY <2>1, ClosingHolds DEF Leases, OrderInv
  <2>3. \A k \in Range(subscribed) \cap Leases : last_ids[k].sock # s
    BY <2>2 DEF ExclusiveSockets
  <2>4. Recording => idx # s
    BY <2>2 DEF ExclusiveSockets, Held, Recording
  <2>5. \A t \in Sockets \ {s} : sock_flags'[t] = sock_flags[t]
    BY <1>0, <2>1
  <2>6. Leases' = Leases /\ BatchKey' = BatchKey /\ Recording' = Recording
    BY <2>1 DEF Leases, BatchKey, Recording
  <2> HIDE DEF s
  <2> QED BY <1>0, <2>1, <2>3, <2>4, <2>5, <2>6, BatchesKept
<1>11. CASE Reconnect \/ ReconnectFail
  <2>1. /\ cpc = "renew" /\ cpc' = "erase"
        /\ UNCHANGED <<rpc, buffer, idx, subscribed, last_ids, sock_flags, closing>>
    BY <1>11 DEF Reconnect, ReconnectFail, CleanAt
  <2>2. /\ closing \notin Range(subscribed) /\ Leases \ {closing} \subseteq Leases'
        /\ BatchKey' = BatchKey /\ Recording' = Recording
    BY <2>1 DEF Leases, BatchKey, Recording, OrderInv
  <2> QED BY <2>1, <2>2, BatchesKept
<1>12. CASE DiscardBatch
  <2>1. /\ cpc = "discard" /\ cpc' = "watch" /\ closing \in Markets
        /\ last_ids' = [last_ids EXCEPT ![closing] = NoBatch]
        /\ UNCHANGED <<rpc, buffer, idx, subscribed, sock_flags>>
    BY <1>12 DEF DiscardBatch, CleanAt, TypeInv, Control
  <2>2. \A k \in Markets \ {closing} : last_ids'[k] = last_ids[k]
    BY <1>0, <2>1
  <2>3. closing \notin Range(subscribed) /\ closing \notin Leases /\ Leases \subseteq Leases'
    BY <2>1, <2>2 DEF Leases, OrderInv, BatchKey
  <2>4. rpc = "cache" => BatchKey \in Markets /\ BatchKey # closing
    BY Caching, <2>1, ClosingHolds
  <2>5. BatchKey' = BatchKey /\ Recording' = Recording
    BY <2>1 DEF BatchKey, Recording
  <2> QED BY <1>0, <2>1, <2>2, <2>3, <2>4, <2>5, BatchesKept
<1> QED
  BY <1>1, <1>2, <1>3, <1>4, <1>6, <1>7, <1>8, <1>9, <1>10, <1>11, <1>12
     DEF Next, Ended, RunStep, CleanStep

LEMMA BatchesOrdered ==
    ASSUME "lead" \in Timely
    PROVE  Spec => [](OrderInv /\ BatchInv)
<1>1. Init => OrderInv /\ BatchInv
  <2> SUFFICES ASSUME Init PROVE OrderInv /\ BatchInv
    OBVIOUS
  <2>1. /\ Range(<<>>) = {} /\ Ascending(<<>>)
    BY DEF Range, Ascending
  <2>2. \A k \in Markets : Range(last_ids[k].mkts) = {}
    BY <2>1 DEF Init, NoBatch
  <2> QED BY <2>1, <2>2 DEF Init, OrderInv, BatchInv, Recording
<1>2. SocketInv /\ OrderInv /\ [Next]_vars => OrderInv'
  BY NextOrder DEF SocketInv
<1>3. SocketInv /\ OrderInv /\ BatchInv /\ [Next]_vars => BatchInv'
  BY NextBatch
<1> QED BY <1>1, <1>2, <1>3, SocketsOwned, PTL DEF Spec

\* As long as batches are subscribed ahead of their start, every subscribed market
\* belongs to a batch whose last market is still to come and whose socket is
\* read: none is left to nobody's care, whatever is lost and cut off before.
THEOREM NoneOrphaned ==
    ASSUME "lead" \in Timely
    PROVE  Spec => []NoOrphanBatch
<1>1. SocketInv /\ BatchInv => NoOrphanBatch
  <2>1. ASSUME SocketInv, NEW k \in Leases PROVE last_ids[k].sock # NoSocket
    BY <2>1 DEF SocketInv, TypeInv, Control, Leases, Sockets, NoSocket
  <2> QED BY <2>1 DEF BatchInv, InBatch, NoOrphanBatch, Recording
<1> QED BY <1>1, SocketsOwned, BatchesOrdered, PTL

-----------------------------------------------------------------------------
(***************************************************************************)
(* What becomes of a market's image, under any timing: it is sought in     *)
(* subscribed_, which the market enters after the flag is raised.          *)
(***************************************************************************)

\* The run thread has subscribed to m and not pushed it yet.
Awaited(m) == rpc = "push" /\ \E i \in pushed + 1 .. Len(buffer) : buffer[i] = m

Found(m) == m > now => m \in Range(subscribed) \/ Awaited(m)

\* A market that is served, or whose image is in hand, and that has not started is
\* subscribed, or about to be.
ImageInv ==
    /\ cpc = "pop" => Head(subscribed) <= now
    /\ \A s \in Sockets : \A m \in serving[s] : Found(m)
    /\ dpc \in {"image", "lookup"} => Found(doc)

\* What the run thread pushes is no longer awaited, but subscribed.
LEMMA PushFinds ==
    ASSUME TypeInv, PushSubscribed, NEW m \in Markets, Found(m)
    PROVE  Found(m)' /\ (subscribed # <<>> => Head(subscribed') = Head(subscribed))
<1>0. /\ rpc = "push" /\ pushed \in Nat /\ pushed < Len(buffer)
      /\ buffer \in Seq(Markets) /\ subscribed \in Seq(Markets)
      /\ DOMAIN buffer = 1 .. Len(buffer) /\ Len(buffer) \in Nat
  BY LenProperties DEF PushSubscribed, RunAt, TypeInv, TypeOK, Control
<1>1. /\ subscribed' = Append(subscribed, buffer[pushed + 1])
      /\ pushed' = pushed + 1
      /\ rpc' = IF pushed' = Len(buffer) THEN "key" ELSE "push"
      /\ UNCHANGED <<now, buffer>>
  BY DEF PushSubscribed
<1>2. buffer[pushed + 1] \in Markets
  BY <1>0, ElementOfSeq
<1>3. Range(subscribed') = Range(subscribed) \cup {buffer[pushed + 1]}
  <2> DEFINE b == buffer[pushed + 1]
  <2>1. b \in Markets /\ subscribed \in Seq(Markets) /\ subscribed' = Append(subscribed, b)
    BY <1>0, <1>1, <1>2
  <2> HIDE DEF b
  <2>2. Range(Append(subscribed, b)) = Range(subscribed) \cup {b}
    BY <2>1, FreeAppend
  <2> QED BY <2>1, <2>2 DEF b
<1>4. subscribed # <<>> => Head(subscribed') = Head(subscribed)
  <2> DEFINE b == buffer[pushed + 1]
  <2>1. b \in Markets /\ subscribed \in Seq(Markets) /\ subscribed' = Append(subscribed, b)
    BY <1>0, <1>1, <1>2
  <2> HIDE DEF b
  <2>2. subscribed # <<>> => Len(subscribed) >= 1
    BY <2>1, EmptySeq, LenProperties
  <2>3. subscribed # <<>> => Append(subscribed, b)[1] = subscribed[1]
    BY <2>1, <2>2, AppendProperties, LenProperties
  <2>4. Len(Append(subscribed, b)) = Len(subscribed) + 1
    BY <2>1, AppendProperties
  <2> QED BY <2>1, <2>2, <2>3, <2>4
<1>5. ASSUME m > now, NEW i \in pushed + 1 .. Len(buffer), buffer[i] = m, i # pushed + 1
      PROVE  Awaited(m)'
  <2> DEFINE n == Len(buffer)
  <2>1. i \in pushed + 1 .. n /\ i # pushed + 1 /\ pushed \in Nat /\ n \in Nat
    BY <1>0, <1>5
  <2> HIDE DEF n
  <2>2. i \in (pushed + 1) + 1 .. n /\ pushed + 1 # n
    BY ONLY <2>1
  <2>3. rpc' = "push" /\ i \in pushed' + 1 .. Len(buffer')
    BY <1>1, <2>2 DEF n
  <2> QED BY <1>1, <1>5, <2>3 DEF Awaited
<1>6. ASSUME m > now PROVE m \in Range(subscribed') \/ Awaited(m)'
  <2>1. CASE m \in Range(subscribed)
    BY <1>3, <2>1
  <2>2. CASE Awaited(m)
    BY <1>3, <1>5, <1>6, <2>2 DEF Awaited
  <2> QED BY <1>6, <2>1, <2>2 DEF Found
<1> QED BY <1>1, <1>4, <1>6 DEF Found

\* A market that is found stays so until it starts.
LEMMA StaysFound ==
    ASSUME TypeInv, ImageInv, [Next]_vars, NEW m \in Markets, Found(m)
    PROVE  Found(m)'
<1>0. /\ now \in Int /\ m \in Int
      /\ subscribed \in Seq(Markets) /\ buffer \in Seq(Markets)
  BY DEF TypeInv, TypeOK, Markets
<1>1. CASE Tick
  <2>1. now' = now + 1 /\ UNCHANGED <<rpc, buffer, pushed, subscribed>>
    BY <1>1 DEF Tick
  <2>2. m > now' => m > now
    BY <1>0, <2>1
  <2> QED BY <2>1, <2>2 DEF Found, Awaited
<1>2. CASE \/ (\E n \in 1..NumMarkets : TakeBatch(n)) \/ DropLate \/ ReadRoom
           \/ NoSocketFree \/ TakeSocket \/ Subscribe \/ SubscribeFail \/ CacheKey
           \/ CacheSocket
  <2>1. rpc # "push" /\ UNCHANGED <<now, subscribed>>
    BY <1>2 DEF TakeBatch, DropLate, ReadRoom, NoSocketFree, TakeSocket, Subscribe,
                SubscribeFail, CacheKey, CacheSocket, RunAt
  <2> QED BY <2>1 DEF Found, Awaited
<1>3. CASE PushSubscribed
  BY <1>3, PushFinds
<1>4. CASE PopFront
  <2>1. /\ cpc = "pop" /\ subscribed # <<>> /\ subscribed' = Tail(subscribed)
        /\ UNCHANGED <<now, rpc, buffer, pushed>>
    BY <1>4 DEF PopFront, CleanAt, TypeInv, Control
  <2>2. Range(subscribed) = {Head(subscribed)} \cup Range(subscribed')
    BY <1>0, <2>1, TailRange
  <2>3. m > now => m # Head(subscribed)
    BY <1>0, <2>1 DEF ImageInv
  <2> QED BY <2>1, <2>2, <2>3 DEF Found, Awaited
<1>5. CASE \/ Deactivate \/ NotLast \/ FreeSocket \/ ResetSocket \/ Reconnect \/ ReconnectFail
           \/ EraseActive \/ EraseBooks \/ DiscardBatch \/ UNCHANGED vars
  <2>1. UNCHANGED <<now, rpc, buffer, pushed, subscribed>>
    BY <1>5 DEF Deactivate, NotLast, FreeSocket, ResetSocket, Reconnect, ReconnectFail,
                EraseActive, EraseBooks, DiscardBatch, vars
  <2> QED BY <2>1 DEF Found, Awaited
<1>6. CASE ReadStep
  <2>1. UNCHANGED <<now, rpc, buffer, pushed, subscribed>>
    BY <1>6 DEF ReadStep, PollFlagged, PollIdle, RecvNull, RecvBytes, RecvMalformed,
                RecvDocument, AddRunners, Lookup, Activate, ApplyDelta, UpdateMissing, Terminate
  <2> QED BY <2>1 DEF Found, Awaited
<1> QED
  BY <1>1, <1>2, <1>3, <1>4, <1>5, <1>6 DEF Next, Ended, RunStep, CleanStep

LEMMA NextImage == TypeInv /\ ImageInv /\ [Next]_vars => ImageInv'
<1> SUFFICES ASSUME TypeInv, ImageInv, [Next]_vars PROVE ImageInv'
  OBVIOUS
<1>0. /\ now \in Int /\ Markets \subseteq Int
      /\ subscribed \in Seq(Markets) /\ buffer \in Seq(Markets)
      /\ serving \in [Sockets -> SUBSET Markets]
      /\ idx \in Sockets /\ di \in Sockets
      /\ dpc \in {"image", "lookup"} => doc \in Markets
  BY DEF TypeInv, TypeOK, Markets, Control
\* What is served is found.
<1>1. ASSUME NEW s \in Sockets, NEW m \in serving'[s] PROVE Found(m)'
  <2>1. CASE Subscribe
    <3>1. /\ rpc = "connect" /\ rpc' = "push" /\ pushed' = 0 /\ buffer' = buffer
          /\ serving' = [serving EXCEPT ![idx] = Range(buffer)]
      BY <2>1 DEF Subscribe, RunAt
    <3>2. CASE m \in serving[s]
      BY <1>0, <3>2, StaysFound DEF ImageInv
    <3>3. CASE m \notin serving[s]
      <4>1. m \in Range(buffer)
        BY <1>0, <3>1, <3>3
      <4>2. \E i \in 1 .. Len(buffer) : buffer[i] = m
        BY <1>0, <4>1, LenProperties DEF Range
      <4> QED BY <3>1, <4>2 DEF Found, Awaited
    <3> QED BY <3>2, <3>3
  <2>2. CASE ~ Subscribe
    <3>1. serving'[s] \subseteq serving[s]
      <4>1. CASE ResetSocket
        BY <1>0, <4>1 DEF ResetSocket
      <4>2. CASE ~ ResetSocket
        <5>1. serving' = serving
          BY <2>2, <4>2 DEF Next, Ended, Tick, TakeBatch, DropLate, RunStep, ReadRoom,
             NoSocketFree, TakeSocket, SubscribeFail, PushSubscribed, CacheKey, CacheSocket,
             CleanStep, Deactivate, PopFront, NotLast, FreeSocket, Reconnect, ReconnectFail,
             EraseActive, EraseBooks, DiscardBatch, ReadStep, PollFlagged, PollIdle, RecvNull,
             RecvBytes, RecvMalformed, RecvDocument, AddRunners, Lookup, Activate, ApplyDelta,
             UpdateMissing, Terminate, vars
        <5> QED BY <5>1
      <4> QED BY <4>1, <4>2
    <3> QED BY <1>0, <3>1, StaysFound DEF ImageInv
  <2> QED BY <2>1, <2>2
\* And so is what a document is about.
<1>2. ASSUME dpc' \in {"image", "lookup"} PROVE Found(doc)'
  <2>1. CASE dpc \in {"image", "lookup"} /\ doc' = doc
    <3>1. Found(doc) /\ doc \in Markets
      BY <1>0, <2>1 DEF ImageInv
    <3>2. \A m \in Markets : Found(m) => Found(m)'
      BY StaysFound
    <3>3. doc' > now' => doc > now'
      BY <2>1
    <3> QED BY <2>1, <3>1, <3>2 DEF Found, Awaited
  <2>2. ASSUME NEW m \in Markets, RecvDocument(m) PROVE Found(doc)'
    <3>1. m \in serving[di] /\ doc' = m
      BY <2>2 DEF RecvDocument
    <3>2. Found(m)'
      BY <1>0, <3>1, StaysFound DEF ImageInv
    <3> QED BY <3>1, <3>2 DEF Found, Awaited
  <2>3. (dpc \in {"image", "lookup"} /\ doc' = doc) \/ \E m \in Markets : RecvDocument(m)
    BY <1>2 DEF Next, Ended, Tick, TakeBatch, DropLate, RunStep, ReadRoom, NoSocketFree,
       TakeSocket, Subscribe, SubscribeFail, PushSubscribed, CacheKey, CacheSocket, CleanStep,
       Deactivate, PopFront, NotLast, FreeSocket, ResetSocket, Reconnect, ReconnectFail,
       EraseActive, EraseBooks, DiscardBatch, ReadStep, PollFlagged, PollIdle, RecvNull,
       RecvBytes, RecvMalformed, AddRunners, Lookup, Activate, ApplyDelta, UpdateMissing,
       Terminate, vars
  <2> QED BY <2>1, <2>2, <2>3
\* The market being popped has started.
<1>3. ASSUME cpc' = "pop" PROVE Head(subscribed') <= now'
  <2>1. CASE Deactivate
    BY <2>1 DEF Deactivate, CleanAt
  <2>2. CASE PushSubscribed
    <3>1. cpc = "pop" /\ subscribed # <<>> /\ now' = now
      BY <1>3, <2>2 DEF PushSubscribed, TypeInv, Control
    <3>2. Head(subscribed') = Head(subscribed)
      <4>1. pushed \in Nat /\ pushed < Len(buffer)
        BY <2>2 DEF PushSubscribed, RunAt, TypeInv, TypeOK, Control
      <4>2. buffer[pushed + 1] \in Markets
        BY <1>0, <4>1, ElementOfSeq
      <4> QED BY <1>0, <2>2, <3>1, <4>2 DEF PushSubscribed
    <3> QED BY <3>1, <3>2 DEF ImageInv
  <2>3. CASE Tick
    <3>1. cpc = "pop" /\ subscribed # <<>> /\ now' = now + 1 /\ subscribed' = subscribed
      BY <1>3, <2>3 DEF Tick, TypeInv, Control
    <3>2. Head(subscribed) \in Int
      BY <1>0, <3>1, HeadTailProperties
    <3> QED BY <1>0, <3>1, <3>2 DEF ImageInv
  <2>4. CASE ~ (Deactivate \/ PushSubscribed \/ Tick)
    <3>1. cpc = "pop" /\ UNCHANGED <<now, subscribed>>
      BY <1>3, <2>4 DEF Next, Ended, TakeBatch, DropLate, RunStep, ReadRoom, NoSocketFree,
         TakeSocket, Subscribe, SubscribeFail, CacheKey, CacheSocket, CleanStep, PopFront,
         NotLast, FreeSocket, ResetSocket, Reconnect, ReconnectFail, EraseActive, EraseBooks,
         DiscardBatch, CleanAt, ReadStep, PollFlagged, PollIdle, RecvNull, RecvBytes,
         RecvMalformed, RecvDocument, AddRunners, Lookup, Activate, ApplyDelta, UpdateMissing,
         Terminate, vars
    <3> QED BY <3>1 DEF ImageInv
  <2> QED BY <2>1, <2>2, <2>3, <2>4
<1> QED BY <1>1, <1>2, <1>3 DEF ImageInv

\* Whatever the timing, the image of a market that has not started is lost in one
\* case only: it is looked up between the raising of the flag and the push of that
\* market, which the run thread is about to do.
THEOREM ImagesActivate == Spec => []ImageActivates
<1>1. Init => ImageInv
  BY DEF Init, ImageInv
<1>2. TypeInv /\ ImageInv /\ [Next]_vars => ImageInv'
  BY NextImage
<1>3. ImageInv => ImageActivates
  BY DEF ImageInv, ImageActivates, Found, Awaited
<1> QED BY <1>1, <1>2, <1>3, Typing, PTL DEF Spec

-----------------------------------------------------------------------------
(***************************************************************************)
(* What a reader that takes its time may come upon: it may be in front of  *)
(* the read of a socket while clean_up_markets lowers the flag, sleeps and *)
(* destroys the client, but once it has looked at the flag, however late,  *)
(* nothing of the old stream is left in its way.                           *)
(***************************************************************************)

\* The reader has looked at the socket that is about to be destroyed.
Drained == cpc = "drain" /\ last_ids[closing].sock \notin unpolled

LateInv ==
    /\ \A s \in Sockets : sock_flags[s] => socks[s]
    /\ dpc = "recv" => sock_flags[di] \/ di \in unpolled
    /\ \A s \in Sockets : full_jsons[s] = "stale" => s \in unpolled
    /\ Drained => full_jsons[last_ids[closing].sock] = "empty"

\* Filing the batch that is being subscribed leaves the one being cleaned up.
LEMMA ClosingKept ==
    ASSUME TypeInv, Lead, OrderInv, CacheKey \/ CacheSocket, cpc # "watch"
    PROVE  closing \in Markets /\ closing # BatchKey /\ last_ids'[closing] = last_ids[closing]
<1>1. rpc \in {"key", "cache"}
  BY DEF CacheKey, CacheSocket, RunAt
<1>2. closing \in Markets /\ closing # BatchKey /\ BatchKey \in Markets
  BY <1>1, ClosingHolds, Caching DEF TypeInv, Control
<1> QED BY <1>2 DEF CacheKey, CacheSocket, TypeInv, TypeOK

LEMMA NextLate == SocketInv /\ OrderInv /\ LateInv /\ [Next]_vars => LateInv'
<1> SUFFICES ASSUME SocketInv, OrderInv, LateInv, [Next]_vars PROVE LateInv'
  OBVIOUS
<1>0. /\ TypeInv /\ Lead /\ Lowered /\ ExclusiveSockets
      /\ sock_flags \in [Sockets -> BOOLEAN] /\ socks \in [Sockets -> BOOLEAN]
      /\ full_jsons \in [Sockets -> {"empty", "partial", "stale"}]
      /\ idx \in Sockets /\ di \in Sockets /\ unpolled \subseteq Sockets
      /\ cpc \in {"drain", "renew"} => last_ids[closing].sock \in Sockets
  BY DEF SocketInv, TypeInv, TypeOK, Control
\* The run thread.
<1>1. CASE \/ Tick \/ (\E n \in 1..NumMarkets : TakeBatch(n)) \/ DropLate \/ ReadRoom
           \/ NoSocketFree \/ TakeSocket \/ SubscribeFail \/ PushSubscribed \/ UNCHANGED vars
  BY <1>1 DEF Tick, TakeBatch, DropLate, ReadRoom, NoSocketFree, TakeSocket, SubscribeFail,
              PushSubscribed, vars, LateInv, Drained
<1>2. CASE Subscribe
  <2>1. /\ socks[idx] /\ sock_flags' = [sock_flags EXCEPT ![idx] = TRUE]
        /\ UNCHANGED <<socks, last_ids, cpc, closing, unpolled, dpc, di, full_jsons>>
    BY <1>2 DEF Subscribe
  <2>2. \A s \in Sockets : /\ sock_flags[s] => sock_flags'[s]
                           /\ sock_flags'[s] => sock_flags[s] \/ s = idx
    BY <1>0, <2>1
  <2> QED BY <1>0, <2>1, <2>2 DEF LateInv, Drained
<1>3. CASE CacheKey \/ CacheSocket
  <2>1. UNCHANGED <<socks, sock_flags, cpc, closing, unpolled, dpc, di, full_jsons>>
    BY <1>3 DEF CacheKey, CacheSocket
  <2>2. cpc = "drain" => last_ids'[closing] = last_ids[closing]
    BY <1>0, <1>3, ClosingKept
  <2> QED BY <2>1, <2>2 DEF LateInv, Drained
\* clean_up_markets.
<1>4. CASE \/ Deactivate \/ PopFront \/ NotLast \/ ReconnectFail \/ EraseActive
           \/ EraseBooks \/ DiscardBatch
  <2>1. /\ cpc # "drain" /\ cpc' # "drain"
        /\ UNCHANGED <<socks, sock_flags, unpolled, dpc, di, full_jsons>>
    BY <1>4 DEF Deactivate, PopFront, NotLast, ReconnectFail, EraseActive, EraseBooks,
                DiscardBatch, CleanAt
  <2> QED BY <2>1 DEF LateInv, Drained
<1>5. CASE FreeSocket
  <2> DEFINE s == last_ids[closing].sock
  <2>1. /\ unpolled' = unpolled \cup {s}
        /\ sock_flags' = [sock_flags EXCEPT ![s] = FALSE]
        /\ UNCHANGED <<socks, last_ids, closing, dpc, di, full_jsons>>
    BY <1>5 DEF FreeSocket, CleanAt
  <2>2. \A t \in Sockets : /\ t # s => sock_flags'[t] = sock_flags[t]
                           /\ t = s => ~sock_flags'[t]
    BY <1>0, <2>1
  <2>3. ~ Drained'
    BY <2>1 DEF Drained
  <2> HIDE DEF s
  <2> QED BY <1>0, <2>1, <2>2, <2>3 DEF LateInv
<1>6. CASE ResetSocket
  <2> DEFINE s == last_ids[closing].sock
  <2>1. /\ cpc = "drain" /\ cpc' = "renew"
        /\ socks' = [socks EXCEPT ![s] = FALSE]
        /\ full_jsons' = [full_jsons EXCEPT ![s] = IF @ = "partial" THEN "stale" ELSE @]
        /\ dpc' \in {dpc, "terminated"}
        /\ UNCHANGED <<sock_flags, unpolled, di>>
    BY <1>6 DEF ResetSocket, CleanAt
  <2>2. s \in Sockets /\ ~sock_flags[s]
    BY <1>0, <2>1 DEF Lowered
  <2>3. s \in unpolled \/ full_jsons[s] = "empty"
    BY <2>1 DEF LateInv, Drained
  <2>4. ~ Drained'
    BY <2>1 DEF Drained
  <2> HIDE DEF s
  <2>5. \A t \in Sockets : /\ t # s => socks'[t] = socks[t] /\ full_jsons'[t] = full_jsons[t]
                           /\ full_jsons'[t] = "stale" => t \in unpolled
    BY <1>0, <2>1, <2>2, <2>3 DEF LateInv
  <2> QED BY <1>0, <2>1, <2>2, <2>4, <2>5 DEF LateInv
<1>7. CASE Reconnect
  <2>1. /\ cpc' # "drain"
        /\ socks' = [socks EXCEPT ![last_ids[closing].sock] = TRUE]
        /\ UNCHANGED <<sock_flags, unpolled, dpc, di, full_jsons>>
    BY <1>7 DEF Reconnect, CleanAt
  <2>2. \A t \in Sockets : socks[t] => socks'[t]
    BY <1>0, <2>1
  <2> QED BY <1>0, <2>1, <2>2 DEF LateInv, Drained
\* get_data.
<1>8. CASE PollFlagged
  <2>1. /\ sock_flags[di]
        /\ UNCHANGED <<sock_flags, socks, last_ids, cpc, closing, unpolled, di, full_jsons>>
    BY <1>8 DEF PollFlagged
  <2> QED BY <2>1 DEF LateInv, Drained
<1>9. CASE PollIdle
  <2>1. /\ dpc' = "poll"
        /\ full_jsons' = [full_jsons EXCEPT ![di] = "empty"]
        /\ unpolled' = unpolled \ {di}
        /\ UNCHANGED <<sock_flags, socks, last_ids, cpc, closing>>
    BY <1>9 DEF PollIdle, Reset
  <2>2. /\ full_jsons'[di] = "empty"
        /\ \A t \in Sockets : t # di => full_jsons'[t] = full_jsons[t]
    BY <1>0, <2>1
  <2>3. Drained' => last_ids[closing].sock = di \/ Drained
    BY <2>1 DEF Drained
  <2>4. Drained' => full_jsons'[last_ids'[closing'].sock] = "empty"
    <3>1. Drained' => cpc = "drain" /\ last_ids'[closing'].sock = last_ids[closing].sock
      BY <2>1 DEF Drained
    <3> QED BY <1>0, <2>2, <2>3, <3>1 DEF LateInv
  <2>5. \A t \in Sockets : full_jsons'[t] = "stale" => t \in unpolled'
    BY <2>1, <2>2 DEF LateInv
  <2> QED BY <2>1, <2>4, <2>5 DEF LateInv
<1>10. CASE RecvBytes \/ (\E m \in Markets : RecvDocument(m))
  <2>1. /\ dpc = "recv" /\ dpc' # "recv"
        /\ UNCHANGED <<sock_flags, socks, last_ids, cpc, closing, unpolled>>
    BY <1>10 DEF RecvBytes, RecvDocument
  <2>2. \E b \in {"empty", "partial", "stale"} :
           /\ full_jsons' = [full_jsons EXCEPT ![di] = b]
           /\ b = "stale" => full_jsons[di] = "stale"
    BY <1>10 DEF RecvBytes, RecvDocument
  <2>3. \A t \in Sockets : /\ full_jsons'[t] = "stale" => full_jsons[t] = "stale"
                           /\ t # di => full_jsons'[t] = full_jsons[t]
    BY <1>0, <2>2
  <2>4. Drained => last_ids[closing].sock # di
    BY <2>1 DEF Lowered, LateInv, Drained, SocketInv
  <2>5. Drained' => full_jsons'[last_ids'[closing'].sock] = "empty"
    <3>1. Drained' => Drained /\ last_ids'[closing'].sock = last_ids[closing].sock
      BY <2>1 DEF Drained
    <3>2. Drained => last_ids[closing].sock \in Sockets
      BY <1>0 DEF Drained
    <3> QED BY <2>3, <2>4, <3>1, <3>2 DEF LateInv
  <2> QED BY <2>1, <2>3, <2>5 DEF LateInv
<1>11. CASE \/ RecvNull \/ RecvMalformed \/ AddRunners \/ Lookup \/ Activate \/ ApplyDelta
            \/ UpdateMissing
  <2>1. /\ dpc' # "recv"
        /\ UNCHANGED <<sock_flags, socks, last_ids, cpc, closing, unpolled, full_jsons>>
    BY <1>11 DEF RecvNull, RecvMalformed, AddRunners, Lookup, Activate, ApplyDelta,
                 UpdateMissing, Terminate
  <2> QED BY <2>1 DEF LateInv, Drained
<1> QED
  BY <1>1, <1>2, <1>3, <1>4, <1>5, <1>6, <1>7, <1>8, <1>9, <1>10, <1>11
     DEF Next, Ended, RunStep, CleanStep, ReadStep

LEMMA LateKept ==
    ASSUME "lead" \in Timely
    PROVE  Spec => [](TypeInv /\ LateInv)
<1>1. Init => LateInv
  BY DEF Init, LateInv, Drained
<1>2. SocketInv /\ OrderInv /\ LateInv /\ [Next]_vars => LateInv'
  BY NextLate
<1> QED BY <1>1, <1>2, Typing, SocketsOwned, BatchesOrdered, PTL DEF Spec

\* As long as batches are subscribed ahead of their start, and however late the
\* reader is, the one read in which it may come upon a destroyed socket is the one
\* it went into before the flag was lowered: no read begins on one, whether
\* the reconnection succeeds, fails or is still on its way.
THEOREM ReadsConnected ==
    ASSUME "lead" \in Timely
    PROVE  Spec => []NoReadOfResetSocket
<1>1. TypeInv /\ LateInv => NoReadOfResetSocket
  BY DEF LateInv, TypeInv, TypeOK, NoReadOfResetSocket
<1> QED BY <1>1, LateKept, PTL

\* Under the same assumption half a document of an old stream meets a new one only
\* if the reader has not looked at the lowered flag a single time before the socket
\* was subscribed again: in the ten seconds, during the reconnection, or later.
THEOREM ReadsUnmixed ==
    ASSUME "lead" \in Timely
    PROVE  Spec => []NoMixedDocument
<1>1. TypeInv /\ LateInv => NoMixedDocument
  BY DEF LateInv, TypeInv, TypeOK, NoMixedDocument
<1> QED BY <1>1, LateKept, PTL

-----------------------------------------------------------------------------
(***************************************************************************)
(* Why the reader and clean_up_markets keep out of each other's way when   *)
(* the reader polls a lowered flag within the ten seconds: until it has    *)
(* seen the lowered flag of a socket, neither the socket nor the books of  *)
(* its markets are touched, and from then on no document of these markets  *)
(* arrives.  From that, every step of the three threads is a step of the   *)
(* lifecycle that MarketLifecycle promises of a market, or none.           *)
(***************************************************************************)

\* The reader has passed the flag check of the socket it is at.
Busy == dpc \in {"recv", "image", "lookup", "activate", "delta"}

\* The reader holds a document.
Reading == dpc \in {"image", "lookup", "activate", "delta"}

\* The flag of s is down, and the reader may not have seen it yet.
Draining(s) == cpc = "drain" /\ last_ids[closing].sock = s /\ s \in unpolled

\* What is read is connected; what is left of a document belongs to the stream.
ReaderInv ==
    /\ \A s \in Sockets : sock_flags[s] => socks[s]
    /\ Busy => socks[di] /\ (sock_flags[di] \/ Draining(di))
    /\ \A s \in Sockets : full_jsons[s] # "stale"
    /\ Drained => full_jsons[last_ids[closing].sock] = "empty"

\* A market that was listed, and is not being subscribed to now.
Old(m) == m < next /\ (rpc \in {"room", "sock", "connect"} => m \notin Range(buffer))

\* Markets are served by one stream, and never for a second time.
ServeInv ==
    /\ \A s \in Sockets : \A m \in serving[s] :
          Old(m) /\ \A t \in Sockets : m \in serving[t] => t = s
    /\ \A m \in imaged : Old(m)
    /\ Recording => serving[idx] = Range(buffer)
    /\ Reading => doc \in serving[di] /\ doc \in imaged

\* The markets of a record are served by its socket, and by none once it has
\* been destroyed.
RecordInv ==
    /\ \A k \in Markets : last_ids[k] # NoBatch =>
          /\ last_ids[k].mkts # <<>>
          /\ ~(rpc = "cache" /\ k = BatchKey) =>
                \A m \in Range(last_ids[k].mkts), s \in Sockets :
                    m \in serving[s] => s = last_ids[k].sock
    /\ rpc = "cache" => Range(last_ids[BatchKey].mkts) \subseteq Range(buffer)
    /\ cpc \in {"renew", "erase", "linger", "discard"} =>
          \A m \in Range(last_ids[closing].mkts), s \in Sockets : m \notin serving[s]
    /\ cpc \in {"erase", "linger"} => cpos \in DOMAIN last_ids[closing].mkts

\* A market that is served has the books its image made, and so has one that is
\* active.
BooksInv ==
    /\ \A m \in imaged, s \in Sockets :
          m \in serving[s] => books[m] \/ (dpc = "image" /\ doc = m)
    /\ ActiveHasBooks
    /\ cpc = "linger" => active[last_ids[closing].mkts[cpos]] # "on"

-----------------------------------------------------------------------------

LEMMA NextReader ==
    ASSUME "pass" \in Timely
    PROVE  SocketInv /\ OrderInv /\ ReaderInv /\ [Next]_vars => ReaderInv'
<1> SUFFICES ASSUME SocketInv, OrderInv, ReaderInv, [Next]_vars PROVE ReaderInv'
  OBVIOUS
<1>0. /\ TypeInv /\ Lead /\ Lowered /\ ExclusiveSockets
      /\ sock_flags \in [Sockets -> BOOLEAN] /\ socks \in [Sockets -> BOOLEAN]
      /\ full_jsons \in [Sockets -> {"empty", "partial", "stale"}]
      /\ idx \in Sockets /\ di \in Sockets /\ unpolled \subseteq Sockets
  BY DEF SocketInv, TypeInv, TypeOK
\* The run thread.
<1>1. CASE \/ Tick \/ (\E n \in 1..NumMarkets : TakeBatch(n)) \/ DropLate \/ ReadRoom
           \/ NoSocketFree \/ TakeSocket \/ SubscribeFail \/ PushSubscribed \/ UNCHANGED vars
  BY <1>1 DEF Tick, TakeBatch, DropLate, ReadRoom, NoSocketFree, TakeSocket, SubscribeFail,
              PushSubscribed, vars, ReaderInv, Busy, Draining, Drained
<1>2. CASE Subscribe
  <2>1. /\ socks[idx] /\ sock_flags' = [sock_flags EXCEPT ![idx] = TRUE]
        /\ UNCHANGED <<socks, last_ids, cpc, closing, unpolled, dpc, di, full_jsons>>
    BY <1>2 DEF Subscribe
  <2>2. \A s \in Sockets : /\ sock_flags[s] => sock_flags'[s]
                           /\ sock_flags'[s] => sock_flags[s] \/ s = idx
    BY <1>0, <2>1
  <2> QED BY <1>0, <2>1, <2>2 DEF ReaderInv, Busy, Draining, Drained
<1>3. CASE CacheKey \/ CacheSocket
  <2>1. UNCHANGED <<socks, sock_flags, cpc, closing, unpolled, dpc, di, full_jsons>>
    BY <1>3 DEF CacheKey, CacheSocket
  <2>2. cpc = "drain" => last_ids'[closing] = last_ids[closing]
    BY <1>0, <1>3, ClosingKept
  <2> QED BY <2>1, <2>2 DEF ReaderInv, Busy, Draining, Drained
\* clean_up_markets.
<1>4. CASE \/ Deactivate \/ PopFront \/ NotLast \/ ReconnectFail \/ EraseActive
           \/ EraseBooks \/ DiscardBatch
  <2>1. /\ cpc # "drain" /\ cpc' # "drain"
        /\ UNCHANGED <<socks, sock_flags, dpc, di, full_jsons>>
    BY <1>4 DEF Deactivate, PopFront, NotLast, ReconnectFail, EraseActive, EraseBooks,
                DiscardBatch, CleanAt
  <2> QED BY <2>1 DEF ReaderInv, Busy, Draining, Drained
<1>5. CASE FreeSocket
  <2> DEFINE s == last_ids[closing].sock
  <2>1. /\ cpc = "find" /\ cpc' = "drain" /\ unpolled' = unpolled \cup {s}
        /\ sock_flags' = [sock_flags EXCEPT ![s] = FALSE]
        /\ UNCHANGED <<socks, last_ids, closing, dpc, di, full_jsons>>
    BY <1>5 DEF FreeSocket, CleanAt
  <2>2. \A t \in Sockets : /\ t # s => sock_flags'[t] = sock_flags[t]
                           /\ t = s => ~sock_flags'[t]
    BY <1>0, <2>1
  <2> HIDE DEF s
  <2>3. Draining(di)' <=> di = s
    BY <2>1 DEF Draining, s
  <2>4. Busy => socks[di] /\ sock_flags[di]
    BY <2>1 DEF ReaderInv, Draining, Drained
  <2>5. ~Drained'
    BY <2>1 DEF Drained, s
  <2> QED BY <1>0, <2>1, <2>2, <2>3, <2>4, <2>5 DEF ReaderInv, Busy
<1>6. CASE ResetSocket
  <2> DEFINE s == last_ids[closing].sock
  <2>1. /\ cpc = "drain" /\ cpc' = "renew" /\ s \notin unpolled
        /\ socks' = [socks EXCEPT ![s] = FALSE]
        /\ full_jsons' = [full_jsons EXCEPT ![s] = IF @ = "partial" THEN "stale" ELSE @]
        /\ dpc' \in IF dpc = "recv" /\ di = s THEN {dpc, "terminated"} ELSE {dpc}
        /\ UNCHANGED <<sock_flags, last_ids, di>>
    BY <1>6 DEF ResetSocket, CleanAt, Slept
  <2>2. ~sock_flags[s]
    BY <1>0, <2>1 DEF Lowered
  <2>3. Busy => socks[di] /\ sock_flags[di] /\ di # s
    BY <2>1, <2>2 DEF ReaderInv, Draining, Drained
  <2>4. dpc' = dpc
    BY <2>1, <2>3 DEF Busy
  <2>5. full_jsons[s] = "empty"
    BY <2>1 DEF ReaderInv, Drained
  <2>6. \A t \in Sockets : full_jsons'[t] = full_jsons[t]
    BY <1>0, <2>1, <2>5
  <2>7. \A t \in Sockets : t # s => socks'[t] = socks[t]
    BY <1>0, <2>1
  <2>8. ~Drained'
    BY <2>1 DEF Drained
  <2> HIDE DEF s
  <2> QED BY <1>0, <2>1, <2>2, <2>3, <2>4, <2>6, <2>7, <2>8 DEF ReaderInv, Busy
<1>7. CASE Reconnect
  <2>1. /\ cpc = "renew" /\ cpc' = "erase"
        /\ socks' = [socks EXCEPT ![last_ids[closing].sock] = TRUE]
        /\ UNCHANGED <<sock_flags, dpc, di, full_jsons>>
    BY <1>7 DEF Reconnect, CleanAt
  <2>2. \A t \in Sockets : socks[t] => socks'[t]
    BY <1>0, <2>1
  <2> QED BY <1>0, <2>1, <2>2 DEF ReaderInv, Busy, Draining, Drained
\* get_data.
<1>8. CASE PollFlagged
  <2>1. /\ sock_flags[di]
        /\ UNCHANGED <<sock_flags, socks, last_ids, cpc, closing, unpolled, di, full_jsons>>
    BY <1>8 DEF PollFlagged
  <2>2. socks[di] /\ (Drained' => Drained)
    BY <1>0, <2>1 DEF ReaderInv, Drained
  <2> QED BY <1>0, <2>1, <2>2 DEF ReaderInv
<1>9. CASE PollIdle
  <2>1. /\ dpc = "poll" /\ dpc' = dpc
        /\ full_jsons' = [full_jsons EXCEPT ![di] = "empty"]
        /\ unpolled' = unpolled \ {di}
        /\ UNCHANGED <<sock_flags, socks, last_ids, cpc, closing>>
    BY <1>9 DEF PollIdle, Reset
  <2>2. /\ full_jsons'[di] = "empty"
        /\ \A t \in Sockets : full_jsons'[t] \in {full_jsons[t], "empty"}
    BY <1>0, <2>1
  <2>3. ~Busy'
    BY <2>1 DEF Busy
  <2>4. cpc = "drain" => last_ids[closing].sock \in Sockets
    BY <1>0 DEF TypeInv, Control
  <2>5. Drained' => full_jsons'[last_ids'[closing'].sock] = "empty"
    BY <2>1, <2>2, <2>4 DEF ReaderInv, Drained
  <2> QED BY <2>1, <2>2, <2>3, <2>5 DEF ReaderInv
<1>10. CASE RecvBytes \/ (\E m \in Markets : RecvDocument(m))
  <2>1. /\ dpc = "recv"
        /\ dpc' \in {"poll", "image", "delta"}
        /\ dpc' # "poll" => di' = di
        /\ \E b \in {"empty", "partial"} : full_jsons' = [full_jsons EXCEPT ![di] = b]
        /\ UNCHANGED <<sock_flags, socks, last_ids, cpc, closing, unpolled>>
    BY <1>0, <1>10 DEF RecvBytes, RecvDocument, ReaderInv
  <2>2. Busy /\ socks[di] /\ (sock_flags[di] \/ Draining(di))
    BY <2>1 DEF ReaderInv, Busy
  <2>3. \A t \in Sockets : /\ full_jsons'[t] # "stale"
                           /\ t # di => full_jsons'[t] = full_jsons[t]
    BY <1>0, <2>1 DEF ReaderInv
  <2>4. Drained => last_ids[closing].sock # di /\ last_ids[closing].sock \in Sockets
    BY <1>0, <2>2 DEF Lowered, Draining, Drained, TypeInv, Control
  <2>5. Drained' => full_jsons'[last_ids'[closing'].sock] = "empty"
    BY <2>1, <2>3, <2>4 DEF ReaderInv, Drained
  <2>6. Busy' => socks'[di'] /\ (sock_flags'[di'] \/ Draining(di)')
    BY <2>1, <2>2 DEF Busy, Draining
  <2>7. \A s \in Sockets : sock_flags'[s] => socks'[s]
    BY <2>1 DEF ReaderInv
  <2> QED BY <2>3, <2>5, <2>6, <2>7 DEF ReaderInv
<1>11. CASE \/ RecvNull \/ RecvMalformed \/ AddRunners \/ Lookup \/ Activate \/ ApplyDelta
            \/ UpdateMissing
  <2>1. /\ Busy' => Busy /\ di' = di
        /\ UNCHANGED <<sock_flags, socks, last_ids, cpc, closing, unpolled, full_jsons>>
    BY <1>11 DEF RecvNull, RecvMalformed, AddRunners, Lookup, Activate, ApplyDelta,
                 UpdateMissing, Terminate, Busy
  <2> QED BY <2>1 DEF ReaderInv, Draining, Drained
<1> QED
  BY <1>1, <1>2, <1>3, <1>4, <1>5, <1>6, <1>7, <1>8, <1>9, <1>10, <1>11
     DEF Next, Ended, RunStep, CleanStep, ReadStep

-----------------------------------------------------------------------------
(* What is served.                                                         *)

LEMMA NextServe ==
    ASSUME "pass" \in Timely
    PROVE  SocketInv /\ OrderInv /\ ReaderInv /\ ServeInv /\ [Next]_vars => ServeInv'
<1> SUFFICES ASSUME SocketInv, OrderInv, ReaderInv, ServeInv, [Next]_vars PROVE ServeInv'
  OBVIOUS
<1>0. /\ TypeInv /\ Lead /\ Lowered /\ ExclusiveSockets
      /\ next \in Int /\ Markets \subseteq Int
      /\ buffer \in Seq(Markets) /\ Range(buffer) \subseteq Markets
      /\ serving \in [Sockets -> SUBSET Markets] /\ imaged \subseteq Markets
      /\ sock_flags \in [Sockets -> BOOLEAN]
      /\ idx \in Sockets /\ di \in Sockets
  BY RangeOfSeq, SMTT(30) DEF SocketInv, TypeInv, TypeOK, Markets
\* The run thread.
<1>1. ASSUME NEW n \in 1..NumMarkets, TakeBatch(n) PROVE ServeInv'
  <2>1. /\ rpc = "poll" /\ rpc' = "room" /\ next' = next + n
        /\ DOMAIN buffer' = 1..n
        /\ \A i \in 1..n : buffer'[i] = next + i - 1
        /\ UNCHANGED <<idx, serving, imaged, dpc, di, doc>>
    BY <1>1 DEF TakeBatch, RunAt
  <2>2. \A m \in Range(buffer') : ~(m < next)
    BY <1>0, <2>1 DEF Range
  <2>3. \A m \in Markets : m < next => m < next'
    BY <1>0, <2>1
  <2> QED BY <1>0, <2>1, <2>2, <2>3 DEF ServeInv, Old, Recording, Reading
<1>2. CASE DropLate
  <2>1. /\ rpc = "poll" /\ next' = next + 1
        /\ UNCHANGED <<rpc, buffer, idx, serving, imaged, dpc, di, doc>>
    BY <1>2 DEF DropLate, RunAt
  <2>2. \A m \in Markets : m < next => m < next'
    BY <1>0, <2>1
  <2> QED BY <1>0, <2>1, <2>2 DEF ServeInv, Old, Recording, Reading
<1>3. CASE ReadRoom
  <2>1. /\ buffer # <<>> /\ rpc = "room" /\ rpc' \in {"poll", "sock"}
        /\ MaxMarkets - Len(subscribed) \in Int
        /\ UNCHANGED <<next, idx, serving, imaged, dpc, di, doc>>
    BY <1>3 DEF ReadRoom, RunAt, SocketInv, TypeInv, TypeOK, Control
  <2>2. Range(buffer') \subseteq Range(buffer)
    <3> DEFINE ids == GetIds(buffer, MaxMarkets - Len(subscribed))
    <3>1. /\ DOMAIN ids \subseteq DOMAIN buffer
          /\ \A i \in DOMAIN ids : ids[i] = buffer[i]
      BY <1>0, <2>1, GetIdsPrefix, LenProperties
    <3>2. buffer' = <<>> \/ buffer' = ids
      BY <1>3 DEF ReadRoom
    <3> HIDE DEF ids
    <3> QED BY <3>1, <3>2 DEF Range
  <2> QED BY <2>1, <2>2 DEF ServeInv, Old, Recording, Reading
<1>4. CASE NoSocketFree \/ SubscribeFail \/ CacheSocket
  <2>1. /\ rpc' = "poll"
        /\ UNCHANGED <<next, idx, serving, imaged, dpc, di, doc>>
    BY <1>4 DEF NoSocketFree, SubscribeFail, CacheSocket
  <2> QED BY <2>1 DEF ServeInv, Old, Recording, Reading
<1>5. CASE TakeSocket
  <2>1. /\ rpc = "sock" /\ rpc' = "connect"
        /\ UNCHANGED <<next, buffer, serving, imaged, dpc, di, doc>>
    BY <1>5 DEF TakeSocket, RunAt
  <2> QED BY <2>1 DEF ServeInv, Old, Recording, Reading
<1>6. CASE Subscribe
  <2>1. /\ rpc = "connect" /\ rpc' = "push"
        /\ serving' = [serving EXCEPT ![idx] = Range(buffer)]
        /\ UNCHANGED <<next, buffer, idx, imaged, dpc, di, doc, cpc, closing, last_ids, unpolled>>
    BY <1>6 DEF Subscribe, RunAt
  <2>2. /\ serving'[idx] = Range(buffer)
        /\ \A s \in Sockets \ {idx} : serving'[s] = serving[s]
    BY <1>0, <2>1
  <2>3. \A m \in Range(buffer) : m < next
    BY <2>1, <1>0 DEF Lead, Range
  <2>4. \A s \in Sockets : \A m \in serving[s] : m < next /\ m \notin Range(buffer)
    BY <2>1 DEF ServeInv, Old
  <2>5. Busy => di # idx
    <3>1. ~sock_flags[idx]
      BY <1>0, <2>1 DEF Lowered
    <3>2. cpc = "drain" => last_ids[closing].sock # idx
      BY <1>0, <2>1, ClosingHolds DEF ExclusiveSockets, Held
    <3> QED BY <3>1, <3>2 DEF ReaderInv, Draining
  <2>6. \A s \in Sockets : \A m \in serving'[s] :
           m < next /\ \A t \in Sockets : m \in serving'[t] => t = s
    BY <2>2, <2>3, <2>4 DEF ServeInv
  <2>7. Reading => doc \in serving'[di]
    BY <1>0, <2>2, <2>5 DEF ServeInv, Reading, Busy
  <2> QED BY <2>1, <2>2, <2>6, <2>7 DEF ServeInv, Old, Recording, Reading
<1>7. CASE PushSubscribed \/ CacheKey
  <2>1. /\ Recording /\ rpc' \in {"push", "key", "cache"}
        /\ UNCHANGED <<next, buffer, idx, serving, imaged, dpc, di, doc>>
    BY <1>7 DEF PushSubscribed, CacheKey, RunAt, Recording
  <2> QED BY <2>1 DEF ServeInv, Old, Recording, Reading
\* clean_up_markets.
<1>8. CASE ResetSocket
  <2> DEFINE s == last_ids[closing].sock
  <2>1. /\ cpc = "drain" /\ s \notin unpolled
        /\ serving' = [serving EXCEPT ![s] = {}]
        /\ dpc' \in {dpc, "terminated"}
        /\ UNCHANGED <<next, rpc, buffer, idx, imaged, di, doc>>
    BY <1>8 DEF ResetSocket, CleanAt, Slept
  <2>2. closing \in Leases /\ ~sock_flags[s]
    BY <1>0, <2>1, ClosingHolds DEF Lowered
  <2>3. Busy => di # s
    BY <2>1, <2>2 DEF ReaderInv, Draining
  <2>4. Recording => idx # s
    BY <1>0, <2>2 DEF ExclusiveSockets, Held, Recording
  <2> HIDE DEF s
  <2>5. /\ \A t \in Sockets : serving'[t] \subseteq serving[t]
        /\ \A t \in Sockets : t # s => serving'[t] = serving[t]
    BY <1>0, <2>1
  <2>6. Reading' => Reading /\ di # s
    BY <2>1, <2>3 DEF Reading, Busy
  <2> QED BY <1>0, <2>1, <2>4, <2>5, <2>6 DEF ServeInv, Old, Recording
<1>9. CASE \/ Tick \/ Deactivate \/ PopFront \/ NotLast \/ FreeSocket \/ Reconnect
           \/ ReconnectFail \/ EraseActive \/ EraseBooks \/ DiscardBatch \/ UNCHANGED vars
  <2>1. UNCHANGED <<next, rpc, buffer, idx, serving, imaged, dpc, di, doc>>
    BY <1>9 DEF Tick, Deactivate, PopFront, NotLast, FreeSocket, Reconnect, ReconnectFail,
                EraseActive, EraseBooks, DiscardBatch, vars
  <2> QED BY <2>1 DEF ServeInv, Old, Recording, Reading
\* get_data.
<1>10. ASSUME NEW m \in Markets, RecvDocument(m) PROVE ServeInv'
  <2>1. /\ m \in serving[di] /\ doc' = m /\ imaged' = imaged \cup {m}
        /\ UNCHANGED <<next, rpc, buffer, idx, serving, di>>
    BY <1>10 DEF RecvDocument
  <2> QED BY <1>0, <2>1 DEF ServeInv, Old, Recording
<1>11. CASE \/ PollFlagged \/ PollIdle \/ RecvNull \/ RecvBytes \/ RecvMalformed \/ AddRunners
            \/ Lookup \/ Activate \/ ApplyDelta \/ UpdateMissing
  <2>1. /\ Reading' => Reading /\ UNCHANGED <<di, doc>>
        /\ UNCHANGED <<next, rpc, buffer, idx, serving, imaged>>
    BY <1>11 DEF PollFlagged, PollIdle, RecvNull, RecvBytes, RecvMalformed, AddRunners, Lookup,
                 Activate, ApplyDelta, UpdateMissing, Terminate, Reading
  <2> QED BY <2>1 DEF ServeInv, Old, Recording
<1> QED
  BY <1>1, <1>2, <1>3, <1>4, <1>5, <1>6, <1>7, <1>8, <1>9, <1>10, <1>11
     DEF Next, Ended, RunStep, CleanStep, ReadStep

\* A step that leaves the records alone, and serves nothing new of them.
LEMMA RecordsKept ==
    ASSUME RecordInv, UNCHANGED last_ids,
           rpc' = "cache" => rpc = "cache" /\ UNCHANGED buffer,
           rpc = "cache" => rpc' = "cache" /\ UNCHANGED buffer,
           \A k \in Markets, s \in Sockets : last_ids[k] # NoBatch =>
              serving'[s] \cap Range(last_ids[k].mkts) \subseteq serving[s],
           cpc' \in {"renew", "erase", "linger", "discard"} =>
              /\ cpc \in {"renew", "erase", "linger", "discard"}
              /\ closing' = closing /\ closing \in Markets /\ last_ids[closing] # NoBatch,
           cpc' \in {"erase", "linger"} => cpos' \in DOMAIN last_ids[closing].mkts
    PROVE  RecordInv'
<1>1. rpc = "cache" => BatchKey' = BatchKey
  BY DEF BatchKey
<1> QED BY <1>1 DEF RecordInv

LEMMA NextRecord ==
    SocketInv /\ OrderInv /\ BatchInv /\ ServeInv /\ RecordInv /\ [Next]_vars => RecordInv'
<1> SUFFICES ASSUME SocketInv, OrderInv, BatchInv, ServeInv, RecordInv, [Next]_vars
             PROVE  RecordInv'
  OBVIOUS
<1>0. /\ TypeInv /\ Lead /\ ExclusiveSockets
      /\ now \in Int /\ Markets \subseteq Int
      /\ buffer \in Seq(Markets) /\ Range(buffer) \subseteq Markets
      /\ serving \in [Sockets -> SUBSET Markets]
      /\ last_ids \in [Markets -> [sock : Sockets \cup {NoSocket}, mkts : Seq(Markets)]]
      /\ idx \in Sockets
      /\ cpc \in {"drain", "renew", "erase", "linger", "discard"} =>
            closing \in Markets /\ last_ids[closing] # NoBatch
  <2>1. cpc \in {"drain", "renew", "erase", "linger", "discard"} =>
            closing \in Markets /\ last_ids[closing] # NoBatch
    BY DEF SocketInv, TypeInv, Control
  <2>2. /\ last_ids \in [Markets -> [sock : Sockets \cup {NoSocket}, mkts : Seq(Markets)]]
        /\ serving \in [Sockets -> SUBSET Markets] /\ idx \in Sockets
        /\ buffer \in Seq(Markets) /\ now \in Int
    BY DEF SocketInv, TypeInv, TypeOK
  <2>3. Range(buffer) \subseteq Markets /\ Markets \subseteq Int
    BY <2>2, RangeOfSeq DEF Markets
  <2> QED BY <2>1, <2>2, <2>3 DEF SocketInv
<1>1. CASE \/ Tick \/ (\E n \in 1..NumMarkets : TakeBatch(n)) \/ DropLate \/ ReadRoom
           \/ NoSocketFree \/ TakeSocket \/ SubscribeFail \/ PushSubscribed
           \/ ReadStep \/ UNCHANGED vars
  <2>1. /\ UNCHANGED <<last_ids, serving, cpc, closing, cpos>>
        /\ rpc' = "cache" => rpc = "cache" /\ UNCHANGED buffer
        /\ rpc = "cache" => rpc' = "cache" /\ UNCHANGED buffer
    BY <1>1
       DEF Tick, TakeBatch, DropLate, ReadRoom, NoSocketFree, TakeSocket, SubscribeFail,
           PushSubscribed, ReadStep, PollFlagged, PollIdle, RecvNull, RecvBytes, RecvMalformed,
           RecvDocument, AddRunners, Lookup, Activate, ApplyDelta, UpdateMissing, Terminate,
           RunAt, vars
  <2>2. cpc' \in {"erase", "linger"} => cpos' \in DOMAIN last_ids[closing].mkts
    BY <2>1 DEF RecordInv
  <2> QED BY <1>0, <2>1, <2>2, RecordsKept
<1>2. CASE Subscribe
  <2>1. /\ rpc = "connect" /\ rpc' = "push"
        /\ serving' = [serving EXCEPT ![idx] = Range(buffer)]
        /\ UNCHANGED <<last_ids, cpc, closing, cpos>>
    BY <1>2 DEF Subscribe, RunAt
  <2>2. \A k \in Markets : last_ids[k] # NoBatch =>
           Range(buffer) \cap Range(last_ids[k].mkts) = {}
    <3>1. \A k \in Markets : \A m \in Range(buffer) : last_ids[k] # NoBatch => k < m
      BY <1>0, <2>1 DEF Lead, Range
    <3>2. \A k \in Markets : \A m \in Range(last_ids[k].mkts) : m <= k
      BY DEF OrderInv
    <3>3. ASSUME NEW k \in Markets, last_ids[k] # NoBatch,
                 NEW m \in Range(buffer), m \in Range(last_ids[k].mkts)
          PROVE  FALSE
      <4>1. k < m /\ m <= k /\ k \in Int /\ m \in Int
        BY <1>0, <3>1, <3>2, <3>3
      <4> QED BY <4>1
    <3> QED BY <3>3
  <2>3. \A s \in Sockets : serving'[s] = serving[s] \/ serving'[s] = Range(buffer)
    BY <1>0, <2>1
  <2>4. cpc' \in {"erase", "linger"} => cpos' \in DOMAIN last_ids[closing].mkts
    BY <2>1 DEF RecordInv
  <2> QED BY <1>0, <2>1, <2>2, <2>3, <2>4, RecordsKept
<1>3. CASE CacheKey
  <2>1. /\ rpc = "key" /\ rpc' = "cache"
        /\ last_ids'[BatchKey].mkts = Append(last_ids[BatchKey].mkts, BatchKey)
        /\ \A k \in Markets \ {BatchKey} : last_ids'[k] = last_ids[k]
        /\ UNCHANGED <<buffer, serving, cpc, closing, cpos>>
    BY <1>0, <1>3, Caching DEF CacheKey, RunAt
  <2>2. /\ BatchKey \in Markets /\ BatchKey \in Range(buffer) /\ BatchKey' = BatchKey
        /\ last_ids[BatchKey] = NoBatch
    BY <1>0, <2>1, Caching DEF BatchKey
  <2>3. last_ids'[BatchKey].mkts # <<>> /\ Range(last_ids'[BatchKey].mkts) \subseteq Range(buffer)
    <3>1. last_ids'[BatchKey].mkts = <<BatchKey>>
      BY <2>1, <2>2 DEF NoBatch
    <3> QED BY <2>2, <3>1 DEF Range
  <2>4. cpc # "watch" => closing \in Markets /\ last_ids'[closing] = last_ids[closing]
    BY <1>0, <1>3, ClosingKept
  <2> QED BY <2>1, <2>2, <2>3, <2>4 DEF RecordInv
<1>4. CASE CacheSocket
  <2>1. /\ rpc = "cache" /\ rpc' = "poll"
        /\ last_ids' = [last_ids EXCEPT
               ![BatchKey] = [sock |-> idx, mkts |-> @.mkts \o Others]]
        /\ UNCHANGED <<serving, cpc, closing, cpos>>
    BY <1>4 DEF CacheSocket, RunAt
  <2>2. /\ BatchKey \in Markets /\ Others \in Seq(Markets)
        /\ Range(buffer) = {BatchKey} \cup Range(Others)
    BY <1>0, <2>1, Caching
  <2>3. /\ last_ids'[BatchKey].sock = idx
        /\ last_ids'[BatchKey].mkts = last_ids[BatchKey].mkts \o Others
        /\ \A k \in Markets \ {BatchKey} : last_ids'[k] = last_ids[k]
    BY <1>0, <2>1, <2>2
  <2>4. /\ Range(last_ids'[BatchKey].mkts) \subseteq Range(buffer)
        /\ last_ids'[BatchKey].mkts # <<>>
    <3>1. last_ids[BatchKey].mkts \in Seq(Markets)
      BY <1>0, <2>2
    <3>2. Range(last_ids'[BatchKey].mkts) = Range(last_ids[BatchKey].mkts) \cup Range(Others)
      BY <2>2, <2>3, <3>1, RangeConcatenation
    <3>3. last_ids'[BatchKey].mkts # <<>>
      BY <2>1, <3>2 DEF BatchInv, Range
    <3> QED BY <2>1, <2>2, <3>2, <3>3 DEF RecordInv
  <2>5. \A m \in Range(buffer), s \in Sockets : m \in serving[s] => s = idx
    BY <1>0, <2>1 DEF ServeInv, Recording
  <2>6. cpc # "watch" => closing \in Markets /\ last_ids'[closing] = last_ids[closing]
    BY <1>0, <1>4, ClosingKept
  <2> QED BY <2>1, <2>2, <2>3, <2>4, <2>5, <2>6, ZenonT(30) DEF RecordInv
<1>5. CASE Deactivate \/ PopFront \/ NotLast \/ FreeSocket \/ EraseActive
  <2>1. /\ UNCHANGED <<rpc, buffer, serving, last_ids, cpos>>
        /\ cpc' \notin {"renew", "erase", "discard"}
        /\ cpc' = "linger" => cpc = "erase" /\ closing' = closing
    BY <1>5 DEF Deactivate, PopFront, NotLast, FreeSocket, EraseActive, CleanAt
  <2>2. cpc' \in {"erase", "linger"} => cpos' \in DOMAIN last_ids[closing].mkts
    BY <2>1 DEF RecordInv
  <2> QED BY <1>0, <2>1, <2>2, RecordsKept
<1>6. CASE ResetSocket
  <2> DEFINE s == last_ids[closing].sock
  <2>1. /\ cpc = "drain" /\ cpc' = "renew" /\ closing \in Markets /\ last_ids[closing] # NoBatch
        /\ serving' = [serving EXCEPT ![s] = {}]
        /\ UNCHANGED <<rpc, buffer, last_ids, closing>>
    BY <1>0, <1>6 DEF ResetSocket, CleanAt
  <2>2. \A t \in Sockets : serving'[t] \subseteq serving[t] /\ (t = s => serving'[t] = {})
    BY <1>0, <2>1
  <2>3. rpc = "cache" => closing # BatchKey
    BY <1>0, <2>1, ClosingHolds
  <2>4. \A m \in Range(last_ids[closing].mkts), t \in Sockets : m \in serving[t] => t = s
    BY <2>1, <2>3 DEF RecordInv
  <2> HIDE DEF s
  <2>5. \A m \in Range(last_ids[closing].mkts), t \in Sockets : m \notin serving'[t]
    BY <2>2, <2>4
  <2>6. rpc' = rpc /\ BatchKey' = BatchKey
    BY <2>1 DEF BatchKey
  <2> QED BY <2>1, <2>2, <2>5, <2>6 DEF RecordInv
<1>7. CASE Reconnect \/ ReconnectFail
  <2>1. /\ cpc = "renew" /\ cpc' = "erase" /\ closing \in Markets /\ last_ids[closing] # NoBatch
        /\ cpos' = 1
        /\ UNCHANGED <<rpc, buffer, serving, last_ids, closing>>
    BY <1>0, <1>7 DEF Reconnect, ReconnectFail, CleanAt
  <2>2. cpos' \in DOMAIN last_ids[closing].mkts
    <3>1. last_ids[closing].mkts \in Seq(Markets) /\ last_ids[closing].mkts # <<>>
      BY <1>0, <2>1 DEF RecordInv
    <3> QED BY <2>1, <3>1, EmptySeq, LenProperties
  <2> QED BY <1>0, <2>1, <2>2, RecordsKept
<1>8. CASE EraseBooks
  <2>1. /\ cpc = "linger" /\ closing \in Markets /\ last_ids[closing] # NoBatch
        /\ \/ /\ cpos < Len(last_ids[closing].mkts)
              /\ cpc' = "erase" /\ cpos' = cpos + 1
           \/ cpc' = "discard"
        /\ UNCHANGED <<rpc, buffer, serving, last_ids, closing>>
    BY <1>0, <1>8 DEF EraseBooks, CleanAt
  <2>2. cpos' \in DOMAIN last_ids[closing].mkts \/ cpc' = "discard"
    <3>1. last_ids[closing].mkts \in Seq(Markets)
      BY <1>0, <2>1
    <3>2. /\ DOMAIN last_ids[closing].mkts = 1..Len(last_ids[closing].mkts)
          /\ Len(last_ids[closing].mkts) \in Nat
      BY <3>1, LenProperties
    <3>3. cpos \in 1..Len(last_ids[closing].mkts)
      BY <2>1, <3>2 DEF RecordInv
    <3> QED BY <2>1, <3>2, <3>3
  <2> QED BY <1>0, <2>1, <2>2, RecordsKept
<1>9. CASE DiscardBatch
  <2>1. /\ cpc = "discard" /\ cpc' = "watch" /\ closing \in Markets
        /\ last_ids' = [last_ids EXCEPT ![closing] = NoBatch]
        /\ UNCHANGED <<rpc, buffer, serving>>
    BY <1>0, <1>9 DEF DiscardBatch, CleanAt
  <2>2. /\ last_ids'[closing] = NoBatch
        /\ \A k \in Markets \ {closing} : last_ids'[k] = last_ids[k]
    BY <1>0, <2>1
  <2>3. rpc = "cache" => closing # BatchKey /\ BatchKey \in Markets
    BY <1>0, <2>1, ClosingHolds, Caching
  <2>4. rpc' = rpc /\ BatchKey' = BatchKey
    BY <2>1 DEF BatchKey
  <2> QED BY <2>1, <2>2, <2>3, <2>4 DEF RecordInv
<1> QED
  BY <1>1, <1>2, <1>3, <1>4, <1>5, <1>6, <1>7, <1>8, <1>9 DEF Next, Ended, RunStep, CleanStep

-----------------------------------------------------------------------------
(* Books and activation.                                                   *)

LEMMA NextBooks ==
    SocketInv /\ OrderInv /\ ServeInv /\ RecordInv /\ BooksInv /\ [Next]_vars => BooksInv'
<1> SUFFICES ASSUME SocketInv, OrderInv, ServeInv, RecordInv, BooksInv, [Next]_vars
             PROVE  BooksInv'
  OBVIOUS
<1>0. /\ TypeInv /\ Lead
      /\ serving \in [Sockets -> SUBSET Markets] /\ imaged \subseteq Markets
      /\ last_ids \in [Markets -> [sock : Sockets \cup {NoSocket}, mkts : Seq(Markets)]]
      /\ active \in [Markets -> {"absent", "off", "on"}] /\ books \in [Markets -> BOOLEAN]
      /\ idx \in Sockets /\ di \in Sockets
  BY DEF SocketInv, TypeInv, TypeOK
\* The market that is being erased.
<1> DEFINE e == last_ids[closing].mkts[cpos]
<1>1. cpc \in {"erase", "linger"} =>
         e \in Markets /\ e \in Range(last_ids[closing].mkts)
  <2>1. ASSUME cpc \in {"erase", "linger"}
        PROVE  /\ last_ids[closing].mkts \in Seq(Markets)
               /\ cpos \in DOMAIN last_ids[closing].mkts
    BY <1>0, <2>1 DEF RecordInv, TypeInv, Control
  <2> QED BY <2>1, ElementOfSeq, LenProperties DEF Range
\* The run thread.
<1>2. CASE \/ Tick \/ (\E n \in 1..NumMarkets : TakeBatch(n)) \/ DropLate \/ ReadRoom
           \/ NoSocketFree \/ TakeSocket \/ SubscribeFail \/ PushSubscribed \/ UNCHANGED vars
  BY <1>2 DEF Tick, TakeBatch, DropLate, ReadRoom, NoSocketFree, TakeSocket, SubscribeFail,
              PushSubscribed, vars, BooksInv, ActiveHasBooks
<1>3. CASE Subscribe
  <2>1. /\ rpc = "connect" /\ serving' = [serving EXCEPT ![idx] = Range(buffer)]
        /\ UNCHANGED <<imaged, books, active, dpc, doc, cpc, closing, cpos, last_ids>>
    BY <1>3 DEF Subscribe, RunAt
  <2>2. \A m \in imaged : m \notin Range(buffer)
    BY <2>1 DEF ServeInv, Old
  <2>3. \A s \in Sockets : serving'[s] = serving[s] \/ serving'[s] = Range(buffer)
    BY <1>0, <2>1
  <2> QED BY <2>1, <2>2, <2>3 DEF BooksInv, ActiveHasBooks
<1>4. CASE CacheKey \/ CacheSocket
  <2>1. UNCHANGED <<serving, imaged, books, active, dpc, doc, cpc, closing, cpos>>
    BY <1>4 DEF CacheKey, CacheSocket
  <2>2. cpc = "linger" => last_ids'[closing] = last_ids[closing]
    BY <1>0, <1>4, ClosingKept
  <2> QED BY <2>1, <2>2 DEF BooksInv, ActiveHasBooks
\* clean_up_markets.
<1>5. CASE Deactivate
  <2>1. /\ active' = [active EXCEPT ![closing'] = "off"] /\ cpc' = "pop"
        /\ UNCHANGED <<serving, imaged, books, dpc, doc>>
    BY <1>5 DEF Deactivate
  <2>2. \A m \in Markets : active'[m] = "on" => active[m] = "on"
    BY <1>0, <2>1
  <2> QED BY <2>1, <2>2 DEF BooksInv, ActiveHasBooks
<1>6. CASE \/ PopFront \/ NotLast \/ FreeSocket \/ Reconnect \/ ReconnectFail \/ DiscardBatch
  <2>1. /\ cpc' # "linger"
        /\ UNCHANGED <<serving, imaged, books, active, dpc, doc>>
    BY <1>6 DEF PopFront, NotLast, FreeSocket, Reconnect, ReconnectFail, DiscardBatch
  <2> QED BY <2>1 DEF BooksInv, ActiveHasBooks
<1>7. CASE ResetSocket
  <2>1. /\ cpc' = "renew" /\ serving' = [serving EXCEPT ![last_ids[closing].sock] = {}]
        /\ dpc' = dpc \/ dpc = "recv"
        /\ UNCHANGED <<imaged, books, active, doc>>
    BY <1>7 DEF ResetSocket
  <2>2. \A s \in Sockets : serving'[s] \subseteq serving[s]
    BY <1>0, <2>1
  <2> QED BY <2>1, <2>2 DEF BooksInv, ActiveHasBooks
<1>8. CASE EraseActive
  <2>1. /\ cpc = "erase" /\ cpc' = "linger" /\ active' = [active EXCEPT ![e] = "absent"]
        /\ UNCHANGED <<serving, imaged, books, dpc, doc, closing, cpos, last_ids>>
    BY <1>8 DEF EraseActive, CleanAt
  <2>2. active'[e] = "absent" /\ \A m \in Markets : active'[m] = "on" => active[m] = "on"
    BY <1>0, <1>1, <2>1
  <2>3. last_ids'[closing'].mkts[cpos'] = e
    BY <2>1
  <2> HIDE DEF e
  <2> QED BY <2>1, <2>2, <2>3 DEF BooksInv, ActiveHasBooks
<1>9. CASE EraseBooks
  <2>1. /\ cpc = "linger" /\ cpc' # "linger" /\ books' = [books EXCEPT ![e] = FALSE]
        /\ UNCHANGED <<serving, imaged, active, dpc, doc>>
    BY <1>9 DEF EraseBooks, CleanAt
  <2>2. active[e] # "on" /\ \A s \in Sockets : e \notin serving[s]
    BY <1>1, <2>1 DEF BooksInv, RecordInv
  <2>3. \A m \in Markets : m # e => books'[m] = books[m]
    BY <1>0, <2>1
  <2> HIDE DEF e
  <2> QED BY <1>0, <2>1, <2>2, <2>3 DEF BooksInv, ActiveHasBooks
\* get_data.
<1>10. CASE PollFlagged \/ PollIdle \/ RecvNull \/ RecvBytes \/ RecvMalformed \/ UpdateMissing
  <2>1. /\ dpc # "image"
        /\ UNCHANGED <<serving, imaged, books, active, cpc, closing, cpos, last_ids>>
    BY <1>10 DEF PollFlagged, PollIdle, RecvNull, RecvBytes, RecvMalformed, UpdateMissing,
                 Terminate
  <2> QED BY <2>1 DEF BooksInv, ActiveHasBooks
<1>11. ASSUME NEW m \in Markets, RecvDocument(m) PROVE BooksInv'
  <2>1. /\ dpc = "recv" /\ imaged' = imaged \cup {m} /\ doc' = m
        /\ m \notin imaged => dpc' = "image"
        /\ UNCHANGED <<serving, books, active, cpc, closing, cpos, last_ids>>
    BY <1>11 DEF RecvDocument
  <2> QED BY <2>1 DEF BooksInv, ActiveHasBooks
<1>12. CASE AddRunners
  <2>1. /\ dpc = "image" /\ doc \in Markets /\ books' = [books EXCEPT ![doc] = TRUE]
        /\ UNCHANGED <<serving, imaged, active, cpc, closing, cpos, last_ids>>
    BY <1>0, <1>12 DEF AddRunners, TypeInv, Control
  <2>2. books'[doc] /\ \A m \in Markets : books[m] => books'[m]
    BY <1>0, <2>1
  <2> QED BY <1>0, <2>1, <2>2 DEF BooksInv, ActiveHasBooks
<1>13. CASE Lookup \/ ApplyDelta
  <2>1. /\ dpc # "image"
        /\ UNCHANGED <<serving, imaged, books, active, cpc, closing, cpos, last_ids>>
    BY <1>13 DEF Lookup, ApplyDelta
  <2> QED BY <2>1 DEF BooksInv, ActiveHasBooks
<1>14. CASE Activate
  <2>1. /\ dpc = "activate" /\ doc \in Markets /\ active' = [active EXCEPT ![doc] = "on"]
        /\ UNCHANGED <<serving, imaged, books, cpc, closing, cpos, last_ids>>
    BY <1>0, <1>14 DEF Activate, TypeInv, Control
  <2>2. doc \in imaged /\ doc \in serving[di]
    BY <2>1 DEF ServeInv, Reading
  <2>3. books[doc]
    BY <1>0, <2>1, <2>2 DEF BooksInv
  <2>4. cpc = "linger" => e # doc
    BY <1>0, <1>1, <2>2 DEF RecordInv
  <2>5. \A m \in Markets \ {doc} : active'[m] = active[m]
    BY <1>0, <2>1
  <2>6. cpc = "linger" => active'[e] # "on"
    BY <1>1, <2>4, <2>5 DEF BooksInv
  <2>7. last_ids'[closing'].mkts[cpos'] = e
    BY <2>1
  <2> HIDE DEF e
  <2> QED BY <2>1, <2>3, <2>5, <2>6, <2>7 DEF BooksInv, ActiveHasBooks
<1> QED
  BY <1>2, <1>3, <1>4, <1>5, <1>6, <1>7, <1>8, <1>9, <1>10, <1>11, <1>12, <1>13, <1>14
     DEF Next, Ended, RunStep, CleanStep, ReadStep

-----------------------------------------------------------------------------

LEMMA ReaderKept ==
    ASSUME {"lead", "pass"} \subseteq Timely
    PROVE  Spec => [](ReaderInv /\ ServeInv /\ RecordInv /\ BooksInv)
<1>1. Init => ReaderInv /\ ServeInv /\ RecordInv /\ BooksInv
  <2> SUFFICES ASSUME Init PROVE ReaderInv /\ ServeInv /\ RecordInv /\ BooksInv
    OBVIOUS
  <2>1. /\ \A s \in Sockets : ~sock_flags[s] /\ serving[s] = {} /\ full_jsons[s] = "empty"
        /\ \A m \in Markets : last_ids[m] = NoBatch /\ active[m] = "absent"
        /\ rpc = "poll" /\ cpc = "watch" /\ dpc = "poll" /\ imaged = {}
    BY DEF Init
  <2> QED BY <2>1 DEF ReaderInv, ServeInv, RecordInv, BooksInv, Busy, Reading, Recording,
                      Drained, ActiveHasBooks
<1>2. "lead" \in Timely /\ "pass" \in Timely
  OBVIOUS
<1>3. SocketInv /\ OrderInv /\ ReaderInv /\ [Next]_vars => ReaderInv'
  BY <1>2, NextReader
<1>4. SocketInv /\ OrderInv /\ ReaderInv /\ ServeInv /\ [Next]_vars => ServeInv'
  BY <1>2, NextServe
<1>5. SocketInv /\ OrderInv /\ BatchInv /\ ServeInv /\ RecordInv /\ [Next]_vars => RecordInv'
  BY NextRecord
<1>6. SocketInv /\ OrderInv /\ ServeInv /\ RecordInv /\ BooksInv /\ [Next]_vars => BooksInv'
  BY NextBooks
<1>7. Spec => []SocketInv
  BY <1>2, SocketsOwned
<1>8. Spec => [](OrderInv /\ BatchInv)
  BY <1>2, BatchesOrdered
<1> QED BY <1>1, <1>3, <1>4, <1>5, <1>6, <1>7, <1>8, PTL DEF Spec

\* As long as batches are subscribed ahead of their start and the reader polls a
\* lowered flag within the ten seconds, it applies every update to books that are
\* there: those its market's image made, which are erased only when no document of
\* the market can come.
THEOREM UpdatesHaveBooks ==
    ASSUME {"lead", "pass"} \subseteq Timely
    PROVE  Spec => []UpdatesFindBooks
<1>1. TypeInv /\ ServeInv /\ BooksInv => UpdatesFindBooks
  BY DEF TypeInv, TypeOK, ServeInv, Reading, BooksInv, UpdatesFindBooks
<1>2. Spec => [](ReaderInv /\ ServeInv /\ RecordInv /\ BooksInv)
  BY ReaderKept
<1> QED BY <1>1, <1>2, Typing, PTL

\* A market the strategies may trade has its books: no image makes a market live
\* while or after clean_up_markets erases it.
THEOREM LiveHasBooks ==
    ASSUME {"lead", "pass"} \subseteq Timely
    PROVE  Spec => []ActiveHasBooks
<1>1. BooksInv => ActiveHasBooks
  BY DEF BooksInv
<1>2. Spec => [](ReaderInv /\ ServeInv /\ RecordInv /\ BooksInv)
  BY ReaderKept
<1> QED BY <1>1, <1>2, PTL

-----------------------------------------------------------------------------
\* Every step of the three threads is a step of MarketLifecycle, or none.

Descending(s) == \A i, j \in DOMAIN s : i < j => s[j] < s[i]

\* A market is in one record, once; records are cleared from end to end, and
\* only when what is still subscribed starts later.
ApartInv ==
    /\ rpc = "poll" => buffer = <<>>
    /\ rpc = "cache" => last_ids[BatchKey].mkts = <<BatchKey>>
    /\ cpc # "watch" => \A m \in Range(subscribed) : closing <= m
    /\ \A k \in Markets : Descending(last_ids[k].mkts)
    /\ \A j, k \in Markets :
          j # k => Range(last_ids[j].mkts) \cap Range(last_ids[k].mkts) = {}
    /\ cpc = "discard" => cpos = Len(last_ids[closing].mkts)

\* The markets on record.
Recorded == UNION {Range(last_ids[k].mkts) : k \in Markets}

\* A market is activated by its first document, which no other follows, and
\* while it is subscribed or on record.
LaunchInv ==
    /\ Range(active_markets) \subseteq imaged
    /\ dpc \in {"image", "lookup", "activate"} => doc \notin Range(active_markets)
    /\ dpc = "activate" => doc \in Range(subscribed) \cup Recorded

-----------------------------------------------------------------------------

\* The batch being subscribed is neither on record nor being closed.
LEMMA BatchAhead ==
    ASSUME TypeInv, Lead, OrderInv, rpc # "poll"
    PROVE  /\ \A k \in Markets : (k = BatchKey /\ rpc = "cache")
                                  \/ Range(last_ids[k].mkts) \cap Range(buffer) = {}
           /\ cpc # "watch" => closing \notin Range(buffer)
           /\ \A m \in Range(buffer) : m < next /\ m \in Markets
<1>0. /\ now \in Int /\ Markets \subseteq Int /\ closing \in Int
      /\ buffer \in Seq(Markets)
      /\ last_ids \in [Markets -> [sock : Sockets \cup {NoSocket}, mkts : Seq(Markets)]]
  BY DEF TypeInv, TypeOK, Markets, NoMarket
<1>1. /\ Range(buffer) \subseteq Markets
      /\ \A m \in Range(buffer) :
            /\ now < m /\ m < next
            /\ \A k \in Markets :
                  last_ids[k] # NoBatch => k < m \/ (rpc = "cache" /\ k = BatchKey)
  BY <1>0, RangeOfSeq DEF Lead, Range
<1>2. ASSUME NEW k \in Markets, ~(k = BatchKey /\ rpc = "cache"),
             NEW m \in Range(buffer), m \in Range(last_ids[k].mkts)
      PROVE  FALSE
  <2>1. last_ids[k] # NoBatch
    BY <1>2 DEF NoBatch, Range
  <2>2. k < m /\ m <= k /\ k \in Int /\ m \in Int
    BY <1>0, <1>1, <1>2, <2>1 DEF OrderInv
  <2> QED BY <2>2
<1>3. cpc # "watch" => closing \notin Range(buffer)
  <2>1. cpc # "watch" => closing <= now
    BY DEF Lead
  <2> QED BY <1>0, <1>1, <2>1
<1> QED BY <1>1, <1>2, <1>3

LEMMA ReverseDescends ==
    ASSUME NEW s \in Seq(Markets), s # <<>>, Ascending(s)
    PROVE  Descending(<<Last(s)>> \o Reverse(Front(s)))
<1> DEFINE r == <<Last(s)>> \o Reverse(Front(s))
<1>1. DOMAIN s = 1..Len(s) /\ Len(s) \in Nat \ {0}
  BY LenProperties, EmptySeq
<1>2. /\ Reverse(Front(s)) \in Seq(Markets)
      /\ Len(Reverse(Front(s))) = Len(s) - 1
      /\ \A i \in 1..(Len(s) - 1) : Reverse(Front(s))[i] = s[Len(s) - i]
  <2>1. /\ Front(s) \in Seq(Markets) /\ Len(Front(s)) = Len(s) - 1
        /\ \A i \in 1..(Len(s) - 1) : Front(s)[i] = s[i]
    BY <1>1 DEF Front
  <2> QED BY <1>1, <2>1, BatchOps DEF Reverse
<1>3. /\ DOMAIN r = 1..Len(s)
      /\ \A i \in 1..Len(s) : r[i] = s[Len(s) - i + 1]
  <2>1. Last(s) \in Markets /\ Last(s) = s[Len(s)]
    BY BatchOps
  <2>2. /\ <<Last(s)>> \in Seq(Markets) /\ Len(<<Last(s)>>) = 1
        /\ <<Last(s)>>[1] = Last(s)
    BY <2>1
  <2> DEFINE q == Reverse(Front(s))
             one == <<Last(s)>>
  <2>a. /\ q \in Seq(Markets) /\ Len(q) = Len(s) - 1
        /\ one \in Seq(Markets) /\ Len(one) = 1 /\ one[1] = s[Len(s)]
        /\ Len(s) \in Nat \ {0}
    BY <1>1, <1>2, <2>1, <2>2
  <2> HIDE DEF q, one
  <2>b. /\ one \o q \in Seq(Markets) /\ Len(one \o q) = Len(s)
        /\ \A i \in 1..Len(s) : (one \o q)[i] = IF i <= 1 THEN one[i] ELSE q[i - 1]
    <3>1. /\ one \o q \in Seq(Markets) /\ Len(one \o q) = Len(one) + Len(q)
          /\ \A i \in 1..Len(one) + Len(q) :
                (one \o q)[i] = IF i <= Len(one) THEN one[i] ELSE q[i - Len(one)]
      BY <2>a, ConcatProperties
    <3>2. Len(one) + Len(q) = Len(s)
      BY <2>a
    <3> QED BY <2>a, <3>1, <3>2
  <2>3. /\ Len(r) = Len(s) /\ r \in Seq(Markets)
        /\ r[1] = s[Len(s)]
        /\ \A i \in 2..Len(s) : r[i] = Reverse(Front(s))[i - 1]
    BY <2>a, <2>b DEF one, q
  <2> HIDE DEF r
  <2>4. \A i \in 2..Len(s) : i - 1 \in 1..(Len(s) - 1) /\ Len(s) - (i - 1) = Len(s) - i + 1
    BY <1>1
  <2>5. \A i \in 2..Len(s) : r[i] = s[Len(s) - i + 1]
    BY <1>2, <2>3, <2>4
  <2>6. \A i \in 1..Len(s) : i = 1 \/ i \in 2..Len(s)
    BY <1>1
  <2>7. Len(s) - 1 + 1 = Len(s)
    BY <1>1
  <2> QED BY <2>3, <2>5, <2>6, <2>7, LenProperties
<1> HIDE DEF r
<1>4. ASSUME NEW i \in DOMAIN r, NEW j \in DOMAIN r, i < j PROVE r[j] < r[i]
  <2>1. /\ Len(s) - j + 1 \in DOMAIN s /\ Len(s) - i + 1 \in DOMAIN s
        /\ Len(s) - j + 1 < Len(s) - i + 1
    BY <1>1, <1>3, <1>4
  <2> QED BY <1>3, <2>1 DEF Ascending
<1> QED BY <1>4 DEF Descending, r

LEMMA NextApart ==
    SocketInv /\ OrderInv /\ BatchInv /\ RecordInv /\ ApartInv /\ [Next]_vars => ApartInv'
<1> SUFFICES ASSUME SocketInv, OrderInv, BatchInv, RecordInv, ApartInv, [Next]_vars
             PROVE  ApartInv'
  OBVIOUS
<1>0. /\ TypeInv /\ Lead
      /\ now \in Int /\ closing \in Int /\ pushed \in Nat /\ cpos \in Nat
      /\ buffer \in Seq(Markets) /\ subscribed \in Seq(Markets)
      /\ last_ids \in [Markets -> [sock : Sockets \cup {NoSocket}, mkts : Seq(Markets)]]
      /\ Markets \subseteq Int /\ Range(subscribed) \subseteq Int
  <2>1. /\ now \in Int /\ closing \in Int /\ pushed \in Nat /\ cpos \in Nat
        /\ buffer \in Seq(Markets) /\ subscribed \in Seq(Markets)
        /\ last_ids \in [Markets -> [sock : Sockets \cup {NoSocket}, mkts : Seq(Markets)]]
        /\ Markets \subseteq Int
    BY DEF SocketInv, TypeInv, TypeOK, Markets, NoMarket
  <2> QED BY <2>1, RangeOfSeq DEF SocketInv
<1>1. CASE \/ Tick \/ (\E n \in 1..NumMarkets : TakeBatch(n)) \/ DropLate \/ ReadRoom
           \/ NoSocketFree \/ TakeSocket \/ Subscribe \/ SubscribeFail
           \/ ReadStep \/ UNCHANGED vars
  <2>1. UNCHANGED <<subscribed, last_ids, cpc, closing, cpos>>
    BY <1>1
       DEF Tick, TakeBatch, DropLate, ReadRoom, NoSocketFree, TakeSocket, Subscribe,
           SubscribeFail, ReadStep, PollFlagged, PollIdle, RecvNull, RecvBytes, RecvMalformed,
           RecvDocument, AddRunners, Lookup, Activate, ApplyDelta, UpdateMissing, Terminate,
           vars
  <2>2. \/ UNCHANGED <<rpc, buffer>>
        \/ rpc' = "poll" /\ buffer' = <<>>
        \/ rpc' \notin {"poll", "cache"}
    BY <1>1
       DEF Tick, TakeBatch, DropLate, ReadRoom, NoSocketFree, TakeSocket, Subscribe,
           SubscribeFail, ReadStep, PollFlagged, PollIdle, RecvNull, RecvBytes, RecvMalformed,
           RecvDocument, AddRunners, Lookup, Activate, ApplyDelta, UpdateMissing, Terminate,
           vars
  <2> QED BY <2>1, <2>2 DEF ApartInv, BatchKey
<1>2. CASE PushSubscribed
  <2> DEFINE m == buffer[pushed + 1]
  <2>1. /\ rpc = "push" /\ rpc' \in {"push", "key"} /\ subscribed' = Append(subscribed, m)
        /\ UNCHANGED <<last_ids, cpc, closing, cpos>>
    BY <1>2 DEF PushSubscribed, RunAt
  <2>2. m \in Markets /\ now < m
    <3>1. pushed < Len(buffer)
      BY <1>0, <2>1 DEF TypeInv, Control
    <3>2. pushed + 1 \in DOMAIN buffer
      BY <1>0, <3>1, LenProperties
    <3> QED BY <1>0, <2>1, <3>2, ElementOfSeq DEF Lead
  <2> HIDE DEF m
  <2>3. Range(subscribed') = Range(subscribed) \cup {m}
    BY <1>0, <2>1, <2>2, FreeAppend
  <2>4. cpc # "watch" => closing <= m
    BY <1>0, <2>2 DEF Lead
  <2> QED BY <2>1, <2>3, <2>4 DEF ApartInv
<1>3. CASE CacheKey
  <2>1. /\ rpc = "key" /\ rpc' = "cache"
        /\ last_ids'[BatchKey].mkts = Append(last_ids[BatchKey].mkts, BatchKey)
        /\ \A k \in Markets \ {BatchKey} : last_ids'[k] = last_ids[k]
        /\ UNCHANGED <<buffer, subscribed, cpc, closing, cpos>>
    BY <1>0, <1>3, Caching DEF CacheKey, RunAt
  <2>2. /\ BatchKey \in Markets /\ BatchKey \in Range(buffer) /\ BatchKey' = BatchKey
        /\ last_ids'[BatchKey].mkts = <<BatchKey>>
    <3>1. /\ BatchKey \in Markets /\ BatchKey \in Range(buffer) /\ BatchKey' = BatchKey
          /\ last_ids[BatchKey] = NoBatch
      BY <1>0, <2>1, Caching DEF BatchKey
    <3> QED BY <2>1, <3>1 DEF NoBatch
  <2>3. Range(<<BatchKey>>) = {BatchKey} /\ Descending(<<BatchKey>>)
    BY DEF Range, Descending
  <2>4. \A k \in Markets : Range(last_ids[k].mkts) \cap Range(buffer) = {}
    BY <1>0, <2>1, BatchAhead
  <2>5. cpc # "watch" => closing \in Markets /\ last_ids'[closing] = last_ids[closing]
    BY <1>0, <1>3, ClosingKept
  <2>6. \A j, k \in Markets : j # k => Range(last_ids'[j].mkts) \cap Range(last_ids'[k].mkts) = {}
    BY <2>1, <2>2, <2>3, <2>4 DEF ApartInv
  <2> QED BY <2>1, <2>2, <2>3, <2>5, <2>6 DEF ApartInv
<1>4. CASE CacheSocket
  <2>1. /\ rpc = "cache" /\ rpc' = "poll" /\ buffer' = <<>>
        /\ last_ids' = [last_ids EXCEPT
               ![BatchKey] = [sock |-> idx, mkts |-> @.mkts \o Others]]
        /\ UNCHANGED <<subscribed, cpc, closing, cpos>>
    BY <1>4 DEF CacheSocket, RunAt
  <2>2. /\ BatchKey \in Markets /\ Range(buffer) = {BatchKey} \cup Range(Others)
        /\ buffer # <<>> /\ Others \in Seq(Markets)
    BY <1>0, <2>1, Caching DEF TypeInv, Control
  <2>3. /\ last_ids'[BatchKey].mkts = <<BatchKey>> \o Others
        /\ \A k \in Markets \ {BatchKey} : last_ids'[k] = last_ids[k]
    BY <1>0, <2>1, <2>2 DEF ApartInv
  <2>4. Descending(last_ids'[BatchKey].mkts)
    BY <1>0, <2>2, <2>3, ReverseDescends DEF OrderInv, BatchKey, Others
  <2>5. Range(last_ids'[BatchKey].mkts) = Range(buffer)
    <3> DEFINE one == <<BatchKey>>
    <3>1. one \in Seq(Markets) /\ Range(one) = {BatchKey}
      BY <2>2 DEF Range
    <3>2. last_ids'[BatchKey].mkts = one \o Others
      BY <2>3
    <3> HIDE DEF one
    <3>3. Range(one \o Others) = Range(one) \cup Range(Others)
      BY <2>2, <3>1, RangeConcatenation
    <3> QED BY <2>2, <3>1, <3>2, <3>3
  <2>6. \A k \in Markets \ {BatchKey} : Range(last_ids[k].mkts) \cap Range(buffer) = {}
    BY <1>0, <2>1, BatchAhead
  <2>7. cpc # "watch" => closing \in Markets /\ last_ids'[closing] = last_ids[closing]
    BY <1>0, <1>4, ClosingKept
  <2>8. \A j, k \in Markets : j # k => Range(last_ids'[j].mkts) \cap Range(last_ids'[k].mkts) = {}
    BY <2>2, <2>3, <2>5, <2>6 DEF ApartInv
  <2>9. \A k \in Markets : Descending(last_ids'[k].mkts)
    BY <2>3, <2>4 DEF ApartInv
  <2> QED BY <2>1, <2>7, <2>8, <2>9 DEF ApartInv
<1>5. CASE Deactivate
  <2>1. /\ subscribed # <<>> /\ closing' = Head(subscribed) /\ cpc' = "pop"
        /\ UNCHANGED <<rpc, buffer, subscribed, last_ids>>
    BY <1>5 DEF Deactivate
  <2>2. \A m \in Range(subscribed) : Head(subscribed) <= m
    <3>1. /\ Range(subscribed) = {Head(subscribed)} \cup Range(Tail(subscribed))
          /\ \A m \in Range(Tail(subscribed)) : Head(subscribed) < m
      BY <1>0, <2>1, AscendingTail DEF OrderInv
    <3>2. Head(subscribed) \in Int
      BY <1>0, <3>1, HeadTailProperties
    <3>3. \A m \in Range(subscribed) : m = Head(subscribed) \/ Head(subscribed) < m
      BY <3>1
    <3> QED BY <1>0, <3>2, <3>3
  <2> QED BY <2>1, <2>2 DEF ApartInv, BatchKey
<1>6. CASE PopFront
  <2>1. /\ cpc = "pop" /\ cpc' = "find" /\ subscribed # <<>> /\ subscribed' = Tail(subscribed)
        /\ UNCHANGED <<rpc, buffer, last_ids, closing>>
    BY <1>0, <1>6 DEF PopFront, CleanAt, TypeInv, Control
  <2>2. Range(subscribed') \subseteq Range(subscribed)
    BY <1>0, <2>1, AscendingTail DEF OrderInv
  <2> QED BY <2>1, <2>2 DEF ApartInv, BatchKey
<1>7. CASE \/ NotLast \/ FreeSocket \/ ResetSocket \/ Reconnect \/ ReconnectFail
           \/ EraseActive
  <2>1. /\ cpc # "watch" /\ cpc' # "discard" /\ (cpc' # "watch" => closing' = closing)
        /\ UNCHANGED <<rpc, buffer, subscribed, last_ids>>
    BY <1>7 DEF NotLast, FreeSocket, ResetSocket, Reconnect, ReconnectFail, EraseActive, CleanAt
  <2> QED BY <2>1 DEF ApartInv, BatchKey
<1>8. CASE EraseBooks
  <2>1. /\ cpc = "linger" /\ closing \in Markets /\ closing' = closing
        /\ cpc' # "watch"
        /\ cpc' = "discard" => ~(cpos < Len(last_ids[closing].mkts)) /\ cpos' = cpos
        /\ UNCHANGED <<rpc, buffer, subscribed, last_ids>>
    BY <1>0, <1>8 DEF EraseBooks, CleanAt, TypeInv, Control
  <2>2. cpos \in 1..Len(last_ids[closing].mkts) /\ Len(last_ids[closing].mkts) \in Nat
    <3>1. last_ids[closing].mkts \in Seq(Markets)
      BY <1>0, <2>1
    <3> QED BY <2>1, <3>1, LenProperties DEF RecordInv
  <2>3. cpc' = "discard" => cpos' = Len(last_ids[closing].mkts)
    BY <2>1, <2>2
  <2> QED BY <2>1, <2>3 DEF ApartInv, BatchKey
<1>9. CASE DiscardBatch
  <2>1. /\ cpc = "discard" /\ cpc' = "watch" /\ closing \in Markets
        /\ last_ids' = [last_ids EXCEPT ![closing] = NoBatch]
        /\ UNCHANGED <<rpc, buffer, subscribed>>
    BY <1>0, <1>9 DEF DiscardBatch, CleanAt, TypeInv, Control
  <2>2. \A k \in Markets : last_ids'[k] = (IF k = closing THEN NoBatch ELSE last_ids[k])
    BY <1>0, <2>1
  <2>3. Range(NoBatch.mkts) = {} /\ Descending(NoBatch.mkts)
    BY DEF NoBatch, Range, Descending
  <2>4. rpc = "cache" => closing # BatchKey /\ BatchKey \in Markets
    BY <1>0, <2>1, ClosingHolds, Caching
  <2>5. \A j, k \in Markets : j # k => Range(last_ids'[j].mkts) \cap Range(last_ids'[k].mkts) = {}
    BY <2>2, <2>3 DEF ApartInv
  <2>6. \A k \in Markets : Descending(last_ids'[k].mkts)
    BY <2>2, <2>3 DEF ApartInv
  <2>7. BatchKey' = BatchKey
    BY <2>1 DEF BatchKey
  <2> QED BY <2>1, <2>2, <2>4, <2>5, <2>6, <2>7 DEF ApartInv
<1> QED
  BY <1>1, <1>2, <1>3, <1>4, <1>5, <1>6, <1>7, <1>8, <1>9 DEF Next, Ended, RunStep, CleanStep

\* What a step of clean_up_markets takes off subscribed_ is on record.
LEMMA FrontRecorded ==
    ASSUME SocketInv, OrderInv, BatchInv, subscribed # <<>>, Head(subscribed) <= now
    PROVE  Head(subscribed) \in Recorded
<1>1. /\ subscribed \in Seq(Markets) /\ buffer \in Seq(Markets)
      /\ now \in Int /\ Markets \subseteq Int
  BY DEF SocketInv, TypeInv, TypeOK, Markets
<1>2. Head(subscribed) \in Range(subscribed) /\ Head(subscribed) \in Markets
  BY <1>1, AscendingTail, HeadTailProperties DEF OrderInv
<1>3. ~(Recording /\ Head(subscribed) \in Range(buffer))
  <2>1. ASSUME rpc # "poll", NEW i \in DOMAIN buffer, buffer[i] = Head(subscribed)
        PROVE  FALSE
    <3>1. now < buffer[i]
      BY <2>1 DEF SocketInv, Lead
    <3> DEFINE h == Head(subscribed)
    <3>2. h \in Int /\ h <= now /\ now < h
      BY <1>1, <1>2, <2>1, <3>1
    <3> HIDE DEF h
    <3> QED BY <1>1, <3>2
  <2> QED BY <2>1 DEF Recording, Range
<1>4. InBatch(Head(subscribed))
  BY <1>2, <1>3 DEF BatchInv
<1> QED BY <1>4 DEF InBatch, Leases, Recorded

LEMMA NextLaunch ==
    SocketInv /\ OrderInv /\ BatchInv /\ ServeInv /\ RecordInv /\ LaunchInv /\ [Next]_vars
        => LaunchInv'
<1> SUFFICES ASSUME SocketInv, OrderInv, BatchInv, ServeInv, RecordInv, LaunchInv, [Next]_vars
             PROVE  LaunchInv'
  OBVIOUS
<1>0. /\ TypeInv /\ Lead
      /\ now \in Int /\ closing \in Int /\ di \in Sockets
      /\ buffer \in Seq(Markets) /\ subscribed \in Seq(Markets) /\ active_markets \in Seq(Markets)
      /\ last_ids \in [Markets -> [sock : Sockets \cup {NoSocket}, mkts : Seq(Markets)]]
  BY DEF SocketInv, TypeInv, TypeOK, Markets, NoMarket
\* What is subscribed or on record stays so, but for what is discarded.
<1>1. ASSUME UNCHANGED <<imaged, doc, active_markets>>,
             dpc' = dpc \/ dpc' \notin {"image", "lookup", "activate"},
             dpc = "activate" =>
                (doc \in Range(subscribed) \cup Recorded => doc \in (Range(subscribed) \cup Recorded)')
      PROVE  LaunchInv'
  BY <1>1 DEF LaunchInv
<1>2. CASE \/ Tick \/ (\E n \in 1..NumMarkets : TakeBatch(n)) \/ DropLate \/ ReadRoom
           \/ NoSocketFree \/ TakeSocket \/ Subscribe \/ SubscribeFail \/ Deactivate \/ NotLast
           \/ FreeSocket \/ ResetSocket \/ Reconnect \/ ReconnectFail \/ EraseActive
           \/ EraseBooks \/ UNCHANGED vars
  <2>1. UNCHANGED <<subscribed, last_ids, imaged, doc, active_markets>>
    BY <1>2
       DEF Tick, TakeBatch, DropLate, ReadRoom, NoSocketFree, TakeSocket, Subscribe,
           SubscribeFail, Deactivate, NotLast, FreeSocket, ResetSocket, Reconnect,
           ReconnectFail, EraseActive, EraseBooks, vars
  <2>2. dpc' = dpc \/ dpc' = "terminated"
    BY <1>2
       DEF Tick, TakeBatch, DropLate, ReadRoom, NoSocketFree, TakeSocket, Subscribe,
           SubscribeFail, Deactivate, NotLast, FreeSocket, ResetSocket, Reconnect,
           ReconnectFail, EraseActive, EraseBooks, vars
  <2> QED BY <1>1, <2>1, <2>2 DEF Recorded
<1>3. CASE PushSubscribed
  <2>1. rpc = "push" /\ pushed \in Nat /\ pushed < Len(buffer)
    BY <1>0, <1>3 DEF PushSubscribed, RunAt, TypeInv, TypeOK, Control
  <2>2. buffer[pushed + 1] \in Markets
    BY <1>0, <2>1, ElementOfSeq
  <2>3. /\ Range(subscribed') = Range(subscribed) \cup {buffer[pushed + 1]}
        /\ UNCHANGED <<last_ids, imaged, dpc, doc, active_markets>>
    BY <1>0, <1>3, <2>2, FreeAppend DEF PushSubscribed
  <2> QED BY <1>1, <2>3 DEF Recorded
<1>4. CASE CacheKey \/ CacheSocket
  <2>1. rpc \in {"key", "cache"} /\ UNCHANGED <<subscribed, imaged, dpc, doc, active_markets>>
    BY <1>4 DEF CacheKey, CacheSocket, RunAt
  <2>2. BatchKey \in Markets /\ Others \in Seq(Markets) /\ last_ids[BatchKey].mkts \in Seq(Markets)
    BY <1>0, <2>1, Caching
  <2>3. /\ \/ last_ids'[BatchKey].mkts = Append(last_ids[BatchKey].mkts, BatchKey)
           \/ last_ids'[BatchKey].mkts = last_ids[BatchKey].mkts \o Others
        /\ \A k \in Markets \ {BatchKey} : last_ids'[k] = last_ids[k]
    <3>1. last_ids \in [Markets -> [sock : Sockets \cup {NoSocket}, mkts : Seq(Markets)]]
      BY <1>0 DEF TypeInv
    <3>2. CASE CacheKey
      BY <2>2, <3>1, <3>2, SMTT(30) DEF CacheKey
    <3>3. CASE CacheSocket
      BY <2>2, <3>1, <3>3, SMTT(30) DEF CacheSocket
    <3> QED BY <1>4, <3>2, <3>3
  <2>4. \A k \in Markets : Range(last_ids[k].mkts) \subseteq Range(last_ids'[k].mkts)
    <3>1. Range(last_ids[BatchKey].mkts) \subseteq Range(Append(last_ids[BatchKey].mkts, BatchKey))
      BY <2>2, FreeAppend
    <3>2. Range(last_ids[BatchKey].mkts) \subseteq Range(last_ids[BatchKey].mkts \o Others)
      BY <2>2, RangeConcatenation
    <3> QED BY <2>3, <3>1, <3>2
  <2>5. Recorded \subseteq Recorded'
    BY <2>4 DEF Recorded
  <2> QED BY <1>1, <2>1, <2>5
<1>5. CASE PopFront
  <2>1. /\ cpc = "pop" /\ subscribed # <<>> /\ subscribed' = Tail(subscribed)
        /\ UNCHANGED <<last_ids, imaged, dpc, doc, active_markets>>
    BY <1>0, <1>5 DEF PopFront, CleanAt, TypeInv, Control
  <2>2. Range(subscribed) = {Head(subscribed)} \cup Range(subscribed')
    BY <1>0, <2>1, AscendingTail DEF OrderInv
  <2>3. Head(subscribed) \in Recorded
    BY <2>1, FrontRecorded DEF OrderInv, SocketInv, Lead
  <2> QED BY <1>1, <2>1, <2>2, <2>3 DEF Recorded
<1>6. CASE DiscardBatch
  <2>1. /\ cpc = "discard" /\ closing \in Markets
        /\ last_ids' = [last_ids EXCEPT ![closing] = NoBatch]
        /\ UNCHANGED <<subscribed, imaged, dpc, doc, active_markets>>
    BY <1>0, <1>6 DEF DiscardBatch, CleanAt, TypeInv, Control
  <2>2. \A k \in Markets \ {closing} : last_ids'[k] = last_ids[k]
    BY <1>0, <2>1
  <2>3. dpc = "activate" => doc \notin Range(last_ids[closing].mkts)
    BY <1>0, <2>1 DEF ServeInv, RecordInv, Reading
  <2>4. ASSUME dpc = "activate", doc \in Recorded PROVE doc \in Recorded'
    <3>1. PICK k \in Markets : doc \in Range(last_ids[k].mkts)
      BY <2>4 DEF Recorded
    <3>2. k # closing
      BY <2>3, <2>4, <3>1
    <3> QED BY <2>1, <2>2, <3>1, <3>2 DEF Recorded
  <2> QED BY <1>1, <2>1, <2>4
\* get_data.
<1>7. CASE \/ PollFlagged \/ PollIdle \/ RecvNull \/ RecvBytes \/ RecvMalformed
           \/ ApplyDelta \/ UpdateMissing
  <2>1. /\ dpc' \notin {"image", "lookup", "activate"}
        /\ UNCHANGED <<subscribed, last_ids, imaged, active_markets>>
    BY <1>7 DEF PollFlagged, PollIdle, RecvNull, RecvBytes, RecvMalformed, ApplyDelta,
                UpdateMissing, Terminate
  <2> QED BY <2>1 DEF LaunchInv
<1>8. ASSUME NEW m \in Markets, RecvDocument(m) PROVE LaunchInv'
  <2>1. /\ doc' = m /\ imaged' = imaged \cup {m}
        /\ dpc' = IF m \in imaged THEN "delta" ELSE "image"
        /\ UNCHANGED active_markets
    BY <1>8 DEF RecvDocument
  <2> QED BY <2>1 DEF LaunchInv
<1>9. CASE AddRunners
  <2>1. /\ dpc = "image" /\ dpc' = "lookup"
        /\ UNCHANGED <<doc, imaged, active_markets>>
    BY <1>9 DEF AddRunners
  <2> QED BY <2>1 DEF LaunchInv
<1>10. CASE Lookup
  <2>1. /\ dpc = "lookup"
        /\ \/ dpc' = "activate" /\ doc \in Range(subscribed) /\ doc' = doc
           \/ dpc' = "poll"
        /\ UNCHANGED <<subscribed, imaged, active_markets>>
    BY <1>10 DEF Lookup
  <2> QED BY <2>1 DEF LaunchInv
<1>11. CASE Activate
  <2>1. /\ dpc = "activate" /\ dpc' = "poll" /\ doc \in Markets
        /\ active_markets' = Append(active_markets, doc)
        /\ UNCHANGED imaged
    BY <1>0, <1>11 DEF Activate, TypeInv, Control
  <2>2. Range(active_markets') = Range(active_markets) \cup {doc}
    BY <1>0, <2>1, FreeAppend
  <2>3. doc \in imaged
    BY <2>1 DEF ServeInv, Reading
  <2> QED BY <2>1, <2>2, <2>3 DEF LaunchInv
<1> QED
  BY <1>2, <1>3, <1>4, <1>5, <1>6, <1>7, <1>8, <1>9, <1>10, <1>11
     DEF Next, Ended, RunStep, CleanStep, ReadStep

LEMMA LaunchesKept ==
    ASSUME {"lead", "pass"} \subseteq Timely
    PROVE  Spec => [](ApartInv /\ LaunchInv)
<1>1. Init => ApartInv /\ LaunchInv
  <2> SUFFICES ASSUME Init PROVE ApartInv /\ LaunchInv
    OBVIOUS
  <2>1. Range(<<>>) = {} /\ Descending(<<>>)
    BY DEF Range, Descending
  <2>2. \A k \in Markets : last_ids[k].mkts = <<>>
    BY DEF Init, NoBatch
  <2> QED BY <2>1, <2>2 DEF Init, ApartInv, LaunchInv
<1>2. SocketInv /\ OrderInv /\ BatchInv /\ RecordInv /\ ApartInv /\ [Next]_vars => ApartInv'
  BY NextApart
<1>3. SocketInv /\ OrderInv /\ BatchInv /\ ServeInv /\ RecordInv /\ LaunchInv /\ [Next]_vars
          => LaunchInv'
  BY NextLaunch
<1>4. "lead" \in Timely
  OBVIOUS
<1>5. Spec => []SocketInv
  BY <1>4, SocketsOwned
<1>6. Spec => [](OrderInv /\ BatchInv)
  BY <1>4, BatchesOrdered
<1>7. Spec => [](ReaderInv /\ ServeInv /\ RecordInv /\ BooksInv)
  BY ReaderKept
<1> QED BY <1>1, <1>2, <1>3, <1>5, <1>6, <1>7, PTL DEF Spec

-----------------------------------------------------------------------------
(* The phases of a market.                                                 *)

LifeInv ==
    /\ SocketInv /\ Room /\ OrderInv /\ BatchInv
    /\ ServeInv /\ RecordInv /\ ApartInv /\ LaunchInv

\* What clear_market has been called for since the batch's socket was renewed.
Cleared ==
    IF cpc \in {"erase", "linger", "discard"}
    THEN {last_ids[closing].mkts[i] : i \in 1..(IF cpc = "erase" THEN cpos - 1 ELSE cpos)}
    ELSE {}

\* The batch at hand is pushed: it is listed no longer.
LEMMA PhasesApart ==
    LifeInv => /\ SubscribedMarkets \cap ListedMarkets = {}
               /\ SubscribedMarkets \cap ClosedMarkets = {}
               /\ ListedMarkets \cap ClosedMarkets = {}
<1> SUFFICES ASSUME LifeInv
             PROVE  /\ SubscribedMarkets \cap ListedMarkets = {}
                    /\ SubscribedMarkets \cap ClosedMarkets = {}
                    /\ ListedMarkets \cap ClosedMarkets = {}
  OBVIOUS
<1>0. /\ TypeInv /\ Lead /\ next \in Int /\ Markets \subseteq Int
      /\ buffer \in Seq(Markets)
      /\ last_ids \in [Markets -> [sock : Sockets \cup {NoSocket}, mkts : Seq(Markets)]]
  BY DEF LifeInv, SocketInv, TypeInv, TypeOK, Markets
<1>1. ASSUME NEW m \in ListedMarkets, m \in Recorded PROVE FALSE
  <2>1. PICK k \in Markets : m \in Range(last_ids[k].mkts)
    BY <1>1 DEF Recorded
  <2>2. last_ids[k] # NoBatch /\ m \in Markets
    BY <1>0, <2>1, RangeOfSeq DEF NoBatch, Range
  <2>3. k < next /\ m <= k /\ m \in Int /\ k \in Int
    BY <1>0, <2>1, <2>2 DEF LifeInv, Lead, OrderInv
  <2>4. m \in Range(buffer) /\ m \notin Range(subscribed)
    BY <1>0, <1>1, <2>3 DEF ListedMarkets
  <2>5. rpc # "poll"
    BY <2>4 DEF LifeInv, ApartInv, Range
  <2>6. k = BatchKey /\ rpc = "cache"
    BY <1>0, <2>1, <2>4, <2>5, BatchAhead DEF LifeInv
  <2> QED BY <1>0, <2>4, <2>6, Caching DEF LifeInv
<1> QED BY <1>1 DEF SubscribedMarkets, ListedMarkets, ClosedMarkets, Recorded

LEMMA ClosedAre == ClosedMarkets = Recorded \ (SubscribedMarkets \cup Cleared)
BY DEF ClosedMarkets, Recorded, Cleared

\* The markets recorded in the batch that is being cleaned up, if any.
LEMMA ClearedRecorded ==
    ASSUME LifeInv
    PROVE  /\ Cleared # {} => closing \in Markets
           /\ Cleared \subseteq Range(last_ids[closing].mkts)
           /\ cpc = "discard" => Cleared = Range(last_ids[closing].mkts)
<1>0. /\ last_ids \in [Markets -> [sock : Sockets \cup {NoSocket}, mkts : Seq(Markets)]]
      /\ cpos \in Nat
  BY DEF LifeInv, SocketInv, TypeInv, TypeOK
<1>1. CASE cpc \in {"erase", "linger", "discard"}
  <2>1. closing \in Markets /\ last_ids[closing] # NoBatch
    BY <1>1 DEF LifeInv, SocketInv, TypeInv, Control
  <2> DEFINE s == last_ids[closing].mkts
  <2>2. s \in Seq(Markets) /\ DOMAIN s = 1..Len(s) /\ Len(s) \in Nat
    BY <1>0, <2>1, LenProperties
  <2>3. cpc \in {"erase", "linger"} => cpos \in DOMAIN s
    BY DEF LifeInv, RecordInv
  <2>4. cpc = "discard" => cpos = Len(s)
    BY DEF LifeInv, ApartInv
  <2> HIDE DEF s
  <2>a. cpos \in 1..Len(s) \/ cpos = Len(s)
    BY <1>1, <2>2, <2>3, <2>4
  <2>5. 1..(IF cpc = "erase" THEN cpos - 1 ELSE cpos) \subseteq DOMAIN s
    <3> DEFINE n == Len(s)
    <3>1. cpos \in Nat /\ n \in Nat /\ (cpos \in 1..n \/ cpos = n) /\ DOMAIN s = 1..n
      BY <1>0, <2>2, <2>a
    <3> HIDE DEF n
    <3>2. /\ \A i \in 1..(cpos - 1) : i \in 1..n
          /\ \A i \in 1..cpos : i \in 1..n
      BY <3>1
    <3> QED BY <3>1, <3>2
  <2>6. cpc = "discard" => 1..(IF cpc = "erase" THEN cpos - 1 ELSE cpos) = DOMAIN s
    BY <2>2, <2>4
  <2> QED BY <1>1, <2>1, <2>5, <2>6 DEF Cleared, Range, s
<1>2. CASE cpc \notin {"erase", "linger", "discard"}
  BY <1>2 DEF Cleared
<1> QED BY <1>1, <1>2

LEMMA RangeCardinality ==
    ASSUME NEW s \in Seq(Markets), NEW T \in SUBSET Range(s)
    PROVE  Cardinality(T) \in Nat /\ Cardinality(T) <= Len(s)
<1>1. /\ DOMAIN s = 1..Len(s) /\ Len(s) \in Nat
      /\ s \in Surjection(1..Len(s), Range(s))
  BY LenProperties DEF Surjection, Range
<1>2. IsFiniteSet(1..Len(s)) /\ Cardinality(1..Len(s)) = Len(s)
  BY <1>1, FS_Interval
<1>3. IsFiniteSet(Range(s)) /\ Cardinality(Range(s)) <= Len(s)
  BY <1>1, <1>2, FS_Surjection
<1>4. /\ IsFiniteSet(T) /\ Cardinality(T) <= Cardinality(Range(s))
      /\ Cardinality(T) \in Nat /\ Cardinality(Range(s)) \in Nat
  BY <1>3, FS_Subset, FS_CardinalityType
<1> QED BY <1>1, <1>3, <1>4

-----------------------------------------------------------------------------
(* The steps of the lifecycle, in terms of the markets in each phase.      *)

LEMMA Stays ==
    ASSUME UNCHANGED <<SubscribedMarkets, ListedMarkets, ClosedMarkets, active, active_markets>>
    PROVE  UNCHANGED Lifecycle!vars
BY DEF Lifecycle!vars, PhaseOf

LEMMA Discards ==
    ASSUME LifeInv, ListedMarkets' \subseteq ListedMarkets,
           UNCHANGED <<SubscribedMarkets, ClosedMarkets, active, active_markets>>
    PROVE  Lifecycle!Next
<1> DEFINE S == ListedMarkets \ ListedMarkets'
<1>1. S \subseteq Markets
  <2>1. Range(buffer) \subseteq Markets /\ next \in Int /\ 1 <= next
    BY RangeOfSeq DEF LifeInv, SocketInv, TypeInv, TypeOK
  <2>2. next..NumMarkets \subseteq Markets
    BY <2>1 DEF Markets
  <2> QED BY <2>1, <2>2 DEF ListedMarkets
<1>2. \A m \in S : PhaseOf(m) = "listed"
  BY PhasesApart DEF PhaseOf
<1>3. \A m \in Markets : PhaseOf(m)' = IF m \in S THEN "gone" ELSE PhaseOf(m)
  BY PhasesApart DEF PhaseOf
<1> HIDE DEF S
<1>4. Lifecycle!Discard(S)
  BY <1>1, <1>2, <1>3 DEF Lifecycle!Discard
<1> QED BY <1>1, <1>4 DEF Lifecycle!Next

LEMMA Admits ==
    ASSUME LifeInv, NEW m \in Markets, m \in ListedMarkets, Len(subscribed) < MaxMarkets,
           ListedMarkets' = ListedMarkets \ {m},
           SubscribedMarkets' = SubscribedMarkets \cup {m},
           UNCHANGED <<ClosedMarkets, active, active_markets>>
    PROVE  Lifecycle!Next
<1>1. PhaseOf(m) = "listed"
  BY PhasesApart DEF PhaseOf
<1>2. \A k \in Markets : PhaseOf(k)' = IF k = m THEN "subscribed" ELSE PhaseOf(k)
  BY PhasesApart DEF PhaseOf
<1>3. Lifecycle!Cardinality(Lifecycle!Subscribed) < MaxMarkets
  <2>1. \A k \in Markets : PhaseOf(k) = "subscribed" => k \in SubscribedMarkets
    BY DEF PhaseOf
  <2>2. Lifecycle!Subscribed \subseteq Range(subscribed)
    BY <2>1 DEF Lifecycle!Subscribed, SubscribedMarkets
  <2>3. subscribed \in Seq(Markets) /\ Len(subscribed) \in Nat
    BY DEF LifeInv, SocketInv, TypeInv, TypeOK
  <2>4. /\ Cardinality(Lifecycle!Subscribed) \in Nat
        /\ Cardinality(Lifecycle!Subscribed) <= Len(subscribed)
    BY <2>2, <2>3, RangeCardinality
  <2>5. Lifecycle!Cardinality(Lifecycle!Subscribed) = Cardinality(Lifecycle!Subscribed)
    BY DEF Lifecycle!Cardinality, Cardinality
  <2> QED BY <2>3, <2>4, <2>5
<1>4. Lifecycle!Admit(m)
  <2>1. [k \in Markets |-> PhaseOf(k)]' = [[k \in Markets |-> PhaseOf(k)] EXCEPT ![m] = "subscribed"]
    BY <1>2
  <2> QED BY <1>1, <1>3, <2>1 DEF Lifecycle!Admit
<1> QED BY <1>4 DEF Lifecycle!Next

LEMMA Closes ==
    ASSUME LifeInv, NEW m \in Markets, m \in SubscribedMarkets,
           SubscribedMarkets' = SubscribedMarkets \ {m},
           ClosedMarkets' = ClosedMarkets \cup {m},
           active' = [active EXCEPT ![m] = "off"],
           UNCHANGED <<ListedMarkets, active_markets>>
    PROVE  Lifecycle!Next
<1>1. PhaseOf(m) = "subscribed"
  BY PhasesApart DEF PhaseOf
<1>2. \A k \in Markets : PhaseOf(k)' = IF k = m THEN "closed" ELSE PhaseOf(k)
  BY PhasesApart DEF PhaseOf
<1>3. \A k \in Markets : active'[k] = IF k = m THEN "off" ELSE active[k]
  BY DEF LifeInv, SocketInv, TypeInv, TypeOK
<1>4. Lifecycle!Close(m)
  <2>1. [k \in Markets |-> PhaseOf(k)]' = [[k \in Markets |-> PhaseOf(k)] EXCEPT ![m] = "closed"]
    BY <1>2
  <2>2. {k \in Markets : active[k] = "on"}' = {k \in Markets : active[k] = "on"} \ {m}
    BY <1>3
  <2> QED BY <1>1, <2>1, <2>2 DEF Lifecycle!Close
<1> QED BY <1>4 DEF Lifecycle!Next

LEMMA Clears ==
    ASSUME LifeInv, NEW m \in Markets, m \in ClosedMarkets,
           ClosedMarkets' = ClosedMarkets \ {m},
           active' = [active EXCEPT ![m] = "absent"],
           UNCHANGED <<SubscribedMarkets, ListedMarkets, active_markets>>
    PROVE  Lifecycle!Next
<1>1. PhaseOf(m) = "closed"
  BY PhasesApart DEF PhaseOf
<1>2. \A k \in Markets : PhaseOf(k)' = IF k = m THEN "gone" ELSE PhaseOf(k)
  BY PhasesApart DEF PhaseOf
<1>3. \A k \in Markets : active'[k] = IF k = m THEN "absent" ELSE active[k]
  BY DEF LifeInv, SocketInv, TypeInv, TypeOK
<1>4. Lifecycle!Clear(m)
  <2>1. [k \in Markets |-> PhaseOf(k)]' = [[k \in Markets |-> PhaseOf(k)] EXCEPT ![m] = "gone"]
    BY <1>2
  <2>2. {k \in Markets : active[k] = "on"}' = {k \in Markets : active[k] = "on"} \ {m}
    BY <1>3
  <2> QED BY <1>1, <2>1, <2>2 DEF Lifecycle!Clear
<1> QED BY <1>4 DEF Lifecycle!Next

LEMMA GoesLive ==
    ASSUME LifeInv, NEW m \in Markets, m \in SubscribedMarkets \cup ClosedMarkets,
           m \notin Range(active_markets),
           active' = [active EXCEPT ![m] = "on"],
           Range(active_markets') = Range(active_markets) \cup {m},
           UNCHANGED <<SubscribedMarkets, ListedMarkets, ClosedMarkets>>
    PROVE  Lifecycle!Next
<1>1. PhaseOf(m) \in {"subscribed", "closed"}
  BY PhasesApart DEF PhaseOf
<1>2. \A k \in Markets : PhaseOf(k)' = PhaseOf(k)
  BY DEF PhaseOf
<1>3. \A k \in Markets : active'[k] = IF k = m THEN "on" ELSE active[k]
  BY DEF LifeInv, SocketInv, TypeInv, TypeOK
<1>4. Lifecycle!GoLive(m)
  BY <1>1, <1>2, <1>3 DEF Lifecycle!GoLive
<1> QED BY <1>4 DEF Lifecycle!Next

-----------------------------------------------------------------------------
(* The steps of the three threads.                                         *)

LEMMA RunSimulates ==
    ASSUME LifeInv, Tick \/ (\E n \in 1..NumMarkets : TakeBatch(n)) \/ DropLate \/ RunStep
    PROVE  [Lifecycle!Next]_(Lifecycle!vars)
<1>0. /\ TypeInv /\ Lead
      /\ next \in Int /\ pushed \in Nat
      /\ buffer \in Seq(Markets) /\ subscribed \in Seq(Markets)
      /\ last_ids \in [Markets -> [sock : Sockets \cup {NoSocket}, mkts : Seq(Markets)]]
  BY DEF LifeInv, SocketInv, TypeInv, TypeOK
<1>e. Range(<<>>) = {}
  BY DEF Range
<1>1. ASSUME UNCHANGED <<subscribed, last_ids, cpc, closing, cpos>>
      PROVE  UNCHANGED <<SubscribedMarkets, ClosedMarkets>>
  BY <1>1 DEF SubscribedMarkets, ClosedMarkets
<1>2. CASE Tick \/ TakeSocket \/ Subscribe
  <2>1. UNCHANGED <<next, buffer, subscribed, last_ids, cpc, closing, cpos, active, active_markets>>
    BY <1>2 DEF Tick, TakeSocket, Subscribe
  <2> QED BY <1>1, <2>1, Stays DEF ListedMarkets
<1>3. ASSUME NEW n \in 1..NumMarkets, TakeBatch(n) PROVE UNCHANGED Lifecycle!vars
  <2>1. /\ rpc = "poll" /\ next' = next + n /\ next + n <= NumMarkets + 1
        /\ buffer' = [i \in 1..n |-> next + i - 1]
        /\ UNCHANGED <<subscribed, last_ids, cpc, closing, cpos, active, active_markets>>
    BY <1>3 DEF TakeBatch, RunAt
  <2>2. Range(buffer) = {}
    BY <2>1 DEF LifeInv, ApartInv, Range
  <2>3. Range(buffer') = next..(next + n - 1)
    <3>1. Range(buffer') = {next + i - 1 : i \in 1..n}
      BY <2>1 DEF Range
    <3>2. ASSUME NEW j \in next..(next + n - 1)
          PROVE  j - next + 1 \in 1..n /\ next + (j - next + 1) - 1 = j
      BY <1>0, <3>2
    <3>3. ASSUME NEW i \in 1..n PROVE next + i - 1 \in next..(next + n - 1)
      BY <1>0, <3>3
    <3> QED BY <3>1, <3>2, <3>3
  <2>4. next'..NumMarkets \cup next..(next + n - 1) = next..NumMarkets
    BY <1>0, <2>1
  <2>5. ListedMarkets' = ListedMarkets
    BY <2>1, <2>2, <2>3, <2>4 DEF ListedMarkets
  <2> QED BY <1>1, <2>1, <2>5, Stays
<1>4. CASE DropLate \/ ReadRoom \/ NoSocketFree \/ SubscribeFail
  <2>1. /\ next' = next \/ next' = next + 1
        /\ UNCHANGED <<subscribed, last_ids, cpc, closing, cpos, active, active_markets>>
    BY <1>4 DEF DropLate, ReadRoom, NoSocketFree, SubscribeFail
  <2>2. Range(buffer') \subseteq Range(buffer)
    <3>1. CASE DropLate
      BY <3>1 DEF DropLate
    <3>2. CASE NoSocketFree \/ SubscribeFail
      BY <1>e, <3>2 DEF NoSocketFree, SubscribeFail
    <3>3. CASE ReadRoom
      <4> DEFINE ids == GetIds(buffer, MaxMarkets - Len(subscribed))
      <4>1. buffer # <<>> /\ MaxMarkets - Len(subscribed) \in Int
        BY <1>0, <3>3 DEF ReadRoom, RunAt, TypeInv, Control
      <4>2. /\ ids \in Seq(Markets) /\ Len(ids) \in 1..Len(buffer)
            /\ \A i \in 1..Len(ids) : ids[i] = buffer[i]
        BY <1>0, <4>1, GetIdsPrefix
      <4>3. buffer' = ids \/ buffer' = <<>>
        BY <3>3 DEF ReadRoom
      <4> HIDE DEF ids
      <4>4. Range(ids) \subseteq Range(buffer)
        <5>1. DOMAIN ids = 1..Len(ids) /\ 1..Len(ids) \subseteq DOMAIN buffer
          BY <1>0, <4>2, LenProperties
        <5> QED BY <4>2, <5>1 DEF Range
      <4> QED BY <1>e, <4>3, <4>4
    <3> QED BY <1>4, <3>1, <3>2, <3>3
  <2>3. next'..NumMarkets \subseteq next..NumMarkets
    BY <1>0, <2>1
  <2>4. ListedMarkets' \subseteq ListedMarkets
    BY <2>1, <2>2, <2>3 DEF ListedMarkets
  <2> QED BY <1>1, <2>1, <2>4, Discards
<1>5. CASE PushSubscribed
  <2> DEFINE m == buffer[pushed + 1]
  <2>1. /\ rpc = "push" /\ subscribed' = Append(subscribed, m)
        /\ UNCHANGED <<next, buffer, last_ids, cpc, closing, cpos, active, active_markets>>
    BY <1>5 DEF PushSubscribed, RunAt
  <2>2. pushed < Len(buffer) /\ pushed + 1 \in DOMAIN buffer
    <3>1. pushed < Len(buffer)
      BY <1>0, <2>1 DEF TypeInv, Control
    <3> QED BY <1>0, <3>1, LenProperties
  <2>3. m \in Markets /\ m \in Range(buffer)
    BY <1>0, <2>2, ElementOfSeq DEF Range
  <2>4. m \notin Range(subscribed)
    <3>1. ASSUME m \in Range(subscribed) PROVE FALSE
      <4>1. m < m \/ pushed + 1 <= pushed
        BY <2>1, <2>2, <3>1 DEF LifeInv, OrderInv
      <4>2. m \in Int
        BY <2>3 DEF Markets
      <4> HIDE DEF m
      <4> QED BY <1>0, <4>1, <4>2
    <3> QED BY <3>1
  <2>5. m \notin Recorded /\ (cpc = "pop" => closing # m)
    BY <1>0, <2>1, <2>3, BatchAhead DEF Recorded, LifeInv
  <2>6. Len(subscribed) < MaxMarkets
    <3>1. Len(subscribed) + (Len(buffer) - pushed) <= MaxMarkets
      BY <2>1 DEF LifeInv, Room, SubscriptionBound
    <3>2. Len(subscribed) \in Nat /\ Len(buffer) \in Nat
      BY <1>0
    <3> QED BY <1>0, <2>2, <3>1, <3>2
  <2> HIDE DEF m
  <2>7. Range(subscribed') = Range(subscribed) \cup {m}
    BY <1>0, <2>1, <2>3, FreeAppend
  <2>8. SubscribedMarkets' = SubscribedMarkets \cup {m}
    BY <2>1, <2>5, <2>7 DEF SubscribedMarkets
  <2>9. ListedMarkets' = ListedMarkets \ {m} /\ m \in ListedMarkets
    BY <2>1, <2>3, <2>4, <2>7 DEF ListedMarkets
  <2>10. ClosedMarkets' = ClosedMarkets
    <3>1. Recorded' = Recorded /\ Cleared' = Cleared
      BY <2>1 DEF Recorded, Cleared
    <3>2. ClosedMarkets' = Recorded' \ (SubscribedMarkets' \cup Cleared')
      BY DEF ClosedMarkets, Recorded, Cleared
    <3> QED BY <2>5, <2>8, <3>1, <3>2, ClosedAre
  <2> QED BY <2>1, <2>3, <2>6, <2>8, <2>9, <2>10, Admits
<1>6. CASE CacheKey \/ CacheSocket
  <2>1. /\ rpc \in {"key", "cache"}
        /\ UNCHANGED <<next, subscribed, cpc, closing, cpos, active, active_markets>>
        /\ buffer' = buffer \/ buffer' = <<>>
    BY <1>6 DEF CacheKey, CacheSocket, RunAt
  <2>2. /\ BatchKey \in Markets /\ BatchKey \in Range(buffer) /\ Others \in Seq(Markets)
        /\ Range(buffer) \subseteq Range(subscribed)
        /\ Range(buffer) = {BatchKey} \cup Range(Others)
    BY <1>0, <2>1, Caching DEF LifeInv
  <2>3. Range(buffer) \subseteq SubscribedMarkets
    BY <1>0, <2>1, <2>2, BatchAhead DEF SubscribedMarkets, LifeInv
  <2>4. SubscribedMarkets' = SubscribedMarkets
    BY <2>1 DEF SubscribedMarkets
  <2>5. ListedMarkets' = ListedMarkets
    <3>1. Range(buffer') \subseteq Range(subscribed)
      BY <1>e, <2>1, <2>2
    <3> QED BY <2>1, <2>2, <3>1 DEF ListedMarkets
  <2>6. /\ \A k \in Markets \ {BatchKey} : last_ids'[k] = last_ids[k]
        /\ Range(last_ids[BatchKey].mkts) \subseteq Range(last_ids'[BatchKey].mkts)
        /\ Range(last_ids'[BatchKey].mkts) \subseteq Range(last_ids[BatchKey].mkts) \cup Range(buffer)
    <3> DEFINE s == last_ids[BatchKey].mkts
    <3>1. s \in Seq(Markets)
      BY <1>0, <2>2
    <3>2. /\ \/ last_ids'[BatchKey].mkts = Append(s, BatchKey)
             \/ last_ids'[BatchKey].mkts = s \o Others
          /\ \A k \in Markets \ {BatchKey} : last_ids'[k] = last_ids[k]
      BY <1>0, <1>6, <2>2 DEF CacheKey, CacheSocket
    <3> HIDE DEF s
    <3>3. Range(Append(s, BatchKey)) = Range(s) \cup {BatchKey}
      BY <2>2, <3>1, FreeAppend
    <3>4. Range(s \o Others) = Range(s) \cup Range(Others)
      BY <2>2, <3>1, RangeConcatenation
    <3> QED BY <2>2, <3>2, <3>3, <3>4 DEF s
  <2>7. Recorded \subseteq Recorded' /\ Recorded' \subseteq Recorded \cup SubscribedMarkets
    BY <2>2, <2>3, <2>6 DEF Recorded
  <2>8. Cleared' = Cleared
    <3>1. cpc # "watch" => last_ids'[closing] = last_ids[closing]
      BY <1>0, <1>6, ClosingKept DEF LifeInv
    <3> QED BY <2>1, <3>1 DEF Cleared
  <2>9. ClosedMarkets' = Recorded' \ (SubscribedMarkets' \cup Cleared')
    BY DEF ClosedMarkets, Recorded, Cleared
  <2>10. ClosedMarkets' = ClosedMarkets
    BY <2>4, <2>7, <2>8, <2>9, ClosedAre
  <2> QED BY <2>1, <2>4, <2>5, <2>10, Stays
<1> QED BY <1>2, <1>3, <1>4, <1>5, <1>6 DEF RunStep

LEMMA CleanSimulates ==
    ASSUME LifeInv, CleanStep
    PROVE  [Lifecycle!Next]_(Lifecycle!vars)
<1>0. /\ TypeInv /\ Lead
      /\ now \in Int /\ next \in Int /\ closing \in Int /\ cpos \in Nat /\ Markets \subseteq Int
      /\ buffer \in Seq(Markets) /\ subscribed \in Seq(Markets)
      /\ last_ids \in [Markets -> [sock : Sockets \cup {NoSocket}, mkts : Seq(Markets)]]
      /\ Ascending(subscribed)
  <2>1. TypeInv /\ Lead /\ Ascending(subscribed)
    BY DEF LifeInv, SocketInv, OrderInv
  <2> QED BY <2>1 DEF TypeInv, TypeOK, Markets, NoMarket
<1>1. /\ UNCHANGED <<next, rpc, buffer, active_markets>>
      /\ PopFront \/ UNCHANGED subscribed
      /\ DiscardBatch \/ UNCHANGED last_ids
  BY DEF CleanStep, Deactivate, PopFront, NotLast, FreeSocket, ResetSocket, Reconnect,
         ReconnectFail, EraseActive, EraseBooks, DiscardBatch
<1>2. ClosedMarkets' = Recorded' \ (SubscribedMarkets' \cup Cleared')
  BY DEF ClosedMarkets, Recorded, Cleared
<1>3. CASE Deactivate
  <2> DEFINE m == Head(subscribed)
  <2>1. /\ cpc = "watch" /\ cpc' = "pop" /\ subscribed # <<>> /\ m <= now /\ closing' = m
        /\ active' = [active EXCEPT ![m] = "off"]
        /\ UNCHANGED <<subscribed, last_ids>>
    BY <1>3 DEF Deactivate, CleanAt
  <2>2. m \in Range(subscribed) /\ m \in Markets
    BY <1>0, <2>1, AscendingTail, HeadTailProperties
  <2>3. m \in Recorded
    BY <2>1, FrontRecorded DEF LifeInv
  <2> HIDE DEF m
  <2>4. /\ SubscribedMarkets = Range(subscribed)
        /\ SubscribedMarkets' = Range(subscribed) \ {m}
    BY <2>1 DEF SubscribedMarkets
  <2>5. Recorded' = Recorded /\ Cleared = {} /\ Cleared' = {}
    BY <2>1 DEF Recorded, Cleared
  <2>6. ClosedMarkets' = ClosedMarkets \cup {m}
    BY <1>2, <2>2, <2>3, <2>4, <2>5, ClosedAre
  <2>7. ListedMarkets' = ListedMarkets
    BY <1>1, <2>1 DEF ListedMarkets
  <2> QED BY <1>1, <2>1, <2>2, <2>4, <2>6, <2>7, Closes
<1>4. CASE PopFront
  <2>1. /\ cpc = "pop" /\ cpc' = "find" /\ subscribed # <<>> /\ subscribed' = Tail(subscribed)
        /\ closing = Head(subscribed) /\ closing <= now
        /\ UNCHANGED <<last_ids, closing, active>>
    BY <1>0, <1>4 DEF PopFront, CleanAt, TypeInv, Control, LifeInv, OrderInv, Lead
  <2>2. /\ Range(subscribed) = {closing} \cup Range(subscribed')
        /\ closing \notin Range(subscribed')
    <3>1. /\ Range(subscribed) = {closing} \cup Range(subscribed')
          /\ \A m \in Range(subscribed') : closing < m
      BY <1>0, <2>1, AscendingTail
    <3> QED BY <1>0, <3>1
  <2>3. SubscribedMarkets' = SubscribedMarkets
    BY <2>1, <2>2 DEF SubscribedMarkets
  <2>4. closing \notin next..NumMarkets /\ closing \notin Range(buffer)
    <3>1. closing < next
      BY <2>2 DEF LifeInv, OrderInv
    <3>2. closing \notin Range(buffer)
      <4>1. CASE rpc = "poll"
        BY <4>1 DEF LifeInv, ApartInv, Range
      <4>2. CASE rpc # "poll"
        BY <1>0, <2>1, <4>2, BatchAhead DEF LifeInv
      <4> QED BY <4>1, <4>2
    <3> QED BY <1>0, <3>1, <3>2
  <2>5. ListedMarkets' = ListedMarkets
    BY <1>1, <2>2, <2>4 DEF ListedMarkets
  <2>6. Recorded' = Recorded /\ Cleared = {} /\ Cleared' = {}
    BY <2>1 DEF Recorded, Cleared
  <2> QED BY <1>1, <1>2, <2>1, <2>3, <2>5, <2>6, ClosedAre, Stays
<1>5. ASSUME UNCHANGED <<subscribed, last_ids>>, cpc # "pop", cpc' # "pop"
      PROVE  UNCHANGED <<SubscribedMarkets, ListedMarkets, Recorded>>
  BY <1>1, <1>5 DEF SubscribedMarkets, ListedMarkets, Recorded
<1>6. CASE NotLast \/ FreeSocket \/ ResetSocket \/ Reconnect \/ ReconnectFail
  <2>1. /\ cpc \in {"find", "drain", "renew"}
        /\ cpc' \in {"watch", "drain", "renew"} \/ (cpc' = "erase" /\ cpos' = 1)
        /\ UNCHANGED <<subscribed, last_ids, active>>
    BY <1>6 DEF NotLast, FreeSocket, ResetSocket, Reconnect, ReconnectFail, CleanAt
  <2>2. Cleared = {} /\ Cleared' = {}
    BY <2>1 DEF Cleared
  <2>3. UNCHANGED <<SubscribedMarkets, ListedMarkets, Recorded>>
    BY <1>5, <2>1
  <2> QED BY <1>1, <1>2, <2>1, <2>2, <2>3, ClosedAre, Stays
<1>7. CASE EraseActive
  <2> DEFINE s == last_ids[closing].mkts
             m == s[cpos]
  <2>1. /\ cpc = "erase" /\ cpc' = "linger" /\ closing \in Markets
        /\ active' = [active EXCEPT ![m] = "absent"]
        /\ UNCHANGED <<subscribed, last_ids, closing, cpos>>
    BY <1>0, <1>7 DEF EraseActive, CleanAt, TypeInv, Control
  <2>2. s \in Seq(Markets) /\ cpos \in DOMAIN s /\ Descending(s) /\ DOMAIN s = 1..Len(s)
    BY <1>0, <2>1, LenProperties DEF LifeInv, RecordInv, ApartInv
  <2>3. m \in Markets /\ m \in Range(s)
    BY <2>2, ElementOfSeq DEF Range
  <2>4. m \in Recorded
    BY <2>1, <2>3 DEF Recorded
  <2>5. m \notin Range(subscribed)
    <3>1. closing \notin Range(subscribed) /\ m <= closing
      BY <2>1, <2>3 DEF LifeInv, OrderInv
    <3>2. \A k \in Range(subscribed) : closing <= k
      BY <2>1 DEF LifeInv, ApartInv
    <3>3. m \in Int /\ closing \in Int
      BY <1>0, <2>3
    <3> HIDE DEF m
    <3> QED BY <3>1, <3>2, <3>3
  <2>6. Cleared = {s[i] : i \in 1..(cpos - 1)} /\ Cleared' = {s[i] : i \in 1..cpos}
    BY <2>1 DEF Cleared
  <2>7. /\ \A i \in 1..cpos : i \in 1..(cpos - 1) \/ i = cpos
        /\ \A i \in 1..(cpos - 1) : i \in 1..cpos /\ i < cpos
    BY <1>0
  <2>8. cpos \in 1..cpos /\ \A i \in 1..(cpos - 1) : i \in DOMAIN s
    BY <1>0, <2>2
  <2>9. Cleared' = Cleared \cup {m}
    BY <2>6, <2>7, <2>8
  <2>10. m \notin Cleared
    <3>1. ASSUME NEW i \in 1..(cpos - 1), s[i] = m PROVE FALSE
      <4>1. m < m
        BY <2>2, <2>7, <2>8, <3>1 DEF Descending
      <4> HIDE DEF m
      <4> QED BY <1>0, <2>3, <4>1
    <3> QED BY <2>6, <3>1
  <2>11. UNCHANGED <<SubscribedMarkets, ListedMarkets, Recorded>>
    BY <1>5, <2>1
  <2> HIDE DEF m
  <2>12. m \in ClosedMarkets /\ ClosedMarkets' = ClosedMarkets \ {m}
    BY <1>2, <2>4, <2>5, <2>9, <2>10, <2>11, ClosedAre DEF SubscribedMarkets
  <2> QED BY <1>1, <2>1, <2>3, <2>11, <2>12, Clears
<1>8. CASE EraseBooks
  <2>1. /\ cpc = "linger"
        /\ \/ cpc' = "erase" /\ cpos' = cpos + 1
           \/ cpc' = "discard" /\ cpos' = cpos
        /\ UNCHANGED <<subscribed, last_ids, closing, active>>
    BY <1>8 DEF EraseBooks, CleanAt
  <2> DEFINE Upto(n) == {last_ids[closing].mkts[i] : i \in 1..n}
  <2>2. Cleared = Upto(cpos)
    BY <2>1 DEF Cleared
  <2>3. Cleared' = Cleared
    <3>1. CASE cpc' = "discard" /\ cpos' = cpos
      BY <2>1, <2>2, <3>1 DEF Cleared
    <3>2. CASE cpc' = "erase" /\ cpos' = cpos + 1
      <4>1. Cleared' = Upto(cpos' - 1)
        BY <2>1, <3>2 DEF Cleared
      <4>2. cpos' - 1 = cpos
        BY <1>0, <3>2
      <4> HIDE DEF Upto
      <4> QED BY <2>2, <4>1, <4>2
    <3> QED BY <2>1, <3>1, <3>2
  <2>4. UNCHANGED <<SubscribedMarkets, ListedMarkets, Recorded>>
    BY <1>5, <2>1
  <2> QED BY <1>1, <1>2, <2>1, <2>3, <2>4, ClosedAre, Stays
<1>9. CASE DiscardBatch
  <2>1. /\ cpc = "discard" /\ cpc' = "watch" /\ closing \in Markets
        /\ last_ids' = [last_ids EXCEPT ![closing] = NoBatch]
        /\ UNCHANGED <<subscribed, active>>
    BY <1>0, <1>9 DEF DiscardBatch, CleanAt, TypeInv, Control
  <2>2. UNCHANGED <<SubscribedMarkets, ListedMarkets>>
    BY <1>1, <2>1 DEF SubscribedMarkets, ListedMarkets
  <2>3. Cleared' = {} /\ Cleared = Range(last_ids[closing].mkts)
    BY <2>1, ClearedRecorded DEF Cleared
  <2>4. Recorded' = Recorded \ Range(last_ids[closing].mkts)
    <3>1. \A k \in Markets : last_ids'[k] = (IF k = closing THEN NoBatch ELSE last_ids[k])
      BY <1>0, <2>1
    <3>2. Range(NoBatch.mkts) = {}
      BY DEF NoBatch, Range
    <3>3. \A k \in Markets : k # closing =>
             Range(last_ids[k].mkts) \cap Range(last_ids[closing].mkts) = {}
      BY <2>1 DEF LifeInv, ApartInv
    <3> QED BY <2>1, <3>1, <3>2, <3>3 DEF Recorded
  <2> QED BY <1>1, <1>2, <2>1, <2>2, <2>3, <2>4, ClosedAre, Stays
<1> QED BY <1>3, <1>4, <1>6, <1>7, <1>8, <1>9 DEF CleanStep

LEMMA ReadSimulates ==
    ASSUME LifeInv, ReadStep
    PROVE  [Lifecycle!Next]_(Lifecycle!vars)
<1>1. UNCHANGED <<next, buffer, subscribed, last_ids, cpc, closing, cpos>>
  BY DEF ReadStep, PollFlagged, PollIdle, RecvNull, RecvBytes, RecvMalformed, RecvDocument,
         AddRunners, Lookup, Activate, ApplyDelta, UpdateMissing, Terminate
<1>2. UNCHANGED <<SubscribedMarkets, ListedMarkets, ClosedMarkets>>
  BY <1>1 DEF SubscribedMarkets, ListedMarkets, ClosedMarkets
<1>3. CASE Activate
  <2>1. /\ dpc = "activate" /\ doc \in Markets /\ active_markets \in Seq(Markets)
        /\ active' = [active EXCEPT ![doc] = "on"]
        /\ active_markets' = Append(active_markets, doc)
    BY <1>3 DEF Activate, LifeInv, SocketInv, TypeInv, TypeOK, Control
  <2>2. /\ doc \notin Range(active_markets)
        /\ doc \in Range(subscribed) \/ doc \in Recorded
        /\ doc \in serving[di] /\ di \in Sockets
    BY <2>1 DEF LifeInv, LaunchInv, ServeInv, Reading, SocketInv, TypeInv, TypeOK
  <2>3. Range(active_markets') = Range(active_markets) \cup {doc}
    BY <2>1, FreeAppend
  <2>4. doc \notin Cleared
    <3>1. cpc \in {"erase", "linger", "discard"} => doc \notin Range(last_ids[closing].mkts)
      BY <2>2 DEF LifeInv, RecordInv
    <3>2. Cleared # {} => cpc \in {"erase", "linger", "discard"}
      BY DEF Cleared
    <3> QED BY <3>1, <3>2, ClearedRecorded
  <2>5. doc \in SubscribedMarkets \/ doc \in Recorded
    <3>1. cpc = "pop" => closing \in Recorded
      BY FrontRecorded DEF LifeInv, OrderInv, SocketInv, Lead, TypeInv, Control
    <3> QED BY <2>2, <3>1 DEF SubscribedMarkets
  <2>6. doc \in SubscribedMarkets \cup ClosedMarkets
    BY <2>4, <2>5, ClosedAre
  <2> QED BY <1>2, <2>1, <2>2, <2>3, <2>6, GoesLive
<1>4. CASE ~Activate
  <2>1. UNCHANGED <<active, active_markets>>
    BY <1>4 DEF ReadStep, PollFlagged, PollIdle, RecvNull, RecvBytes, RecvMalformed,
                RecvDocument, AddRunners, Lookup, ApplyDelta, UpdateMissing, Terminate
  <2> QED BY <1>2, <2>1, Stays
<1> QED BY <1>3, <1>4

\* The publisher implements the lifecycle it promises of a market, with as many
\* subscribed at a time as there are sockets, as long as batches are subscribed
\* ahead of their start and the reader polls a lowered flag within the ten
\* seconds: a market goes live at most once and not after it is cleared, its
\* phases follow each other, and it is cleared once.
THEOREM LifecycleImplemented ==
    ASSUME {"lead", "pass"} \subseteq Timely
    PROVE  Spec => ImplementsLifecycle
<1>1. Init => Lifecycle!Init
  <2> SUFFICES ASSUME Init PROVE Lifecycle!Init
    OBVIOUS
  <2>1. /\ next = 1 /\ Range(subscribed) = {} /\ cpc = "watch"
        /\ \A m \in Markets : active[m] = "absent"
        /\ Range(active_markets) = {}
    BY DEF Init, Range
  <2>2. \A m \in Markets : m \in ListedMarkets /\ m \notin SubscribedMarkets
    BY <2>1 DEF ListedMarkets, SubscribedMarkets, Markets
  <2>3. ClosedMarkets = {}
    <3>1. \A k \in Markets : Range(last_ids[k].mkts) = {}
      BY DEF Init, NoBatch, Range
    <3> QED BY <3>1 DEF ClosedMarkets
  <2>4. \A m \in Markets : PhaseOf(m) = "listed"
    BY <2>2, <2>3 DEF PhaseOf
  <2> QED BY <2>1, <2>4 DEF Lifecycle!Init
<1>2. LifeInv /\ [Next]_vars => [Lifecycle!Next]_(Lifecycle!vars)
  <2> SUFFICES ASSUME LifeInv, [Next]_vars PROVE [Lifecycle!Next]_(Lifecycle!vars)
    OBVIOUS
  <2>1. CASE UNCHANGED vars
    <3>1. UNCHANGED <<SubscribedMarkets, ListedMarkets, ClosedMarkets, active, active_markets>>
      BY <2>1 DEF vars, SubscribedMarkets, ListedMarkets, ClosedMarkets
    <3> QED BY <3>1, Stays
  <2> QED BY <2>1, RunSimulates, CleanSimulates, ReadSimulates DEF Next, Ended
<1>3. Spec => []LifeInv
  <2>1. "lead" \in Timely
    OBVIOUS
  <2>2. Spec => []SocketInv
    BY <2>1, SocketsOwned
  <2>3. Spec => [](OrderInv /\ BatchInv)
    BY <2>1, BatchesOrdered
  <2>4. Spec => []Room
    <3>1. Init => Room
      BY DEF Init, Room, SubscriptionBound
    <3>2. TypeInv /\ Room /\ [Next]_vars => Room'
      BY NextRoom
    <3> QED BY <3>1, <3>2, Typing, PTL DEF Spec
  <2>5. Spec => [](ReaderInv /\ ServeInv /\ RecordInv /\ BooksInv)
    BY ReaderKept
  <2>6. Spec => [](ApartInv /\ LaunchInv)
    BY LaunchesKept
  <2> QED BY <2>2, <2>3, <2>4, <2>5, <2>6, PTL DEF LifeInv
<1> QED BY <1>1, <1>2, <1>3, PTL DEF Spec, ImplementsLifecycle, Lifecycle!Spec
=============================================================================
