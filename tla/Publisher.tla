------------------------------ MODULE Publisher ------------------------------
(***************************************************************************)
(* The market data side of hedg: the Publisher, with the Parser and the    *)
(* Market_Handler it drives.  Three threads share its members without a    *)
(* lock (publisher.h:29 declares a mutex "//synchronization" that nothing  *)
(* takes):                                                                 *)
(*                                                                         *)
(*   run              takes a batch of markets about to start from the     *)
(*                    market generator and subscribes to it on a free      *)
(*                    stream socket                         (rpc, ...)     *)
(*   get_data         polls the sockets, reassembles the documents they    *)
(*                    carry and applies them to the books   (dpc, ...)     *)
(*   clean_up_markets deactivates the markets that start and, with the     *)
(*                    last of a batch, renews the socket and clears the    *)
(*                    markets of the batch                  (cpc, ...)     *)
(*                                                                         *)
(* What keeps them apart is time: sleeps, and the two minutes a market is  *)
(* subscribed ahead of its start.  Timely names the timing assumptions in  *)
(* force, so that each property is checked under the ones it needs:        *)
(*   "lead"   a batch is subscribed before its first market starts;        *)
(*   "pass"   in the ten seconds between lowering a socket's flag and      *)
(*            destroying the socket the reader polls it once.              *)
(***************************************************************************)
EXTENDS Integers, Sequences, FiniteSets, SequencesExt

CONSTANTS
    MaxMarkets,   \* max_markets: sockets, and room for subscribed markets
    NumMarkets,   \* how many markets the generator lists
    Timely        \* the timing assumptions in force

ASSUME MaxMarketsAssumption == MaxMarkets \in Nat \ {0}
ASSUME NumMarketsAssumption == NumMarkets \in Nat
ASSUME TimelyAssumption     == Timely \subseteq {"lead", "pass"}

\* Markets are numbered in the order of their start: the catalogue is asked
\* for FIRST_TO_START (params.cpp:35).
Markets  == 1..NumMarkets
Sockets  == 0..(MaxMarkets - 1)
NoSocket == -1
NoMarket == 0
NoBatch  == [sock |-> NoSocket, mkts |-> <<>>]

VARIABLES
    now,            \* every market m <= now has (almost) reached its start
    next,           \* the head of the generator's markets_
    \* run and try_subscribe
    rpc, buffer, idx, pushed,
    \* members of Publisher
    free_socks, socks, sock_flags, subscribed, last_ids,
    serving,        \* what the stream behind each socket is subscribed to
    \* clean_up_markets
    cpc, closing, cpos,
    unpolled,       \* history: the sockets whose lowered flag the reader has not seen
    \* get_data and its Parser
    dpc, di, doc, full_jsons,
    imaged,         \* the markets whose SUB_IMAGE has been received
    \* members of Market_Handler
    active, books, active_markets

genVars     == <<now, next>>
runVars     == <<rpc, buffer, idx, pushed>>
sockVars    == <<free_socks, socks, sock_flags, serving>>
batchVars   == <<subscribed, last_ids>>
cleanVars   == <<cpc, closing, cpos, unpolled>>
readVars    == <<dpc, di, doc, full_jsons, imaged>>
handlerVars == <<active, books, active_markets>>
runFrame    == <<cleanVars, readVars, handlerVars>>   \* the run thread leaves alone
cleanFrame  == <<genVars, runVars, readVars>>         \* clean_up_markets does
readFrame   == <<genVars, runVars, sockVars, batchVars>>   \* get_data does
vars == <<genVars, runVars, sockVars, batchVars, cleanVars, readVars, handlerVars>>

TypeOK ==
    /\ now \in 0..NumMarkets
    /\ next \in 1..(NumMarkets + 1)
    /\ rpc \in {"poll", "room", "sock", "connect", "push", "key", "cache"}
    /\ buffer \in Seq(Markets)
    /\ idx \in Sockets
    /\ pushed \in Nat
    /\ free_socks \in Seq(Sockets)
    /\ socks \in [Sockets -> BOOLEAN]       \* FALSE: a null unique_ptr
    /\ sock_flags \in [Sockets -> BOOLEAN]
    /\ subscribed \in Seq(Markets)
    /\ last_ids \in [Markets -> [sock : Sockets \cup {NoSocket}, mkts : Seq(Markets)]]
    /\ serving \in [Sockets -> SUBSET Markets]
    /\ cpc \in {"watch", "pop", "find", "drain", "renew", "erase", "linger", "discard"}
    /\ closing \in Markets \cup {NoMarket}
    /\ cpos \in Nat
    /\ unpolled \subseteq Sockets
    /\ dpc \in {"poll", "recv", "image", "lookup", "activate", "delta", "terminated"}
    /\ di \in Sockets
    /\ doc \in Markets \cup {NoMarket}
    /\ full_jsons \in [Sockets -> {"empty", "partial", "stale"}]
    /\ imaged \subseteq Markets
    /\ active \in [Markets -> {"absent", "off", "on"}]
    /\ books \in [Markets -> BOOLEAN]
    /\ active_markets \in Seq(Markets)

\* Publisher's constructor: every socket is connected and free.
Init ==
    /\ now = 0 /\ next = 1
    /\ rpc = "poll" /\ buffer = <<>> /\ idx = 0 /\ pushed = 0
    /\ free_socks = [i \in 1..MaxMarkets |-> i - 1]
    /\ socks = [s \in Sockets |-> TRUE]
    /\ sock_flags = [s \in Sockets |-> FALSE]
    /\ subscribed = <<>>
    /\ last_ids = [m \in Markets |-> NoBatch]
    /\ serving = [s \in Sockets |-> {}]
    /\ cpc = "watch" /\ closing = NoMarket /\ cpos = 1 /\ unpolled = {}
    /\ dpc = "poll" /\ di = 0 /\ doc = NoMarket
    /\ full_jsons = [s \in Sockets |-> "empty"]
    /\ imaged = {}
    /\ active = [m \in Markets |-> "absent"]
    /\ books = [m \in Markets |-> FALSE]
    /\ active_markets = <<>>

\* The reader's fatal errors end the process, and with it the other threads.
Running == dpc # "terminated"

RunAt(pc)   == Running /\ rpc = pc
CleanAt(pc) == Running /\ cpc = pc

-----------------------------------------------------------------------------
(* Time.                                                                   *)

\* The next market comes within ten seconds of its start (publisher.cpp:99).
Tick ==
    /\ Running
    /\ now < NumMarkets
    /\ ("lead" \in Timely /\ rpc # "poll") => now + 1 \notin Range(buffer)
    /\ now' = now + 1
    /\ UNCHANGED <<runFrame, next, runVars, sockVars, batchVars>>

-----------------------------------------------------------------------------
(* The run thread.                                                         *)

\* markets_within hands over the markets at the head that start in the window
\* of time_span_ minutes that opens two minutes from now.
TakeBatch(n) ==
    /\ RunAt("poll")
    /\ next > now
    /\ next + n <= NumMarkets + 1
    /\ next' = next + n
    /\ buffer' = [i \in 1..n |-> next + i - 1]
    /\ rpc' = "room"
    /\ UNCHANGED <<runFrame, now, idx, pushed, sockVars, batchVars>>

\* poll_within drops the head when it starts in less than two minutes.
DropLate ==
    /\ RunAt("poll")
    /\ next <= NumMarkets
    /\ next' = next + 1
    /\ UNCHANGED <<runFrame, now, runVars, sockVars, batchVars>>

\* The markets get_ids keeps when asked for at most room.  It takes the first
\* one before it looks at the limit, so with no room at all the count wraps
\* below zero and the loop takes every market.
GetIds(markets, room) ==
    IF room \in 1..Len(markets) THEN SubSeq(markets, 1, room) ELSE markets

Fits_Always(ids) == TRUE

Fits(ids) == Len(subscribed) + Len(ids) <= MaxMarkets

\* Read subscribed_.size() and cut the batch down to what fits; a batch that
\* does not fit, and what get_ids cut off, is gone for good.
ReadRoom ==
    /\ RunAt("room")
    /\ LET ids == GetIds(buffer, MaxMarkets - Len(subscribed))
       IN  IF Fits(ids)
           THEN rpc' = "sock" /\ buffer' = ids
           ELSE rpc' = "poll" /\ buffer' = <<>>
    /\ UNCHANGED <<runFrame, genVars, idx, pushed, sockVars, batchVars>>

\* free_socks_ is examined after the size was read; when it is empty the batch
\* is gone too.
NoSocketFree ==
    /\ RunAt("sock") /\ free_socks = <<>>
    /\ rpc' = "poll" /\ buffer' = <<>>
    /\ UNCHANGED <<runFrame, genVars, idx, pushed, sockVars, batchVars>>

TakeSocket_Kept ==
    /\ RunAt("sock") /\ free_socks # <<>>
    /\ idx' = Head(free_socks)
    /\ rpc' = "connect"
    /\ UNCHANGED <<runFrame, genVars, buffer, pushed, sockVars, batchVars>>

TakeSocket ==
    /\ RunAt("sock") /\ free_socks # <<>>
    /\ idx' = Head(free_socks)
    /\ free_socks' = Tail(free_socks)
    /\ rpc' = "connect"
    /\ UNCHANGED <<runFrame, genVars, buffer, pushed, socks, sock_flags, serving,
                   batchVars>>

\* Both requests are written to the stream and the reader is let in, before
\* the batch is recorded anywhere.
Subscribe ==
    /\ RunAt("connect") /\ socks[idx]
    /\ serving' = [serving EXCEPT ![idx] = Range(buffer)]
    /\ sock_flags' = [sock_flags EXCEPT ![idx] = TRUE]
    /\ pushed' = 0
    /\ rpc' = "push"
    /\ UNCHANGED <<runFrame, genVars, buffer, idx, free_socks, socks, batchVars>>

\* send_request throws: the socket goes back to the queue, the batch is lost.
SubscribeFail ==
    /\ RunAt("connect")
    /\ free_socks' = Append(free_socks, idx)
    /\ rpc' = "poll" /\ buffer' = <<>>
    /\ UNCHANGED <<runFrame, genVars, idx, pushed, socks, sock_flags, serving,
                   batchVars>>

PushSubscribed ==
    /\ RunAt("push")
    /\ subscribed' = Append(subscribed, buffer[pushed + 1])
    /\ pushed' = pushed + 1
    /\ rpc' = IF pushed' = Len(buffer) THEN "key" ELSE "push"
    /\ UNCHANGED <<runFrame, genVars, buffer, idx, sockVars, last_ids>>

BatchKey_First == Head(buffer)

\* A batch is filed under its last market, the last one to start.
BatchKey == Last(buffer)

Others_ButFirst == Front(Reverse(Front(buffer)))

\* The other markets of the batch, from the last to the first.
Others == Reverse(Front(buffer))

\* cache_socket: operator[] makes the entry of the batch's last market, with
\* socket 0 until the second assignment.
CacheKey ==
    /\ RunAt("key")
    /\ last_ids' = [last_ids EXCEPT
           ![BatchKey] = [sock |-> IF @ = NoBatch THEN 0 ELSE @.sock,
                          mkts |-> Append(@.mkts, BatchKey)]]
    /\ rpc' = "cache"
    /\ UNCHANGED <<runFrame, genVars, buffer, idx, pushed, sockVars, subscribed>>

\* The rest of cache_socket.
CacheSocket ==
    /\ RunAt("cache")
    /\ last_ids' = [last_ids EXCEPT
           ![BatchKey] = [sock |-> idx, mkts |-> @.mkts \o Others]]
    /\ rpc' = "poll" /\ buffer' = <<>>
    /\ UNCHANGED <<runFrame, genVars, idx, pushed, sockVars, subscribed>>

RunStep ==
    \/ ReadRoom \/ NoSocketFree \/ TakeSocket \/ Subscribe \/ SubscribeFail
    \/ PushSubscribed \/ CacheKey \/ CacheSocket

-----------------------------------------------------------------------------
(* The clean_up_markets thread.                                            *)

Deactivated_Not(m) == active

Deactivated(m) == [active EXCEPT ![m] = "off"]

\* The front market is about to start: tell the strategies.
Deactivate ==
    /\ CleanAt("watch")
    /\ subscribed # <<>> /\ Head(subscribed) <= now
    /\ closing' = Head(subscribed)
    /\ active' = Deactivated(closing')
    /\ cpc' = "pop"
    /\ UNCHANGED <<readFrame, cpos, unpolled, readVars, books, active_markets>>

Popped_Back == Front(subscribed)

Popped == Tail(subscribed)

PopFront ==
    /\ CleanAt("pop")
    /\ subscribed' = Popped
    /\ cpc' = "find"
    /\ UNCHANGED <<cleanFrame, sockVars, last_ids, closing, cpos, unpolled,
                   handlerVars>>

\* Not the last market of its batch.
NotLast ==
    /\ CleanAt("find") /\ last_ids[closing] = NoBatch
    /\ cpc' = "watch" /\ closing' = NoMarket
    /\ UNCHANGED <<readFrame, cpos, unpolled, readVars, handlerVars>>

\* The last one: lower the flag and sleep ten seconds.
FreeSocket ==
    /\ CleanAt("find") /\ last_ids[closing] # NoBatch
    /\ sock_flags' = [sock_flags EXCEPT ![last_ids[closing].sock] = FALSE]
    /\ unpolled' = unpolled \cup {last_ids[closing].sock}
    /\ cpc' = "drain"
    /\ UNCHANGED <<cleanFrame, free_socks, socks, serving, batchVars, closing, cpos,
                   handlerVars>>

Slept_Not == TRUE

\* What the sleep of ten seconds is there for.
Slept == "pass" \in Timely => last_ids[closing].sock \notin unpolled

\* Destroy the client.  A reader between its flag check and the end of the
\* read is either inside the client, and crashes, or still in front of it.
ResetSocket ==
    /\ CleanAt("drain")
    /\ Slept
    /\ LET s == last_ids[closing].sock
       IN  /\ socks' = [socks EXCEPT ![s] = FALSE]
           /\ serving' = [serving EXCEPT ![s] = {}]
           /\ full_jsons' = [full_jsons EXCEPT ![s] =
                                IF @ = "partial" THEN "stale" ELSE @]
           /\ dpc' \in IF dpc = "recv" /\ di = s THEN {dpc, "terminated"} ELSE {dpc}
    /\ cpc' = "renew"
    /\ UNCHANGED <<genVars, runVars, free_socks, sock_flags, batchVars, closing,
                   cpos, unpolled, di, doc, imaged, handlerVars>>

\* new_streamer connects; the socket is free from here on.
Reconnect ==
    /\ CleanAt("renew")
    /\ LET s == last_ids[closing].sock
       IN  /\ socks' = [socks EXCEPT ![s] = TRUE]
           /\ free_socks' = Append(free_socks, s)
    /\ cpc' = "erase" /\ cpos' = 1
    /\ UNCHANGED <<cleanFrame, sock_flags, serving, batchVars, closing, unpolled,
                   handlerVars>>

ReconnectFail_Freed ==
    /\ CleanAt("renew")
    /\ free_socks' = Append(free_socks, last_ids[closing].sock)
    /\ cpc' = "erase" /\ cpos' = 1
    /\ UNCHANGED <<cleanFrame, socks, sock_flags, serving, batchVars, closing,
                   unpolled, handlerVars>>

\* new_streamer swallows the error and returns null: the socket is never tried
\* again.
ReconnectFail ==
    /\ CleanAt("renew")
    /\ cpc' = "erase" /\ cpos' = 1
    /\ UNCHANGED <<readFrame, closing, unpolled, readVars, handlerVars>>

Erased_Not(m) == active

Erased(m) == [active EXCEPT ![m] = "absent"]

\* clear_market, before and after its sleep of thirty seconds.
EraseActive ==
    /\ CleanAt("erase")
    /\ active' = Erased(last_ids[closing].mkts[cpos])
    /\ cpc' = "linger"
    /\ UNCHANGED <<readFrame, closing, cpos, unpolled, readVars, books,
                   active_markets>>

EraseBooks ==
    /\ CleanAt("linger")
    /\ books' = [books EXCEPT ![last_ids[closing].mkts[cpos]] = FALSE]
    /\ IF cpos < Len(last_ids[closing].mkts)
       THEN cpc' = "erase" /\ cpos' = cpos + 1
       ELSE cpc' = "discard" /\ UNCHANGED cpos
    /\ UNCHANGED <<readFrame, closing, unpolled, readVars, active, active_markets>>

DiscardBatch ==
    /\ CleanAt("discard")
    /\ last_ids' = [last_ids EXCEPT ![closing] = NoBatch]
    /\ cpc' = "watch" /\ closing' = NoMarket /\ cpos' = 1
    /\ UNCHANGED <<cleanFrame, sockVars, subscribed, unpolled, handlerVars>>

CleanStep ==
    \/ Deactivate \/ PopFront \/ NotLast \/ FreeSocket \/ ResetSocket
    \/ Reconnect \/ ReconnectFail \/ EraseActive \/ EraseBooks \/ DiscardBatch

-----------------------------------------------------------------------------
(* The get_data thread.                                                    *)

NextSocket_PastEnd == (di + 1) % (MaxMarkets + 1)

NextSocket == (di + 1) % MaxMarkets

PollFlagged ==
    /\ dpc = "poll" /\ sock_flags[di]
    /\ dpc' = "recv"
    /\ UNCHANGED <<readFrame, cleanVars, di, doc, full_jsons, imaged, handlerVars>>

Reset_Not(jsons, i) == jsons

Reset(jsons, i) == [jsons EXCEPT ![i] = "empty"]

\* The flag is down: forget what was left of an unfinished document.
PollIdle ==
    /\ dpc = "poll" /\ ~sock_flags[di]
    /\ full_jsons' = Reset(full_jsons, di)
    /\ di' = NextSocket
    /\ unpolled' = unpolled \ {di}
    /\ UNCHANGED <<readFrame, cpc, closing, cpos, dpc, doc, imaged, handlerVars>>

\* The process dies: a null socket or book is used, or an exception other than
\* boost's leaves the thread.
Terminate ==
    /\ dpc' = "terminated"
    /\ UNCHANGED <<readFrame, cleanVars, di, doc, full_jsons, imaged, handlerVars>>

RecvNull == dpc = "recv" /\ ~socks[di] /\ Terminate

\* Up to fifteen bytes that end no market's document: some of one, a heartbeat,
\* or nothing because the connection is lost.
RecvBytes ==
    /\ dpc = "recv" /\ socks[di]
    /\ \E b \in IF full_jsons[di] = "stale" THEN {"stale"} ELSE {"empty", "partial"} :
          full_jsons' = [full_jsons EXCEPT ![di] = b]
    /\ dpc' = "poll" /\ di' = NextSocket
    /\ UNCHANGED <<readFrame, cleanVars, doc, imaged, handlerVars>>

\* A newline ends a document about m: the image of the market when it is the
\* first, else a delta of it.  Bytes of the next document may follow.
RecvDocument(m) ==
    /\ dpc = "recv" /\ socks[di]
    /\ m \in serving[di]
    /\ full_jsons[di] # "stale"
    /\ \E b \in {"empty", "partial"} : full_jsons' = [full_jsons EXCEPT ![di] = b]
    /\ doc' = m
    /\ imaged' = imaged \cup {m}
    /\ dpc' = IF m \in imaged THEN "delta" ELSE "image"
    /\ UNCHANGED <<readFrame, cleanVars, di, handlerVars>>

\* A newline ends a document that starts with bytes of a destroyed stream:
\* simdjson's exception is not the one get_data catches.
RecvMalformed ==
    /\ dpc = "recv" /\ socks[di] /\ full_jsons[di] = "stale"
    /\ Terminate

\* add_runner for every runner of the image, with the updates it carries.
AddRunners ==
    /\ dpc = "image"
    /\ books' = [books EXCEPT ![doc] = TRUE]
    /\ dpc' = "lookup"
    /\ UNCHANGED <<readFrame, cleanVars, di, doc, full_jsons, imaged, active,
                   active_markets>>

\* The image's market is sought in subscribed_; one not found there is never
\* activated, since it gets no second image.
Lookup ==
    /\ dpc = "lookup"
    /\ IF doc \in Range(subscribed)
       THEN dpc' = "activate" /\ UNCHANGED <<di, doc>>
       ELSE dpc' = "poll" /\ di' = NextSocket /\ doc' = NoMarket
    /\ UNCHANGED <<readFrame, cleanVars, full_jsons, imaged, handlerVars>>

\* activate_market: the market is live and start() will launch its strategies.
Activate ==
    /\ dpc = "activate"
    /\ active' = [active EXCEPT ![doc] = "on"]
    /\ active_markets' = Append(active_markets, doc)
    /\ dpc' = "poll" /\ di' = NextSocket /\ doc' = NoMarket
    /\ UNCHANGED <<readFrame, cleanVars, full_jsons, imaged, books>>

\* update_back, update_lay, update_traded of a runner with books ...
ApplyDelta ==
    /\ dpc = "delta" /\ books[doc]
    /\ dpc' = "poll" /\ di' = NextSocket /\ doc' = NoMarket
    /\ UNCHANGED <<readFrame, cleanVars, full_jsons, imaged, handlerVars>>

\* ... and of one without: operator[] makes an empty vector and indexes it.
UpdateMissing == dpc = "delta" /\ ~books[doc] /\ Terminate

ReadStep ==
    \/ PollFlagged \/ PollIdle \/ RecvNull \/ RecvBytes \/ RecvMalformed
    \/ \E m \in Markets : RecvDocument(m)
    \/ AddRunners \/ Lookup \/ Activate \/ ApplyDelta \/ UpdateMissing

-----------------------------------------------------------------------------

\* A process that died stays dead.
Ended == ~Running /\ UNCHANGED vars

Next ==
    \/ Tick
    \/ \E n \in 1..NumMarkets : TakeBatch(n)
    \/ DropLate
    \/ RunStep
    \/ CleanStep
    \/ ReadStep
    \/ Ended

Spec == Init /\ [][Next]_vars

\* Time passes; sleeps and connection attempts end; a blocked read ends with
\* the heartbeat of its stream.  Nothing is assumed about which markets the
\* generator lists, nor that a document of theirs ever arrives.
Fairness ==
    /\ WF_vars(Tick)
    /\ WF_vars(RunStep)
    /\ WF_vars(CleanStep)
    /\ WF_vars(ReadStep)

FairSpec == Spec /\ Fairness

-----------------------------------------------------------------------------
(* Sockets.                                                                *)

\* The batches that hold a socket: recorded in last_ids, and not yet past the
\* moment clean_up_markets gives the socket back.
Leases ==
    {k \in Markets :
        /\ last_ids[k] # NoBatch
        /\ ~(cpc \in {"erase", "linger", "discard"} /\ k = closing)
        /\ ~(rpc = "cache" /\ k = BatchKey)}

Held == IF rpc \in {"connect", "push", "key", "cache"} THEN {idx} ELSE {}

\* A socket has at most one owner, the free queue, the run thread or one
\* batch, whatever the three threads do in between (publisher.cpp:44, 60, 115,
\* 195); what is free is connected and not being read.
ExclusiveSockets ==
    /\ IsInjective(free_socks)
    /\ \A s \in Range(free_socks) : socks[s] /\ ~sock_flags[s] /\ s \notin Held
    /\ \A s \in Held : socks[s]
    /\ \A k \in Leases : last_ids[k].sock \notin Range(free_socks) \cup Held
    /\ \A j, k \in Leases : last_ids[j].sock = last_ids[k].sock => j = k

\* The run thread counts the subscribed markets once and pushes its batch
\* later, one by one: there are never more than max_markets.
SubscriptionBound ==
    Len(subscribed) + (IF rpc = "push" THEN Len(buffer) - pushed ELSE 0) <= MaxMarkets

\* However long the reader takes, it comes upon a socket that clean_up_markets
\* has destroyed in one read only: the one it went into before the flag was
\* lowered.  One look at the lowered flag, whenever it comes, keeps it out until
\* there is a client again (publisher.cpp:110-115 and 153-155).
NoReadOfResetSocket == dpc = "recv" /\ ~socks[di] => di \in unpolled

\* Likewise the bytes of a new stream are appended to half a document of an old
\* one (parser.cpp:23) only if the reader has not looked at the socket once from
\* the lowering of its flag until it was subscribed anew.
NoMixedDocument == dpc = "recv" /\ full_jsons[di] = "stale" => di \in unpolled

-----------------------------------------------------------------------------
(* Markets.                                                                *)

\* Every update finds the books its image made, although clean_up_markets
\* erases books meanwhile (parser.cpp:58, markethandler.h:85).
UpdatesFindBooks == dpc = "delta" => books[doc]

\* A market the strategies may trade has its books (markethandler.h:57, 126).
ActiveHasBooks == \A m \in Markets : active[m] = "on" => books[m]

\* Outside cache_socket, every subscribed market belongs to a batch whose last
\* market is still to come and whose socket is still read, so it will be
\* cleared and its socket renewed (publisher.cpp:56, 107).
NoOrphanBatch ==
    \A m \in Range(subscribed) :
        \/ rpc \in {"push", "key", "cache"} /\ m \in Range(buffer)
        \/ \E k \in Range(subscribed) :
               /\ m \in Range(last_ids[k].mkts)
               /\ last_ids[k].sock # NoSocket /\ sock_flags[last_ids[k].sock]

\* The image of a market that has not started finds it in subscribed_, so it is
\* not lost, whatever became of other batches meanwhile; unless it is looked up
\* while the run thread, which has raised the flag, has yet to push that very
\* market (publisher.cpp:50, 54-56).
ImageActivates ==
    dpc = "lookup" /\ doc > now =>
        \/ doc \in Range(subscribed)
        \/ rpc = "push" /\ \E i \in pushed + 1 .. Len(buffer) : buffer[i] = doc

\* A market that clean_up_markets has told the strategies to leave is never
\* handed to them again (publisher.cpp:102).
TimeUpIsFinal ==
    [][\A m \in Markets : active[m] = "off" => active'[m] # "on"]_vars

Gone(m) ==
    /\ m \notin Range(subscribed)
    /\ active[m] = "absent" /\ ~books[m]
    /\ \A k \in Markets : m \notin Range(last_ids[k].mkts)

\* Every subscribed market is in the end closed and cleared, with its books and
\* the record of its batch.
SubscribedIsCleared ==
    \A m \in Markets : (m \in Range(subscribed)) ~> Gone(m)

-----------------------------------------------------------------------------
(* The publisher implements MarketLifecycle.                               *)

SubscribedMarkets ==
    Range(subscribed) \ (IF cpc = "pop" THEN {closing} ELSE {})

ListedMarkets ==
    (next..NumMarkets \cup Range(buffer)) \ Range(subscribed)

\* Closed markets await the clearing of their batch.
ClosedMarkets ==
    LET Cleared == IF cpc \in {"erase", "linger", "discard"}
                   THEN {last_ids[closing].mkts[i] :
                            i \in 1..(IF cpc = "erase" THEN cpos - 1 ELSE cpos)}
                   ELSE {}
    IN  (UNION {Range(last_ids[k].mkts) : k \in Markets}) \ (SubscribedMarkets \cup Cleared)

PhaseOf(m) ==
    CASE m \in SubscribedMarkets -> "subscribed"
      [] m \in ListedMarkets     -> "listed"
      [] m \in ClosedMarkets     -> "closed"
      [] OTHER                   -> "gone"

Lifecycle == INSTANCE MarketLifecycle WITH
    Capacity <- MaxMarkets,
    phase    <- [m \in Markets |-> PhaseOf(m)],
    live     <- {m \in Markets : active[m] = "on"},
    launched <- Range(active_markets)

ImplementsLifecycle == Lifecycle!Spec
=============================================================================
