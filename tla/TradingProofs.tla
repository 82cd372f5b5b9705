---------------------------- MODULE TradingProofs ----------------------------
(***************************************************************************)
(* Theorems about Trading for any runners, any depth of their books and    *)
(* any offers: runners are not mixed up on the way from the stream to an   *)
(* order, and orders are opened and closed in turn.                        *)
(***************************************************************************)
EXTENDS Trading, PriceLadderProofs, SequenceTheorems, FiniteSetTheorems, TLAPS

\* The two maps between ids and positions are each other's inverse.
MapInv ==
    /\ \A n \in 1 .. Len(runner_ids) :
          runner_ids[n] \in DOMAIN runner_loc /\ runner_loc[runner_ids[n]] = n
    /\ \A r \in DOMAIN runner_loc :
          runner_loc[r] \in 1 .. Len(runner_ids) /\ runner_ids[runner_loc[r]] = r

\* The image lists every runner once, and comes before everything else.
ImageInv ==
    /\ \A i, j \in 1 .. Len(listed) : i # j => listed[i] # listed[j]
    /\ \A i \in 1 .. Len(listed) : listed[i] \notin DOMAIN runner_loc
    /\ \A r \in Runners : market_book # <<>> \/ listed # <<>> =>
          r \in DOMAIN runner_loc \/ \E i \in 1 .. Len(listed) : r = listed[i]
    /\ Len(market_book) + Len(listed) <= Cardinality(Runners)
    /\ \A i \in 1 .. Len(doc) : doc[i].runner \in DOMAIN runner_loc
    /\ market_book = <<>> => doc = <<>>
    /\ active # "new" => market_book # <<>> /\ listed = <<>>
    /\ active = "new" => pc = "idle"

\* The strategy has a favourite once it has sorted, and orders one at a time.
FaveInv ==
    /\ pc \notin {"idle", "sort", "crashed"} => fave \in DOMAIN market_book
    /\ pc \in {"back", "lay"} => level < Depth
    /\ open_orders # <<>> => pc = "close"

Base == TypeOK /\ MapInv /\ ImageInv /\ FaveInv

-----------------------------------------------------------------------------

USE RunnersAssumption, DepthAssumption, OffersAssumption, UpdatesAssumption
    DEF handler, reader, turn, wire

LEMMA BidFacts ==
  /\ 0 \in Levels /\ Levels \subseteq Nat
  /\ NoBid \in Bids /\ Bids \subseteq [price : Nat, size : Nat]
  /\ \A side \in {"back", "lay"}, l \in Levels : Offered(side, l) \subseteq Bids
  /\ \A b \in Bids : b.price \in Prices /\ b.price \in Nat /\ b.size \in Nat
  /\ 0 \in Prices
<1>1. 0 \in Levels /\ Levels \subseteq Nat
  BY DEF Levels
<1>2. \A side \in {"back", "lay"}, l \in Levels : Offered(side, l) \subseteq Bids
  BY DEF Bids
<1>3. NoBid \in Offered("back", 0)
  BY DEF Offered
<1>4. NoBid \in Bids
  BY <1>1, <1>2, <1>3
<1>5. ASSUME NEW side \in {"back", "lay"}, NEW l \in Levels
      PROVE  Offered(side, l) \subseteq [price : Nat, size : Nat]
  <2>1. l + 1 \in 1 .. Depth
    BY DEF Levels
  <2>2. Offers[side][l + 1] \subseteq [price : Nat, size : Nat]
    BY <2>1
  <2>3. NoBid \in [price : Nat, size : Nat]
    BY DEF NoBid
  <2> QED BY <2>2, <2>3 DEF Offered
<1>6. Bids \subseteq [price : Nat, size : Nat]
  BY <1>5 DEF Bids
<1>7. \A b \in Bids : b.price \in Prices
  BY DEF Prices
<1>8. 0 \in Prices
  BY <1>4, <1>7 DEF NoBid
<1> QED BY <1>1, <1>2, <1>4, <1>6, <1>7, <1>8

LEMMA NewBookTyped == NewBook \in Order_Book
BY BidFacts DEF NewBook, Order_Book

\* The list of an image holds every runner once.
LEMMA ListsAll ==
  ASSUME NEW s \in SetToSeqs(Runners)
  PROVE  /\ s \in Seq(Runners) /\ Len(s) = Cardinality(Runners) /\ s # <<>>
         /\ \A i, j \in 1 .. Len(s) : i # j => s[i] # s[j]
         /\ \A r \in Runners : \E i \in 1 .. Len(s) : r = s[i]
<1> DEFINE n == Cardinality(Runners)
<1>1. n \in Nat /\ n # 0
  BY FS_CardinalityType, FS_EmptySet
<1>2. s \in [1 .. n -> Runners] /\ \A i, j \in 1 .. n : i # j => s[i] # s[j]
  BY DEF SetToSeqs
<1>3. IsFiniteSet(1 .. n) /\ Cardinality(1 .. n) = n
  BY <1>1, FS_Interval
<1>4. s \in Injection(1 .. n, Runners)
  BY <1>2 DEF Injection, IsInjective
<1>5. s \in Surjection(1 .. n, Runners)
  BY <1>3, <1>4, FS_Injection
<1> HIDE DEF n
<1>6. s \in Seq(Runners) /\ Len(s) = n
  BY <1>1, <1>2
<1>7. \A r \in Runners : \E i \in 1 .. n : r = s[i]
  BY <1>5 DEF Surjection
<1> QED BY <1>1, <1>2, <1>6, <1>7, EmptySeq DEF n

\* A store changes one level of one book.
Stored(b, k, side, l, bid) == [b EXCEPT ![k][side][l] = bid]

LEMMA StoreChanges ==
  ASSUME NEW b \in Seq(Order_Book), NEW k \in 1 .. Len(b), NEW side \in {"back", "lay"},
         NEW l \in Levels, NEW bid \in Bids, NEW c, c = Stored(b, k, side, l, bid)
  PROVE  /\ c \in Seq(Order_Book) /\ Len(c) = Len(b)
         /\ \A n \in 1 .. Len(b) :
               \/ c[n]["back"][0] = b[n]["back"][0]
               \/ n = k /\ side = "back" /\ l = 0 /\ c[n]["back"][0] = bid
<1>1. b[k] \in Order_Book
  BY ElementOfSeq
<1> DEFINE new == [b[k] EXCEPT ![side][l] = bid]
<1>2. new \in Order_Book
  BY <1>1 DEF Order_Book
<1>3. \/ new["back"][0] = b[k]["back"][0]
      \/ side = "back" /\ l = 0 /\ new["back"][0] = bid
  BY <1>1 DEF Order_Book
<1>4. c = [b EXCEPT ![k] = new]
  BY DEF Stored
<1> HIDE DEF new
<1>5. /\ c \in Seq(Order_Book) /\ Len(c) = Len(b)
      /\ \A n \in 1 .. Len(b) : c[n] = IF n = k THEN new ELSE b[n]
  <2>1. /\ Len(b) \in Nat /\ b \in [1 .. Len(b) -> Order_Book]
    BY LenProperties
  <2>2. c \in [1 .. Len(b) -> Order_Book]
    BY <1>2, <1>4, <2>1
  <2>3. c \in Seq(Order_Book) /\ Len(c) = Len(b)
    BY <2>1, <2>2
  <2>4. \A n \in 1 .. Len(b) : c[n] = IF n = k THEN new ELSE b[n]
    BY <1>4, <2>1
  <2> QED BY <2>3, <2>4
<1> QED BY <1>3, <1>5

-----------------------------------------------------------------------------
\* The books and the maps.

LEMMA InitBase == Init => Base
<1> SUFFICES ASSUME Init PROVE Base
  OBVIOUS
<1> USE DEF Init
<1>1. TypeOK
  <2>1. /\ market_book \in Seq(Order_Book) /\ runner_ids \in Seq(Runners)
        /\ listed \in Seq(Runners) /\ doc \in Seq(Entry) /\ open_orders \in Seq(Prices)
        /\ sent \in Seq(Order) /\ Len(market_book) = 0 /\ Len(runner_ids) = 0
        /\ Len(open_orders) = 0
    BY EmptySeq
  <2>2. Cardinality(Runners) \in Nat
    BY FS_CardinalityType
  <2>3. DOMAIN runner_loc = {}
    OBVIOUS
  <2>4. /\ fave \in DOMAIN market_book \cup {NoRunner} /\ {first, second} \subseteq Bids
        /\ level \in 0 .. Depth /\ {backs, lays} \subseteq Nat /\ entry_price \in Prices
        /\ seen \subseteq Prices /\ updates \in 0 .. MaxUpdates
    BY BidFacts DEF NoRunner
  <2>5. /\ active \in {"new", "yes", "no"} /\ client \in {"up", "down", "null"}
        /\ moved \in BOOLEAN /\ pc = "idle"
    OBVIOUS
  <2> HIDE DEF Init
  <2> QED BY <2>1, <2>2, <2>3, <2>4, <2>5 DEF TypeOK
<1>2. MapInv
  BY EmptySeq DEF MapInv
<1>3. ImageInv
  <2>1. Len(<<>>) = 0 /\ Cardinality(Runners) \in Nat
    BY EmptySeq, FS_CardinalityType
  <2> QED BY <2>1 DEF ImageInv
<1>4. FaveInv
  BY DEF FaveInv
<1> QED BY <1>1, <1>2, <1>3, <1>4 DEF Base

\* The lengths and elements of the sequences.
LEMMA Lengths ==
  ASSUME TypeOK
  PROVE  /\ Len(market_book) \in Nat /\ DOMAIN market_book = 1 .. Len(market_book)
         /\ Len(runner_ids) = Len(market_book) /\ Len(listed) \in Nat /\ Len(doc) \in Nat
         /\ DOMAIN runner_ids = 1 .. Len(runner_ids)
         /\ market_book = <<>> => Len(market_book) = 0
         /\ \A n \in 1 .. Len(market_book) : market_book[n] \in Order_Book
         /\ \A i \in 1 .. Len(doc) : doc[i] \in Entry
         /\ \A i \in 1 .. Len(listed) : listed[i] \in Runners
         /\ \A n \in 1 .. Len(runner_ids) : runner_ids[n] \in Runners
<1>1. /\ market_book \in Seq(Order_Book) /\ runner_ids \in Seq(Runners)
      /\ listed \in Seq(Runners) /\ doc \in Seq(Entry)
      /\ Len(runner_ids) = Len(market_book)
  BY DEF TypeOK
<1>2. /\ Len(market_book) \in Nat /\ DOMAIN market_book = 1 .. Len(market_book)
      /\ Len(listed) \in Nat /\ Len(doc) \in Nat
      /\ DOMAIN runner_ids = 1 .. Len(runner_ids)
  BY <1>1, LenProperties
<1>3. market_book = <<>> => Len(market_book) = 0
  BY EmptySeq
<1>4. /\ \A n \in 1 .. Len(market_book) : market_book[n] \in Order_Book
      /\ \A n \in 1 .. Len(runner_ids) : runner_ids[n] \in Runners
  BY <1>1, ElementOfSeq
<1>5. /\ \A i \in 1 .. Len(doc) : doc[i] \in Entry
      /\ \A i \in 1 .. Len(listed) : listed[i] \in Runners
  BY <1>1, ElementOfSeq
<1> QED BY <1>1, <1>2, <1>3, <1>4, <1>5

LEMMA ImageRead ==
  ASSUME Base, ReadImage
  PROVE  Base'
<1>0. /\ active = "new" /\ market_book = <<>> /\ listed = <<>>
      /\ listed' \in SetToSeqs(Runners)
      /\ UNCHANGED <<market_book, runner_loc, runner_ids, active, doc, updates, moved, seen,
                     pc, fave, first, second, level, backs, lays, entry_price,
                     open_orders, client, sent>>
  BY DEF ReadImage, ReaderOnly
<1>1. /\ listed' \in Seq(Runners) /\ Len(listed') = Cardinality(Runners)
      /\ \A i, j \in 1 .. Len(listed') : i # j => listed'[i] # listed'[j]
      /\ \A r \in Runners : \E i \in 1 .. Len(listed') : r = listed'[i]
  BY <1>0, ListsAll
<1>2. Len(market_book) = 0 /\ Len(runner_ids) = 0
  BY <1>0, Lengths DEF Base
<1>3. DOMAIN runner_loc = {}
  <2>1. \A r \in DOMAIN runner_loc : runner_loc[r] \in 1 .. Len(runner_ids)
    BY DEF Base, MapInv
  <2>2. \A i \in 1 .. Len(runner_ids) : FALSE
    BY <1>2
  <2> QED BY <2>1, <2>2
<1>4. TypeOK'
  BY <1>0, <1>1 DEF Base, TypeOK
<1>5. ImageInv'
  <2>1. Len(market_book') + Len(listed') <= Cardinality(Runners)
    BY <1>0, <1>1, <1>2, FS_CardinalityType
  <2>2. doc = <<>> /\ pc = "idle"
    BY <1>0 DEF Base, ImageInv
  <2>3. \A i \in 1 .. Len(doc') : doc'[i].runner \in DOMAIN runner_loc'
    BY <1>0 DEF Base, ImageInv
  <2> QED BY <1>0, <1>1, <1>3, <2>1, <2>2, <2>3 DEF ImageInv
<1>6. MapInv' /\ FaveInv'
  BY <1>0 DEF Base, MapInv, FaveInv
<1> QED BY <1>4, <1>5, <1>6 DEF Base

LEMMA UpdateRead ==
  ASSUME Base, ReadUpdate
  PROVE  Base'
<1>0. /\ active # "new" /\ updates < MaxUpdates /\ updates' = updates + 1
      /\ \E r \in Runners, side \in {"back", "lay"}, l \in Levels :
            doc' = <<Level(r, side, l)>>
      /\ UNCHANGED <<market_book, runner_loc, runner_ids, active, listed, moved, seen,
                     pc, fave, first, second, level, backs, lays, entry_price,
                     open_orders, client, sent>>
  BY DEF ReadUpdate, ReaderOnly
<1>1. PICK e \in Entry : doc' = <<e>>
  BY <1>0 DEF Level, Entry
<1>2. doc' \in Seq(Entry) /\ Len(doc') = 1 /\ doc'[1] = e
  BY <1>1
<1>3. e.runner \in DOMAIN runner_loc
  <2>1. e.runner \in Runners
    BY DEF Entry
  <2>2. Len(listed) = 0 /\ market_book # <<>>
    BY <1>0, EmptySeq DEF Base, ImageInv
  <2> QED BY <2>1, <2>2 DEF Base, ImageInv
<1>4. TypeOK'
  <2>1. updates' \in 0 .. MaxUpdates
    BY <1>0 DEF Base, TypeOK
  <2> QED BY <1>0, <1>2, <2>1 DEF Base, TypeOK
<1>5. ImageInv'
  <2>1. \A i \in 1 .. Len(doc') : doc'[i].runner \in DOMAIN runner_loc'
    BY <1>0, <1>2, <1>3
  <2> QED BY <1>0, <2>1 DEF Base, ImageInv
<1>6. MapInv' /\ FaveInv'
  BY <1>0 DEF Base, MapInv, FaveInv
<1> QED BY <1>4, <1>5, <1>6 DEF Base

\* The levels of a runner in an image are levels of that runner.
LEMMA SidesOfRunner ==
  ASSUME NEW r \in Runners
  PROVE  LET d == Side(r, "back") \o Side(r, "lay")
         IN d \in Seq(Entry) /\ \A i \in 1 .. Len(d) : d[i].runner = r
<1> DEFINE a == Side(r, "back")
           b == Side(r, "lay")
           E == {e \in Entry : e.runner = r}
<1>1. \A n \in 1 .. Depth : n - 1 \in Levels
  BY DEF Levels
<1>2. a \in [1 .. Depth -> E] /\ b \in [1 .. Depth -> E]
  BY <1>1 DEF Side, Level, Entry
<1> HIDE DEF a, b, E
<1>3. a \in Seq(E) /\ b \in Seq(E)
  BY <1>2
<1>4. a \o b \in Seq(E)
  BY <1>3, ConcatProperties
<1>5. \A i \in 1 .. Len(a \o b) : (a \o b)[i] \in E
  BY <1>4, ElementOfSeq
<1>6. a \o b \in Seq(Entry)
  <2>1. E \subseteq Entry
    BY DEF E
  <2> QED BY <1>4, <2>1
<1> QED BY <1>5, <1>6 DEF a, b, E

LEMMA RunnerAdded ==
  ASSUME Base, add_runner
  PROVE  Base'
<1> DEFINE r == Head(listed)
           k == Len(market_book)
<1>0. /\ doc = <<>> /\ listed # <<>> /\ listed' = Tail(listed)
      /\ market_book' = Append(market_book, NewBook)
      /\ runner_loc' = [s \in DOMAIN runner_loc \cup {r} |->
                           IF s = r THEN Len(market_book') ELSE runner_loc[s]]
      /\ runner_ids' = Append(runner_ids, r)
      /\ doc' = Side(r, "back") \o Side(r, "lay")
      /\ UNCHANGED <<active, updates, moved, seen, pc, fave, first, second, level,
                     backs, lays, entry_price, open_orders, client, sent>>
  BY DEF add_runner, ReaderOnly, NewIdx
<1>1. /\ market_book \in Seq(Order_Book) /\ runner_ids \in Seq(Runners)
      /\ listed \in Seq(Runners) /\ k \in Nat /\ Len(runner_ids) = k
  BY Lengths DEF Base, TypeOK
<1>2. /\ Len(listed) \in Nat /\ Len(listed) > 0 /\ r = listed[1] /\ r \in Runners
      /\ listed' \in Seq(Runners) /\ Len(listed') = Len(listed) - 1
      /\ \A i \in 1 .. Len(listed') : listed'[i] = listed[i + 1]
  BY <1>0, <1>1, HeadTailProperties, EmptySeq
<1>3. /\ market_book' \in Seq(Order_Book) /\ Len(market_book') = k + 1
      /\ market_book' # <<>>
      /\ \A n \in 1 .. k : market_book'[n] = market_book[n]
  <2>1. PICK book \in Order_Book : market_book' = Append(market_book, book)
    BY <1>0, NewBookTyped
  <2>2. market_book' \in Seq(Order_Book) /\ market_book' # <<>>
    BY <1>1, <2>1, AppendProperties, SMTT(30)
  <2>3. Len(market_book') = k + 1
    BY <1>1, <2>1, AppendProperties
  <2>4. \A n \in 1 .. k : market_book'[n] = market_book[n]
    BY <1>1, <2>1, AppendProperties
  <2> QED BY <2>2, <2>3, <2>4
<1>4. /\ runner_ids' \in Seq(Runners) /\ Len(runner_ids') = k + 1
      /\ \A n \in 1 .. k : runner_ids'[n] = runner_ids[n]
      /\ runner_ids'[k + 1] = r
  BY <1>0, <1>1, <1>2, AppendProperties
<1> HIDE DEF r, k
<1>5. r \notin DOMAIN runner_loc
  BY <1>2 DEF Base, ImageInv
<1>6. /\ DOMAIN runner_loc' = DOMAIN runner_loc \cup {r}
      /\ runner_loc'[r] = k + 1
      /\ \A s \in DOMAIN runner_loc : runner_loc'[s] = runner_loc[s]
  BY <1>0, <1>3, <1>5
<1>7. MapInv'
  <2>1. ASSUME NEW n \in 1 .. k + 1
        PROVE  runner_ids'[n] \in DOMAIN runner_loc' /\ runner_loc'[runner_ids'[n]] = n
    <3>1. CASE n = k + 1
      BY <1>4, <1>6, <3>1
    <3>2. CASE n # k + 1
      <4>1. n \in 1 .. k
        BY <1>1, <3>2
      <4>2. runner_ids[n] \in DOMAIN runner_loc /\ runner_loc[runner_ids[n]] = n
        BY <1>1, <4>1 DEF Base, MapInv
      <4> QED BY <1>4, <1>6, <4>1, <4>2
    <3> QED BY <3>1, <3>2
  <2>2. ASSUME NEW s \in DOMAIN runner_loc'
        PROVE  runner_loc'[s] \in 1 .. k + 1 /\ runner_ids'[runner_loc'[s]] = s
    <3>1. CASE s = r
      BY <1>1, <1>4, <1>6, <3>1
    <3>2. CASE s # r
      <4>1. s \in DOMAIN runner_loc /\ runner_loc'[s] = runner_loc[s]
        BY <1>6, <3>2
      <4>2. runner_loc[s] \in 1 .. k /\ runner_ids[runner_loc[s]] = s
        BY <1>1, <4>1 DEF Base, MapInv
      <4> QED BY <1>1, <1>4, <4>1, <4>2
    <3> QED BY <3>1, <3>2
  <2> QED BY <1>4, <2>1, <2>2 DEF MapInv
<1>8. ImageInv'
  <2>1. ASSUME NEW i \in 1 .. Len(listed'), NEW j \in 1 .. Len(listed'), i # j
        PROVE  listed'[i] # listed'[j]
    <3>1. i + 1 \in 1 .. Len(listed) /\ j + 1 \in 1 .. Len(listed) /\ i + 1 # j + 1
      BY <1>2, <2>1
    <3>2. listed[i + 1] # listed[j + 1]
      BY <3>1 DEF Base, ImageInv
    <3> QED BY <1>2, <3>2
  <2>2. ASSUME NEW i \in 1 .. Len(listed')
        PROVE  listed'[i] \notin DOMAIN runner_loc'
    <3>1. i + 1 \in 1 .. Len(listed) /\ i + 1 # 1 /\ 1 \in 1 .. Len(listed)
      BY <1>2
    <3>2. listed[i + 1] \notin DOMAIN runner_loc /\ listed[i + 1] # listed[1]
      BY <3>1 DEF Base, ImageInv
    <3> QED BY <1>2, <1>6, <3>2
  <2>3. ASSUME NEW s \in Runners
        PROVE  s \in DOMAIN runner_loc' \/ \E i \in 1 .. Len(listed') : s = listed'[i]
    <3>1. CASE s \in DOMAIN runner_loc
      BY <1>6, <3>1
    <3>2. CASE s \notin DOMAIN runner_loc
      <4>1. PICK i \in 1 .. Len(listed) : s = listed[i]
        BY <1>0, <3>2 DEF Base, ImageInv
      <4>2. CASE i = 1
        BY <1>2, <1>6, <4>1, <4>2
      <4>3. CASE i # 1
        <5>1. i - 1 \in 1 .. Len(listed') /\ i - 1 + 1 = i
          BY <1>2, <4>3
        <5>2. listed'[i - 1] = listed[i]
          BY <1>2, <5>1
        <5> QED BY <4>1, <5>1, <5>2
      <4> QED BY <4>2, <4>3
    <3> QED BY <3>1, <3>2
  <2>4. Len(market_book') + Len(listed') <= Cardinality(Runners)
    <3>1. k + Len(listed) <= Cardinality(Runners) /\ Cardinality(Runners) \in Nat
      BY FS_CardinalityType DEF Base, ImageInv, k
    <3> QED BY <1>1, <1>2, <1>3, <3>1
  <2>5. \A i \in 1 .. Len(doc') : doc'[i].runner \in DOMAIN runner_loc'
    BY <1>0, <1>2, <1>6, SidesOfRunner
  <2>6. active = "new" /\ pc = "idle"
    BY <1>0 DEF Base, ImageInv
  <2> QED BY <1>0, <1>3, <2>1, <2>2, <2>3, <2>4, <2>5, <2>6 DEF ImageInv
<1>9. TypeOK'
  <2>1. Len(market_book') <= Cardinality(Runners) /\ Len(runner_ids') = Len(market_book')
    <3>1. k + Len(listed) <= Cardinality(Runners) /\ Cardinality(Runners) \in Nat
      BY FS_CardinalityType DEF Base, ImageInv, k
    <3> QED BY <1>1, <1>2, <1>3, <1>4, <3>1
  <2>2. DOMAIN runner_loc' \subseteq Runners
    BY <1>2, <1>6 DEF Base, TypeOK
  <2>3. DOMAIN market_book' = 1 .. k + 1 /\ DOMAIN market_book = 1 .. k
    BY <1>1, <1>3, LenProperties DEF k
  <2>4. \A s \in DOMAIN runner_loc' : runner_loc'[s] \in DOMAIN market_book'
    BY <1>4, <1>7, <2>3 DEF MapInv
  <2>5. fave' \in DOMAIN market_book' \cup {NoRunner}
    BY <1>0, <1>1, <2>3 DEF Base, TypeOK
  <2>6. doc' \in Seq(Entry)
    BY <1>0, <1>2, SidesOfRunner
  <2> QED BY <1>0, <1>2, <1>3, <1>4, <2>1, <2>2, <2>4, <2>5, <2>6 DEF Base, TypeOK
<1>10. FaveInv'
  <2>1. pc = "idle"
    BY <1>0 DEF Base, ImageInv
  <2> QED BY <1>0, <2>1 DEF Base, FaveInv
<1> QED BY <1>7, <1>8, <1>9, <1>10 DEF Base

\* What a store does: the level at the head of the document gets a bid.
LEMMA StoreIs ==
  ASSUME Base, Store
  PROVE  \E at \in Entry, bid \in Bids :
            /\ at = doc[1] /\ at.runner \in DOMAIN runner_loc
            /\ runner_loc[at.runner] \in 1 .. Len(market_book)
            /\ doc # <<>> /\ doc' = Tail(doc)
            /\ market_book' =
                  Stored(market_book, runner_loc[at.runner], at.side, at.level, bid)
            /\ moved' = (moved \/ (pc = "sort" /\ at.side = "lay" /\ at.level = 0))
            /\ seen' = IF /\ pc \in Deciding /\ at.side = "back" /\ at.level = 0
                          /\ at.runner = RunnerId
                       THEN seen \cup {bid.price} ELSE seen
            /\ UNCHANGED <<runner_loc, runner_ids, active, listed, updates, pc, fave,
                           first, second, level, backs, lays, entry_price,
                           open_orders, client, sent>>
<1>1. doc # <<>> /\ doc' = Tail(doc)
  BY DEF Store
<1> DEFINE at == Head(doc)
<1>2. at = doc[1] /\ at \in Entry
  BY <1>1, HeadTailProperties DEF Base, TypeOK
<1>3. 1 \in 1 .. Len(doc)
  BY <1>1, EmptySeq DEF Base, TypeOK
<1>4. at.runner \in DOMAIN runner_loc
  BY <1>2, <1>3 DEF Base, ImageInv
<1>5. runner_loc[at.runner] \in 1 .. Len(market_book)
  BY <1>4, Lengths DEF Base, MapInv
<1>6. Offered(at.side, at.level) \subseteq Bids
  BY <1>2, BidFacts DEF Entry
<1>7. UNCHANGED <<runner_loc, runner_ids, active, listed, updates, pc, fave, first,
                  second, level, backs, lays, entry_price, open_orders, client, sent>>
  BY DEF Store, ReaderOnly
<1>8. PICK bid \in Offered(at.side, at.level) :
         /\ market_book' =
               Stored(market_book, runner_loc[at.runner], at.side, at.level, bid)
         /\ moved' = (moved \/ (pc = "sort" /\ at.side = "lay" /\ at.level = 0))
         /\ seen' = IF /\ pc \in Deciding /\ at.side = "back" /\ at.level = 0
                       /\ at.runner = RunnerId
                    THEN seen \cup {bid.price} ELSE seen
  BY DEF Store, Stored
<1> HIDE DEF at
<1>9. bid \in Bids
  BY <1>6, <1>8
<1> QED BY <1>1, <1>2, <1>4, <1>5, <1>7, <1>8, <1>9

LEMMA LevelStored ==
  ASSUME Base, Store
  PROVE  Base'
<1>1. PICK at \in Entry, bid \in Bids :
            /\ at = doc[1] /\ at.runner \in DOMAIN runner_loc
            /\ runner_loc[at.runner] \in 1 .. Len(market_book)
            /\ doc # <<>> /\ doc' = Tail(doc)
            /\ market_book' =
                  Stored(market_book, runner_loc[at.runner], at.side, at.level, bid)
            /\ moved' = (moved \/ (pc = "sort" /\ at.side = "lay" /\ at.level = 0))
            /\ seen' = IF /\ pc \in Deciding /\ at.side = "back" /\ at.level = 0
                          /\ at.runner = RunnerId
                       THEN seen \cup {bid.price} ELSE seen
            /\ UNCHANGED <<runner_loc, runner_ids, active, listed, updates, pc, fave,
                           first, second, level, backs, lays, entry_price,
                           open_orders, client, sent>>
  BY StoreIs
<1>2. /\ doc' \in Seq(Entry) /\ Len(doc') = Len(doc) - 1 /\ Len(doc) \in Nat
      /\ \A i \in 1 .. Len(doc') : doc'[i] = doc[i + 1]
  <2>1. doc \in Seq(Entry)
    BY DEF Base, TypeOK
  <2> QED BY <1>1, <2>1, HeadTailProperties, LenProperties
<1>3. market_book' \in Seq(Order_Book) /\ Len(market_book') = Len(market_book)
  <2>1. at.side \in {"back", "lay"} /\ at.level \in Levels
    BY DEF Entry
  <2>2. market_book \in Seq(Order_Book)
    BY DEF Base, TypeOK
  <2> QED BY <1>1, <2>1, <2>2, StoreChanges
<1>4. DOMAIN market_book' = DOMAIN market_book /\ (market_book' = <<>> <=> market_book = <<>>)
  BY <1>1, <1>3, LenProperties, EmptySeq DEF Base, TypeOK
<1>5. TypeOK'
  <2>1. seen' \subseteq Prices /\ moved' \in BOOLEAN
    BY <1>1, BidFacts DEF Base, TypeOK
  <2>2. \A r \in DOMAIN runner_loc' : runner_loc'[r] \in DOMAIN market_book'
    BY <1>1, <1>4 DEF Base, TypeOK
  <2>3. fave' \in DOMAIN market_book' \cup {NoRunner}
    BY <1>1, <1>4 DEF Base, TypeOK
  <2> QED BY <1>1, <1>2, <1>3, <2>1, <2>2, <2>3 DEF Base, TypeOK
<1>6. ImageInv'
  <2>1. ASSUME NEW i \in 1 .. Len(doc')
        PROVE  doc'[i].runner \in DOMAIN runner_loc'
    <3>1. i + 1 \in 1 .. Len(doc) /\ doc'[i] = doc[i + 1]
      BY <1>2
    <3>2. doc[i + 1].runner \in DOMAIN runner_loc
      BY <3>1 DEF Base, ImageInv
    <3> QED BY <1>1, <3>1, <3>2
  <2>2. market_book # <<>> /\ market_book' # <<>>
    BY <1>1, <1>4 DEF Base, ImageInv
  <2> QED BY <1>1, <1>3, <2>1, <2>2 DEF Base, ImageInv
<1>7. MapInv' /\ FaveInv'
  BY <1>1, <1>4 DEF Base, MapInv, FaveInv
<1> QED BY <1>5, <1>6, <1>7 DEF Base

\* The market is made active, and inactive.
LEMMA ActivityKept ==
  ASSUME Base, activate_market \/ deactivate_market
  PROVE  Base'
<1>1. /\ active' \in {"yes", "no"}
      /\ UNCHANGED <<market_book, runner_loc, runner_ids, listed, doc, updates, moved, seen,
                     pc, fave, first, second, level, backs, lays, entry_price,
                     open_orders, client, sent>>
  BY DEF activate_market, deactivate_market, ReaderOnly
<1>2. TypeOK'
  BY <1>1 DEF Base, TypeOK
<1>3. market_book # <<>> /\ listed = <<>>
  BY DEF activate_market, deactivate_market, Base, ImageInv
<1>4. ImageInv'
  BY <1>1, <1>3 DEF Base, ImageInv
<1>5. MapInv' /\ FaveInv'
  BY <1>1 DEF Base, MapInv, FaveInv
<1> QED BY <1>2, <1>4, <1>5 DEF Base

-----------------------------------------------------------------------------
\* The strategy.

\* The strategy's part of the types.
Locals ==
    /\ pc \in {"idle", "sort", "warm", "test", "first", "second", "back", "lay",
               "decide", "close", "done", "crashed"}
    /\ fave \in DOMAIN market_book \cup {NoRunner} /\ moved \in BOOLEAN
    /\ first \in Bids /\ second \in Bids
    /\ level \in 0 .. Depth /\ backs \in Nat /\ lays \in Nat
    /\ entry_price \in Prices
    /\ open_orders \in Seq(Prices) /\ Len(open_orders) <= 1
    /\ client \in {"up", "down", "null"}
    /\ sent \in Seq(Order)
    /\ seen \subseteq Prices

LEMMA LocalsTyped == TypeOK => Locals
BY DEF TypeOK, Locals

\* A step of the strategy leaves books, maps and documents alone.
LEMMA StrategyFrame ==
  ASSUME Base, active # "new", UNCHANGED <<handler, active, reader>>, Locals', FaveInv'
  PROVE  Base'
<1>1. TypeOK'
  <2>1. {first', second'} \subseteq Bids /\ {backs', lays'} \subseteq Nat
    BY DEF Locals
  <2> QED BY <2>1 DEF Base, TypeOK, Locals
<1>2. MapInv' /\ ImageInv'
  BY DEF Base, MapInv, ImageInv
<1> QED BY <1>1, <1>2 DEF Base

\* What the strategy loads is a bid, at a price the exchange offers.
LEMMA LoadsBid ==
  ASSUME TypeOK, fave \in DOMAIN market_book,
         NEW side \in {"back", "lay"}, NEW l \in Levels
  PROVE  market_book[fave][side][l] \in Bids
<1>1. market_book[fave] \in Order_Book
  BY Lengths
<1> QED BY <1>1 DEF Order_Book

\* A request is appended, or the connection is down from then on.
LEMMA Sends ==
  ASSUME TypeOK, NEW o \in Order, Send(<<o>>)
  PROVE  \/ /\ client = "up" /\ client' = "up" /\ sent' \in Seq(Order)
            /\ sent' = Append(sent, o) /\ Len(sent') = Len(sent) + 1
            /\ sent'[Len(sent) + 1] = o /\ \A n \in 1 .. Len(sent) : sent'[n] = sent[n]
         \/ client' = "down" /\ client # "null" /\ sent' = sent
<1>1. sent \in Seq(Order) /\ <<o>> \in Seq(Order)
  BY DEF TypeOK
<1>2. sent \o <<o>> = Append(sent, o)
  BY <1>1, AppendIsConcat
<1>3. /\ Append(sent, o) \in Seq(Order) /\ Len(Append(sent, o)) = Len(sent) + 1
      /\ Append(sent, o)[Len(sent) + 1] = o
      /\ \A n \in 1 .. Len(sent) : Append(sent, o)[n] = sent[n]
  BY <1>1, AppendProperties
<1>4. CASE client = "up" /\ sent' = sent \o <<o>> /\ UNCHANGED client
  BY <1>2, <1>3, <1>4
<1>5. CASE client \in {"up", "down"} /\ client' = AfterFailure /\ UNCHANGED sent
  BY <1>5 DEF AfterFailure
<1> QED BY <1>4, <1>5 DEF Send

LEMMA SendsNothing ==
  ASSUME TypeOK, Send(<<>>)
  PROVE  sent' = sent /\ client # "null" /\ (client' = client \/ client' = "down")
<1>1. sent \in Seq(Order)
  BY DEF TypeOK
<1> QED BY <1>1, ConcatEmptySeq DEF Send, AfterFailure

\* The orders are orders.
LEMMA OrderTyped ==
  ASSUME Base, fave \in DOMAIN market_book
  PROVE  /\ RunnerId \in Runners /\ RunnerId \in DOMAIN runner_loc
         /\ runner_loc[RunnerId] = fave
         /\ \A p \in Prices : [side |-> "LAY", id |-> RunnerId, price |-> p] \in Order
         /\ \A price, p : p \in closing_price(price) =>
               [side |-> "BACK", id |-> RunnerId, price |-> p] \in Order
<1>1. fave \in 1 .. Len(runner_ids)
  BY Lengths DEF Base
<1>2. RunnerId \in Runners
  BY <1>1, Lengths DEF Base, RunnerId
<1>3. RunnerId \in DOMAIN runner_loc /\ runner_loc[RunnerId] = fave
  BY <1>1 DEF Base, MapInv, RunnerId
<1>4. ASSUME NEW price, NEW p \in closing_price(price)
      PROVE  p \in Prices \cup {Ladder[s] : s \in Slots}
  BY <1>4 DEF closing_price
<1> QED BY <1>2, <1>3, <1>4 DEF Order

LEMMA StrategyBase ==
  ASSUME Base, StrategyStep
  PROVE  Base'
<1>1. Locals /\ Levels \subseteq Nat /\ 0 \in Levels
  BY LocalsTyped, BidFacts DEF Base
<1>2. UNCHANGED <<handler, active, reader>> /\ DOMAIN market_book' = DOMAIN market_book
  BY DEF StrategyStep, At, Connect, Sorted, SortAstray, WarmUp, WarmUpNull, Turn, Finish,
         LoadFirst, LoadSecond, WeighBack, WeighLay, Open, Pass, Close, EndTurn
<1>3. active # "new"
  <2>1. Connect \/ pc # "idle"
    BY DEF StrategyStep, At, Sorted, SortAstray, WarmUp, WarmUpNull, Turn, Finish,
           LoadFirst, LoadSecond, WeighBack, WeighLay, Open, Pass, Close, EndTurn
  <2> QED BY <2>1 DEF Connect, Base, ImageInv
<1>4. /\ pc \notin {"idle", "sort", "crashed"} => fave \in DOMAIN market_book
      /\ pc \in {"back", "lay"} => level < Depth
      /\ open_orders # <<>> => pc = "close"
  BY DEF Base, FaveInv
<1> SUFFICES Locals' /\ FaveInv'
  BY <1>2, <1>3, StrategyFrame
<1> USE <1>1, <1>2, <1>4
<1>5. CASE Connect
  BY <1>5 DEF Connect, At, Locals, FaveInv
<1>6. CASE Sorted
  <2>1. fave' \in DOMAIN market_book
    BY <1>6 DEF Sorted
  <2> QED BY <1>6, <2>1 DEF Sorted, At, Locals, FaveInv
<1>7. CASE SortAstray
  BY <1>7 DEF SortAstray, At, Locals, FaveInv
<1>8. CASE WarmUp
  <2>1. sent' = sent /\ client' \in {"up", "down", "null"}
    BY <1>8, SendsNothing DEF WarmUp, Base, Locals
  <2> QED BY <1>8, <2>1 DEF WarmUp, At, Locals, FaveInv
<1>9. CASE WarmUpNull \/ Finish \/ Pass
  BY <1>9 DEF WarmUpNull, Finish, Pass, At, Locals, FaveInv
<1>10. CASE Turn
  <2>1. fave \in DOMAIN market_book
    BY <1>10 DEF Turn, At
  <2>2. runner_loc[RunnerId] = fave
    BY <2>1, OrderTyped
  <2>3. market_book[fave]["back"][0].price \in Prices
    BY <2>1, LoadsBid, BidFacts DEF Base
  <2>4. seen' \subseteq Prices
    BY <1>10, <2>2, <2>3 DEF Turn
  <2> QED BY <1>10, <2>4 DEF Turn, At, Locals, FaveInv
<1>11. CASE LoadFirst
  <2>1. fave \in DOMAIN market_book
    BY <1>11 DEF LoadFirst, At
  <2>2. market_book[fave]["back"][0] \in Bids
    BY <2>1, LoadsBid DEF Base
  <2>3. first' \in Bids
    BY <1>11, <2>2 DEF LoadFirst, Best
  <2> QED BY <1>11, <2>3 DEF LoadFirst, At, Locals, FaveInv
<1>12. CASE LoadSecond
  <2>1. fave \in DOMAIN market_book
    BY <1>12 DEF LoadSecond, At
  <2>2. market_book[fave]["back"][0] \in Bids
    BY <2>1, LoadsBid DEF Base
  <2>3. second' \in Bids
    BY <1>12, <2>2 DEF LoadSecond, Best
  <2> QED BY <1>12, <2>3 DEF LoadSecond, At, Locals, FaveInv
<1>13. CASE WeighBack
  <2>1. fave \in DOMAIN market_book /\ level \in Levels
    BY <1>13 DEF WeighBack, At, Levels, Locals
  <2>2. market_book[fave]["back"][level] \in Bids
    BY <2>1, LoadsBid DEF Base
  <2>3. backs' \in Nat
    <3>1. market_book[fave]["back"][level].size \in Nat /\ backs \in Nat
      BY <2>2, BidFacts DEF Locals
    <3>2. backs' = backs + market_book[fave]["back"][level].size
      BY <1>13 DEF WeighBack
    <3> QED BY <3>1, <3>2
  <2> QED BY <1>13, <2>3 DEF WeighBack, At, Locals, FaveInv
<1>14. CASE WeighLay
  <2>1. fave \in DOMAIN market_book /\ level \in Levels
    BY <1>14 DEF WeighLay, At, Levels, Locals
  <2>2. market_book[fave]["lay"][level] \in Bids
    BY <2>1, LoadsBid DEF Base
  <2>3. lays' \in Nat
    <3>1. market_book[fave]["lay"][level].size \in Nat /\ lays \in Nat
      BY <2>2, BidFacts DEF Locals
    <3>2. lays' = lays + market_book[fave]["lay"][level].size
      BY <1>14 DEF WeighLay
    <3> QED BY <3>1, <3>2
  <2>4. level' \in 0 .. Depth /\ (pc' = "back" => level' < Depth)
        /\ pc' \in {"back", "decide"}
    BY <1>14, <2>1 DEF WeighLay, At, Levels
  <2> QED BY <1>14, <2>1, <2>3, <2>4 DEF WeighLay, At, Locals, FaveInv
<1>15. CASE Open
  <2>1. fave \in DOMAIN market_book /\ second.price \in Prices /\ open_orders = <<>>
    BY <1>15, BidFacts DEF Open, At, Locals
  <2>2. sent' \in Seq(Order) /\ client' \in {"up", "down", "null"}
    <3>1. [side |-> "LAY", id |-> RunnerId, price |-> second.price] \in Order
      BY <2>1, OrderTyped
    <3> QED BY <1>15, <3>1, Sends DEF Open, Base, Locals
  <2>3. open_orders' \in Seq(Prices) /\ Len(open_orders') <= 1
    <3>1. open_orders' = Append(open_orders, second.price)
      BY <1>15 DEF Open
    <3>2. open_orders \in Seq(Prices) /\ Len(open_orders) = 0
      BY <2>1, EmptySeq
    <3> QED BY <2>1, <3>1, <3>2, AppendProperties
  <2>4. entry_price' \in Prices
    BY <1>15, <2>1 DEF Open, NewEntry
  <2> QED BY <1>15, <2>1, <2>2, <2>3, <2>4 DEF Open, At, Locals, FaveInv
<1>16. CASE Close
  <2>1. fave \in DOMAIN market_book /\ open_orders # <<>>
    BY <1>16 DEF Close, At
  <2>2. sent' \in Seq(Order) /\ client' \in {"up", "down", "null"}
    <3>1. PICK p \in closing_price(Head(open_orders)) :
             Send(<<[side |-> "BACK", id |-> RunnerId, price |-> p]>>)
      BY <1>16 DEF Close
    <3>2. [side |-> "BACK", id |-> RunnerId, price |-> p] \in Order
      BY <2>1, <3>1, OrderTyped
    <3> QED BY <3>1, <3>2, Sends DEF Base, Locals
  <2>3. open_orders' \in Seq(Prices) /\ Len(open_orders') <= 1
    <3>1. open_orders \in Seq(Prices) /\ Len(open_orders) <= 1
      BY DEF Locals
    <3>2. open_orders' = Tail(open_orders)
      BY <1>16 DEF Close
    <3> QED BY <2>1, <3>1, <3>2, HeadTailProperties, LenProperties
  <2> QED BY <1>16, <2>1, <2>2, <2>3 DEF Close, At, Locals, FaveInv
<1>17. CASE EndTurn
  BY <1>17, BidFacts DEF EndTurn, At, Locals, FaveInv
<1> QED BY <1>5, <1>6, <1>7, <1>8, <1>9, <1>10, <1>11, <1>12, <1>13, <1>14, <1>15, <1>16,
           <1>17 DEF StrategyStep

LEMMA BaseKept == Base /\ [Next]_vars => Base'
<1> SUFFICES ASSUME Base, [Next]_vars PROVE Base'
  OBVIOUS
<1>1. CASE UNCHANGED vars
  <2>1. TypeOK' /\ FaveInv'
    BY <1>1 DEF Base, TypeOK, FaveInv, vars
  <2>2. MapInv' /\ ImageInv'
    BY <1>1 DEF Base, MapInv, ImageInv, vars
  <2> QED BY <2>1, <2>2 DEF Base
<1> QED BY <1>1, ImageRead, UpdateRead, RunnerAdded, LevelStored, ActivityKept, StrategyBase
        DEF Next, ReaderStep

\* Every variable keeps its type, for any runners, any depth and any offers.
THEOREM TradingTypeCorrect == Spec => []TypeOK
<1>1. Base => TypeOK
  BY DEF Base
<1> QED BY <1>1, InitBase, BaseKept, PTL DEF Spec

-----------------------------------------------------------------------------
\* What the strategy has loaded is what the exchange showed.

TurnInv ==
    /\ pc \in Deciding => market_book[fave]["back"][0].price \in seen
    /\ pc \in Deciding \ {"first"} => first.price \in seen
    /\ pc \in {"back", "lay", "decide"} => second.price \in seen
    /\ IsFiniteSet(seen)

LEMMA InitTurn == Init => TurnInv
BY FS_EmptySet DEF Init, TurnInv, Deciding

\* A store to the best back of the favourite is seen: by the maps, no other runner
\* is at the favourite's position.
LEMMA StoreSeen ==
  ASSUME Base, TurnInv, Store
  PROVE  TurnInv'
<1>1. PICK at \in Entry, bid \in Bids :
            /\ at = doc[1] /\ at.runner \in DOMAIN runner_loc
            /\ runner_loc[at.runner] \in 1 .. Len(market_book)
            /\ doc # <<>> /\ doc' = Tail(doc)
            /\ market_book' =
                  Stored(market_book, runner_loc[at.runner], at.side, at.level, bid)
            /\ moved' = (moved \/ (pc = "sort" /\ at.side = "lay" /\ at.level = 0))
            /\ seen' = IF /\ pc \in Deciding /\ at.side = "back" /\ at.level = 0
                          /\ at.runner = RunnerId
                       THEN seen \cup {bid.price} ELSE seen
            /\ UNCHANGED <<runner_loc, runner_ids, active, listed, updates, pc, fave,
                           first, second, level, backs, lays, entry_price,
                           open_orders, client, sent>>
  BY StoreIs
<1>2. seen \subseteq seen' /\ IsFiniteSet(seen')
  BY <1>1, FS_AddElement DEF TurnInv
<1>3. ASSUME pc \in Deciding
      PROVE  market_book'[fave]["back"][0].price \in seen'
  <2>1. fave \in 1 .. Len(market_book)
    BY <1>3, Lengths DEF Deciding, Base, FaveInv
  <2>2. at.side \in {"back", "lay"} /\ at.level \in Levels
    BY DEF Entry
  <2>3. market_book \in Seq(Order_Book)
    BY DEF Base, TypeOK
  <2>4. \/ market_book'[fave]["back"][0] = market_book[fave]["back"][0]
        \/ /\ fave = runner_loc[at.runner] /\ at.side = "back" /\ at.level = 0
           /\ market_book'[fave]["back"][0] = bid
    BY <1>1, <2>1, <2>2, <2>3, StoreChanges
  <2>5. CASE market_book'[fave]["back"][0] = market_book[fave]["back"][0]
    BY <1>2, <1>3, <2>5 DEF TurnInv
  <2>6. CASE /\ fave = runner_loc[at.runner] /\ at.side = "back" /\ at.level = 0
             /\ market_book'[fave]["back"][0] = bid
    <3>1. runner_ids[runner_loc[at.runner]] = at.runner
      BY <1>1 DEF Base, MapInv
    <3>2. at.runner = RunnerId
      BY <2>6, <3>1 DEF RunnerId
    <3>3. bid.price \in seen'
      BY <1>1, <1>3, <2>6, <3>2
    <3> QED BY <2>6, <3>3
  <2> QED BY <2>4, <2>5, <2>6
<1>4. pc \in Deciding \ {"first"} => first.price \in seen'
  BY <1>2 DEF TurnInv
<1>5. pc \in {"back", "lay", "decide"} => second.price \in seen'
  BY <1>2 DEF TurnInv
<1> QED BY <1>1, <1>2, <1>3, <1>4, <1>5 DEF TurnInv

LEMMA TurnKept ==
  ASSUME Base, TurnInv, [Next]_vars
  PROVE  TurnInv'
<1> USE DEF Deciding
<1>1. CASE ReadImage \/ ReadUpdate \/ activate_market \/ deactivate_market \/ UNCHANGED vars
  <2>1. UNCHANGED <<market_book, pc, fave, first, second, seen>>
    BY <1>1 DEF ReadImage, ReadUpdate, activate_market, deactivate_market, ReaderOnly, vars
  <2> QED BY <2>1 DEF TurnInv
<1>2. CASE add_runner
  <2>1. UNCHANGED <<pc, seen>> /\ listed # <<>>
    BY <1>2 DEF add_runner, ReaderOnly
  <2>2. pc = "idle"
    BY <2>1 DEF Base, ImageInv
  <2> QED BY <2>1, <2>2 DEF TurnInv
<1>3. CASE Store
  BY <1>3, StoreSeen
<1>4. CASE Turn
  <2>1. /\ fave \in DOMAIN market_book /\ pc' = "first" /\ UNCHANGED <<market_book, fave>>
        /\ seen' = {market_book[runner_loc[RunnerId]].back[0].price}
    BY <1>4 DEF Turn, At, Base, FaveInv
  <2>2. runner_loc[RunnerId] = fave
    BY <2>1, OrderTyped
  <2>3. IsFiniteSet(seen')
    BY <2>1, FS_Singleton
  <2> QED BY <2>1, <2>2, <2>3 DEF TurnInv
<1>5. CASE LoadFirst
  BY <1>5 DEF LoadFirst, At, Best, TurnInv
<1>6. CASE LoadSecond
  BY <1>6 DEF LoadSecond, At, Best, TurnInv
<1>7. CASE WeighBack \/ WeighLay
  BY <1>7 DEF WeighBack, WeighLay, At, TurnInv
<1>8. CASE EndTurn
  BY <1>8, FS_EmptySet DEF EndTurn, At, TurnInv
<1>9. CASE \/ Connect \/ Sorted \/ SortAstray \/ WarmUp \/ WarmUpNull \/ Finish
           \/ Open \/ Pass \/ Close
  <2>1. seen' = seen /\ pc' \notin Deciding
    BY <1>9 DEF Connect, Sorted, SortAstray, WarmUp, WarmUpNull, Finish, Open, Pass, Close, At
  <2> QED BY <2>1 DEF TurnInv
<1> QED BY <1>1, <1>2, <1>3, <1>4, <1>5, <1>6, <1>7, <1>8, <1>9
        DEF Next, ReaderStep, StrategyStep

\* An order goes out at the price of the second load, which is among those seen.
LEMMA OpenedIs ==
  ASSUME Base, TurnInv, [Next]_vars, Opened
  PROVE  /\ Open /\ client = "up"
         /\ Last(sent').price = second.price /\ second.price \in seen
<1>1. sent' # sent
  BY DEF Opened
<1>2. ~ UNCHANGED vars
  BY <1>1 DEF vars
<1>3. ~ (ReaderStep \/ deactivate_market)
  BY <1>1 DEF ReaderStep, ReadImage, ReadUpdate, add_runner, Store, activate_market,
              deactivate_market, ReaderOnly
<1>4. ~ WarmUp
  BY <1>1, SendsNothing DEF WarmUp, Base
<1>5. ~ (\/ Connect \/ Sorted \/ SortAstray \/ WarmUpNull \/ Turn \/ Finish \/ LoadFirst
         \/ LoadSecond \/ WeighBack \/ WeighLay \/ Pass \/ EndTurn)
  BY <1>1 DEF Connect, Sorted, SortAstray, WarmUpNull, Turn, Finish, LoadFirst, LoadSecond,
              WeighBack, WeighLay, Pass, EndTurn
<1>6. ~ Close
  <2> SUFFICES ASSUME Close PROVE FALSE
    OBVIOUS
  <2>1. fave \in DOMAIN market_book
    BY DEF Close, At, Base, FaveInv
  <2>2. PICK p \in closing_price(Head(open_orders)) :
           Send(<<[side |-> "BACK", id |-> RunnerId, price |-> p]>>)
    BY DEF Close
  <2> DEFINE o == [side |-> "BACK", id |-> RunnerId, price |-> p]
  <2>3. o \in Order /\ o.side = "BACK"
    BY <2>1, <2>2, OrderTyped
  <2> HIDE DEF o
  <2>4. Len(sent') = Len(sent) + 1 /\ sent'[Len(sent) + 1] = o
    BY <1>1, <2>2, <2>3, Sends DEF Base, o
  <2> QED BY <2>3, <2>4 DEF Opened, Last
<1>7. Open
  BY <1>2, <1>3, <1>4, <1>5, <1>6 DEF Next, StrategyStep
<1>8. fave \in DOMAIN market_book /\ second.price \in Prices /\ second.price \in seen
  <2>1. pc = "decide" /\ second \in Bids
    BY <1>7, LocalsTyped DEF Open, At, Base, Locals
  <2> QED BY <2>1, BidFacts DEF Base, FaveInv, TurnInv
<1> DEFINE o == [side |-> "LAY", id |-> RunnerId, price |-> second.price]
<1>9. o \in Order /\ o.price = second.price /\ Send(<<o>>)
  BY <1>7, <1>8, OrderTyped DEF Open
<1> HIDE DEF o
<1>10. client = "up" /\ Len(sent') = Len(sent) + 1 /\ sent'[Len(sent) + 1] = o
  BY <1>1, <1>9, Sends DEF Base
<1> QED BY <1>7, <1>8, <1>9, <1>10 DEF Last

\* However the image lists the runners and the sort places them, and whatever is
\* stored between two loads, an order is at a price the exchange showed, in the
\* same turn, as best back of the runner it names.
THEOREM OrdersOffered == Spec => OrderWasOffered
<1>1. Base /\ TurnInv /\ [Next]_vars => [Opened => Last(sent').price \in seen]_vars
  BY OpenedIs
<1>2. Base /\ TurnInv /\ [Next]_vars => (Base /\ TurnInv)'
  BY BaseKept, TurnKept
<1> QED BY <1>1, <1>2, InitBase, InitTurn, PTL DEF Spec, OrderWasOffered

-----------------------------------------------------------------------------
\* What reaches the exchange.

TradeInv ==
    /\ pc = "idle" => client = "null"
    /\ client = "null" => sent = <<>>
    /\ client = "up" /\ open_orders = <<>> =>
          /\ Len(sent) % 2 = 0
          /\ Len(sent) > 1 => sent[Len(sent) - 1].price = entry_price
    /\ client = "up" /\ open_orders # <<>> =>
          /\ Len(sent) % 2 = 1 /\ sent[Len(sent)].id = RunnerId
          /\ sent[Len(sent)].price = Head(open_orders)
          /\ Head(open_orders) = entry_price
    /\ OpenedAndClosed

LEMMA InitTrade == Init => TradeInv
<1> SUFFICES ASSUME Init PROVE TradeInv
  OBVIOUS
<1>1. sent = <<>> /\ client = "null" /\ Len(sent) = 0 /\ DOMAIN sent = {}
  BY EmptySeq DEF Init
<1> QED BY <1>1 DEF TradeInv, OpenedAndClosed

\* What is closed at a price on the ladder but the last five is closed five up.
LEMMA FiveUp ==
  ASSUME NEW q \in Closable, NEW p \in closing_price(q)
  PROVE  <<q, p>> \in FiveTicksUp
<1>1. PICK s \in 0 .. LastSlot - 5 : q = Ladder[s]
  BY DEF Closable
<1>2. s \in Slots /\ s < LastSlot /\ s + 5 \in Slots
  BY <1>1, Limits DEF Slots
<1>3. GetIndex(q) = s
  BY <1>1, <1>2, IndexOfLadder
<1>4. p = Ladder[s + 5]
  BY <1>2, <1>3 DEF closing_price
<1> QED BY <1>1, <1>4 DEF FiveTicksUp

\* The steps that neither send nor touch what is sent.
LEMMA TradeStays ==
  ASSUME Base, TradeInv, UNCHANGED <<entry_price, open_orders, sent>>,
         client' = client \/ (client # "null" /\ client' = "down"),
         client = "up" /\ open_orders # <<>> => RunnerId' = RunnerId,
         pc' = "idle" => pc = "idle" /\ client' = client
  PROVE  TradeInv'
<1>1. (Len(sent) % 2 = 1 => client = "down" \/ open_orders # <<>>)'
  <2>1. Len(sent) % 2 = 1 => client = "down" \/ open_orders # <<>>
    BY DEF TradeInv, OpenedAndClosed
  <2> QED BY <2>1
<1>2. OpenedAndClosed'
  BY <1>1 DEF TradeInv, OpenedAndClosed
<1> QED BY <1>2 DEF TradeInv

LEMMA OpenTrades ==
  ASSUME Base, TradeInv, Open
  PROVE  TradeInv'
<1>0. /\ pc = "decide" /\ pc' = "close" /\ fave' = fave /\ runner_ids' = runner_ids
      /\ Send(<<[side |-> "LAY", id |-> RunnerId, price |-> second.price]>>)
      /\ open_orders' = Append(open_orders, second.price) /\ entry_price' = second.price
  BY DEF Open, At, NewEntry
<1>1. open_orders = <<>> /\ fave \in DOMAIN market_book /\ second.price \in Prices
  <2>1. second \in Bids
    BY LocalsTyped DEF Base, Locals
  <2> QED BY <1>0, <2>1, BidFacts DEF Base, FaveInv
<1>2. /\ Len(open_orders') = 1 /\ open_orders' # <<>>
      /\ Head(open_orders') = second.price
  BY <1>0, <1>1
<1> DEFINE o == [side |-> "LAY", id |-> RunnerId, price |-> second.price]
<1>3. o \in Order /\ o.side = "LAY" /\ o.id = RunnerId /\ o.price = second.price
  BY <1>1, OrderTyped
<1>4. RunnerId' = RunnerId
  BY <1>0 DEF RunnerId
<1>5. Len(sent) \in Nat /\ DOMAIN sent = 1 .. Len(sent)
  BY LenProperties DEF Base, TypeOK
<1> HIDE DEF o
<1>6. CASE /\ client = "up" /\ client' = "up" /\ sent' \in Seq(Order)
           /\ sent' = Append(sent, o) /\ Len(sent') = Len(sent) + 1
           /\ sent'[Len(sent) + 1] = o /\ \A n \in 1 .. Len(sent) : sent'[n] = sent[n]
  <2>1. Len(sent) % 2 = 0 /\ (Len(sent) + 1) % 2 = 1
    <3>1. Len(sent) % 2 = 0
      BY <1>1, <1>6 DEF TradeInv
    <3> QED BY <1>5, <3>1
  <2>2. DOMAIN sent' = 1 .. Len(sent) + 1
    BY <1>6, LenProperties
  <2>3. ASSUME NEW n \in 1 .. Len(sent) + 1
        PROVE  IF n % 2 = 1 THEN sent'[n].side = "LAY" ELSE Closes(sent'[n], sent'[n - 1])
    <3>1. CASE n = Len(sent) + 1
      BY <1>3, <1>6, <2>1, <3>1
    <3>2. CASE n \in 1 .. Len(sent)
      <4>1. IF n % 2 = 1 THEN sent[n].side = "LAY" ELSE Closes(sent[n], sent[n - 1])
        BY <1>5, <3>2 DEF TradeInv, OpenedAndClosed
      <4>2. n % 2 # 1 => n - 1 \in 1 .. Len(sent)
        BY <1>5, <3>2
      <4> QED BY <1>6, <3>2, <4>1, <4>2
    <3> QED BY <1>5, <3>1, <3>2
  <2>4. OpenedAndClosed'
    BY <1>2, <2>2, <2>3 DEF OpenedAndClosed
  <2> QED BY <1>0, <1>2, <1>3, <1>4, <1>6, <2>1, <2>4 DEF TradeInv
<1>7. CASE client' = "down" /\ client # "null" /\ sent' = sent
  BY <1>0, <1>7 DEF TradeInv, OpenedAndClosed
<1> QED BY <1>0, <1>3, <1>6, <1>7, Sends DEF Base, o

LEMMA CloseTrades ==
  ASSUME Base, TradeInv, Close
  PROVE  TradeInv'
<1>0. /\ pc = "close" /\ pc' = "close" /\ fave' = fave /\ runner_ids' = runner_ids
      /\ open_orders # <<>> /\ open_orders' = Tail(open_orders)
      /\ entry_price' = entry_price
  BY DEF Close, At
<1>1. PICK p \in closing_price(Head(open_orders)) :
         Send(<<[side |-> "BACK", id |-> RunnerId, price |-> p]>>)
  BY DEF Close
<1>2. open_orders' = <<>>
  <2>1. open_orders \in Seq(Prices) /\ Len(open_orders) <= 1
    BY LocalsTyped DEF Base, Locals
  <2>2. open_orders' \in Seq(Prices) /\ Len(open_orders') = Len(open_orders) - 1
    BY <1>0, <2>1, HeadTailProperties
  <2>3. Len(open_orders') \in Nat /\ Len(open_orders) \in Nat
    BY <2>1, <2>2, LenProperties
  <2> QED BY <2>1, <2>2, <2>3, EmptySeq
<1> DEFINE c == [side |-> "BACK", id |-> RunnerId, price |-> p]
<1>3. c \in Order /\ c.side = "BACK" /\ c.id = RunnerId /\ c.price = p
  <2>1. fave \in DOMAIN market_book
    BY <1>0 DEF Base, FaveInv
  <2> QED BY <1>1, <2>1, OrderTyped
<1>4. RunnerId' = RunnerId
  BY <1>0 DEF RunnerId
<1>5. Len(sent) \in Nat /\ DOMAIN sent = 1 .. Len(sent)
  BY LenProperties DEF Base, TypeOK
<1> HIDE DEF c
<1>6. CASE /\ client = "up" /\ client' = "up" /\ sent' \in Seq(Order)
           /\ sent' = Append(sent, c) /\ Len(sent') = Len(sent) + 1
           /\ sent'[Len(sent) + 1] = c /\ \A n \in 1 .. Len(sent) : sent'[n] = sent[n]
  <2> DEFINE o == sent[Len(sent)]
  <2>1. /\ Len(sent) % 2 = 1 /\ o.id = RunnerId /\ o.price = Head(open_orders)
        /\ o.price = entry_price
    BY <1>0, <1>6 DEF TradeInv
  <2>2. (Len(sent) + 1) % 2 = 0 /\ Len(sent) > 0
    BY <1>5, <2>1
  <2>3. DOMAIN sent' = 1 .. Len(sent) + 1 /\ sent'[Len(sent)] = o
    <3>1. DOMAIN sent' = 1 .. Len(sent) + 1
      BY <1>6, LenProperties
    <3>2. Len(sent) \in 1 .. Len(sent)
      BY <1>5, <2>2
    <3> QED BY <1>6, <3>1, <3>2
  <2>4. Closes(c, o)
    BY <1>1, <1>3, <2>1, FiveUp DEF Closes
  <2> HIDE DEF o
  <2>5. ASSUME NEW n \in 1 .. Len(sent) + 1
        PROVE  IF n % 2 = 1 THEN sent'[n].side = "LAY" ELSE Closes(sent'[n], sent'[n - 1])
    <3>1. CASE n = Len(sent) + 1
      <4>1. n % 2 # 1 /\ n - 1 = Len(sent)
        BY <1>5, <2>2, <3>1
      <4> QED BY <1>6, <2>3, <2>4, <3>1, <4>1
    <3>2. CASE n \in 1 .. Len(sent)
      <4>1. IF n % 2 = 1 THEN sent[n].side = "LAY" ELSE Closes(sent[n], sent[n - 1])
        BY <1>5, <3>2 DEF TradeInv, OpenedAndClosed
      <4>2. n % 2 # 1 => n - 1 \in 1 .. Len(sent)
        BY <1>5, <3>2
      <4> QED BY <1>6, <3>2, <4>1, <4>2
    <3> QED BY <1>5, <3>1, <3>2
  <2>6. OpenedAndClosed'
    <3>1. Len(sent') % 2 # 1
      BY <1>6, <2>2
    <3> QED BY <1>2, <2>3, <2>5, <3>1 DEF OpenedAndClosed
  <2>7. sent'[Len(sent') - 1].price = entry_price'
    <3>1. Len(sent') - 1 = Len(sent)
      BY <1>5, <1>6
    <3> QED BY <1>0, <2>1, <2>3, <3>1
  <2> QED BY <1>0, <1>2, <1>6, <2>2, <2>6, <2>7 DEF TradeInv
<1>7. CASE client' = "down" /\ client # "null" /\ sent' = sent
  BY <1>0, <1>7 DEF TradeInv, OpenedAndClosed
<1> QED BY <1>1, <1>3, <1>6, <1>7, Sends DEF Base, c

LEMMA TradeKept ==
  ASSUME Base, TradeInv, [Next]_vars
  PROVE  TradeInv'
<1>1. CASE ReaderStep \/ deactivate_market \/ UNCHANGED vars
  <2>1. UNCHANGED <<entry_price, open_orders, sent, client, pc, fave>>
    BY <1>1 DEF ReaderStep, ReadImage, ReadUpdate, add_runner, Store, activate_market,
                deactivate_market, ReaderOnly, vars
  <2>2. runner_ids' = runner_ids \/ pc = "idle"
    <3>1. add_runner => pc = "idle"
      BY DEF add_runner, Base, ImageInv
    <3> QED BY <1>1, <3>1 DEF ReaderStep, ReadImage, ReadUpdate, Store, activate_market,
                              deactivate_market, vars
  <2>3. client = "up" => RunnerId' = RunnerId
    BY <2>1, <2>2 DEF TradeInv, RunnerId
  <2> QED BY <2>1, <2>3, TradeStays
<1>2. CASE Connect
  <2>1. /\ client' \in {"up", "null"} /\ pc' = "sort"
        /\ UNCHANGED <<open_orders, sent>> /\ pc = "idle"
    BY <1>2 DEF Connect, At
  <2>2. sent = <<>> /\ Len(sent) = 0 /\ DOMAIN sent = {} /\ open_orders = <<>>
    BY <2>1, EmptySeq DEF TradeInv, Base, FaveInv
  <2> QED BY <2>1, <2>2 DEF TradeInv, OpenedAndClosed
<1>3. CASE WarmUp
  <2>1. /\ UNCHANGED <<fave, runner_ids, entry_price, open_orders>> /\ pc' = "test"
        /\ sent' = sent /\ client # "null" /\ (client' = client \/ client' = "down")
    BY <1>3, SendsNothing DEF WarmUp, At, Base
  <2> QED BY <2>1, TradeStays DEF RunnerId
<1>4. CASE Sorted
  <2>1. UNCHANGED <<entry_price, open_orders, sent, client>> /\ pc = "sort" /\ pc' = "warm"
    BY <1>4 DEF Sorted, At
  <2>2. open_orders = <<>>
    BY <2>1 DEF Base, FaveInv
  <2> QED BY <2>1, <2>2, TradeStays
<1>5. CASE \/ SortAstray \/ WarmUpNull \/ Turn \/ Finish \/ LoadFirst \/ LoadSecond
           \/ WeighBack \/ WeighLay \/ Pass \/ EndTurn
  <2>1. /\ UNCHANGED <<entry_price, open_orders, sent, client, fave, runner_ids>>
        /\ pc' # "idle"
    BY <1>5 DEF SortAstray, WarmUpNull, Turn, Finish, LoadFirst, LoadSecond, WeighBack,
                WeighLay, Pass, EndTurn, At
  <2> QED BY <2>1, TradeStays DEF RunnerId
<1>6. CASE Open
  BY <1>6, OpenTrades
<1>7. CASE Close
  BY <1>7, CloseTrades
<1> QED BY <1>1, <1>2, <1>3, <1>4, <1>5, <1>6, <1>7 DEF Next, StrategyStep

\* Whatever breaks and whenever, the exchange gets an opening order, its closing
\* order five ticks up on the same runner, and so on; a closing order never comes
\* alone, and an opening one stays alone only when the connection broke.
THEOREM TradesClosed == Spec => []OpenedAndClosed
<1>1. Base /\ TradeInv /\ [Next]_vars => (Base /\ TradeInv)'
  BY BaseKept, TradeKept
<1>2. TradeInv => OpenedAndClosed
  BY DEF TradeInv
<1> QED BY <1>1, <1>2, InitBase, InitTrade, PTL DEF Spec

\* A set that holds two things has more than one.
LEMMA TwoMembers ==
  ASSUME NEW S, IsFiniteSet(S), NEW x \in S, NEW y \in S, x # y
  PROVE  Cardinality(S) > 1
<1>1. Cardinality(S) \in Nat /\ Cardinality(S) # 0
  BY FS_CardinalityType, FS_EmptySet
<1>2. Cardinality(S) # 1
  BY FS_Singleton
<1> QED BY <1>1, <1>2

\* An opening order repeats the price of the one before only if the best back moved
\* between the load that was compared and the load that was ordered at.
THEOREM RepeatsMoved == Spec => RepeatsOnlyOnMove
<1>1. ASSUME Base, TurnInv, TradeInv, [Next]_vars, Opened, Len(sent) > 1,
             sent[Len(sent) - 1].price = Last(sent').price
      PROVE  Cardinality(seen) > 1
  <2>1. /\ Open /\ client = "up"
        /\ Last(sent').price = second.price /\ second.price \in seen
    BY <1>1, OpenedIs
  <2>2. pc = "decide" /\ entry_price # first.price
    BY <2>1 DEF Open, Signal, At
  <2>3. first.price \in seen /\ IsFiniteSet(seen) /\ open_orders = <<>>
    BY <1>1, <2>2 DEF TurnInv, Deciding, Base, FaveInv
  <2>4. sent[Len(sent) - 1].price = entry_price
    BY <1>1, <2>1, <2>3 DEF TradeInv
  <2> QED BY <1>1, <2>1, <2>2, <2>3, <2>4, TwoMembers
<1> DEFINE J == Base /\ TurnInv /\ TradeInv
<1>2. J /\ [Next]_vars =>
         [Opened /\ Len(sent) > 1 /\ sent[Len(sent) - 1].price = Last(sent').price
             => Cardinality(seen) > 1]_vars
  BY <1>1
<1>3. J /\ [Next]_vars => J'
  BY BaseKept, TurnKept, TradeKept
<1>4. Init => J
  BY InitBase, InitTurn, InitTrade
<1> HIDE DEF J
<1> QED BY <1>2, <1>3, <1>4, PTL DEF Spec, RepeatsOnlyOnMove
=============================================================================
