-------------------------- MODULE TradedBookProofs --------------------------
(***************************************************************************)
(* Theorems about TradedBook for any set of prices on the ladder and       *)
(* totals of any size.                                                     *)
(***************************************************************************)
EXTENDS TradedBook, PriceLadderProofs, FiniteSetTheorems, WellFoundedInduction, TLAPS

-----------------------------------------------------------------------------
\* Sums over finite sets.

\* The sum of a function over a set.
Sum(f, S) == MapThenSumSet(LAMBDA k : f[k], S)
Pick(S) == CHOOSE x \in S : TRUE

\* The recursion behind it: g has the sum over every subset of S.
Sums(f, S, g) ==
    g = [s \in SUBSET S |-> IF s = {} THEN 0 ELSE f[Pick(s)] + g[s \ {Pick(s)}]]

\* Of some finite sets there is one than which none is smaller.
LEMMA SmallestOf ==
  ASSUME NEW U, IsFiniteSet(U), NEW C \in SUBSET (SUBSET U), C # {}
  PROVE  \E s \in C : /\ IsFiniteSet(s)
                      /\ \A t \in C : ~ (t \subseteq s /\ t # s)
<1>1. IsWellFoundedOn(StrictSubsetOrdering(U), FiniteSubsetsOf(U))
  BY FS_StrictSubsetOrderingWellFounded
<1>2. \A s \in SUBSET U : IsFiniteSet(s)
  BY FS_Subset
<1>3. C \subseteq FiniteSubsetsOf(U)
  BY <1>2 DEF FiniteSubsetsOf
<1>4. PICK s \in C : \A t \in C : ~ (<<t, s>> \in StrictSubsetOrdering(U))
  BY <1>1, <1>3, WFMin
<1> QED BY <1>2, <1>4 DEF StrictSubsetOrdering

\* The recursion determines the sum, ...
LEMMA SumUnique ==
  ASSUME NEW f, NEW S, NEW T, NEW g, NEW h, Sums(f, S, g), Sums(f, T, h),
         NEW u \in SUBSET S, u \in SUBSET T, IsFiniteSet(u)
  PROVE  g[u] = h[u]
<1> SUFFICES ASSUME g[u] # h[u] PROVE FALSE
  OBVIOUS
<1> DEFINE C == {t \in SUBSET u : g[t] # h[t]}
<1>1. PICK t \in C : \A v \in C : ~ (v \subseteq t /\ v # t)
  <2>1. u \in C
    OBVIOUS
  <2>2. C \in SUBSET (SUBSET u) /\ C # {}
    BY <2>1
  <2> HIDE DEF C
  <2> QED BY <2>2, SmallestOf
<1>2. t \in SUBSET S /\ t \in SUBSET T /\ t \subseteq u /\ g[t] # h[t]
  BY <1>1
<1>3. /\ g[t] = IF t = {} THEN 0 ELSE f[Pick(t)] + g[t \ {Pick(t)}]
      /\ h[t] = IF t = {} THEN 0 ELSE f[Pick(t)] + h[t \ {Pick(t)}]
  BY <1>2 DEF Sums
<1>4. t # {}
  BY <1>2, <1>3
<1>5. Pick(t) \in t
  BY <1>4 DEF Pick
<1>6. t \ {Pick(t)} \subseteq t /\ t \ {Pick(t)} # t
  BY <1>5
<1>7. t \ {Pick(t)} \notin C
  BY <1>1, <1>6
<1>8. g[t \ {Pick(t)}] = h[t \ {Pick(t)}]
  BY <1>2, <1>6, <1>7
<1> QED BY <1>2, <1>3, <1>8

\* ... and there is one over every finite set.
LEMMA SumExists ==
  ASSUME NEW f, NEW S, IsFiniteSet(S)
  PROVE  \E g : Sums(f, S, g)
<1> SUFFICES ASSUME ~ \E g : Sums(f, S, g) PROVE FALSE
  OBVIOUS
<1> DEFINE C == {t \in SUBSET S : ~ \E g : Sums(f, t, g)}
<1>1. PICK t \in C : IsFiniteSet(t) /\ \A v \in C : ~ (v \subseteq t /\ v # t)
  <2>1. S \in C
    OBVIOUS
  <2>2. C \in SUBSET (SUBSET S) /\ C # {}
    BY <2>1
  <2> HIDE DEF C
  <2> QED BY <2>2, SmallestOf
<1> DEFINE G(v) == CHOOSE g : Sums(f, v, g)
           less(v) == v \ {Pick(v)}
           h == [v \in SUBSET t |-> IF v = {} THEN 0 ELSE f[Pick(v)] + G(less(v))[less(v)]]
<1>2. \A v \in SUBSET t : v # {} => less(v) \in SUBSET t /\ less(v) # t /\ less(v) \subseteq v
  BY DEF Pick
<1>3. ASSUME NEW v \in SUBSET t, v # t
      PROVE  Sums(f, v, G(v))
  <2>1. v \in SUBSET S /\ v \notin C
    BY <1>1, <1>3
  <2>2. \E g : Sums(f, v, g)
    BY <2>1
  <2> QED BY <2>2, Zenon
<1>4. ASSUME NEW v \in SUBSET t, v # {}
      PROVE  h[less(v)] = G(less(v))[less(v)]
  <2> DEFINE w == less(v)
  <2>1. w \in SUBSET t /\ w # t
    BY <1>2, <1>4
  <2>2. Sums(f, w, G(w))
    BY <1>3, <2>1
  <2>3. w \in SUBSET w
    OBVIOUS
  <2>4. G(w)[w] = IF w = {} THEN 0 ELSE f[Pick(w)] + G(w)[less(w)]
    BY <2>2, <2>3 DEF Sums
  <2>5. h[w] = IF w = {} THEN 0 ELSE f[Pick(w)] + G(less(w))[less(w)]
    BY <2>1
  <2>6. CASE w # {}
    <3>1. less(w) \in SUBSET t /\ less(w) # t /\ less(w) \in SUBSET w
      BY <1>2, <2>1, <2>6
    <3>2. Sums(f, less(w), G(less(w)))
      BY <1>3, <3>1
    <3>3. less(w) \in SUBSET less(w) /\ IsFiniteSet(less(w))
      BY <1>1, <3>1, FS_Subset
    <3>4. G(w)[less(w)] = G(less(w))[less(w)]
      <4> HIDE DEF G, less, w
      <4> QED BY <2>2, <3>1, <3>2, <3>3, SumUnique
    <3> HIDE DEF G, h
    <3> QED BY <2>4, <2>5, <3>4
  <2>7. CASE w = {}
    BY <2>4, <2>5, <2>7
  <2> QED BY <2>6, <2>7
<1>5. Sums(f, t, h)
  <2>1. \A v \in SUBSET t : v # {} => h[less(v)] = G(less(v))[less(v)]
    BY <1>4
  <2>2. h = [v \in SUBSET t |-> IF v = {} THEN 0 ELSE f[Pick(v)] + h[less(v)]]
    <3> DEFINE e == [v \in SUBSET t |-> IF v = {} THEN 0 ELSE f[Pick(v)] + h[less(v)]]
    <3>1. ASSUME NEW v \in SUBSET t
          PROVE  h[v] = e[v]
      <4>1. h[v] = IF v = {} THEN 0 ELSE f[Pick(v)] + G(less(v))[less(v)]
        OBVIOUS
      <4>2. e[v] = IF v = {} THEN 0 ELSE f[Pick(v)] + h[less(v)]
        OBVIOUS
      <4> HIDE DEF G, less, h, e
      <4> QED BY <2>1, <4>1, <4>2
    <3>2. h = [v \in SUBSET t |-> h[v]] /\ e = [v \in SUBSET t |-> e[v]]
      OBVIOUS
    <3> HIDE DEF h
    <3> QED BY <3>1, <3>2, Zenon
  <2> QED BY <2>2 DEF Sums
<1>6. t \in C
  OBVIOUS
<1> QED BY <1>5, <1>6

\* The sum over a set that is not empty: an element, and the sum over the others.
LEMMA SumPicks ==
  ASSUME NEW f, NEW S, IsFiniteSet(S)
  PROVE  Sum(f, S) = IF S = {} THEN 0 ELSE f[Pick(S)] + Sum(f, S \ {Pick(S)})
<1>1. ASSUME NEW T, IsFiniteSet(T)
      PROVE  \E g : Sums(f, T, g) /\ Sum(f, T) = g[T]
  <2> DEFINE c == CHOOSE g : Sums(f, T, g)
  <2>1. Sums(f, T, c)
    BY <1>1, SumExists, Zenon
  <2>2. Sum(f, T) = c[T]
    BY DEF Sum, MapThenSumSet, MapThenFoldSet, Sums, Pick
  <2> QED BY <2>1, <2>2
<1>2. PICK g : Sums(f, S, g) /\ Sum(f, S) = g[S]
  BY <1>1
<1>3. g[S] = IF S = {} THEN 0 ELSE f[Pick(S)] + g[S \ {Pick(S)}]
  BY <1>2 DEF Sums
<1> DEFINE T == S \ {Pick(S)}
<1>4. IsFiniteSet(T) /\ T \in SUBSET S /\ T \in SUBSET T
  BY FS_Subset
<1>5. PICK h : Sums(f, T, h) /\ Sum(f, T) = h[T]
  BY <1>1, <1>4
<1>6. g[T] = h[T]
  BY <1>2, <1>4, <1>5, SumUnique
<1> QED BY <1>2, <1>3, <1>5, <1>6

\* Any element will do, and sums of numbers are numbers.
LEMMA SumSplits ==
  ASSUME NEW S, IsFiniteSet(S), NEW f, \A x \in S : f[x] \in Nat
  PROVE  /\ Sum(f, S) \in Nat
         /\ \A x \in S : Sum(f, S) = f[x] + Sum(f, S \ {x})
<1> DEFINE Good(T) == /\ Sum(f, T) \in Nat
                      /\ \A x \in T : Sum(f, T) = f[x] + Sum(f, T \ {x})
           C == {t \in SUBSET S : ~ Good(t)}
<1> SUFFICES ASSUME ~ Good(S) PROVE FALSE
  OBVIOUS
<1>1. PICK t \in C : IsFiniteSet(t) /\ \A v \in C : ~ (v \subseteq t /\ v # t)
  <2>1. S \in C
    OBVIOUS
  <2>2. C \in SUBSET (SUBSET S) /\ C # {}
    BY <2>1
  <2> HIDE DEF C
  <2> QED BY <2>2, SmallestOf
<1>2. t \in SUBSET S /\ ~ Good(t)
  OBVIOUS
<1>3. \A x \in t : f[x] \in Nat /\ Good(t \ {x})
  <2> TAKE x \in t
  <2>1. t \ {x} \in SUBSET S /\ t \ {x} # t /\ t \ {x} \subseteq t
    BY <1>2
  <2>2. t \ {x} \notin C
    BY <1>1, <2>1
  <2> QED BY <1>2, <2>1, <2>2
<1> HIDE DEF C
<1>4. Sum(f, t) = IF t = {} THEN 0 ELSE f[Pick(t)] + Sum(f, t \ {Pick(t)})
  BY <1>1, SumPicks
<1>5. CASE t = {}
  BY <1>2, <1>4, <1>5
<1>6. CASE t # {}
  <2> DEFINE p == Pick(t)
  <2>1. p \in t
    BY <1>6 DEF Pick
  <2> HIDE DEF p
  <2>2. Sum(f, t) = f[p] + Sum(f, t \ {p})
    BY <1>4, <1>6 DEF p
  <2>3. Sum(f, t) \in Nat
    BY <1>3, <2>1, <2>2
  <2>4. ASSUME NEW x \in t, x # p
        PROVE  Sum(f, t) = f[x] + Sum(f, t \ {x})
    <3>1. x \in t \ {p} /\ p \in t \ {x}
      BY <2>1, <2>4
    <3>2. Sum(f, t \ {p}) = f[x] + Sum(f, (t \ {p}) \ {x})
      BY <1>3, <2>1, <3>1
    <3>3. Sum(f, t \ {x}) = f[p] + Sum(f, (t \ {x}) \ {p})
      BY <1>3, <3>1
    <3>4. (t \ {p}) \ {x} = (t \ {x}) \ {p}
      OBVIOUS
    <3>5. Sum(f, (t \ {x}) \ {p}) \in Nat
      <4>1. Good(t \ {x}) /\ Good(t \ {p})
        BY <1>3, <2>1
      <4>2. (t \ {x}) \ {p} \in SUBSET S /\ (t \ {x}) \ {p} \subseteq t /\ (t \ {x}) \ {p} # t
        BY <1>2, <2>1
      <4>3. (t \ {x}) \ {p} \notin C
        BY <1>1, <4>2
      <4>4. Good((t \ {x}) \ {p})
        BY <4>2, <4>3 DEF C
      <4> QED BY <4>4
    <3>6. f[x] \in Nat /\ f[p] \in Nat
      BY <1>3, <2>1
    <3>7. Sum(f, (t \ {p}) \ {x}) = Sum(f, (t \ {x}) \ {p})
      BY <3>4
    <3> QED BY <2>2, <3>2, <3>3, <3>5, <3>6, <3>7
  <2>5. Good(t)
    BY <2>2, <2>3, <2>4
  <2> QED BY <1>2, <2>5
<1> QED BY <1>5, <1>6

\* A larger set has no smaller sum.
LEMMA SumWithin ==
  ASSUME NEW T, IsFiniteSet(T), NEW U \in SUBSET T, NEW g, \A y \in T : g[y] \in Nat
  PROVE  Sum(g, U) <= Sum(g, T)
<1> DEFINE C == {v \in SUBSET T : U \subseteq v /\ ~ (Sum(g, U) <= Sum(g, v))}
<1> SUFFICES ASSUME ~ (Sum(g, U) <= Sum(g, T)) PROVE FALSE
  OBVIOUS
<1>1. PICK v \in C : \A w \in C : ~ (w \subseteq v /\ w # v)
  <2>1. T \in C
    OBVIOUS
  <2>2. C \in SUBSET (SUBSET T) /\ C # {}
    BY <2>1
  <2> HIDE DEF C
  <2> QED BY <2>2, SmallestOf
<1>2. v \in SUBSET T /\ U \subseteq v /\ ~ (Sum(g, U) <= Sum(g, v))
  OBVIOUS
<1>3. \A w \in SUBSET T : IsFiniteSet(w) /\ Sum(g, w) \in Nat
  <2> TAKE w \in SUBSET T
  <2>1. IsFiniteSet(w)
    BY FS_Subset
  <2> QED BY <2>1, SumSplits
<1>4. PICK x \in v : x \notin U
  BY <1>2, <1>3
<1>5. v \ {x} \in SUBSET T /\ U \subseteq v \ {x} /\ v \ {x} \subseteq v /\ v \ {x} # v
  BY <1>2, <1>4
<1>6. Sum(g, U) <= Sum(g, v \ {x})
  BY <1>1, <1>5
<1>7. Sum(g, v) = g[x] + Sum(g, v \ {x})
  BY <1>2, <1>3, SumSplits
<1>8. g[x] \in Nat
  BY <1>2
<1> QED BY <1>2, <1>3, <1>5, <1>6, <1>7, <1>8

\* Only the terms that are not zero matter.
LEMMA SumOfUsed ==
  ASSUME NEW T, IsFiniteSet(T), NEW g, \A y \in T : g[y] \in Nat
  PROVE  Sum(g, T) = Sum(g, {y \in T : g[y] > 0})
<1> DEFINE U == {y \in T : g[y] > 0}
           C == {v \in SUBSET T : U \subseteq v /\ Sum(g, U) # Sum(g, v)}
<1> SUFFICES ASSUME Sum(g, U) # Sum(g, T) PROVE FALSE
  OBVIOUS
<1>1. PICK v \in C : \A w \in C : ~ (w \subseteq v /\ w # v)
  <2>1. T \in C
    OBVIOUS
  <2>2. C \in SUBSET (SUBSET T) /\ C # {}
    BY <2>1
  <2> HIDE DEF C
  <2> QED BY <2>2, SmallestOf
<1>2. v \in SUBSET T /\ U \subseteq v /\ Sum(g, U) # Sum(g, v)
  OBVIOUS
<1>3. PICK x \in v : x \notin U
  BY <1>2
<1>4. v \ {x} \in SUBSET T /\ U \subseteq v \ {x} /\ v \ {x} \subseteq v /\ v \ {x} # v
  BY <1>2, <1>3
<1>5. Sum(g, U) = Sum(g, v \ {x})
  BY <1>1, <1>4
<1>6. IsFiniteSet(v) /\ IsFiniteSet(v \ {x})
  BY <1>2, <1>4, FS_Subset
<1>7. Sum(g, v) = g[x] + Sum(g, v \ {x}) /\ Sum(g, v \ {x}) \in Nat
  BY <1>2, <1>4, <1>6, SumSplits
<1>8. g[x] = 0
  BY <1>2, <1>3
<1> QED BY <1>2, <1>5, <1>7, <1>8

\* A sum is no larger than another that has, for each of its terms, one
\* of its own that is at least as large.
LEMMA SumBelow ==
  ASSUME NEW S, IsFiniteSet(S), NEW T, IsFiniteSet(T), NEW f, NEW g, NEW h,
         \A x \in S : f[x] \in Nat, \A y \in T : g[y] \in Nat,
         \A x \in S : h[x] \in T /\ f[x] <= g[h[x]],
         \A x, y \in S : x # y => h[x] # h[y]
  PROVE  Sum(f, S) <= Sum(g, T)
<1> DEFINE Into(s) == {h[x] : x \in s}
           Good(s) == Sum(f, s) <= Sum(g, Into(s))
           C == {s \in SUBSET S : ~ Good(s)}
<1>1. \A s \in SUBSET S : IsFiniteSet(s) /\ IsFiniteSet(Into(s)) /\ Into(s) \subseteq T
  <2> TAKE s \in SUBSET S
  <2>1. Into(s) \subseteq T
    OBVIOUS
  <2> QED BY <2>1, FS_Subset
<1>2. Good(S)
  <2> SUFFICES ASSUME ~ Good(S) PROVE FALSE
    OBVIOUS
  <2>1. PICK s \in C : \A v \in C : ~ (v \subseteq s /\ v # s)
    <3>1. S \in C
      OBVIOUS
    <3>2. C \in SUBSET (SUBSET S) /\ C # {}
      BY <3>1
    <3> HIDE DEF C
    <3> QED BY <3>2, SmallestOf
  <2>2. s \in SUBSET S /\ ~ Good(s)
    OBVIOUS
  <2>3. CASE s = {}
    <3>1. Into(s) = {} /\ IsFiniteSet({})
      BY <2>3, FS_EmptySet
    <3>2. Sum(f, {}) = 0 /\ Sum(g, {}) = 0
      BY <3>1, SumPicks
    <3> QED BY <2>2, <2>3, <3>1, <3>2
  <2>4. CASE s # {}
    <3>1. PICK x \in s : TRUE
      BY <2>4
    <3>2. s \ {x} \in SUBSET S /\ s \ {x} \subseteq s /\ s \ {x} # s
      BY <2>2
    <3>3. s \ {x} \notin C
      BY <2>1, <3>2
    <3>4. Good(s \ {x})
      BY <3>2, <3>3
    <3>5. Into(s) \ {h[x]} = Into(s \ {x}) /\ h[x] \in Into(s)
      BY <2>2
    <3>6. /\ Sum(f, s) = f[x] + Sum(f, s \ {x})
          /\ Sum(f, s \ {x}) \in Nat
      BY <1>1, <2>2, <3>2, SumSplits
    <3>7. /\ Sum(g, Into(s)) = g[h[x]] + Sum(g, Into(s) \ {h[x]})
          /\ Sum(g, Into(s \ {x})) \in Nat
      <4>1. \A y \in Into(s) : g[y] \in Nat
        BY <1>1, <2>2
      <4>2. \A y \in Into(s \ {x}) : g[y] \in Nat
        BY <1>1, <3>2
      <4>3. IsFiniteSet(Into(s)) /\ IsFiniteSet(Into(s \ {x}))
        BY <1>1, <2>2, <3>2
      <4> HIDE DEF Into
      <4> QED BY <3>5, <4>1, <4>2, <4>3, SumSplits
    <3>8. f[x] \in Nat /\ g[h[x]] \in Nat /\ f[x] <= g[h[x]]
      BY <2>2
    <3> HIDE DEF Into
    <3> QED BY <2>2, <3>4, <3>5, <3>6, <3>7, <3>8
  <2> QED BY <2>3, <2>4
<1> QED
  <2>1. Into(S) \in SUBSET T /\ IsFiniteSet(Into(S)) /\ \A y \in Into(S) : g[y] \in Nat
    BY <1>1
  <2> HIDE DEF Into
  <2>2. Sum(g, Into(S)) <= Sum(g, T)
    BY <2>1, SumWithin
  <2>3. Sum(f, S) \in Nat /\ Sum(g, Into(S)) \in Nat /\ Sum(g, T) \in Nat
    BY <2>1, SumSplits
  <2> QED BY <1>2, <2>2, <2>3

-----------------------------------------------------------------------------

USE PricesAssumption, MaxSizeAssumption
    DEF rangeVars, maxVars, minVars, updateVars, readerVars, unread, written

\* What is known of prices and slots without looking at the tables.
LEMMA PriceFacts ==
  /\ Slots \subseteq Nat /\ 0 \in Slots
  /\ Lowest .. Highest \subseteq Nat
  /\ NoPrice \in Nat /\ TopPrice \in Nat
  /\ \A p \in Prices : /\ p \in Nat /\ p \in Lowest .. Highest /\ p < TopPrice
                       /\ NoPrice < p /\ GetIndex(p) \in Slots
<1>1. Slots \subseteq Nat /\ 0 \in Slots
  BY SMT DEF Slots, LastSlot
<1>2. Lowest \in Nat /\ Highest \in Nat /\ 0 < Lowest
  BY Limits
<1>3. \A p \in Prices : p \in Nat /\ Lowest <= p /\ p <= Highest
  BY <1>2, SMT
<1>4. \A p \in Prices : GetIndex(p) \in Slots
  BY <1>3, IndexIsSlot, SMT
<1> QED BY <1>1, <1>2, <1>3, <1>4, SMT DEF NoPrice, TopPrice

\* The update under way is of a price whose total it raises.
Pending ==
    upc # "idle" => /\ bid.price \in Prices /\ traded[bid.price] < bid.size
                    /\ idx = GetIndex(bid.price)

\* A strategy reads slots of the book only.
AtInv == rpc \in {"price", "product", "volume", "max_size"} => at \in Slots

Base == Typed /\ Pending /\ AtInv

\* The initial book satisfies them.
LEMMA InitBase == Init => Base
<1> SUFFICES ASSUME Init PROVE Base
  OBVIOUS
<1>1. book \in [Slots -> Bids]
  <2>1. \A i \in Slots : Ladder[i] \in Lowest .. Highest
    BY LadderRange, Limits, SMT
  <2> QED BY <2>1 DEF Init, Bids
<1>2. bid \in Bids
  BY <1>1, PriceFacts DEF Init
<1>3. Typed
  BY <1>1, <1>2, PriceFacts DEF Init, Typed
<1> QED BY <1>3 DEF Init, Base, Pending, AtInv

\* An update's steps keep the types, ...
LEMMA UpdateTyped ==
  ASSUME Base, UpdateStep
  PROVE  Base'
<1> USE PriceFacts DEF Typed, Bids
<1>0. Typed /\ Pending /\ AtInv
  BY DEF Base
<1>1. ASSUME NEW price \in Prices, NEW size \in 1 .. MaxSize, StoreBid(price, size)
      PROVE  Base'
  <2>1. bid' \in Bids /\ size \in Nat
    BY <1>1 DEF StoreBid
  <2>2. book' \in [Slots -> Bids]
    BY <1>0, <1>1, <2>1 DEF StoreBid
  <2>3. idx' \in Slots
    BY <1>1 DEF StoreBid, NewIdx
  <2>4. Typed'
    BY <1>0, <1>1, <2>1, <2>2, <2>3 DEF StoreBid, UpdateAt
  <2>5. Pending' /\ AtInv'
    BY <1>0, <1>1 DEF StoreBid, NewIdx, Pending, AtInv
  <2> QED BY <2>4, <2>5 DEF Base
<1>2. CASE StoreMinRange
  BY <1>0, <1>2 DEF StoreMinRange, UpdateAt, Base, Pending, AtInv
<1>3. CASE StoreMaxRange
  BY <1>0, <1>3 DEF StoreMaxRange, UpdateAt, Base, Pending, AtInv
<1>4. CASE StoreMaxPrice
  BY <1>0, <1>4 DEF StoreMaxPrice, UpdateAt, Base, Pending, AtInv
<1>5. CASE StoreMaxIdx
  BY <1>0, <1>5 DEF StoreMaxIdx, UpdateAt, Base, Pending, AtInv
<1>6. CASE StoreMinPrice
  BY <1>0, <1>6 DEF StoreMinPrice, UpdateAt, Base, Pending, AtInv
<1>7. CASE StoreMinIdx
  BY <1>0, <1>7 DEF StoreMinIdx, UpdateAt, Base, Pending, AtInv
<1>8. CASE StoreLast
  <2>1. traded' \in [Prices -> Nat] /\ ltp_' \in Nat
    BY <1>0, <1>8 DEF StoreLast
  <2> QED BY <1>0, <1>8, <2>1 DEF StoreLast, UpdateAt, Base, Pending, AtInv
<1> QED BY <1>1, <1>2, <1>3, <1>4, <1>5, <1>6, <1>7, <1>8 DEF UpdateStep

\* ... and a strategy's loads, too.
LEMMA ReadTyped ==
  ASSUME Base, ReadStep
  PROVE  Base'
<1> USE PriceFacts DEF Typed, Bids, ReadAt
<1>0. Typed /\ Pending /\ AtInv
  BY DEF Base
<1>1. CASE StartWalk
  BY <1>0, <1>1 DEF StartWalk, Base, Pending, AtInv
<1>2. CASE TestRange
  <2>1. at \in Nat /\ at <= max_price_idx => at \in Slots
    BY <1>0, Limits, SMT DEF Slots
  <2> QED BY <1>0, <1>2, <2>1 DEF TestRange, Base, Pending, AtInv
<1>3. CASE ReadPrice
  BY <1>0, <1>3 DEF ReadPrice, Base, Pending, AtInv
<1>4. CASE SumSlot
  <2>1. at \in Slots /\ at + 1 \in Nat
    BY <1>0, <1>4 DEF SumSlot, AddProduct, AddVolume, AtInv
  <2>2. book[at].size \in Nat
    BY <1>0, <2>1
  <2>3. tot_prod + price_read * book[at].size \in Nat /\ tot_vol + book[at].size \in Nat
    BY <1>0, <2>2
  <2> QED BY <1>0, <1>4, <2>1, <2>3
          DEF SumSlot, AddProduct, AddVolume, Base, Pending, AtInv
<1>5. CASE StartMaxTraded
  BY <1>0, <1>5 DEF StartMaxTraded, Base, Pending, AtInv
<1>6. CASE ReadMaxIdx
  BY <1>0, <1>6 DEF ReadMaxIdx, Base, Pending, AtInv
<1>7. CASE ReadMaxSize
  BY <1>0, <1>7 DEF ReadMaxSize, Base, Pending, AtInv
<1>8. CASE Return
  BY <1>0, <1>8 DEF Return, Base, Pending, AtInv
<1> QED BY <1>1, <1>2, <1>3, <1>4, <1>5, <1>6, <1>7, <1>8 DEF ReadStep

LEMMA BaseKept == Base /\ [Next]_vars => Base'
<1>1. Base /\ UNCHANGED vars => Base'
  BY DEF Base, Typed, Pending, AtInv, vars
<1> QED BY <1>1, UpdateTyped, ReadTyped DEF Next

\* A price has the largest total, so there is one to know.
KnownInv ==
    /\ known \in Nat
    /\ \E p \in Prices : \A q \in Prices : traded[q] <= traded[p]

LEMMA TotalIsNat ==
  ASSUME Base
  PROVE  Total(traded) \in Nat /\ Total(traded) = Sum(traded, {p \in Prices : traded[p] > 0})
<1>1. traded \in [Prices -> Nat]
  BY DEF Base, Typed
<1>2. IsFiniteSet({p \in Prices : traded[p] > 0})
  <2>1. IsFiniteSet(Lowest .. Highest)
    BY Limits, FS_Interval
  <2>2. {p \in Prices : traded[p] > 0} \subseteq Lowest .. Highest
    OBVIOUS
  <2> QED BY <2>1, <2>2, FS_Subset
<1>3. Total(traded) = Sum(traded, {p \in Prices : traded[p] > 0})
  <2>1. DOMAIN traded = Prices
    BY <1>1
  <2> QED BY <2>1 DEF Total, Sum, MapThenSumSet, MapThenFoldSet
<1>4. Sum(traded, {p \in Prices : traded[p] > 0}) \in Nat
  BY <1>1, <1>2, SumSplits
<1> QED BY <1>3, <1>4

LEMMA KnownKept == Base /\ KnownInv /\ [Next]_vars => KnownInv'
<1> SUFFICES ASSUME Base, KnownInv, [Next]_vars PROVE KnownInv'
  OBVIOUS
<1>1. traded \in [Prices -> Nat]
  BY DEF Base, Typed
<1>2. PICK p \in Prices : \A q \in Prices : traded[q] <= traded[p]
  BY DEF KnownInv
<1>3. known \in Nat
  BY DEF KnownInv
<1>4. CASE StoreLast
  <2>1. /\ known' = known /\ upc = "last"
        /\ traded' = [traded EXCEPT ![bid.price] = bid.size]
    BY <1>4 DEF StoreLast, UpdateAt
  <2>2. bid.price \in Prices /\ traded[bid.price] < bid.size /\ bid.size \in Nat
    BY <2>1 DEF Base, Pending, Typed, Bids
  <2>3. \A q \in Prices : traded'[q] = IF q = bid.price THEN bid.size ELSE traded[q]
    BY <1>1, <2>1, <2>2
  <2>4. CASE bid.size <= traded[p]
    <3>1. p # bid.price
      BY <1>1, <2>2, <2>4
    <3>2. \A q \in Prices : traded'[q] <= traded'[p]
      BY <1>1, <1>2, <2>3, <2>4, <3>1
    <3> QED BY <1>3, <2>1, <3>2 DEF KnownInv
  <2>5. CASE ~ (bid.size <= traded[p])
    <3>1. ASSUME NEW q \in Prices
          PROVE  traded'[q] <= traded'[bid.price]
      <4>1. traded[q] \in Nat /\ traded[p] \in Nat /\ traded[q] <= traded[p]
        BY <1>1, <1>2
      <4>2. traded'[bid.price] = bid.size /\ bid.size \in Nat
        BY <2>2, <2>3
      <4>3. traded'[q] = bid.size \/ traded'[q] = traded[q]
        BY <2>3
      <4> QED BY <2>5, <4>1, <4>2, <4>3
    <3> QED BY <1>3, <2>1, <2>2, <3>1 DEF KnownInv
  <2> QED BY <2>4, <2>5
<1>5. CASE StartWalk
  <2>1. known' = Total(traded) /\ traded' = traded
    BY <1>5 DEF StartWalk, ReadAt
  <2> QED BY <1>2, <2>1, TotalIsNat DEF KnownInv
<1>6. CASE StartMaxTraded
  <2> DEFINE S == {traded[q] : q \in Prices}
  <2>1. known' = Max(S) /\ traded' = traded
    BY <1>6 DEF StartMaxTraded, ReadAt
  <2>2. traded[p] \in S /\ \A x \in S : traded[p] >= x
    BY <1>1, <1>2
  <2>3. Max(S) \in S
    <3> HIDE DEF S
    <3> QED BY <2>2 DEF Max
  <2>4. Max(S) \in Nat
    BY <1>1, <2>3
  <2> QED BY <1>2, <2>1, <2>4 DEF KnownInv
<1>7. CASE Return
  <2>1. known' = 0 /\ traded' = traded
    BY <1>7 DEF Return, ReadAt
  <2> QED BY <1>2, <2>1 DEF KnownInv
<1>8. CASE ~ (StoreLast \/ StartWalk \/ StartMaxTraded \/ Return)
  <2>1. UNCHANGED <<traded, known>>
    BY <1>8 DEF Next, UpdateStep, StoreBid, StoreMinRange, StoreMaxRange, StoreMaxPrice,
               StoreMaxIdx, StoreMinPrice, StoreMinIdx, ReadStep, TestRange, ReadPrice,
               SumSlot, AddProduct, AddVolume, ReadMaxIdx, ReadMaxSize, ReadAt, vars
  <2> QED BY <2>1 DEF KnownInv
<1> QED BY <1>4, <1>5, <1>6, <1>7, <1>8

\* Every variable keeps its type, and no slot outside the book is read,
\* whatever prices are traded, the highest one included.
THEOREM BookTyped == Spec => [](TypeOK /\ AtInv)
<1>1. Base /\ KnownInv => TypeOK /\ AtInv
  BY DEF Base, KnownInv, TypeOK
<1>2. Init => KnownInv
  <2> SUFFICES ASSUME Init PROVE KnownInv
    OBVIOUS
  <2>1. known = 0 /\ \A p \in Prices : traded[p] = 0
    BY DEF Init
  <2>2. PICK p \in Prices : TRUE
    OBVIOUS
  <2>3. \A q \in Prices : traded[q] <= traded[p]
    BY <2>1
  <2> QED BY <2>1, <2>3 DEF KnownInv
<1> QED BY <1>1, <1>2, InitBase, BaseKept, KnownKept, PTL DEF Spec

-----------------------------------------------------------------------------
\* The largest total and its price.

\* The total of a price as max_size takes it: with the update under way, once its
\* size was compared.
MaxSees(p) ==
    IF p = bid.price /\ upc \in {"max_idx", "min_price", "min_idx", "last"}
    THEN bid.size ELSE traded[p]

MaxInv ==
    /\ \A p \in Prices : MaxSees(p) <= max_size
    /\ max_traded_price = NoPrice => max_size = 0
    /\ max_traded_price # NoPrice =>
           /\ max_traded_price \in Prices
           /\ max_size = MaxSees(max_traded_price)
           /\ upc = "max_idx" => max_traded_price = bid.price
           /\ upc # "max_idx" => max_traded_price_idx = GetIndex(max_traded_price)

\* An update keeps MaxInv: a price whose total is compared and not larger was not
\* the most traded one, since its total grew.
LEMMA MaxUpdated ==
  ASSUME Base, MaxInv, UpdateStep
  PROVE  MaxInv'
<1>0. /\ traded \in [Prices -> Nat] /\ max_size \in Nat /\ bid.size \in Nat
      /\ upc # "idle" => /\ bid.price \in Prices /\ traded[bid.price] < bid.size
                         /\ idx = GetIndex(bid.price)
  BY DEF Base, Typed, Pending, Bids
<1> USE DEF MaxInv, MaxSees
<1>1. ASSUME NEW price \in Prices, NEW size \in 1 .. MaxSize, StoreBid(price, size)
      PROVE  MaxInv'
  BY <1>1 DEF StoreBid, UpdateAt
<1>2. CASE StoreMinRange
  BY <1>2 DEF StoreMinRange, UpdateAt
<1>3. CASE StoreMaxRange
  BY <1>3 DEF StoreMaxRange, UpdateAt
<1>4. CASE StoreMaxPrice
  <2>1. upc = "max_price" /\ UNCHANGED <<bid, idx, traded, max_traded_price_idx>>
    BY <1>4 DEF StoreMaxPrice
  <2>2. \A p \in Prices : traded[p] \in Nat /\ traded[p] <= max_size
    BY <1>0, <2>1
  <2>3. CASE bid.size > max_size
    <3>1. max_size' = bid.size /\ max_traded_price' = bid.price /\ upc' = "max_idx"
      BY <1>4, <2>3 DEF StoreMaxPrice, Larger
    <3>2. bid.price # NoPrice
      BY <1>0, <2>1, PriceFacts
    <3>3. \A p \in Prices : MaxSees(p)' <= max_size'
      BY <1>0, <2>1, <2>2, <2>3, <3>1
    <3> QED BY <1>0, <2>1, <3>1, <3>2, <3>3
  <2>4. CASE ~ (bid.size > max_size)
    <3>1. upc' = "min_price" /\ UNCHANGED <<max_size, max_traded_price>>
      BY <1>4, <2>4 DEF StoreMaxPrice, Larger
    <3>2. \A p \in Prices : MaxSees(p)' <= max_size'
      BY <1>0, <2>1, <2>2, <2>4, <3>1
    <3>3. max_traded_price # NoPrice => max_traded_price # bid.price
      BY <1>0, <2>1, <2>4
    <3> QED BY <2>1, <3>1, <3>2, <3>3
  <2> QED BY <2>3, <2>4
<1>5. CASE StoreMaxIdx
  BY <1>0, <1>5 DEF StoreMaxIdx, UpdateAt
<1>6. CASE StoreMinPrice
  BY <1>6 DEF StoreMinPrice, UpdateAt
<1>7. CASE StoreMinIdx
  BY <1>7 DEF StoreMinIdx, UpdateAt
<1>8. CASE StoreLast
  <2>1. /\ upc = "last" /\ upc' = "idle"
        /\ UNCHANGED <<bid, max_size, max_traded_price, max_traded_price_idx>>
        /\ traded' = [traded EXCEPT ![bid.price] = bid.size]
    BY <1>8 DEF StoreLast, UpdateAt
  <2>2. \A p \in Prices : MaxSees(p)' = MaxSees(p)
    BY <1>0, <2>1
  <2> QED BY <2>1, <2>2
<1> QED BY <1>1, <1>2, <1>3, <1>4, <1>5, <1>6, <1>7, <1>8 DEF UpdateStep

LEMMA MaxKept == Base /\ MaxInv /\ [Next]_vars => MaxInv'
<1>1. MaxInv /\ (ReadStep \/ UNCHANGED vars) => MaxInv'
  <2> SUFFICES ASSUME MaxInv, ReadStep \/ UNCHANGED vars PROVE MaxInv'
    OBVIOUS
  <2>1. UNCHANGED <<upc, bid, traded, maxVars>>
    BY DEF ReadStep, StartWalk, TestRange, ReadPrice, SumSlot, AddProduct, AddVolume,
           StartMaxTraded, ReadMaxIdx, ReadMaxSize, Return, ReadAt, vars
  <2> QED BY <2>1 DEF MaxInv, MaxSees
<1> QED BY <1>1, MaxUpdated DEF Next

LEMMA InitMax == Init => MaxInv
BY PriceFacts DEF Init, MaxInv, MaxSees

\* Between two updates the most traded price has the largest total, and
\* its slot is where get_max_traded finds it, whatever prices are traded.
THEOREM MaxTradedRight == Spec => []MaxTradedExact
<1>1. Base /\ MaxInv => MaxTradedExact
  <2> SUFFICES ASSUME Base, MaxInv, upc = "idle", max_traded_price # NoPrice
               PROVE  /\ max_traded_price_idx = GetIndex(max_traded_price)
                      /\ \A p \in Prices : traded[p] <= traded[max_traded_price]
    BY DEF MaxTradedExact
  <2> QED BY DEF MaxInv, MaxSees
<1> QED BY <1>1, InitBase, BaseKept, InitMax, MaxKept, PTL DEF Spec

-----------------------------------------------------------------------------
\* From here on trades happen at prices of the ladder, but not at the highest,
\* which get_index sends to slot 0.
OnLadder == \A p \in Prices : \E i \in Slots : i < LastSlot /\ p = Ladder[i]

\* Such prices have slots of their own, in their order.
LEMMA OwnSlots ==
  ASSUME OnLadder
  PROVE  /\ \A p \in Prices : Ladder[GetIndex(p)] = p
         /\ \A p, q \in Prices : p < q <=> GetIndex(p) < GetIndex(q)
<1>1. ASSUME NEW p \in Prices
      PROVE  GetIndex(p) \in Slots /\ Ladder[GetIndex(p)] = p
  <2>1. PICK i \in Slots : i < LastSlot /\ p = Ladder[i]
    BY DEF OnLadder
  <2>2. GetIndex(p) = i
    BY <2>1, IndexOfLadder
  <2> QED BY <2>1, <2>2
<1>2. ASSUME NEW p \in Prices, NEW q \in Prices, GetIndex(p) < GetIndex(q)
      PROVE  p < q
  BY <1>1, <1>2, LadderRises
<1>3. ASSUME NEW p \in Prices, NEW q \in Prices, p < q
      PROVE  GetIndex(p) < GetIndex(q)
  <2>1. GetIndex(p) \in Int /\ GetIndex(q) \in Int /\ p \in Int /\ q \in Int
    <3>1. p \in Nat /\ q \in Nat /\ GetIndex(p) \in Slots /\ GetIndex(q) \in Slots
      BY PriceFacts
    <3>2. Slots \subseteq Nat
      BY PriceFacts
    <3>3. GetIndex(p) \in Nat /\ GetIndex(q) \in Nat
      BY <3>1, <3>2, Zenon
    <3> QED BY <3>1, <3>3
  <2>2. ~ (GetIndex(q) < GetIndex(p)) /\ GetIndex(p) # GetIndex(q)
    BY <1>1, <1>2, <1>3, <2>1
  <2> QED BY <2>1, <2>2
<1> QED BY <1>1, <1>2, <1>3

-----------------------------------------------------------------------------
\* The traded range.

\* The prices an end of the range has seen: those traded, and the one of the
\* update under way once that end was compared.
MinSees == {p \in Prices : \/ traded[p] > 0
                           \/ p = bid.price /\ upc \notin {"idle", "min_range"}}
MaxRangeSees ==
    {p \in Prices : \/ traded[p] > 0
                    \/ p = bid.price /\ upc \notin {"idle", "min_range", "max_range"}}

MinRangeInv ==
    /\ \A p \in MinSees : min_price <= p
    /\ \/ min_price = TopPrice
       \/ min_price \in MinSees /\ min_price_idx = GetIndex(min_price)

MaxRangeInv ==
    /\ \A p \in MaxRangeSees : p <= max_price
    /\ \/ max_price = NoPrice /\ max_price_idx = -1
       \/ max_price \in MaxRangeSees /\ max_price_idx = GetIndex(max_price)

RangeInv == MinRangeInv /\ MaxRangeInv

\* An update moves each end to its price, or leaves it.
LEMMA RangeUpdated ==
  ASSUME Base, RangeInv, UpdateStep
  PROVE  RangeInv'
<1>0. /\ traded \in [Prices -> Nat] /\ bid.size \in Nat
      /\ min_price \in Nat /\ max_price \in Nat
      /\ upc # "idle" => /\ bid.price \in Prices /\ traded[bid.price] < bid.size
                         /\ idx = GetIndex(bid.price)
  BY DEF Base, Typed, Pending, Bids
<1>9. \A p \in Prices : p \in Nat /\ p < TopPrice /\ NoPrice < p
  BY PriceFacts
<1> USE DEF RangeInv
<1>1. ASSUME NEW price \in Prices, NEW size \in 1 .. MaxSize, StoreBid(price, size)
      PROVE  RangeInv'
  <2>1. upc = "idle" /\ upc' = "min_range" /\ UNCHANGED <<traded, rangeVars>>
    BY <1>1 DEF StoreBid, UpdateAt
  <2>2. MinSees' = MinSees /\ MaxRangeSees' = MaxRangeSees
    BY <2>1 DEF MinSees, MaxRangeSees
  <2> QED BY <2>1, <2>2 DEF MinRangeInv, MaxRangeInv
<1>2. CASE StoreMinRange
  <2>1. /\ upc = "min_range" /\ upc' = "max_range"
        /\ UNCHANGED <<bid, traded, max_price, max_price_idx>>
    BY <1>2 DEF StoreMinRange, UpdateAt
  <2>2. MaxRangeSees' = MaxRangeSees
    BY <2>1 DEF MaxRangeSees
  <2>3. MaxRangeInv'
    BY <2>1, <2>2 DEF MaxRangeInv
  <2>4. MinSees' = MinSees \cup {bid.price}
    BY <1>0, <2>1 DEF MinSees
  <2>5. MinSees \subseteq Prices
    BY DEF MinSees
  <2>6. MinRangeInv'
    <3>1. CASE bid.price < min_price
      <4>1. min_price' = bid.price /\ min_price_idx' = idx
        BY <1>2, <3>1 DEF StoreMinRange
      <4>2. bid.price \in Nat /\ \A p \in MinSees : p \in Nat
        BY <1>0, <1>9, <2>1, <2>5
      <4>3. \A p \in MinSees' : min_price' <= p
        BY <1>0, <2>4, <3>1, <4>1, <4>2 DEF MinRangeInv
      <4>4. min_price' \in MinSees' /\ min_price_idx' = GetIndex(min_price')
        BY <1>0, <2>1, <2>4, <4>1
      <4> QED BY <4>3, <4>4 DEF MinRangeInv
    <3>2. CASE ~ (bid.price < min_price)
      <4>1. UNCHANGED <<min_price, min_price_idx>>
        BY <1>2, <3>2 DEF StoreMinRange
      <4> QED BY <1>0, <1>9, <2>1, <2>4, <2>5, <3>2, <4>1 DEF MinRangeInv
    <3> QED BY <3>1, <3>2
  <2> QED BY <2>3, <2>6
<1>3. CASE StoreMaxRange
  <2>1. /\ upc = "max_range" /\ upc' = "max_price"
        /\ UNCHANGED <<bid, traded, min_price, min_price_idx>>
    BY <1>3 DEF StoreMaxRange, UpdateAt
  <2>2. MinSees' = MinSees
    BY <2>1 DEF MinSees
  <2>3. MinRangeInv'
    BY <2>1, <2>2 DEF MinRangeInv
  <2>4. MaxRangeSees' = MaxRangeSees \cup {bid.price}
    BY <1>0, <2>1 DEF MaxRangeSees
  <2>5. MaxRangeSees \subseteq Prices
    BY DEF MaxRangeSees
  <2>6. MaxRangeInv'
    <3>1. CASE bid.price > max_price
      <4>1. max_price' = bid.price /\ max_price_idx' = idx
        BY <1>3, <3>1 DEF StoreMaxRange, Higher
      <4>2. bid.price \in Nat /\ \A p \in MaxRangeSees : p \in Nat
        BY <1>0, <1>9, <2>1, <2>5
      <4>3. \A p \in MaxRangeSees' : p <= max_price'
        BY <1>0, <2>4, <3>1, <4>1, <4>2 DEF MaxRangeInv
      <4>4. max_price' \in MaxRangeSees' /\ max_price_idx' = GetIndex(max_price')
        BY <1>0, <2>1, <2>4, <4>1
      <4> QED BY <4>3, <4>4 DEF MaxRangeInv
    <3>2. CASE ~ (bid.price > max_price)
      <4>1. UNCHANGED <<max_price, max_price_idx>>
        BY <1>3, <3>2 DEF StoreMaxRange, Higher
      <4> QED BY <1>0, <1>9, <2>1, <2>4, <2>5, <3>2, <4>1 DEF MaxRangeInv
    <3> QED BY <3>1, <3>2
  <2> QED BY <2>3, <2>6
<1>4. CASE StoreMaxPrice \/ StoreMaxIdx \/ StoreMinPrice \/ StoreMinIdx
  <2>1. /\ upc \notin {"idle", "min_range", "max_range"}
        /\ upc' \notin {"idle", "min_range", "max_range"}
        /\ UNCHANGED <<bid, traded, rangeVars>>
    BY <1>4 DEF StoreMaxPrice, StoreMaxIdx, StoreMinPrice, StoreMinIdx, UpdateAt
  <2>2. MinSees' = MinSees /\ MaxRangeSees' = MaxRangeSees
    BY <2>1 DEF MinSees, MaxRangeSees
  <2> QED BY <2>1, <2>2 DEF MinRangeInv, MaxRangeInv
<1>5. CASE StoreLast
  <2>1. /\ upc = "last" /\ upc' = "idle" /\ UNCHANGED <<bid, rangeVars>>
        /\ traded' = [traded EXCEPT ![bid.price] = bid.size]
    BY <1>5 DEF StoreLast, UpdateAt
  <2>2. bid.price \in Prices /\ bid.size > 0
    <3>1. bid.price \in Prices /\ traded[bid.price] < bid.size
      BY <1>0, <2>1
    <3>2. traded[bid.price] \in Nat
      BY <1>0, <3>1
    <3> QED BY <1>0, <3>1, <3>2
  <2>3. MinSees' = MinSees /\ MaxRangeSees' = MaxRangeSees
    BY <1>0, <2>1, <2>2 DEF MinSees, MaxRangeSees
  <2> QED BY <2>1, <2>3 DEF MinRangeInv, MaxRangeInv
<1> QED BY <1>1, <1>2, <1>3, <1>4, <1>5 DEF UpdateStep

LEMMA RangeKept == Base /\ RangeInv /\ [Next]_vars => RangeInv'
<1>1. RangeInv /\ (ReadStep \/ UNCHANGED vars) => RangeInv'
  <2> SUFFICES ASSUME RangeInv, ReadStep \/ UNCHANGED vars PROVE RangeInv'
    OBVIOUS
  <2>1. UNCHANGED <<upc, bid, traded, rangeVars>>
    BY DEF ReadStep, StartWalk, TestRange, ReadPrice, SumSlot, AddProduct, AddVolume,
           StartMaxTraded, ReadMaxIdx, ReadMaxSize, Return, ReadAt, vars
  <2> QED BY <2>1 DEF RangeInv, MinRangeInv, MaxRangeInv, MinSees, MaxRangeSees
<1> QED BY <1>1, RangeUpdated DEF Next

LEMMA InitRange == Init => RangeInv
<1> SUFFICES ASSUME Init PROVE RangeInv
  OBVIOUS
<1>1. MinSees = {} /\ MaxRangeSees = {}
  BY DEF Init, MinSees, MaxRangeSees
<1> QED BY <1>1 DEF Init, RangeInv, MinRangeInv, MaxRangeInv

\* The least and the greatest of a set of numbers are its Min and Max.
LEMMA ExtremesAre ==
  ASSUME NEW S \in SUBSET Int, NEW a \in S
  PROVE  /\ (\A x \in S : a <= x) => Min(S) = a
         /\ (\A x \in S : x <= a) => Max(S) = a
<1>1. ASSUME \A x \in S : a <= x PROVE Min(S) = a
  <2>1. Min(S) \in S /\ \A y \in S : Min(S) <= y
    BY <1>1 DEF Min
  <2>2. Min(S) <= a /\ a <= Min(S) /\ a \in Int /\ Min(S) \in Int
    BY <1>1, <2>1
  <2> QED BY <2>2
<1>2. ASSUME \A x \in S : x <= a PROVE Max(S) = a
  <2>1. Max(S) \in S /\ \A y \in S : Max(S) >= y
    BY <1>2 DEF Max
  <2>2. a <= Max(S) /\ Max(S) <= a /\ a \in Int /\ Max(S) \in Int
    BY <1>2, <2>1
  <2> QED BY <2>2
<1> QED BY <1>1, <1>2

\* With trades on the ladder below its highest price, the range runs
\* between two updates exactly from the lowest to the highest traded slot,
\* whatever order the trades came in.
THEOREM RangeRight ==
  ASSUME OnLadder
  PROVE  Spec => []RangeExact
<1>1. Base /\ RangeInv => RangeExact
  <2> SUFFICES ASSUME Base, RangeInv, upc = "idle" PROVE RangeExact
    BY DEF RangeExact
  <2> DEFINE on == {q \in Prices : traded[q] > 0}
             used == {GetIndex(p) : p \in on}
  <2> SUFFICES ASSUME used # {}
               PROVE  min_price_idx = Min(used) /\ max_price_idx = Max(used)
    BY DEF RangeExact
  <2>1. on \subseteq Prices /\ on # {} /\ MinSees = on /\ MaxRangeSees = on
    BY DEF MinSees, MaxRangeSees
  <2> HIDE DEF on
  <2>2. \A p \in Prices : /\ p \in Nat /\ p < TopPrice /\ NoPrice < p
                          /\ GetIndex(p) \in Nat
    BY PriceFacts
  <2>3. min_price \in on /\ min_price_idx = GetIndex(min_price)
    BY <2>1, <2>2, PriceFacts DEF RangeInv, MinRangeInv
  <2>4. max_price \in on /\ max_price_idx = GetIndex(max_price)
    BY <2>1, <2>2, PriceFacts DEF RangeInv, MaxRangeInv
  <2>5. \A p \in on : min_price <= p /\ p <= max_price
    BY <2>1 DEF RangeInv, MinRangeInv, MaxRangeInv
  <2>6. \A p, q \in on : p <= q => GetIndex(p) <= GetIndex(q)
    BY <2>1, <2>2, OwnSlots
  <2>7. used \in SUBSET Int /\ min_price_idx \in used /\ max_price_idx \in used
    BY <2>1, <2>2, <2>3, <2>4
  <2>8. \A x \in used : min_price_idx <= x /\ x <= max_price_idx
    BY <2>3, <2>4, <2>5, <2>6
  <2> HIDE DEF used
  <2> QED BY <2>7, <2>8, ExtremesAre
<1> QED BY <1>1, InitBase, BaseKept, InitRange, RangeKept, PTL DEF Spec

-----------------------------------------------------------------------------
\* The slots: each has its price, and the total of it.

BookInv ==
    /\ \A i \in Slots : book[i].price = Ladder[i]
    /\ \A p \in Prices : book[GetIndex(p)].size =
           IF upc # "idle" /\ p = bid.price THEN bid.size ELSE traded[p]

\* An update changes one slot, whose size grows.
LEMMA BookUpdated ==
  ASSUME OnLadder, Base, BookInv, UpdateStep
  PROVE  BookInv' /\ \A i \in Slots : book[i].size <= book'[i].size
<1>0. /\ book \in [Slots -> Bids] /\ traded \in [Prices -> Nat]
      /\ upc # "idle" => bid.price \in Prices
  BY DEF Base, Typed, Pending
<1>1. ASSUME NEW price \in Prices, NEW size \in 1 .. MaxSize, StoreBid(price, size)
      PROVE  BookInv' /\ \A i \in Slots : book[i].size <= book'[i].size
  <2>1. /\ upc = "idle" /\ upc' = "min_range" /\ traded[price] < size
        /\ bid' = [price |-> price, size |-> size]
        /\ book' = [book EXCEPT ![GetIndex(price)] = bid'] /\ traded' = traded
    BY <1>1 DEF StoreBid, UpdateAt
  <2>2. GetIndex(price) \in Slots /\ Ladder[GetIndex(price)] = price
    BY PriceFacts, OwnSlots
  <2>3. /\ book'[GetIndex(price)] = bid'
        /\ \A i \in Slots : i # GetIndex(price) => book'[i] = book[i]
    BY <1>0, <2>1, <2>2
  <2>4. \A i \in Slots : book'[i].price = Ladder[i]
    BY <2>1, <2>2, <2>3 DEF BookInv
  <2>5. ASSUME NEW p \in Prices, p # price
        PROVE  GetIndex(p) \in Slots /\ GetIndex(p) # GetIndex(price)
    <3>1. Ladder[GetIndex(p)] = p
      BY OwnSlots
    <3> QED BY <2>2, <2>5, <3>1, PriceFacts
  <2>6. \A p \in Prices : book'[GetIndex(p)].size = IF p = price THEN size ELSE traded[p]
    BY <2>1, <2>3, <2>5 DEF BookInv
  <2>7. BookInv'
    BY <2>1, <2>4, <2>6 DEF BookInv
  <2>8. \A i \in Slots : book[i].size \in Nat
    BY <1>0 DEF Bids
  <2>9. book[GetIndex(price)].size <= book'[GetIndex(price)].size
    <3>1. book[GetIndex(price)].size = traded[price]
      BY <2>1 DEF BookInv
    <3>2. traded[price] \in Nat /\ size \in Nat
      BY <1>0
    <3> QED BY <2>1, <2>3, <3>1, <3>2
  <2> QED BY <2>3, <2>7, <2>8, <2>9
<1>2. CASE StoreLast
  <2>1. /\ upc = "last" /\ upc' = "idle" /\ UNCHANGED <<book, bid>>
        /\ traded' = [traded EXCEPT ![bid.price] = bid.size]
    BY <1>2 DEF StoreLast, UpdateAt
  <2>2. \A p \in Prices : traded'[p] = IF p = bid.price THEN bid.size ELSE traded[p]
    BY <1>0, <2>1
  <2>3. \A i \in Slots : book[i].size \in Nat
    BY <1>0 DEF Bids
  <2> QED BY <2>1, <2>2, <2>3 DEF BookInv
<1>3. CASE StoreMinRange \/ StoreMaxRange \/ StoreMaxPrice \/ StoreMaxIdx
              \/ StoreMinPrice \/ StoreMinIdx
  <2>1. upc # "idle" /\ upc' # "idle" /\ UNCHANGED <<book, bid, traded>>
    BY <1>3 DEF StoreMinRange, StoreMaxRange, StoreMaxPrice, StoreMaxIdx, StoreMinPrice,
               StoreMinIdx, UpdateAt
  <2>2. \A i \in Slots : book[i].size \in Nat
    BY <1>0 DEF Bids
  <2> QED BY <2>1, <2>2 DEF BookInv
<1> QED BY <1>1, <1>2, <1>3 DEF UpdateStep

\* A strategy changes nothing of the book.
LEMMA ReadOnly ==
  ReadStep \/ UNCHANGED vars => UNCHANGED written
BY DEF ReadStep, StartWalk, TestRange, ReadPrice, SumSlot, AddProduct, AddVolume,
       StartMaxTraded, ReadMaxIdx, ReadMaxSize, Return, ReadAt, vars

LEMMA BookKept ==
  ASSUME OnLadder, Base, BookInv, [Next]_vars
  PROVE  BookInv'
<1>1. CASE UNCHANGED written
  BY <1>1 DEF BookInv
<1> QED BY <1>1, BookUpdated, ReadOnly DEF Next

LEMMA InitBook == Init => BookInv
BY PriceFacts DEF Init, BookInv

-----------------------------------------------------------------------------
\* get_max_traded.

\* No total is larger than the size in the slot the most traded price is said to
\* be at, even while the slot is behind the price; and there is a largest total.
SlotInv ==
    /\ \A p \in Prices : traded[p] <= book[max_traded_price_idx].size
    /\ \E p \in Prices : \A q \in Prices : traded[q] <= traded[p]

MaxReadInv ==
    /\ rpc \in {"max_idx", "max_size", "max_read"} => known \in Nat
    /\ rpc = "max_idx" => \E p \in Prices : known <= traded[p]
    /\ rpc = "max_size" => known <= book[at].size
    /\ rpc = "max_read" => known <= size_read

\* An update keeps both: sizes and totals only grow.
LEMMA SlotUpdated ==
  ASSUME OnLadder, Base, MaxInv, BookInv, SlotInv, UpdateStep
  PROVE  SlotInv' /\ \A p \in Prices : traded[p] <= traded'[p]
<1>0. /\ book \in [Slots -> Bids] /\ book' \in [Slots -> Bids]
      /\ traded \in [Prices -> Nat] /\ traded' \in [Prices -> Nat]
      /\ max_traded_price_idx \in Slots /\ max_size \in Nat
  BY UpdateTyped DEF Base, Typed
<1>1. \A i \in Slots : /\ book[i].size \in Nat /\ book'[i].size \in Nat
                       /\ book[i].size <= book'[i].size
  BY <1>0, BookUpdated DEF Bids
<1>2. \A p \in Prices : traded[p] \in Nat
  BY <1>0
<1>3. CASE StoreMaxIdx
  <2>1. /\ upc = "max_idx" /\ max_traded_price_idx' = idx /\ UNCHANGED <<book, traded, bid>>
    BY <1>3 DEF StoreMaxIdx, UpdateAt
  <2>2. bid.price \in Prices /\ idx = GetIndex(bid.price) /\ traded[bid.price] < bid.size
    BY <2>1 DEF Base, Pending
  <2>3. book[idx].size = bid.size
    BY <2>1, <2>2 DEF BookInv
  <2>4. max_size = bid.size
    <3>1. MaxSees(bid.price) = bid.size /\ bid.size <= max_size
      BY <2>1, <2>2 DEF MaxInv, MaxSees
    <3>2. traded[bid.price] \in Nat /\ bid.size \in Nat
      BY <1>2, <2>2 DEF Base, Typed, Bids
    <3>3. max_size # 0
      BY <1>0, <2>2, <3>1, <3>2
    <3>4. max_traded_price = bid.price
      BY <2>1, <3>3 DEF MaxInv
    <3> QED BY <3>1, <3>3, <3>4 DEF MaxInv
  <2>5. \A p \in Prices : p # bid.price => traded[p] <= bid.size
    BY <2>1, <2>4 DEF MaxInv, MaxSees
  <2>6. bid.size \in Nat
    BY DEF Base, Typed, Bids
  <2>7. \A p \in Prices : traded[p] <= bid.size
    BY <1>2, <2>2, <2>5, <2>6
  <2> QED BY <1>2, <2>1, <2>3, <2>7 DEF SlotInv
<1>4. CASE StoreLast
  <2>1. /\ upc = "last" /\ UNCHANGED <<book, max_traded_price_idx>>
        /\ traded' = [traded EXCEPT ![bid.price] = bid.size]
    BY <1>4 DEF StoreLast, UpdateAt
  <2>2. bid.price \in Prices /\ traded[bid.price] < bid.size /\ bid.size \in Nat
    BY <2>1 DEF Base, Pending, Typed, Bids
  <2>3. /\ traded'[bid.price] = bid.size
        /\ \A p \in Prices : p # bid.price => traded'[p] = traded[p]
    BY <1>0, <2>1, <2>2
  <2>4. \A p \in Prices : traded[p] <= traded'[p]
    BY <1>2, <2>2, <2>3
  <2>5. bid.size <= max_size
    BY <2>1, <2>2 DEF MaxInv, MaxSees
  <2>6. /\ max_traded_price \in Prices
        /\ max_size = MaxSees(max_traded_price)
        /\ max_traded_price_idx = GetIndex(max_traded_price)
    <3>1. traded[bid.price] \in Nat
      BY <1>2, <2>2
    <3>2. max_size # 0
      BY <1>0, <2>2, <2>5, <3>1
    <3> QED BY <2>1, <3>2 DEF MaxInv
  <2>7. book[max_traded_price_idx].size = max_size
    BY <2>1, <2>6 DEF BookInv, MaxSees
  <2>8. \A p \in Prices : traded'[p] <= book[max_traded_price_idx].size
    BY <2>2, <2>3, <2>5, <2>7 DEF SlotInv
  <2>9. PICK p \in Prices : \A q \in Prices : traded[q] <= traded[p]
    BY DEF SlotInv
  <2>10. \E r \in Prices : \A q \in Prices : traded'[q] <= traded'[r]
    <3>1. CASE traded[p] <= bid.size
      <4>1. \A q \in Prices : traded'[q] <= bid.size
        BY <1>2, <2>2, <2>3, <2>9, <3>1
      <4> QED BY <2>2, <2>3, <4>1
    <3>2. CASE ~ (traded[p] <= bid.size)
      <4>1. p # bid.price /\ bid.size <= traded[p]
        BY <1>2, <2>2, <3>2
      <4>2. \A q \in Prices : traded'[q] <= traded[p]
        BY <1>2, <2>2, <2>3, <2>9, <4>1
      <4> QED BY <2>3, <4>1, <4>2
    <3> QED BY <3>1, <3>2
  <2> QED BY <2>1, <2>4, <2>8, <2>10 DEF SlotInv
<1>5. CASE ~ (StoreMaxIdx \/ StoreLast)
  <2>1. UNCHANGED <<traded, max_traded_price_idx>>
    BY <1>5 DEF UpdateStep, StoreBid, StoreMinRange, StoreMaxRange, StoreMaxPrice,
               StoreMinPrice, StoreMinIdx
  <2>2. ASSUME NEW p \in Prices
        PROVE  traded[p] <= book'[max_traded_price_idx].size
    <3> DEFINE s == book[max_traded_price_idx].size
               s2 == book'[max_traded_price_idx].size
    <3>1. s \in Nat /\ s2 \in Nat /\ s <= s2
      BY <1>0, <1>1
    <3>2. traded[p] \in Nat /\ traded[p] <= s
      BY <1>2 DEF SlotInv
    <3> HIDE DEF s, s2
    <3>3. traded[p] <= s2
      BY <3>1, <3>2
    <3> QED BY <3>3 DEF s2
  <2> QED BY <1>2, <2>1, <2>2 DEF SlotInv
<1> QED BY <1>3, <1>4, <1>5

\* A strategy's call holds on to what it found.
LEMMA MaxReadKept ==
  ASSUME OnLadder, Base, MaxInv, BookInv, SlotInv, MaxReadInv, [Next]_vars
  PROVE  SlotInv' /\ MaxReadInv'
<1>0. /\ book \in [Slots -> Bids] /\ traded \in [Prices -> Nat]
      /\ max_traded_price_idx \in Slots
  BY DEF Base, Typed
<1>1. \A i \in Slots : book[i].size \in Nat
  BY <1>0 DEF Bids
<1>2. \A p \in Prices : traded[p] \in Nat
  BY <1>0
<1>3. CASE UpdateStep
  <2>1. SlotInv' /\ \A p \in Prices : traded[p] <= traded'[p]
    BY <1>3, SlotUpdated
  <2>2. \A i \in Slots : book[i].size <= book'[i].size
    BY <1>3, BookUpdated
  <2>3. /\ \A i \in Slots : book'[i].size \in Nat
        /\ \A p \in Prices : traded'[p] \in Nat
    BY <1>3, UpdateTyped DEF Base, Typed, Bids
  <2>4. UNCHANGED readerVars
    BY <1>3 DEF UpdateStep, StoreBid, StoreMinRange, StoreMaxRange, StoreMaxPrice,
               StoreMaxIdx, StoreMinPrice, StoreMinIdx, StoreLast
  <2>5. rpc = "max_idx" => \E p \in Prices : known <= traded'[p]
    <3> SUFFICES ASSUME rpc = "max_idx" PROVE \E p \in Prices : known <= traded'[p]
      OBVIOUS
    <3>1. PICK p \in Prices : known <= traded[p]
      BY DEF MaxReadInv
    <3>2. known \in Nat
      BY DEF MaxReadInv
    <3> QED BY <1>2, <2>1, <2>3, <3>1, <3>2
  <2>6. rpc = "max_size" => known <= book'[at].size
    <3> SUFFICES ASSUME rpc = "max_size" PROVE known <= book'[at].size
      OBVIOUS
    <3>1. at \in Slots
      BY DEF Base, AtInv
    <3>2. known \in Nat /\ known <= book[at].size
      BY DEF MaxReadInv
    <3> QED BY <1>1, <2>2, <2>3, <3>1, <3>2
  <2> QED BY <2>1, <2>4, <2>5, <2>6 DEF MaxReadInv
<1>4. CASE ReadStep
  <2>1. UNCHANGED written
    BY <1>4, ReadOnly
  <2>2. SlotInv'
    BY <2>1 DEF SlotInv
  <2>3. CASE StartMaxTraded
    <3> DEFINE S == {traded[p] : p \in Prices}
    <3>1. PICK p \in Prices : \A q \in Prices : traded[q] <= traded[p]
      BY DEF SlotInv
    <3>2. S \in SUBSET Int /\ traded[p] \in S /\ \A x \in S : x <= traded[p]
      BY <1>2, <3>1
    <3>3. known' = Max(S) /\ rpc' = "max_idx"
      BY <2>3 DEF StartMaxTraded, ReadAt
    <3> HIDE DEF S
    <3>4. known' = traded[p]
      BY <3>2, <3>3, ExtremesAre
    <3> QED BY <1>2, <2>1, <2>2, <3>3, <3>4 DEF MaxReadInv
  <2>4. CASE ReadMaxIdx
    <3>1. /\ rpc = "max_idx" /\ rpc' = "max_size" /\ at' = max_traded_price_idx
          /\ known' = known
      BY <2>4 DEF ReadMaxIdx, ReadAt
    <3>2. PICK p \in Prices : known <= traded[p]
      BY <3>1 DEF MaxReadInv
    <3>3. traded[p] <= book[max_traded_price_idx].size
      BY DEF SlotInv
    <3>4. known \in Nat
      BY <3>1 DEF MaxReadInv
    <3>5. known <= book[max_traded_price_idx].size
      BY <1>0, <1>1, <1>2, <3>2, <3>3, <3>4
    <3> QED BY <2>1, <2>2, <3>1, <3>4, <3>5 DEF MaxReadInv
  <2>5. CASE ReadMaxSize
    BY <2>2, <2>5 DEF ReadMaxSize, ReadAt, MaxReadInv
  <2>6. CASE ~ (StartMaxTraded \/ ReadMaxIdx \/ ReadMaxSize)
    <3>1. rpc' \notin {"max_idx", "max_size", "max_read"}
      BY <1>4, <2>6 DEF ReadStep, StartWalk, TestRange, ReadPrice, SumSlot, AddProduct,
                 AddVolume, Return, ReadAt
    <3> QED BY <2>2, <3>1 DEF MaxReadInv
  <2> QED BY <2>3, <2>4, <2>5, <2>6
<1>5. CASE UNCHANGED vars
  BY <1>5 DEF vars, SlotInv, MaxReadInv
<1> QED BY <1>3, <1>4, <1>5 DEF Next

LEMMA InitSlots == Init => SlotInv /\ MaxReadInv
<1> SUFFICES ASSUME Init PROVE SlotInv /\ MaxReadInv
  OBVIOUS
<1>1. /\ book[0].size = 0 /\ max_traded_price_idx = 0
      /\ \A p \in Prices : traded[p] = 0
  BY PriceFacts DEF Init
<1>2. PICK p \in Prices : TRUE
  OBVIOUS
<1>3. SlotInv
  BY <1>1, <1>2 DEF SlotInv
<1> QED BY <1>3 DEF Init, MaxReadInv

\* The size get_max_traded returns is never below the largest total known
\* when it was called, though it loads price, slot and size apart.
THEOREM MaxReadRight ==
  ASSUME OnLadder
  PROVE  Spec => []MaxReadNotBelow
<1> DEFINE J == Base /\ MaxInv /\ BookInv /\ SlotInv /\ MaxReadInv
<1>1. Init => J
  BY InitBase, InitMax, InitBook, InitSlots
<1>2. J /\ [Next]_vars => J'
  BY BaseKept, MaxKept, BookKept, MaxReadKept
<1>3. J => MaxReadNotBelow
  <2> SUFFICES ASSUME MaxReadInv, Base, rpc = "max_read" PROVE size_read >= known
    BY DEF MaxReadNotBelow
  <2>1. known \in Nat /\ size_read \in Nat /\ known <= size_read
    BY DEF MaxReadInv, Base, Typed
  <2> QED BY <2>1
<1> HIDE DEF J
<1> QED BY <1>1, <1>2, <1>3, PTL DEF Spec

-----------------------------------------------------------------------------
\* vwap.

\* The walk's products are no more than its volumes at the highest price traded; in
\* the middle of a slot, with the volume it is still to add.
WalkInv ==
    /\ rpc \in {"price", "product", "volume"} => at <= max_price_idx
    /\ rpc \in {"product", "volume"} => price_read <= max_price
    /\ rpc \in {"test", "price", "product", "walked"} => tot_prod <= max_price * tot_vol
    /\ rpc = "volume" => tot_prod <= max_price * (tot_vol + book[at].size)

\* A product of larger numbers is larger.
LEMMA ProductGrows ==
  ASSUME NEW a \in Nat, NEW b \in Nat, NEW c \in Nat, NEW d \in Nat, a <= b, c <= d
  PROVE  a * c \in Nat /\ b * d \in Nat /\ a * c <= b * d
  BY SMT

LEMMA ProductSum ==
  ASSUME NEW a \in Nat, NEW b \in Nat, NEW c \in Nat
  PROVE  a * (b + c) = a * b + a * c
  BY SMT

\* The upper end of the range only moves up.
LEMMA RangeGrows ==
  ASSUME OnLadder, Base, RangeInv, UpdateStep
  PROVE  max_price <= max_price' /\ max_price_idx <= max_price_idx'
<1>1. max_price \in Nat /\ max_price_idx \in Int /\ Slots \subseteq Nat
  BY PriceFacts DEF Base, Typed
<1>2. CASE StoreMaxRange /\ Higher(bid.price)
  <2>1. /\ upc = "max_range" /\ max_price' = bid.price /\ max_price_idx' = idx
        /\ max_price < bid.price
    BY <1>1, <1>2 DEF StoreMaxRange, UpdateAt, Higher
  <2>2. bid.price \in Prices /\ idx = GetIndex(bid.price)
    BY <2>1 DEF Base, Pending
  <2>3. bid.price \in Nat /\ idx \in Nat
    BY <1>1, <2>2, PriceFacts
  <2>4. CASE max_price_idx = -1
    BY <1>1, <2>1, <2>3, <2>4
  <2>5. CASE max_price \in MaxRangeSees /\ max_price_idx = GetIndex(max_price)
    <3>1. max_price \in Prices
      BY <2>5 DEF MaxRangeSees
    <3>2. GetIndex(max_price) < GetIndex(bid.price)
      BY <2>1, <2>2, <3>1, OwnSlots
    <3>3. max_price_idx < idx
      BY <2>2, <2>5, <3>2
    <3> QED BY <1>1, <2>1, <2>3, <3>3
  <2> QED BY <2>4, <2>5 DEF RangeInv, MaxRangeInv
<1>3. CASE ~ (StoreMaxRange /\ Higher(bid.price))
  <2>1. UNCHANGED <<max_price, max_price_idx>>
    BY <1>3 DEF UpdateStep, StoreBid, StoreMinRange, StoreMaxRange, StoreMaxPrice,
               StoreMaxIdx, StoreMinPrice, StoreMinIdx, StoreLast
  <2> QED BY <1>1, <2>1
<1> QED BY <1>2, <1>3

\* What a walk reads while the book changes.
LEMMA WalkUpdated ==
  ASSUME OnLadder, Base, RangeInv, BookInv, WalkInv, UpdateStep
  PROVE  WalkInv'
<1>1. /\ max_price \in Nat /\ max_price' \in Nat /\ max_price_idx \in Int
      /\ max_price_idx' \in Int /\ at \in Nat
      /\ tot_prod \in Nat /\ tot_vol \in Nat /\ price_read \in Nat
      /\ book \in [Slots -> Bids] /\ book' \in [Slots -> Bids]
  <2>1. Typed /\ Typed'
    BY UpdateTyped DEF Base
  <2>2. Slots \subseteq Int
    BY PriceFacts
  <2>3. max_price_idx \in Int /\ max_price_idx' \in Int
    BY <2>1, <2>2 DEF Typed
  <2> QED BY <2>1, <2>3 DEF Typed
<1>2. max_price <= max_price' /\ max_price_idx <= max_price_idx'
  BY RangeGrows
<1>3. UNCHANGED readerVars
  BY DEF UpdateStep, StoreBid, StoreMinRange, StoreMaxRange, StoreMaxPrice,
         StoreMaxIdx, StoreMinPrice, StoreMinIdx, StoreLast
<1>4. rpc \in {"price", "product", "volume"} => at <= max_price_idx'
  BY <1>1, <1>2 DEF WalkInv
<1>5. rpc \in {"product", "volume"} => price_read <= max_price'
  BY <1>1, <1>2 DEF WalkInv
<1>6. rpc \in {"test", "price", "product", "walked"} => tot_prod <= max_price' * tot_vol
  <2> DEFINE new == max_price'
  <2>1. new \in Nat /\ max_price <= new /\ tot_vol <= tot_vol
    BY <1>1, <1>2
  <2> HIDE DEF new
  <2>2. /\ max_price * tot_vol <= new * tot_vol
        /\ max_price * tot_vol \in Nat /\ new * tot_vol \in Nat
    BY <1>1, <2>1, ProductGrows
  <2>3. rpc \in {"test", "price", "product", "walked"} => tot_prod <= new * tot_vol
    BY <1>1, <2>2 DEF WalkInv
  <2> QED BY <2>3 DEF new
<1>7. rpc = "volume" => tot_prod <= max_price' * (tot_vol + book'[at].size)
  <2> SUFFICES ASSUME rpc = "volume"
               PROVE  tot_prod <= max_price' * (tot_vol + book'[at].size)
    OBVIOUS
  <2> DEFINE s == book[at].size
             s2 == book'[at].size
  <2>1. at \in Slots
    BY DEF Base, AtInv
  <2>2. s \in Nat /\ s2 \in Nat
    BY <1>1, <2>1 DEF Bids
  <2>3. s <= s2
    BY <2>1, BookUpdated
  <2>4. tot_prod <= max_price * (tot_vol + s)
    BY DEF WalkInv
  <2> HIDE DEF s, s2
  <2>5. tot_vol + s \in Nat /\ tot_vol + s2 \in Nat /\ tot_vol + s <= tot_vol + s2
    BY <1>1, <2>2, <2>3
  <2>6. /\ max_price * (tot_vol + s) <= max_price' * (tot_vol + s2)
        /\ max_price * (tot_vol + s) \in Nat /\ max_price' * (tot_vol + s2) \in Nat
    BY <1>1, <1>2, <2>5, ProductGrows
  <2>7. tot_prod <= max_price' * (tot_vol + s2)
    BY <1>1, <2>4, <2>6
  <2> QED BY <2>7 DEF s2
<1> QED BY <1>3, <1>4, <1>5, <1>6, <1>7 DEF WalkInv

\* The steps of the walk itself.
LEMMA WalkRead ==
  ASSUME OnLadder, Base, RangeInv, BookInv, WalkInv, ReadStep
  PROVE  WalkInv'
<1>1. /\ max_price \in Nat /\ at \in Nat
      /\ tot_prod \in Nat /\ tot_vol \in Nat /\ price_read \in Nat
      /\ book \in [Slots -> Bids]
  BY DEF Base, Typed
<1>2. UNCHANGED <<book, max_price, max_price_idx>>
  BY ReadOnly
<1>3. CASE StartWalk
  <2>1. rpc' = "test" /\ tot_prod' = 0 /\ tot_vol' = 1
    BY <1>3 DEF StartWalk, ReadAt
  <2>2. 0 <= max_price * 1
    BY <1>1
  <2> QED BY <1>2, <2>1, <2>2 DEF WalkInv
<1>4. CASE TestRange
  <2>1. rpc = "test" /\ UNCHANGED <<at, tot_prod, tot_vol>>
    BY <1>4 DEF TestRange, ReadAt
  <2>2. \/ rpc' = "price" /\ at <= max_price_idx
        \/ rpc' = "walked"
    BY <1>4 DEF TestRange, ReadAt
  <2> QED BY <1>2, <2>1, <2>2 DEF WalkInv
<1>5. CASE ReadPrice
  <2>1. /\ rpc = "price" /\ rpc' = "product" /\ price_read' = book[at].price
        /\ UNCHANGED <<at, tot_prod, tot_vol>>
    BY <1>5 DEF ReadPrice, ReadAt
  <2>2. at \in Slots /\ at <= max_price_idx
    BY <2>1 DEF Base, AtInv, WalkInv
  <2>3. max_price_idx # -1
    BY <1>1, <2>2
  <2>4. max_price \in Prices /\ max_price_idx = GetIndex(max_price)
    BY <2>3 DEF RangeInv, MaxRangeInv, MaxRangeSees
  <2>5. max_price_idx \in Slots /\ Ladder[max_price_idx] = max_price
    BY <2>4, PriceFacts, OwnSlots
  <2>6. book[at].price = Ladder[at]
    BY <2>2 DEF BookInv
  <2>7. Ladder[at] \in Int /\ Ladder[at] <= Ladder[max_price_idx]
    <3>1. CASE at = max_price_idx
      BY <2>2, <3>1, LadderRange
    <3>2. CASE at # max_price_idx
      <4>1. max_price_idx \in Nat
        BY <2>5, PriceFacts
      <4>2. at < max_price_idx
        BY <1>1, <2>2, <3>2, <4>1
      <4>3. Ladder[at] < Ladder[max_price_idx]
        BY <2>2, <2>5, <4>2, LadderRises
      <4>4. Ladder[at] \in Int /\ Ladder[max_price_idx] \in Int
        BY <2>2, <2>5, LadderRange
      <4> QED BY <4>3, <4>4
    <3> QED BY <3>1, <3>2
  <2>8. price_read' <= max_price
    BY <2>1, <2>5, <2>6, <2>7
  <2> QED BY <1>2, <2>1, <2>2, <2>8 DEF WalkInv
<1>6. CASE SumSlot
  <2> DEFINE s == book[at].size
  <2>1. at \in Slots
    BY <1>6 DEF SumSlot, AddProduct, AddVolume, ReadAt, Base, AtInv
  <2>2. s \in Nat
    BY <1>1, <2>1 DEF Bids
  <2>3. CASE AddProduct("product", "volume") /\ UNCHANGED at
    <3>1. /\ rpc = "product" /\ rpc' = "volume" /\ tot_prod' = tot_prod + price_read * s
          /\ UNCHANGED <<at, tot_vol, price_read>>
      BY <2>3 DEF AddProduct, ReadAt
    <3>2. /\ at <= max_price_idx /\ price_read <= max_price
          /\ tot_prod <= max_price * tot_vol
      BY <3>1 DEF WalkInv
    <3> HIDE DEF s
    <3>3. price_read * s <= max_price * s /\ price_read * s \in Nat /\ max_price * s \in Nat
      BY <1>1, <2>2, <3>2, ProductGrows
    <3>4. max_price * (tot_vol + s) = max_price * tot_vol + max_price * s
      BY <1>1, <2>2, ProductSum
    <3>5. max_price * tot_vol \in Nat
      BY <1>1, ProductGrows
    <3>6. tot_prod' <= max_price * (tot_vol + s)
      BY <1>1, <3>1, <3>2, <3>3, <3>4, <3>5
    <3> QED BY <1>2, <3>1, <3>2, <3>6 DEF WalkInv, s
  <2>4. CASE AddVolume("volume", "test") /\ at' = at + 1
    <3>1. rpc = "volume" /\ rpc' = "test" /\ tot_vol' = tot_vol + s /\ tot_prod' = tot_prod
      BY <2>4 DEF AddVolume, ReadAt
    <3>2. tot_prod <= max_price * (tot_vol + s)
      BY <3>1 DEF WalkInv
    <3> QED BY <1>2, <3>1, <3>2 DEF WalkInv
  <2> QED BY <1>6, <2>3, <2>4 DEF SumSlot
<1>7. CASE StartMaxTraded \/ ReadMaxIdx \/ ReadMaxSize \/ Return
  <2>1. rpc' \in {"max_idx", "max_size", "max_read", "idle"}
    BY <1>7 DEF StartMaxTraded, ReadMaxIdx, ReadMaxSize, Return, ReadAt
  <2> QED BY <2>1 DEF WalkInv
<1> QED BY <1>3, <1>4, <1>5, <1>6, <1>7 DEF ReadStep

LEMMA WalkKept ==
  ASSUME OnLadder, Base, RangeInv, BookInv, WalkInv, [Next]_vars
  PROVE  WalkInv'
<1>1. CASE UNCHANGED vars
  BY <1>1 DEF vars, WalkInv
<1> QED BY <1>1, WalkUpdated, WalkRead DEF Next

\* The average of a walk is no higher than the highest price traded,
\* though prices, sizes and the range change under it and a size is loaded twice.
THEOREM WalkBelowMax ==
  ASSUME OnLadder
  PROVE  Spec => []WalkNotAboveMax
<1> DEFINE J == Base /\ RangeInv /\ BookInv /\ WalkInv
<1>1. Init => J
  <2>1. Init => WalkInv
    BY DEF Init, WalkInv
  <2> QED BY <2>1, InitBase, InitRange, InitBook
<1>2. J /\ [Next]_vars => J'
  BY BaseKept, RangeKept, BookKept, WalkKept
<1>3. J => WalkNotAboveMax
  BY DEF WalkInv, WalkNotAboveMax
<1> HIDE DEF J
<1> QED BY <1>1, <1>2, <1>3, PTL DEF Spec

-----------------------------------------------------------------------------
\* The volume of a walk.

\* What the walk is still to sum, and what it has left behind.
Rest == {i \in Slots : at <= i /\ i <= max_price_idx}
Behind == {i \in Slots : i < at}

\* What was traded when the walk began is in its sum or still ahead of it, and its sum
\* is in the slots behind it, whose sizes only grow.  (At "walked" the end of the range
\* may have moved on again.)
VolumeInv ==
    rpc \in {"test", "price", "product", "volume", "walked"} =>
        /\ known \in Nat /\ tot_vol >= 1
        /\ rpc # "walked" => known <= tot_vol - 1 + Sum(Sizes, Rest)
        /\ rpc = "walked" => known <= tot_vol - 1
        /\ tot_vol - 1 <= Sum(Sizes, Behind)

\* Sets of slots and sums over them.
LEMMA SlotSums ==
  ASSUME Base
  PROVE  /\ IsFiniteSet(Slots) /\ \A i \in Slots : Sizes[i] \in Nat /\ Sizes[i] = book[i].size
         /\ \A S \in SUBSET Slots : IsFiniteSet(S) /\ Sum(Sizes, S) \in Nat
<1>1. IsFiniteSet(Slots)
  BY Limits, FS_Interval, SMT DEF Slots
<1>2. \A i \in Slots : Sizes[i] \in Nat /\ Sizes[i] = book[i].size
  BY DEF Base, Typed, Bids, Sizes
<1>3. \A S \in SUBSET Slots : IsFiniteSet(S) /\ Sum(Sizes, S) \in Nat
  <2> TAKE S \in SUBSET Slots
  <2>1. IsFiniteSet(S)
    BY <1>1, FS_Subset
  <2> QED BY <1>2, <2>1, SumSplits
<1> QED BY <1>1, <1>2, <1>3

\* Sizes that grow, over slots that become more, have a growing sum.
LEMMA SumsGrow ==
  ASSUME NEW S \in SUBSET Slots, NEW T \in SUBSET S, NEW f, NEW g, IsFiniteSet(S),
         \A i \in Slots : f[i] \in Nat /\ g[i] \in Nat /\ f[i] <= g[i]
  PROVE  Sum(f, T) <= Sum(g, S)
<1> DEFINE h == [i \in Slots |-> i]
<1>1. \A i \in T : h[i] = i
  OBVIOUS
<1>2. IsFiniteSet(T)
  BY FS_Subset
<1> HIDE DEF h
<1>3. \A i \in T : h[i] \in S /\ f[i] <= g[h[i]]
  BY <1>1
<1>4. \A i, j \in T : i # j => h[i] # h[j]
  BY <1>1
<1>5. (\A i \in T : f[i] \in Nat) /\ (\A i \in S : g[i] \in Nat)
  OBVIOUS
<1> QED BY <1>2, <1>3, <1>4, <1>5, SumBelow

\* All that is traded is between the ends of the range, in slots as large.
LEMMA TradedInRange ==
  ASSUME OnLadder, Base, RangeInv, BookInv
  PROVE  Total(traded) <=
             Sum(Sizes, {i \in Slots : min_price_idx <= i /\ i <= max_price_idx})
<1> DEFINE S == {p \in Prices : traded[p] > 0}
           T == {i \in Slots : min_price_idx <= i /\ i <= max_price_idx}
           h == [p \in Prices |-> GetIndex(p)]
<1>1. /\ traded \in [Prices -> Nat] /\ bid.size \in Nat
      /\ min_price \in Nat /\ max_price \in Nat
  BY DEF Base, Typed, Bids
<1>2. IsFiniteSet(S)
  <2>1. IsFiniteSet(Lowest .. Highest)
    BY Limits, FS_Interval
  <2> QED BY <2>1, FS_Subset
<1>3. IsFiniteSet(T)
  BY SlotSums
<1>4. \A p \in Prices : /\ p \in Nat /\ p < TopPrice /\ NoPrice < p
                        /\ GetIndex(p) \in Slots /\ GetIndex(p) \in Nat
  BY PriceFacts
<1>5. \A p, q \in Prices : p <= q => GetIndex(p) <= GetIndex(q)
  BY <1>4, OwnSlots
<1>6. ASSUME NEW p \in S
      PROVE  h[p] \in T /\ traded[p] <= Sizes[h[p]]
  <2>1. p \in Prices /\ p \in MinSees /\ p \in MaxRangeSees
    BY DEF MinSees, MaxRangeSees
  <2>2. min_price <= p /\ p <= max_price
    BY <2>1 DEF RangeInv, MinRangeInv, MaxRangeInv
  <2>3. min_price \in Prices /\ min_price_idx = GetIndex(min_price)
    <3>1. min_price # TopPrice
      BY <1>1, <1>4, <2>1, <2>2
    <3> QED BY <3>1 DEF RangeInv, MinRangeInv, MinSees
  <2>4. max_price \in Prices /\ max_price_idx = GetIndex(max_price)
    <3>1. max_price # NoPrice
      BY <1>1, <1>4, <2>1, <2>2 DEF NoPrice
    <3> QED BY <3>1 DEF RangeInv, MaxRangeInv, MaxRangeSees
  <2>5. GetIndex(p) \in T
    BY <1>4, <1>5, <2>1, <2>2, <2>3, <2>4
  <2>6. traded[p] <= book[GetIndex(p)].size
    <3>1. traded[p] \in Nat
      BY <1>1, <2>1
    <3>2. upc # "idle" => traded[bid.price] < bid.size
      BY DEF Base, Pending
    <3> QED BY <1>1, <2>1, <3>1, <3>2 DEF BookInv
  <2>7. h[p] = GetIndex(p)
    BY <2>1
  <2>8. Sizes[GetIndex(p)] = book[GetIndex(p)].size
    BY <1>4, <2>1, SlotSums
  <2> QED BY <2>5, <2>6, <2>7, <2>8
<1>7. \A p, q \in S : p # q => h[p] # h[q]
  <2>1. \A p \in Prices : Ladder[GetIndex(p)] = p
    BY OwnSlots
  <2> QED BY <2>1
<1>8. Total(traded) = Sum(traded, S)
  BY TotalIsNat
<1>9. (\A p \in S : traded[p] \in Nat) /\ (\A i \in T : Sizes[i] \in Nat)
  BY <1>1, SlotSums
<1> HIDE DEF S, T, h
<1>10. Sum(traded, S) <= Sum(Sizes, T)
  BY <1>2, <1>3, <1>6, <1>7, <1>9, SumBelow
<1> QED BY <1>8, <1>10 DEF T

\* An update only adds to what is ahead and behind.
LEMMA VolumeUpdated ==
  ASSUME OnLadder, Base, RangeInv, BookInv, VolumeInv, UpdateStep
  PROVE  VolumeInv'
<1>1. UNCHANGED readerVars
  BY DEF UpdateStep, StoreBid, StoreMinRange, StoreMaxRange, StoreMaxPrice,
         StoreMaxIdx, StoreMinPrice, StoreMinIdx, StoreLast
<1>2. Base'
  BY UpdateTyped
<1>3. \A i \in Slots : Sizes[i] \in Nat /\ Sizes'[i] \in Nat /\ Sizes[i] <= Sizes'[i]
  <2>1. \A i \in Slots : Sizes[i] \in Nat /\ Sizes[i] = book[i].size
    BY SlotSums
  <2>2. \A i \in Slots : Sizes'[i] \in Nat /\ Sizes'[i] = book'[i].size
    BY <1>2 DEF Base, Typed, Bids, Sizes
  <2>3. \A i \in Slots : book[i].size <= book'[i].size
    BY BookUpdated
  <2> QED BY <2>1, <2>2, <2>3
<1>4. /\ Rest \in SUBSET Slots /\ Rest' \in SUBSET Slots
      /\ Behind \in SUBSET Slots /\ Behind' = Behind
  BY <1>1 DEF Rest, Behind
<1>5. Rest \subseteq Rest'
  <2>1. max_price_idx <= max_price_idx'
    BY RangeGrows
  <2>2. Slots \subseteq Int /\ max_price_idx \in Int /\ max_price_idx' \in Int
    <3>1. Slots \subseteq Int
      BY PriceFacts
    <3> QED BY <1>2, <3>1 DEF Base, Typed
  <2>3. \A i \in Slots : i <= max_price_idx => i <= max_price_idx'
    BY <2>1, <2>2
  <2> QED BY <1>1, <2>3 DEF Rest
<1>6. \A S \in SUBSET Slots : IsFiniteSet(S)
  BY SlotSums
<1>7. Sum(Sizes, Rest) <= Sum(Sizes', Rest')
  BY <1>3, <1>4, <1>5, <1>6, SumsGrow
<1>8. Sum(Sizes, Behind) <= Sum(Sizes', Behind')
  BY <1>3, <1>4, <1>6, SumsGrow
<1>9. /\ Sum(Sizes, Rest) \in Nat /\ Sum(Sizes, Behind) \in Nat
      /\ Sum(Sizes', Rest') \in Nat /\ Sum(Sizes', Behind') \in Nat
  BY <1>3, <1>4, <1>6, SumSplits
<1>10. tot_vol \in Nat /\ UNCHANGED <<rpc, known, tot_vol>>
  BY <1>1 DEF Base, Typed
<1> DEFINE a == Sum(Sizes, Rest)
           b == Sum(Sizes', Rest')
           c == Sum(Sizes, Behind)
           d == Sum(Sizes', Behind')
<1>11. rpc \in {"test", "price", "product", "volume", "walked"} =>
         /\ known \in Nat /\ tot_vol >= 1
         /\ rpc # "walked" => known <= tot_vol - 1 + a
         /\ rpc = "walked" => known <= tot_vol - 1
         /\ tot_vol - 1 <= c
  BY DEF VolumeInv
<1>12. a \in Nat /\ b \in Nat /\ c \in Nat /\ d \in Nat /\ a <= b /\ c <= d
  BY <1>7, <1>8, <1>9
<1> HIDE DEF a, b, c, d
<1>13. rpc \in {"test", "price", "product", "volume", "walked"} =>
         /\ known \in Nat /\ tot_vol >= 1
         /\ rpc # "walked" => known <= tot_vol - 1 + b
         /\ rpc = "walked" => known <= tot_vol - 1
         /\ tot_vol - 1 <= d
  BY <1>10, <1>11, <1>12
<1> QED BY <1>10, <1>13 DEF VolumeInv, b, d

\* A step of the walk moves a slot's size from what is ahead to the sum.
LEMMA VolumeRead ==
  ASSUME OnLadder, Base, RangeInv, BookInv, WalkInv, VolumeInv, ReadStep
  PROVE  VolumeInv'
<1>1. /\ at \in Nat /\ tot_vol \in Nat /\ max_price_idx \in Int
      /\ Slots \subseteq Nat
  <2>1. Slots \subseteq Nat
    BY PriceFacts
  <2> QED BY <2>1 DEF Base, Typed
<1>2. UNCHANGED <<book, max_price_idx>> /\ Sizes' = Sizes
  BY ReadOnly DEF Sizes
<1>3. /\ \A i \in Slots : Sizes[i] \in Nat /\ Sizes[i] = book[i].size
      /\ \A S \in SUBSET Slots : IsFiniteSet(S) /\ Sum(Sizes, S) \in Nat
  BY SlotSums
<1>4. CASE StartWalk
  <2>1. /\ rpc' = "test" /\ at' = min_price_idx /\ tot_vol' = 1
        /\ known' = Total(traded)
    BY <1>4 DEF StartWalk, ReadAt
  <2>2. Rest' = {i \in Slots : min_price_idx <= i /\ i <= max_price_idx}
    BY <1>2, <2>1 DEF Rest
  <2>3. Behind' \in SUBSET Slots /\ Rest' \in SUBSET Slots
    BY DEF Behind, Rest
  <2>4. known' \in Nat /\ known' <= Sum(Sizes, Rest')
    BY <2>1, <2>2, TotalIsNat, TradedInRange
  <2>5. Sum(Sizes, Rest') \in Nat /\ Sum(Sizes, Behind') \in Nat
    BY <1>3, <2>3
  <2>6. /\ known' <= tot_vol' - 1 + Sum(Sizes, Rest')
        /\ tot_vol' - 1 <= Sum(Sizes, Behind')
    BY <2>1, <2>4, <2>5
  <2> QED BY <1>2, <2>1, <2>4, <2>6 DEF VolumeInv
<1>5. CASE TestRange
  <2>1. /\ rpc = "test" /\ UNCHANGED <<at, tot_vol, known>>
        /\ rpc' = IF at <= max_price_idx THEN "price" ELSE "walked"
    BY <1>5 DEF TestRange, ReadAt
  <2>2. Rest' = Rest /\ Behind' = Behind
    BY <1>2, <2>1 DEF Rest, Behind
  <2>3. ~ (at <= max_price_idx) => Sum(Sizes, Rest) = 0
    <3>1. \A i \in Slots : at <= i /\ i <= max_price_idx => at <= max_price_idx
      BY <1>1
    <3>2. ~ (at <= max_price_idx) => Rest = {}
      BY <3>1 DEF Rest
    <3> QED BY <3>2, FS_EmptySet, SumPicks
  <2> QED BY <1>1, <1>2, <2>1, <2>2, <2>3 DEF VolumeInv
<1>6. CASE ReadPrice \/ (AddProduct("product", "volume") /\ UNCHANGED at)
  <2>1. /\ rpc \in {"price", "product"} /\ rpc' \in {"product", "volume"}
        /\ UNCHANGED <<at, tot_vol, known>>
    BY <1>6 DEF ReadPrice, AddProduct, ReadAt
  <2>2. Rest' = Rest /\ Behind' = Behind
    BY <1>2, <2>1 DEF Rest, Behind
  <2> QED BY <1>2, <2>1, <2>2 DEF VolumeInv
<1>7. CASE AddVolume("volume", "test") /\ at' = at + 1
  <2>1. /\ rpc = "volume" /\ rpc' = "test" /\ known' = known
        /\ tot_vol' = tot_vol + book[at].size
    BY <1>7 DEF AddVolume, ReadAt
  <2>2. at \in Slots /\ at <= max_price_idx
    BY <2>1 DEF Base, AtInv, WalkInv
  <2> DEFINE s == Sizes[at]
  <2>3. s = book[at].size /\ s \in Nat
    BY <1>3, <2>2
  <2>4. at \in Rest /\ Rest' = Rest \ {at}
    <3>1. \A i \in Slots : at + 1 <= i <=> at <= i /\ i # at
      BY <1>1
    <3>2. Rest' = {i \in Slots : at + 1 <= i /\ i <= max_price_idx}
      BY <1>2, <1>7 DEF Rest
    <3>3. at <= at
      BY <1>1
    <3> QED BY <2>2, <3>1, <3>2, <3>3, Zenon DEF Rest
  <2>5. at \in Behind' /\ Behind = Behind' \ {at}
    <3>1. \A i \in Slots : i < at <=> i < at + 1 /\ i # at
      BY <1>1
    <3>2. Behind' = {i \in Slots : i < at + 1}
      BY <1>7 DEF Behind
    <3>3. at < at + 1
      BY <1>1
    <3> QED BY <2>2, <3>1, <3>2, <3>3, Zenon DEF Behind
  <2>6. Rest \in SUBSET Slots /\ Rest' \in SUBSET Slots
        /\ Behind \in SUBSET Slots /\ Behind' \in SUBSET Slots
    BY DEF Rest, Behind
  <2>7. Sum(Sizes, Rest) = s + Sum(Sizes, Rest')
    <3>1. Sum(Sizes, Rest) = s + Sum(Sizes, Rest \ {at})
      BY <1>3, <2>4, <2>6, SumSplits
    <3> QED BY <2>4, <3>1
  <2>8. Sum(Sizes, Behind') = s + Sum(Sizes, Behind)
    <3> DEFINE B == Behind'
    <3>1. IsFiniteSet(B) /\ (\A i \in B : Sizes[i] \in Nat) /\ at \in B
      BY <1>3, <2>5, <2>6
    <3> HIDE DEF B
    <3>2. Sum(Sizes, B) = s + Sum(Sizes, B \ {at})
      BY <3>1, SumSplits
    <3> QED BY <2>5, <3>2 DEF B
  <2> DEFINE a == Sum(Sizes, Rest)
             b == Sum(Sizes, Rest')
             c == Sum(Sizes, Behind)
             d == Sum(Sizes, Behind')
  <2>9. a \in Nat /\ b \in Nat /\ c \in Nat /\ d \in Nat /\ a = s + b /\ d = s + c
    BY <1>3, <2>6, <2>7, <2>8
  <2>10. known \in Nat /\ tot_vol >= 1 /\ known <= tot_vol - 1 + a /\ tot_vol - 1 <= c
    BY <2>1 DEF VolumeInv
  <2> HIDE DEF a, b, c, d, s
  <2>11. known' \in Nat /\ tot_vol' >= 1 /\ known' <= tot_vol' - 1 + b /\ tot_vol' - 1 <= d
    BY <1>1, <2>1, <2>3, <2>9, <2>10
  <2> QED BY <1>2, <2>1, <2>11 DEF VolumeInv, b, d
<1>8. CASE StartMaxTraded \/ ReadMaxIdx \/ ReadMaxSize \/ Return
  <2>1. rpc' \in {"max_idx", "max_size", "max_read", "idle"}
    BY <1>8 DEF StartMaxTraded, ReadMaxIdx, ReadMaxSize, Return, ReadAt
  <2> QED BY <2>1 DEF VolumeInv
<1> QED BY <1>4, <1>5, <1>6, <1>7, <1>8 DEF ReadStep, SumSlot

LEMMA VolumeKept ==
  ASSUME OnLadder, Base, RangeInv, BookInv, WalkInv, VolumeInv, [Next]_vars
  PROVE  VolumeInv'
<1>1. CASE UNCHANGED vars
  BY <1>1 DEF vars, VolumeInv, Rest, Behind, Sizes
<1> QED BY <1>1, VolumeUpdated, VolumeRead DEF Next

\* A walk misses none of the volume that was there when it began and
\* invents none, though trades go on under it and move the ends of the range.
THEOREM WalkSumsVolume ==
  ASSUME OnLadder
  PROVE  Spec => []WalkVolume
<1> DEFINE J == Base /\ RangeInv /\ BookInv /\ WalkInv /\ VolumeInv
<1>1. Init => J
  <2>1. Init => WalkInv /\ VolumeInv
    BY DEF Init, WalkInv, VolumeInv
  <2> QED BY <2>1, InitBase, InitRange, InitBook
<1>2. J /\ [Next]_vars => J'
  BY BaseKept, RangeKept, BookKept, WalkKept, VolumeKept
<1>3. J => WalkVolume
  <2> SUFFICES ASSUME J, rpc = "walked"
               PROVE  known <= tot_vol - 1 /\ tot_vol - 1 <= Total(Sizes)
    BY DEF WalkVolume
  <2>1. known <= tot_vol - 1 /\ tot_vol - 1 <= Sum(Sizes, Behind)
    BY DEF VolumeInv
  <2>2. Total(Sizes) = Sum(Sizes, Slots)
    <3>1. DOMAIN Sizes = Slots
      BY DEF Sizes
    <3>2. Total(Sizes) = Sum(Sizes, {i \in Slots : Sizes[i] > 0})
      BY <3>1 DEF Total, Sum, MapThenSumSet, MapThenFoldSet
    <3> QED BY <3>2, SlotSums, SumOfUsed
  <2>3. Behind \in SUBSET Slots
    BY DEF Behind
  <2>4. Sum(Sizes, Behind) <= Sum(Sizes, Slots)
    BY <2>3, SlotSums, SumWithin
  <2>5. Sum(Sizes, Behind) \in Nat /\ Sum(Sizes, Slots) \in Nat
    BY <2>3, SlotSums
  <2>6. known \in Nat /\ tot_vol \in Nat
    BY DEF VolumeInv, Base, Typed
  <2> QED BY <2>1, <2>2, <2>4, <2>5, <2>6
<1> HIDE DEF J
<1> QED BY <1>1, <1>2, <1>3, PTL DEF Spec
=============================================================================
