------------------------- MODULE PriceLadderProofs --------------------------
(***************************************************************************)
(* What get_index and the ladder come to, band by band.                    *)
(***************************************************************************)
EXTENDS PriceLadder, TLAPS

\* The ten bands as numbers: first slot, first price, tick, first slot and first
\* price of the next.
LEMMA BandTable ==
  /\ Indexes[1] = 1 /\ Starts[1] = 101 /\ Ticks[1] = 1 /\ Bounds[1] = 100
  /\ Indexes[2] = 100 /\ Starts[2] = 200 /\ Ticks[2] = 2 /\ Bounds[2] = 200
  /\ Indexes[3] = 150 /\ Starts[3] = 300 /\ Ticks[3] = 5 /\ Bounds[3] = 300
  /\ Indexes[4] = 170 /\ Starts[4] = 400 /\ Ticks[4] = 10 /\ Bounds[4] = 400
  /\ Indexes[5] = 190 /\ Starts[5] = 600 /\ Ticks[5] = 20 /\ Bounds[5] = 600
  /\ Indexes[6] = 210 /\ Starts[6] = 1000 /\ Ticks[6] = 50 /\ Bounds[6] = 1000
  /\ Indexes[7] = 230 /\ Starts[7] = 2000 /\ Ticks[7] = 100 /\ Bounds[7] = 2000
  /\ Indexes[8] = 240 /\ Starts[8] = 3000 /\ Ticks[8] = 200 /\ Bounds[8] = 3000
  /\ Indexes[9] = 250 /\ Starts[9] = 5000 /\ Ticks[9] = 500 /\ Bounds[9] = 5000
  /\ Indexes[10] = 260 /\ Starts[10] = 10000 /\ Ticks[10] = 1000 /\ Bounds[10] = 10000
  /\ Bounds[11] = 100000
  BY DEF Indexes, Starts, Ticks, Bounds

\* The band of a slot.
LEMMA SlotBandIs ==
  ASSUME NEW i \in Slots
  PROVE  /\ SlotBand(i) \in 1 .. 10
         /\ Indexes[SlotBand(i)] <= i + 1
         /\ SlotBand(i) = 10 \/ i + 1 < Indexes[SlotBand(i) + 1]
<1>1. i \in Int /\ 0 <= i /\ i <= 349
  BY DEF Slots, LastSlot
<1>2. \E t \in 1 .. 10 : Indexes[t] <= i + 1 /\ (t = 10 \/ i + 1 < Indexes[t + 1])
  <2>1. CASE 1 <= i + 1 /\ i + 1 < 100
    BY <1>1, <2>1, BandTable
  <2>2. CASE 100 <= i + 1 /\ i + 1 < 150
    BY <1>1, <2>2, BandTable
  <2>3. CASE 150 <= i + 1 /\ i + 1 < 170
    BY <1>1, <2>3, BandTable
  <2>4. CASE 170 <= i + 1 /\ i + 1 < 190
    BY <1>1, <2>4, BandTable
  <2>5. CASE 190 <= i + 1 /\ i + 1 < 210
    BY <1>1, <2>5, BandTable
  <2>6. CASE 210 <= i + 1 /\ i + 1 < 230
    BY <1>1, <2>6, BandTable
  <2>7. CASE 230 <= i + 1 /\ i + 1 < 240
    BY <1>1, <2>7, BandTable
  <2>8. CASE 240 <= i + 1 /\ i + 1 < 250
    BY <1>1, <2>8, BandTable
  <2>9. CASE 250 <= i + 1 /\ i + 1 < 260
    BY <1>1, <2>9, BandTable
  <2>10. CASE 260 <= i + 1
    BY <1>1, <2>10, BandTable
  <2> QED BY <1>1, <2>1, <2>2, <2>3, <2>4, <2>5, <2>6, <2>7, <2>8, <2>9, <2>10
<1> QED BY <1>2 DEF SlotBand

\* The band of a price.
LEMMA BandIs ==
  ASSUME NEW p \in Int, Lowest <= p, p < Highest
  PROVE  Banded(p) /\ Band(p) \in 1 .. 10 /\ InBand(Band(p), p)
<1>1. p \in Int /\ 101 <= p /\ p < 100000
  BY SMT DEF Lowest, Highest
<1>2. \E t \in 1 .. 10 : InBand(t, p)
  <2>1. CASE 100 <= p /\ p < 200
    BY <1>1, <2>1, BandTable DEF InBand
  <2>2. CASE 200 <= p /\ p < 300
    BY <1>1, <2>2, BandTable DEF InBand
  <2>3. CASE 300 <= p /\ p < 400
    BY <1>1, <2>3, BandTable DEF InBand
  <2>4. CASE 400 <= p /\ p < 600
    BY <1>1, <2>4, BandTable DEF InBand
  <2>5. CASE 600 <= p /\ p < 1000
    BY <1>1, <2>5, BandTable DEF InBand
  <2>6. CASE 1000 <= p /\ p < 2000
    BY <1>1, <2>6, BandTable DEF InBand
  <2>7. CASE 2000 <= p /\ p < 3000
    BY <1>1, <2>7, BandTable DEF InBand
  <2>8. CASE 3000 <= p /\ p < 5000
    BY <1>1, <2>8, BandTable DEF InBand
  <2>9. CASE 5000 <= p /\ p < 10000
    BY <1>1, <2>9, BandTable DEF InBand
  <2>10. CASE 10000 <= p /\ p < 100000
    BY <1>1, <2>10, BandTable DEF InBand
  <2> QED BY <1>1, <2>1, <2>2, <2>3, <2>4, <2>5, <2>6, <2>7, <2>8, <2>9, <2>10
<1> QED BY <1>2 DEF Banded, Band

\* The ladder, tabulated.
LEMMA LadderTable ==
  ASSUME NEW i \in Slots
  PROVE
  \/ i \in 0 .. 98 /\ Ladder[i] = 101 + (i - 0) * 1
  \/ i \in 99 .. 148 /\ Ladder[i] = 200 + (i - 99) * 2
  \/ i \in 149 .. 168 /\ Ladder[i] = 300 + (i - 149) * 5
  \/ i \in 169 .. 188 /\ Ladder[i] = 400 + (i - 169) * 10
  \/ i \in 189 .. 208 /\ Ladder[i] = 600 + (i - 189) * 20
  \/ i \in 209 .. 228 /\ Ladder[i] = 1000 + (i - 209) * 50
  \/ i \in 229 .. 238 /\ Ladder[i] = 2000 + (i - 229) * 100
  \/ i \in 239 .. 248 /\ Ladder[i] = 3000 + (i - 239) * 200
  \/ i \in 249 .. 258 /\ Ladder[i] = 5000 + (i - 249) * 500
  \/ i \in 259 .. 349 /\ Ladder[i] = 10000 + (i - 259) * 1000
<1> DEFINE t == SlotBand(i)
<1>1. i \in Int /\ 0 <= i /\ i <= 349
  BY DEF Slots, LastSlot
<1>2. Ladder[i] = Starts[t] + (i + 1 - Indexes[t]) * Ticks[t]
  BY DEF Ladder
<1>3. t \in 1 .. 10 /\ Indexes[t] <= i + 1 /\ (t = 10 \/ i + 1 < Indexes[t + 1])
  BY SlotBandIs
<1> HIDE DEF t
<1>4. CASE t = 1
  BY <1>1, <1>2, <1>3, <1>4, BandTable
<1>5. CASE t = 2
  BY <1>1, <1>2, <1>3, <1>5, BandTable
<1>6. CASE t = 3
  BY <1>1, <1>2, <1>3, <1>6, BandTable
<1>7. CASE t = 4
  BY <1>1, <1>2, <1>3, <1>7, BandTable
<1>8. CASE t = 5
  BY <1>1, <1>2, <1>3, <1>8, BandTable
<1>9. CASE t = 6
  BY <1>1, <1>2, <1>3, <1>9, BandTable
<1>10. CASE t = 7
  BY <1>1, <1>2, <1>3, <1>10, BandTable
<1>11. CASE t = 8
  BY <1>1, <1>2, <1>3, <1>11, BandTable
<1>12. CASE t = 9
  BY <1>1, <1>2, <1>3, <1>12, BandTable
<1>13. CASE t = 10
  BY <1>1, <1>2, <1>3, <1>13, BandTable
<1> QED BY <1>3, <1>4, <1>5, <1>6, <1>7, <1>8, <1>9, <1>10, <1>11, <1>12, <1>13

\* get_index, tabulated.
LEMMA IndexTable ==
  ASSUME NEW p \in Int, Lowest <= p, p < Highest
  PROVE
  \/ 101 <= p /\ p < 200 /\ GetIndex(p) = 0 + (2 * (p - 101) + 1) \div 2
  \/ 200 <= p /\ p < 300 /\ GetIndex(p) = 99 + (2 * (p - 200) + 2) \div 4
  \/ 300 <= p /\ p < 400 /\ GetIndex(p) = 149 + (2 * (p - 300) + 5) \div 10
  \/ 400 <= p /\ p < 600 /\ GetIndex(p) = 169 + (2 * (p - 400) + 10) \div 20
  \/ 600 <= p /\ p < 1000 /\ GetIndex(p) = 189 + (2 * (p - 600) + 20) \div 40
  \/ 1000 <= p /\ p < 2000 /\ GetIndex(p) = 209 + (2 * (p - 1000) + 50) \div 100
  \/ 2000 <= p /\ p < 3000 /\ GetIndex(p) = 229 + (2 * (p - 2000) + 100) \div 200
  \/ 3000 <= p /\ p < 5000 /\ GetIndex(p) = 239 + (2 * (p - 3000) + 200) \div 400
  \/ 5000 <= p /\ p < 10000 /\ GetIndex(p) = 249 + (2 * (p - 5000) + 500) \div 1000
  \/ 10000 <= p /\ p < 100000 /\ GetIndex(p) = 259 + (2 * (p - 10000) + 1000) \div 2000
<1>1. p \in Int /\ 101 <= p /\ p < 100000
  BY SMT DEF Lowest, Highest
<1> DEFINE t == Band(p)
<1>2. GetIndex(p) = Indexes[t] - 1 + (2 * (p - Starts[t]) + Ticks[t]) \div (2 * Ticks[t])
  BY BandIs DEF GetIndex, TickOffset
<1>3. t \in 1 .. 10 /\ Bounds[t] <= p /\ p < Bounds[t + 1]
  BY BandIs DEF InBand
<1> HIDE DEF t
<1>4. CASE t = 1
  BY <1>1, <1>2, <1>3, <1>4, BandTable
<1>5. CASE t = 2
  BY <1>1, <1>2, <1>3, <1>5, BandTable
<1>6. CASE t = 3
  BY <1>1, <1>2, <1>3, <1>6, BandTable
<1>7. CASE t = 4
  BY <1>1, <1>2, <1>3, <1>7, BandTable
<1>8. CASE t = 5
  BY <1>1, <1>2, <1>3, <1>8, BandTable
<1>9. CASE t = 6
  BY <1>1, <1>2, <1>3, <1>9, BandTable
<1>10. CASE t = 7
  BY <1>1, <1>2, <1>3, <1>10, BandTable
<1>11. CASE t = 8
  BY <1>1, <1>2, <1>3, <1>11, BandTable
<1>12. CASE t = 9
  BY <1>1, <1>2, <1>3, <1>12, BandTable
<1>13. CASE t = 10
  BY <1>1, <1>2, <1>3, <1>13, BandTable
<1> QED BY <1>3, <1>4, <1>5, <1>6, <1>7, <1>8, <1>9, <1>10, <1>11, <1>12, <1>13

\* Every price has a slot, the highest a wrong one.
LEMMA IndexIsSlot ==
  ASSUME NEW p \in Int, Lowest <= p, p <= Highest
  PROVE  GetIndex(p) \in Slots
<1>1. p \in Int /\ 101 <= p /\ p <= 100000
  BY SMT DEF Lowest, Highest
<1>2. CASE p < Highest
  <2>1. GetIndex(p) \in Int /\ 0 <= GetIndex(p) /\ GetIndex(p) <= 349
    BY <1>1, <1>2, IndexTable, SMT
  <2> QED BY <2>1, SMT DEF Slots, LastSlot
<1>3. CASE p = Highest
  <2>1. \A t \in 1 .. 10 : Bounds[t + 1] \in Int /\ Bounds[t + 1] <= 100000
    BY BandTable, SMT
  <2>2. ~ Banded(p)
    <3>1. ASSUME NEW t \in 1 .. 10, InBand(t, p)
          PROVE  FALSE
      BY <1>1, <1>3, <2>1, <3>1, SMT DEF InBand, Highest
    <3> QED BY <3>1 DEF Banded
  <2> QED BY <2>2, SMT DEF GetIndex, Slots, LastSlot
<1> QED BY <1>1, <1>2, <1>3, SMT DEF Highest

\* The ladder holds prices, rises, and is what get_index looks up.
LEMMA LadderRange ==
  ASSUME NEW i \in Slots
  PROVE  Ladder[i] \in Int /\ Lowest <= Ladder[i] /\ Ladder[i] <= Highest
<1>1. Ladder[i] \in Int /\ 101 <= Ladder[i] /\ Ladder[i] <= 100000
  BY LadderTable, SMT
<1> QED BY <1>1, SMT DEF Lowest, Highest

LEMMA LadderRises ==
  ASSUME NEW i \in Slots, NEW j \in Slots, i < j
  PROVE  Ladder[i] < Ladder[j]
<1>1. i \in Int /\ j \in Int
  BY DEF Slots
<1> QED BY <1>1, LadderTable, SMT

LEMMA IndexOfLadder ==
  ASSUME NEW i \in Slots, i < LastSlot
  PROVE  Ladder[i] < Highest /\ GetIndex(Ladder[i]) = i
<1>1. i \in Int /\ 0 <= i /\ i < 349
  BY SMT DEF Slots, LastSlot
<1>2. Ladder[i] \in Int /\ 101 <= Ladder[i] /\ Ladder[i] < 100000
  BY <1>1, LadderTable, SMT
<1> DEFINE p == Ladder[i]
<1>3. p \in Int /\ Lowest <= p /\ p < Highest
  BY <1>2, SMT DEF Lowest, Highest
<1> HIDE DEF p
<1>4. GetIndex(p) = i
  <2>1. CASE 0 <= i /\ i <= 98
    <3>1. p = 101 + (i - 0) * 1
      BY <1>1, <2>1, LadderTable, SMT DEF p
    <3>2. GetIndex(p) = 0 + (2 * (p - 101) + 1) \div 2
      BY <1>1, <1>3, <2>1, <3>1, IndexTable, SMT
    <3> QED BY <1>1, <2>1, <3>1, <3>2, SMT
  <2>2. CASE 99 <= i /\ i <= 148
    <3>1. p = 200 + (i - 99) * 2
      BY <1>1, <2>2, LadderTable, SMT DEF p
    <3>2. GetIndex(p) = 99 + (2 * (p - 200) + 2) \div 4
      BY <1>1, <1>3, <2>2, <3>1, IndexTable, SMT
    <3> QED BY <1>1, <2>2, <3>1, <3>2, SMT
  <2>3. CASE 149 <= i /\ i <= 168
    <3>1. p = 300 + (i - 149) * 5
      BY <1>1, <2>3, LadderTable, SMT DEF p
    <3>2. GetIndex(p) = 149 + (2 * (p - 300) + 5) \div 10
      BY <1>1, <1>3, <2>3, <3>1, IndexTable, SMT
    <3> QED BY <1>1, <2>3, <3>1, <3>2, SMT
  <2>4. CASE 169 <= i /\ i <= 188
    <3>1. p = 400 + (i - 169) * 10
      BY <1>1, <2>4, LadderTable, SMT DEF p
    <3>2. GetIndex(p) = 169 + (2 * (p - 400) + 10) \div 20
      BY <1>1, <1>3, <2>4, <3>1, IndexTable, SMT
    <3> QED BY <1>1, <2>4, <3>1, <3>2, SMT
  <2>5. CASE 189 <= i /\ i <= 208
    <3>1. p = 600 + (i - 189) * 20
      BY <1>1, <2>5, LadderTable, SMT DEF p
    <3>2. GetIndex(p) = 189 + (2 * (p - 600) + 20) \div 40
      BY <1>1, <1>3, <2>5, <3>1, IndexTable, SMT
    <3> QED BY <1>1, <2>5, <3>1, <3>2, SMT
  <2>6. CASE 209 <= i /\ i <= 228
    <3>1. p = 1000 + (i - 209) * 50
      BY <1>1, <2>6, LadderTable, SMT DEF p
    <3>2. GetIndex(p) = 209 + (2 * (p - 1000) + 50) \div 100
      BY <1>1, <1>3, <2>6, <3>1, IndexTable, SMT
    <3> QED BY <1>1, <2>6, <3>1, <3>2, SMT
  <2>7. CASE 229 <= i /\ i <= 238
    <3>1. p = 2000 + (i - 229) * 100
      BY <1>1, <2>7, LadderTable, SMT DEF p
    <3>2. GetIndex(p) = 229 + (2 * (p - 2000) + 100) \div 200
      BY <1>1, <1>3, <2>7, <3>1, IndexTable, SMT
    <3> QED BY <1>1, <2>7, <3>1, <3>2, SMT
  <2>8. CASE 239 <= i /\ i <= 248
    <3>1. p = 3000 + (i - 239) * 200
      BY <1>1, <2>8, LadderTable, SMT DEF p
    <3>2. GetIndex(p) = 239 + (2 * (p - 3000) + 200) \div 400
      BY <1>1, <1>3, <2>8, <3>1, IndexTable, SMT
    <3> QED BY <1>1, <2>8, <3>1, <3>2, SMT
  <2>9. CASE 249 <= i /\ i <= 258
    <3>1. p = 5000 + (i - 249) * 500
      BY <1>1, <2>9, LadderTable, SMT DEF p
    <3>2. GetIndex(p) = 249 + (2 * (p - 5000) + 500) \div 1000
      BY <1>1, <1>3, <2>9, <3>1, IndexTable, SMT
    <3> QED BY <1>1, <2>9, <3>1, <3>2, SMT
  <2>10. CASE 259 <= i /\ i <= 348
    <3>1. p = 10000 + (i - 259) * 1000
      BY <1>1, <2>10, LadderTable, SMT DEF p
    <3>2. GetIndex(p) = 259 + (2 * (p - 10000) + 1000) \div 2000
      BY <1>1, <1>3, <2>10, <3>1, IndexTable, SMT
    <3> QED BY <1>1, <2>10, <3>1, <3>2, SMT
  <2> QED BY <1>1, <2>1, <2>2, <2>3, <2>4, <2>5, <2>6, <2>7, <2>8, <2>9, <2>10, SMT
<1> QED BY <1>3, <1>4 DEF p

\* From a slot to the next it is the tick of the band its price is in.
LEMMA NextTick ==
  ASSUME NEW i \in Slots, i < LastSlot
  PROVE  Banded(Ladder[i]) /\ Ladder[i + 1] = Ladder[i] + Ticks[Band(Ladder[i])]
<1>1. i \in Int /\ 0 <= i /\ i < 349 /\ i + 1 \in Slots
  BY SMT DEF Slots, LastSlot
<1> DEFINE p == Ladder[i]
           q == Ladder[i + 1]
           t == Band(p)
<1>2. p \in Int /\ Lowest <= p /\ p < Highest
  BY LadderRange, IndexOfLadder
<1>3. Banded(p) /\ t \in 1 .. 10 /\ Bounds[t] <= p /\ p < Bounds[t + 1]
  BY <1>2, BandIs DEF InBand
<1> HIDE DEF p, q, t
<1>4. CASE 0 <= i /\ i <= 98
  <2>1. p = 101 + (i - 0) * 1
    BY <1>1, <1>4, LadderTable, SMT DEF p
  <2>2. q = 101 + (i + 1 - 0) * 1
    BY <1>1, <1>4, LadderTable, SMT DEF q
  <2>3. t = 1
    BY <1>1, <1>3, <1>4, <2>1, BandTable, SMT
  <2> QED BY <1>1, <1>3, <2>1, <2>2, <2>3, BandTable, SMT DEF p, q, t
<1>5. CASE 99 <= i /\ i <= 148
  <2>1. p = 200 + (i - 99) * 2
    BY <1>1, <1>5, LadderTable, SMT DEF p
  <2>2. q = 200 + (i + 1 - 99) * 2
    BY <1>1, <1>5, LadderTable, SMT DEF q
  <2>3. t = 2
    BY <1>1, <1>3, <1>5, <2>1, BandTable, SMT
  <2> QED BY <1>1, <1>3, <2>1, <2>2, <2>3, BandTable, SMT DEF p, q, t
<1>6. CASE 149 <= i /\ i <= 168
  <2>1. p = 300 + (i - 149) * 5
    BY <1>1, <1>6, LadderTable, SMT DEF p
  <2>2. q = 300 + (i + 1 - 149) * 5
    BY <1>1, <1>6, LadderTable, SMT DEF q
  <2>3. t = 3
    BY <1>1, <1>3, <1>6, <2>1, BandTable, SMT
  <2> QED BY <1>1, <1>3, <2>1, <2>2, <2>3, BandTable, SMT DEF p, q, t
<1>7. CASE 169 <= i /\ i <= 188
  <2>1. p = 400 + (i - 169) * 10
    BY <1>1, <1>7, LadderTable, SMT DEF p
  <2>2. q = 400 + (i + 1 - 169) * 10
    BY <1>1, <1>7, LadderTable, SMT DEF q
  <2>3. t = 4
    BY <1>1, <1>3, <1>7, <2>1, BandTable, SMT
  <2> QED BY <1>1, <1>3, <2>1, <2>2, <2>3, BandTable, SMT DEF p, q, t
<1>8. CASE 189 <= i /\ i <= 208
  <2>1. p = 600 + (i - 189) * 20
    BY <1>1, <1>8, LadderTable, SMT DEF p
  <2>2. q = 600 + (i + 1 - 189) * 20
    BY <1>1, <1>8, LadderTable, SMT DEF q
  <2>3. t = 5
    BY <1>1, <1>3, <1>8, <2>1, BandTable, SMT
  <2> QED BY <1>1, <1>3, <2>1, <2>2, <2>3, BandTable, SMT DEF p, q, t
<1>9. CASE 209 <= i /\ i <= 228
  <2>1. p = 1000 + (i - 209) * 50
    BY <1>1, <1>9, LadderTable, SMT DEF p
  <2>2. q = 1000 + (i + 1 - 209) * 50
    BY <1>1, <1>9, LadderTable, SMT DEF q
  <2>3. t = 6
    BY <1>1, <1>3, <1>9, <2>1, BandTable, SMT
  <2> QED BY <1>1, <1>3, <2>1, <2>2, <2>3, BandTable, SMT DEF p, q, t
<1>10. CASE 229 <= i /\ i <= 238
  <2>1. p = 2000 + (i - 229) * 100
    BY <1>1, <1>10, LadderTable, SMT DEF p
  <2>2. q = 2000 + (i + 1 - 229) * 100
    BY <1>1, <1>10, LadderTable, SMT DEF q
  <2>3. t = 7
    BY <1>1, <1>3, <1>10, <2>1, BandTable, SMT
  <2> QED BY <1>1, <1>3, <2>1, <2>2, <2>3, BandTable, SMT DEF p, q, t
<1>11. CASE 239 <= i /\ i <= 248
  <2>1. p = 3000 + (i - 239) * 200
    BY <1>1, <1>11, LadderTable, SMT DEF p
  <2>2. q = 3000 + (i + 1 - 239) * 200
    BY <1>1, <1>11, LadderTable, SMT DEF q
  <2>3. t = 8
    BY <1>1, <1>3, <1>11, <2>1, BandTable, SMT
  <2> QED BY <1>1, <1>3, <2>1, <2>2, <2>3, BandTable, SMT DEF p, q, t
<1>12. CASE 249 <= i /\ i <= 258
  <2>1. p = 5000 + (i - 249) * 500
    BY <1>1, <1>12, LadderTable, SMT DEF p
  <2>2. q = 5000 + (i + 1 - 249) * 500
    BY <1>1, <1>12, LadderTable, SMT DEF q
  <2>3. t = 9
    BY <1>1, <1>3, <1>12, <2>1, BandTable, SMT
  <2> QED BY <1>1, <1>3, <2>1, <2>2, <2>3, BandTable, SMT DEF p, q, t
<1>13. CASE 259 <= i /\ i <= 348
  <2>1. p = 10000 + (i - 259) * 1000
    BY <1>1, <1>13, LadderTable, SMT DEF p
  <2>2. q = 10000 + (i + 1 - 259) * 1000
    BY <1>1, <1>13, LadderTable, SMT DEF q
  <2>3. t = 10
    BY <1>1, <1>3, <1>13, <2>1, BandTable, SMT
  <2> QED BY <1>1, <1>3, <2>1, <2>2, <2>3, BandTable, SMT DEF p, q, t
<1> QED BY <1>1, <1>4, <1>5, <1>6, <1>7, <1>8, <1>9, <1>10, <1>11, <1>12, <1>13, SMT

\* The slot get_index finds has no nearer neighbour: in its band the prices beside it
\* are a tick away, below the band and above it they are no nearer.
LEMMA NearestSlot ==
  ASSUME NEW p \in Int, Lowest <= p, p < Highest,
         NEW n \in {GetIndex(p) - 1, GetIndex(p) + 1} \cap Slots
  PROVE  LET a == Ladder[GetIndex(p)]
             b == Ladder[n]
         IN (IF a < p THEN p - a ELSE a - p) <= (IF b < p THEN p - b ELSE b - p)
<1> DEFINE k == GetIndex(p)
           a == Ladder[k]
           b == Ladder[n]
<1>1. p \in Int /\ 101 <= p /\ p < 100000
  BY SMT DEF Lowest, Highest
<1>2. k \in Slots /\ n \in Slots /\ (n = k - 1 \/ n = k + 1)
  BY <1>1, IndexIsSlot, SMT DEF Highest
<1>3. k \in Int /\ n \in Int /\ 0 <= k /\ k <= 349 /\ 0 <= n /\ n <= 349
  BY <1>2, SMT DEF Slots, LastSlot
<1>4. a \in Int /\ b \in Int /\ (n = k - 1 => b < a) /\ (n = k + 1 => a < b)
  BY <1>2, <1>3, LadderRange, LadderRises
<1>5. CASE 101 <= p /\ p < 200
  <2> DEFINE o == (2 * (p - 101) + 1) \div 2
  <2>1. k = 0 + o
    BY <1>1, <1>5, IndexTable, SMT
  <2>2. o \in Int /\ 2 * o <= 2 * (p - 101) + 1 /\ 2 * (p - 101) + 1 < 2 * o + 2
    BY <1>1, SMT
  <2> HIDE DEF o
  <2>3. 0 <= o /\ o <= 99
    BY <1>1, <1>5, <2>2, SMT
  <2>4. a = 101 + o * 1
    BY <1>2, <1>3, <2>1, <2>2, <2>3, LadderTable, SMT
  <2>5. n = k + 1 => b >= a + 1
    BY <1>2, <1>3, <2>1, <2>2, <2>3, <2>4, LadderTable, SMT
  <2>6. n = k - 1 => b <= a - 1 \/ (o = 0 /\ b < a)
    BY <1>2, <1>3, <1>4, <2>1, <2>2, <2>3, <2>4, LadderTable, SMT
  <2> HIDE DEF a, b, k
  <2> QED BY <1>1, <1>2, <1>4, <1>5, <2>2, <2>3, <2>4, <2>5, <2>6, SMT DEF a, b, k
<1>6. CASE 200 <= p /\ p < 300
  <2> DEFINE o == (2 * (p - 200) + 2) \div 4
  <2>1. k = 99 + o
    BY <1>1, <1>6, IndexTable, SMT
  <2>2. o \in Int /\ 4 * o <= 2 * (p - 200) + 2 /\ 2 * (p - 200) + 2 < 4 * o + 4
    BY <1>1, SMT
  <2> HIDE DEF o
  <2>3. 0 <= o /\ o <= 50
    BY <1>1, <1>6, <2>2, SMT
  <2>4. a = 200 + o * 2
    BY <1>2, <1>3, <2>1, <2>2, <2>3, LadderTable, SMT
  <2>5. n = k + 1 => b >= a + 2
    BY <1>2, <1>3, <2>1, <2>2, <2>3, <2>4, LadderTable, SMT
  <2>6. n = k - 1 => b <= a - 2 \/ (o = 0 /\ b < a)
    BY <1>2, <1>3, <1>4, <2>1, <2>2, <2>3, <2>4, LadderTable, SMT
  <2> HIDE DEF a, b, k
  <2> QED BY <1>1, <1>2, <1>4, <1>6, <2>2, <2>3, <2>4, <2>5, <2>6, SMT DEF a, b, k
<1>7. CASE 300 <= p /\ p < 400
  <2> DEFINE o == (2 * (p - 300) + 5) \div 10
  <2>1. k = 149 + o
    BY <1>1, <1>7, IndexTable, SMT
  <2>2. o \in Int /\ 10 * o <= 2 * (p - 300) + 5 /\ 2 * (p - 300) + 5 < 10 * o + 10
    BY <1>1, SMT
  <2> HIDE DEF o
  <2>3. 0 <= o /\ o <= 20
    BY <1>1, <1>7, <2>2, SMT
  <2>4. a = 300 + o * 5
    BY <1>2, <1>3, <2>1, <2>2, <2>3, LadderTable, SMT
  <2>5. n = k + 1 => b >= a + 5
    BY <1>2, <1>3, <2>1, <2>2, <2>3, <2>4, LadderTable, SMT
  <2>6. n = k - 1 => b <= a - 5 \/ (o = 0 /\ b < a)
    BY <1>2, <1>3, <1>4, <2>1, <2>2, <2>3, <2>4, LadderTable, SMT
  <2> HIDE DEF a, b, k
  <2> QED BY <1>1, <1>2, <1>4, <1>7, <2>2, <2>3, <2>4, <2>5, <2>6, SMT DEF a, b, k
<1>8. CASE 400 <= p /\ p < 600
  <2> DEFINE o == (2 * (p - 400) + 10) \div 20
  <2>1. k = 169 + o
    BY <1>1, <1>8, IndexTable, SMT
  <2>2. o \in Int /\ 20 * o <= 2 * (p - 400) + 10 /\ 2 * (p - 400) + 10 < 20 * o + 20
    BY <1>1, SMT
  <2> HIDE DEF o
  <2>3. 0 <= o /\ o <= 20
    BY <1>1, <1>8, <2>2, SMT
  <2>4. a = 400 + o * 10
    BY <1>2, <1>3, <2>1, <2>2, <2>3, LadderTable, SMT
  <2>5. n = k + 1 => b >= a + 10
    BY <1>2, <1>3, <2>1, <2>2, <2>3, <2>4, LadderTable, SMT
  <2>6. n = k - 1 => b <= a - 10 \/ (o = 0 /\ b < a)
    BY <1>2, <1>3, <1>4, <2>1, <2>2, <2>3, <2>4, LadderTable, SMT
  <2> HIDE DEF a, b, k
  <2> QED BY <1>1, <1>2, <1>4, <1>8, <2>2, <2>3, <2>4, <2>5, <2>6, SMT DEF a, b, k
<1>9. CASE 600 <= p /\ p < 1000
  <2> DEFINE o == (2 * (p - 600) + 20) \div 40
  <2>1. k = 189 + o
    BY <1>1, <1>9, IndexTable, SMT
  <2>2. o \in Int /\ 40 * o <= 2 * (p - 600) + 20 /\ 2 * (p - 600) + 20 < 40 * o + 40
    BY <1>1, SMT
  <2> HIDE DEF o
  <2>3. 0 <= o /\ o <= 20
    BY <1>1, <1>9, <2>2, SMT
  <2>4. a = 600 + o * 20
    BY <1>2, <1>3, <2>1, <2>2, <2>3, LadderTable, SMT
  <2>5. n = k + 1 => b >= a + 20
    BY <1>2, <1>3, <2>1, <2>2, <2>3, <2>4, LadderTable, SMT
  <2>6. n = k - 1 => b <= a - 20 \/ (o = 0 /\ b < a)
    BY <1>2, <1>3, <1>4, <2>1, <2>2, <2>3, <2>4, LadderTable, SMT
  <2> HIDE DEF a, b, k
  <2> QED BY <1>1, <1>2, <1>4, <1>9, <2>2, <2>3, <2>4, <2>5, <2>6, SMT DEF a, b, k
<1>10. CASE 1000 <= p /\ p < 2000
  <2> DEFINE o == (2 * (p - 1000) + 50) \div 100
  <2>1. k = 209 + o
    BY <1>1, <1>10, IndexTable, SMT
  <2>2. o \in Int /\ 100 * o <= 2 * (p - 1000) + 50 /\ 2 * (p - 1000) + 50 < 100 * o + 100
    BY <1>1, SMT
  <2> HIDE DEF o
  <2>3. 0 <= o /\ o <= 20
    BY <1>1, <1>10, <2>2, SMT
  <2>4. a = 1000 + o * 50
    BY <1>2, <1>3, <2>1, <2>2, <2>3, LadderTable, SMT
  <2>5. n = k + 1 => b >= a + 50
    BY <1>2, <1>3, <2>1, <2>2, <2>3, <2>4, LadderTable, SMT
  <2>6. n = k - 1 => b <= a - 50 \/ (o = 0 /\ b < a)
    BY <1>2, <1>3, <1>4, <2>1, <2>2, <2>3, <2>4, LadderTable, SMT
  <2> HIDE DEF a, b, k
  <2> QED BY <1>1, <1>2, <1>4, <1>10, <2>2, <2>3, <2>4, <2>5, <2>6, SMT DEF a, b, k
<1>11. CASE 2000 <= p /\ p < 3000
  <2> DEFINE o == (2 * (p - 2000) + 100) \div 200
  <2>1. k = 229 + o
    BY <1>1, <1>11, IndexTable, SMT
  <2>2. o \in Int /\ 200 * o <= 2 * (p - 2000) + 100 /\ 2 * (p - 2000) + 100 < 200 * o + 200
    BY <1>1, SMT
  <2> HIDE DEF o
  <2>3. 0 <= o /\ o <= 10
    BY <1>1, <1>11, <2>2, SMT
  <2>4. a = 2000 + o * 100
    BY <1>2, <1>3, <2>1, <2>2, <2>3, LadderTable, SMT
  <2>5. n = k + 1 => b >= a + 100
    BY <1>2, <1>3, <2>1, <2>2, <2>3, <2>4, LadderTable, SMT
  <2>6. n = k - 1 => b <= a - 100 \/ (o = 0 /\ b < a)
    BY <1>2, <1>3, <1>4, <2>1, <2>2, <2>3, <2>4, LadderTable, SMT
  <2> HIDE DEF a, b, k
  <2> QED BY <1>1, <1>2, <1>4, <1>11, <2>2, <2>3, <2>4, <2>5, <2>6, SMT DEF a, b, k
<1>12. CASE 3000 <= p /\ p < 5000
  <2> DEFINE o == (2 * (p - 3000) + 200) \div 400
  <2>1. k = 239 + o
    BY <1>1, <1>12, IndexTable, SMT
  <2>2. o \in Int /\ 400 * o <= 2 * (p - 3000) + 200 /\ 2 * (p - 3000) + 200 < 400 * o + 400
    BY <1>1, SMT
  <2> HIDE DEF o
  <2>3. 0 <= o /\ o <= 10
    BY <1>1, <1>12, <2>2, SMT
  <2>4. a = 3000 + o * 200
    BY <1>2, <1>3, <2>1, <2>2, <2>3, LadderTable, SMT
  <2>5. n = k + 1 => b >= a + 200
    BY <1>2, <1>3, <2>1, <2>2, <2>3, <2>4, LadderTable, SMT
  <2>6. n = k - 1 => b <= a - 200 \/ (o = 0 /\ b < a)
    BY <1>2, <1>3, <1>4, <2>1, <2>2, <2>3, <2>4, LadderTable, SMT
  <2> HIDE DEF a, b, k
  <2> QED BY <1>1, <1>2, <1>4, <1>12, <2>2, <2>3, <2>4, <2>5, <2>6, SMT DEF a, b, k
<1>13. CASE 5000 <= p /\ p < 10000
  <2> DEFINE o == (2 * (p - 5000) + 500) \div 1000
  <2>1. k = 249 + o
    BY <1>1, <1>13, IndexTable, SMT
  <2>2. o \in Int /\ 1000 * o <= 2 * (p - 5000) + 500 /\ 2 * (p - 5000) + 500 < 1000 * o + 1000
    BY <1>1, SMT
  <2> HIDE DEF o
  <2>3. 0 <= o /\ o <= 10
    BY <1>1, <1>13, <2>2, SMT
  <2>4. a = 5000 + o * 500
    BY <1>2, <1>3, <2>1, <2>2, <2>3, LadderTable, SMT
  <2>5. n = k + 1 => b >= a + 500
    BY <1>2, <1>3, <2>1, <2>2, <2>3, <2>4, LadderTable, SMT
  <2>6. n = k - 1 => b <= a - 500 \/ (o = 0 /\ b < a)
    BY <1>2, <1>3, <1>4, <2>1, <2>2, <2>3, <2>4, LadderTable, SMT
  <2> HIDE DEF a, b, k
  <2> QED BY <1>1, <1>2, <1>4, <1>13, <2>2, <2>3, <2>4, <2>5, <2>6, SMT DEF a, b, k
<1>14. CASE 10000 <= p /\ p < 100000
  <2> DEFINE o == (2 * (p - 10000) + 1000) \div 2000
  <2>1. k = 259 + o
    BY <1>1, <1>14, IndexTable, SMT
  <2>2. o \in Int /\ 2000 * o <= 2 * (p - 10000) + 1000 /\ 2 * (p - 10000) + 1000 < 2000 * o + 2000
    BY <1>1, SMT
  <2> HIDE DEF o
  <2>3. 0 <= o /\ o <= 90
    BY <1>1, <1>14, <2>2, SMT
  <2>4. a = 10000 + o * 1000
    BY <1>2, <1>3, <2>1, <2>2, <2>3, LadderTable, SMT
  <2>5. n = k + 1 => b >= a + 1000
    BY <1>2, <1>3, <2>1, <2>2, <2>3, <2>4, LadderTable, SMT
  <2>6. n = k - 1 => b <= a - 1000 \/ (o = 0 /\ b < a)
    BY <1>2, <1>3, <1>4, <2>1, <2>2, <2>3, <2>4, LadderTable, SMT
  <2> HIDE DEF a, b, k
  <2> QED BY <1>1, <1>2, <1>4, <1>14, <2>2, <2>3, <2>4, <2>5, <2>6, SMT DEF a, b, k
<1> QED BY <1>1, <1>5, <1>6, <1>7, <1>8, <1>9, <1>10, <1>11, <1>12, <1>13, <1>14, SMT

LEMMA Limits == Lowest \in Nat /\ Highest \in Nat /\ 0 < Lowest /\ LastSlot \in Nat
BY SMT DEF Lowest, Highest, LastSlot
=============================================================================
