-------------------------- MODULE FunctionsProofs ---------------------------
(***************************************************************************)
(* On which evenings time_diff_mins counts the minutes to a market after   *)
(* midnight right, for every year; and what the request of a batch of      *)
(* orders says, however long the batch.  The recursion that puts the text  *)
(* together is unfolded by looking at the least counterexample.  Then the  *)
(* ladder of prices, and the slot of a price on it.                        *)
(***************************************************************************)
EXTENDS MCFunctions, PriceLadderProofs, SequenceTheorems, WellFoundedInduction, TLAPS

\* The walk stays within the calendar.
DayInv ==
    /\ today \in [year : Nat \ {0}, month : 1 .. 12, day : 1 .. 31]
    /\ today.day <= MonthEnd(today)

-----------------------------------------------------------------------------
\* The years divisible by k are counted one by one.
LEMMA EveryKth ==
  ASSUME NEW y \in Nat \ {0}, NEW k \in {4, 100, 400}
  PROVE  y \div k - (y - 1) \div k = IF y % k = 0 THEN 1 ELSE 0
<1>1. CASE k = 4
  BY <1>1
<1>2. CASE k = 100
  BY <1>2
<1>3. CASE k = 400
  BY <1>3
<1> QED BY <1>1, <1>2, <1>3

LEMMA LeapMod ==
  ASSUME NEW y \in Nat
  PROVE  (y % 400 = 0 => y % 100 = 0) /\ (y % 100 = 0 => y % 4 = 0)
OBVIOUS

\* A year has 365 days, or 366.
LEMMA YearLength ==
  ASSUME NEW y \in Nat \ {0}
  PROVE  FirstDay(y + 1, 1) - FirstDay(y, 1) = IF IsLeap(y) THEN 366 ELSE 365
<1> DEFINE a == y \div 4  b == y \div 100  c == y \div 400
           d == (y - 1) \div 4  e == (y - 1) \div 100  f == (y - 1) \div 400
<1>1. /\ a - d = IF y % 4 = 0 THEN 1 ELSE 0
      /\ b - e = IF y % 100 = 0 THEN 1 ELSE 0
      /\ c - f = IF y % 400 = 0 THEN 1 ELSE 0
  BY EveryKth
<1>2. a \in Int /\ b \in Int /\ c \in Int /\ d \in Int /\ e \in Int /\ f \in Int
  OBVIOUS
<1>3. /\ FirstDay(y + 1, 1) = 365 * y + a - b + c
      /\ FirstDay(y, 1) = 365 * (y - 1) + d - e + f
  BY DEF FirstDay, DaysBefore
<1> HIDE DEF a, b, c, d, e, f
<1> QED BY <1>1, <1>2, <1>3, LeapMod DEF IsLeap

LEMMA FirstDayIs ==
  ASSUME NEW y \in Nat \ {0}
  PROVE  /\ FirstDay(y, 1) \in Int
         /\ \A m \in 1 .. 12 :
              FirstDay(y, m) = FirstDay(y, 1) + DaysBefore[m]
                                  + (IF m > 2 /\ IsLeap(y) THEN 1 ELSE 0)
BY DEF FirstDay, DaysBefore

\* The first days of the months of a year and the next, counted from January.
LEMMA Calendar ==
  ASSUME NEW y \in Nat \ {0}
  PROVE  \E b \in Int, l \in 0 .. 1 :
            /\ FirstDay(y, 1) = b /\ FirstDay(y, 2) = b + 31
            /\ FirstDay(y, 3) = b + 59 + l /\ FirstDay(y, 4) = b + 90 + l
            /\ FirstDay(y, 5) = b + 120 + l /\ FirstDay(y, 6) = b + 151 + l
            /\ FirstDay(y, 7) = b + 181 + l /\ FirstDay(y, 8) = b + 212 + l
            /\ FirstDay(y, 9) = b + 243 + l /\ FirstDay(y, 10) = b + 273 + l
            /\ FirstDay(y, 11) = b + 304 + l /\ FirstDay(y, 12) = b + 334 + l
            /\ FirstDay(y + 1, 1) = b + 365 + l /\ FirstDay(y + 1, 2) = b + 396 + l
<1> DEFINE l == IF IsLeap(y) THEN 1 ELSE 0
<1>1. y + 1 \in Nat \ {0} /\ l \in 0 .. 1
  OBVIOUS
<1>2. FirstDay(y, 1) \in Int /\ FirstDay(y + 1, 1) = FirstDay(y, 1) + 365 + l
  BY YearLength, FirstDayIs DEF FirstDay, DaysBefore
<1>3. FirstDay(y, 2) = FirstDay(y, 1) + 31 /\ FirstDay(y + 1, 2) = FirstDay(y + 1, 1) + 31
  BY <1>1, FirstDayIs DEF DaysBefore
<1>4. \A m \in 3 .. 12 : FirstDay(y, m) = FirstDay(y, 1) + DaysBefore[m] + l
  BY <1>2, FirstDayIs
<1> HIDE DEF l
<1> QED BY <1>1, <1>2, <1>3, <1>4 DEF DaysBefore

LEMMA MonthEnds ==
  ASSUME NEW d, NEW y \in Nat \ {0}, NEW m \in 1 .. 12, d.year = y, d.month = m
  PROVE  MonthEnd(d) \in 28 .. 31
<1>1. MonthEnd(d) = FirstDay(y + m \div 12, (m % 12) + 1) - FirstDay(y, m)
  BY DEF MonthEnd
<1>2. CASE m = 12
  BY <1>1, <1>2, Calendar
<1>3. CASE m # 12
  <2>1. m \div 12 = 0 /\ m % 12 = m /\ m \in {1, 2, 3, 4, 5, 6, 7, 8, 9, 10, 11}
    BY <1>3
  <2>2. MonthEnd(d) = FirstDay(y, m + 1) - FirstDay(y, m)
    BY <1>1, <2>1
  <2> QED BY <2>1, <2>2, Calendar
<1> QED BY <1>2, <1>3

LEMMA InitDay == Init => DayInv
<1> SUFFICES ASSUME Init PROVE DayInv
  OBVIOUS
<1>1. today = [year |-> FirstYear, month |-> 1, day |-> 1]
  BY DEF Init
<1> QED BY <1>1, MonthEnds, FirstYearAssumption DEF DayInv

LEMMA TomorrowIs ==
  ASSUME DayInv
  PROVE  /\ today.day < MonthEnd(today) =>
               Tomorrow(today) = [year |-> today.year, month |-> today.month,
                                  day |-> today.day + 1]
         /\ today.day = MonthEnd(today) /\ today.month # 12 =>
               Tomorrow(today) = [year |-> today.year, month |-> today.month + 1, day |-> 1]
         /\ today.day = MonthEnd(today) /\ today.month = 12 =>
               Tomorrow(today) = [year |-> today.year + 1, month |-> 1, day |-> 1]
         /\ today.day < MonthEnd(today) \/ today.day = MonthEnd(today)
<1>1. /\ today = [year |-> today.year, month |-> today.month, day |-> today.day]
      /\ today.month \in 1 .. 12 /\ today.day \in 1 .. 31
      /\ today.day <= MonthEnd(today)
  BY DEF DayInv
<1>2. MonthEnd(today) \in 28 .. 31
  BY MonthEnds DEF DayInv
<1>3. [today EXCEPT !.day = today.day + 1]
         = [year |-> today.year, month |-> today.month, day |-> today.day + 1]
  BY <1>1
<1>4. today.day < MonthEnd(today) => today.day # MonthEnd(today)
  BY <1>1, <1>2
<1>5. CASE today.day < MonthEnd(today)
  BY <1>3, <1>4, <1>5 DEF Tomorrow
<1>6. CASE today.day = MonthEnd(today) /\ today.month # 12
  BY <1>1, <1>2, <1>6 DEF Tomorrow
<1>7. CASE today.day = MonthEnd(today) /\ today.month = 12
  BY <1>1, <1>2, <1>7 DEF Tomorrow
<1>8. today.day < MonthEnd(today) \/ today.day = MonthEnd(today)
  BY <1>1, <1>2
<1> QED BY <1>5, <1>6, <1>7, <1>8

LEMMA TomorrowTyped ==
  ASSUME DayInv
  PROVE  /\ Tomorrow(today) \in [year : Nat \ {0}, month : 1 .. 12, day : 1 .. 31]
         /\ Tomorrow(today).day <= MonthEnd(Tomorrow(today))
<1> DEFINE t == Tomorrow(today)
<1>0. today \in [year : Nat \ {0}, month : 1 .. 12, day : 1 .. 31]
  BY DEF DayInv
<1>1. MonthEnd(today) \in 28 .. 31
  BY MonthEnds DEF DayInv
<1>2. CASE today.day < MonthEnd(today)
  <2>1. t = [year |-> today.year, month |-> today.month, day |-> today.day + 1]
    BY <1>2, TomorrowIs
  <2> HIDE DEF t
  <2>2. t \in [year : Nat \ {0}, month : 1 .. 12, day : 1 .. 31]
    BY <1>0, <1>1, <1>2, <2>1
  <2>3. MonthEnd(t) = MonthEnd(today)
    BY <2>1 DEF MonthEnd
  <2> QED BY <1>0, <1>1, <1>2, <2>1, <2>2, <2>3 DEF t
<1>3. CASE today.day = MonthEnd(today)
  <2>1. t \in [year : Nat \ {0}, month : 1 .. 12, day : {1}]
    <3>1. CASE today.month # 12
      BY <1>0, <1>3, <3>1, TomorrowIs
    <3>2. CASE today.month = 12
      BY <1>0, <1>3, <3>2, TomorrowIs
    <3> QED BY <3>1, <3>2
  <2> HIDE DEF t
  <2>2. MonthEnd(t) \in 28 .. 31
    BY <2>1, MonthEnds
  <2> QED BY <2>1, <2>2 DEF t
<1> QED BY <1>2, <1>3, TomorrowIs

LEMMA DayKept == DayInv /\ [Next]_vars => DayInv'
<1> SUFFICES ASSUME DayInv, [Next]_vars PROVE DayInv'
  OBVIOUS
<1>1. CASE today' = today
  BY <1>1 DEF DayInv, MonthEnd
<1>2. CASE today' = Tomorrow(today)
  BY <1>2, TomorrowTyped DEF DayInv, MonthEnd
<1> QED BY <1>1, <1>2 DEF Next, NextDay, AddOrder, BuildLadder, Walked, vars

-----------------------------------------------------------------------------
\* The first day of the month time_diff_mins takes for this one: two months on.
Taken(year, month) == FirstDay(year + (month + 1) \div 12, ((month + 1) % 12) + 1)

LEMMA TakenIs ==
  ASSUME NEW y \in Nat \ {0}
  PROVE  /\ \A m \in 1 .. 12 : FirstDay(y, m) \in Int /\ Taken(y, m) \in Int
         /\ \A m \in 1 .. 10 : Taken(y, m) = FirstDay(y, m + 2)
         /\ Taken(y, 11) = FirstDay(y + 1, 1) /\ Taken(y, 12) = FirstDay(y + 1, 2)
<1>1. \A m \in 1 .. 10 : Taken(y, m) = FirstDay(y, m + 2)
  <2> SUFFICES ASSUME NEW m \in 1 .. 10 PROVE Taken(y, m) = FirstDay(y, m + 2)
    OBVIOUS
  <2>1. (m + 1) \div 12 = 0 /\ ((m + 1) % 12) + 1 = m + 2
    OBVIOUS
  <2> QED BY <2>1 DEF Taken
<1>2. Taken(y, 11) = FirstDay(y + 1, 1) /\ Taken(y, 12) = FirstDay(y + 1, 2)
  BY DEF Taken
<1>3. \A m \in 1 .. 12 : FirstDay(y, m) \in Int
  BY Calendar
<1>4. FirstDay(y + 1, 1) \in Int /\ FirstDay(y + 1, 2) \in Int
  BY Calendar
<1> QED BY <1>1, <1>2, <1>3, <1>4

\* The days it counts from the evening of a month's last day to the next morning.
DaysTaken(d) ==
    Taken(Tomorrow(d).year, Tomorrow(d).month) + Tomorrow(d).day
        - Taken(Tomorrow(d).year, d.month) - d.day

LEMMA EndTaken ==
  ASSUME DayInv, today.day = MonthEnd(today)
  PROVE  /\ DaysTaken(today) \in Int
         /\ today.month \in WrongEnds =>
               IF today.month \in {7, 12} THEN DaysTaken(today) <= 0
               ELSE DaysTaken(today) >= 2
         /\ today.month \notin WrongEnds => DaysTaken(today) = 1
<1> DEFINE y == today.year
           m == today.month
<1>1. y \in Nat \ {0} /\ m \in 1 .. 12 /\ MonthEnd(today) \in Int
  BY MonthEnds DEF DayInv
<1>2. PICK b \in Int, l \in 0 .. 1 :
            /\ FirstDay(y, 1) = b /\ FirstDay(y, 2) = b + 31
            /\ FirstDay(y, 3) = b + 59 + l /\ FirstDay(y, 4) = b + 90 + l
            /\ FirstDay(y, 5) = b + 120 + l /\ FirstDay(y, 6) = b + 151 + l
            /\ FirstDay(y, 7) = b + 181 + l /\ FirstDay(y, 8) = b + 212 + l
            /\ FirstDay(y, 9) = b + 243 + l /\ FirstDay(y, 10) = b + 273 + l
            /\ FirstDay(y, 11) = b + 304 + l /\ FirstDay(y, 12) = b + 334 + l
            /\ FirstDay(y + 1, 1) = b + 365 + l /\ FirstDay(y + 1, 2) = b + 396 + l
  BY <1>1, Calendar
<1>3. CASE m = 12
  <2>1. Tomorrow(today) = [year |-> y + 1, month |-> 1, day |-> 1]
    BY <1>3, TomorrowIs
  <2>2. MonthEnd(today) = 31
    BY <1>2, <1>3 DEF MonthEnd
  <2>3. Taken(y + 1, 1) = FirstDay(y + 1, 3) /\ Taken(y + 1, 12) = FirstDay(y + 2, 2)
    BY <1>1, TakenIs
  <2>4. PICK c \in Int, k \in 0 .. 1 :
           FirstDay(y + 1, 3) = c + 59 + k /\ FirstDay(y + 2, 2) = c + 396 + k
    <3>1. y + 1 \in Nat \ {0} /\ (y + 1) + 1 = y + 2
      BY <1>1
    <3> QED BY <3>1, Calendar
  <2>5. DaysTaken(today) = (c + 59 + k) + 1 - (c + 396 + k) - 31
    BY <1>3, <2>1, <2>2, <2>3, <2>4 DEF DaysTaken
  <2> QED BY <1>3, <2>5 DEF WrongEnds
<1>4. CASE m # 12
  <2>1. m \in {1, 2, 3, 4, 5, 6, 7, 8, 9, 10, 11} /\ m \div 12 = 0 /\ m % 12 = m
    BY <1>1, <1>4
  <2>3. /\ Tomorrow(today).year = y /\ Tomorrow(today).month = m + 1
        /\ Tomorrow(today).day = 1
    BY <1>4, TomorrowIs
  <2>4. MonthEnd(today) = FirstDay(y, m + 1) - FirstDay(y, m)
    BY <1>1, <2>1 DEF MonthEnd
  <2>5. DaysTaken(today) = Taken(y, m + 1) + 1 - Taken(y, m)
                              - (FirstDay(y, m + 1) - FirstDay(y, m))
    BY <2>3, <2>4 DEF DaysTaken
  <2>6. /\ Taken(y, 1) = b + 59 + l /\ Taken(y, 2) = b + 90 + l
        /\ Taken(y, 3) = b + 120 + l /\ Taken(y, 4) = b + 151 + l
        /\ Taken(y, 5) = b + 181 + l /\ Taken(y, 6) = b + 212 + l
        /\ Taken(y, 7) = b + 243 + l /\ Taken(y, 8) = b + 273 + l
        /\ Taken(y, 9) = b + 304 + l /\ Taken(y, 10) = b + 334 + l
        /\ Taken(y, 11) = b + 365 + l /\ Taken(y, 12) = b + 396 + l
    BY <1>1, <1>2, TakenIs
  <2> HIDE DEF y, m
  <2>7. DaysTaken(today) = IF m = 2 THEN 3 - l ELSE IF m = 7 THEN 0
                           ELSE IF m \in {6, 11} THEN 2 ELSE 1
    BY <1>2, <2>1, <2>5, <2>6
  <2> QED BY <2>1, <2>7 DEF WrongEnds, m
<1> QED BY <1>3, <1>4

LEMMA Midnight ==
  ASSUME DayInv, NEW before \in {0, 1, 9}, NEW after \in {0, 1, 8}
  PROVE  LET now == At(today, 23, 59 - before)
             start == At(Tomorrow(today), 0, after)
             diff == time_diff_mins(start, now)
         IN IF ~WrongEnd(today) THEN diff = RealDiff(start, now)
            ELSE IF today.month \in {7, 12} THEN diff < -1000 ELSE diff > 1000
<1> DEFINE now == At(today, 23, 59 - before)
           start == At(Tomorrow(today), 0, after)
           diff == time_diff_mins(start, now)
           t == Tomorrow(today)
<1>1. /\ today.year \in Nat \ {0} /\ today.month \in 1 .. 12 /\ today.day \in 1 .. 31
      /\ t.year \in Nat \ {0} /\ t.month \in 1 .. 12 /\ t.day \in 1 .. 31
  BY TomorrowTyped DEF DayInv
<1>2. diff = Minutes(Taken(t.year, t.month) + t.day, 0, after)
                - Minutes(Taken(t.year, today.month) + today.day, 23, 59 - before)
  BY DEF time_diff_mins, mktime, tm_mon, At, Taken
<1>3. RealDiff(start, now) =
         Minutes(FirstDay(t.year, t.month) + t.day, 0, after)
            - Minutes(FirstDay(today.year, today.month) + today.day, 23, 59 - before)
  BY DEF RealDiff, RealMinutes, At
<1>4. /\ Taken(t.year, t.month) \in Int /\ Taken(t.year, today.month) \in Int
      /\ FirstDay(t.year, t.month) \in Int
      /\ FirstDay(today.year, today.month) \in Int
  BY <1>1, TakenIs
<1>5. diff = 1440 * DaysTaken(today) + after - 1439 + before
  <2> DEFINE a == Taken(t.year, t.month)
             b == Taken(t.year, today.month)
             c == t.day
             d == today.day
  <2>1. diff = Minutes(a + c, 0, after) - Minutes(b + d, 23, 59 - before)
    BY <1>2
  <2>2. DaysTaken(today) = a + c - b - d
    BY DEF DaysTaken
  <2>3. a \in Int /\ b \in Int /\ c \in Int /\ d \in Int
    BY <1>1, <1>4
  <2>4. before \in Int /\ after \in Int
    OBVIOUS
  <2> HIDE DEF a, b, c, d, diff
  <2>5. Minutes(a + c, 0, after) - Minutes(b + d, 23, 59 - before)
           = 1440 * (a + c - b - d) + after - 1439 + before
    BY <2>3, <2>4 DEF Minutes
  <2> QED BY <2>1, <2>2, <2>5
<1>6. RealDiff(start, now) = 1 + after + before
  <2>1. FirstDay(t.year, t.month) + t.day
           = FirstDay(today.year, today.month) + today.day + 1
    <3>1. CASE today.day < MonthEnd(today)
      BY <1>1, <1>4, <3>1, TomorrowIs
    <3>2. CASE today.day = MonthEnd(today) /\ today.month = 12
      <4>1. t.year = today.year + 1 /\ t.month = 1 /\ t.day = 1
        BY <3>2, TomorrowIs
      <4>2. MonthEnd(today) = FirstDay(t.year, t.month)
                                 - FirstDay(today.year, today.month)
        BY <3>2, <4>1 DEF MonthEnd
      <4> QED BY <1>1, <1>4, <3>2, <4>1, <4>2
    <3>3. CASE today.day = MonthEnd(today) /\ today.month # 12
      <4>1. today.month \div 12 = 0 /\ today.month % 12 = today.month
        BY <1>1, <3>3
      <4>2. t.year = today.year /\ t.month = today.month + 1 /\ t.day = 1
        BY <3>3, TomorrowIs
      <4>3. MonthEnd(today) = FirstDay(t.year, t.month)
                                 - FirstDay(today.year, today.month)
        BY <1>1, <4>1, <4>2 DEF MonthEnd
      <4> QED BY <1>1, <1>4, <3>3, <4>2, <4>3
    <3> QED BY <3>1, <3>2, <3>3, TomorrowIs
  <2> QED BY <1>1, <1>3, <1>4, <2>1 DEF Minutes
<1> HIDE DEF diff, now, start, t
<1>7. CASE today.day < MonthEnd(today)
  <2>1. t.year = today.year /\ t.month = today.month /\ t.day = today.day + 1
    BY <1>7, TomorrowIs DEF t
  <2>2. DaysTaken(today) = 1
    BY <1>1, <1>4, <2>1 DEF DaysTaken, t
  <2>3. ~WrongEnd(today)
    BY <1>1, <1>7, MonthEnds DEF WrongEnd
  <2>4. diff = RealDiff(start, now)
    BY <1>5, <1>6, <2>2
  <2> QED BY <2>3, <2>4 DEF diff, start, now
<1>8. CASE today.day = MonthEnd(today)
  <2>1. WrongEnd(today) <=> today.month \in WrongEnds
    BY <1>8 DEF WrongEnd
  <2>2. today.month \notin WrongEnds => diff = RealDiff(start, now)
    BY <1>5, <1>6, <1>8, EndTaken
  <2>3. today.month \in WrongEnds =>
           IF today.month \in {7, 12} THEN diff < -1000 ELSE diff > 1000
    BY <1>5, <1>8, EndTaken
  <2> QED BY <2>1, <2>2, <2>3 DEF diff, start, now
<1> QED BY <1>1, <1>7, <1>8, MonthEnds DEF DayInv

\* The minutes left to a market that starts after midnight are right on every
\* evening of every year but the last of five months, on which they are wrong by
\* most of a day or more: leap years and the turn of the year make no other case.
THEOREM MidnightRight == Spec => []MidnightDiff
<1>1. DayInv => MidnightDiff
  BY Midnight DEF MidnightDiff
<1> QED BY <1>1, InitDay, DayKept, PTL DEF Spec

-----------------------------------------------------------------------------
\* A set of numbers has a least.
LEMMA LeastOf ==
  ASSUME NEW T \in SUBSET Nat, T # {}
  PROVE  \E n \in T : \A m \in T : n <= m
<1> DEFINE R == {p \in Nat \X Nat : p[1] < p[2]}
<1>1. IsWellFoundedOn(R, Nat)
  <2>1. R = OpToRel(LAMBDA u, v : u < v, Nat)
    BY DEF OpToRel
  <2> QED BY <2>1, NatLessThanWellFounded
<1>2. \A u, v \in Nat : v < u => <<v, u>> \in R
  OBVIOUS
<1> HIDE DEF R
<1>3. PICK u \in T : \A v \in T : ~ (<<v, u>> \in R)
  BY <1>1, WFMin
<1>4. ASSUME NEW m \in T PROVE u <= m
  <2>1. u \in Nat /\ m \in Nat
    OBVIOUS
  <2>2. ~ (<<m, u>> \in R)
    BY <1>3
  <2>3. ~ (m < u)
    BY <1>2, <2>1, <2>2
  <2> QED BY <2>1, <2>3
<1> QED BY <1>4

\* The prefixes of a text put together piece by piece.
Joins(f, s, n) == f = [a \in 1 .. n |-> IF a = 1 THEN s[a] ELSE f[a - 1] \o s[a]]

\* There are such prefixes, so the CHOOSE behind the recursion finds them.
LEMMA JoinsExist ==
  ASSUME NEW s, NEW n \in Nat \ {0}
  PROVE  \E f : Joins(f, s, n)
<1> DEFINE T == {m \in Nat \ {0} : ~ \E f : Joins(f, s, m)}
<1> SUFFICES T = {}
  OBVIOUS
<1> SUFFICES ASSUME T # {} PROVE FALSE
  OBVIOUS
<1>1. PICK m \in T : \A k \in T : m <= k
  BY LeastOf
<1>2. m \in Nat \ {0} /\ ~ \E f : Joins(f, s, m)
  OBVIOUS
<1>3. CASE m = 1
  <2>1. Joins([a \in 1 .. m |-> s[a]], s, m)
    BY <1>3 DEF Joins
  <2> QED BY <1>2, <2>1
<1>4. CASE m # 1
  <2>1. m - 1 \in Nat \ {0} /\ m - 1 \notin T
    BY <1>1, <1>2, <1>4
  <2>2. PICK g : Joins(g, s, m - 1)
    BY <2>1
  <2> DEFINE f == [a \in 1 .. m |-> IF a = m THEN g[m - 1] \o s[m] ELSE g[a]]
  <2>3. \A a \in 1 .. m : f[a] = IF a = 1 THEN s[a] ELSE f[a - 1] \o s[a]
    <3> SUFFICES ASSUME NEW a \in 1 .. m
                 PROVE  f[a] = IF a = 1 THEN s[a] ELSE f[a - 1] \o s[a]
      OBVIOUS
    <3>1. CASE a = m
      <4>1. m \in 1 .. m /\ m - 1 \in 1 .. m /\ m - 1 # m
        BY <1>2, <1>4
      <4>2. f[m] = g[m - 1] \o s[m]
        BY <4>1
      <4>3. f[m - 1] = g[m - 1]
        BY <4>1
      <4> QED BY <1>4, <3>1, <4>2, <4>3
    <3>2. CASE a # m
      <4>1. a \in 1 .. (m - 1) /\ (a # 1 => a - 1 \in 1 .. (m - 1))
        BY <1>2, <3>2
      <4>2. g[a] = IF a = 1 THEN s[a] ELSE g[a - 1] \o s[a]
        BY <2>2, <4>1 DEF Joins
      <4>3. f[a] = g[a] /\ (a # 1 => f[a - 1] = g[a - 1])
        BY <1>2, <3>2, <4>1
      <4> QED BY <4>2, <4>3
    <3> QED BY <3>1, <3>2
  <2>4. f = [a \in 1 .. m |-> f[a]]
    OBVIOUS
  <2> HIDE DEF f
  <2>5. Joins(f, s, m)
    BY <2>3, <2>4 DEF Joins
  <2> QED BY <1>2, <2>5
<1> QED BY <1>3, <1>4

LEMMA FlattenJoins ==
  ASSUME NEW s, Len(s) \in Nat \ {0}
  PROVE  \E f : Joins(f, s, Len(s)) /\ FlattenSeq(s) = f[Len(s)]
<1>1. \E f : Joins(f, s, Len(s))
  BY JoinsExist
<1> DEFINE f == CHOOSE f : Joins(f, s, Len(s))
<1>2. Joins(f, s, Len(s))
  BY <1>1
<1>3. FlattenSeq(s) = f[Len(s)]
  BY DEF FlattenSeq, Joins
<1> QED BY <1>2, <1>3

-----------------------------------------------------------------------------
\* The pieces of a list that is one: an object each, a comma after all but the last.
Listed(s, side, orders) ==
    /\ s = [a \in DOMAIN orders |-> s[a]]
    /\ \A a \in 1 .. Len(orders) :
          s[a] = IF a = Len(orders) THEN <<Piece(side, orders[a])>>
                 ELSE <<Piece(side, orders[a]), Comma>>

\* What the first i of them come to.
Text(side, orders, a) ==
    [k \in 1 .. (IF a = Len(orders) THEN 2 * a - 1 ELSE 2 * a) |->
        IF k % 2 = 0 THEN Comma ELSE Piece(side, orders[(k + 1) \div 2])]

Pieces(side, orders) == {Comma} \cup {Piece(side, orders[a]) : a \in 1 .. Len(orders)}

LEMMA TextTyped ==
  ASSUME NEW side, NEW orders, Len(orders) \in Nat \ {0}, NEW a \in 1 .. Len(orders)
  PROVE  /\ Text(side, orders, a) \in Seq(Pieces(side, orders))
         /\ Len(Text(side, orders, a)) = IF a = Len(orders) THEN 2 * a - 1 ELSE 2 * a
<1> DEFINE l == IF a = Len(orders) THEN 2 * a - 1 ELSE 2 * a
<1>1. l \in Nat
  OBVIOUS
<1>2. ASSUME NEW k \in 1 .. l
      PROVE  (IF k % 2 = 0 THEN Comma ELSE Piece(side, orders[(k + 1) \div 2]))
                \in Pieces(side, orders)
  <2>1. k % 2 # 0 => (k + 1) \div 2 \in 1 .. Len(orders)
    OBVIOUS
  <2> QED BY <2>1 DEF Pieces
<1> HIDE DEF l
<1>3. Text(side, orders, a) \in [1 .. l -> Pieces(side, orders)]
  BY <1>2 DEF Text, l
<1> QED BY <1>1, <1>3 DEF l

LEMMA PieceTyped ==
  ASSUME NEW side, NEW orders, Len(orders) \in Nat \ {0}, NEW s, Listed(s, side, orders),
         NEW a \in 1 .. Len(orders)
  PROVE  /\ s[a] \in Seq(Pieces(side, orders))
         /\ Len(s[a]) = (IF a = Len(orders) THEN 1 ELSE 2)
         /\ s[a][1] = Piece(side, orders[a])
         /\ a # Len(orders) => s[a][2] = Comma
<1>1. Comma \in Pieces(side, orders) /\ Piece(side, orders[a]) \in Pieces(side, orders)
  BY DEF Pieces
<1>2. CASE a = Len(orders)
  <2>1. s[a] = <<Piece(side, orders[a])>>
    BY <1>2 DEF Listed
  <2> QED BY <1>1, <1>2, <2>1
<1>3. CASE a # Len(orders)
  <2>1. s[a] = <<Piece(side, orders[a]), Comma>>
    BY <1>3 DEF Listed
  <2> QED BY <1>1, <1>3, <2>1
<1> QED BY <1>2, <1>3

LEMMA TextGrows ==
  ASSUME NEW side, NEW orders, Len(orders) \in Nat \ {0}, NEW s, Listed(s, side, orders),
         NEW a \in 1 .. Len(orders)
  PROVE  Text(side, orders, a) = IF a = 1 THEN s[a] ELSE Text(side, orders, a - 1) \o s[a]
<1> DEFINE P == Pieces(side, orders)
           t == Text(side, orders, a)
           l == IF a = Len(orders) THEN 2 * a - 1 ELSE 2 * a
<1>1. t \in Seq(P) /\ Len(t) = l
  BY TextTyped
<1>2. \A k \in 1 .. l : t[k] = IF k % 2 = 0 THEN Comma ELSE Piece(side, orders[(k + 1) \div 2])
  BY DEF Text
<1>3. /\ s[a] \in Seq(P) /\ Len(s[a]) = l - (2 * a - 2)
      /\ s[a][1] = Piece(side, orders[a])
      /\ a # Len(orders) => s[a][2] = Comma
  <2>1. l - (2 * a - 2) = IF a = Len(orders) THEN 1 ELSE 2
    OBVIOUS
  <2>2. /\ s[a] \in Seq(P) /\ Len(s[a]) = (IF a = Len(orders) THEN 1 ELSE 2)
        /\ s[a][1] = Piece(side, orders[a])
        /\ a # Len(orders) => s[a][2] = Comma
    BY PieceTyped
  <2> HIDE DEF l, P
  <2> QED BY <2>1, <2>2
<1>4. CASE a = 1
  <2>1. Len(s[a]) = l
    BY <1>3, <1>4
  <2>2. ASSUME NEW k \in 1 .. l PROVE t[k] = s[a][k]
    <3>1. k = 1 \/ (k = 2 /\ a # Len(orders))
      BY <1>4
    <3> QED BY <1>2, <1>3, <1>4, <3>1
  <2> HIDE DEF t, P, l
  <2>3. t = s[a]
    BY <1>1, <1>3, <2>1, <2>2, SeqEqual
  <2> QED BY <1>4, <2>3 DEF t
<1>5. CASE a # 1
  <2> DEFINE p == Text(side, orders, a - 1)
  <2>1. a - 1 \in 1 .. Len(orders) /\ a - 1 # Len(orders)
    BY <1>5
  <2>2. p \in Seq(P) /\ Len(p) = 2 * a - 2
    <3>1. p \in Seq(P) /\ Len(p) = 2 * (a - 1)
      BY <2>1, TextTyped
    <3> HIDE DEF p, P
    <3> QED BY <3>1
  <2>3. \A k \in 1 .. 2 * a - 2 :
           p[k] = IF k % 2 = 0 THEN Comma ELSE Piece(side, orders[(k + 1) \div 2])
    BY <2>1 DEF Text
  <2> HIDE DEF p, t, P
  <2>4. /\ p \o s[a] \in Seq(P) /\ Len(p \o s[a]) = l
        /\ \A k \in 1 .. l : (p \o s[a])[k] =
              IF k <= 2 * a - 2 THEN p[k] ELSE s[a][k - (2 * a - 2)]
    <3>1. /\ p \o s[a] \in Seq(P) /\ Len(p \o s[a]) = Len(p) + Len(s[a])
          /\ \A k \in 1 .. Len(p) + Len(s[a]) : (p \o s[a])[k] =
                IF k <= Len(p) THEN p[k] ELSE s[a][k - Len(p)]
      BY <1>3, <2>2, ConcatProperties
    <3>2. Len(p) + Len(s[a]) = l
      BY <1>3, <2>2
    <3> HIDE DEF l
    <3> QED BY <2>2, <3>1, <3>2
  <2>5. ASSUME NEW k \in 1 .. l PROVE t[k] = (p \o s[a])[k]
    <3>1. CASE k <= 2 * a - 2
      BY <1>2, <2>3, <2>4, <3>1
    <3>2. CASE k = 2 * a - 1
      <4>1. k % 2 # 0 /\ (k + 1) \div 2 = a /\ ~ (k <= 2 * a - 2) /\ k - (2 * a - 2) = 1
        BY <3>2
      <4>2. (p \o s[a])[k] = s[a][1]
        BY <2>4, <4>1
      <4>3. t[k] = Piece(side, orders[a])
        BY <1>2, <4>1
      <4> QED BY <1>3, <4>2, <4>3
    <3>3. CASE k = 2 * a
      <4>1. k % 2 = 0 /\ ~ (k <= 2 * a - 2) /\ k - (2 * a - 2) = 2 /\ a # Len(orders)
        BY <3>3
      <4>2. (p \o s[a])[k] = s[a][2]
        BY <2>4, <4>1
      <4>3. t[k] = Comma
        BY <1>2, <4>1
      <4> QED BY <1>3, <4>1, <4>2, <4>3
    <3>4. k <= 2 * a - 2 \/ k = 2 * a - 1 \/ k = 2 * a
      OBVIOUS
    <3> QED BY <3>1, <3>2, <3>3, <3>4
  <2> HIDE DEF l
  <2>6. t = p \o s[a]
    BY <1>1, <2>4, <2>5, SeqEqual
  <2> QED BY <1>5, <2>6 DEF t, p
<1> QED BY <1>4, <1>5

\* The prefixes are what they should be.
LEMMA ListedText ==
  ASSUME NEW side, NEW orders, Len(orders) \in Nat \ {0}, NEW s, Listed(s, side, orders),
         NEW f, Joins(f, s, Len(orders))
  PROVE  \A a \in 1 .. Len(orders) : f[a] = Text(side, orders, a)
<1> DEFINE T == {a \in 1 .. Len(orders) : f[a] # Text(side, orders, a)}
<1> SUFFICES ASSUME T # {} PROVE FALSE
  OBVIOUS
<1>0. T \in SUBSET Nat
  OBVIOUS
<1>1. PICK a \in T : \A k \in T : a <= k
  <2> HIDE DEF T
  <2> QED BY <1>0, LeastOf
<1>2. a \in 1 .. Len(orders) /\ f[a] # Text(side, orders, a)
  OBVIOUS
<1>3. f[a] = IF a = 1 THEN s[a] ELSE f[a - 1] \o s[a]
  BY <1>2 DEF Joins
<1>4. a # 1 => f[a - 1] = Text(side, orders, a - 1)
  <2>1. a # 1 => a - 1 \in 1 .. Len(orders) /\ a - 1 \notin T
    BY <1>1, <1>2
  <2> QED BY <2>1
<1>5. Text(side, orders, a) = IF a = 1 THEN s[a] ELSE Text(side, orders, a - 1) \o s[a]
  BY <1>2, TextGrows
<1> QED BY <1>2, <1>3, <1>4, <1>5

\* Such pieces come to a list that says each order once, in the orders' order.
LEMMA ListedSays ==
  ASSUME NEW side, NEW S, NEW orders \in Seq(S), NEW s, Listed(s, side, orders)
  PROVE  SaysExactly(side, FlattenSeq(s), orders)
<1>1. Len(orders) \in Nat /\ DOMAIN orders = 1 .. Len(orders)
  BY LenProperties
<1>2. CASE orders = <<>>
  <2>1. s = <<>> /\ Len(orders) = 0
    BY <1>2 DEF Listed
  <2>2. FlattenSeq(s) = <<>>
    BY <2>1 DEF FlattenSeq
  <2>3. Readable(<<>>)
    BY DEF Readable
  <2>4. Objects(<<>>) = <<>>
    BY DEF Objects
  <2> QED BY <1>1, <2>1, <2>2, <2>3, <2>4 DEF SaysExactly
<1>3. CASE orders # <<>>
  <2> DEFINE n == Len(orders)
             list == FlattenSeq(s)
  <2>1. n \in Nat \ {0}
    BY <1>3, EmptySeq
  <2>2. Len(s) = n
    BY <1>1 DEF Listed
  <2>3. PICK f : Joins(f, s, n) /\ list = f[n]
    BY <2>1, <2>2, FlattenJoins
  <2>4. list = Text(side, orders, n)
    BY <2>1, <2>3, ListedText
  <2> HIDE DEF list
  <2>5. list = [k \in 1 .. 2 * n - 1 |->
                  IF k % 2 = 0 THEN Comma ELSE Piece(side, orders[(k + 1) \div 2])]
    BY <2>4 DEF Text
  <2> HIDE DEF n
  <2>6. Len(list) = 2 * n - 1 /\ DOMAIN list = 1 .. 2 * n - 1
    BY <2>1, <2>5
  <2>7. Readable(list)
    <3>1. Len(list) % 2 = 1
      BY <2>1, <2>6
    <3>2. \A k \in 1 .. 2 * n - 1 :
             list[k].text = (IF k % 2 = 0 THEN "comma" ELSE "object")
      BY <2>5 DEF Comma, Piece
    <3> QED BY <2>6, <3>1, <3>2 DEF Readable
  <2>8. Objects(list) = [k \in 1 .. n |-> Piece(side, orders[k])]
    <3>1. (Len(list) + 1) \div 2 = n
      BY <2>1, <2>6
    <3>2. ASSUME NEW k \in 1 .. n PROVE list[2 * k - 1] = Piece(side, orders[k])
      <4>1. /\ 2 * k - 1 \in 1 .. 2 * n - 1 /\ (2 * k - 1) % 2 # 0
            /\ ((2 * k - 1) + 1) \div 2 = k
        BY <2>1
      <4> QED BY <2>5, <4>1
    <3> QED BY <3>1, <3>2 DEF Objects
  <2>9. Len(Objects(list)) = n
    BY <2>1, <2>8
  <2> QED BY <1>1, <2>7, <2>8, <2>9 DEF SaysExactly, n, list
<1> QED BY <1>2, <1>3

\* A piece that is cut stays cut, and a list with one is none.
LEMMA CutSpoils ==
  ASSUME NEW S, NEW n \in Nat \ {0}, NEW s \in [1 .. n -> Seq(S)],
         NEW j \in 1 .. n, s[j] = <<Cut>>
  PROVE  ~ Readable(FlattenSeq(s))
<1>1. Len(s) = n
  OBVIOUS
<1>2. PICK f : Joins(f, s, n) /\ FlattenSeq(s) = f[n]
  BY <1>1, FlattenJoins
<1>3. f[n] \in Seq(S) /\ \E k \in 1 .. Len(f[n]) : f[n][k] = Cut
  <2> DEFINE Good(a) == /\ f[a] \in Seq(S)
                        /\ a >= j => \E k \in 1 .. Len(f[a]) : f[a][k] = Cut
             T == {a \in 1 .. n : ~ Good(a)}
  <2>0. T = {} => Good(n)
    <3>1. n \in 1 .. n /\ n >= j
      OBVIOUS
    <3> QED BY <3>1
  <2> SUFFICES ASSUME T # {} PROVE FALSE
    BY <2>0
  <2>1. T \in SUBSET Nat
    OBVIOUS
  <2>2. PICK a \in T : \A k \in T : a <= k
    <3> HIDE DEF T
    <3> QED BY <2>1, LeastOf
  <2>3. a \in 1 .. n /\ ~ Good(a)
    OBVIOUS
  <2>4. f[a] = IF a = 1 THEN s[a] ELSE f[a - 1] \o s[a]
    BY <1>2, <2>3 DEF Joins
  <2>5. s[a] \in Seq(S) /\ Len(s[a]) \in Nat
    BY <2>3, LenProperties
  <2>6. a = j => Len(s[a]) = 1 /\ s[a][1] = Cut
    <3>1. Len(<<Cut>>) = 1 /\ <<Cut>>[1] = Cut
      OBVIOUS
    <3> HIDE DEF T, Good
    <3> QED BY <3>1
  <2>7. CASE a = 1
    BY <2>3, <2>4, <2>5, <2>6, <2>7
  <2>8. CASE a # 1
    <3>1. a - 1 \in 1 .. n /\ a - 1 \notin T
      <4>1. a - 1 \in 1 .. n /\ ~ (a <= a - 1)
        BY <2>3, <2>8
      <4> HIDE DEF T
      <4> QED BY <2>2, <4>1
    <3>2. Good(a - 1)
      BY <3>1
    <3> DEFINE p == f[a - 1]
               q == s[a]
    <3>3. p \in Seq(S) /\ Len(p) \in Nat
      BY <3>2, LenProperties
    <3>4. f[a] = p \o q
      BY <2>4, <2>8
    <3>5. /\ p \o q \in Seq(S) /\ Len(p \o q) = Len(p) + Len(q)
          /\ \A k \in 1 .. Len(p) + Len(q) : (p \o q)[k] =
                IF k <= Len(p) THEN p[k] ELSE q[k - Len(p)]
      BY <2>5, <3>3, ConcatProperties
    <3>6. CASE a - 1 >= j
      <4>1. PICK k \in 1 .. Len(p) : p[k] = Cut
        BY <3>2, <3>6
      <4>2. k \in 1 .. Len(p) + Len(q) /\ (p \o q)[k] = Cut
        BY <2>5, <3>3, <3>5, <4>1
      <4> QED BY <2>3, <3>4, <3>5, <4>2
    <3>7. CASE a = j
      <4>1. Len(q) = 1 /\ q[1] = Cut
        BY <2>6, <3>7
      <4>2. /\ Len(p) + 1 \in 1 .. Len(p) + Len(q) /\ ~ (Len(p) + 1 <= Len(p))
            /\ Len(p) + 1 - Len(p) = 1
        BY <3>3, <4>1
      <4>3. (p \o q)[Len(p) + 1] = Cut
        BY <3>5, <4>1, <4>2
      <4> QED BY <2>3, <3>4, <3>5, <4>2, <4>3
    <3>8. CASE a < j
      BY <2>3, <3>4, <3>5, <3>8
    <3> QED BY <2>3, <3>6, <3>7, <3>8
  <2> QED BY <2>7, <2>8
<1>4. PICK k \in DOMAIN f[n] : f[n][k] = Cut
  BY <1>3, LenProperties
<1>5. f[n][k].text = "cut"
  BY <1>4 DEF Cut
<1> QED BY <1>2, <1>4, <1>5 DEF Readable

\* What becomes of a batch, whatever its length.
LEMMA Instructions ==
  ASSUME NEW S, NEW orders \in Seq(S)
  PROVE  /\ SaysExactly("LAY", Lay_instruction(orders), orders)
         /\ IF \E k \in 1 .. Len(orders) - 1 : orders[k].order_type = "SP"
            THEN ~ Readable(Back_instruction(orders))
            ELSE SaysExactly("BACK", Back_instruction(orders), orders)
<1>1. Len(orders) \in Nat /\ DOMAIN orders = 1 .. Len(orders)
  BY LenProperties
<1>2. SaysExactly("LAY", Lay_instruction(orders), orders)
  <2> DEFINE s == [a \in DOMAIN orders |-> LayPiece(orders, a)]
  <2>1. Listed(s, "LAY", orders)
    BY <1>1 DEF Listed, LayPiece, IsLast
  <2> HIDE DEF s
  <2>2. SaysExactly("LAY", FlattenSeq(s), orders)
    BY <2>1, ListedSays
  <2> QED BY <2>2 DEF Lay_instruction, s
<1> DEFINE s == [a \in DOMAIN orders |-> BackPiece(orders, a)]
<1>3. CASE \A k \in 1 .. Len(orders) - 1 : orders[k].order_type # "SP"
  <2>1. ASSUME NEW a \in 1 .. Len(orders)
        PROVE  s[a] = IF a = Len(orders) THEN <<Piece("BACK", orders[a])>>
                      ELSE <<Piece("BACK", orders[a]), Comma>>
    <3>1. a # Len(orders) => orders[a].order_type # "SP"
      BY <1>1, <1>3
    <3> QED BY <1>1, <3>1 DEF BackPiece, IsLast
  <2>2. s = [a \in DOMAIN orders |-> s[a]]
    OBVIOUS
  <2>3. Listed(s, "BACK", orders)
    BY <2>1, <2>2 DEF Listed
  <2> HIDE DEF s
  <2>4. SaysExactly("BACK", FlattenSeq(s), orders)
    BY <2>3, ListedSays
  <2> QED BY <1>2, <1>3, <2>4 DEF Back_instruction, s
<1>4. ASSUME NEW j \in 1 .. Len(orders) - 1, orders[j].order_type = "SP"
      PROVE  ~ Readable(Back_instruction(orders))
  <2> DEFINE P == {Comma, Cut} \cup {Piece("BACK", orders[a]) : a \in 1 .. Len(orders)}
  <2>1. j \in 1 .. Len(orders) /\ j # Len(orders) /\ Len(orders) \in Nat \ {0}
    <3> HIDE DEF s, P
    <3> DEFINE n == Len(orders)
    <3>1. n \in Nat /\ j \in 1 .. n - 1
      BY <1>1
    <3> HIDE DEF n
    <3>2. j \in 1 .. n /\ j # n /\ n \in Nat \ {0}
      BY <3>1
    <3> QED BY <3>2 DEF n
  <2>2. s[j] = <<Cut>>
    BY <1>1, <1>4, <2>1 DEF BackPiece, IsLast
  <2>3. ASSUME NEW a \in 1 .. Len(orders) PROVE BackPiece(orders, a) \in Seq(P)
    <3>1. Piece("BACK", orders[a]) \in P /\ Comma \in P /\ Cut \in P
      OBVIOUS
    <3> HIDE DEF P
    <3> QED BY <3>1 DEF BackPiece
  <2>4. s \in [1 .. Len(orders) -> Seq(P)]
    BY <1>1, <2>3
  <2> HIDE DEF s, P
  <2>5. ~ Readable(FlattenSeq(s))
    BY <2>1, <2>2, <2>4, CutSpoils
  <2> QED BY <2>5 DEF Back_instruction, s
<1> QED BY <1>2, <1>3, <1>4

-----------------------------------------------------------------------------
BatchInv == batch \in Seq(Order)

\* The request of a batch of lay orders is a list that says each order once and in
\* order, however many they are and whatever their types; so is that of back orders
\* unless one at the starting price stands before the last: then it cannot be read.
THEOREM RequestsRight == Spec => []RequestsExact
<1>1. Init => BatchInv
  BY DEF Init, BatchInv
<1>2. BatchInv /\ [Next]_vars => BatchInv'
  BY DEF BatchInv, Next, NextDay, AddOrder, BuildLadder, vars
<1>3. BatchInv => RequestsExact
  BY Instructions DEF BatchInv, RequestsExact
<1> QED BY <1>1, <1>2, <1>3, PTL DEF Spec
-----------------------------------------------------------------------------
\* The ladder that is built has the tables of the one it is compared with.
LEMMA SameLadder ==
  /\ Build!Lowest = Lowest /\ Build!Highest = Highest
  /\ Build!LastSlot = LastSlot /\ Build!Slots = Slots
  /\ Build!Ladder = Ladder /\ Build!Ticks = Ticks
  /\ \A p : Build!Banded(p) <=> Banded(p)
  /\ \A p : Build!Band(p) = Band(p) /\ Build!GetIndex(p) = GetIndex(p)
<1>1. /\ Build!Lowest = Lowest /\ Build!Highest = Highest /\ Build!Slots = Slots
      /\ Build!LastSlot = LastSlot /\ Build!Ticks = Ticks /\ Build!Starts = Starts
      /\ Build!Bounds = Bounds /\ Build!Indexes = Indexes
  BY DEF Build!Lowest, Lowest, Build!Highest, Highest, Build!Slots, Slots, Build!LastSlot,
         LastSlot, Build!Ticks, Ticks, Build!Starts, Starts, Build!Bounds, Bounds,
         Build!Indexes, Indexes
<1>2. \A t, p : Build!InBand(t, p) <=> InBand(t, p)
  BY <1>1 DEF Build!InBand, InBand
<1>3. \A p : (Build!Banded(p) <=> Banded(p)) /\ Build!Band(p) = Band(p)
  BY <1>2 DEF Build!Banded, Banded, Build!Band, Band, Build!InBand, InBand, Build!Bounds, Bounds
<1>4. \A t, p : Build!TickOffset(t, p) = TickOffset(t, p)
  BY <1>1 DEF Build!TickOffset, TickOffset
<1>5. \A p : Build!GetIndex(p) = GetIndex(p)
  BY <1>1, <1>3, <1>4 DEF Build!GetIndex, GetIndex
<1>6. Build!Ladder = Ladder
  BY <1>1 DEF Build!Ladder, Ladder, Build!SlotBand, SlotBand, Build!Indexes, Indexes
<1> QED BY <1>1, <1>3, <1>5, <1>6

\* The slots filled hold the ladder, and so will the next.
BuildInv ==
    /\ i \in Nat
    /\ i \in Slots => x = Ladder[i]
    /\ DOMAIN book = {k \in Slots : k < i}
    /\ \A k \in DOMAIN book : book[k] = Ladder[k]

\* Each slot filled is a tick of its band above the last.
LEMMA SlotFilled ==
  ASSUME BuildInv, Build!FillSlot
  PROVE  BuildInv'
<1>1. i \in Nat /\ i \in Slots /\ i <= 349 /\ x = Ladder[i]
  <2>1. i \in Nat /\ i <= 349
    BY SameLadder, SMT DEF BuildInv, Build!FillSlot, LastSlot
  <2>2. i \in Slots
    BY <2>1, SMT DEF Slots, LastSlot
  <2> QED BY <2>1, <2>2 DEF BuildInv
<1>2. /\ i' = i + 1 /\ t_idx' = Build!NextBand(x) /\ x' = x + Ticks[t_idx']
      /\ book' = [k \in 0 .. i |-> IF k = i THEN x ELSE book[k]]
  BY SameLadder DEF Build!FillSlot
<1>3. i' \in Slots => x' = Ladder[i']
  <2> SUFFICES ASSUME i' \in Slots PROVE x' = Ladder[i']
    OBVIOUS
  <2>1. i < LastSlot
    BY <1>1, <1>2, SMT DEF Slots, LastSlot
  <2>2. Banded(x) /\ Ladder[i + 1] = x + Ticks[Band(x)]
    BY <1>1, <2>1, NextTick
  <2>3. t_idx' = Band(x)
    BY <1>2, <2>2, SameLadder DEF Build!NextBand
  <2> QED BY <1>2, <2>2, <2>3
<1>4. DOMAIN book' = 0 .. i
  BY <1>2
<1>5. 0 .. i = {k \in Slots : k < i'}
  <2>1. \A k : k \in 0 .. i <=> k \in 0 .. 349 /\ k < i + 1
    BY <1>1
  <2>2. Slots = 0 .. 349
    BY DEF Slots, LastSlot
  <2> QED BY <1>2, <2>1, <2>2
<1>6. ASSUME NEW k \in DOMAIN book'
      PROVE  book'[k] = Ladder[k]
  <2>1. book'[k] = IF k = i THEN x ELSE book[k]
    BY <1>2, <1>4
  <2>2. CASE k = i
    BY <1>1, <2>1, <2>2
  <2>3. CASE k # i
    <3>1. k \in Slots /\ k < i + 1 /\ k \in Int
      BY <1>2, <1>4, <1>5
    <3>2. k < i
      BY <1>1, <2>3, <3>1
    <3> QED BY <2>1, <2>3, <3>1, <3>2 DEF BuildInv
  <2> QED BY <2>2, <2>3
<1>7. i' \in Nat
  BY <1>1, <1>2
<1> QED BY <1>3, <1>4, <1>5, <1>6, <1>7 DEF BuildInv

\* So it is for the whole of the constructor's loop.
LEMMA BuildBegins == Init => BuildInv
<1> SUFFICES ASSUME Init PROVE BuildInv
  OBVIOUS
<1>1. i = 0 /\ x = Lowest /\ book = [k \in {} |-> 0]
  BY SameLadder DEF Init, Build!Init
<1>2. DOMAIN book = {}
  BY <1>1
<1>3. 0 \in Slots /\ \A k \in Slots : ~ (k < 0)
  BY SMT DEF Slots, LastSlot
<1>4. Ladder[0] = 101 /\ Lowest = 101
  BY <1>3, LadderTable, SMT DEF Lowest
<1> QED BY <1>1, <1>2, <1>3, <1>4 DEF BuildInv

LEMMA BuildKept == BuildInv /\ [Next]_vars => BuildInv'
<1> SUFFICES ASSUME BuildInv, [Next]_vars PROVE BuildInv'
  OBVIOUS
<1>1. CASE BuildLadder
  BY <1>1, SlotFilled DEF BuildLadder
<1>2. CASE UNCHANGED ladder
  BY <1>2 DEF BuildInv, ladder
<1> QED BY <1>1, <1>2 DEF Next, NextDay, AddOrder, vars

\* The constructor fills every slot with the price that get_index counts on:
\* the bands meet without a gap and without a repetition.
THEOREM LadderBuilt == Spec => []BuildsLadder
<1>1. BuildInv => BuildsLadder
  BY SameLadder DEF BuildInv, BuildsLadder, Build!BuildsLadder
<1> QED BY <1>1, BuildBegins, BuildKept, PTL DEF Spec

\* On the finished ladder get_index finds, for every price short of the highest,
\* a slot that has no nearer neighbour.
THEOREM NearestFound == Spec => []NearestTick
<1>1. BuildInv => NearestTick
  <2> SUFFICES ASSUME BuildInv, i > LastSlot, NEW p \in Lowest .. Highest - 1
               PROVE  /\ GetIndex(p) \in Slots
                      /\ \A n \in {GetIndex(p) - 1, GetIndex(p) + 1} \cap Slots :
                             Build!Distance(book[GetIndex(p)], p)
                                 <= Build!Distance(book[n], p)
    BY SameLadder DEF NearestTick, Build!NearestTick
  <2>1. p \in Int /\ Lowest <= p /\ p < Highest
    <3>1. Lowest \in Int /\ Highest \in Int
      BY Limits
    <3> QED BY <3>1, SMTT(60)
  <2>2. GetIndex(p) \in Slots
    <3>1. p <= Highest
      BY <2>1, SMT DEF Highest
    <3> QED BY <2>1, <3>1, IndexIsSlot
  <2>3. \A k \in Slots : book[k] = Ladder[k]
    <3>1. \A k \in Slots : k < i
      <4>1. i \in Nat /\ i > 349
        BY DEF BuildInv, LastSlot
      <4>2. Slots = 0 .. 349
        BY DEF Slots, LastSlot
      <4> QED BY <4>1, <4>2
    <3> QED BY <3>1 DEF BuildInv
  <2>4. ASSUME NEW n \in {GetIndex(p) - 1, GetIndex(p) + 1} \cap Slots
        PROVE  Build!Distance(book[GetIndex(p)], p) <= Build!Distance(book[n], p)
    <3>1. book[GetIndex(p)] = Ladder[GetIndex(p)] /\ book[n] = Ladder[n]
      BY <2>2, <2>3
    <3> QED BY <2>1, <2>4, <3>1, NearestSlot DEF Build!Distance
  <2> QED BY <2>2, <2>4
<1> QED BY <1>1, BuildBegins, BuildKept, PTL DEF Spec
=============================================================================
