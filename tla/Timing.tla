------------------------------- MODULE Timing -------------------------------
(***************************************************************************)
(* Timing::time_diff_mins: how far apart two times of the exchange are.    *)
(* A time is what sscanf reads from "2021-10-08T07:07:09Z"; mktime takes a *)
(* month from 0 and normalises one that is out of range, and a day past    *)
(* the end of its month.  The host's clock is taken to be in UTC.          *)
(***************************************************************************)
EXTENDS Integers, Sequences

DaysBefore == <<0, 31, 59, 90, 120, 151, 181, 212, 243, 273, 304, 334>>

IsLeap(year) == year % 4 = 0 /\ (year % 100 # 0 \/ year % 400 = 0)

\* The number of the first day of a month, counting from 0.
FirstDay(year, month) ==
    LET y == year - 1 IN
    365 * y + y \div 4 - y \div 100 + y \div 400
        + DaysBefore[month] + (IF month > 2 /\ IsLeap(year) THEN 1 ELSE 0)

Minutes(days, hour, min) == (days * 24 + hour) * 60 + min

\* mktime, in minutes; tm_mon counts from 0 and may be over 11.
mktime(tm_year, tm_mon, tm_mday, tm_hour, tm_min) ==
    Minutes(FirstDay(tm_year + tm_mon \div 12, (tm_mon % 12) + 1) + tm_mday,
            tm_hour, tm_min)

\* The code stores the month plus one, where mktime expects the month less one.
tm_mon_FromOne(t) == t.month
tm_mon(t) == t.month + 1

\* Both times get the year and the seconds of the first: the seconds cancel.
time_diff_mins(t1, t2) ==
    mktime(t1.year, tm_mon(t1), t1.day, t1.hour, t1.min)
        - mktime(t1.year, tm_mon(t2), t2.day, t2.hour, t2.min)

\* The minutes there really are, seconds left out.
RealMinutes(t) == Minutes(FirstDay(t.year, t.month) + t.day, t.hour, t.min)
RealDiff(t1, t2) == RealMinutes(t1) - RealMinutes(t2)
=============================================================================
