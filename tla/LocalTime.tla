----------------------------- MODULE LocalTime -----------------------------
(***************************************************************************)
(* nolocks_localtime of redis/src/localtime.c: from seconds since the      *)
(* epoch to a calendar date, by counting years and then months.            *)
(*                                                                         *)
(* The units of the clock are constants: TLC's integers end at 2^31, and   *)
(* short days let a run go past the year 2100 (the code has 60, 3600 and   *)
(* 3600 * 24).  The instants are assumed to lie in years that fit an int.  *)
(***************************************************************************)
EXTENDS Integers

CONSTANTS Times,      \* the time_t arguments
          Zones,      \* seconds west of Greenwich
          secs_min, secs_hour, secs_day

ASSUME ConstantsOK ==
    /\ Times \subseteq Int
    /\ Zones \subseteq Int
    /\ secs_min \in Nat \ {0} /\ secs_hour \in Nat \ {0} /\ secs_day \in Nat \ {0}
    /\ secs_hour % secs_min = 0 /\ secs_day % secs_hour = 0

VARIABLES pc,     \* before the adjustment, in one of the two loops, or done
          t,      \* the argument, then adjusted to local time
          tz, dst,
          days,   \* days left to distribute over years and months
          tm_hour, tm_min, tm_sec, tm_wday, tm_year, tm_yday, tm_mon, tm_mday

clock == <<tm_hour, tm_min, tm_sec, tm_wday>>
vars == <<pc, t, tz, dst, days, clock, tm_year, tm_yday, tm_mon, tm_mday>>

\* Division and remainder of C, which round towards zero.
Quot(a, b) == IF a >= 0 THEN a \div b ELSE -((-a) \div b)
Rem(a, b) == a - b * Quot(a, b)

\* Mutant: no century rule.
is_leap_year_Julian(year) == IF year % 4 # 0 THEN 0 ELSE 1

is_leap_year(year) ==
    IF year % 4 # 0 THEN 0
    ELSE IF year % 100 # 0 THEN 1
    ELSE IF year % 400 # 0 THEN 0
    ELSE 1

\* Mutant: February is never given its leap day.
mdaysCommon(year) == <<31, 28, 31, 30, 31, 30, 31, 31, 30, 31, 30, 31>>
mdays(year) == <<31, 28 + is_leap_year(year), 31, 30, 31, 30,
                 31, 31, 30, 31, 30, 31>>

\* The caller's struct tm is not initialised; no field is read before it is
\* written.
Init ==
    /\ pc = "start"
    /\ t \in Times /\ tz \in Zones /\ dst \in {0, 1}
    /\ days = 0
    /\ tm_hour = 0 /\ tm_min = 0 /\ tm_sec = 0 /\ tm_wday = 0
    /\ tm_year = 0 /\ tm_yday = 0 /\ tm_mon = 0 /\ tm_mday = 0

\* Mutant: the remainder taken before the shift.
weekdayUnwrapped(d) == Rem(d, 7) + 4

\* The epoch is a Thursday.
weekday(d) == Rem(d + 4, 7)

Adjust ==
    LET local == t - tz + secs_hour * dst
        seconds == Rem(local, secs_day)
    IN  /\ pc = "start"
        /\ pc' = "year"
        /\ t' = local
        /\ days' = Quot(local, secs_day)
        /\ tm_hour' = Quot(seconds, secs_hour)
        /\ tm_min' = Quot(Rem(seconds, secs_hour), secs_min)
        /\ tm_sec' = Rem(Rem(seconds, secs_hour), secs_min)
        /\ tm_wday' = weekday(days')
        /\ tm_year' = 1970
        /\ UNCHANGED <<tz, dst, tm_yday, tm_mon, tm_mday>>

days_of_year == 365 + is_leap_year(tm_year)

\* Mutant: a year is not left when it has exactly the days that remain.
NextYearStrict ==
    /\ pc = "year"
    /\ days_of_year < days
    /\ days' = days - days_of_year
    /\ tm_year' = tm_year + 1
    /\ UNCHANGED <<pc, t, tz, dst, clock, tm_yday, tm_mon, tm_mday>>

NextYear ==
    /\ pc = "year"
    /\ days_of_year <= days
    /\ days' = days - days_of_year
    /\ tm_year' = tm_year + 1
    /\ UNCHANGED <<pc, t, tz, dst, clock, tm_yday, tm_mon, tm_mday>>

YearFound ==
    /\ pc = "year"
    /\ days_of_year > days
    /\ tm_yday' = days
    /\ tm_mon' = 0
    /\ pc' = "month"
    /\ UNCHANGED <<t, tz, dst, days, clock, tm_year, tm_mday>>

NextMonth ==
    /\ pc = "month"
    /\ days >= mdays(tm_year)[tm_mon + 1]
    /\ days' = days - mdays(tm_year)[tm_mon + 1]
    /\ tm_mon' = tm_mon + 1
    /\ UNCHANGED <<pc, t, tz, dst, clock, tm_year, tm_yday, tm_mday>>

\* Mutant: the day of the month counted from zero.
MonthFoundFromZero ==
    /\ pc = "month"
    /\ days < mdays(tm_year)[tm_mon + 1]
    /\ tm_mday' = days
    /\ tm_year' = tm_year - 1900
    /\ pc' = "done"
    /\ UNCHANGED <<t, tz, dst, days, clock, tm_yday, tm_mon>>

MonthFound ==
    /\ pc = "month"
    /\ days < mdays(tm_year)[tm_mon + 1]
    /\ tm_mday' = days + 1
    /\ tm_year' = tm_year - 1900
    /\ pc' = "done"
    /\ UNCHANGED <<t, tz, dst, days, clock, tm_yday, tm_mon>>

Next == Adjust \/ NextYear \/ YearFound \/ NextMonth \/ MonthFound

Spec == Init /\ [][Next]_vars

\* The function runs to its end: nothing can block it.
FairSpec == Spec /\ WF_vars(Next)
-----------------------------------------------------------------------------
\* The Gregorian calendar in closed form, to compare with.  Leap days from
\* the epoch to the start of a year; days from its start to that of a month,
\* by the linear formula for the months from March on.
LeapDaysBefore(year) ==
    ((year - 1) \div 4 - (year - 1) \div 100) + ((year - 1) \div 400 - 477)

DaysBeforeYear(year) == 365 * (year - 1970) + LeapDaysBefore(year)

DaysIn(year) == DaysBeforeYear(year + 1) - DaysBeforeYear(year)

DaysBeforeMonth(year, mon) ==
    IF mon < 2 THEN 31 * mon
    ELSE (153 * (mon - 2) + 2) \div 5 + (DaysIn(year) - 306)

DayNumber(year, mon, mday) ==
    DaysBeforeYear(year) + DaysBeforeMonth(year, mon) + mday - 1

\* Sakamoto's day of the week, from the date alone.
YearShift(year) == (year + year \div 4) + (year \div 400 - year \div 100)
MonthShift == <<0, 3, 2, 5, 0, 3, 5, 1, 4, 6, 2, 4>>
Weekday(year, mon, mday) ==
    (YearShift(IF mon < 2 THEN year - 1 ELSE year) + MonthShift[mon + 1] + mday) % 7

\* The range of a remainder of C: it has the sign of the dividend.
Below(n) == -(n - 1) .. (n - 1)

\* What every field keeps to, before the epoch too.
TypeOK ==
    /\ pc \in {"start", "year", "month", "done"}
    /\ t \in Int /\ tz \in Zones /\ dst \in {0, 1} /\ days \in Int
    /\ tm_hour \in Below(secs_day \div secs_hour)
    /\ tm_min \in Below(secs_hour \div secs_min)
    /\ tm_sec \in Below(secs_min) /\ tm_wday \in Below(7)
    /\ tm_year \in Nat /\ (pc \in {"year", "month"} => tm_year >= 1970)
    /\ (pc = "done" => tm_year >= 70)
    /\ tm_mon \in 0 .. 11
    /\ tm_yday \in Int /\ tm_yday <= 365
    /\ tm_mday \in Int /\ tm_mday <= 31

\* The loop over the months never reads past the end of mdays, leap year or
\* not (localtime.c:43-49).
IndexInBounds == pc = "month" => tm_mon \in 0 .. 11

\* The fields name the instant the caller gave, adjusted to local time: day
\* number and time of day add up to it, before the epoch too, where the
\* fields are out of range (localtime.c:21-52).
InstantKept ==
    pc = "done" =>
        /\ DayNumber(tm_year + 1900, tm_mon, tm_mday) * secs_day
             + secs_hour * tm_hour + secs_min * tm_min + tm_sec = t
        /\ DaysBeforeMonth(tm_year + 1900, tm_mon) + tm_mday = tm_yday + 1

\* From the epoch on every field is in the range struct tm gives it, so that
\* with InstantKept the date is the one of the calendar (localtime.c:26-52).
FieldsInRange ==
    pc = "done" /\ t >= 0 =>
        /\ tm_hour \in 0 .. (secs_day \div secs_hour - 1)
        /\ tm_min \in 0 .. (secs_hour \div secs_min - 1)
        /\ tm_sec \in 0 .. (secs_min - 1)
        /\ tm_mon \in 0 .. 11
        /\ tm_mday \in 1 .. mdays(tm_year + 1900)[tm_mon + 1]
        /\ tm_yday \in 0 .. (DaysIn(tm_year + 1900) - 1)

\* The day of the week, which the code counts from the epoch, agrees with
\* the date it counts by years and months (localtime.c:31-52).
WeekdayOfDate ==
    pc = "done" /\ t >= 0 =>
        tm_wday = Weekday(tm_year + 1900, tm_mon, tm_mday)

\* Both loops end, for every instant (localtime.c:34-49).
Terminates == <>(pc = "done")
=============================================================================
