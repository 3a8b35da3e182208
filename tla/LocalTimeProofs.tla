-------------------------- MODULE LocalTimeProofs --------------------------
(***************************************************************************)
(* Proofs about LocalTime, for every instant, time zone and clock.         *)
(***************************************************************************)
EXTENDS LocalTime, TLAPS

\* How a quotient by a fixed number grows: it steps at the multiples.
LEMMA Steps ==
    ASSUME NEW y \in Int
    PROVE  /\ y \div 4 - (y - 1) \div 4 = IF y % 4 = 0 THEN 1 ELSE 0
           /\ y \div 100 - (y - 1) \div 100 = IF y % 100 = 0 THEN 1 ELSE 0
           /\ y \div 400 - (y - 1) \div 400 = IF y % 400 = 0 THEN 1 ELSE 0
<1>1. y \div 4 - (y - 1) \div 4 = IF y % 4 = 0 THEN 1 ELSE 0
  OBVIOUS
<1>2. y \div 100 - (y - 1) \div 100 = IF y % 100 = 0 THEN 1 ELSE 0
  OBVIOUS
<1>3. y \div 400 - (y - 1) \div 400 = IF y % 400 = 0 THEN 1 ELSE 0
  OBVIOUS
<1> QED BY <1>1, <1>2, <1>3

\* The year of the calendar has the length that is_leap_year gives it.
LEMMA YearLength ==
    ASSUME NEW y \in Int
    PROVE  /\ is_leap_year(y) \in {0, 1}
           /\ DaysBeforeYear(y) \in Int
           /\ DaysIn(y) = 365 + is_leap_year(y)
<1>1. is_leap_year(y) \in {0, 1}
  BY DEF is_leap_year
<1>2. LeapDaysBefore(y) \in Int
  BY DEF LeapDaysBefore
<1>3. LeapDaysBefore(y + 1) - LeapDaysBefore(y) = is_leap_year(y)
  <2>1. (y + 1) - 1 = y
    OBVIOUS
  <2>2. LeapDaysBefore(y + 1) = (y \div 4 - y \div 100) + (y \div 400 - 477)
    BY <2>1 DEF LeapDaysBefore
  <2>3. /\ y % 400 = 0 => y % 100 = 0
        /\ y % 100 = 0 => y % 4 = 0
    OBVIOUS
  <2>4. LeapDaysBefore(y + 1) - LeapDaysBefore(y) =
           ((y \div 4 - (y - 1) \div 4) - (y \div 100 - (y - 1) \div 100))
             + (y \div 400 - (y - 1) \div 400)
    BY <2>2 DEF LeapDaysBefore
  <2>5. /\ y \div 4 - (y - 1) \div 4 = IF y % 4 = 0 THEN 1 ELSE 0
        /\ y \div 100 - (y - 1) \div 100 = IF y % 100 = 0 THEN 1 ELSE 0
        /\ y \div 400 - (y - 1) \div 400 = IF y % 400 = 0 THEN 1 ELSE 0
    BY Steps
  <2>6. LeapDaysBefore(y + 1) - LeapDaysBefore(y) =
           ((IF y % 4 = 0 THEN 1 ELSE 0) - (IF y % 100 = 0 THEN 1 ELSE 0))
             + (IF y % 400 = 0 THEN 1 ELSE 0)
    BY ONLY <2>4, <2>5
  <2>7. is_leap_year(y) =
           ((IF y % 4 = 0 THEN 1 ELSE 0) - (IF y % 100 = 0 THEN 1 ELSE 0))
             + (IF y % 400 = 0 THEN 1 ELSE 0)
    BY <2>3 DEF is_leap_year
  <2> QED BY ONLY <2>6, <2>7
<1>4. LeapDaysBefore(y + 1) \in Int
  BY DEF LeapDaysBefore
<1>5. DaysIn(y) = 365 + (LeapDaysBefore(y + 1) - LeapDaysBefore(y))
  BY <1>2, <1>4 DEF DaysIn, DaysBeforeYear
<1> QED BY <1>1, <1>2, <1>3, <1>5 DEF DaysBeforeYear

\* Where the months start, by the linear formula.
LEMMA MonthStart ==
    ASSUME NEW y \in Int
    PROVE  /\ DaysBeforeMonth(y, 0) = 0
           /\ DaysBeforeMonth(y, 1) = 31
           /\ DaysBeforeMonth(y, 2) = DaysIn(y) - 306
           /\ DaysBeforeMonth(y, 3) = DaysIn(y) - 275
           /\ DaysBeforeMonth(y, 4) = DaysIn(y) - 245
           /\ DaysBeforeMonth(y, 5) = DaysIn(y) - 214
           /\ DaysBeforeMonth(y, 6) = DaysIn(y) - 184
           /\ DaysBeforeMonth(y, 7) = DaysIn(y) - 153
           /\ DaysBeforeMonth(y, 8) = DaysIn(y) - 122
           /\ DaysBeforeMonth(y, 9) = DaysIn(y) - 92
           /\ DaysBeforeMonth(y, 10) = DaysIn(y) - 61
           /\ DaysBeforeMonth(y, 11) = DaysIn(y) - 31
<1>1. is_leap_year(y) \in {0, 1} /\ DaysIn(y) = 365 + is_leap_year(y)
  BY YearLength
<1>2. \A k \in 2 .. 12 : DaysBeforeMonth(y, k) = (153 * (k - 2) + 2) \div 5 + (DaysIn(y) - 306)
  BY DEF DaysBeforeMonth
<1>3. DaysBeforeMonth(y, 0) = 0 /\ DaysBeforeMonth(y, 1) = 31
  BY DEF DaysBeforeMonth
<1> QED BY <1>1, <1>2, <1>3

\* The entries of mdays are the distances between the months.
LEMMA MonthLength ==
    ASSUME NEW y \in Int, NEW m \in 0 .. 11
    PROVE  /\ mdays(y)[m + 1] \in 28 .. 31
           /\ DaysBeforeMonth(y, m) \in Int
           /\ DaysBeforeMonth(y, 0) = 0
           /\ DaysBeforeMonth(y, m) + mdays(y)[m + 1]
                = IF m = 11 THEN DaysIn(y) ELSE DaysBeforeMonth(y, m + 1)
<1>1. is_leap_year(y) \in {0, 1} /\ DaysIn(y) = 365 + is_leap_year(y)
  BY YearLength
<1>2. \/ m = 0 \/ m = 1 \/ m = 2 \/ m = 3 \/ m = 4 \/ m = 5
      \/ m = 6 \/ m = 7 \/ m = 8 \/ m = 9 \/ m = 10 \/ m = 11
  OBVIOUS
<1> QED BY <1>1, <1>2, MonthStart DEF mdays

-----------------------------------------------------------------------------
\* The quotient and remainder of C add up, and lie on the side of zero of
\* the dividend.
LEMMA Division ==
    ASSUME NEW a \in Int, NEW b \in Nat \ {0}
    PROVE  /\ Quot(a, b) \in Int /\ Rem(a, b) \in Int
           /\ a = b * Quot(a, b) + Rem(a, b)
           /\ a >= 0 => Quot(a, b) >= 0 /\ Rem(a, b) \in 0 .. (b - 1)
           /\ a < 0 => Quot(a, b) <= 0
<1>1. ASSUME NEW c \in Int
      PROVE  c \div b \in Int /\ c % b \in 0 .. (b - 1) /\ c = b * (c \div b) + (c % b)
  OBVIOUS
<1>2. ASSUME NEW q \in Int, q <= -1 PROVE b * q <= -b
  <2>1. b * (q + 1) = b * q + b /\ b * q \in Int /\ q + 1 \in Int /\ q + 1 <= 0
    BY <1>2
  <2>2. \A x \in Int : x <= 0 => b * x <= 0
    OBVIOUS
  <2> QED BY <2>1, <2>2
<1>3. ASSUME NEW c \in Int, c >= 0 PROVE c \div b >= 0
  <2>1. PICK q \in Int, r \in 0 .. (b - 1) : q = c \div b /\ c = b * q + r
    BY <1>1
  <2>2. q <= -1 => b * q <= -b
    BY <1>2
  <2>3. b * q \in Int
    OBVIOUS
  <2> QED BY <1>3, <2>1, <2>2, <2>3
<1>4. CASE a >= 0
  <2>1. Quot(a, b) = a \div b
    BY <1>4 DEF Quot
  <2>2. Rem(a, b) = a - b * (a \div b)
    BY <2>1 DEF Rem
  <2>3. PICK q \in Int, r \in 0 .. (b - 1) : q = a \div b /\ a = b * q + r /\ q >= 0
    BY <1>1, <1>3, <1>4
  <2>4. b * q \in Int
    OBVIOUS
  <2>5. Quot(a, b) = q /\ Rem(a, b) = a - b * q
    BY <2>1, <2>2, <2>3
  <2>6. Rem(a, b) = r /\ r \in Int
    BY ONLY <2>3, <2>4, <2>5, a \in Int, b \in Nat \ {0}
  <2> QED BY <1>4, <2>3, <2>4, <2>5, <2>6
<1>5. CASE a < 0
  <2>1. Quot(a, b) = -((-a) \div b)
    BY <1>5 DEF Quot
  <2>2. PICK q \in Int : q = (-a) \div b /\ q >= 0
    BY <1>1, <1>3, <1>5
  <2>3. Quot(a, b) = -q /\ -q \in Int /\ -q <= 0
    BY <2>1, <2>2
  <2>4. b * (-q) \in Int
    BY <2>2
  <2>5. Rem(a, b) = a - b * (-q)
    BY <2>3 DEF Rem
  <2> QED BY <1>5, <2>3, <2>4, <2>5
<1> QED BY <1>4, <1>5

\* A number below b * k has a quotient below k.
LEMMA QuotientBound ==
    ASSUME NEW b \in Nat \ {0}, NEW c \in Nat \ {0}, c % b = 0,
           NEW a \in 0 .. (c - 1)
    PROVE  Quot(a, b) \in 0 .. (c \div b - 1)
<1>1. c \div b \in Int /\ c = b * (c \div b) + (c % b)
  OBVIOUS
<1>2. PICK k \in Int : k = c \div b /\ c = b * k
  BY <1>1
<1>3. PICK q \in Int, r \in Int : q = Quot(a, b) /\ r >= 0 /\ a = b * q + r /\ q >= 0
  <2>1. a \in Int /\ a >= 0
    OBVIOUS
  <2>2. /\ Quot(a, b) \in Int /\ Rem(a, b) \in Int
        /\ a = b * Quot(a, b) + Rem(a, b)
        /\ Quot(a, b) >= 0 /\ Rem(a, b) \in 0 .. (b - 1)
    BY <2>1, Division
  <2> QED BY <2>2
<1>4. q < k
  <2> SUFFICES ASSUME q >= k PROVE FALSE
    OBVIOUS
  <2>1. \A x \in Int : x >= 0 => b * x >= 0
    OBVIOUS
  <2>2. b * (q - k) = b * q - b * k /\ b * q \in Int /\ b * k \in Int
    OBVIOUS
  <2>3. q - k \in Int /\ q - k >= 0
    OBVIOUS
  <2>4. b * (q - k) >= 0
    BY <2>1, <2>3
  <2> QED BY <1>2, <1>3, <2>2, <2>4
<1> QED BY <1>2, <1>3, <1>4

\* The remainder of C is smaller than the divisor, on either side of zero,
\* and so is its quotient by a unit that divides the divisor.
LEMMA SymmetricDivision ==
    ASSUME NEW b \in Nat \ {0}, NEW a \in Int
    PROVE  /\ Rem(a, b) \in Below(b)
           /\ \A c \in Nat \ {0} : c % b = 0 /\ a \in Below(c) =>
                 Quot(a, b) \in Below(c \div b)
<1>1. /\ -a \in Int
      /\ Quot(-a, b) \in Int /\ Rem(-a, b) \in Int
      /\ -a >= 0 => Rem(-a, b) \in 0 .. (b - 1)
      /\ Quot(a, b) \in Int /\ Rem(a, b) \in Int
      /\ a >= 0 => Rem(a, b) \in 0 .. (b - 1)
  <2>1. -a \in Int
    OBVIOUS
  <2> QED BY <2>1, Division
<1>2. a < 0 => Quot(a, b) = -Quot(-a, b) /\ Rem(a, b) = -Rem(-a, b)
  <2> SUFFICES ASSUME a < 0 PROVE Quot(a, b) = -Quot(-a, b) /\ Rem(a, b) = -Rem(-a, b)
    OBVIOUS
  <2>1. Quot(a, b) = -((-a) \div b) /\ Quot(-a, b) = (-a) \div b
    BY DEF Quot
  <2>2. PICK q \in Int : q = Quot(-a, b)
    BY <1>1
  <2>3. Quot(a, b) = -q
    BY <2>1, <2>2
  <2>4. Rem(a, b) = a - b * (-q) /\ Rem(-a, b) = -a - b * q
    BY <2>2, <2>3 DEF Rem
  <2>5. b * (-q) = -(b * q) /\ b * q \in Int
    OBVIOUS
  <2> QED BY <2>2, <2>3, <2>4, <2>5
<1>3. Rem(a, b) \in Below(b)
  <2>1. CASE a >= 0
    BY <1>1, <2>1 DEF Below
  <2>2. CASE a < 0
    BY <1>1, <1>2, <2>2 DEF Below
  <2> QED BY <2>1, <2>2
<1>4. ASSUME NEW c \in Nat \ {0}, c % b = 0, a \in Below(c)
      PROVE  Quot(a, b) \in Below(c \div b)
  <2>1. c \div b \in Int
    OBVIOUS
  <2>2. CASE a >= 0
    <3>1. a \in 0 .. (c - 1)
      BY <1>4, <2>2 DEF Below
    <3>2. Quot(a, b) \in 0 .. (c \div b - 1)
      BY <1>4, <3>1, QuotientBound
    <3> QED BY <2>1, <3>2 DEF Below
  <2>3. CASE a < 0
    <3>1. -a \in 0 .. (c - 1)
      BY <1>4, <2>3 DEF Below
    <3>2. Quot(-a, b) \in 0 .. (c \div b - 1)
      BY <1>4, <3>1, QuotientBound
    <3> QED BY <1>2, <2>1, <2>3, <3>2 DEF Below
  <2> QED BY <2>2, <2>3
<1> QED BY <1>3, <1>4

\* The time of day is right, and in range from the epoch on.
ClockInv ==
    pc # "start" =>
        /\ secs_hour * tm_hour + secs_min * tm_min + tm_sec = Rem(t, secs_day)
        /\ tm_wday = Rem(Quot(t, secs_day) + 4, 7)
        /\ t >= 0 => /\ tm_hour \in 0 .. (secs_day \div secs_hour - 1)
                     /\ tm_min \in 0 .. (secs_hour \div secs_min - 1)
                     /\ tm_sec \in 0 .. (secs_min - 1)

\* The invariant of the first loop: the years counted and the days left add
\* up to the day number; before the epoch no year is counted.
YearInv ==
    pc = "year" =>
        /\ DaysBeforeYear(tm_year) + days = Quot(t, secs_day)
        /\ t >= 0 => days >= 0
        /\ t < 0 => days <= 0

\* That of the second loop: so do the months counted, within the year.
MonthInv ==
    pc = "month" =>
        /\ tm_mon \in 0 .. 11
        /\ DaysBeforeYear(tm_year) + tm_yday = Quot(t, secs_day)
        /\ tm_yday = DaysBeforeMonth(tm_year, tm_mon) + days
        /\ tm_yday < DaysIn(tm_year)
        /\ t >= 0 => days >= 0

\* What they leave behind.
DoneInv ==
    pc = "done" =>
        /\ tm_mon \in 0 .. 11
        /\ DaysBeforeYear(tm_year + 1900) + tm_yday = Quot(t, secs_day)
        /\ tm_yday = DaysBeforeMonth(tm_year + 1900, tm_mon) + tm_mday - 1
        /\ tm_yday < DaysIn(tm_year + 1900)
        /\ tm_mday <= mdays(tm_year + 1900)[tm_mon + 1]
        /\ t >= 0 => tm_mday >= 1

IInv == TypeOK /\ ClockInv /\ YearInv /\ MonthInv /\ DoneInv

\* The first lines split the local time into days and a time of day
\* (localtime.c:21-32).
LEMMA AdjustStep ==
    ASSUME TypeOK, Adjust
    PROVE  TypeOK' /\ ClockInv' /\ YearInv' /\ MonthInv' /\ DoneInv'
<1> DEFINE local == t - tz + secs_hour * dst
           seconds == Rem(local, secs_day)
<1>1. local \in Int
  BY ConstantsOK DEF TypeOK
<1>2. /\ t' = local /\ days' = Quot(local, secs_day) /\ pc' = "year"
      /\ tm_hour' = Quot(seconds, secs_hour)
      /\ tm_min' = Quot(Rem(seconds, secs_hour), secs_min)
      /\ tm_sec' = Rem(Rem(seconds, secs_hour), secs_min)
      /\ tm_wday' = Rem(days' + 4, 7) /\ tm_year' = 1970
      /\ UNCHANGED <<tz, dst, tm_yday, tm_mon, tm_mday>>
  BY DEF Adjust, weekday
<1> HIDE DEF local
<1>3. /\ Quot(local, secs_day) \in Int /\ seconds \in Int
      /\ local >= 0 => Quot(local, secs_day) >= 0 /\ seconds \in 0 .. (secs_day - 1)
      /\ local < 0 => Quot(local, secs_day) <= 0
  BY <1>1, Division, ConstantsOK
<1> HIDE DEF seconds
<1>4. /\ Quot(seconds, secs_hour) \in Int /\ Rem(seconds, secs_hour) \in Int
      /\ seconds = secs_hour * Quot(seconds, secs_hour) + Rem(seconds, secs_hour)
      /\ seconds >= 0 => Rem(seconds, secs_hour) \in 0 .. (secs_hour - 1)
  BY <1>3, Division, ConstantsOK
<1>5. \A x \in Int : /\ Quot(x, secs_min) \in Int /\ Rem(x, secs_min) \in Int
                     /\ x = secs_min * Quot(x, secs_min) + Rem(x, secs_min)
                     /\ x >= 0 => Rem(x, secs_min) \in 0 .. (secs_min - 1)
  BY Division, ConstantsOK
<1>6. local >= 0 => /\ Quot(seconds, secs_hour) \in 0 .. (secs_day \div secs_hour - 1)
                    /\ Quot(Rem(seconds, secs_hour), secs_min)
                          \in 0 .. (secs_hour \div secs_min - 1)
  <2> SUFFICES ASSUME local >= 0
               PROVE  /\ Quot(seconds, secs_hour) \in 0 .. (secs_day \div secs_hour - 1)
                      /\ Quot(Rem(seconds, secs_hour), secs_min)
                            \in 0 .. (secs_hour \div secs_min - 1)
    OBVIOUS
  <2>1. seconds \in 0 .. (secs_day - 1) /\ Rem(seconds, secs_hour) \in 0 .. (secs_hour - 1)
    BY <1>3, <1>4
  <2>2. Quot(seconds, secs_hour) \in 0 .. (secs_day \div secs_hour - 1)
    BY <2>1, QuotientBound, ConstantsOK
  <2>3. \A x \in 0 .. (secs_hour - 1) : Quot(x, secs_min) \in 0 .. (secs_hour \div secs_min - 1)
    BY QuotientBound, ConstantsOK
  <2> QED BY <2>1, <2>2, <2>3
<1>7. Rem(days' + 4, 7) \in -6 .. 6
  <2>1. days' + 4 \in Int
    BY <1>2, <1>3
  <2>2. ASSUME NEW x \in Int PROVE Rem(x, 7) \in -6 .. 6
    <3>1. CASE x >= 0
      BY <3>1 DEF Rem, Quot
    <3>2. CASE x < 0
      BY <3>2 DEF Rem, Quot
    <3> QED BY <3>1, <3>2
  <2> QED BY <2>1, <2>2
<1>8. TypeOK'
  <2>1. seconds \in Below(secs_day) /\ Rem(seconds, secs_hour) \in Below(secs_hour)
    BY <1>1, <1>3, SymmetricDivision, ConstantsOK DEF seconds
  <2>2. tm_hour' \in Below(secs_day \div secs_hour)
    BY <1>2, <1>3, <2>1, SymmetricDivision, ConstantsOK
  <2>3. /\ tm_min' \in Below(secs_hour \div secs_min)
        /\ tm_sec' \in Below(secs_min)
    BY <1>2, <1>4, <2>1, SymmetricDivision, ConstantsOK
  <2>4. tm_wday' \in Below(7)
    BY <1>2, <1>7 DEF Below
  <2> QED BY <1>1, <1>2, <1>3, <2>2, <2>3, <2>4 DEF TypeOK
<1>9. ClockInv'
  <2>1. Rem(t', secs_day) = seconds
    BY <1>2 DEF seconds
  <2>2. secs_hour * tm_hour' + secs_min * tm_min' + tm_sec' = seconds
    <3> DEFINE h == secs_hour * Quot(seconds, secs_hour)
               r == Rem(seconds, secs_hour)
               m == secs_min * Quot(r, secs_min)
               s == Rem(r, secs_min)
    <3>1. h + r = seconds /\ m + s = r
      BY <1>4, <1>5
    <3>2. h \in Int /\ m \in Int /\ s \in Int /\ r \in Int
      <4>1. Quot(seconds, secs_hour) \in Int /\ r \in Int
        BY <1>4
      <4>2. Quot(r, secs_min) \in Int /\ Rem(r, secs_min) \in Int
        BY <1>5, <4>1
      <4>3. \A x, y \in Int : x * y \in Int
        OBVIOUS
      <4>4. secs_hour \in Int /\ secs_min \in Int
        BY ConstantsOK
      <4> HIDE DEF r
      <4> QED BY <4>1, <4>2, <4>3, <4>4
    <3>3. secs_hour * tm_hour' = h /\ secs_min * tm_min' = m /\ tm_sec' = s
      BY <1>2
    <3> HIDE DEF h, r, m, s
    <3> QED BY <1>3, <3>1, <3>2, <3>3
  <2> QED BY <1>2, <1>3, <1>4, <1>5, <1>6, <2>1, <2>2 DEF ClockInv
<1>10. DaysBeforeYear(1970) = 0
  BY DEF DaysBeforeYear, LeapDaysBefore
<1>11. YearInv' /\ MonthInv' /\ DoneInv'
  BY <1>1, <1>2, <1>3, <1>10 DEF YearInv, MonthInv, DoneInv
<1> QED BY <1>8, <1>9, <1>11

\* Every step keeps the invariants of both loops (localtime.c:33-52).
LEMMA InductiveStep == IInv /\ [Next]_vars => IInv'
<1> SUFFICES ASSUME IInv, [Next]_vars PROVE IInv'
  OBVIOUS
<1> USE DEF IInv
<1>1. CASE Adjust
  BY <1>1, AdjustStep
<1>2. CASE NextYear
  <2>1. /\ tm_year' = tm_year + 1 /\ days' = days - (365 + is_leap_year(tm_year))
        /\ 365 + is_leap_year(tm_year) <= days
        /\ pc = "year" /\ pc' = "year"
        /\ UNCHANGED <<t, tz, dst, clock, tm_yday, tm_mon, tm_mday>>
    BY <1>2 DEF NextYear, days_of_year
  <2>2. /\ is_leap_year(tm_year) \in Int
        /\ DaysBeforeYear(tm_year) \in Int /\ DaysBeforeYear(tm_year + 1) \in Int
        /\ DaysBeforeYear(tm_year + 1) - DaysBeforeYear(tm_year)
              = 365 + is_leap_year(tm_year)
    BY YearLength DEF TypeOK, DaysIn
  <2>3. TypeOK'
    <3>1. tm_year' \in Nat /\ tm_year' >= 1970 /\ days' \in Int
      BY <2>1, <2>2 DEF TypeOK
    <3> QED BY <2>1, <3>1 DEF TypeOK, clock
  <2>4. ClockInv' /\ MonthInv' /\ DoneInv'
    BY <2>1 DEF ClockInv, MonthInv, DoneInv, clock
  <2>5. YearInv'
    BY <2>1, <2>2, YearLength DEF YearInv, TypeOK
  <2> QED BY <2>3, <2>4, <2>5
<1>3. CASE YearFound
  <2>1. /\ tm_yday' = days /\ tm_mon' = 0 /\ pc = "year" /\ pc' = "month"
        /\ 365 + is_leap_year(tm_year) > days
        /\ UNCHANGED <<t, tz, dst, days, clock, tm_year, tm_mday>>
    BY <1>3 DEF YearFound, days_of_year
  <2>2. DaysIn(tm_year) = 365 + is_leap_year(tm_year)
    BY YearLength DEF TypeOK
  <2>3. DaysBeforeMonth(tm_year, 0) = 0
    BY MonthLength DEF TypeOK
  <2>4. TypeOK'
    <3>1. is_leap_year(tm_year) \in {0, 1} /\ days \in Int
      BY YearLength DEF TypeOK
    <3>2. tm_yday' \in Int /\ tm_yday' <= 365
      BY <2>1, <3>1
    <3> QED BY <2>1, <3>2 DEF TypeOK, clock
  <2>6. ClockInv' /\ YearInv' /\ DoneInv'
    BY <2>1 DEF ClockInv, YearInv, DoneInv, clock
  <2>5. MonthInv'
    BY <2>1, <2>2, <2>3 DEF MonthInv, YearInv, TypeOK
  <2> QED BY <2>4, <2>5, <2>6
<1>4. CASE NextMonth
  <2>1. /\ days' = days - mdays(tm_year)[tm_mon + 1]
        /\ days >= mdays(tm_year)[tm_mon + 1]
        /\ tm_mon' = tm_mon + 1 /\ pc = "month" /\ pc' = "month"
        /\ UNCHANGED <<t, tz, dst, clock, tm_year, tm_yday, tm_mday>>
    BY <1>4 DEF NextMonth
  <2>2. tm_mon \in 0 .. 11 /\ tm_year \in Int
    BY <2>1 DEF MonthInv, TypeOK
  <2>3. /\ mdays(tm_year)[tm_mon + 1] \in 28 .. 31
        /\ DaysBeforeMonth(tm_year, tm_mon) \in Int
        /\ DaysBeforeMonth(tm_year, tm_mon) + mdays(tm_year)[tm_mon + 1]
             = IF tm_mon = 11 THEN DaysIn(tm_year)
               ELSE DaysBeforeMonth(tm_year, tm_mon + 1)
    BY <2>2, MonthLength
  <2>4. tm_mon # 11
    BY <2>1, <2>2, <2>3 DEF MonthInv, TypeOK
  <2>5. TypeOK' /\ ClockInv' /\ YearInv' /\ DoneInv'
    BY <2>1, <2>2, <2>3, <2>4 DEF TypeOK, ClockInv, YearInv, DoneInv, clock
  <2>6. MonthInv'
    BY <2>1, <2>2, <2>3, <2>4 DEF MonthInv, TypeOK
  <2> QED BY <2>5, <2>6
<1>5. CASE MonthFound
  <2>1. /\ tm_mday' = days + 1 /\ tm_year' = tm_year - 1900
        /\ days < mdays(tm_year)[tm_mon + 1]
        /\ pc = "month" /\ pc' = "done"
        /\ UNCHANGED <<t, tz, dst, days, clock, tm_yday, tm_mon>>
    BY <1>5 DEF MonthFound
  <2>2. tm_year \in Int /\ tm_mon \in 0 .. 11
    BY <2>1 DEF TypeOK, MonthInv
  <2>3. tm_year' + 1900 = tm_year
    BY <2>1, <2>2
  <2>4. /\ mdays(tm_year)[tm_mon + 1] \in 28 .. 31
        /\ DaysBeforeMonth(tm_year, tm_mon) \in Int
        /\ DaysBeforeMonth(tm_year, tm_mon) + mdays(tm_year)[tm_mon + 1]
             = IF tm_mon = 11 THEN DaysIn(tm_year)
               ELSE DaysBeforeMonth(tm_year, tm_mon + 1)
    BY <2>2, MonthLength
  <2>5. TypeOK'
    <3>1. tm_year' \in Nat /\ tm_year' >= 70 /\ tm_mday' \in Int /\ tm_mday' <= 31
      BY <2>1, <2>4 DEF TypeOK
    <3> QED BY <2>1, <3>1 DEF TypeOK, clock
  <2>7. ClockInv' /\ YearInv' /\ MonthInv'
    BY <2>1 DEF ClockInv, YearInv, MonthInv, clock
  <2>6. DoneInv'
    BY <2>1, <2>3, <2>4, <2>2 DEF DoneInv, MonthInv, TypeOK
  <2> QED BY <2>5, <2>6, <2>7
<1>6. CASE UNCHANGED vars
  BY <1>6 DEF vars, clock, TypeOK, ClockInv, YearInv, MonthInv, DoneInv
<1> QED BY <1>1, <1>2, <1>3, <1>4, <1>5, <1>6 DEF Next

\* A unit fits at least once into one that it divides.
LEMMA UnitsFit ==
    ASSUME NEW b \in Nat \ {0}, NEW c \in Nat \ {0}, c % b = 0
    PROVE  c \div b \in Nat \ {0}
<1>1. Quot(0, b) \in 0 .. (c \div b - 1) /\ c \div b \in Int
  BY QuotientBound
<1> QED BY <1>1

\* The invariants hold throughout.
LEMMA InductiveInvariant == Spec => []IInv
<1>1. Init => IInv
  <2> SUFFICES ASSUME Init PROVE IInv
    OBVIOUS
  <2>1. \A n \in Nat \ {0} : 0 \in Below(n)
    BY DEF Below
  <2>2. /\ secs_day \div secs_hour \in Nat \ {0} /\ secs_hour \div secs_min \in Nat \ {0}
        /\ secs_min \in Nat \ {0} /\ 7 \in Nat \ {0}
    BY ConstantsOK, UnitsFit
  <2>3. TypeOK
    BY <2>1, <2>2, ConstantsOK DEF Init, TypeOK
  <2> QED BY <2>3 DEF Init, IInv, ClockInv, YearInv, MonthInv, DoneInv
<1> QED BY <1>1, InductiveStep, PTL DEF Spec

\* The loop over the months stays within mdays, whatever the instant
\* (localtime.c:46-49).
THEOREM NoOverrun == Spec => []IndexInBounds
<1>1. IInv => IndexInBounds
  BY DEF IInv, MonthInv, IndexInBounds
<1> QED BY <1>1, InductiveInvariant, PTL

\* The fields name the adjusted instant, before the epoch or after it
\* (localtime.c:21-52).
THEOREM NamesTheInstant == Spec => []InstantKept
<1>1. IInv => InstantKept
  <2> SUFFICES ASSUME IInv, pc = "done"
               PROVE  /\ DayNumber(tm_year + 1900, tm_mon, tm_mday) * secs_day
                           + secs_hour * tm_hour + secs_min * tm_min + tm_sec = t
                      /\ DaysBeforeMonth(tm_year + 1900, tm_mon) + tm_mday = tm_yday + 1
    BY DEF InstantKept
  <2>1. tm_year + 1900 \in Int /\ tm_mon \in 0 .. 11 /\ tm_mday \in Int /\ tm_yday \in Int
        /\ t \in Int
    BY DEF IInv, TypeOK, DoneInv
  <2>2. /\ DaysBeforeMonth(tm_year + 1900, tm_mon) \in Int
        /\ DaysBeforeYear(tm_year + 1900) \in Int
    <3>1. PICK y \in Int : y = tm_year + 1900
      BY <2>1
    <3>2. y \in Int /\ tm_mon \in 0 .. 11
      BY <2>1
    <3>3. DaysBeforeYear(y) \in Int /\ DaysBeforeMonth(y, tm_mon) \in Int
      BY ONLY <3>2, MonthLength, YearLength
    <3> QED BY <3>1, <3>3
  <2>3. DayNumber(tm_year + 1900, tm_mon, tm_mday) = Quot(t, secs_day)
    BY <2>1, <2>2 DEF IInv, DoneInv, DayNumber
  <2>4. /\ Quot(t, secs_day) \in Int /\ Rem(t, secs_day) \in Int
        /\ t = secs_day * Quot(t, secs_day) + Rem(t, secs_day)
    <3>1. secs_day \in Nat \ {0} /\ t \in Int
      BY <2>1, ConstantsOK
    <3> QED BY <3>1, Division
  <2>5. secs_hour * tm_hour + secs_min * tm_min + tm_sec = Rem(t, secs_day)
    BY DEF IInv, ClockInv
  <2>6. Quot(t, secs_day) * secs_day = secs_day * Quot(t, secs_day)
    BY <2>4, ConstantsOK
  <2>7. secs_hour * tm_hour \in Int /\ secs_min * tm_min \in Int /\ tm_sec \in Int
    <3>1. tm_hour \in Int /\ tm_min \in Int /\ tm_sec \in Int
      BY DEF IInv, TypeOK, Below
    <3> QED BY <3>1, ConstantsOK
  <2>8. /\ secs_day * Quot(t, secs_day) \in Int
    BY <2>4, ConstantsOK
  <2>9. DayNumber(tm_year + 1900, tm_mon, tm_mday) * secs_day
          + secs_hour * tm_hour + secs_min * tm_min + tm_sec = t
    BY ONLY <2>3, <2>4, <2>5, <2>6, <2>7, <2>8
  <2> QED BY <2>1, <2>2, <2>9 DEF IInv, DoneInv
<1> QED BY <1>1, InductiveInvariant, PTL

\* From the epoch on all fields are in the ranges of struct tm
\* (localtime.c:26-52).
THEOREM InRange == Spec => []FieldsInRange
<1>1. IInv => FieldsInRange
  <2> SUFFICES ASSUME IInv, pc = "done", t >= 0
               PROVE  /\ tm_mday \in 1 .. mdays(tm_year + 1900)[tm_mon + 1]
                      /\ tm_yday \in 0 .. (DaysIn(tm_year + 1900) - 1)
    BY DEF IInv, ClockInv, DoneInv, FieldsInRange
  <2>1. tm_year + 1900 \in Int /\ tm_mon \in 0 .. 11 /\ tm_mday \in Int /\ tm_yday \in Int
    BY DEF IInv, TypeOK, DoneInv
  <2>2. PICK y \in Int : y = tm_year + 1900
    BY <2>1
  <2>3. /\ mdays(y)[tm_mon + 1] \in 28 .. 31
        /\ DaysBeforeMonth(y, tm_mon) \in Int
        /\ is_leap_year(y) \in {0, 1}
        /\ DaysIn(y) = 365 + is_leap_year(y)
    <3>1. y \in Int /\ tm_mon \in 0 .. 11
      BY <2>1
    <3> QED BY ONLY <3>1, MonthLength, YearLength
  <2>4. DaysBeforeMonth(y, tm_mon) >= 0 /\ DaysIn(y) \in Int
    BY <2>1, <2>3 DEF DaysBeforeMonth
  <2>5. /\ tm_yday = DaysBeforeMonth(y, tm_mon) + tm_mday - 1
        /\ tm_yday < DaysIn(y) /\ tm_mday >= 1 /\ tm_mday <= mdays(y)[tm_mon + 1]
    BY <2>2 DEF IInv, DoneInv
  <2> QED BY <2>1, <2>2, <2>3, <2>4, <2>5
<1> QED BY <1>1, InductiveInvariant, PTL

\* The entries of Sakamoto's table.
LEMMA Shifts ==
    /\ MonthShift[1] = 0 /\ MonthShift[2] = 3 /\ MonthShift[3] = 2
    /\ MonthShift[4] = 5 /\ MonthShift[5] = 0 /\ MonthShift[6] = 3
    /\ MonthShift[7] = 5 /\ MonthShift[8] = 1 /\ MonthShift[9] = 4
    /\ MonthShift[10] = 6 /\ MonthShift[11] = 2 /\ MonthShift[12] = 4
BY DEF MonthShift

\* Counting days from a Thursday gives the same day of the week as
\* Sakamoto's formula on the date.
LEMMA WeekdayOfDay ==
    ASSUME NEW y \in Int, NEW m \in 0 .. 11, NEW d \in Int
    PROVE  (DayNumber(y, m, d) + 4) % 7 = Weekday(y, m, d)
<1>1. \A x, k \in Int : (x + 7 * k) % 7 = x % 7
  OBVIOUS
<1>2. /\ is_leap_year(y) \in {0, 1} /\ DaysIn(y) = 365 + is_leap_year(y)
      /\ DaysBeforeYear(y) \in Int
  BY YearLength
<1>3. YearShift(y) \in Int /\ YearShift(y - 1) \in Int
  BY DEF YearShift
<1>4. DaysBeforeYear(y) = 364 * y + YearShift(y - 1) - 719526
  BY <1>3 DEF DaysBeforeYear, LeapDaysBefore, YearShift
<1>5. YearShift(y) = YearShift(y - 1) + is_leap_year(y) + 1
  <2>1. DaysBeforeYear(y + 1) = 364 * (y + 1) + YearShift(y) - 719526
    BY DEF DaysBeforeYear, LeapDaysBefore, YearShift
  <2> QED BY <1>2, <1>3, <1>4, <2>1 DEF DaysIn
<1>6. Weekday(y, m, d) = ((IF m < 2 THEN YearShift(y - 1) ELSE YearShift(y)) + MonthShift[m + 1] + d) % 7
  BY DEF Weekday
<1>7. PICK w \in Int :
         w = (IF m < 2 THEN YearShift(y - 1) ELSE YearShift(y)) + MonthShift[m + 1] + d
  <2>1. \/ m = 0 \/ m = 1 \/ m = 2 \/ m = 3 \/ m = 4 \/ m = 5
        \/ m = 6 \/ m = 7 \/ m = 8 \/ m = 9 \/ m = 10 \/ m = 11
    OBVIOUS
  <2>2. MonthShift[m + 1] \in Int
    BY <2>1, Shifts
  <2> QED BY <1>3, <2>2
<1>8. \E k \in Int : DayNumber(y, m, d) + 4 = w + 7 * k
  <2>1. DayNumber(y, m, d) + 4 = 364 * y + YearShift(y - 1) - 719523 + DaysBeforeMonth(y, m) + d
    <3>1. DaysBeforeMonth(y, m) \in Int
      BY MonthLength
    <3>2. DayNumber(y, m, d) = DaysBeforeYear(y) + DaysBeforeMonth(y, m) + d - 1
      BY DEF DayNumber
    <3>3. y \in Int /\ d \in Int /\ YearShift(y - 1) \in Int
      BY <1>3
    <3> QED BY ONLY <1>4, <3>1, <3>2, <3>3
  <2>2. CASE m < 2
    <3>1. 31 * m - MonthShift[m + 1] = 28 * m /\ DaysBeforeMonth(y, m) = 31 * m /\ MonthShift[m + 1] \in Int
      <4>1. m = 0 \/ m = 1
        BY <2>2
      <4> QED BY <4>1, Shifts, MonthStart
    <3>2. DayNumber(y, m, d) + 4
             = (YearShift(y - 1) + MonthShift[m + 1] + d) + 7 * (52 * y - 102789 + 4 * m)
      BY <1>3, <2>1, <2>2, <3>1
    <3>3. PICK k \in Int : k = 52 * y - 102789 + 4 * m
      OBVIOUS
    <3>4. w = YearShift(y - 1) + MonthShift[m + 1] + d
      BY <1>7, <2>2
    <3>5. DayNumber(y, m, d) + 4 = w + 7 * k
      BY <3>2, <3>3, <3>4
    <3> QED BY ONLY <3>5
  <2>3. CASE m >= 2
    <3>1. PICK j \in Int : /\ DaysBeforeMonth(y, m) = is_leap_year(y) + 1 + MonthShift[m + 1] + 7 * j
                           /\ MonthShift[m + 1] \in Int
      <4>1. \/ m = 2 \/ m = 3 \/ m = 4 \/ m = 5 \/ m = 6
            \/ m = 7 \/ m = 8 \/ m = 9 \/ m = 10 \/ m = 11
        BY <2>3
      <4>2. DaysBeforeMonth(y, m) - is_leap_year(y) - 1 - MonthShift[m + 1]
               \in {56, 84, 119, 147, 175, 210, 238, 266, 301, 329}
        BY <1>2, <4>1, MonthStart, Shifts
      <4>3. MonthShift[m + 1] \in Int /\ DaysBeforeMonth(y, m) \in Int
        BY <1>2, <4>1, MonthStart, Shifts
      <4>4. \A x \in {56, 84, 119, 147, 175, 210, 238, 266, 301, 329} :
               \E j \in Int : x = 7 * j
        <5>1. ASSUME NEW x \in {56, 84, 119, 147, 175, 210, 238, 266, 301, 329}
              PROVE  x \div 7 \in Int /\ x = 7 * (x \div 7)
          OBVIOUS
        <5> QED BY <5>1
      <4>5. PICK x \in {56, 84, 119, 147, 175, 210, 238, 266, 301, 329} :
               x = DaysBeforeMonth(y, m) - is_leap_year(y) - 1 - MonthShift[m + 1]
        BY <4>2
      <4>6. DaysBeforeMonth(y, m) = is_leap_year(y) + 1 + MonthShift[m + 1] + x
        BY <1>2, <4>3, <4>5
      <4>7. PICK j \in Int : x = 7 * j
        BY <4>4
      <4> QED BY ONLY <4>3, <4>6, <4>7
    <3>2. DayNumber(y, m, d) + 4
             = (YearShift(y) + MonthShift[m + 1] + d) + 7 * (52 * y - 102789 + j)
      BY <1>2, <1>3, <1>5, <2>1, <2>3, <3>1
    <3>3. PICK k \in Int : k = 52 * y - 102789 + j
      OBVIOUS
    <3>4. w = YearShift(y) + MonthShift[m + 1] + d
      BY <1>7, <2>3
    <3>5. DayNumber(y, m, d) + 4 = w + 7 * k
      BY <3>2, <3>3, <3>4
    <3> QED BY ONLY <3>5
  <2> QED BY <2>2, <2>3
<1>9. \A k \in Int : (w + 7 * k) % 7 = w % 7
  BY <1>1
<1> QED BY <1>6, <1>7, <1>8, <1>9

\* Every field keeps its range for every instant, before the epoch too: the
\* time of day and the weekday between minus their largest value and that
\* value, the month within the year, the year not before 1970; the day of
\* the month and of the year are bounded above only (localtime.c:24-59).
THEOREM TypeCorrect == Spec => []TypeOK
<1>1. IInv => TypeOK
  BY DEF IInv
<1> QED BY <1>1, InductiveInvariant, PTL

\* The weekday counted from the epoch is that of the date (localtime.c:31).
THEOREM WeekdayIsRight == Spec => []WeekdayOfDate
<1>1. IInv => WeekdayOfDate
  <2> SUFFICES ASSUME IInv, pc = "done", t >= 0
               PROVE  tm_wday = Weekday(tm_year + 1900, tm_mon, tm_mday)
    BY DEF WeekdayOfDate
  <2>1. PICK y \in Int : y = tm_year + 1900
    BY DEF IInv, TypeOK
  <2>2. tm_mon \in 0 .. 11 /\ tm_mday \in Int /\ t \in Int
    BY DEF IInv, TypeOK, DoneInv
  <2>3. DaysBeforeYear(y) \in Int /\ DaysBeforeMonth(y, tm_mon) \in Int
    <3>1. y \in Int /\ tm_mon \in 0 .. 11
      BY <2>1, <2>2
    <3> QED BY ONLY <3>1, MonthLength, YearLength
  <2>4. PICK day \in Int : day = Quot(t, secs_day) /\ day >= 0
    BY <2>2, Division, ConstantsOK
  <2>5. DayNumber(y, tm_mon, tm_mday) = day
    BY <2>1, <2>2, <2>3, <2>4 DEF IInv, DoneInv, DayNumber
  <2>6. tm_wday = Rem(day + 4, 7)
    BY <2>4 DEF IInv, ClockInv
  <2>7. Rem(day + 4, 7) = (day + 4) % 7
    <3>1. Quot(day + 4, 7) = (day + 4) \div 7
      BY <2>4 DEF Quot
    <3> QED BY <3>1 DEF Rem
  <2>8. (DayNumber(y, tm_mon, tm_mday) + 4) % 7 = Weekday(y, tm_mon, tm_mday)
    BY ONLY <2>1, <2>2, WeekdayOfDay
  <2> QED BY ONLY <2>1, <2>5, <2>6, <2>7, <2>8
<1> QED BY <1>1, InductiveInvariant, PTL

-----------------------------------------------------------------------------
\* What the two loops have left to do, at most: every year and every month
\* takes a day or more.
NotBelowZero(d) == IF d >= 0 THEN d ELSE 0

StepsLeft ==
    CASE pc = "start" -> NotBelowZero(Quot(t - tz + secs_hour * dst, secs_day)) + 4
      [] pc = "year" -> NotBelowZero(days) + 3
      [] pc = "month" -> NotBelowZero(days) + 2
      [] pc = "done" -> 0

LEMMA StepsLeftNat == TypeOK => StepsLeft \in Nat
<1> SUFFICES ASSUME TypeOK PROVE StepsLeft \in Nat
  OBVIOUS
<1>1. NotBelowZero(days) \in Nat
  BY DEF TypeOK, NotBelowZero
<1>2. CASE pc = "start"
  <2>1. t - tz + secs_hour * dst \in Int
    BY ConstantsOK DEF TypeOK
  <2>2. Quot(t - tz + secs_hour * dst, secs_day) \in Int
    BY <2>1, Division, ConstantsOK
  <2> QED BY <1>2, <2>2 DEF StepsLeft, NotBelowZero
<1>3. CASE pc # "start"
  BY <1>1, <1>3 DEF StepsLeft, TypeOK
<1> QED BY <1>2, <1>3

LEMMA StepsLeftFalls == IInv /\ Next => StepsLeft' < StepsLeft
<1> SUFFICES ASSUME IInv, Next PROVE StepsLeft' < StepsLeft
  OBVIOUS
<1>0. TypeOK /\ days \in Int /\ tm_year \in Int
  BY DEF IInv, TypeOK
<1>1. CASE Adjust
  <2>1. PICK d \in Int : d = Quot(t - tz + secs_hour * dst, secs_day)
    <3>1. t - tz + secs_hour * dst \in Int
      BY <1>0, ConstantsOK DEF TypeOK
    <3> QED BY <3>1, Division, ConstantsOK
  <2>2. pc = "start" /\ pc' = "year" /\ days' = d
    BY <1>1, <2>1 DEF Adjust
  <2> QED BY <2>1, <2>2 DEF StepsLeft, NotBelowZero
<1>2. CASE NextYear
  <2>1. days_of_year \in 365 .. 366
    BY <1>0, YearLength DEF days_of_year
  <2>2. pc = "year" /\ pc' = "year" /\ days_of_year <= days /\ days' = days - days_of_year
    BY <1>2 DEF NextYear
  <2> QED BY <1>0, <2>1, <2>2 DEF StepsLeft, NotBelowZero
<1>3. CASE YearFound
  BY <1>0, <1>3 DEF YearFound, StepsLeft, NotBelowZero
<1>4. CASE NextMonth
  <2>1. tm_mon \in 0 .. 11
    BY <1>4 DEF NextMonth, IInv, MonthInv
  <2>2. mdays(tm_year)[tm_mon + 1] \in 28 .. 31
    BY <1>0, <2>1, MonthLength
  <2>3. /\ pc = "month" /\ pc' = "month"
        /\ days >= mdays(tm_year)[tm_mon + 1]
        /\ days' = days - mdays(tm_year)[tm_mon + 1]
    BY <1>4 DEF NextMonth
  <2> QED BY <1>0, <2>2, <2>3 DEF StepsLeft, NotBelowZero
<1>5. CASE MonthFound
  BY <1>0, <1>5 DEF MonthFound, StepsLeft, NotBelowZero
<1> QED BY <1>1, <1>2, <1>3, <1>4, <1>5 DEF Next

\* Neither loop can run for ever, for an instant of any size, before the
\* epoch or after it: every step lowers a number that is never below zero
\* (localtime.c:34-49).
THEOREM LoopsRunOut == Spec => [](StepsLeft \in Nat) /\ [][StepsLeft' < StepsLeft]_vars
<1>1. IInv => StepsLeft \in Nat
  BY StepsLeftNat DEF IInv
<1>2. IInv /\ [Next]_vars => [StepsLeft' < StepsLeft]_vars
  BY StepsLeftFalls
<1> QED BY <1>1, <1>2, InductiveInvariant, PTL DEF Spec
=============================================================================
