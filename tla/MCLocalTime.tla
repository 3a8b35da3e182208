---------------------------- MODULE MCLocalTime ----------------------------
(* An instance of LocalTime around the days where the calendar rules bite.  *)
EXTENDS LocalTime, TLC

\* 1969-12-30 to 1972-03-10; 1999-12-20 to 2001-01-10; 2099-12-20 to
\* 2101-01-10; 2399-12-20 to 2401-01-10: with short days all within TLC's
\* integers.
Days == (-2 .. 799) \cup (10945 .. 11332) \cup (47470 .. 47856) \cup (157042 .. 157429)

ShortTimes == {d * secs_day + s : d \in Days, s \in {0, 7, 23}}
ShortZones == {0, -8}
=============================================================================
