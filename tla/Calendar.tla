------------------------------- MODULE Calendar -------------------------------
(***************************************************************************)
(* The proleptic Gregorian calendar, stated from its definition and not    *)
(* from strptime.c: month lengths, days before a year counted from year 0  *)
(* (a Saturday), and the week numbers that strftime(3) prints for %U and   *)
(* %W.  It is the reference the completion of _strptime() is checked       *)
(* against.  A day is a pair [year, yday] with yday counted from 0.        *)
(***************************************************************************)
EXTENDS Integers, FiniteSets

NoDate == [year |-> -1, yday |-> -1]

LeapYear(y) == (y % 4 = 0 /\ y % 100 # 0) \/ y % 400 = 0

DaysInYear(y) == IF LeapYear(y) THEN 366 ELSE 365

\* m is 0 .. 11.
DaysInMonth(y, m) ==
  CASE m = 1 -> IF LeapYear(y) THEN 29 ELSE 28
    [] m \in {3, 5, 8, 10} -> 30
    [] OTHER -> 31

RECURSIVE DaysBeforeMonth(_, _)
DaysBeforeMonth(y, m) == IF m = 0 THEN 0 ELSE DaysBeforeMonth(y, m - 1) + DaysInMonth(y, m - 1)

\* Days from 1 January of year 0 to 1 January of year y >= 0.
DaysBeforeYear(y) ==
  365 * y + (y + 3) \div 4 - (y + 99) \div 100 + (y + 399) \div 400

\* 0 is Sunday, as in tm_wday; 1 January of year 0 was a Saturday.
Weekday(d) == (6 + DaysBeforeYear(d.year) + d.yday) % 7

\* The day of the year of month m, day md.
DayOf(y, m, md) == [year |-> y, yday |-> DaysBeforeMonth(y, m) + md - 1]

\* The month and day of the month of a day.
MonthOf(d) == CHOOSE m \in 0 .. 11 :
                DaysBeforeMonth(d.year, m) <= d.yday
                /\ d.yday < DaysBeforeMonth(d.year, m) + DaysInMonth(d.year, m)
MdayOf(d) == d.yday - DaysBeforeMonth(d.year, MonthOf(d)) + 1

\* strftime's %U (s = 0, weeks start on Sunday) and %W (s = 1, Monday):
\* week 1 begins on the first such day of the year, earlier days are week 0.
WeekNumber(d, s) == (d.yday + 7 - ((Weekday(d) - s + 7) % 7)) \div 7

--------------------------------------------------------------------------------
(* Instants and broken-down times, as the C library's timegm(), gmtime_r()  *)
(* and localtime_r() relate them.  An instant is a day counted from        *)
(* 1 January 1970 and the second of that day, 0 .. 86399 (whole seconds   *)
(* would pass TLC's integer range).                                        *)

EpochDay == DaysBeforeYear(1970)

\* The days from 1 January 1970 to day d.
DayNumber(d) == DaysBeforeYear(d.year) + d.yday - EpochDay

\* The day k days after 1 January 1970.
DateOfNumber(k) ==
  LET n == k + EpochDay
      y == CHOOSE y \in (n \div 366) .. (n \div 365 + 1) :
             DaysBeforeYear(y) <= n /\ n < DaysBeforeYear(y + 1)
  IN [year |-> y, yday |-> n - DaysBeforeYear(y)]

\* Day `day` plus `secs` seconds, any integer, carried into whole days.
Instant(day, secs) == [day |-> day + secs \div 86400, sec |-> secs % 86400]

\* The struct tm of an instant, as gmtime_r() fills it.
BrokenDown(i) ==
  LET d == DateOfNumber(i.day)
  IN [year |-> d.year - 1900, mon |-> MonthOf(d), mday |-> MdayOf(d),
      yday |-> d.yday, wday |-> Weekday(d), hour |-> i.sec \div 3600,
      min |-> (i.sec % 3600) \div 60, sec |-> i.sec % 60, isdst |-> 0]

\* timegm(): the instant of a struct tm read as UTC.  tm_mday, tm_hour,
\* tm_min and tm_sec may be out of range; tm_yday and tm_wday are ignored.
TimeGm(t) ==
  LET y == t.year + 1900
  IN Instant(DaysBeforeYear(y) + DaysBeforeMonth(y, t.mon) + t.mday - 1 - EpochDay,
             3600 * t.hour + 60 * t.min + t.sec)

\* localtime_r() in a zone offset minutes east of UTC, without daylight
\* saving time.
LocalTime(i, offset) == BrokenDown(Instant(i.day, i.sec + 60 * offset))

================================================================================
