------------------------------ MODULE Strptime --------------------------------
(***************************************************************************)
(* _strptime() of src/src.freebsd/compat/strptime.c: the walk over the     *)
(* format (one action per conversion), the nested calls of the composite   *)
(* conversions, and the completion of the date fields (lines 622-694).     *)
(*                                                                         *)
(* Characters of buf and fmt are one-character strings; the strings of    *)
(* the C locale that nl_langinfo() gives (AM and PM, the day and month     *)
(* names) are single tokens, matched whole (strncasecmp of their length). *)
(* The end of a sequence is the terminating NUL.                           *)
(* Each call of _strptime() has a frame with its own locals; tm and buf    *)
(* are shared by the calls, and so is *GMTp, set by %s %z and %Z GMT.      *)
(* strptime_bsd() (lines 697-716) wraps the outer call: when *GMTp was     *)
(* set it reads tm as UTC with timegm() and refills it with localtime_r(). *)
(* The C library's gmtime_r(), timegm() and localtime_r() are the         *)
(* Calendar module's; the local zone is a fixed offset without daylight    *)
(* saving time, and tzset() gives its tzname[].                           *)
(***************************************************************************)
EXTENDS Integers, Sequences, FiniteSets, TLC, Calendar

CONSTANTS
  Cases,          \* the calls to try: records [fmt, buf] (and more fields)
  InitTm,         \* the caller's struct tm
  MaxScanIndex,   \* how far the month search may read (see MonthScan)
  TzName,         \* <<tzname[0], tzname[1]>> of the local zone
  LocalOffset,    \* the local zone's offset, minutes east of UTC
  UpperWords      \* the input tokens made only of upper-case letters

\* The formats of the composite conversions (lines 131-222): fixed ones,
\* and for %c %x %X %r the C locale's D_T_FMT, D_FMT, T_FMT, T_FMT_AMPM.
Expansion ==
  [D |-> <<"%", "m", "/", "%", "d", "/", "%", "y">>,
   F |-> <<"%", "Y", "-", "%", "m", "-", "%", "d">>,
   R |-> <<"%", "H", ":", "%", "M">>,
   T |-> <<"%", "H", ":", "%", "M", ":", "%", "S">>,
   c |-> <<"%", "a", " ", "%", "b", " ", "%", "e", " ",
           "%", "H", ":", "%", "M", ":", "%", "S", " ", "%", "Y">>,
   x |-> <<"%", "m", "/", "%", "d", "/", "%", "y">>,
   X |-> <<"%", "H", ":", "%", "M", ":", "%", "S">>,
   r |-> <<"%", "I", ":", "%", "M", ":", "%", "S", " ", "%", "p">>]
  @@ ("+" :> <<"%", "a", " ", "%", "b", " ", "%", "e", " ", "%", "H", ":", "%", "M",
           ":", "%", "S", " ", "%", "Z", " ", "%", "Y">>)

\* The flags a composite conversion adds to its caller's.
CallFlags ==
  [D |-> {"MONTH", "MDAY", "YEAR"}, F |-> {"MONTH", "MDAY", "YEAR"},
   R |-> {}, T |-> {}, c |-> {"WDAY", "MONTH", "MDAY", "YEAR"},
   x |-> {"MONTH", "MDAY", "YEAR"}, X |-> {}, r |-> {}]
  @@ ("+" :> {"WDAY", "MONTH", "MDAY", "YEAR"})

\* The C locale's DAY_1.., ABDAY_1.., MON_1.. and ABMON_1.. strings.
DayName == <<"Sunday", "Monday", "Tuesday", "Wednesday", "Thursday", "Friday", "Saturday">>
DayAbbr == <<"Sun", "Mon", "Tue", "Wed", "Thu", "Fri", "Sat">>
MonName == <<"January", "February", "March", "April", "May", "June", "July",
             "August", "September", "October", "November", "December">>
MonAbbr == <<"Jan", "Feb", "Mar", "Apr", "May", "Jun", "Jul", "Aug", "Sep",
             "Oct", "Nov", "Dec">>

VARIABLES
  format, input,  \* the arguments of the outer call (never change)
  buf,            \* what is left of the input
  tm,             \* the struct tm
  stack,          \* the frames of the active calls, innermost last
  reads,          \* history: the start_of_month indices read
  gmt,            \* *GMTp
  ret             \* strptime_bsd() has returned

vars == <<format, input, buf, tm, stack, reads, gmt, ret>>

NewFrame(f) ==
  [fmt |-> f, pc |-> "scan", flags |-> {}, century |-> -1, year |-> -1,
   doff |-> -1, woff |-> 0, alt |-> "none", i |-> 0, call |-> "none"]

Init ==
  /\ \E cs \in Cases : format = cs.fmt /\ input = cs.buf
  /\ buf = input
  /\ tm = InitTm
  /\ stack = <<NewFrame(format)>>
  /\ reads = {}
  /\ gmt = FALSE
  /\ ret = FALSE

Cur == stack[Len(stack)]
Top(f) == stack' = [stack EXCEPT ![Len(stack)] = f]
c == Head(Cur.fmt)

--------------------------------------------------------------------------------
(* Helpers.                                                                *)

DigitChar == <<"0", "1", "2", "3", "4", "5", "6", "7", "8", "9">>
IsDigit(x) == \E v \in 0 .. 9 : DigitChar[v + 1] = x
\* *buf - '0'
Val(x) == CHOOSE v \in 0 .. 9 : DigitChar[v + 1] = x
DigitNext(b) == b # <<>> /\ IsDigit(Head(b))
SpaceNext(b) == b # <<>> /\ Head(b) = " "

RECURSIVE SkipSpaces(_)
SkipSpaces(b) == IF SpaceNext(b) THEN SkipSpaces(Tail(b)) ELSE b

\* for (i = 0; len && *buf != 0 && isdigit(*buf); buf++) i = 10 * i + *buf - '0'
RECURSIVE ScanDigits(_, _, _)
ScanDigits(b, len, acc) ==
  IF len = 0 \/ ~DigitNext(b) THEN [val |-> acc, rest |-> b]
  ELSE ScanDigits(Tail(b), len - 1, 10 * acc + Val(Head(b)))
ScanNum_short(b, len) == ScanDigits(b, len - 1, 0)
ScanNum(b, len) == ScanDigits(b, len, 0)

\* C's % truncates towards zero.
CMod(a, b) == IF a >= 0 THEN a % b ELSE -((-a) % b)

\* isleap(y)
IsLeap(y) == CMod(y, 4) = 0 /\ (CMod(y, 100) # 0 \/ CMod(y, 400) = 0)

\* static int start_of_month[2][13], row after row as laid out in memory.
StartOfMonth ==
  <<0, 31, 59, 90, 120, 151, 181, 212, 243, 273, 304, 334, 365,
    0, 31, 60, 91, 121, 152, 182, 213, 244, 274, 305, 335, 366>>
Cell(leap, i) == (IF leap THEN 13 ELSE 0) + i
SOM(leap, i) == StartOfMonth[Cell(leap, i) + 1]

\* first_wday_of(year): Gauss's algorithm.
FirstWdayOf(y) ==
  CMod(1 + 5 * CMod(y - 1, 4) + 4 * CMod(y - 1, 100) + 6 * CMod(y - 1, 400), 7)

Leap == IsLeap(tm.year + 1900)

--------------------------------------------------------------------------------
(* The loop over the format, lines 108-126.                                *)

Matches(b, ch) == b # <<>> /\ Head(b) = ch

\* An ordinary character: a space skips white space, any other character
\* must match the next input character.
Literal ==
  /\ Cur.pc = "scan" /\ Cur.fmt # <<>> /\ c # "%"
  /\ \/ /\ c = " "
        /\ buf' = SkipSpaces(buf)
        /\ Top([Cur EXCEPT !.fmt = Tail(@)])
     \/ /\ c # " " /\ Matches(buf, c)
        /\ buf' = Tail(buf)
        /\ Top([Cur EXCEPT !.fmt = Tail(@)])
     \/ /\ c # " " /\ ~Matches(buf, c)
        /\ Top([Cur EXCEPT !.pc = "fail"])
        /\ UNCHANGED buf
  /\ UNCHANGED <<format, input, gmt, ret, tm, reads>>

\* '%': Ealternative = Oalternative = 0, then the conversion character.
Percent ==
  /\ Cur.pc = "scan" /\ Cur.fmt # <<>> /\ c = "%"
  /\ Top([Cur EXCEPT !.fmt = Tail(@), !.alt = "none", !.pc = "conv"])
  /\ UNCHANGED <<format, input, gmt, ret, buf, tm, reads>>

\* The end of the format: on to the completion.
FormatEnd ==
  /\ Cur.pc = "scan" /\ Cur.fmt = <<>>
  /\ Top([Cur EXCEPT !.pc = "century"])
  /\ UNCHANGED <<format, input, gmt, ret, buf, tm, reads>>

--------------------------------------------------------------------------------
(* The conversions, lines 126-619.  Each consumes its character.            *)

Conv(set) == Cur.pc = "conv" /\ Cur.fmt # <<>> /\ c \in set

\* break: back to the loop over the format.
Done(f) == Top([f EXCEPT !.fmt = Tail(Cur.fmt), !.pc = "scan"])

\* return (NULL)
Fail == Top([Cur EXCEPT !.pc = "fail"]) /\ UNCHANGED <<buf, tm>>

ConvPercent ==
  /\ Conv({"%"})
  /\ IF Matches(buf, "%") THEN buf' = Tail(buf) /\ Done(Cur) /\ UNCHANGED tm
     ELSE Fail
  /\ UNCHANGED <<format, input, gmt, ret, reads>>

\* %+ %D %F %R %T %c %x %X %r: buf = _strptime(buf, <its format>, tm, GMTp)
ConvCall ==
  /\ Conv(DOMAIN Expansion)
  /\ stack' = Append([stack EXCEPT ![Len(stack)] =
                        [Cur EXCEPT !.fmt = Tail(@), !.pc = "call", !.call = c]],
                     NewFrame(Expansion[c]))
  /\ UNCHANGED <<format, input, gmt, ret, buf, tm, reads>>

\* The nested call returns: NULL fails the caller, otherwise the caller
\* takes the call's flags.
Return ==
  /\ Len(stack) > 1 /\ Cur.pc \in {"done", "fail"}
  /\ LET caller == stack[Len(stack) - 1]
     IN stack' = [SubSeq(stack, 1, Len(stack) - 1) EXCEPT ![Len(stack) - 1] =
                    IF Cur.pc = "fail" THEN [caller EXCEPT !.pc = "fail"]
                    ELSE [caller EXCEPT !.pc = "scan",
                                        !.flags = @ \cup CallFlags[caller.call]]]
  /\ UNCHANGED <<format, input, gmt, ret, buf, tm, reads>>

\* %E and %O: remember the modifier and read the next character; a second
\* modifier ends the conversion.
ConvAlt ==
  /\ Conv({"E", "O"})
  /\ IF Cur.alt # "none" THEN Done(Cur)
     ELSE Top([Cur EXCEPT !.fmt = Tail(@), !.alt = c])
  /\ UNCHANGED <<format, input, gmt, ret, buf, tm, reads>>

\* %C: at most two digits, the century.
ConvC ==
  /\ Conv({"C"})
  /\ IF ~DigitNext(buf) THEN Fail
     ELSE LET s == ScanNum(buf, 2)
          IN /\ buf' = s.rest
             /\ Done([Cur EXCEPT !.century = s.val, !.flags = @ \cup {"YEAR"}])
             /\ UNCHANGED tm
  /\ UNCHANGED <<format, input, gmt, ret, reads>>

\* %j: at most three digits, 1 .. 366.
ConvJ ==
  /\ Conv({"j"})
  /\ LET s == ScanNum(buf, 3)
     IN IF ~DigitNext(buf) \/ s.val < 1 \/ s.val > 366 THEN Fail
        ELSE /\ buf' = s.rest
             /\ tm' = [tm EXCEPT !.yday = s.val - 1]
             /\ Done([Cur EXCEPT !.flags = @ \cup {"YDAY"}])
  /\ UNCHANGED <<format, input, gmt, ret, reads>>

\* %M and %S: nothing at the end of the input or before a space.
ConvMS ==
  /\ Conv({"M", "S"})
  /\ LET s == ScanNum(buf, 2)
     IN IF buf = <<>> \/ SpaceNext(buf) THEN Done(Cur) /\ UNCHANGED <<buf, tm>>
        ELSE IF ~DigitNext(buf) \/ s.val > (IF c = "M" THEN 59 ELSE 60) THEN Fail
        ELSE /\ buf' = s.rest
             /\ tm' = IF c = "M" THEN [tm EXCEPT !.min = s.val]
                                 ELSE [tm EXCEPT !.sec = s.val]
             /\ Done(Cur)
  /\ UNCHANGED <<format, input, gmt, ret, reads>>

\* %H %I %k %l: %k and %l may be blank-padded, then take one digit.
ConvHour ==
  /\ Conv({"H", "I", "k", "l"})
  /\ LET padded == c \in {"k", "l"} /\ SpaceNext(buf)
         b == IF padded THEN Tail(buf) ELSE buf
         s == ScanNum(b, IF padded THEN 1 ELSE 2)
     IN IF ~DigitNext(b) THEN Fail
        ELSE IF c \in {"H", "k"} /\ s.val > 23 THEN Fail
        ELSE IF c \in {"I", "l"} /\ (s.val = 0 \/ s.val > 12) THEN Fail
        ELSE /\ buf' = s.rest
             /\ tm' = [tm EXCEPT !.hour = s.val]
             /\ Done(Cur)
  /\ UNCHANGED <<format, input, gmt, ret, reads>>

AdjustHour_noMidnight(h, tok) == IF tok = "PM" /\ h # 12 THEN h + 12 ELSE h

\* The hour after the AM or PM string: 12 AM is 0, 1 PM .. 11 PM add 12.
AdjustHour(h, tok) ==
  CASE tok = "AM" /\ h = 12 -> 0
    [] tok = "PM" /\ h # 12 -> h + 12
    [] OTHER -> h

\* %p: adjusts the hour already in tm.
ConvP ==
  /\ Conv({"p"})
  /\ IF tm.hour > 12 \/ buf = <<>> \/ Head(buf) \notin {"AM", "PM"} THEN Fail
     ELSE /\ buf' = Tail(buf)
          /\ tm' = [tm EXCEPT !.hour = AdjustHour(@, Head(buf))]
          /\ Done(Cur)
  /\ UNCHANGED <<format, input, gmt, ret, reads>>

\* for (i = 0; i < k; i++) if (...) break;  the first index of hits, or k.
FirstOf(hits, k) == IF hits = {} THEN k ELSE CHOOSE j \in hits : \A h \in hits : j <= h

\* The indexes of the names next in buf.
Named(names) == {j \in 0 .. Len(names) - 1 : Matches(buf, names[j + 1])}

\* %A and %a: for each day in turn the full name, then the abbreviation.
ConvDayName ==
  /\ Conv({"A", "a"})
  /\ LET i == FirstOf(Named(DayName) \cup Named(DayAbbr), 7)
     IN IF i = 7 THEN Fail
        ELSE /\ buf' = Tail(buf)
             /\ tm' = [tm EXCEPT !.wday = i]
             /\ Done([Cur EXCEPT !.flags = @ \cup {"WDAY"}])
  /\ UNCHANGED <<format, input, gmt, ret, reads>>

\* %B %b %h: the full names (with %O only for %OB), then, without %O, the
\* abbreviations.
ConvMonName ==
  /\ Conv({"B", "b", "h"})
  /\ LET full == IF Cur.alt = "O" /\ c # "B" THEN 12 ELSE FirstOf(Named(MonName), 12)
         i == IF full = 12 /\ Cur.alt # "O" THEN FirstOf(Named(MonAbbr), 12) ELSE full
     IN IF i = 12 THEN Fail
        ELSE /\ buf' = Tail(buf)
             /\ tm' = [tm EXCEPT !.mon = i]
             /\ Done([Cur EXCEPT !.flags = @ \cup {"MONTH"}])
  /\ UNCHANGED <<format, input, gmt, ret, reads>>

\* %U and %W: the week number 0 .. 53 and the first day of the week.
ConvWeek ==
  /\ Conv({"U", "W"})
  /\ LET s == ScanNum(buf, 2)
     IN IF ~DigitNext(buf) \/ s.val > 53 THEN Fail
        ELSE /\ buf' = s.rest
             /\ Done([Cur EXCEPT !.doff = IF c = "U" THEN 0 ELSE 1, !.woff = s.val])
             /\ UNCHANGED tm
  /\ UNCHANGED <<format, input, gmt, ret, reads>>

\* %u (1 .. 7, Monday first) and %w (0 .. 6, Sunday first): one digit.
ConvWday ==
  /\ Conv({"u", "w"})
  /\ IF ~DigitNext(buf) THEN Fail
     ELSE LET d == Val(Head(buf))
          IN IF d > 7 \/ (c = "u" /\ d < 1) \/ (c = "w" /\ d > 6) THEN Fail
             ELSE /\ buf' = Tail(buf)
                  /\ tm' = [tm EXCEPT !.wday = d % 7]
                  /\ Done([Cur EXCEPT !.flags = @ \cup {"WDAY"}])
  /\ UNCHANGED <<format, input, gmt, ret, reads>>

\* %e skips one space, then as %d: 1 .. 31.
ConvMday ==
  /\ Conv({"e", "d"})
  /\ LET b == IF c = "e" /\ SpaceNext(buf) THEN Tail(buf) ELSE buf
         s == ScanNum(b, 2)
     IN IF ~DigitNext(b) \/ s.val = 0 \/ s.val > 31 THEN Fail
        ELSE /\ buf' = s.rest
             /\ tm' = [tm EXCEPT !.mday = s.val]
             /\ Done([Cur EXCEPT !.flags = @ \cup {"MDAY"}])
  /\ UNCHANGED <<format, input, gmt, ret, reads>>

\* %m: 1 .. 12.
ConvMon ==
  /\ Conv({"m"})
  /\ LET s == ScanNum(buf, 2)
     IN IF ~DigitNext(buf) \/ s.val < 1 \/ s.val > 12 THEN Fail
        ELSE /\ buf' = s.rest
             /\ tm' = [tm EXCEPT !.mon = s.val - 1]
             /\ Done([Cur EXCEPT !.flags = @ \cup {"MONTH"}])
  /\ UNCHANGED <<format, input, gmt, ret, reads>>

\* %Y (four digits, sets the century too) and %y (two digits).
ConvYear ==
  /\ Conv({"Y", "y"})
  /\ LET s == ScanNum(buf, IF c = "Y" THEN 4 ELSE 2)
     IN IF buf = <<>> \/ SpaceNext(buf) THEN Done(Cur) /\ UNCHANGED <<buf, tm>>
        ELSE IF ~DigitNext(buf) THEN Fail
        ELSE /\ buf' = s.rest
             /\ Done([Cur EXCEPT !.century = IF c = "Y" THEN s.val \div 100 ELSE @,
                                 !.year = s.val % 100,
                                 !.flags = @ \cup {"YEAR"}])
             /\ UNCHANGED tm
  /\ UNCHANGED <<format, input, gmt, ret, reads>>

\* %n and %t: skip white space.
ConvSpace ==
  /\ Conv({"n", "t"})
  /\ buf' = SkipSpaces(buf)
  /\ Done(Cur)
  /\ UNCHANGED <<format, input, gmt, ret, tm, reads>>

\* strtol(buf, &cp, 10): white space, a sign, then every digit; with no
\* digit nothing is read and the value is 0.
ScanLong(b) ==
  LET b1 == SkipSpaces(b)
      neg == Matches(b1, "-")
      b2 == IF neg \/ Matches(b1, "+") THEN Tail(b1) ELSE b1
      s == ScanDigits(b2, Len(b2), 0)
  IN IF DigitNext(b2) THEN [val |-> IF neg THEN -s.val ELSE s.val, rest |-> s.rest]
     ELSE [val |-> 0, rest |-> b]

\* %s: seconds since the Epoch, broken down by gmtime_r().  The inputs are
\* far from ERANGE and from a year gmtime_r() cannot represent.
ConvS ==
  /\ Conv({"s"})
  /\ LET s == ScanLong(buf)
     IN /\ buf' = s.rest
        /\ tm' = BrokenDown(Instant(0, s.val))
        /\ gmt' = TRUE
        /\ Done([Cur EXCEPT !.flags = @ \cup {"YDAY", "WDAY", "MONTH", "MDAY", "YEAR"}])
  /\ UNCHANGED <<format, input, reads, ret>>

\* %Z: the run of upper-case letters next in buf, possibly empty.  GMT and
\* UTC set *GMTp, the zone's own names set tm_isdst, any other fails.
ConvZone ==
  /\ Conv({"Z"})
  /\ LET w == IF buf # <<>> /\ Head(buf) \in UpperWords THEN Head(buf) ELSE ""
     IN CASE w = "" -> Done(Cur) /\ UNCHANGED <<buf, tm, gmt>>
          [] w \in {"GMT", "UTC"} ->
               buf' = Tail(buf) /\ gmt' = TRUE /\ Done(Cur) /\ UNCHANGED tm
          [] w = TzName[1] ->
               buf' = Tail(buf) /\ tm' = [tm EXCEPT !.isdst = 0] /\ Done(Cur) /\ UNCHANGED gmt
          [] w = TzName[2] ->
               buf' = Tail(buf) /\ tm' = [tm EXCEPT !.isdst = 1] /\ Done(Cur) /\ UNCHANGED gmt
          [] OTHER -> Fail /\ UNCHANGED gmt
  /\ UNCHANGED <<format, input, reads, ret>>

RECURSIVE OffsetDigits_noScale(_, _, _)
OffsetDigits_noScale(b, len, acc) ==
  CASE len = 0 -> [ok |-> TRUE, val |-> acc, rest |-> b]
    [] DigitNext(b) -> OffsetDigits_noScale(Tail(b), len - 1, 10 * acc + Val(Head(b)))
    [] len = 2 -> [ok |-> TRUE, val |-> acc, rest |-> b]
    [] OTHER -> [ok |-> FALSE, val |-> acc, rest |-> b]

\* for (len = 4; len > 0; len--): four digits, or two and then i *= 100.
RECURSIVE OffsetDigits(_, _, _)
OffsetDigits(b, len, acc) ==
  CASE len = 0 -> [ok |-> TRUE, val |-> acc, rest |-> b]
    [] DigitNext(b) -> OffsetDigits(Tail(b), len - 1, 10 * acc + Val(Head(b)))
    [] len = 2 -> [ok |-> TRUE, val |-> acc * 100, rest |-> b]
    [] OTHER -> [ok |-> FALSE, val |-> acc, rest |-> b]

\* The offsets the code accepts, as sign and hhmm.
OffsetOK(sign, i) == i <= 1400 /\ (sign = -1 => i <= 1200) /\ i % 100 < 60

\* %z: +hhmm, -hhmm, +hh or -hh; the offset is taken off the hour and
\* minute already in tm.
ConvZ ==
  /\ Conv({"z"})
  /\ LET sign == IF Matches(buf, "-") THEN -1 ELSE 1
         s == OffsetDigits(Tail(buf), 4, 0)
     IN IF ~(Matches(buf, "+") \/ Matches(buf, "-")) \/ ~s.ok \/ ~OffsetOK(sign, s.val)
          THEN Fail /\ UNCHANGED gmt
        ELSE /\ buf' = s.rest
             /\ tm' = [tm EXCEPT !.hour = @ - sign * (s.val \div 100),
                                 !.min = @ - sign * (s.val % 100)]
             /\ gmt' = TRUE
             /\ Done(Cur)
  /\ UNCHANGED <<format, input, reads, ret>>

\* Every conversion character the switch handles.
Handled ==
  {"%", "+", "C", "c", "D", "E", "O", "F", "R", "r", "T", "X", "x", "j", "M",
   "S", "H", "I", "k", "l", "p", "A", "a", "U", "W", "u", "w", "e", "d", "B",
   "b", "h", "m", "s", "Y", "y", "Z", "z", "n", "t"}

\* default: return (NULL); also a format that ends in '%' (c is NUL).
ConvDefault ==
  /\ Cur.pc = "conv" /\ ~(Cur.fmt # <<>> /\ c \in Handled)
  /\ Fail
  /\ UNCHANGED <<format, input, gmt, ret, reads>>

--------------------------------------------------------------------------------
(* The completion, lines 622-694.                                          *)

\* The century and the two-digit year make tm_year.
Century ==
  /\ Cur.pc = "century"
  /\ LET y0 == IF Cur.year = -1 THEN 0 ELSE Cur.year
         y == IF Cur.century = -1 THEN (IF y0 < 69 THEN y0 + 100 ELSE y0)
              ELSE y0 + Cur.century * 100 - 1900
     IN tm' = IF Cur.century # -1 \/ Cur.year # -1 THEN [tm EXCEPT !.year = y] ELSE tm
  /\ Top([Cur EXCEPT !.pc = "yday"])
  /\ UNCHANGED <<format, input, gmt, ret, buf, reads>>

WeekZeroEmpty_anyWeek(fwo, woff, doff) == fwo = doff

\* No incomplete week (week 0) when the year starts on the week's first day.
WeekZeroEmpty(fwo, woff, doff) == woff = 0 /\ fwo = doff

WeekYday_noWrap(fwo, woff, doff, wd) ==
  (7 - fwo + doff) + (woff - 1) * 7 + ((wd - doff + 7) % 7)

\* The day of the year of the week day wd in week woff.
WeekYday(fwo, woff, doff, wd) ==
  ((7 - fwo + doff) % 7) + (woff - 1) * 7 + ((wd - doff + 7) % 7)

\* The day of the year, from the month and day or from the week.
YdayFromDate ==
  /\ Cur.pc = "yday"
  /\ LET f == Cur.flags
         fwo == FirstWdayOf(tm.year + 1900)
         wd == IF "WDAY" \in f THEN tm.wday ELSE Cur.doff
         ty == WeekYday(fwo, Cur.woff, Cur.doff, wd)
         next == [Cur EXCEPT !.pc = "month", !.flags = @ \cup {"YDAY"}]
         byDate == {"MONTH", "MDAY"} \subseteq f
     IN CASE "YDAY" \in f \/ "YEAR" \notin f \/ (~byDate /\ Cur.doff = -1) ->
               Top([Cur EXCEPT !.pc = "month"]) /\ UNCHANGED <<tm, reads>>
          [] byDate ->
               /\ tm' = [tm EXCEPT !.yday = SOM(Leap, tm.mon) + tm.mday - 1]
               /\ reads' = reads \cup {tm.mon}
               /\ Top(next)
          [] WeekZeroEmpty(fwo, Cur.woff, Cur.doff) \/ (ty < 0 /\ "WDAY" \in f) ->
               Fail /\ UNCHANGED reads
          [] OTHER ->
               /\ tm' = [tm EXCEPT !.yday = IF ty < 0 THEN 0 ELSE ty]
               /\ Top(next)
               /\ UNCHANGED reads
  /\ UNCHANGED <<format, input, gmt, ret, buf>>

\* With a year and a day of the year: the month search starts, or the
\* month is known.
MonthStart ==
  /\ Cur.pc = "month"
  /\ IF {"YEAR", "YDAY"} \subseteq Cur.flags
       THEN Top([Cur EXCEPT !.pc = IF "MONTH" \in Cur.flags THEN "mday" ELSE "monthscan",
                            !.i = 0])
       ELSE Top([Cur EXCEPT !.pc = "done"])
  /\ UNCHANGED <<format, input, gmt, ret, buf, tm, reads>>

MonthOfIndex_noShift(i) == i

\* tm_mon = i - 1: the search stops one past the month.
MonthOfIndex(i) == i - 1

\* while (tm_yday >= start_of_month[leap][i]) i++;  The index has no bound:
\* past the second row the value read is not the array's, and whether the
\* loop goes on is any outcome (up to MaxScanIndex).
MonthScan ==
  /\ Cur.pc = "monthscan"
  /\ reads' = reads \cup {Cur.i}
  /\ LET inArray == Cell(Leap, Cur.i) < Len(StartOfMonth)
         goOn == IF inArray THEN {tm.yday >= SOM(Leap, Cur.i)} ELSE BOOLEAN
     IN \E more \in goOn :
          IF more /\ Cur.i < MaxScanIndex
            THEN Top([Cur EXCEPT !.i = @ + 1]) /\ UNCHANGED tm
          ELSE IF Cur.i > 12
            THEN /\ tm' = [tm EXCEPT !.mon = 0, !.yday = @ - SOM(Leap, 12), !.year = @ + 1]
                 /\ Top([Cur EXCEPT !.pc = "mday", !.flags = @ \cup {"MONTH"}])
          ELSE /\ tm' = [tm EXCEPT !.mon = MonthOfIndex(Cur.i)]
               /\ Top([Cur EXCEPT !.pc = "mday", !.flags = @ \cup {"MONTH"}])
  /\ UNCHANGED <<format, input, gmt, ret, buf>>

\* The day of the month from the day of the year.
MdayFromYday ==
  /\ Cur.pc = "mday"
  /\ IF "MDAY" \in Cur.flags THEN UNCHANGED <<tm, reads>>
     ELSE /\ tm' = [tm EXCEPT !.mday = tm.yday - SOM(Leap, tm.mon) + 1]
          /\ reads' = reads \cup {tm.mon}
  /\ Top([Cur EXCEPT !.pc = "wday", !.flags = @ \cup {"MDAY"}])
  /\ UNCHANGED <<format, input, gmt, ret, buf>>

\* The day of the week from the day of the year.
WdayFromYday ==
  /\ Cur.pc = "wday"
  /\ tm' = IF "WDAY" \in Cur.flags THEN tm
           ELSE [tm EXCEPT !.wday = CMod(FirstWdayOf(tm.year + 1900) + tm.yday, 7)]
  /\ Top([Cur EXCEPT !.pc = "done", !.flags = @ \cup {"WDAY"}])
  /\ UNCHANGED <<format, input, gmt, ret, buf, reads>>

\* strptime_bsd(): when the outer call returned a pointer and set *GMTp,
\* tm is read as UTC and refilled as local time.
StrptimeBsd ==
  /\ Len(stack) = 1 /\ Cur.pc \in {"done", "fail"} /\ ~ret
  /\ tm' = IF Cur.pc = "done" /\ gmt THEN LocalTime(TimeGm(tm), LocalOffset) ELSE tm
  /\ ret' = TRUE
  /\ UNCHANGED <<format, input, buf, stack, reads, gmt>>

\* strptime_bsd() has returned.
Returned ==
  /\ ret
  /\ UNCHANGED vars

Next ==
  \/ Literal \/ Percent \/ FormatEnd
  \/ ConvPercent \/ ConvCall \/ Return \/ ConvAlt \/ ConvC \/ ConvJ \/ ConvMS
  \/ ConvHour \/ ConvP \/ ConvWeek \/ ConvWday \/ ConvMday \/ ConvMon
  \/ ConvYear \/ ConvSpace \/ ConvDayName \/ ConvMonName \/ ConvS \/ ConvZone
  \/ ConvZ \/ ConvDefault
  \/ Century \/ YdayFromDate \/ MonthStart \/ MonthScan \/ MdayFromYday
  \/ WdayFromYday \/ StrptimeBsd \/ Returned

Spec == Init /\ [][Next]_vars

================================================================================
